------------------------------- MODULE SpriteBG -------------------------------
(***************************************************************************)
(* The sprite library's calls (src/tools/sprite/pclsprite.c) on top of the *)
(* change check of SpriteCache: the text functions, which work in place in *)
(* plane 0's map, the sprite registers, the display mode and the frame     *)
(* pclSpriteMakeFrame puts together.  The library runs in the program's    *)
(* only thread; calls before pclSpriteInit do nothing.                     *)
(***************************************************************************)
EXTENDS SpriteCache, Integers, Sequences

CONSTANTS CX, CY,        \* BG_CX, BG_CY: 32 x 32 in pclsprite.h
          cur_rx, cur_dy,\* right and lower end of the text window: 16, 11
          Maps,          \* maps the program copies in through pclSpriteBGGetAdr
          SetCells,      \* cells it writes with pclSpriteBGSetCharacter
          PutChars,      \* codes it writes
          Targets,       \* places it moves the cursor to
          DispModes,     \* display modes it selects, sets of the flags below
          SPRMAX,        \* sprites the work area has room for
          SpriteRegs,    \* register values it writes
          CALLS          \* bound on the calls of a behaviour

\* pclSpriteInit is the only place that sets the window's upper left corner.
cur_lx == 0
cur_uy == 0
DispFlags == {"BG0", "BG1", "SPR", "PRIO", "NOCHK0", "NOCHK1"}
Hidden == [on |-> FALSE, prio |-> FALSE]

ASSUME SpriteAssumption ==
    /\ Planes = {0, 1}
    /\ CX \in Nat /\ CY \in Nat
    /\ Cells = (0 .. CX - 1) \X (0 .. CY - 1)
    /\ cur_rx \in 1 .. CX /\ cur_dy \in 1 .. CY
    /\ Maps \subseteq [Cells -> Chars]
    /\ SetCells \subseteq Cells /\ PutChars \subseteq Chars
    /\ Targets \subseteq Int \X Int
    /\ DispModes \subseteq SUBSET DispFlags
    /\ SPRMAX \in Nat /\ CALLS \in Nat

VARIABLES ready,         \* pclSpriteInit has been called
          cursor_x, cursor_y,
          disp,          \* display mode
          sreg,          \* sprite registers
          fram,          \* the frame: what was drawn, from back to front
          calls          \* calls so far, bounded by CALLS

spriteVars == <<cacheVars, ready, cursor_x, cursor_y, disp, sreg, fram, calls>>

cursor == <<cursor_x, cursor_y>>

Rows == cur_dy - cur_uy
Cols == cur_rx - cur_lx
Inside(x) == cur_lx <= x /\ x < cur_rx

\* memcpy and memset of one row of the window.
CopyRow(m, dst, src) ==
    [c \in Cells |-> IF c[2] = dst /\ Inside(c[1]) THEN m[<<c[1], src>>] ELSE m[c]]
ClearRow(m, y) ==
    [c \in Cells |-> IF c[2] = y /\ Inside(c[1]) THEN Blank ELSE m[c]]

\* One column of the window copied, as the x loops of LF and RI do per row.
CopyCol(m, dst, src) ==
    [c \in Cells |-> IF c[1] = dst /\ cur_uy <= c[2] /\ c[2] < cur_dy
                        THEN m[<<src, c[2]>>] ELSE m[c]]
ClearCol(m, x) ==
    [c \in Cells |-> IF c[1] = x /\ cur_uy <= c[2] /\ c[2] < cur_dy THEN Blank ELSE m[c]]

\* Mutated: the rows are copied in the opposite order.
CopyRows_FromFarEnd(m, first, d) ==
    LET after[k \in 0 .. Rows - 1] ==
            IF k = 0 THEN m
            ELSE LET y == first + d * (Rows - 1 - k) IN CopyRow(after[k - 1], y, y + d)
    IN  after[Rows - 1]

\* The copying loops of pclSpriteBGScroll: in place, from the row or column
\* given towards the end that scrolls in, so the order of the passes matters.
CopyRows(m, first, d) ==
    LET after[k \in 0 .. Rows - 1] ==
            IF k = 0 THEN m
            ELSE LET y == first + d * (k - 1) IN CopyRow(after[k - 1], y, y + d)
    IN  after[Rows - 1]
CopyCols(m, first, d) ==
    LET after[k \in 0 .. Cols - 1] ==
            IF k = 0 THEN m
            ELSE LET x == first + d * (k - 1) IN CopyCol(after[k - 1], x, x + d)
    IN  after[Cols - 1]

ScrollUp(m) == ClearRow(CopyRows(m, cur_uy, 1), cur_dy - 1)
ScrollDown(m) == ClearRow(CopyRows(m, cur_dy - 1, -1), cur_uy)
ScrollLeft(m) == ClearCol(CopyCols(m, cur_lx, 1), cur_rx - 1)
ScrollRight(m) == ClearCol(CopyCols(m, cur_rx - 1, -1), cur_lx)

\* pclSpriteBGClear's loop over the rows of the window.
ClearRows(m) ==
    LET after[k \in 0 .. Rows] ==
            IF k = 0 THEN m ELSE ClearRow(after[k - 1], cur_uy + (k - 1))
    IN  after[Rows]

\* The cursor put at the start of the next row; at the last row the window
\* scrolls instead.
Feed(m, y) ==
    IF y + 1 >= cur_dy THEN [m |-> ScrollUp(m), y |-> y] ELSE [m |-> m, y |-> y + 1]

\* Mutated: the cursor may stand one past the row's end and still write.
Wrapped_Late ==
    IF cursor_x > cur_rx
       THEN LET f == Feed(bga[0], cursor_y) IN [m |-> f.m, x |-> cur_lx, y |-> f.y]
       ELSE [m |-> bga[0], x |-> cursor_x, y |-> cursor_y]

Wrapped ==
    IF cursor_x >= cur_rx
       THEN LET f == Feed(bga[0], cursor_y) IN [m |-> f.m, x |-> cur_lx, y |-> f.y]
       ELSE [m |-> bga[0], x |-> cursor_x, y |-> cursor_y]

Call ==
    /\ calls < CALLS
    /\ calls' = calls + 1

------------------------------------------------------------------------------
\* A call that changes nothing but maps, through WriteMap.
OnlyMap == UNCHANGED <<ready, disp, sreg, fram>>

BGSetCharacter(p, c, chr) ==
    /\ Call /\ ready
    /\ WriteMap(p, [bga[p] EXCEPT ![c] = chr])
    /\ OnlyMap /\ UNCHANGED cursor

\* The program fills a map through the pointer pclSpriteBGGetAdr returns.
FillMap(p, m) ==
    /\ Call /\ ready
    /\ WriteMap(p, m)
    /\ OnlyMap /\ UNCHANGED cursor

BGPutCharacter(chr) ==
    /\ Call /\ ready
    /\ WriteMap(0, [Wrapped.m EXCEPT ![<<Wrapped.x, Wrapped.y>>] = chr])
    /\ cursor_x' = Wrapped.x + 1
    /\ cursor_y' = Wrapped.y
    /\ OnlyMap

\* pclSpriteBGPutCharacter('\n').
BGPutNewline ==
    /\ Call /\ ready
    /\ LET f == Feed(Wrapped.m, Wrapped.y) IN
          /\ WriteMap(0, f.m)
          /\ cursor_x' = cur_lx
          /\ cursor_y' = f.y
    /\ OnlyMap

BGClear ==
    /\ Call /\ ready
    /\ WriteMap(0, ClearRows(bga[0]))
    /\ cursor_x' = cur_lx
    /\ cursor_y' = cur_uy
    /\ OnlyMap

BGScroll(dir) ==
    /\ Call /\ ready
    /\ WriteMap(0, CASE dir = "UP" -> ScrollUp(bga[0])
                      [] dir = "DN" -> ScrollDown(bga[0])
                      [] dir = "LF" -> ScrollLeft(bga[0])
                      [] dir = "RI" -> ScrollRight(bga[0]))
    /\ OnlyMap /\ UNCHANGED cursor

\* Each coordinate is taken if it lies in the window.
BGSetCursor(x, y) ==
    /\ Call
    /\ ready
    /\ cursor_x' = IF Inside(x) THEN x ELSE cursor_x
    /\ cursor_y' = IF cur_uy <= y /\ y < cur_dy THEN y ELSE cursor_y
    /\ OnlyMap /\ UNCHANGED cacheVars

Flush ==
    /\ Call /\ ready
    /\ BGFlush
    /\ OnlyMap /\ UNCHANGED cursor

ChangePatterns(q) ==
    /\ Call
    /\ SetPatternAdr(q)
    /\ OnlyMap /\ UNCHANGED cursor

\* pclSpriteDispMode; a negative argument only reads.
DispMode(d) ==
    /\ Call
    /\ disp' = d
    /\ UNCHANGED <<cacheVars, cursor, ready, sreg, fram>>

SpriteSetCharacter(num, r) ==
    /\ Call
    /\ ready
    /\ sreg' = [sreg EXCEPT ![num] = r]
    /\ UNCHANGED <<cacheVars, cursor, ready, disp, fram>>

\* pclSpriteInit with a work area that is large enough.
LibInit(q) ==
    /\ Call
    /\ SpriteInit(q)
    /\ ready' = TRUE
    /\ cursor_x' = 0 /\ cursor_y' = 0
    /\ disp' = {"SPR", "BG0", "BG1"}
    /\ sreg' = [i \in 1 .. SPRMAX |-> Hidden]
    /\ UNCHANGED fram

\* Which planes pclSpriteMakeFrame checks, and the layers it draws.
Checked == {p \in Planes : (IF p = 0 THEN "NOCHK0" ELSE "NOCHK1") \notin disp}
Back == IF "PRIO" \in disp THEN 1 ELSE 0
Displayed(p) == (IF p = 0 THEN "BG0" ELSE "BG1") \in disp
PlaneLayer(p, img) == <<"plane", p, img>>
\* One layer per pass of the loop over the registers; a pass whose sprite is
\* hidden or of the other priority draws nothing.
SpriteLayers(front) ==
    IF "SPR" \notin disp THEN << >>
    ELSE [i \in 1 .. SPRMAX |->
             IF sreg[i].on /\ sreg[i].prio = front THEN <<"sprite", i, sreg[i]>>
                                                   ELSE <<"nothing">>]

BGMakeFrame ==
    /\ Call /\ ready
    /\ MakeFrame(Checked)
    /\ fram' = << IF Displayed(Back) THEN PlaneLayer(Back, bgf'[Back]) ELSE <<"fill">> >>
               \o SpriteLayers(FALSE)
               \o (IF Displayed(1 - Back) THEN <<PlaneLayer(1 - Back, bgf'[1 - Back])>> ELSE << >>)
               \o SpriteLayers(TRUE)
    /\ UNCHANGED <<cursor, ready, disp, sreg>>

------------------------------------------------------------------------------
Init ==
    /\ CacheInit
    /\ ready = FALSE
    /\ cursor_x = 0 /\ cursor_y = 0
    /\ disp = {}
    /\ sreg = [i \in 1 .. SPRMAX |-> Hidden]
    /\ fram = << >>
    /\ calls = 0

Next ==
    \/ \E q \in Patterns : LibInit(q) \/ ChangePatterns(q)
    \/ \E p \in Planes, c \in SetCells, chr \in PutChars : BGSetCharacter(p, c, chr)
    \/ \E p \in Planes, m \in Maps : FillMap(p, m)
    \/ \E chr \in PutChars : BGPutCharacter(chr)
    \/ BGPutNewline
    \/ BGClear
    \/ \E dir \in {"UP", "DN", "LF", "RI"} : BGScroll(dir)
    \/ \E t \in Targets : BGSetCursor(t[1], t[2])
    \/ Flush
    \/ \E d \in DispModes : DispMode(d)
    \/ \E i \in 1 .. SPRMAX, r \in SpriteRegs : SpriteSetCharacter(i, r)
    \/ BGMakeFrame

Spec == Init /\ [][Next]_spriteVars

------------------------------------------------------------------------------
TypeOK ==
    /\ CacheTypeOK
    /\ ready \in BOOLEAN
    /\ cursor_x \in 0 .. cur_rx
    /\ cursor_y \in 0 .. cur_dy - 1
    /\ disp \subseteq DispFlags
    /\ sreg \in [1 .. SPRMAX -> SpriteRegs \union {Hidden}]
    /\ calls \in 0 .. CALLS

Text == INSTANCE TextWindow WITH
    text <- bga[0], col <- cursor_x, row <- cursor_y,
    COLS <- cur_rx, ROWS <- cur_dy, Loads <- Maps

\* The text functions, working row by row and column by column inside plane 0's
\* map, behave like a character window with a cursor: no row is smeared or
\* skipped, and nothing outside the window moves (pclsprite.c:215-321).
PlaysTextWindow == Text!Spec

\* A plane that is checked and displayed appears in the frame as its map stands,
\* whatever was switched off, skipped, flushed or initialised before.
FrameIsFresh ==
    [][ BGMakeFrame =>
          \A i \in DOMAIN fram' :
             fram'[i][1] = "plane" /\ fram'[i][2] \in Checked
                => fram'[i][3] = [c \in Cells |-> Glyph(bga[fram'[i][2]][c], pat)] ]_spriteVars
=============================================================================
