---------------------------- MODULE SpriteRaster ----------------------------
(***************************************************************************)
(* The drawing of the sprite library (src/tools/sprite), bit by bit: the   *)
(* raster functions that shift a line of a background plane into the       *)
(* frame, the clipping of a sprite at the four edges, and the drawing of a *)
(* character into a plane.  The data are symbolic: every bit read is a tag *)
(* naming where it came from, so one state stands for all pictures.        *)
(*                                                                         *)
(* A plane's line is three groups of 8 words (two colour planes and the    *)
(* mask); a frame row is two groups of 4.  Bit 0 of a word is its leftmost *)
(* pixel.                                                                  *)
(***************************************************************************)
EXTENDS Integers, Sequences

CONSTANTS FR_Y,        \* rows of the frame: 88
          Lines,       \* lines of a plane, BG_CY * 8: 256
          Xs, Ys,      \* scroll positions set
          SpriteXs, SpriteYs  \* sprite positions, signed bytes

SignedBytes == -128 .. 127

ASSUME RasterAssumption ==
    /\ FR_Y \in Nat \ {0} /\ Lines \in Nat \ {0} /\ FR_Y <= Lines
    /\ Xs \subseteq Int /\ Ys \subseteq Int
    /\ SpriteXs \subseteq SignedBytes /\ SpriteYs \subseteq SignedBytes

Bits == 0 .. 31
Zero == << >>
One == <<1>>
Clash == <<0, 0>>                 \* two sources ored into one bit

\* Words of the processor.  Its shifts and rotates take 0 to 8 places; a longer
\* one is nothing the library can mean.
Junk == [i \in Bits |-> Clash]
Within(n, w) == IF n \in 0 .. 8 THEN w ELSE Junk
srl(w, n) == Within(n, [i \in Bits |-> IF i + n \in Bits THEN w[i + n] ELSE Zero])
sll(w, n) == Within(n, [i \in Bits |-> IF i - n \in Bits THEN w[i - n] ELSE Zero])
rr(w, n) == Within(n, [i \in Bits |-> w[(i + n) % 32]])
rl(w, n) == Within(n, [i \in Bits |-> w[(i - n) % 32]])
not(w) == [i \in Bits |-> IF w[i] = Zero THEN One ELSE Zero]
and(w, mask) == [i \in Bits |-> IF mask[i] = One THEN w[i] ELSE Zero]
or(v, w) == [i \in Bits |-> IF v[i] = Zero THEN w[i] ELSE IF w[i] = Zero THEN v[i] ELSE Clash]
\* The constant whose bits from..to are set.
Ones(from, to) == [i \in Bits |-> IF i \in from .. to THEN One ELSE Zero]

------------------------------------------------------------------------------
\* A word of a plane's frame buffer, at a word address: 24 words to a line.
Source(a) ==
    [i \in Bits |-> <<"bit", a \div 24, (a % 24) \div 8, (a % 8) * 32 + i>>]

\* write_raster0_a0..a3 and write_raster1_a0..a3, chosen by h \div 8: how each
\* word is turned, which bits of the turned word stay in their own word of the
\* frame (keep) and how the very first word is brought into place.
Turn(w, h) ==
    CASE h \div 8 = 0 -> rr(w, h)
      [] h \div 8 = 1 -> rr(rr(w, 8), h - 8)
      [] h \div 8 = 2 -> rl(rl(w, 8), 24 - h)
      [] h \div 8 = 3 -> rl(w, 32 - h)

\* Mutated: one bit less kept of words turned by 16 to 23.
Keep_OneMore(h) ==
    CASE h \div 8 = 0 -> srl(Ones(0, 31), h)
      [] h \div 8 = 1 -> srl(Ones(0, 23), h - 8)
      [] h \div 8 = 2 -> not(sll(Ones(7, 31), 24 - h))
      [] h \div 8 = 3 -> not(sll(Ones(0, 31), 32 - h))

Keep(h) ==
    CASE h \div 8 = 0 -> srl(Ones(0, 31), h)
      [] h \div 8 = 1 -> srl(Ones(0, 23), h - 8)
      [] h \div 8 = 2 -> not(sll(Ones(8, 31), 24 - h))
      [] h \div 8 = 3 -> not(sll(Ones(0, 31), 32 - h))

\* The bits of a turned word that belong to the word of the frame before.
Rest(h) == not(Keep(h))

First(w, h) ==
    CASE h \div 8 = 0 -> srl(w, h)
      [] h \div 8 = 1 -> srl(srl(w, 8), h - 8)
      [] h \div 8 \in {2, 3} -> and(Turn(w, h), Keep(h))

\* The source pointer steps to the next word and wraps at the line's end.
Step(a, ed) == IF a + 1 = ed THEN a + 1 - 8 ELSE a + 1
\* The five words a raster function reads, from address a on.
Walk(a, ed) ==
    LET b == Step(a, ed)
        c == Step(b, ed)
        d == Step(c, ed)
    IN  <<a, b, c, d, Step(d, ed)>>

\* The four words a raster function makes of five consecutive source words;
\* offset selects the group (src[0], src[8], src[16]).
RasterWords(a, ed, h, offset) ==
    LET W(n) == Source(Walk(a, ed)[n + 1] + offset)
        Own(n) == IF n = 0 THEN First(W(0), h) ELSE and(Turn(W(n), h), Keep(h))
    IN  [n \in 0 .. 3 |-> or(Own(n), and(Turn(W(n + 1), h), Rest(h)))]

\* The end of a line's first group and the word its pixels start in; x >> 3,
\* masked to whole words, is how far from the line's start.
LineEnd(line) == line * 24 + 8
StartWord(x, ed) == ed - (8 - (x % 256) \div 32)

\* write_bg0: both groups of a line, copied over the frame.
RasterCopy(x, ed) ==
    << RasterWords(StartWord(x, ed), ed, x % 32, 0),
       RasterWords(StartWord(x, ed + 8), ed + 8, x % 32, 0) >>

\* write_bg1: three groups of the line; the frame is masked, then ored with.
RasterMerge(x, ed) ==
    << RasterWords(StartWord(x, ed), ed, x % 32, 0),
       RasterWords(StartWord(x, ed), ed, x % 32, 8),
       RasterWords(StartWord(x, ed), ed, x % 32, 16) >>

\* The next line of the plane, from its last line back to its first.
NextLine(ed) == IF ed + 24 > Lines * 24 THEN ed + 24 - Lines * 24 ELSE ed + 24

------------------------------------------------------------------------------
\* sp_write_1c: how many of the sprite's 8 rows are drawn, the row of the pattern
\* the first of them is, the frame row it goes to and the direction of both.
RowsDrawn(y) ==
    IF y \in 0 .. 80 THEN 8
    ELSE IF y > 80 THEN (IF y <= 87 THEN 88 - y ELSE 0)
    ELSE (IF y >= -7 THEN 8 + y ELSE 0)
\* Mutated: a sprite turned over is cut at the wrong end below the screen.
FirstPatternRow_NotClipped(y, vrev) == IF ~vrev /\ y < 0 THEN -y ELSE 0
FirstPatternRow(y, vrev) ==
    IF vrev THEN (IF y > 80 THEN 8 - RowsDrawn(y) ELSE 0)
            ELSE (IF y < 0 THEN -y ELSE 0)
FirstFrameRow(y, vrev) ==
    IF vrev THEN y + 7 - (IF y > 80 THEN 8 - RowsDrawn(y) ELSE 0)
            ELSE y + (IF y < 0 THEN -y ELSE 0)

\* A byte of the pattern, widened: colours with zeros, the mask with ones.
PatternByte(r, q, hrev) ==
    [i \in Bits |-> IF i \in 0 .. 7 THEN <<"pat", r, q, IF hrev THEN 7 - i ELSE i>>
                    ELSE IF q = 2 THEN One ELSE Zero]

\* A byte written to the frame: frame byte \cap mask \cup colour.
Byte(mask, colour) == [i \in 0 .. 7 |-> <<mask[i], colour[i]>>]

\* What one row writes: pairs of the byte's offset in the frame and its value.
SpriteRow(x, base, r, hrev) ==
    LET p(q) == PatternByte(r, q, hrev)
        n == x % 8
        left(q) == IF q = 2 THEN rl(p(2), n) ELSE sll(p(q), n)
    IN  IF x \in 0 .. 120
           THEN {<<base + 16 * q, Byte(left(2), left(q))>> : q \in {0, 1}}
                \union {<<base + 1 + 16 * q, Byte(srl(left(2), 8), srl(left(q), 8))>> : q \in {0, 1}}
        ELSE IF x > 120
           THEN {<<base + 16 * q, Byte(left(2), left(q))>> : q \in {0, 1}}
        ELSE IF x >= -7
           THEN {<<base + 1 + 16 * q, Byte(srl(p(2), -x), srl(p(q), -x))>> : q \in {0, 1}}
        ELSE {}

SpriteBytes(x, y, hrev, vrev) ==
    UNION { SpriteRow(x,
                      (x \div 8) + 32 * (FirstFrameRow(y, vrev) + (IF vrev THEN -k ELSE k)),
                      FirstPatternRow(y, vrev) + k, hrev) : k \in 0 .. RowsDrawn(y) - 1 }

------------------------------------------------------------------------------
\* Up from behind the last line, two planes forward in each.
Upwards[n \in 0 .. 23] == (IF n = 0 THEN 0 ELSE Upwards[n - 1]) + (IF n % 3 = 0 THEN -160 ELSE 32)

\* Mutated: the start is the last line, though the first step goes up already.
CharOffset_FromLast(cx, cy, vrev, n) == cy * 768 + cx + (IF vrev THEN 768 + Upwards[n] ELSE 32 * n)

\* bg_write_1c: the 24 pattern bytes in order, at offsets that go down the lines,
\* or up them from the last when the character is turned over.
CharOffset(cx, cy, vrev, n) == cy * 768 + cx + (IF vrev THEN 832 + Upwards[n] ELSE 32 * n)
CharBytes(cx, cy, hrev, vrev) ==
    {<<CharOffset(cx, cy, vrev, n), PatternByte(n \div 3, n % 3, hrev)>> : n \in 0 .. 23}

------------------------------------------------------------------------------
VARIABLES job,   \* what is being drawn
          row,   \* row of the frame
          ed,    \* end of the line it is drawn from
          out    \* what the last step drew

rasterVars == <<job, row, ed, out>>
Nothing == << >>

PlaneJob == [kind : {"copy", "merge"}, x : Xs, y : Ys]
LineJob == [kind : {"copyline", "mergeline"}, x : Xs, y : Ys]
SpriteJob == [kind : {"sprite"}, x : SpriteXs, y : SpriteYs, hrev : BOOLEAN, vrev : BOOLEAN]
CharJob == [kind : {"char"}, x : 0 .. 31, y : 0 .. 31, hrev : BOOLEAN, vrev : BOOLEAN]

RasterInit ==
    /\ job \in PlaneJob \union LineJob \union SpriteJob \union CharJob
    /\ row = 0
    /\ ed = IF job.kind \in {"sprite", "char"} THEN 0 ELSE LineEnd(job.y % Lines)
    /\ out = Nothing

\* write_bg0 and write_bg1: one row of the frame, then the next line.
DrawRow ==
    /\ job.kind \in {"copy", "merge"}
    /\ row < FR_Y
    /\ out' = IF job.kind = "copy" THEN RasterCopy(job.x, ed) ELSE RasterMerge(job.x, ed)
    /\ row' = row + 1
    /\ ed' = NextLine(ed)
    /\ UNCHANGED job

\* write_bg0_line and write_bg1_line: every row has a position of its own.
DrawScrolledRow ==
    /\ job.kind \in {"copyline", "mergeline"}
    /\ row = 0
    /\ out' = IF job.kind = "copyline" THEN RasterCopy(job.x, ed) ELSE RasterMerge(job.x, ed)
    /\ row' = 1
    /\ UNCHANGED <<job, ed>>

DrawSprite ==
    /\ job.kind = "sprite"
    /\ row = 0
    /\ out' = SpriteBytes(job.x, job.y, job.hrev, job.vrev)
    /\ row' = 1
    /\ UNCHANGED <<job, ed>>

DrawChar ==
    /\ job.kind = "char"
    /\ row = 0
    /\ out' = CharBytes(job.x, job.y, job.hrev, job.vrev)
    /\ row' = 1
    /\ UNCHANGED <<job, ed>>

RasterNext == DrawRow \/ DrawScrolledRow \/ DrawSprite \/ DrawChar

RasterSpec == RasterInit /\ [][RasterNext]_rasterVars

------------------------------------------------------------------------------
\* Row n of a plane at scroll position x, y is the 128 pixels from x on of the
\* line y + n, round the plane's edges, in every colour plane and in the mask,
\* for all 256 positions and the four functions that share the work (comments
\* before pclSpriteBGSetPosition; pclsprite.c:805-838).
RowShowsPlane ==
    job.kind \notin {"sprite", "char"} /\ row > 0 =>
        \A q \in DOMAIN out, n \in 0 .. 3, i \in Bits :
            out[q][n][i] = <<"bit", (job.y + row - 1) % Lines, q - 1, (job.x + 32 * n + i) % 256>>

\* Which pixel of the pattern lies on which pixel of the screen.
Mirrored(k, rev) == IF rev THEN 7 - k ELSE k
OnScreen == ((job.x .. job.x + 7) \cap (0 .. 127)) \X ((job.y .. job.y + 7) \cap (0 .. 87))
SpritePixel(p, q) ==
    LET r == Mirrored(p[2] - job.y, job.vrev)
        c == Mirrored(p[1] - job.x, job.hrev)
    IN  << <<"pat", r, 2, c>>, <<"pat", r, q, c>> >>
PixelOffset(p, q) == 32 * p[2] + 16 * q + p[1] \div 8

\* A sprite, clipped at any edge and turned either way, masks and colours exactly
\* the pixels of its box that are on the screen, each with its own pattern pixel,
\* and rewrites every other bit it touches as it was (pclspr1c.s:25-410).
SpriteFillsItsBox ==
    job.kind = "sprite" /\ row > 0 =>
        /\ \A p \in OnScreen, q \in {0, 1} :
              \E w \in out : w[1] = PixelOffset(p, q) /\ w[2][p[1] % 8] = SpritePixel(p, q)
        /\ \A w \in out, i \in 0 .. 7 :
              w[2][i] = <<One, Zero>>
              \/ \E p \in OnScreen, q \in {0, 1} : w[1] = PixelOffset(p, q) /\ p[1] % 8 = i

\* The 8 lines of a character hold its pattern's rows in order, or in reverse when
\* it is turned over, three bytes to a row (pclspbg1c.s:25-228).
CharacterInPlace ==
    job.kind = "char" /\ row > 0 =>
        out = { <<(8 * job.y + l) * 96 + 32 * q + job.x,
                  PatternByte(Mirrored(l, job.vrev), q, job.hrev)>> : l \in 0 .. 7, q \in 0 .. 2 }
=============================================================================
