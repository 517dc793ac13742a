----------------------------- MODULE SpriteCache -----------------------------
(***************************************************************************)
(* The change check of src/tools/sprite: a plane's map of character codes  *)
(* (bg0a, bg1a) is compared with the codes drawn so far (bg0b, bg1b), and   *)
(* only the cells that differ are drawn into the plane's frame buffer      *)
(* (bg0f, bg1f).  pclSpriteInit and pclSpriteBGFlush fill the copies with   *)
(* 0xff bytes to force a redraw, so Invalid, the code 0xffff, is not a code *)
(* a program may use.                                                      *)
(***************************************************************************)
CONSTANTS Planes,    \* {0, 1}
          Cells,     \* cells of a plane, 32 x 32 in the library
          Chars,     \* codes a program writes
          Blank,     \* code 0, to which pclSpriteInit clears the maps
          Invalid,   \* 0xffff, the code memset(bgXb, 0xff, ...) leaves
          Patterns   \* pattern tables

ASSUME CacheAssumption ==
    /\ Blank \in Chars
    /\ Invalid \notin Chars

VARIABLES bga,       \* bg0a, bg1a: the maps
          bgb,       \* bg0b, bg1b: the codes drawn last
          bgf,       \* bg0f, bg1f: the glyph each cell of the frame buffer shows
          pat,       \* pclsprite_pat, with what it points to
          owed       \* the program has changed patterns and must still flush

cacheVars == <<bga, bgb, bgf, pat, owed>>

Glyph(chr, p) == <<chr, p>>
Undrawn == <<>>
Glyphs == Chars \X Patterns

Everywhere(v) == [p \in Planes |-> [c \in Cells |-> v]]

CacheInit ==
    /\ bga = Everywhere(Blank)
    /\ bgb = Everywhere(Invalid)
    /\ bgf = Everywhere(Undrawn)
    /\ pat \in Patterns
    /\ owed = FALSE

\* The program, or one of the text functions, changes a plane's map.
WriteMap(p, m) ==
    /\ bga' = [bga EXCEPT ![p] = m]
    /\ UNCHANGED <<bgb, bgf, pat, owed>>

\* pclSpriteSetPatternAdr, or patterns rewritten in place.
SetPatternAdr(q) ==
    /\ pat' = q
    /\ owed' = TRUE
    /\ UNCHANGED <<bga, bgb, bgf>>

BGFlush ==
    /\ bgb' = Everywhere(Invalid)
    /\ owed' = FALSE
    /\ UNCHANGED <<bga, bgf, pat>>

\* Mutated: the copies are not invalidated.
SpriteInit_KeepsCopies(q) ==
    /\ bga' = Everywhere(Blank)
    /\ pat' = q
    /\ owed' = FALSE
    /\ UNCHANGED <<bgb, bgf>>

\* pclSpriteInit, the first or a later one: maps cleared, everything to be
\* redrawn with the given patterns, the frame buffers left as they are.
SpriteInit(q) ==
    /\ bga' = Everywhere(Blank)
    /\ bgb' = Everywhere(Invalid)
    /\ pat' = q
    /\ owed' = FALSE
    /\ UNCHANGED bgf

\* Mutated: the copy of a plane that is not checked is brought up to date too.
BgCheck_CopiesAll(S) ==
    /\ bgb' = bga
    /\ bgf' = [p \in Planes |-> [c \in Cells |->
                 IF p \in S /\ bga[p][c] # bgb[p][c]
                    THEN Glyph(bga[p][c], pat) ELSE bgf[p][c]]]

\* bg_check on the planes in S (those without their NOCHKBG bit); bg_check_in
\* redraws a cell whose code differs from the copy and updates the copy.
BgCheck(S) ==
    /\ bgb' = [p \in Planes |-> IF p \in S THEN bga[p] ELSE bgb[p]]
    /\ bgf' = [p \in Planes |-> [c \in Cells |->
                 IF p \in S /\ bga[p][c] # bgb[p][c]
                    THEN Glyph(bga[p][c], pat) ELSE bgf[p][c]]]

\* The comments on pclSpriteBGFlush and pclSpriteSetPatternAdr ask the program
\* to flush after a change of patterns: it makes no frame while it owes one.
MakeFrame(S) ==
    /\ ~owed
    /\ BgCheck(S)
    /\ UNCHANGED <<bga, pat, owed>>

CacheNext ==
    \/ \E p \in Planes, m \in [Cells -> Chars] : WriteMap(p, m)
    \/ \E q \in Patterns : SetPatternAdr(q)
    \/ BGFlush
    \/ \E q \in Patterns : SpriteInit(q)
    \/ \E S \in SUBSET Planes : MakeFrame(S)

CacheSpec == CacheInit /\ [][CacheNext]_cacheVars

CacheTypeOK ==
    /\ bga \in [Planes -> [Cells -> Chars]]
    /\ bgb \in [Planes -> [Cells -> Chars \union {Invalid}]]
    /\ bgf \in [Planes -> [Cells -> Glyphs \union {Undrawn}]]
    /\ pat \in Patterns
    /\ owed \in BOOLEAN

\* The frame buffer is what the copies say it is: a cell whose copy holds a
\* code shows that code's glyph in the patterns in force.  A copy that is not
\* invalidated after a change of patterns, or is updated without drawing,
\* leaves a stale glyph on the screen for good (pclsprite.c:389, 683-698).
CopiesTellTheTruth ==
    ~owed => \A p \in Planes, c \in Cells :
                bgb[p][c] # Invalid => bgf[p][c] = Glyph(bgb[p][c], pat)

CacheInv == CacheTypeOK /\ CopiesTellTheTruth

Screen == INSTANCE SpriteScreen WITH map <- bga, image <- bgf

\* The cached drawing implements drawing everything on every frame.
DrawsLikeScreen == Screen!Spec
=============================================================================
