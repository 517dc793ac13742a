---------------------------- MODULE SpriteScreen ----------------------------
(***************************************************************************)
(* What a program may rely on when it draws with the sprite library: the   *)
(* planes are maps of character codes, and a frame shows every checked     *)
(* plane as its map stands, drawn with the patterns in force.  Nothing is  *)
(* said of how little the library redraws; SpriteCache does that.          *)
(***************************************************************************)
CONSTANTS Planes,    \* the two background planes (pclsprite.h: num 0, 1)
          Cells,     \* the characters of a plane (32 x 32 in pclsprite.h)
          Chars,     \* character codes a program writes
          Patterns   \* pattern tables it may select or rewrite

VARIABLES map,       \* the character codes of each plane
          image,     \* what each plane looked like when it was last checked
          pat,       \* the pattern table in force
          owed       \* the patterns changed and no flush was asked for yet

vars == <<map, image, pat, owed>>

Glyph(chr, p) == <<chr, p>>
Drawn(m, p) == [c \in Cells |-> Glyph(m[c], p)]

Undrawn == <<>>

Init ==
    /\ map \in [Planes -> [Cells -> Chars]]
    /\ image = [p \in Planes |-> [c \in Cells |-> Undrawn]]
    /\ pat \in Patterns
    /\ owed = FALSE

Write(p, m) ==
    /\ map' = [map EXCEPT ![p] = m]
    /\ UNCHANGED <<image, pat, owed>>

SetPattern(q) ==
    /\ pat' = q
    /\ owed' = TRUE
    /\ UNCHANGED <<map, image>>

Flush ==
    /\ owed' = FALSE
    /\ UNCHANGED <<map, image, pat>>

Restart(m, q) ==
    /\ map' = m
    /\ pat' = q
    /\ owed' = FALSE
    /\ UNCHANGED image

\* A frame brings the planes in S up to date; the others keep the look they
\* had when they were last checked.
Frame(S) ==
    /\ ~owed
    /\ image' = [p \in Planes |-> IF p \in S THEN Drawn(map[p], pat) ELSE image[p]]
    /\ UNCHANGED <<map, pat, owed>>

Next ==
    \/ \E p \in Planes, m \in [Cells -> Chars] : Write(p, m)
    \/ \E q \in Patterns : SetPattern(q)
    \/ \E m \in [Planes -> [Cells -> Chars]], q \in Patterns : Restart(m, q)
    \/ Flush
    \/ \E S \in SUBSET Planes : Frame(S)

Spec == Init /\ [][Next]_vars
=============================================================================
