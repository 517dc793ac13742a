------------------------------ MODULE MCSprites ------------------------------
(***************************************************************************)
(* The sprite library for TLC, a part of MCTools.  The calls are explored  *)
(* on a library of 4 x 4 cells with a text window of 3 x 3 in the corner   *)
(* and a map whose cells all differ, so that every cell that moves to the  *)
(* wrong place is seen.  The drawing of lines, sprites and characters      *)
(* depends on nothing the calls change but their arguments, so it is       *)
(* explored on its own, on frames of full width.                           *)
(***************************************************************************)
EXTENDS SpriteBG, SpriteRaster

MCCells == (0 .. 3) \X (0 .. 3)
MCChars == 0 .. 16
Numbered == [c \in MCCells |-> 1 + c[1] + 4 * c[2]]
MCMaps == {Numbered}
MCSetCells == {<<0, 1>>, <<3, 3>>}
MCTargets == {<<2, 2>>, <<1, 3>>}
MCDispModes == {{"BG0", "BG1", "SPR", "PRIO"}, {"BG1", "SPR", "NOCHK0"}, {"BG0", "BG1", "NOCHK0"}}
MCSpriteRegs == {[on |-> TRUE, prio |-> TRUE], [on |-> TRUE, prio |-> FALSE]}

\* Every shift within a word, every word of a line, and both ends of it.
MCXs == (0 .. 31) \union (224 .. 255) \union {32 * k + 5 * k : k \in 1 .. 6}
MCYs == {0, 3, 7}
MCSpriteXs == {-128, -8, -7, -3, -1, 0, 1, 5, 113, 119, 120, 121, 124, 127}
MCSpriteYs == {-128, -8, -7, -4, -1, 0, 1, 80, 81, 84, 87, 88}

\* The calls and the drawing; at rest, the library as before the first call.
NoJob == [kind |-> "none"]
LibraryCalls == job = NoJob /\ Next /\ UNCHANGED rasterVars
Drawing == RasterNext /\ UNCHANGED spriteVars
SpritesNext == LibraryCalls \/ Drawing

SpritesRest == Init /\ pat = "p1" /\ job = NoJob /\ row = 0 /\ ed = 0 /\ out = Nothing
SpritesInit ==
    \/ Init /\ job = NoJob /\ row = 0 /\ ed = 0 /\ out = Nothing
    \/ Init /\ RasterInit
=============================================================================
