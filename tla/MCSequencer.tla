----------------------------- MODULE MCSequencer -----------------------------
(***************************************************************************)
(* The scores TLC plays: every short sequence of items over every short    *)
(* loop body, one part with nesting and two parts side by side; and some   *)
(* written by hand.                                                        *)
(***************************************************************************)
EXTENDS ScoreLanguage

Plain  == {Note(1), Rest, Len_(3)}
Bodies == {<<a>> : a \in {Note(1), CallSub(1)}} \cup {<<a, b>> : a \in Plain, b \in {Note(2), Rest}}
Loops  == {Loop(n, b) : n \in 1 .. 2, b \in Bodies}
          \cup {LoopBreak(n, <<Note(1)>>, t) : n \in 2 .. 3, t \in {<<Rest>>, <<Note(3)>>}}
Deep   == {Loop(2, <<l, Note(4)>>) : l \in Loops}
          \cup {LoopBreak(2, <<l>>, <<m>>) : l \in Loops, m \in {Rest, CallSub(2), LoopBreak(2, <<Rest>>, <<Drum>>)}}
Items  == Plain \cup Loops \cup Deep \cup {Gate(50), CallSub(1), CallSub(2), Drum}

OnePart  == {<<<<a, b>>>> : a \in Items, b \in {l \in Loops : l.n = 2} \cup {Drum, Note(5)}}
TwoParts == {<<<<a, Note(6)>>, <<Len_(2), b, Note(7)>>>> : a \in Loops \cup {Drum}, b \in {CallSub(2), Rest}}
Songs    == {Score(s) : s \in OnePart \cup TwoParts}

(***************************************************************************)
(* Scores for the properties that need no meaning to compare with: ties,   *)
(* gates and attributes, tempo changes, parts that never end, a part of    *)
(* rests only, always two parts side by side.                              *)
(***************************************************************************)
Ties  == <<CmdN("len", 3), Cmd("legon"), CmdN("note", 1), CmdN("note", 2), Cmd("legoff"),
           CmdN("note", 3), CmdN("gate", 150), CmdN("len", 30), CmdN("note", 4), CmdN("len", 2), Cmd("rest"), Cmd("other"),
           CmdN("tatt", {"NOOFF"}), CmdN("note", 5), CmdN("tatt", {}), CmdN("gate", 40),
           CmdN("note", 6), [op |-> "jump", to |-> 1]>>
Tempi == <<CmdN("tempo", 5), CmdN("note", 1), CmdN("tempo", 3), CmdN("key", 2), CmdN("tempo", 1), Cmd("end")>>
Rests == <<Cmd("rest"), [op |-> "jump", to |-> 1]>>
Loop3 == <<CmdN("len", 2), CmdN("rept", 3), Cmd("legon"), CmdN("note", 1), Cmd("break"), Cmd("legoff"),
           Cmd("rest"), Cmd("next"), [op |-> "jump", to |-> 2]>>

\* Two parts: the second starts behind the first, its jumps moved along.
Moved(code, by) == [i \in DOMAIN code |-> IF code[i].op = "jump" THEN [code[i] EXCEPT !.to = @ + by] ELSE code[i]]
Pair(a, b) == [code |-> a \o Moved(b, Len(a)), starts |-> <<1, Len(a) + 1>>, drums |-> <<>>,
               events |-> <<>>, over |-> <<>>]

Flats == {Pair(a, b) : a \in {Ties, Rests, Loop3}, b \in {Tempi, Ties, Loop3}}
         \cup {Pair(Tempi, Tempi)}

AllScores == Songs \cup Flats
=============================================================================
