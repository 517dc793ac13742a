---------------------------- MODULE ScoreLanguage ----------------------------
(***************************************************************************)
(* Structured scores, how they are written as commands, and what they mean *)
(* independently of ProcSeq's stack, counters and flags.                   *)
(***************************************************************************)
EXTENDS Integers, Sequences, SequencesExt

(***************************************************************************)
(* A score is a sequence of items: notes, rests, lengths, gates, loops     *)
(* (with or without a part after the break that the last pass leaves out), *)
(* calls of the subroutine Sub, and drums, which call it too.              *)
(***************************************************************************)
Note(n)           == [kind |-> "note", n |-> n]
Rest              == [kind |-> "rest"]
Len_(l)           == [kind |-> "len", n |-> l]
Gate(g)           == [kind |-> "gate", n |-> g]
Loop(n, body)     == [kind |-> "loop", n |-> n, body |-> body]
LoopBreak(n, body, tail) == [kind |-> "loopbreak", n |-> n, body |-> body, tail |-> tail]
CallSub(n)        == [kind |-> "call", n |-> n]
Drum              == [kind |-> "drum"]

Sub == <<Note(9), Len_(2), Rest, Len_(1)>>

Cmd(op)       == [op |-> op]
CmdN(op, arg) == [op |-> op, arg |-> arg]

\* The commands of an item; sub is where the subroutine will be.
RECURSIVE Compile(_, _)
Compile(items, sub) ==
  FlattenSeq([i \in DOMAIN items |->
    LET it == items[i] IN
    CASE it.kind = "rest"      -> <<Cmd("rest")>>
      [] it.kind \in {"note", "len", "gate"} -> <<CmdN(it.kind, it.n)>>
      [] it.kind = "loop"      -> <<CmdN("rept", it.n)>> \o Compile(it.body, sub) \o <<Cmd("next")>>
      [] it.kind = "loopbreak" -> <<CmdN("rept", it.n)>> \o Compile(it.body, sub)
                                  \o <<Cmd("break")>> \o Compile(it.tail, sub) \o <<Cmd("next")>>
      [] it.kind = "call"      -> <<[op |-> "call", arg |-> it.n, to |-> sub]>>
      [] it.kind = "drum"      -> <<CmdN("tatt", {"DRUMS"}), CmdN("key", 1), CmdN("tatt", {})>>])

\* The notes, rests, lengths and gates an item stands for, loops unrolled.
RECURSIVE Expand(_)
Times(n, items) == FlattenSeq([i \in 1 .. n |-> items])
Expand(items) ==
  FlattenSeq([i \in DOMAIN items |->
    LET it == items[i] IN
    CASE it.kind \in {"note", "rest", "len", "gate"} -> <<it>>
      [] it.kind = "loop"      -> Times(it.n, Expand(it.body))
      [] it.kind = "loopbreak" -> Times(it.n - 1, Expand(it.body) \o Expand(it.tail)) \o Expand(it.body)
      [] it.kind = "call"      -> Times(it.n, Sub)
      [] it.kind = "drum"      -> Sub])

\* What is heard when: a note of two ticks or more is released before its end,
\* by the share of its length the gate leaves silent, one of a single tick only
\* by a rest.
Silence(len, gate) ==
  LET a == (len * (100 - gate) * 41) \div 4096
  IN  IF a < 1 THEN 1 ELSE IF a >= len THEN len - 1 ELSE a

Play(acc, it) ==
  CASE it.kind = "len"  -> [acc EXCEPT !.len = it.n]
    [] it.kind = "gate" -> [acc EXCEPT !.gate = it.n]
    [] it.kind = "rest" -> [acc EXCEPT !.t = @ + acc.len, !.held = FALSE,
                              !.ev = IF acc.held THEN Append(@, <<acc.t, "off">>) ELSE @]
    [] it.kind = "note" -> [acc EXCEPT !.t = @ + acc.len, !.held = (acc.len = 1),
                              !.ev = @ \o <<<<acc.t, it.n>>>> \o
                                IF acc.len = 1 THEN <<>>
                                ELSE <<<<acc.t + acc.len - Silence(acc.len, acc.gate), "off">>>>]

Meaning(items) ==
  FoldLeft(Play, [t |-> 1, len |-> 1, gate |-> 99, held |-> FALSE, ev |-> <<>>], Expand(items))

\* The score of one or more parts.
Score(parts) ==
  LET body(i, sub) == Compile(parts[i], sub) \o <<Cmd("end")>>
      sizes  == [i \in DOMAIN parts |-> Len(body(i, 0))]
      sub    == 1 + FoldLeft(LAMBDA a, b : a + b, 0, sizes)
      start(i) == 1 + FoldLeft(LAMBDA a, b : a + b, 0, SubSeq(sizes, 1, i - 1))
  IN  [code   |-> FlattenSeq([i \in DOMAIN parts |-> body(i, sub)])
                  \o Compile(Sub, 0) \o <<Cmd("end")>>,
       starts |-> [i \in DOMAIN parts |-> start(i)],
       drums  |-> <<sub>>,
       events |-> [i \in DOMAIN parts |-> Meaning(parts[i]).ev],
       over   |-> [i \in DOMAIN parts |-> Meaning(parts[i]).t]]
=============================================================================
