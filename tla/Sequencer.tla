------------------------------ MODULE Sequencer ------------------------------
(***************************************************************************)
(* The score interpreter of the music driver, tools/muslib/seq.c.  ProcSeq *)
(* runs once per wave block, inside BuffFree's interrupt; every so often,  *)
(* by the tempo, it is a tick, and each part counts down its current note  *)
(* and, when that is over, fetches commands until one takes time.          *)
(*                                                                         *)
(* A score is a sequence of commands; a command and its operand bytes have *)
(* one address.  Commands that only shape the sound (instrument, volume,   *)
(* envelope, vibrato, transposition, portamento, fades) are the command    *)
(* "other".  A wave channel is reduced to its key being held or not.       *)
(***************************************************************************)
EXTENDS Integers, Sequences

CONSTANTS
  MCOUNT,    \* what tempowk is topped up by per tick (5000)
  TEMPO,     \* the tempo a score starts with (120<<4)
  LEVELS,    \* levels of nesting nestd has room for (MAXNESTD / 3 = 8)
  Scores     \* scores [code, starts, drums]: commands, where each part begins,
             \* and drum number -> address of its subroutine

VARIABLES
  score,     \* what datatop and drumsbase point to
  part,      \* seqwk
  key,       \* per part: its channel was keyed on and not yet off
  tempo, tempowk, runf,
  at,        \* the part ProcSeq is at, 0 outside ProcSeq
  fetching   \* inside the fetch loop of that part

vars == <<score, part, key, tempo, tempowk, runf, at, fetching>>

Parts == DOMAIN score.starts

Empty == [n |-> 0, ret |-> 0, top |-> 0]

\* StartSeq, for one part.
NewPart(start) ==
  [pseq |-> start, cnt |-> 1, len |-> 1, stop |-> 0, run |-> 1, np |-> 0,
   gate |-> 41, tatt |-> {}, tsta |-> {},
   nestd |-> [l \in 0 .. LEVELS - 1 |-> Empty]]

\* StartSeq.
Init ==
  /\ score \in Scores
  /\ part = [p \in Parts |-> NewPart(score.starts[p])]
  /\ key = [p \in Parts |-> FALSE]
  /\ tempo = TEMPO
  /\ tempowk = 0
  /\ runf = 1
  /\ at = 0
  /\ fetching = FALSE

TypeOK ==
  /\ \A p \in Parts :
       /\ part[p].pseq \in 1 .. Len(score.code) + 1
       /\ part[p].cnt \in 0 .. 382 /\ part[p].len \in 1 .. 382
       /\ part[p].stop \in 0 .. 381
       /\ part[p].run \in 0 .. 2
       /\ part[p].np \in 0 .. LEVELS
  /\ key \in [Parts -> BOOLEAN]
  /\ tempowk \in -MCOUNT .. MCOUNT
  /\ runf \in 0 .. 2 * Len(score.starts)
  /\ at \in 0 .. Len(score.starts)
  /\ fetching \in BOOLEAN

-----------------------------------------------------------------------------
(***************************************************************************)
(* ProcSeq.                                                                *)
(***************************************************************************)

\* A block without a tick.
NoTick ==
  /\ at = 0 /\ runf # 0
  /\ tempowk - tempo >= 0
  /\ tempowk' = tempowk - tempo
  /\ UNCHANGED <<score, part, key, tempo, runf, at, fetching>>

\* Mutated: the remainder of the tempo is thrown away.
Tick_Resets ==
  /\ at = 0 /\ runf # 0
  /\ tempowk - tempo < 0
  /\ tempowk' = MCOUNT
  /\ runf' = 0
  /\ at' = 1
  /\ UNCHANGED <<score, part, key, tempo, fetching>>

\* A tick begins.
Tick ==
  /\ at = 0 /\ runf # 0
  /\ tempowk - tempo < 0
  /\ tempowk' = tempowk - tempo + MCOUNT
  /\ runf' = 0
  /\ at' = 1
  /\ UNCHANGED <<score, part, key, tempo, fetching>>

NextPart == IF at = Len(score.starts) THEN 0 ELSE at + 1

\* A part that has ended.
PartOver ==
  /\ at # 0 /\ ~fetching
  /\ part[at].run = 0
  /\ at' = NextPart
  /\ UNCHANGED <<score, part, key, tempo, tempowk, runf, fetching>>

\* A part whose note or rest goes on; its key may be due for release.
PartHolds ==
  /\ at # 0 /\ ~fetching
  /\ part[at].run # 0 /\ part[at].cnt > 1
  /\ LET left == part[at].cnt - 1
         off  == left = part[at].stop /\ part[at].run = 2 /\ "LEG1" \notin part[at].tsta
     IN  /\ part' = [part EXCEPT ![at].cnt = left, ![at].run = IF off THEN 1 ELSE @]
         /\ key' = [key EXCEPT ![at] = @ /\ ~off]
  /\ runf' = runf + part[at].run
  /\ at' = NextPart
  /\ UNCHANGED <<score, tempo, tempowk, fetching>>

\* A part whose note or rest is over: fetch.
PartFetches ==
  /\ at # 0 /\ ~fetching
  /\ part[at].run # 0 /\ part[at].cnt = 1
  /\ part' = [part EXCEPT ![at].cnt = 0]
  /\ runf' = runf + part[at].run
  /\ fetching' = TRUE
  /\ UNCHANGED <<score, key, tempo, tempowk, at>>

-----------------------------------------------------------------------------
(***************************************************************************)
(* The commands.  w is the part with pseq already past the command.        *)
(***************************************************************************)
Command == score.code[part[at].pseq]
Fetched == [part[at] EXCEPT !.pseq = @ + 1]

\* The command leaves the part in the state w; fetching goes on while no
\* command has taken time.
Leaves(w) ==
  /\ part' = [part EXCEPT ![at] = w]
  /\ fetching' = (w.cnt = 0)
  /\ at' = IF w.cnt = 0 THEN at ELSE NextPart

Quiet == UNCHANGED <<key, tempo>>
Does(op) == at # 0 /\ fetching /\ Command.op = op /\ UNCHANGED <<score, tempowk, runf>>

\* Mutated: no upper limit.
Stop_Unlimited(w) ==
  IF "NOOFF" \in w.tatt THEN 0
  ELSE IF (w.len * w.gate) \div 4096 < 1 THEN 1 ELSE (w.len * w.gate) \div 4096

\* How long before its end a note's key is released.
Stop(w) ==
  LET a == (w.len * w.gate) \div 4096
  IN  IF "NOOFF" \in w.tatt THEN 0
      ELSE IF a < 1 THEN 1
      ELSE IF a >= w.len THEN w.len - 1 ELSE a

Tied(w) == "LEG2" \in w.tsta /\ w.run = 2

\* SeqNote: key on, or, tied to the note before, only a new pitch; the tie that
\* a legato left behind covers this note and no other.
SeqNote ==
  /\ Does("note") \/ (Does("key") /\ "DRUMS" \notin part[at].tatt)
  /\ LET w == Fetched
     IN  Leaves([w EXCEPT !.cnt = w.len, !.stop = Stop(w), !.run = 2,
                          !.tsta = IF @ = {"LEG2"} THEN {} ELSE @])
  /\ key' = [key EXCEPT ![at] = @ \/ ~Tied(part[at])]
  /\ UNCHANGED tempo

SeqRest ==
  /\ Does("rest")
  /\ LET w == Fetched
     IN  Leaves([w EXCEPT !.cnt = w.len, !.run = 1])
  /\ key' = [key EXCEPT ![at] = @ /\ part[at].run # 2]
  /\ UNCHANGED tempo

\* One more level on the stack of calls and loops.
Push(w, level) == [w EXCEPT !.nestd[w.np] = level, !.np = @ + 1]

\* A note number in a drum part calls the drum's subroutine once.
SeqDrums ==
  /\ Does("key") /\ "DRUMS" \in part[at].tatt
  /\ LET w  == Fetched
         ad == score.drums[Command.arg]
     IN  Leaves([Push(w, [n |-> 1, ret |-> w.pseq, top |-> ad]) EXCEPT !.pseq = ad])
  /\ Quiet

SeqCall ==
  /\ Does("call")
  /\ LET w  == Fetched
         ad == Command.to
     IN  Leaves([Push(w, [n |-> Command.arg, ret |-> w.pseq, top |-> ad]) EXCEPT !.pseq = ad])
  /\ Quiet

\* A loop's top is the slot for its return address, its end is not known yet:
\* that word of the level keeps what it held.
SeqRept ==
  /\ Does("rept")
  /\ LET w == Fetched
     IN  Leaves(Push(w, [n |-> Command.arg, ret |-> w.pseq, top |-> w.nestd[w.np].top]))
  /\ Quiet

\* The innermost level, with its count one lower (unsigned short).
Inner(w)     == w.nestd[w.np - 1]
CountDown(w) == [w EXCEPT !.nestd[w.np - 1].n = (@ - 1) % 65536]

\* Mutated: the loop is left one pass early.
SeqNext_Early ==
  /\ Does("next")
  /\ LET w == CountDown(Fetched)
     IN  Leaves(IF Inner(w).n > 1
                THEN [w EXCEPT !.nestd[w.np - 1].top = w.pseq, !.pseq = Inner(w).ret]
                ELSE [w EXCEPT !.np = @ - 1])
  /\ Quiet

\* The end of a loop: note where it is and go back, or go on.
SeqNext ==
  /\ Does("next")
  /\ LET w == CountDown(Fetched)
     IN  Leaves(IF Inner(w).n # 0
                THEN [w EXCEPT !.nestd[w.np - 1].top = w.pseq, !.pseq = Inner(w).ret]
                ELSE [w EXCEPT !.np = @ - 1])
  /\ Quiet

\* Mutated: the break leaves its level on the stack.
SeqBreak_NoPop ==
  /\ Does("break")
  /\ LET w == Fetched
     IN  Leaves(IF Inner(w).n = 1 THEN [w EXCEPT !.pseq = Inner(w).top] ELSE w)
  /\ Quiet

\* In the last pass, go straight to the end the pass before has noted.
SeqBreak ==
  /\ Does("break")
  /\ LET w == Fetched
     IN  Leaves(IF Inner(w).n = 1
                THEN [w EXCEPT !.pseq = Inner(w).top, !.np = @ - 1] ELSE w)
  /\ Quiet

SeqJump ==
  /\ Does("jump")
  /\ Leaves([Fetched EXCEPT !.pseq = Command.to])
  /\ Quiet

\* The end of a subroutine: once more, or return.
EndSub ==
  /\ Does("end") /\ part[at].np > 0
  /\ LET w == CountDown(Fetched)
     IN  Leaves(IF Inner(w).n # 0
                THEN [w EXCEPT !.pseq = Inner(w).top]
                ELSE [w EXCEPT !.pseq = Inner(w).ret, !.np = @ - 1])
  /\ Quiet

\* Mutated: a part that ends stays counted as running.
EndPart_Runs ==
  /\ Does("end") /\ part[at].np = 0
  /\ Leaves([Fetched EXCEPT !.cnt = 1, !.pseq = @ - 1])
  /\ Quiet

\* The end of the part; its key is left as it is.
EndPart ==
  /\ Does("end") /\ part[at].np = 0
  /\ Leaves([Fetched EXCEPT !.run = 0, !.cnt = 1])
  /\ Quiet

SetLen  == Does("len")  /\ Leaves([Fetched EXCEPT !.len = Command.arg]) /\ Quiet
SeqGate == Does("gate") /\ Leaves([Fetched EXCEPT !.gate = ((100 - Command.arg) * 41) % 65536]) /\ Quiet
SeqTatt == Does("tatt") /\ Leaves([Fetched EXCEPT !.tatt = Command.arg]) /\ Quiet

SeqTempo ==
  /\ Does("tempo")
  /\ Leaves(Fetched)
  /\ tempo' = Command.arg
  /\ UNCHANGED key

SeqLegOn  == Does("legon")  /\ Leaves([Fetched EXCEPT !.tsta = {"LEG1", "LEG2"}]) /\ Quiet
SeqLegOff == Does("legoff") /\ Leaves([Fetched EXCEPT !.tsta = @ \ {"LEG1"}]) /\ Quiet
SeqOther  == Does("other")  /\ Leaves(Fetched) /\ Quiet

Fetch ==
  \/ SeqNote \/ SeqRest \/ SeqDrums \/ SeqCall \/ SeqRept \/ SeqNext \/ SeqBreak
  \/ SeqJump \/ EndSub \/ EndPart \/ SetLen \/ SeqGate \/ SeqTatt \/ SeqTempo
  \/ SeqLegOn \/ SeqLegOff \/ SeqOther

Next == NoTick \/ Tick \/ PartOver \/ PartHolds \/ PartFetches \/ Fetch

\* Blocks are played one after the other, and ProcSeq runs to its end.
Spec == Init /\ [][Next]_vars /\ WF_vars(Next)

-----------------------------------------------------------------------------

\* Between calls of ProcSeq the remainder of the tempo is less than a tick: the
\* short never overflows, and no tick is owed.
TempoInRange == at = 0 => tempowk \in 0 .. MCOUNT - 1

\* A score without jumps comes to its end, and ProcSeq says so (BuffFree then
\* stops the driver).
SongEnds ==
  (\A i \in DOMAIN score.code : score.code[i].op # "jump") => <>(runf = 0 /\ at = 0)

\* ProcSeq returns: no command sequence of a proper score, however nested,
\* keeps the interrupt fetching for ever.
ProcSeqReturns == at # 0 ~> at = 0
=============================================================================
