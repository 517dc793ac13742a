----------------------------- MODULE ThreadJoin -----------------------------
(***************************************************************************)
(* What thread_wait_term waits for: Threads with a history variable that   *)
(* remembers, for every thread inside thread_wait_term, whether the thread *)
(* it was called for has ended.  Slots are reused, so the poll may look at *)
(* a later thread with the same number.                                    *)
(***************************************************************************)
EXTENDS Threads

VARIABLE over       \* history: a thread waited for has ended during the wait

joinVars == <<vars, over>>

Joining(t) == pc[t] = "poll" \/ ret[t] = "poll"

\* The step ends the thread t waits for: its slot is in use, and freed.
TargetEnds(t) == Joining(t) /\ state[tgt[t]] # TH_NULL /\ state'[tgt[t]] = TH_NULL

JoinInit == Init /\ over = [t \in Contexts |-> FALSE]

JoinNext ==
  /\ Next
  /\ over' = [t \in Contexts |-> Joining(t)' /\ (over[t] \/ TargetEnds(t))]

JoinSpec == JoinInit /\ [][JoinNext]_joinVars

\* "Wait until the given thread ends" (thread.c:239): once it has ended, the
\* next look at its slot ends the wait.
JoinEndsWithTarget ==
  \A t \in Threads : At(t, "poll") /\ over[t] => state[tgt[t]] = TH_NULL
=============================================================================
