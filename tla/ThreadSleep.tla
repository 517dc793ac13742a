---------------------------- MODULE ThreadSleep ----------------------------
(***************************************************************************)
(* How long thread_wait(n) really sleeps: Threads with a history variable  *)
(* that counts down the true milliseconds of every sleep, next to th_ct,   *)
(* which change_th_check counts down by the gaps between its own calls.    *)
(***************************************************************************)
EXTENDS Threads

VARIABLE remain     \* history: true milliseconds left of the sleep asked for

sleepVars == <<vars, remain>>

SleepInit == Init /\ remain = [t \in Contexts |-> 0]

Asleep(t) == state[t] = TH_WAIT \/ pc[t] \in {"wait", "wait_check"}

\* Only the timer interrupt lets time pass.
SleepTick ==
  /\ TimerInterrupt
  /\ remain' = [t \in Contexts |-> IF Asleep(t) /\ remain[t] > 0
                                   THEN remain[t] - 1 ELSE remain[t]]

\* A call of thread_wait starts a sleep.
SleepStep ==
  /\ ThreadStep
  /\ remain' = [t \in Contexts |-> IF pc[t] # "wait" /\ pc'[t] = "wait"
                                   THEN time'[t] ELSE remain[t]]

SleepNext == SleepTick \/ SleepStep

SleepSpec == SleepInit /\ [][SleepNext]_sleepVars
FairSleepSpec == SleepSpec /\ Fairness

\* The step in which change_th_check ends the sleep of t.
Wakes(t) ==
  /\ state'[t] = TH_EXEC
  /\ state[t] = TH_WAIT \/ (pc[t] = "wait_check" /\ pc'[t] = "clear")

\* A sleep may end early, because the gap before it began is charged to it too,
\* but never by more than the longest gap change_th_check believes; a sleep of
\* more milliseconds than that never collapses to nothing.
EarlyByOneGapAtMost ==
  [][\A t \in Threads : Wakes(t) => remain'[t] <= DCT_CAP]_sleepVars

\* While a thread is in a sleep, what is left of it is not more than what it still
\* asks for, or, once the library counts for it, than its counter and one gap.
SleepInv ==
  /\ IInv
  /\ remain \in [Contexts -> Int]
  /\ \A t \in Threads :
       /\ pc[t] \in {"wait", "wait_check"} => remain[t] <= time[t]
       /\ state[t] = TH_WAIT => remain[t] <= 0 \/ remain[t] + elapsed <= th_ct[t] + DCT_CAP

\* "Waits for the time in units of 1 ms; the return may come late because of
\* what other threads do" (thread.c:203-207): late, so never early.
NeverEarly ==
  [][\A t \in Threads : Wakes(t) => remain'[t] = 0]_sleepVars
=============================================================================
