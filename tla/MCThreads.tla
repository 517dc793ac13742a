------------------------------- MODULE MCThreads -------------------------------
(***************************************************************************)
(* The thread library for TLC.  Either both children are there and nobody  *)
(* waits for another thread or stops the switcher, or child 1 is never     *)
(* created and its place is taken by the rest of the library.              *)
(***************************************************************************)
EXTENDS Threads

VARIABLE mode

MCInit == Init /\ mode \in {"two children", "one child"}

MCNext ==
  /\ \/ /\ mode = "two children"
        /\ Next
        /\ switcher' = "isr" /\ \A t \in Threads : pc'[t] # "poll"
     \/ /\ mode = "one child"
        /\ Next
        /\ state'[1] = TH_NULL
  /\ UNCHANGED mode

MCSpec == MCInit /\ [][MCNext]_<<vars, mode>>
=============================================================================
