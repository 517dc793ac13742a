--------------------------- MODULE Threads_proofs ---------------------------
(***************************************************************************)
(* The thread library keeps its promises to every program: theorems about  *)
(* Threads, with its bounded waits, and then about the application frame,  *)
(* a program of the library, of which what is shown of every program       *)
(* holds; and the two promises the frame itself makes: the OS is not       *)
(* disturbed, and an error of smain is not lost.                           *)
(***************************************************************************)
EXTENDS ThreadSleep, SimpleApp, TLAPS

\* How the thread numbers lie to each other.  The proofs below use these facts
\* and not the intervals they come from.
LEMMA Ids ==
  /\ Parent \in Threads /\ Parent \notin Children
  /\ Children \subseteq Threads /\ Threads \subseteq Contexts
  /\ WAIT_ID \in Contexts /\ WAIT_ID \notin Threads
  /\ \A t \in Contexts : t \in Threads \/ t = WAIT_ID
  /\ \A t \in Threads : t \in Children \/ t = Parent
  /\ TH_NULL # TH_EXEC /\ TH_NULL # TH_WAIT /\ TH_EXEC # TH_WAIT
  /\ NO # YES
  /\ 0 \in Threads /\ 0 \in Times /\ 1 \in Times /\ Times \subseteq Int
  BY ConstantsAssumption
  DEF Parent, Threads, Children, Contexts, WAIT_ID, TH_NULL, TH_EXEC, TH_WAIT, NO, YES

\* What change_th_check leaves behind, whoever calls it: typed variables, a
\* next thread that can run (or the idle thread when none can), and no change
\* of state but sleepers becoming ready.
LEMMA CheckStep ==
  ASSUME TypeOK,
         NEW st \in [Contexts -> {TH_NULL, TH_EXEC, TH_WAIT}],
         NEW ct \in [Contexts -> Int],
         NEW gap \in Nat,
         NEW words,
         change_th_check(st, ct, gap, words)
  PROVE  /\ sp' = words
         /\ th_ct' \in [Contexts -> Int]
         /\ state' \in [Contexts -> {TH_NULL, TH_EXEC, TH_WAIT}]
         /\ elapsed' = 0
         /\ now_id' \in Contexts
         /\ now_id' # WAIT_ID => state'[now_id'] = TH_EXEC
         /\ now_id' = WAIT_ID => \A t \in Threads : state'[t] # TH_EXEC
         /\ \A t \in Contexts : \/ state'[t] = st[t]
                                \/ st[t] = TH_WAIT /\ state'[t] = TH_EXEC
<1> DEFINE left == [t \in Contexts |-> IF t \in Threads /\ st[t] = TH_WAIT
                                       THEN ct[t] - Dct(gap) ELSE ct[t]]
           woken == {t \in Threads : st[t] = TH_WAIT /\ left[t] <= 0}
<1>1. /\ sp' = words
      /\ th_ct' = left
      /\ state' = [t \in Contexts |-> IF t \in woken THEN TH_EXEC ELSE st[t]]
      /\ elapsed' = 0
      /\ now_id' \in NextIds(now_id, state')
  BY DEF change_th_check
<1>3. left \in [Contexts -> Int]
  <2> SUFFICES ASSUME NEW t \in Contexts
               PROVE  left[t] \in Int
    OBVIOUS
  <2> QED
    BY ConstantsAssumption DEF Dct
<1>4. state' \in [Contexts -> {TH_NULL, TH_EXEC, TH_WAIT}]
  BY <1>1
<1>5. /\ now_id' \in Contexts
      /\ now_id' # WAIT_ID => state'[now_id'] = TH_EXEC
      /\ now_id' = WAIT_ID => \A t \in Threads : state'[t] # TH_EXEC
  <2> DEFINE ready == {t \in Threads : state'[t] = TH_EXEC}
  <2>1. CASE ready = {}
    BY <1>1, <2>1, Ids DEF NextIds
  <2>2. CASE ready # {}
    <3>1. now_id' \in ready
      BY <1>1, <2>2 DEF NextIds
    <3> QED
      BY <3>1, Ids
  <2> QED
    BY <2>1, <2>2
<1>6. \A t \in Contexts : \/ state'[t] = st[t]
                          \/ st[t] = TH_WAIT /\ state'[t] = TH_EXEC
  BY <1>1
<1> QED
  BY <1>1, <1>3, <1>4, <1>5, <1>6

-----------------------------------------------------------------------------
\* The inductive invariant holds when main has started and no thread has been
\* made.
LEMMA InitIInv == Init => IInv
<1> SUFFICES ASSUME Init
             PROVE  IInv
  OBVIOUS
<1> USE DEF Init
<1>1. TypeOK
  BY Ids, ConstantsAssumption DEF TypeOK, Labels, Words, Threads, Contexts, Parent, WAIT_ID
<1>2. LockedIsOnCpu
  BY Ids DEF LockedIsOnCpu, Locked
<1>3. SwitchState
  BY Ids DEF SwitchState, IdleOnlyWhenNoneReady, Leaving
<1>4. SlotState
  BY Ids DEF SlotState, Leaving
<1>5. SectionState
  BY Ids DEF SectionState
<1>6. FrameState
  BY Ids DEF FrameState, Leaving
<1>7. LockHasOwner
  BY Ids DEF LockHasOwner
<1> QED
  BY <1>1, <1>2, <1>3, <1>4, <1>5, <1>6, <1>7 DEF IInv

\* The steps inside the library that do not choose a thread.
LEMMA PlainLibraryStepIInv ==
  ASSUME IInv, NEW t \in Contexts,
         \/ WaitLock(t) \/ ClearTimer(t) \/ ReturnLock(t) \/ ReturnParent(t)
         \/ CreateLock(t) \/ CreateFull(t) \/ UnlockYield(t) \/ UnlockTest(t)
         \/ UnlockClear(t) \/ PollDone(t) \/ PollWait(t)
  PROVE  IInv'
<1> USE Ids, ConstantsAssumption
    DEF IInv, TypeOK, Labels, Words, LockedIsOnCpu, SwitchState, IdleOnlyWhenNoneReady, SlotState,
        SectionState, FrameState, LockHasOwner, Locked, Leaving, sched, flags, kernel, locals, At, Goto
<1>1. CASE WaitLock(t)
  BY <1>1, SMTT(30) DEF WaitLock
<1>2. CASE ClearTimer(t)
  BY <1>2, SMTT(30) DEF ClearTimer
<1>3. CASE ReturnLock(t)
  BY <1>3, SMTT(30) DEF ReturnLock
<1>4. CASE ReturnParent(t)
  BY <1>4, SMTT(30) DEF ReturnParent
<1>5. CASE CreateLock(t)
  BY <1>5, SMTT(30) DEF CreateLock
<1>6. CASE CreateFull(t)
  BY <1>6, SMTT(30) DEF CreateFull
<1>7. CASE UnlockYield(t)
  BY <1>7, SMTT(30) DEF UnlockYield
<1>8. CASE UnlockTest(t)
  BY <1>8, SMTT(30) DEF UnlockTest
<1>9. CASE UnlockClear(t)
  BY <1>9, SMTT(30) DEF UnlockClear
<1>10. CASE PollDone(t)
  BY <1>10, SMTT(30) DEF PollDone
<1>11. CASE PollWait(t)
  BY <1>11, SMTT(30) DEF PollWait
<1> QED
  BY ONLY <1>1, <1>2, <1>3, <1>4, <1>5, <1>6, <1>7, <1>8, <1>9, <1>10, <1>11,
     WaitLock(t) \/ ClearTimer(t) \/ ReturnLock(t) \/ ReturnParent(t)
         \/ CreateLock(t) \/ CreateFull(t) \/ UnlockYield(t) \/ UnlockTest(t)
         \/ UnlockClear(t) \/ PollDone(t) \/ PollWait(t)

\* The jump into the thread that was chosen.
LEMMA ExecAsIInv ==
  ASSUME IInv, NEW t \in Contexts, ExecAs(t)
  PROVE  IInv'
<1> USE Ids DEF IInv
<1>1. /\ pc' = [pc EXCEPT ![t] = IF state[t] = TH_NULL /\ t # WAIT_ID THEN "dead" ELSE ret[t]]
      /\ ret' = [ret EXCEPT ![t] = "run"]
      /\ cpu = t /\ pc[t] = "exec" /\ cpu' = now_id /\ lock_flag' = NO
      /\ sp' = [sp EXCEPT ![now_id] = "stale"]
      /\ UNCHANGED <<th_ct, state, now_id, timer_flag, elapsed, switcher, time, tgt, cs>>
  BY DEF ExecAs, At, Goto, Resumed, kernel
<1>2. TypeOK'
  BY <1>1 DEF TypeOK, Labels, Words
<1>3. pc'[cpu'] \notin Locked /\ pc'[cpu'] # "dead"
  BY <1>1 DEF TypeOK, LockedIsOnCpu, SwitchState, SlotState, Locked
<1>4. LockedIsOnCpu'
  BY <1>1, <1>3 DEF TypeOK, LockedIsOnCpu, Locked
<1>5. SwitchState'
  BY <1>1, <1>3 DEF SwitchState, IdleOnlyWhenNoneReady
<1>6. SlotState'
  BY <1>1, <1>3 DEF TypeOK, SlotState, SwitchState, Leaving
<1>7. SectionState'
  BY <1>1 DEF TypeOK, SectionState
<1>8. FrameState'
  BY <1>1, <1>3 DEF TypeOK, FrameState, Leaving, Locked
<1>9. LockHasOwner'
  BY <1>1 DEF LockHasOwner
<1> QED
  BY <1>2, <1>4, <1>5, <1>6, <1>7, <1>8, <1>9

\* Going to sleep: change_th_check called from thread_wait.
LEMMA WaitCheckIInv ==
  ASSUME IInv, NEW t \in Contexts, WaitCheck(t)
  PROVE  IInv'
<1> USE Ids DEF IInv
<1> DEFINE st == [state EXCEPT ![now_id] = TH_WAIT]
           ct == [th_ct EXCEPT ![now_id] = time[t]]
<1>1. /\ cpu = t /\ now_id = t /\ pc[t] = "wait_check" /\ lock_flag = YES
      /\ pc' = [pc EXCEPT ![t] = "clear"]
      /\ time' = [time EXCEPT ![t] = 0]
      /\ UNCHANGED <<lock_flag, timer_flag, switcher, cpu, ret, tgt, cs>>
  BY DEF WaitCheck, LockedIsOnCpu, SwitchState, Locked, Leaving, At, Goto, flags
<1>2. st \in [Contexts -> {TH_NULL, TH_EXEC, TH_WAIT}] /\ elapsed \in Nat
  BY ConstantsAssumption DEF TypeOK
<1>3. ct \in [Contexts -> Int]
  <2>1. time[t] \in Int
    BY Ids DEF TypeOK
  <2> QED
    BY <2>1 DEF TypeOK
<1>4. change_th_check(st, ct, elapsed, [sp EXCEPT ![now_id] = "frame"])
  BY DEF WaitCheck, Saved
<1>5. /\ sp' = [sp EXCEPT ![now_id] = "frame"]
      /\ th_ct' \in [Contexts -> Int]
      /\ state' \in [Contexts -> {TH_NULL, TH_EXEC, TH_WAIT}]
      /\ elapsed' = 0
      /\ now_id' \in Contexts
      /\ now_id' # WAIT_ID => state'[now_id'] = TH_EXEC
      /\ now_id' = WAIT_ID => \A u \in Threads : state'[u] # TH_EXEC
      /\ \A u \in Contexts : state'[u] = st[u] \/ (st[u] = TH_WAIT /\ state'[u] = TH_EXEC)
  <2> HIDE DEF st, ct
  <2> QED
    BY <1>2, <1>3, <1>4, CheckStep
<1>6. /\ state'[t] # TH_NULL
      /\ \A u \in Contexts : u # t => (state'[u] = TH_NULL <=> state[u] = TH_NULL)
  BY <1>1, <1>5 DEF TypeOK
<1>7. TypeOK'
  BY <1>1, <1>5, ConstantsAssumption DEF TypeOK, Labels, Words
<1>8. LockedIsOnCpu'
  BY <1>1 DEF TypeOK, LockedIsOnCpu
<1>9. SwitchState'
  BY <1>1, <1>5 DEF TypeOK, SwitchState, IdleOnlyWhenNoneReady, Leaving
<1>10. SlotState'
  BY <1>1, <1>6 DEF TypeOK, SlotState, Leaving
<1>11. SectionState'
  BY <1>1 DEF TypeOK, SectionState
<1>12. FrameState'
  BY <1>1, <1>5, <1>6 DEF TypeOK, FrameState, Leaving
<1>13. LockHasOwner'
  BY <1>1 DEF TypeOK, LockHasOwner, Locked
<1> QED
  BY <1>7, <1>8, <1>9, <1>10, <1>11, <1>12, <1>13

\* A child ends: change_th_check called from thread_return.
LEMMA ReturnCheckIInv ==
  ASSUME IInv, NEW t \in Contexts, ReturnCheck(t)
  PROVE  IInv'
<1> USE Ids DEF IInv
<1> DEFINE st == [state EXCEPT ![now_id] = TH_NULL]
<1>1. /\ cpu = t /\ now_id = t /\ pc[t] = "return_check" /\ lock_flag = YES
      /\ t # Parent /\ t # WAIT_ID
      /\ pc' = [pc EXCEPT ![t] = "clear"]
      /\ cs' = [cs EXCEPT ![t] = 0]
      /\ UNCHANGED <<lock_flag, timer_flag, switcher, cpu, ret, time, tgt>>
  BY DEF ReturnCheck, LockedIsOnCpu, SwitchState, SlotState, Locked, Leaving, At, Goto, flags, locals
<1>2. st \in [Contexts -> {TH_NULL, TH_EXEC, TH_WAIT}] /\ elapsed \in Nat
      /\ th_ct \in [Contexts -> Int]
  BY ConstantsAssumption DEF TypeOK
<1>3. change_th_check(st, th_ct, elapsed, [sp EXCEPT ![now_id] = "zero"])
  BY DEF ReturnCheck, Saved
<1>4. /\ sp' = [sp EXCEPT ![now_id] = "zero"]
      /\ th_ct' \in [Contexts -> Int]
      /\ state' \in [Contexts -> {TH_NULL, TH_EXEC, TH_WAIT}]
      /\ elapsed' = 0
      /\ now_id' \in Contexts
      /\ now_id' # WAIT_ID => state'[now_id'] = TH_EXEC
      /\ now_id' = WAIT_ID => \A u \in Threads : state'[u] # TH_EXEC
      /\ \A u \in Contexts : state'[u] = st[u] \/ (st[u] = TH_WAIT /\ state'[u] = TH_EXEC)
  <2> HIDE DEF st
  <2> QED
    BY <1>2, <1>3, CheckStep
<1>5. /\ state'[t] = TH_NULL
      /\ \A u \in Contexts : u # t => (state'[u] = TH_NULL <=> state[u] = TH_NULL)
  BY <1>1, <1>4 DEF TypeOK
<1>6. TypeOK'
  BY <1>1, <1>4, ConstantsAssumption DEF TypeOK, Labels, Words
<1>7. LockedIsOnCpu'
  BY <1>1 DEF TypeOK, LockedIsOnCpu
<1>8. SwitchState'
  BY <1>1, <1>4 DEF TypeOK, SwitchState, IdleOnlyWhenNoneReady, Leaving
<1>9. SlotState'
  BY <1>1, <1>5 DEF TypeOK, SlotState, Leaving
<1>10. SectionState'
  BY <1>1 DEF TypeOK, SectionState
<1>11. FrameState'
  BY <1>1, <1>4, <1>5 DEF TypeOK, FrameState, Leaving
<1>12. LockHasOwner'
  BY <1>1 DEF TypeOK, LockHasOwner, Locked
<1> QED
  BY <1>6, <1>7, <1>8, <1>9, <1>10, <1>11, <1>12

\* A new thread in a free slot.
LEMMA CreateScanIInv ==
  ASSUME IInv, NEW t \in Contexts, CreateScan(t)
  PROVE  IInv'
<1> USE Ids DEF IInv
<1>1. PICK i \in FreeSlots :
        /\ sp' = [sp EXCEPT ![i] = "frame"]
        /\ th_ct' = [th_ct EXCEPT ![i] = 0]
        /\ state' = [state EXCEPT ![i] = TH_EXEC]
        /\ pc' = [pc EXCEPT ![i] = "run", ![t] = "unlock"]
  BY DEF CreateScan
<1>2. /\ cpu = t /\ now_id = t /\ pc[t] = "create_scan" /\ lock_flag = YES
      /\ UNCHANGED <<now_id, lock_flag, timer_flag, elapsed, switcher, cpu, ret, time, tgt, cs>>
  BY DEF CreateScan, LockedIsOnCpu, SwitchState, Locked, Leaving, At, flags, kernel, locals
<1>3. t # WAIT_ID /\ state[t] = TH_EXEC
  BY <1>2 DEF SlotState, SwitchState
<1>4. i \in Children /\ state[i] = TH_NULL /\ i # t /\ pc[i] = "dead"
  BY <1>2, <1>3 DEF FreeSlots, SlotState
<1>5. TypeOK'
  BY <1>1, <1>2, <1>4, ConstantsAssumption DEF TypeOK, Labels, Words, TH_EXEC
<1>6. LockedIsOnCpu'
  BY <1>1, <1>2, <1>4 DEF TypeOK, LockedIsOnCpu, Locked
<1>7. SwitchState'
  BY <1>1, <1>2, <1>3, <1>4 DEF TypeOK, SwitchState, IdleOnlyWhenNoneReady, Leaving
<1>8. SlotState'
  BY <1>1, <1>2, <1>3, <1>4 DEF TypeOK, SlotState, Leaving
<1>9. SectionState'
  BY <1>1, <1>2, <1>4 DEF TypeOK, SectionState
<1>10. FrameState'
  BY <1>1, <1>2, <1>4 DEF TypeOK, FrameState, Leaving
<1>11. LockHasOwner'
  BY <1>1, <1>2, <1>4 DEF TypeOK, LockHasOwner
<1> QED
  BY <1>5, <1>6, <1>7, <1>8, <1>9, <1>10, <1>11

\* The steps inside the library's functions keep the inductive invariant.
LEMMA LibraryStepIInv ==
  ASSUME IInv, NEW t \in Contexts, LibraryStep(t)
  PROVE  IInv'
  BY PlainLibraryStepIInv, ExecAsIInv, WaitCheckIInv, ReturnCheckIInv, CreateScanIInv
  DEF LibraryStep

-----------------------------------------------------------------------------
\* Calls from user code.
LEMMA UserStepIInv ==
  ASSUME IInv, NEW t \in Threads,
         UserCall(t) \/ wait_loop \/ thread_gr_stop \/ thread_gr_cont
  PROVE  IInv'
<1> USE Ids, ConstantsAssumption
    DEF IInv, TypeOK, Labels, Words, LockedIsOnCpu, SwitchState, IdleOnlyWhenNoneReady, SlotState,
        SectionState, FrameState, LockHasOwner, Locked, Leaving, sched, flags, kernel, locals, At, Goto,
        Calls, MayLock
<1>1. CASE thread_lock(t)
  BY <1>1, SMTT(30) DEF thread_lock
<1>2. CASE thread_unlock(t)
  BY <1>2, SMTT(30) DEF thread_unlock
<1>3. CASE thread_wait(t)
  BY <1>3, SMTT(30) DEF thread_wait
<1>4. CASE thread_create(t)
  BY <1>4, SMTT(30) DEF thread_create
<1>5. CASE thread_return(t)
  BY <1>5, SMTT(30) DEF thread_return
<1>6. ASSUME NEW id \in Children, thread_terminate(t, id)
      PROVE  IInv'
  BY <1>6, SMTT(30) DEF thread_terminate
<1>7. ASSUME NEW id \in Threads, thread_wait_term(t, id)
      PROVE  IInv'
  BY <1>7, SMTT(30) DEF thread_wait_term
<1>8. CASE wait_loop
  BY <1>8, SMTT(30) DEF wait_loop
<1>9. CASE thread_gr_stop
  BY <1>9, SMTT(30) DEF thread_gr_stop
<1>10. CASE thread_gr_cont
  BY <1>10, SMTT(30) DEF thread_gr_cont
<1> QED
  BY <1>1, <1>2, <1>3, <1>4, <1>5, <1>6, <1>7, <1>8, <1>9, <1>10 DEF UserCall

-----------------------------------------------------------------------------
\* The timer interrupt.
LEMMA TimerInterruptIInv ==
  ASSUME IInv, TimerInterrupt
  PROVE  IInv'
<1> USE Ids DEF IInv
<1>1. Gap \in Nat /\ Gap \in 0 .. DCT_CAP + 1
  BY ConstantsAssumption DEF TypeOK, Gap
<1>2. ASSUME elapsed' = Gap, timer_flag' \in {NO, YES},
             UNCHANGED <<sched, lock_flag, switcher, cpu, pc, locals, cs>>
      PROVE  IInv'
  BY <1>1, <1>2
     DEF TypeOK, LockedIsOnCpu, SwitchState, SlotState, SectionState,
         FrameState, LockHasOwner, Locked, IdleOnlyWhenNoneReady, sched, locals
<1>3. ASSUME NEW flag \in BOOLEAN, TimerDeferred(flag)
      PROVE  IInv'
  BY <1>2, <1>3 DEF TimerDeferred
<1>4. CASE TimerCounts
  BY <1>2, <1>4 DEF TimerCounts, flags, TypeOK
<1>5. CASE TimerSwitches
  <2>1. /\ lock_flag = NO /\ pc[cpu] \notin Locked /\ cpu = now_id
        /\ cpu' = now_id' /\ timer_flag' = NO
        /\ UNCHANGED <<lock_flag, switcher, pc, ret, time, tgt, cs>>
    BY <1>5 DEF TimerSwitches, LockedIsOnCpu, SwitchState, Locked, Leaving, locals
  <2>2. change_th_check(state, th_ct, Gap, [sp EXCEPT ![now_id] = "frame", ![now_id'] = "stale"])
    BY <1>5, <2>1 DEF TimerSwitches, Saved, Resumed, FrameHere
  <2>3. /\ sp' = [sp EXCEPT ![now_id] = "frame", ![now_id'] = "stale"]
        /\ th_ct' \in [Contexts -> Int]
        /\ state' \in [Contexts -> {TH_NULL, TH_EXEC, TH_WAIT}]
        /\ elapsed' = 0
        /\ now_id' \in Contexts
        /\ now_id' # WAIT_ID => state'[now_id'] = TH_EXEC
        /\ now_id' = WAIT_ID => \A u \in Threads : state'[u] # TH_EXEC
        /\ \A u \in Contexts : state'[u] = state[u] \/ (state[u] = TH_WAIT /\ state'[u] = TH_EXEC)
    BY <1>1, <2>2, CheckStep DEF TypeOK
  <2>4. \A u \in Contexts : state'[u] = TH_NULL <=> state[u] = TH_NULL
    BY <2>3
  <2>5. pc'[cpu'] \notin Locked /\ pc'[cpu'] # "dead"
    BY <2>1, <2>3, <2>4 DEF LockedIsOnCpu, SlotState
  <2>6. TypeOK'
    BY <2>1, <2>3, ConstantsAssumption DEF TypeOK, Words
  <2>7. LockedIsOnCpu'
    BY <2>1, <2>5 DEF LockedIsOnCpu
  <2>8. SwitchState'
    BY <2>1, <2>3, <2>5 DEF SwitchState, IdleOnlyWhenNoneReady
  <2>9. SlotState'
    BY <2>1, <2>3, <2>4, <2>5 DEF TypeOK, SlotState, SwitchState, Locked, Leaving
  <2>10. SectionState'
    BY <2>1 DEF TypeOK, SectionState
  <2>11. FrameState'
    BY <2>1, <2>3, <2>4, <2>5 DEF TypeOK, FrameState, Locked, Leaving
  <2>12. LockHasOwner'
    BY <2>1 DEF LockHasOwner
  <2> QED
    BY <2>6, <2>7, <2>8, <2>9, <2>10, <2>11, <2>12
<1> QED
  BY <1>3, <1>4, <1>5 DEF TimerInterrupt
-----------------------------------------------------------------------------
(***************************************************************************)
(* The theorems.                                                           *)
(***************************************************************************)

\* Every step of the system preserves the inductive invariant.
LEMMA NextIInv == IInv /\ [Next]_vars => IInv'
<1> SUFFICES ASSUME IInv, [Next]_vars
             PROVE  IInv'
  OBVIOUS
<1>1. ASSUME NEW t \in Contexts, LibraryStep(t)
      PROVE  IInv'
  BY <1>1, LibraryStepIInv
<1>2. ASSUME NEW t \in Threads, UserCall(t)
      PROVE  IInv'
  BY <1>2, UserStepIInv
<1>3. CASE wait_loop \/ thread_gr_stop \/ thread_gr_cont
  BY <1>3, UserStepIInv, Ids
<1>4. CASE TimerInterrupt
  BY <1>4, TimerInterruptIInv
<1>5. CASE UNCHANGED vars
  BY <1>5 DEF IInv, TypeOK, LockedIsOnCpu, SwitchState, IdleOnlyWhenNoneReady, SlotState,
              SectionState, FrameState, LockHasOwner, Locked, vars, sched, flags, kernel, locals
<1> QED
  BY <1>1, <1>2, <1>3, <1>4, <1>5 DEF Next, ThreadStep

\* The inductive invariant holds throughout: between two instructions of any
\* program the scheduler's tables, the CPU and the lock agree.
THEOREM Inductive == Spec => []IInv
<1>1. Init => IInv
  BY InitIInv
<1>2. IInv /\ [Next]_vars => IInv'
  BY NextIInv
<1> QED
  BY <1>1, <1>2, PTL DEF Spec

\* Every variable keeps its type, whatever is stored in th_ct and subtracted from
\* it, and the index of the scan stays a thread's or the idle thread's.
THEOREM TypeCorrect == Spec => []TypeOK
<1>1. IInv => TypeOK
  BY DEF IInv
<1> QED
  BY <1>1, Inductive, PTL

\* With any number of threads, sleeps and interrupts, a thread that does not nest
\* the lock never loses the CPU between thread_lock and thread_unlock, though
\* others nest it.
THEOREM MutualExclusion == Spec => []CriticalSectionsExclude
<1>1. IInv => CriticalSectionsExclude
  BY DEF IInv, SectionState, CriticalSectionsExclude
<1> QED
  BY <1>1, Inductive, PTL

\* Neither a sleeping nor a freed thread ever executes.
THEOREM ReadyThreadsRun == Spec => []OnlyReadyRun
<1>1. IInv => OnlyReadyRun
  BY DEF IInv, SwitchState, OnlyReadyRun
<1> QED
  BY <1>1, Inductive, PTL

\* The CPU idles only while no thread can run.
THEOREM NoIdling == Spec => []IdleOnlyWhenNoneReady
<1>1. IInv => IdleOnlyWhenNoneReady
  BY DEF IInv, SwitchState
<1> QED
  BY <1>1, Inductive, PTL

\* Every context that may be resumed has a frame to resume from.
THEOREM FramesSaved == Spec => []ResumesSavedFrame
<1>1. IInv => ResumesSavedFrame
  <2> SUFFICES ASSUME IInv, NEW t \in Contexts, t # cpu
               PROVE  /\ t = WAIT_ID \/ state[t] # TH_NULL => sp[t] = "frame"
                      /\ pc[t] = "dead" => state[t] = TH_NULL
    BY DEF ResumesSavedFrame
  <2>1. t = WAIT_ID \/ state[t] # TH_NULL => sp[t] = "frame"
    BY DEF IInv, FrameState
  <2>2. pc[t] = "dead" => state[t] = TH_NULL
    BY Ids DEF IInv, SlotState
  <2> QED
    BY <2>1, <2>2
<1> QED
  BY <1>1, Inductive, PTL

\* The lock never outlives its taker, even if programs nest it or sleep with it.
THEOREM NoLockLeftBehind == Spec => []LockHasOwner
<1>1. IInv => LockHasOwner
  BY DEF IInv
<1> QED
  BY <1>1, Inductive, PTL

-----------------------------------------------------------------------------
\* Moving on to the first ready thread brings the scan closer to every other.
LEMMA ScanCloser ==
  ASSUME NEW from \in Threads, NEW st \in [Contexts -> {TH_NULL, TH_EXEC, TH_WAIT}],
         NEW next \in NextIds(from, st), NEW t \in Threads,
         st[t] = TH_EXEC, next # t
  PROVE  ScanDistance(next, t) < ScanDistance(from, t)
<1> DEFINE ready == {u \in Threads : st[u] = TH_EXEC}
<1>1. t \in ready
  OBVIOUS
<1>2. /\ next \in Threads
      /\ ScanDistance(from, next) <= ScanDistance(from, t)
  BY <1>1 DEF NextIds
<1> QED
  BY <1>2, ConstantsAssumption DEF ScanDistance, Threads, Contexts, WAIT_ID

\* Round robin: no ready thread is ever passed over.
THEOREM RoundRobin == Spec => NeverPassesReady
<1>1. IInv /\ IInv' /\ [Next]_vars => ComesCloser
  <2> SUFFICES ASSUME IInv, IInv', [Next]_vars, now_id' # now_id,
                      NEW t \in Threads, state[t] = TH_EXEC, state'[t] = TH_EXEC, now_id' # t
               PROVE  ScanDistance(now_id', t) < ScanDistance(now_id, t)
    BY DEF ComesCloser
  <2>1. now_id' \in NextIds(now_id, state')
    <3>1. ASSUME NEW u \in Contexts, LibraryStep(u)
          PROVE  now_id' \in NextIds(now_id, state')
      BY <3>1 DEF LibraryStep, WaitLock, WaitCheck, ClearTimer, ExecAs, ReturnLock,
                  ReturnParent, ReturnCheck, CreateLock, CreateScan, CreateFull, UnlockYield,
                  UnlockTest, UnlockClear, PollDone, PollWait, change_th_check, sched
    <3>2. ASSUME NEW u \in Threads, UserCall(u)
          PROVE  FALSE
      BY <3>2 DEF UserCall, thread_lock, thread_unlock, thread_wait, thread_create,
                  thread_return, thread_terminate, thread_wait_term, sched
    <3>3. CASE TimerInterrupt
      BY <3>3 DEF TimerInterrupt, TimerSwitches, TimerDeferred, TimerCounts,
                  change_th_check, sched
    <3> QED
      BY <3>1, <3>2, <3>3
      DEF Next, ThreadStep, wait_loop, thread_gr_stop, thread_gr_cont, vars, sched
  <2>2. now_id \in Threads /\ state' \in [Contexts -> {TH_NULL, TH_EXEC, TH_WAIT}]
    BY Ids DEF IInv, TypeOK, SwitchState, IdleOnlyWhenNoneReady
  <2> QED
    BY <2>1, <2>2, ScanCloser
<1>2. Spec => [][ComesCloser]_vars
  BY <1>1, Inductive, PTL DEF Spec
<1> QED
  BY <1>2 DEF NeverPassesReady

-----------------------------------------------------------------------------
(***************************************************************************)
(* How early a sleep may end.                                              *)
(***************************************************************************)

\* What a step of a thread does to those who are on their way into a sleep:
\* whoever is there got there now or was there with the same argument.
LEMMA EntersSleep ==
  ASSUME IInv, ThreadStep, NEW t \in Threads, pc'[t] \in {"wait", "wait_check"}
  PROVE  \/ pc[t] # "wait" /\ pc'[t] = "wait"
         \/ pc[t] \in {"wait", "wait_check"} /\ time'[t] = time[t]
<1> USE Ids DEF IInv, TypeOK, At, Goto, locals
<1>1. ASSUME NEW u \in Contexts, LibraryStep(u)
      PROVE  \/ pc[t] # "wait" /\ pc'[t] = "wait"
             \/ pc[t] \in {"wait", "wait_check"} /\ time'[t] = time[t]
  BY <1>1, SMTT(30) DEF LibraryStep, WaitLock, WaitCheck, ClearTimer, ExecAs, ReturnLock,
              ReturnParent, ReturnCheck, CreateLock, CreateScan, CreateFull, UnlockYield,
              UnlockTest, UnlockClear, PollDone, PollWait
<1>2. ASSUME NEW u \in Threads, UserCall(u)
      PROVE  \/ pc[t] # "wait" /\ pc'[t] = "wait"
             \/ pc[t] \in {"wait", "wait_check"} /\ time'[t] = time[t]
  BY <1>2, SMTT(30) DEF UserCall, Calls, thread_lock, thread_unlock, thread_wait, thread_create,
              thread_return, thread_terminate, thread_wait_term
<1>3. CASE wait_loop \/ thread_gr_stop \/ thread_gr_cont
  BY <1>3 DEF wait_loop, thread_gr_stop, thread_gr_cont
<1> QED
  BY <1>1, <1>2, <1>3 DEF ThreadStep

\* A thread that sleeps or is checked for a sleep is charged by change_th_check
\* alone; every other step leaves its counter and may only forget the gap.
LEMMA SleepsCharged ==
  ASSUME IInv, ThreadStep
  PROVE  \/ \E u \in Contexts : WaitCheck(u) \/ ReturnCheck(u)
         \/ /\ \A t \in Threads : state'[t] = TH_WAIT => state[t] = TH_WAIT /\ th_ct'[t] = th_ct[t]
            /\ elapsed' = elapsed \/ elapsed' = 0
            /\ \A t \in Threads : state[t] = TH_WAIT => state'[t] # TH_EXEC
            /\ \A t \in Threads : pc'[t] = "clear" => pc[t] # "wait_check"
            /\ \A t \in Threads : state[t] = TH_WAIT /\ pc'[t] = "wait" => pc[t] = "wait"
<1> DEFINE SleepsKept ==
      /\ \A t \in Threads : state'[t] = TH_WAIT => state[t] = TH_WAIT /\ th_ct'[t] = th_ct[t]
      /\ elapsed' = elapsed \/ elapsed' = 0
      /\ \A t \in Threads : state[t] = TH_WAIT => state'[t] # TH_EXEC
<1> DEFINE PcKept ==
      /\ \A t \in Threads : pc'[t] = "clear" => pc[t] # "wait_check"
      /\ \A t \in Threads : state[t] = TH_WAIT /\ pc'[t] = "wait" => pc[t] = "wait"
<1>1. ASSUME NEW t \in Threads, cpu = t, pc[t] \notin {"clear", "exec"}
      PROVE  state[t] # TH_WAIT
  BY <1>1, Ids DEF IInv, SwitchState, Leaving
<1>2. ASSUME NEW u \in Contexts, LibraryStep(u)
      PROVE  WaitCheck(u) \/ ReturnCheck(u) \/ (SleepsKept /\ PcKept)
  <2> USE Ids DEF IInv, TypeOK, sched, kernel, locals, At, Goto
  <2>1. WaitCheck(u) \/ ReturnCheck(u) \/ SleepsKept
    BY <1>2, SMTT(30) DEF LibraryStep, WaitLock, ClearTimer, ExecAs, ReturnLock,
                ReturnParent, CreateLock, CreateScan, FreeSlots, CreateFull, UnlockYield,
                UnlockTest, UnlockClear, PollDone, PollWait
  <2>2. CASE PollWait(u) \/ UnlockYield(u)
    BY <1>1, <2>1, <2>2 DEF PollWait, UnlockYield
  <2>3. CASE CreateScan(u)
    BY <2>1, <2>3 DEF CreateScan, FreeSlots
  <2>4. CASE ExecAs(u) \/ ClearTimer(u)
    BY <2>1, <2>4 DEF ExecAs, ClearTimer
  <2>5. CASE WaitLock(u) \/ ReturnLock(u) \/ ReturnParent(u)
    BY <2>1, <2>5 DEF WaitLock, ReturnLock, ReturnParent
  <2>6. CASE CreateLock(u) \/ CreateFull(u) \/ UnlockTest(u) \/ UnlockClear(u) \/ PollDone(u)
    BY <2>1, <2>6 DEF CreateLock, CreateFull, UnlockTest, UnlockClear, PollDone
  <2> HIDE DEF SleepsKept, PcKept, IInv, TypeOK, At, Goto
  <2> QED
    BY <1>2, <2>2, <2>3, <2>4, <2>5, <2>6 DEF LibraryStep
<1>3. ASSUME NEW u \in Threads, UserCall(u)
      PROVE  SleepsKept /\ PcKept
  <2> USE Ids DEF IInv, TypeOK, sched, kernel, locals, Calls, At, Goto
  <2>1. SleepsKept
    BY <1>3, SMTT(30) DEF UserCall, thread_lock, thread_unlock, thread_wait, thread_create,
                thread_return, thread_terminate, thread_wait_term
  <2>2. PcKept
    BY <1>1, <1>3, SMTT(30) DEF UserCall, thread_lock, thread_unlock, thread_wait, thread_create,
                thread_return, thread_terminate, thread_wait_term
  <2> QED
    BY <2>1, <2>2
<1>4. CASE wait_loop \/ thread_gr_stop \/ thread_gr_cont
  BY <1>4, Ids DEF wait_loop, thread_gr_stop, thread_gr_cont, IInv, TypeOK, sched, kernel, locals,
                   At, Goto
<1> QED
  BY <1>2, <1>3, <1>4 DEF ThreadStep

\* What one check takes from a counter is at most the time that passed, and never
\* more than the longest gap it believes.
LEMMA ChargeBounded ==
  ASSUME NEW gap \in Nat
  PROVE  Dct(gap) \in Nat /\ Dct(gap) <= gap /\ Dct(gap) <= DCT_CAP
  BY ConstantsAssumption DEF Dct

\* A check, made by whomever: a sleeper it wakes had at most one gap to go, and
\* one it leaves asleep has its counter and at most one gap to go.
LEMMA CheckChargesSleepers ==
  ASSUME NEW st, NEW ct \in [Contexts -> Int], NEW gap \in Nat, NEW words,
         change_th_check(st, ct, gap, words),
         NEW t \in Threads, st[t] = TH_WAIT,
         NEW left \in Int, left <= 0 \/ left <= ct[t] - Dct(gap) + DCT_CAP
  PROVE  /\ state'[t] = TH_WAIT => left <= 0 \/ left + elapsed' <= th_ct'[t] + DCT_CAP
         /\ state'[t] # TH_WAIT => left <= DCT_CAP
<1>1. t \in Contexts /\ DCT_CAP \in Nat \ {0} /\ TH_EXEC # TH_WAIT
  BY Ids, ConstantsAssumption
<1>2. /\ th_ct'[t] = ct[t] - Dct(gap) /\ elapsed' = 0
      /\ state'[t] = IF ct[t] - Dct(gap) <= 0 THEN TH_EXEC ELSE st[t]
  BY <1>1 DEF change_th_check
<1>3. ct[t] \in Int /\ Dct(gap) \in Nat
  BY <1>1, ChargeBounded
<1>4. CASE ct[t] - Dct(gap) <= 0
  <2>1. state'[t] = TH_EXEC
    BY <1>2, <1>4
  <2>2. left <= DCT_CAP
    BY <1>1, <1>3, <1>4
  <2> QED
    BY <1>1, <2>1, <2>2
<1>5. CASE ~(ct[t] - Dct(gap) <= 0)
  <2>1. state'[t] = TH_WAIT
    BY <1>2, <1>5
  <2>2. left <= 0 \/ left + elapsed' <= th_ct'[t] + DCT_CAP
    BY <1>1, <1>2, <1>3
  <2> QED
    BY <2>1, <2>2
<1> QED
  BY <1>4, <1>5

\* One step keeps what SleepInv says of the sleeps, and wakes nobody who has more
\* than one gap to go.
LEMMA SleepStepInv ==
  ASSUME SleepInv, SleepNext
  PROVE  /\ SleepInv'
         /\ \A t \in Threads : Wakes(t) => remain'[t] <= DCT_CAP
<1> DEFINE Early(t) == /\ pc'[t] \in {"wait", "wait_check"} => remain'[t] <= time'[t]
                       /\ state'[t] = TH_WAIT => remain'[t] <= 0 \/ remain'[t] + elapsed' <= th_ct'[t] + DCT_CAP
                       /\ Wakes(t) => remain'[t] <= DCT_CAP
<1>1. IInv /\ IInv'
  <2>1. Next
    BY DEF SleepNext, SleepTick, SleepStep, Next
  <2> QED
    BY <2>1, NextIInv DEF SleepInv
<1>2. /\ DCT_CAP \in Nat \ {0} /\ elapsed \in Nat /\ elapsed <= DCT_CAP + 1
      /\ th_ct \in [Contexts -> Int] /\ Threads \subseteq Contexts
      /\ TH_NULL # TH_EXEC /\ TH_NULL # TH_WAIT /\ TH_EXEC # TH_WAIT
      /\ time \in [Contexts -> Int] /\ time' \in [Contexts -> Int]
  <2>1. /\ elapsed \in 0 .. DCT_CAP + 1 /\ th_ct \in [Contexts -> Int]
        /\ time \in [Contexts -> Times] /\ time' \in [Contexts -> Times]
    BY <1>1 DEF IInv, TypeOK
  <2>2. elapsed \in Nat /\ elapsed <= DCT_CAP + 1
    BY <2>1, ConstantsAssumption
  <2> QED
    BY <2>1, <2>2, Ids, ConstantsAssumption
<1>3. remain' \in [Contexts -> Int]
  BY <1>2 DEF SleepInv, SleepNext, SleepTick, SleepStep
<1>4. ASSUME SleepTick, NEW t \in Threads PROVE Early(t)
  <2>1. /\ remain[t] \in Int /\ remain'[t] \in Int /\ t \in Contexts /\ th_ct[t] \in Int
        /\ remain'[t] <= remain[t]
        /\ remain'[t] = IF Asleep(t) /\ remain[t] > 0 THEN remain[t] - 1 ELSE remain[t]
    BY <1>2, <1>3, <1>4 DEF SleepInv, SleepTick
  <2>2. pc' = pc /\ time' = time
    BY <1>4 DEF SleepTick, TimerInterrupt, TimerSwitches, TimerDeferred, TimerCounts, locals
  <2>3. pc'[t] \in {"wait", "wait_check"} => remain'[t] <= time'[t]
    BY <1>2, <2>1, <2>2 DEF SleepInv
  <2>4. state[t] = TH_WAIT =>
          remain'[t] <= 0 \/ remain'[t] + 1 + elapsed <= th_ct[t] + DCT_CAP
    BY <1>2, <2>1 DEF SleepInv, Asleep
  <2>5. ~(pc[t] = "wait_check" /\ pc'[t] = "clear")
    BY <2>2
  <2>6. Gap \in Nat /\ Gap <= elapsed + 1
    BY <1>2 DEF Gap
  <2>7. CASE TimerSwitches
    <3>1. change_th_check(state, th_ct, Gap, Resumed(Saved(FrameHere), now_id'))
      BY <2>7 DEF TimerSwitches
    <3>2. CASE state[t] = TH_WAIT
      <4>1. Dct(Gap) \in Nat /\ Dct(Gap) <= Gap
        BY <2>6, ChargeBounded
      <4>2. remain'[t] <= 0 \/ remain'[t] <= th_ct[t] - Dct(Gap) + DCT_CAP
        BY <1>2, <2>1, <2>4, <2>6, <3>2, <4>1
      <4>3. /\ state'[t] = TH_WAIT => remain'[t] <= 0 \/ remain'[t] + elapsed' <= th_ct'[t] + DCT_CAP
            /\ state'[t] # TH_WAIT => remain'[t] <= DCT_CAP
        BY <1>2, <2>1, <2>6, <3>1, <3>2, <4>2, CheckChargesSleepers
      <4> QED
        BY <1>2, <2>3, <4>3 DEF Wakes
    <3>3. CASE state[t] # TH_WAIT
      <4>1. state'[t] # TH_WAIT
        BY <2>1, <3>1, <3>3 DEF change_th_check
      <4> QED
        BY <2>3, <2>5, <3>3, <4>1 DEF Wakes
    <3> QED
      BY <3>2, <3>3
  <2>8. CASE TimerCounts \/ \E flag \in BOOLEAN : TimerDeferred(flag)
    <3>1. state' = state /\ th_ct' = th_ct /\ elapsed' = Gap
      BY <2>8 DEF TimerCounts, TimerDeferred, sched
    <3>2. state'[t] = TH_WAIT => remain'[t] <= 0 \/ remain'[t] + elapsed' <= th_ct'[t] + DCT_CAP
      BY <1>2, <2>1, <2>4, <2>6, <3>1
    <3>3. ~Wakes(t)
      BY <1>2, <2>5, <3>1 DEF Wakes
    <3> QED
      BY <2>3, <3>2, <3>3
  <2> QED
    BY <1>4, <2>7, <2>8 DEF SleepTick, TimerInterrupt
<1>5. ASSUME SleepStep, NEW t \in Threads PROVE Early(t)
  <2>1. /\ remain[t] \in Int /\ remain'[t] \in Int /\ t \in Contexts /\ th_ct[t] \in Int
        /\ remain'[t] = IF pc[t] # "wait" /\ pc'[t] = "wait" THEN time'[t] ELSE remain[t]
        /\ ThreadStep
    BY <1>2, <1>3, <1>5 DEF SleepInv, SleepStep
  <2>2. pc'[t] \in {"wait", "wait_check"} => remain'[t] <= time'[t]
    BY <1>1, <1>2, <2>1, EntersSleep DEF SleepInv
  <2>3. ASSUME NEW u \in Contexts, At(u, "wait_check") \/ At(u, "return_check")
        PROVE  /\ u = now_id /\ u = cpu
               /\ state[t] = TH_WAIT => u # t
    <3>1. u = cpu /\ pc[cpu] \notin Leaving
      BY <2>3 DEF At, Leaving
    <3>2. u = now_id
      BY <1>1, <3>1 DEF IInv, SwitchState
    <3>3. now_id # WAIT_ID => state[now_id] = TH_EXEC
      BY <1>1 DEF IInv, SwitchState
    <3>4. t # WAIT_ID
      BY Ids
    <3> QED
      BY <1>2, <3>1, <3>2, <3>3, <3>4
  <2>4. ASSUME NEW u \in Contexts, WaitCheck(u) PROVE Early(t)
    <3> DEFINE st == [state EXCEPT ![now_id] = TH_WAIT]
    <3> DEFINE ct == [th_ct EXCEPT ![now_id] = time[u]]
    <3>1. /\ change_th_check(st, ct, elapsed, Saved("frame"))
          /\ At(u, "wait_check") /\ pc' = [pc EXCEPT ![u] = "clear"]
      BY <2>4 DEF WaitCheck, Goto
    <3>2. /\ u = now_id /\ pc[u] = "wait_check" /\ (state[t] = TH_WAIT => u # t)
          /\ state \in [Contexts -> {TH_NULL, TH_EXEC, TH_WAIT}]
          /\ pc \in [Contexts -> Labels]
      BY <1>1, <2>3, <3>1 DEF At, IInv, TypeOK
    <3>3. remain'[t] = remain[t]
      BY <2>1, <3>1, <3>2
    <3>4. ct \in [Contexts -> Int] /\ Dct(elapsed) \in Nat /\ Dct(elapsed) <= elapsed
          /\ Dct(elapsed) <= DCT_CAP
      BY <1>2, ChargeBounded
    <3>5. CASE t = u
      <4>1. st[t] = TH_WAIT /\ ct[t] = time[t] /\ time[t] \in Int
        BY <1>2, <2>1, <3>2, <3>5
      <4>2. remain[t] <= time[t]
        BY <3>2, <3>5 DEF SleepInv
      <4>3. remain[t] <= ct[t] - Dct(elapsed) + DCT_CAP
        BY <1>2, <2>1, <3>4, <4>1, <4>2
      <4>4. /\ state'[t] = TH_WAIT => remain[t] <= 0 \/ remain[t] + elapsed' <= th_ct'[t] + DCT_CAP
            /\ state'[t] # TH_WAIT => remain[t] <= DCT_CAP
        <5> HIDE DEF st, ct
        <5> QED
          BY <1>2, <2>1, <3>1, <3>4, <4>1, <4>3, CheckChargesSleepers
      <4> QED
        BY <1>2, <2>2, <3>3, <4>4 DEF Wakes
    <3>6. CASE t # u
      <4>1. st[t] = state[t] /\ ct[t] = th_ct[t]
        BY <1>2, <2>1, <3>2, <3>6
      <4>2. CASE state[t] = TH_WAIT
        <5>1. remain[t] <= 0 \/ remain[t] + elapsed <= th_ct[t] + DCT_CAP
          BY <4>2 DEF SleepInv
        <5>2. remain[t] <= 0 \/ remain[t] <= ct[t] - Dct(elapsed) + DCT_CAP
          <6> HIDE DEF ct
          <6> QED
            BY <1>2, <2>1, <3>4, <4>1, <5>1
        <5>3. /\ state'[t] = TH_WAIT => remain[t] <= 0 \/ remain[t] + elapsed' <= th_ct'[t] + DCT_CAP
              /\ state'[t] # TH_WAIT => remain[t] <= DCT_CAP
          <6> HIDE DEF st, ct
          <6> QED
            BY <1>2, <2>1, <3>1, <3>4, <4>1, <4>2, <5>2, CheckChargesSleepers
        <5> QED
          BY <1>2, <2>2, <3>3, <5>3 DEF Wakes
      <4>3. CASE state[t] # TH_WAIT
        <5>1. state'[t] = st[t] \/ st[t] = TH_WAIT
          BY <2>1, <3>1 DEF change_th_check
        <5>2. state'[t] # TH_WAIT
          BY <4>1, <4>3, <5>1
        <5>3. pc'[t] = pc[t]
          BY <2>1, <3>1, <3>2, <3>6
        <5> QED
          BY <2>2, <4>3, <5>2, <5>3 DEF Wakes
      <4> QED
        BY <4>2, <4>3
    <3> QED
      BY <3>5, <3>6
  <2>5. ASSUME NEW u \in Contexts, ReturnCheck(u) PROVE Early(t)
    <3> DEFINE st == [state EXCEPT ![now_id] = TH_NULL]
    <3>1. /\ change_th_check(st, th_ct, elapsed, Saved("zero"))
          /\ At(u, "return_check") /\ pc' = [pc EXCEPT ![u] = "clear"]
      BY <2>5 DEF ReturnCheck, Goto
    <3>2. /\ u = now_id /\ pc[u] = "return_check" /\ (state[t] = TH_WAIT => u # t)
          /\ state \in [Contexts -> {TH_NULL, TH_EXEC, TH_WAIT}]
          /\ pc \in [Contexts -> Labels]
      BY <1>1, <2>3, <3>1 DEF At, IInv, TypeOK
    <3>3. remain'[t] = remain[t] /\ ~(pc[t] = "wait_check" /\ pc'[t] = "clear")
      BY <2>1, <3>1, <3>2
    <3>4. Dct(elapsed) \in Nat /\ Dct(elapsed) <= elapsed
      BY <1>2, ChargeBounded
    <3>5. CASE state[t] = TH_WAIT
      <4>1. st[t] = TH_WAIT
        BY <2>1, <3>2, <3>5
      <4>2. remain[t] <= 0 \/ remain[t] + elapsed <= th_ct[t] + DCT_CAP
        BY <3>5 DEF SleepInv
      <4>3. remain[t] <= 0 \/ remain[t] <= th_ct[t] - Dct(elapsed) + DCT_CAP
        BY <1>2, <2>1, <3>4, <4>2
      <4>4. /\ state'[t] = TH_WAIT => remain[t] <= 0 \/ remain[t] + elapsed' <= th_ct'[t] + DCT_CAP
            /\ state'[t] # TH_WAIT => remain[t] <= DCT_CAP
        <5> HIDE DEF st
        <5> QED
          BY <1>2, <2>1, <3>1, <4>1, <4>3, CheckChargesSleepers
      <4> QED
        BY <1>2, <2>2, <3>3, <4>4 DEF Wakes
    <3>6. CASE state[t] # TH_WAIT
      <4>1. st[t] # TH_WAIT
        BY <1>2, <2>1, <3>2, <3>6
      <4>2. state'[t] = st[t]
        BY <2>1, <3>1, <4>1 DEF change_th_check
      <4> QED
        BY <2>2, <3>3, <3>6, <4>1, <4>2 DEF Wakes
    <3> QED
      BY <3>5, <3>6
  <2>6. ASSUME /\ \A v \in Threads : state'[v] = TH_WAIT => state[v] = TH_WAIT /\ th_ct'[v] = th_ct[v]
               /\ elapsed' = elapsed \/ elapsed' = 0
               /\ \A v \in Threads : state[v] = TH_WAIT => state'[v] # TH_EXEC
               /\ \A v \in Threads : pc'[v] = "clear" => pc[v] # "wait_check"
               /\ \A v \in Threads : state[v] = TH_WAIT /\ pc'[v] = "wait" => pc[v] = "wait"
        PROVE  Early(t)
    <3>2. state'[t] = TH_WAIT => remain'[t] <= 0 \/ remain'[t] + elapsed' <= th_ct'[t] + DCT_CAP
      <4>1. SUFFICES ASSUME state'[t] = TH_WAIT
                     PROVE  remain'[t] <= 0 \/ remain'[t] + elapsed' <= th_ct'[t] + DCT_CAP
        OBVIOUS
      <4>2. state[t] = TH_WAIT /\ th_ct'[t] = th_ct[t]
        BY <2>6, <4>1
      <4>3. remain[t] <= 0 \/ remain[t] + elapsed <= th_ct[t] + DCT_CAP
        BY <4>2 DEF SleepInv
      <4>4. remain'[t] = remain[t]
        BY <2>1, <2>6, <4>2
      <4> QED
        BY <1>2, <2>1, <2>6, <4>2, <4>3, <4>4
    <3>3. ~Wakes(t)
      <4>1. ~(pc[t] = "wait_check" /\ pc'[t] = "clear")
        BY <2>6
      <4> QED
        BY <2>6, <4>1 DEF Wakes
    <3> QED
      BY <2>2, <3>2, <3>3
  <2> QED
    BY <1>1, <2>1, <2>4, <2>5, <2>6, SleepsCharged
<1> QED
  BY <1>1, <1>3, <1>4, <1>5 DEF SleepInv, SleepNext

\* What SleepInv says of the sleeps holds in every state.
THEOREM SleepInductive == SleepSpec => []SleepInv
<1>1. SleepInit => SleepInv
  <2> SUFFICES ASSUME SleepInit PROVE SleepInv
    OBVIOUS
  <2>1. IInv
    BY InitIInv DEF SleepInit
  <2>2. /\ remain = [t \in Contexts |-> 0]
        /\ \A t \in Threads : pc[t] \notin {"wait", "wait_check"} /\ state[t] # TH_WAIT
    BY Ids DEF SleepInit, Init
  <2> QED
    BY <2>1, <2>2 DEF SleepInv
<1>2. SleepInv /\ [SleepNext]_sleepVars => SleepInv'
  <2> SUFFICES ASSUME SleepInv, [SleepNext]_sleepVars PROVE SleepInv'
    OBVIOUS
  <2>1. CASE SleepNext
    BY <2>1, SleepStepInv
  <2>2. CASE UNCHANGED sleepVars
    <3>1. IInv'
      BY <2>2, NextIInv DEF SleepInv, sleepVars
    <3> QED
      BY <2>2, <3>1 DEF SleepInv, sleepVars, vars, sched, kernel, locals
  <2> QED
    BY <2>1, <2>2
<1> QED
  BY <1>1, <1>2, PTL DEF SleepSpec

\* A sleep ends early by one believed gap at most, for every number of threads,
\* every cap on the gap and every length of sleep (thread_wait, change_th_check,
\* change_th_check_isr).
THEOREM SleepsOneGapEarly == SleepSpec => EarlyByOneGapAtMost
<1> DEFINE A == \A t \in Threads : Wakes(t) => remain'[t] <= DCT_CAP
<1>1. SleepInv /\ SleepNext => A
  BY SleepStepInv
<1>2. SleepSpec => [][A]_sleepVars
  BY <1>1, SleepInductive, PTL DEF SleepSpec
<1> QED
  BY <1>2 DEF EarlyByOneGapAtMost

-----------------------------------------------------------------------------
\* Every step of the frame, of a child and of the library is a step that the
\* thread library admits, or none of its business.
LEMMA AppStepIsThreadsStep == [AppNext]_allVars => [Next]_vars
<1> SUFFICES ASSUME AppNext
             PROVE  [Next]_vars
  BY DEF allVars
<1>1. CASE AppStep
  <2>1. Parent \in Threads
    BY Ids
  <2>2. UNCHANGED vars \/ UserCall(Parent) \/ thread_gr_stop
    BY <1>1 DEF AppStep, CreateSmain, LockForOs, pceAppProc, pceAppExit, BackSprite, Switch,
                SmainOver, ReqExit, WaitAndDraw, ShowError, StartButton, LastLock, Exit,
                Computes, UserCall
  <2> QED
    BY <2>1, <2>2 DEF Next, ThreadStep
<1>2. CASE Child
  <2>1. Children \subseteq Threads
    BY Ids
  <2>2. UNCHANGED vars \/ \E t \in Children : UserCall(t)
    BY <1>2 DEF Child, simple_error
  <2> QED
    BY <2>1, <2>2 DEF Next, ThreadStep
<1>3. CASE Below
  BY <1>3 DEF Below, Next, ThreadStep
<1> QED
  BY <1>1, <1>2, <1>3 DEF AppNext

\* The application is one of the thread library's programs.
THEOREM AppIsThreads == AppSpec => Spec
<1>1. AppInit => Init
  BY DEF AppInit
<1> QED
  BY <1>1, AppStepIsThreadsStep, PTL DEF AppSpec, Spec

\* What the library promises its programs holds of the application.
THEOREM AppInductive == AppSpec => []IInv
  BY AppIsThreads, Inductive, PTL

-----------------------------------------------------------------------------
\* Outside the callbacks and after the last one, no child can get the CPU.
THEOREM OsKeepsCpu == AppSpec => []OsUndisturbed
<1>1. AppInit => OsUndisturbed
  BY DEF AppInit, OsUndisturbed
<1>2. OsUndisturbed /\ [AppNext]_allVars => OsUndisturbed'
  <2> SUFFICES ASSUME OsUndisturbed, [AppNext]_allVars, app' \in {"os", "over"}
               PROVE  OsUndisturbed'
    BY DEF OsUndisturbed
  <2> USE Ids
  <2>1. CASE AppStep
    <3>1. \/ app' = "os" /\ Calls(Parent) /\ thread_lock(Parent)
          \/ app' = "over" /\ Calls(Parent) /\ thread_gr_stop
      BY <2>1 DEF AppStep, CreateSmain, LockForOs, pceAppProc, pceAppExit, BackSprite, Switch,
                  SmainOver, ReqExit, WaitAndDraw, ShowError, StartButton, LastLock, Exit, Reaches
    <3> QED
      BY <3>1 DEF OsUndisturbed, thread_lock, thread_gr_stop, Calls, At
  <2>2. CASE Child
    <3>1. app' = app /\ \E t \in Children : Calls(t) \/ UserCall(t)
      BY <2>2 DEF Child, simple_error
    <3>2. PICK t \in Children : Calls(t)
      BY <3>1 DEF UserCall, thread_lock, thread_unlock, thread_wait, thread_create,
                  thread_return, thread_terminate, thread_wait_term
    <3> QED
      BY <3>1, <3>2 DEF OsUndisturbed, Calls, At
  <2>3. CASE Below
    <3>1. app' = app /\ Calls(Parent) /\ (lock_flag = YES \/ switcher = "NULL")
      BY <2>3 DEF Below, OsUndisturbed
    <3>2. ASSUME NEW t \in Contexts, LibraryStep(t)
          PROVE  FALSE
      BY <3>1, <3>2 DEF Calls, At, LibraryStep, WaitLock, WaitCheck, ClearTimer, ExecAs,
                        ReturnLock, ReturnParent, ReturnCheck, CreateLock, CreateScan, CreateFull,
                        UnlockYield, UnlockTest, UnlockClear, PollDone, PollWait
    <3>3. ~wait_loop
      BY <3>1 DEF wait_loop, Calls, At
    <3>4. ~TimerSwitches
      BY <3>1 DEF TimerSwitches
    <3>5. (\E flag \in BOOLEAN : TimerDeferred(flag)) \/ TimerCounts
      BY <2>3, <3>2, <3>3, <3>4 DEF Below, TimerInterrupt
    <3>6. UNCHANGED <<cpu, pc, lock_flag, switcher>>
      BY <3>5 DEF TimerDeferred, TimerCounts, flags
    <3> QED
      BY <3>1, <3>6 DEF OsUndisturbed, Calls, At
  <2>4. CASE UNCHANGED allVars
    BY <2>4 DEF allVars, appVars, vars, flags, kernel, OsUndisturbed, Calls, At
  <2> QED
    BY <2>1, <2>2, <2>3, <2>4 DEF AppNext
<1> QED
  BY <1>1, <1>2, PTL DEF AppSpec

-----------------------------------------------------------------------------
\* The table of threads begins with a child's slot, which thread_create fills first.
LEMMA ZeroIsAChild == 0 \in Children /\ \A i \in Children : i \in Nat
  BY ConstantsAssumption DEF Children

\* As long as that slot is empty, thread_create fills it.
LEMMA FirstSlotIsSmains ==
  ASSUME NEW t \in Contexts, TypeOK, state[0] = TH_NULL, CreateScan(t)
  PROVE  state'[0] # TH_NULL
<1>1. 0 \in FreeSlots
  BY ZeroIsAChild DEF FreeSlots
<1>2. PICK i \in FreeSlots : i <= 0 /\ state' = [state EXCEPT ![i] = TH_EXEC]
  BY <1>1 DEF CreateScan
<1>3. i = 0
  BY <1>2, ZeroIsAChild DEF FreeSlots
<1> QED
  BY <1>2, <1>3, Ids, ZeroIsAChild DEF TypeOK

\* What a step of a callback does to the frame's own variables.
LEMMA FrameVariables ==
  ASSUME AppInv, AppStep, SmainEnds
  PROVE  AppTypeOK' /\ ErrorKept' /\ EndLookedAt'
<1> USE Ids, ZeroIsAChild DEF AppInv, AppTypeOK, ErrorKept, EndLookedAt, SmainEnds, Quiet, Reaches
<1>1. CASE CreateSmain \/ LockForOs \/ LastLock \/ Exit
  BY <1>1 DEF CreateSmain, LockForOs, LastLock, Exit
<1>2. CASE pceAppProc \/ pceAppExit
  BY <1>2 DEF pceAppProc, pceAppExit, Computes, vars, sched
<1>3. CASE BackSprite \/ WaitAndDraw
  BY <1>3 DEF BackSprite, WaitAndDraw
<1>4. CASE Switch
  BY <1>4 DEF Switch
<1>5. CASE SmainOver
  BY <1>5 DEF SmainOver, SmainMade
<1>6. CASE ReqExit
  BY <1>6 DEF ReqExit
<1>7. CASE ShowError
  <2>1. AppTypeOK'
    <3>1. errorflag' \in 0 .. 2
      BY <1>7 DEF ShowError
    <3>2. exitreq' \in BOOLEAN /\ ended' \in BOOLEAN /\ unseen' \in BOOLEAN
      BY <1>7, Zenon DEF ShowError
    <3> QED
      BY <1>7, <3>1, <3>2 DEF ShowError
  <2> QED
    BY <1>7, <2>1 DEF ShowError
<1>8. CASE StartButton
  <2>1. exitreq' \in BOOLEAN /\ ended' \in BOOLEAN /\ unseen' \in BOOLEAN
    BY <1>8, Zenon DEF StartButton
  <2> QED
    BY <1>8, <2>1 DEF StartButton
<1> QED
  BY <1>1, <1>2, <1>3, <1>4, <1>5, <1>6, <1>7, <1>8 DEF AppStep

\* smain's slot, in every step but those of thread_create: it is freed, or as it was.
LEMMA SmainMadeStep ==
  ASSUME IInv, AppInv, AppNext
  PROVE  SmainMade'
<1> USE Ids, ZeroIsAChild
<1>1. SmainEnds
  BY DEF AppNext
<1>2. SUFFICES ASSUME state'[0] = TH_NULL, ~ended'
               PROVE  \/ app' = "create"
                      \/ app' = "lock" /\ pc'[Parent] \in {"create", "create_scan"}
  <2>1. app' \notin {"create", "lock"} => smain_id' = 0
    <3>1. CASE AppStep
      BY <3>1 DEF AppInv, SmainMade, AppStep, CreateSmain, LockForOs, pceAppProc, pceAppExit,
                  BackSprite, Switch, SmainOver, ReqExit, WaitAndDraw, ShowError, StartButton,
                  LastLock, Exit, Reaches, Quiet
    <3>2. CASE Child \/ Below
      BY <3>2 DEF AppInv, SmainMade, Child, Below, simple_error
    <3> QED
      BY <3>1, <3>2 DEF AppNext
  <2> QED
    BY <2>1, <1>2 DEF SmainMade
<1>3. state[0] = TH_NULL /\ ~ended
  BY <1>1, <1>2 DEF SmainEnds
<1>4. CASE app = "create"
  <2>1. CASE AppStep
    <3>1. app' = "lock" /\ thread_create(Parent)
      BY <1>4, <2>1 DEF AppStep, CreateSmain, LockForOs, pceAppProc, pceAppExit, BackSprite,
                Switch, SmainOver, ReqExit, WaitAndDraw, ShowError, StartButton, LastLock,
                Exit, Reaches
    <3> QED
      BY <3>1 DEF thread_create, Goto, IInv, TypeOK
  <2>2. CASE Child \/ Below
    BY <1>4, <2>2 DEF Child, Below, simple_error
  <2> QED
    BY <2>1, <2>2 DEF AppNext
<1>5. CASE app = "lock" /\ pc[Parent] \in {"create", "create_scan"}
  <2>1. ~AppStep
    BY <1>5 DEF AppStep, CreateSmain, LockForOs, pceAppProc, pceAppExit, BackSprite,
                Switch, SmainOver, ReqExit, WaitAndDraw, ShowError, StartButton, LastLock,
                Exit, Reaches, Calls, At
  <2>2. app' = "lock"
    BY <1>5, <2>1 DEF AppNext, Child, Below, simple_error
  <2>3. pc \in [Contexts -> Labels]
    BY DEF IInv, TypeOK
  <2>4. CASE Child
    <3>1. CASE \E t \in Children : UserCall(t)
      <4> PICK t \in Children : UserCall(t)
        BY <3>1
      <4>1. pc'[Parent] = pc[Parent]
        BY <2>3 DEF UserCall, thread_lock, thread_unlock, thread_wait, thread_create, thread_return,
                    thread_terminate, thread_wait_term, Goto
      <4> QED
        BY <1>5, <2>2, <4>1
    <3>2. CASE UNCHANGED vars
      BY <1>5, <2>2, <3>2 DEF vars
    <3> QED
      BY <2>4, <3>1, <3>2 DEF Child, simple_error
  <2>5. CASE Below
    <3>1. CASE wait_loop \/ TimerInterrupt
      <4>1. pc'[Parent] = pc[Parent]
        BY <2>3, <3>1 DEF wait_loop, TimerInterrupt, TimerSwitches, TimerDeferred, TimerCounts, Goto
      <4> QED
        BY <1>5, <2>2, <4>1
    <3>2. ASSUME NEW t \in Contexts, LibraryStep(t)
          PROVE  pc'[Parent] \in {"create", "create_scan"}
      <4>1. CASE t # Parent
        <5>1. ~CreateScan(t)
          BY <1>2, <1>3, FirstSlotIsSmains DEF IInv
        <5>2. pc'[Parent] = pc[Parent]
          BY <2>3, <3>2, <4>1, <5>1
             DEF LibraryStep, WaitLock, WaitCheck, ClearTimer, ExecAs, ReturnLock, ReturnParent,
                 ReturnCheck, CreateLock, CreateFull, UnlockYield, UnlockTest, UnlockClear,
                 PollDone, PollWait, Goto
        <5> QED
          BY <1>5, <5>2
      <4>2. CASE t = Parent
        <5>1. ~CreateScan(t) /\ ~CreateFull(t)
          BY <1>2, <1>3, FirstSlotIsSmains DEF IInv, CreateFull, FreeSlots
        <5>2. CreateLock(t)
          BY <1>5, <3>2, <4>2, <5>1
             DEF LibraryStep, WaitLock, WaitCheck, ClearTimer, ExecAs, ReturnLock, ReturnParent,
                 ReturnCheck, UnlockYield, UnlockTest, UnlockClear, PollDone, PollWait, At
        <5> QED
          BY <2>3, <4>2, <5>2 DEF CreateLock, Goto
      <4> QED
        BY <4>1, <4>2
    <3> QED
      BY <2>2, <2>5, <3>1, <3>2 DEF Below
  <2> QED
    BY <2>1, <2>4, <2>5 DEF AppNext
<1> QED
  BY <1>3, <1>4, <1>5 DEF AppInv, SmainMade

\* What every step of the application preserves.
LEMMA AppStepInv == IInv /\ AppInv /\ [AppNext]_allVars => AppInv'
<1> SUFFICES ASSUME IInv, AppInv, [AppNext]_allVars
             PROVE  AppInv'
  OBVIOUS
<1>1. CASE UNCHANGED allVars
  BY <1>1 DEF allVars, appVars, vars, sched, AppInv, AppTypeOK, ErrorKept, SmainMade, EndLookedAt
<1>2. CASE AppNext
  <2>1. SmainEnds
    BY <1>2 DEF AppNext
  <2>2. CASE AppStep
    BY <2>1, <2>2, <1>2, FrameVariables, SmainMadeStep DEF AppInv
  <2>3. CASE Child \/ Below
    <3>1. exitreq' \in BOOLEAN /\ ended' \in BOOLEAN /\ unseen' \in BOOLEAN
      BY <2>1, <2>3, Zenon DEF Child, Below, simple_error, SmainEnds, AppInv, AppTypeOK
    <3>2. /\ app' = app /\ smain_id' = smain_id
          /\ errorflag' \in {errorflag, 1}
          /\ ended => ended'
          /\ unseen' => (unseen /\ errorflag' = errorflag) \/ (errorflag' = 1 /\ (unseen \/ ~ended))
      <4>1. ended => ended'
        BY <2>1, Zenon DEF SmainEnds
      <4>2. CASE UNCHANGED <<app, smain_id, errorflag, exitreq, unseen>>
        BY <4>1, <4>2
      <4>3. CASE \E t \in Children : simple_error(t)
        <5>1. unseen' => unseen \/ ~ended
          BY <4>3, Zenon DEF simple_error
        <5> QED
          BY <4>1, <4>3, <5>1 DEF simple_error
      <4> QED
        BY <2>3, <4>2, <4>3 DEF Child, Below
    <3>3. AppTypeOK' /\ ErrorKept' /\ EndLookedAt'
      BY <3>1, <3>2 DEF AppInv, AppTypeOK, ErrorKept, EndLookedAt
    <3> QED
      BY <3>3, <1>2, SmainMadeStep DEF AppInv
  <2> QED
    BY <1>2, <2>2, <2>3 DEF AppNext
<1> QED
  BY <1>1, <1>2

\* The frame's invariant holds whatever smain and its threads do.
THEOREM AppKeepsInv == AppSpec => []AppInv
<1>1. AppInit => AppInv
  <2>1. AppInit => exitreq \in BOOLEAN /\ ended \in BOOLEAN /\ unseen \in BOOLEAN
    BY Zenon DEF AppInit
  <2> QED
    BY <2>1 DEF AppInit, AppInv, AppTypeOK, ErrorKept, SmainMade, EndLookedAt
<1> QED
  BY <1>1, AppStepInv, AppInductive, PTL DEF AppSpec

\* An error of smain is never taken for a silent end of the program.
THEOREM ErrorIsNotSilent == AppSpec => ErrorNotSilent
<1>1. AppInv /\ [AppNext]_allVars => [app = "reqexit" /\ app' = "wait" => ~unseen]_allVars
  BY DEF AppInv, EndLookedAt
<1> QED
  BY <1>1, AppKeepsInv, PTL DEF AppSpec, ErrorNotSilent
=============================================================================
