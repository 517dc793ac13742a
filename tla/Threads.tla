------------------------------ MODULE Threads ------------------------------
(***************************************************************************)
(* The preemptive thread library of tools/simple/thread.c: MAX_TH child    *)
(* threads, the application's own context (the parent, thread MAX_TH) and  *)
(* an idle thread WAIT_ID, switched by the 1 ms timer interrupt through    *)
(* change_th_check_isr and by the threads themselves inside the library.   *)
(*                                                                         *)
(* One action is one stretch of code that no interrupt can split in a way  *)
(* another context can tell.  cpu is the context whose instructions run;   *)
(* it differs from now_id between change_th_check and thread_exec_as.      *)
(* Every thread runs an arbitrary program: whenever it is in user code it  *)
(* may call any function of the library.                                   *)
(***************************************************************************)
EXTENDS Integers

CONSTANTS
  MAX_TH,     \* number of child threads (3 in the code)
  DCT_CAP,    \* change_th_check takes a longer gap than this for one tick (100)
  Times,      \* the arguments thread_wait is called with
  Nesters,    \* threads whose programs call what takes the lock while they hold it
  MaxNest,    \* deepest nesting of thread_lock there
  Uses        \* what programs call beyond the rest: "join" thread_wait_term,
              \* "stop" (the parent) thread_gr_stop and thread_gr_cont

ASSUME ConstantsAssumption ==
  /\ MAX_TH \in Nat \ {0}
  /\ DCT_CAP \in Nat \ {0}
  /\ Times \subseteq Int
  /\ {0, 1} \subseteq Times
  /\ MaxNest \in Nat \ {0}
  /\ Nesters \subseteq 0 .. MAX_TH
  /\ Uses \subseteq {"join", "stop"}

TH_NULL == 0
TH_EXEC == 1
TH_WAIT == 2

Children == 0 .. MAX_TH - 1
Parent   == MAX_TH
WAIT_ID  == MAX_TH + 1
Threads  == 0 .. MAX_TH          \* what the loops of change_th_check scan
Contexts == 0 .. WAIT_ID

NO  == 0
YES == 1

VARIABLES
  sp,         \* where each context's stack is kept, by what it points at (Words)
  th_ct,      \* sleep counters
  state,      \* TH_NULL, TH_EXEC or TH_WAIT
  now_id,     \* the thread the library believes to be running
  lock_flag, timer_flag,
  elapsed,    \* pceTimerGetCount() - old_ct, saturated at DCT_CAP + 1
  switcher,   \* what the kernel calls back: "NULL" or "isr" (change_th_check_isr)
  cpu,        \* the context whose code the CPU executes
  pc,         \* where each context is
  ret,        \* where thread_wait returns to
  time,       \* thread_wait's argument
  tgt,        \* thread_wait_term's argument
  cs          \* history: lock calls not yet matched by unlock, per thread

kernel == <<elapsed, switcher>>
sched  == <<sp, th_ct, state, now_id>>
flags  == <<lock_flag, timer_flag>>
locals == <<ret, time, tgt>>
vars   == <<sched, flags, kernel, cpu, pc, locals, cs>>

Labels == {"run", "wait", "wait_check", "return", "return_check", "clear",
           "exec", "create", "create_scan", "unlock", "unlock_clear",
           "poll", "dead"}

\* What a word of sp may point at: nothing yet, thread_return's 0, the frame its
\* context will resume from, a place its context has left behind (the frame was
\* resumed, or the thread was terminated), or a frame of another context.
Words == {"unset", "zero", "frame", "stale", "foreign"}

TypeOK ==
  /\ sp \in [Contexts -> Words]
  /\ th_ct \in [Contexts -> Int]
  /\ state \in [Contexts -> {TH_NULL, TH_EXEC, TH_WAIT}]
  /\ now_id \in Contexts
  /\ lock_flag \in {NO, YES} /\ timer_flag \in {NO, YES}
  /\ elapsed \in 0 .. DCT_CAP + 1
  /\ switcher \in {"NULL", "isr"}
  /\ cpu \in Contexts
  /\ pc \in [Contexts -> Labels]
  /\ ret \in [Contexts -> {"run", "unlock_clear", "poll"}]
  /\ time \in [Contexts -> Times]
  /\ tgt \in [Contexts -> Threads]
  /\ cs \in [Contexts -> 0 .. MaxNest]

(***************************************************************************)
(* thread_gr_init, called by the parent with no child alive.               *)
(***************************************************************************)
Init ==
  /\ sp = [t \in Contexts |-> IF t = WAIT_ID THEN "frame" ELSE "unset"]
  /\ th_ct = [t \in Contexts |-> 0]
  /\ state = [t \in Contexts |-> IF t = Parent THEN TH_EXEC ELSE TH_NULL]
  /\ now_id = Parent
  /\ lock_flag = NO /\ timer_flag = NO
  /\ elapsed = 0
  /\ switcher = "isr"
  /\ cpu = Parent
  /\ pc = [t \in Contexts |-> IF t \in Children THEN "dead" ELSE "run"]
  /\ ret = [t \in Contexts |-> "run"]
  /\ time = [t \in Contexts |-> 0]
  /\ tgt = [t \in Contexts |-> 0]
  /\ cs = [t \in Contexts |-> 0]

-----------------------------------------------------------------------------
(***************************************************************************)
(* change_th_check: charge the time since the last check to the sleepers,  *)
(* wake those whose counter ran out, pick the next thread in cyclic order. *)
(***************************************************************************)

\* Mutated: an unbelievable gap charges nothing.
Dct_Nothing(gap) == IF gap > DCT_CAP THEN 0 ELSE gap

\* Mutated: every gap is believed.
Dct_NoCap(gap) == gap

\* A gap too long to be believed ("when it wrapped around") counts as one tick.
Dct(gap) == IF gap > DCT_CAP THEN 1 ELSE gap

\* How many slots after `from` the scan reaches thread t.
ScanDistance(from, t) == IF t > from THEN t - from ELSE t + MAX_TH + 1 - from

\* Mutated: the scan takes any slot in use.
NextIds_AnyInUse(from, st) ==
  LET ready == {t \in Threads : st[t] # TH_NULL}
  IN  IF ready = {} THEN {WAIT_ID}
      ELSE {t \in ready : \A u \in ready :
                             ScanDistance(from, t) <= ScanDistance(from, u)}

\* Mutated: with nobody ready the index runs one past the idle thread.
NextIds_PastIdle(from, st) ==
  LET ready == {t \in Threads : st[t] = TH_EXEC}
  IN  IF ready = {} THEN {WAIT_ID + 1}
      ELSE {t \in ready : \A u \in ready :
                             ScanDistance(from, t) <= ScanDistance(from, u)}

\* Mutated: the scan always begins with thread 0.
NextIds_FromZero(from, st) ==
  LET ready == {t \in Threads : st[t] = TH_EXEC}
  IN  IF ready = {} THEN {WAIT_ID}
      ELSE {t \in ready : \A u \in ready : t <= u}

\* The thread(s) the scan that starts after `from` stops at: always one.
NextIds(from, st) ==
  LET ready == {t \in Threads : st[t] = TH_EXEC}
  IN  IF ready = {} THEN {WAIT_ID}
      ELSE {t \in ready : \A u \in ready :
                             ScanDistance(from, t) <= ScanDistance(from, u)}

\* What is saved for now_id, and what becomes of the word a context resumes from.
Saved(now_sp)     == [sp EXCEPT ![now_id] = now_sp]
Resumed(words, t) == [words EXCEPT ![t] = "stale"]

\* The frame pushed where the CPU is: now_id's own as long as it has the CPU.
FrameHere == IF cpu = now_id THEN "frame" ELSE "foreign"

\* st and ct are state and th_ct as the caller left them, gap the ticks since
\* the last check and words sp with what the caller saves (Saved).
change_th_check(st, ct, gap, words) ==
  LET left == [t \in Contexts |->
                 IF t \in Threads /\ st[t] = TH_WAIT
                 THEN ct[t] - Dct(gap) ELSE ct[t]]
      woken == {t \in Threads : st[t] = TH_WAIT /\ left[t] <= 0}
  IN  /\ th_ct' = left
      /\ state' = [t \in Contexts |-> IF t \in woken THEN TH_EXEC ELSE st[t]]
      /\ elapsed' = 0
      /\ now_id' \in NextIds(now_id, state')
      /\ sp' = words

-----------------------------------------------------------------------------
(***************************************************************************)
(* The 1 ms timer interrupt.  flag is the kernel's own veto (external): it *)
(* passes TRUE when the interrupted code must not be switched away from.   *)
(***************************************************************************)

\* pceTimerGetCount has advanced.
Gap == IF elapsed > DCT_CAP THEN elapsed ELSE elapsed + 1

\* change_th_check_isr when the lock or the kernel forbids the switch.
TimerDeferred(flag) ==
  /\ switcher = "isr"
  /\ lock_flag = YES \/ flag
  /\ timer_flag' = YES
  /\ elapsed' = Gap
  /\ UNCHANGED <<sched, lock_flag, switcher, cpu, pc, locals, cs>>

\* Mutated: lock_flag is not looked at.
TimerSwitches_IgnoresLock ==
  /\ switcher = "isr"
  /\ change_th_check(state, th_ct, Gap, Resumed(Saved(FrameHere), now_id'))
  /\ timer_flag' = NO
  /\ cpu' = now_id'
  /\ UNCHANGED <<lock_flag, switcher, pc, locals, cs>>

\* change_th_check_isr when it switches: cpu goes on in the thread it picks.
TimerSwitches ==
  /\ switcher = "isr"
  /\ lock_flag = NO
  /\ change_th_check(state, th_ct, Gap, Resumed(Saved(FrameHere), now_id'))
  /\ timer_flag' = NO
  /\ cpu' = now_id'
  /\ UNCHANGED <<lock_flag, switcher, pc, locals, cs>>

\* No switcher installed: only the count advances.
TimerCounts ==
  /\ switcher = "NULL"
  /\ elapsed' = Gap
  /\ UNCHANGED <<sched, flags, switcher, cpu, pc, locals, cs>>

TimerInterrupt == TimerSwitches \/ (\E flag \in BOOLEAN : TimerDeferred(flag)) \/ TimerCounts

-----------------------------------------------------------------------------
(***************************************************************************)
(* Inside the library, on the thread that has the CPU.                     *)
(***************************************************************************)
At(t, label)   == cpu = t /\ pc[t] = label
Goto(t, label) == pc' = [pc EXCEPT ![t] = label]

\* thread_wait / in_thread_wait: take the lock ...
WaitLock(t) ==
  /\ At(t, "wait")
  /\ lock_flag' = YES
  /\ Goto(t, "wait_check")
  /\ UNCHANGED <<sched, timer_flag, kernel, cpu, locals, cs>>

\* ... and go to sleep; the gap before the call is charged to the caller too.
WaitCheck(t) ==
  /\ At(t, "wait_check")
  /\ change_th_check([state EXCEPT ![now_id] = TH_WAIT],
                     [th_ct EXCEPT ![now_id] = time[t]], elapsed, Saved("frame"))
  /\ time' = [time EXCEPT ![t] = 0]
  /\ Goto(t, "clear")
  /\ UNCHANGED <<flags, switcher, cpu, ret, tgt, cs>>

\* The tail of change_th_check.
ClearTimer(t) ==
  /\ At(t, "clear")
  /\ timer_flag' = NO
  /\ Goto(t, "exec")
  /\ UNCHANGED <<sched, lock_flag, kernel, cpu, locals, cs>>

\* Mutated: the switch does not release the lock.
ExecAs_KeepsLock(t) ==
  /\ At(t, "exec")
  /\ cpu' = now_id
  /\ sp' = Resumed(sp, now_id)
  /\ Goto(t, IF state[t] = TH_NULL /\ t # WAIT_ID THEN "dead" ELSE ret[t])
  /\ ret' = [ret EXCEPT ![t] = "run"]
  /\ UNCHANGED <<th_ct, state, now_id, flags, kernel, time, tgt, cs>>

\* thread_unlock_imask and thread_exec_as: interrupts are masked from here to
\* the reti that resumes the new thread.
ExecAs(t) ==
  /\ At(t, "exec")
  /\ lock_flag' = NO
  /\ cpu' = now_id
  /\ sp' = Resumed(sp, now_id)
  /\ Goto(t, IF state[t] = TH_NULL /\ t # WAIT_ID THEN "dead" ELSE ret[t])
  /\ ret' = [ret EXCEPT ![t] = "run"]
  /\ UNCHANGED <<th_ct, state, now_id, timer_flag, kernel, time, tgt, cs>>

\* thread_return: take the lock ...
ReturnLock(t) ==
  /\ At(t, "return")
  /\ lock_flag' = YES
  /\ Goto(t, "return_check")
  /\ UNCHANGED <<sched, timer_flag, kernel, cpu, locals, cs>>

\* ... the parent only unlocks again and returns to its caller ...
ReturnParent(t) ==
  /\ At(t, "return_check")
  /\ now_id = Parent
  /\ Goto(t, "unlock")
  /\ UNCHANGED <<sched, flags, kernel, cpu, locals, cs>>

\* ... a child frees its slot and never comes back.
ReturnCheck(t) ==
  /\ At(t, "return_check")
  /\ now_id # Parent
  /\ change_th_check([state EXCEPT ![now_id] = TH_NULL], th_ct, elapsed, Saved("zero"))
  /\ cs' = [cs EXCEPT ![t] = 0]
  /\ Goto(t, "clear")
  /\ UNCHANGED <<flags, switcher, cpu, locals>>

\* thread_create: take the lock ...
CreateLock(t) ==
  /\ At(t, "create")
  /\ lock_flag' = YES
  /\ Goto(t, "create_scan")
  /\ UNCHANGED <<sched, timer_flag, kernel, cpu, locals, cs>>

FreeSlots == {i \in Children : state[i] = TH_NULL}

\* Mutated: a slot that has been used keeps its stack pointer, as long as it is
\* not thread_return's 0.
CreateScan_OldStack(t) ==
  /\ At(t, "create_scan")
  /\ \E i \in FreeSlots :
       /\ \A j \in FreeSlots : i <= j
       /\ sp' = [sp EXCEPT ![i] = IF @ \in {"unset", "zero"} THEN "frame" ELSE @]
       /\ th_ct' = [th_ct EXCEPT ![i] = 0]
       /\ state' = [state EXCEPT ![i] = TH_EXEC]
       /\ pc' = [pc EXCEPT ![i] = "run", ![t] = "unlock"]
  /\ UNCHANGED <<now_id, flags, kernel, cpu, locals, cs>>

\* ... start a thread in the first free slot ...
CreateScan(t) ==
  /\ At(t, "create_scan")
  /\ \E i \in FreeSlots :
       /\ \A j \in FreeSlots : i <= j
       /\ sp' = [sp EXCEPT ![i] = "frame"]
       /\ th_ct' = [th_ct EXCEPT ![i] = 0]
       /\ state' = [state EXCEPT ![i] = TH_EXEC]
       /\ pc' = [pc EXCEPT ![i] = "run", ![t] = "unlock"]
  /\ UNCHANGED <<now_id, flags, kernel, cpu, locals, cs>>

\* ... or give up with -1 when there is none.
CreateFull(t) ==
  /\ At(t, "create_scan")
  /\ FreeSlots = {}
  /\ Goto(t, "unlock")
  /\ UNCHANGED <<sched, flags, kernel, cpu, locals, cs>>

\* thread_unlock: a switch was deferred, make up for it with thread_wait(0) ...
UnlockYield(t) ==
  /\ At(t, "unlock")
  /\ timer_flag = YES
  /\ Goto(t, "wait")
  /\ time' = [time EXCEPT ![t] = 0]
  /\ ret' = [ret EXCEPT ![t] = "unlock_clear"]
  /\ UNCHANGED <<sched, flags, kernel, cpu, tgt, cs>>

\* Mutated: a deferred switch may be left to the next interrupt.
UnlockTest_Untested(t) ==
  /\ At(t, "unlock")
  /\ Goto(t, "unlock_clear")
  /\ UNCHANGED <<sched, flags, kernel, cpu, locals, cs>>

UnlockTest(t) ==
  /\ At(t, "unlock")
  /\ timer_flag = NO
  /\ Goto(t, "unlock_clear")
  /\ UNCHANGED <<sched, flags, kernel, cpu, locals, cs>>

\* ... and then release the lock.
UnlockClear(t) ==
  /\ At(t, "unlock_clear")
  /\ lock_flag' = NO
  /\ Goto(t, "run")
  /\ UNCHANGED <<sched, timer_flag, kernel, cpu, locals, cs>>

\* thread_wait_term: look at the slot, return ...
PollDone(t) ==
  /\ At(t, "poll")
  /\ state[tgt[t]] = TH_NULL
  /\ tgt' = [tgt EXCEPT ![t] = 0]
  /\ Goto(t, "run")
  /\ UNCHANGED <<sched, flags, kernel, cpu, ret, time, cs>>

\* ... or sleep for a millisecond and look again.
PollWait(t) ==
  /\ At(t, "poll")
  /\ state[tgt[t]] # TH_NULL
  /\ Goto(t, "wait")
  /\ time' = [time EXCEPT ![t] = 1]
  /\ ret' = [ret EXCEPT ![t] = "poll"]
  /\ UNCHANGED <<sched, flags, kernel, cpu, tgt, cs>>

LibraryStep(t) ==
  \/ WaitLock(t) \/ WaitCheck(t) \/ ClearTimer(t) \/ ExecAs(t)
  \/ ReturnLock(t) \/ ReturnParent(t) \/ ReturnCheck(t)
  \/ CreateLock(t) \/ CreateScan(t) \/ CreateFull(t)
  \/ UnlockYield(t) \/ UnlockTest(t) \/ UnlockClear(t)
  \/ PollDone(t) \/ PollWait(t)

-----------------------------------------------------------------------------
(***************************************************************************)
(* Calls from user code.  A program that does not nest calls nothing that  *)
(* takes the lock between its own thread_lock and thread_unlock.           *)
(***************************************************************************)
Calls(t)    == t # WAIT_ID /\ At(t, "run")
MayLock(t)  == t \in Nesters \/ cs[t] = 0

thread_lock(t) ==
  /\ Calls(t) /\ MayLock(t) /\ cs[t] < MaxNest
  /\ lock_flag' = YES
  /\ cs' = [cs EXCEPT ![t] = @ + 1]
  /\ UNCHANGED <<sched, timer_flag, kernel, cpu, pc, locals>>

thread_unlock(t) ==
  /\ Calls(t)
  /\ cs' = [cs EXCEPT ![t] = IF @ > 0 THEN @ - 1 ELSE 0]
  /\ Goto(t, "unlock")
  /\ UNCHANGED <<sched, flags, kernel, cpu, locals>>

thread_wait(t) ==
  /\ Calls(t) /\ MayLock(t)
  /\ \E n \in Times : /\ time' = [time EXCEPT ![t] = n]
                      /\ Goto(t, "wait")
  /\ UNCHANGED <<sched, flags, kernel, cpu, ret, tgt, cs>>

\* The body of the idle thread, wait_loop.
wait_loop ==
  /\ At(WAIT_ID, "run")
  /\ Goto(WAIT_ID, "wait")
  /\ UNCHANGED <<sched, flags, kernel, cpu, locals, cs>>

thread_create(t) ==
  /\ Calls(t) /\ MayLock(t)
  /\ Goto(t, "create")
  /\ UNCHANGED <<sched, flags, kernel, cpu, locals, cs>>

\* Also reached by returning from the thread's function, and by
\* thread_terminate of oneself.
thread_return(t) ==
  /\ Calls(t)
  /\ MayLock(t) \/ t # Parent
  /\ Goto(t, "return")
  /\ UNCHANGED <<sched, flags, kernel, cpu, locals, cs>>

\* thread_terminate of another child: its slot is freed without the lock; the
\* stack pointer stays, but what it points at is now a former thread's stack.
thread_terminate(t, id) ==
  /\ Calls(t)
  /\ id # now_id
  /\ sp' = [sp EXCEPT ![id] = IF @ = "frame" THEN "stale" ELSE @]
  /\ state' = [state EXCEPT ![id] = TH_NULL]
  /\ pc' = [pc EXCEPT ![id] = "dead"]
  /\ ret' = [ret EXCEPT ![id] = "run"]
  /\ time' = [time EXCEPT ![id] = 0]
  /\ tgt' = [tgt EXCEPT ![id] = 0]
  /\ cs' = [cs EXCEPT ![id] = 0]
  /\ UNCHANGED <<th_ct, now_id, flags, kernel, cpu>>

thread_wait_term(t, id) ==
  /\ "join" \in Uses
  /\ Calls(t) /\ MayLock(t)
  /\ id # now_id
  /\ tgt' = [tgt EXCEPT ![t] = id]
  /\ Goto(t, "poll")
  /\ UNCHANGED <<sched, flags, kernel, cpu, ret, time, cs>>

\* "To be called from the main routine only" (thread.h).
thread_gr_stop ==
  /\ "stop" \in Uses
  /\ Calls(Parent)
  /\ switcher' = "NULL"
  /\ UNCHANGED <<sched, flags, elapsed, cpu, pc, locals, cs>>

thread_gr_cont ==
  /\ "stop" \in Uses
  /\ Calls(Parent)
  /\ switcher' = "isr"
  /\ elapsed' = 0
  /\ UNCHANGED <<sched, flags, cpu, pc, locals, cs>>

UserCall(t) ==
  \/ thread_lock(t) \/ thread_unlock(t) \/ thread_wait(t) \/ thread_create(t)
  \/ thread_return(t)
  \/ \E id \in Children : thread_terminate(t, id)
  \/ \E id \in Threads : thread_wait_term(t, id)

ThreadStep ==
  \/ \E t \in Contexts : LibraryStep(t)
  \/ \E t \in Threads : UserCall(t)
  \/ wait_loop
  \/ thread_gr_stop \/ thread_gr_cont

Next == ThreadStep \/ TimerInterrupt

Spec == Init /\ [][Next]_vars

-----------------------------------------------------------------------------
(***************************************************************************)
(* Safety.                                                                 *)
(***************************************************************************)

\* Labels between taking the library's own lock and giving it up.
Locked   == {"wait_check", "return_check", "create_scan", "clear", "exec"}
\* Labels between the choice of the next thread and the jump into it.
Leaving  == {"clear", "exec"}

\* The critical sections of a thread that does not nest the lock are exclusive:
\* from the return of thread_lock to the call of thread_unlock nobody else gets
\* the CPU, whatever the timer, the kernel and the other threads do, those
\* included that nest the lock and lose it (thread_lock, change_th_check_isr).
CriticalSectionsExclude ==
  \A t \in Threads \ Nesters : cs[t] > 0 => cpu = t /\ lock_flag = YES

\* The lock never outlives its taker: it is set only while the context on the
\* CPU is inside the library or in a critical section of its own.  A thread
\* that is switched away from, ends or is terminated leaves no lock behind.
LockHasOwner ==
  lock_flag = YES =>
               \/ pc[cpu] \in Locked \cup {"wait", "return", "create", "unlock", "unlock_clear"}
               \/ cs[cpu] > 0

\* Outside the switch itself, code runs only on a thread the scheduler regards
\* as now_id and as runnable: a sleeping or a freed thread never executes.
OnlyReadyRun ==
  pc[cpu] \notin Leaving =>
    /\ cpu = now_id
    /\ cpu # WAIT_ID => state[cpu] = TH_EXEC

\* Every context the scheduler may pick later has a frame of its own to resume
\* from: saved since it last ran and not used up, never the 0 thread_return
\* stores, never what a former thread left in a recycled slot (thread_terminate
\* does not clear the word), never the frame of whoever had the CPU while now_id
\* already named another thread.
ResumesSavedFrame ==
  \A t \in Contexts : 
    /\ t # cpu /\ (t = WAIT_ID \/ state[t] # TH_NULL) => sp[t] = "frame"
    /\ t # cpu /\ pc[t] = "dead" => state[t] = TH_NULL

\* The idle thread has the CPU only while no thread can run.
IdleOnlyWhenNoneReady ==
  now_id = WAIT_ID => \A t \in Threads : state[t] # TH_EXEC

\* Round robin: a switch that does not pick a ready thread t brings the scan
\* strictly closer to t, so at most MAX_TH others run before t does.
ComesCloser ==
  \A t \in Threads :
    state[t] = TH_EXEC /\ state'[t] = TH_EXEC
      /\ now_id' \notin {now_id, t} /\ t # now_id
    => ScanDistance(now_id', t) < ScanDistance(now_id, t)
NeverPassesReady == [][ComesCloser]_vars

-----------------------------------------------------------------------------
(***************************************************************************)
(* The inductive invariant behind the theorems of Threads_proofs.          *)
(***************************************************************************)

\* Only the context on the CPU is inside the library's locked stretches, and
\* there the lock is set.
LockedIsOnCpu ==
  /\ \A t \in Contexts : t # cpu => pc[t] \notin Locked
  /\ pc[cpu] \in Locked => lock_flag = YES

\* now_id runs ahead of the CPU only during a switch, and names a thread that
\* can run or, if there is none, the idle thread.
SwitchState ==
  /\ pc[cpu] \notin Leaving => cpu = now_id
  /\ now_id # WAIT_ID => state[now_id] = TH_EXEC
  /\ IdleOnlyWhenNoneReady

\* Free slots and dead contexts are the same; the idle thread only waits.
SlotState ==
  /\ pc[cpu] # "dead"
  /\ \A t \in Threads : t # cpu => (pc[t] = "dead" <=> state[t] = TH_NULL)
  /\ state[cpu] = TH_NULL /\ cpu # WAIT_ID => pc[cpu] \in Leaving
  /\ state[Parent] # TH_NULL
  /\ pc[WAIT_ID] \in {"run", "wait", "wait_check", "clear", "exec"}
  /\ ret[WAIT_ID] = "run"
  /\ cs[WAIT_ID] = 0

\* A program that does not nest is in its critical section, or on the way out
\* of its last function, and holds the lock.
SectionState ==
  \A t \in Threads \ Nesters :
    cs[t] > 0 => /\ cs[t] = 1 /\ cpu = t /\ lock_flag = YES
                 /\ pc[t] \in {"run", "return", "return_check"}
                 /\ pc[t] # "run" => t # Parent

\* Whoever is off the CPU, or about to leave it alive, has a saved frame.
FrameState ==
  \A t \in Contexts :
    (t # cpu \/ pc[cpu] \in Leaving) /\ (t = WAIT_ID \/ state[t] # TH_NULL)
      => sp[t] = "frame"

\* All of it together: what every step preserves.
IInv ==
  /\ TypeOK /\ LockedIsOnCpu /\ SwitchState /\ SlotState
  /\ SectionState /\ FrameState /\ LockHasOwner

-----------------------------------------------------------------------------
(***************************************************************************)
(* Liveness.  The CPU executes the instructions of the context it is in,   *)
(* the kernel lets the timer interrupt through with flag = 0 again and     *)
(* again, and a program that took the lock calls thread_unlock.  Nothing   *)
(* is assumed of the rest of user code: it may loop forever.               *)
(***************************************************************************)
Fairness ==
  /\ \A t \in Contexts : WF_vars(LibraryStep(t))
  /\ WF_vars(wait_loop)
  /\ WF_vars(TimerSwitches \/ TimerDeferred(FALSE))
  /\ \A t \in Threads : WF_vars(cs[t] > 0 /\ thread_unlock(t))

FairSpec == Spec /\ Fairness

\* No thread that can run waits for the CPU for ever, even if the others only
\* lock and unlock and every interrupt falls into their critical sections: the
\* deferred switch is made up for in thread_unlock.
ReadyRuns ==
  \A t \in Threads : state[t] = TH_EXEC ~> (cpu = t \/ state[t] # TH_EXEC)

\* Every sleep ends, however long switching is held back and however often the
\* gap was too long to be believed.
SleepEnds ==
  \A t \in Threads : state[t] = TH_WAIT ~> state[t] # TH_WAIT
=============================================================================
