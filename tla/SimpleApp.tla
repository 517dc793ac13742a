------------------------------ MODULE SimpleApp ------------------------------
(***************************************************************************)
(* The application frame of the simple library, tools/simple/simple.c, on  *)
(* top of the thread library: the parent runs the OS's callbacks           *)
(* pceAppInit, pceAppProc and pceAppExit, smain and what it creates run as *)
(* child threads of arbitrary programs.  Between callbacks the CPU is the  *)
(* OS's: only the thread lock keeps the children off it, and only the      *)
(* calls inside pceAppProc let them run.                                   *)
(*                                                                         *)
(* Sprites and the screen are left out, but for the error screen.          *)
(***************************************************************************)
EXTENDS Threads

CONSTANT FRAME     \* what pceAppProc sleeps while smain runs (10)

ASSUME FrameAssumption == FRAME \in Times /\ "stop" \in Uses

VARIABLES
  app,         \* where the callbacks are; "os": between two of them
  smain_id,
  errorflag,   \* 0 no error, 1 an error to be shown, 2 it is on the screen
  exitreq,     \* pceAppReqExit has been called
  ended,       \* history: smain has ended
  unseen       \* history: an error reported before smain's end is not shown yet

appVars == <<app, smain_id, errorflag, exitreq, ended, unseen>>
allVars == <<vars, appVars>>

AppTypeOK ==
  /\ app \in {"create", "lock", "os", "proc", "sprites", "moved", "switch", "status",
              "recheck", "reqexit", "wait", "draw", "drawn", "show", "error", "shown",
              "keys", "start", "pressed", "last", "exit", "stop", "over"}
  /\ smain_id \in {-1} \cup Children
  /\ errorflag \in 0 .. 2
  /\ exitreq \in BOOLEAN /\ ended \in BOOLEAN /\ unseen \in BOOLEAN

\* pceAppInit up to thread_gr_init and dispmode.
AppInit ==
  /\ Init
  /\ app = "create"
  /\ smain_id = -1
  /\ errorflag = 0
  /\ exitreq = FALSE /\ ended = FALSE /\ unseen = FALSE

-----------------------------------------------------------------------------
(***************************************************************************)
(* The callbacks.  A step is taken while the parent has the CPU and is not *)
(* inside a function of the thread library.                                *)
(***************************************************************************)
Reaches(from, to) == Calls(Parent) /\ app = from /\ app' = to
Quiet             == UNCHANGED <<smain_id, errorflag, exitreq, unseen>>
Computes          == UNCHANGED vars

\* pceAppInit: start smain in the first slot of the empty table, and take the
\* lock for the OS.
CreateSmain == Reaches("create", "lock") /\ thread_create(Parent) /\ Quiet

LockForOs ==
  /\ Reaches("lock", "os")
  /\ thread_lock(Parent)
  /\ smain_id' = 0
  /\ UNCHANGED <<errorflag, exitreq, unseen>>

\* The OS calls pceAppProc every 12 ms, and pceAppExit when it has been asked.
pceAppProc == Reaches("os", "proc") /\ ~exitreq /\ Computes /\ Quiet
pceAppExit == Reaches("os", "exit") /\ exitreq /\ Computes /\ Quiet

\* back_sprite, with the unlock before it.
BackSprite ==
  \/ Reaches("proc", "sprites") /\ thread_unlock(Parent) /\ Quiet
  \/ Reaches("sprites", "moved") /\ thread_lock(Parent) /\ Quiet
  \/ Reaches("moved", "switch") /\ thread_unlock(Parent) /\ Quiet

Switch ==
  /\ \/ Reaches("switch", "status") /\ errorflag = 0
     \/ Reaches("switch", "show")   /\ errorflag = 1
     \/ Reaches("switch", "keys")   /\ errorflag = 2
  /\ Computes /\ Quiet

\* Mutated: errorflag is not looked at again.
SmainOver_NoRecheck ==
  /\ \/ Reaches("status", "reqexit") /\ state[smain_id] = TH_NULL
     \/ Reaches("status", "wait")    /\ state[smain_id] # TH_NULL
  /\ Computes /\ Quiet

\* No error when it was looked at: has smain ended, and still no error?
SmainOver ==
  /\ \/ Reaches("status", "recheck")  /\ state[smain_id] = TH_NULL
     \/ Reaches("status", "wait")     /\ state[smain_id] # TH_NULL
     \/ Reaches("recheck", "reqexit") /\ errorflag = 0
     \/ Reaches("recheck", "wait")    /\ errorflag # 0
  /\ Computes /\ Quiet

ReqExit ==
  /\ Reaches("reqexit", "wait")
  /\ exitreq' = TRUE
  /\ Computes /\ UNCHANGED <<smain_id, errorflag, unseen>>

\* Give the threads their time, then draw.
WaitAndDraw ==
  \/ Reaches("wait", "draw") /\ thread_wait(Parent) /\ time'[Parent] = FRAME /\ Quiet
  \/ Reaches("draw", "drawn") /\ thread_lock(Parent) /\ Quiet
  \/ Reaches("drawn", "last") /\ thread_unlock(Parent) /\ Quiet

\* The error screen, drawn once per error ...
ShowError ==
  \/ Reaches("show", "error") /\ thread_lock(Parent) /\ Quiet
  \/ /\ Reaches("error", "shown")
     /\ errorflag' = errorflag + 1
     /\ unseen' = FALSE
     /\ Computes /\ UNCHANGED <<smain_id, exitreq>>
  \/ Reaches("shown", "keys") /\ thread_unlock(Parent) /\ Quiet

\* ... waits for the start button.
StartButton ==
  \/ Reaches("keys", "start") /\ thread_lock(Parent) /\ Quiet
  \/ /\ Reaches("start", "pressed")
     /\ exitreq' \in {exitreq, TRUE}
     /\ Computes /\ UNCHANGED <<smain_id, errorflag, unseen>>
  \/ Reaches("pressed", "last") /\ thread_unlock(Parent) /\ Quiet

\* Mutated: the lock is not taken again.
LastLock_None == Reaches("last", "os") /\ Computes /\ Quiet

\* The end of pceAppProc: the lock again, for the OS.
LastLock == Reaches("last", "os") /\ thread_lock(Parent) /\ Quiet

\* pceAppExit.
Exit ==
  \/ Reaches("exit", "stop") /\ thread_unlock(Parent) /\ Quiet
  \/ Reaches("stop", "over") /\ thread_gr_stop /\ Quiet

AppStep ==
  \/ CreateSmain \/ LockForOs \/ pceAppProc \/ pceAppExit \/ BackSprite \/ Switch
  \/ SmainOver \/ ReqExit \/ WaitAndDraw \/ ShowError \/ StartButton \/ LastLock \/ Exit

-----------------------------------------------------------------------------
(***************************************************************************)
(* The children.  The library's loading functions report an error while    *)
(* they hold the lock, unlock, and end the thread.                         *)
(***************************************************************************)

\* Mutated: a second error is not reported.
simple_error_First(t) ==
  /\ Calls(t) /\ cs[t] > 0
  /\ errorflag' = IF errorflag = 0 THEN 1 ELSE errorflag
  /\ unseen' = (unseen \/ ~ended)
  /\ UNCHANGED <<vars, app, smain_id, exitreq>>

simple_error(t) ==
  /\ Calls(t) /\ cs[t] > 0
  /\ errorflag' = 1
  /\ unseen' = (unseen \/ ~ended)
  /\ UNCHANGED <<vars, app, smain_id, exitreq>>

Child ==
  \/ \E t \in Children : UserCall(t) /\ UNCHANGED <<app, smain_id, errorflag, exitreq, unseen>>
  \/ \E t \in Children : simple_error(t)

\* The thread library's own steps and the interrupt.
Below ==
  /\ (\E t \in Contexts : LibraryStep(t)) \/ wait_loop \/ TimerInterrupt
  /\ UNCHANGED <<app, smain_id, errorflag, exitreq, unseen>>

\* smain's slot, the first, is freed.
SmainEnds == ended' = (ended \/ (state[0] # TH_NULL /\ state'[0] = TH_NULL))

AppNext ==
  \/ AppStep /\ SmainEnds
  \/ Child /\ SmainEnds
  \/ Below /\ SmainEnds

AppSpec == AppInit /\ [][AppNext]_allVars

(***************************************************************************)
(* Fairness: as in Threads, and the OS calls pceAppProc again and again.   *)
(* Strong fairness of the contexts' own steps: a context that gets the CPU *)
(* executes code before the next interrupt, a millisecond later, can take  *)
(* the CPU away.                                                           *)
(***************************************************************************)
AppFairness ==
  /\ \A t \in Contexts : SF_allVars(LibraryStep(t) /\ Below /\ SmainEnds)
  /\ SF_allVars(AppStep /\ SmainEnds)
  /\ WF_allVars(wait_loop /\ Below /\ SmainEnds)
  /\ WF_allVars((TimerSwitches \/ TimerDeferred(FALSE)) /\ Below /\ SmainEnds)
  /\ \A t \in Children : WF_allVars(cs[t] > 0 /\ thread_unlock(t) /\ Child /\ SmainEnds)

FairAppSpec == AppSpec /\ AppFairness

-----------------------------------------------------------------------------

\* Outside the callbacks, and after pceAppExit, the OS has the CPU to itself: no
\* child runs and the switcher cannot let one run, whatever the children do
\* and wherever the interrupts fall (the last thread_lock of pceAppInit and
\* pceAppProc, thread_gr_stop of pceAppExit).
OsUndisturbed ==
  /\ app = "os" => Calls(Parent) /\ lock_flag = YES
  /\ app = "over" => Calls(Parent) /\ switcher = "NULL"

(***************************************************************************)
(* The inductive invariant behind ErrorNotSilent.                          *)
(***************************************************************************)

\* An error that is not shown yet is still to be shown, and the screen is
\* drawn only for such an error.
ErrorKept ==
  /\ unseen => errorflag = 1
  /\ app \in {"show", "error"} => errorflag = 1

\* Once pceAppInit has made smain, its slot is empty only because it ended.
SmainMade ==
  /\ app \notin {"create", "lock"} => smain_id = 0
  /\ state[0] = TH_NULL /\ ~ended =>
       \/ app = "create"
       \/ app = "lock" /\ pc[Parent] \in {"create", "create_scan"}

\* Past the look at its slot smain has ended, and past the second look at
\* errorflag without an error.
EndLookedAt ==
  /\ app \in {"recheck", "reqexit"} => ended
  /\ app = "reqexit" => ~unseen

\* Together, with the types: what every step preserves (pceAppProc).
AppInv == AppTypeOK /\ ErrorKept /\ SmainMade /\ EndLookedAt

\* smain's error does not end the program silently: between the look at
\* errorflag and the look at smain's slot smain may report an error and end,
\* and pceAppProc still does not take that for the end of the program.
ErrorNotSilent ==
  [][app = "reqexit" /\ app' = "wait" => ~unseen]_allVars

\* An error reported before smain's end is shown, whatever state the error
\* screen is in, unless the user leaves the program.
ErrorShown == unseen ~> (~unseen \/ exitreq)

\* A ready child gets the CPU although the OS holds the lock nearly all the
\* time, also on the error screen, where pceAppProc never sleeps.
ChildrenRun ==
  \A t \in Children :
    state[t] = TH_EXEC ~> (cpu = t \/ state[t] # TH_EXEC \/ exitreq)
=============================================================================
