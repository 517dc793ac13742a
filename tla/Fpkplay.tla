------------------------------- MODULE Fpkplay -------------------------------
(***************************************************************************)
(* The music player app/fpkplay/fpkplay.c as a client of the music driver: *)
(* one main program, keys that restart or stop the music, MusicCheck each  *)
(* frame, and the kernel's BuffFree between any two of its statements.     *)
(***************************************************************************)
EXTENDS MusicRing

VARIABLES
  pc,      \* where the main program is
  todo,    \* what follows musStopImmediately
  active   \* the last pceAppActiveResponse: AAR_ACTIVE?

vars == <<driver, stream, pc, todo, active>>

Stopping == {"stop", "stop_set", "drain", "abort"}

TypeOK ==
  /\ RingTypeOK
  /\ pc \in Stopping \cup {"idle", "file", "init", "queue", "go", "exit"}
  /\ todo \in {"again", "file", "idle", "exit"}
  /\ active \in BOOLEAN

\* pceAppInit: fpkPlayMusic if the archive could be opened.
Init ==
  /\ RingInit
  /\ \/ pc = "stop" /\ todo = "file"
     \/ pc = "idle" /\ todo = "idle"
  /\ active = TRUE

Goto(label) == pc' = label /\ UNCHANGED <<todo, active>>

\* StopMusic reads finish ...
StopTest ==
  /\ pc = "stop"
  /\ Goto(IF finish = 0 THEN "stop_set" ELSE "drain")
  /\ UNCHANGED <<driver, stream>>

\* ... and writes it in another statement.
StopSet ==
  /\ pc = "stop_set"
  /\ finish' = 1
  /\ Goto("drain")
  /\ UNCHANGED <<blkip, blkop, runf, waveinfo, wavebuff, stream>>

\* musStopImmediately waits until the queue is empty, then aborts.
Drain ==
  /\ pc = "drain"
  /\ Goto(IF pceWaveCheckBuffs > 0 THEN "drain" ELSE "abort")
  /\ UNCHANGED <<driver, stream>>

Abort ==
  /\ pc = "abort"
  /\ pceWaveAbort
  /\ pc' = IF todo = "again" THEN "stop" ELSE todo
  /\ todo' = IF todo = "again" THEN "file" ELSE "idle"
  /\ UNCHANGED active

\* fpkPlayMusic: only a .pmd file is played.
FileKind ==
  /\ pc = "file"
  /\ \E isPmd \in BOOLEAN : Goto(IF isPmd THEN "init" ELSE "idle")
  /\ UNCHANGED <<driver, stream>>

PlayMusic ==
  \/ pc = "init"  /\ PlayInit  /\ Goto("queue")
  \/ pc = "queue" /\ PlayQueue /\ Goto("go")
  \/ pc = "go"    /\ PlayGo    /\ Goto("idle")

\* The A key stops, then fpkPlayMusic stops again and plays; the B key stops.
Key ==
  /\ pc = "idle"
  /\ pc' = "stop"
  /\ todo' \in {"again", "idle"}
  /\ UNCHANGED <<driver, stream, active>>

pceAppExit ==
  /\ pc = "idle"
  /\ pc' = "stop"
  /\ todo' = "exit"
  /\ UNCHANGED <<driver, stream, active>>

\* The end of pceAppProc.
ActiveResponse ==
  /\ pc = "idle"
  /\ active' = ~MusicCheck
  /\ UNCHANGED <<driver, stream, pc, todo>>

MainStep == StopTest \/ StopSet \/ Drain \/ Abort \/ FileKind \/ PlayMusic

\* Between two adjacent statements (a test and its assignment; the call that
\* queues a block and the assignment after it) there is no time for the last
\* block, 8 ms of sound, to end.
Hurried == pc \in {"stop_set", "go"} /\ Len(queue) = 1

Interrupt ==
  /\ ~Hurried
  /\ BlockEnds
  /\ UNCHANGED <<pc, todo, active>>

Next == MainStep \/ Key \/ pceAppExit \/ ActiveResponse \/ Interrupt

\* The main program's statements are executed and queued blocks end.  Nothing
\* is assumed of the keys.
Spec == Init /\ [][Next]_vars /\ WF_vars(MainStep) /\ WF_vars(Interrupt)

-----------------------------------------------------------------------------

\* musStopImmediately returns: its busy loop on pceWaveCheckBuffs ends, because
\* a driver told to stop queues nothing more.
StopReturns == pc \in Stopping ~> pc \notin Stopping
=============================================================================
