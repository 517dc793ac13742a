------------------------------- MODULE PmdPlay -------------------------------
(***************************************************************************)
(* Music in the simple library, tools/simple/pmdplay.c and pmdload.c, as a *)
(* client of the music driver: pmdplay, pmdstop and pmdload called by the  *)
(* child threads of a program (smain and what it creates).  thread_lock    *)
(* excludes the other threads (shown in Threads) but has no levels: the    *)
(* first thread_unlock releases it.  It never excludes BuffFree.           *)
(***************************************************************************)
EXTENDS MusicRing

CONSTANTS
  Players,   \* threads that play music
  Files      \* files pmdload can be asked for

VARIABLES
  pc,          \* where each player is
  src,         \* what its next PlayMusic is given: "array" or "pmdbuff"
  file,        \* pmdload's argument
  owner,       \* who is between thread_lock and thread_unlock, or "nobody"
  initflag,
  pmdbuff,     \* the file each half of the buffer was read from
  score        \* what the sequencer reads: "array" or "pmdbuff"

locals == <<src, file>>
vars   == <<driver, stream, pc, locals, owner, initflag, pmdbuff, score>>

\* pmdstop is called from three places and returns to these.
Return == [stop |-> "idle", stop_load |-> "read0", stop_play |-> "play"]

TypeOK ==
  /\ RingTypeOK
  /\ pc \in [Players -> DOMAIN Return \cup
              {"idle", "open", "read0", "read1", "close", "test", "setup",
               "play", "init", "queue", "go", "playing"}]
  /\ src \in [Players -> {"array", "pmdbuff"}]
  /\ file \in [Players -> Files]
  /\ owner \in Players \cup {"nobody"}
  /\ initflag \in {0, 1}
  /\ pmdbuff \in [{0, 1} -> Files]
  /\ score \in {"array", "pmdbuff"}

Init ==
  /\ RingInit
  /\ pc = [p \in Players |-> "idle"]
  /\ src = [p \in Players |-> "array"]
  /\ file \in [Players -> Files]
  /\ owner = "nobody"
  /\ initflag = 0
  /\ pmdbuff \in {[h \in {0, 1} |-> f] : f \in Files}
  /\ score = "array"

\* p has the CPU, runs from label `from` to label `to`, and leaves the lock
\* with `lock`.
Runs(p, from, to, lock) ==
  /\ owner \in {p, "nobody"}
  /\ pc[p] = from
  /\ pc' = [pc EXCEPT ![p] = to]
  /\ owner' = lock

-----------------------------------------------------------------------------

\* The program calls pmdstop, or pmdplay with an array of its own.
Call(p) ==
  /\ \E to \in {"stop", "test"} : Runs(p, "idle", to, "nobody")
  /\ src' = [src EXCEPT ![p] = "array"]
  /\ UNCHANGED <<driver, stream, file, initflag, pmdbuff, score>>

\* pmdload takes the lock and opens the file ...
pmdload(p) ==
  /\ Runs(p, "idle", "open", p)
  /\ src' = [src EXCEPT ![p] = "pmdbuff"]
  /\ \E f \in Files : file' = [file EXCEPT ![p] = f]
  /\ UNCHANGED <<driver, stream, initflag, pmdbuff, score>>

\* Mutated: the music is not stopped before its buffer is read over.
OpenFile_NoStop(p) ==
  /\ \/ Runs(p, "open", "idle", "nobody")
     \/ Runs(p, "open", "read0", p)
  /\ UNCHANGED <<driver, stream, locals, initflag, pmdbuff, score>>

\* ... if it does not exist or is too large, unlocks and ends the thread,
\* otherwise calls pmdstop ...
OpenFile(p) ==
  /\ \/ Runs(p, "open", "idle", "nobody")
     \/ Runs(p, "open", "stop_load", p)
  /\ UNCHANGED <<driver, stream, locals, initflag, pmdbuff, score>>

\* ... which releases pmdload's lock with its own ...
pmdstop(p) ==
  /\ \E from \in DOMAIN Return : Runs(p, from, Return[from], "nobody")
  /\ pceWaveAbort
  /\ UNCHANGED <<locals, initflag, pmdbuff, score>>

\* ... reads the two halves of the file ...
ReadHalf(p) ==
  /\ \/ Runs(p, "read0", "read1", owner) /\ pmdbuff' = [pmdbuff EXCEPT ![0] = file[p]]
     \/ Runs(p, "read1", "close", owner) /\ pmdbuff' = [pmdbuff EXCEPT ![1] = file[p]]
  /\ UNCHANGED <<driver, stream, locals, initflag, score>>

\* ... unlocks, and calls pmdplay(pmdbuff).
CloseFile(p) ==
  /\ Runs(p, "close", "test", "nobody")
  /\ UNCHANGED <<driver, stream, locals, initflag, pmdbuff, score>>

-----------------------------------------------------------------------------

\* pmdplay reads initflag before it takes the lock ...
TestInit(p) ==
  /\ Runs(p, "test", IF initflag = 0 THEN "setup" ELSE "stop_play", "nobody")
  /\ UNCHANGED <<driver, stream, locals, initflag, pmdbuff, score>>

\* ... to initialise the driver once, locked ...
InitMusic(p) ==
  /\ Runs(p, "setup", "stop_play", "nobody")
  /\ init_wk
  /\ initflag' = 1
  /\ UNCHANGED <<locals, pmdbuff, score>>

\* ... calls pmdstop and, locked again, PlayMusic.
LockPlay(p) ==
  /\ Runs(p, "play", "init", p)
  /\ UNCHANGED <<driver, stream, locals, initflag, pmdbuff, score>>

PlayMusic(p) ==
  /\ \/ Runs(p, "init", "queue", p) /\ PlayInit  /\ score' = src[p]
     \/ Runs(p, "queue", "go", p)   /\ PlayQueue /\ UNCHANGED score
     \/ Runs(p, "go", "playing", p) /\ PlayGo    /\ UNCHANGED score
  /\ UNCHANGED <<locals, initflag, pmdbuff>>

UnlockPlay(p) ==
  /\ Runs(p, "playing", "idle", "nobody")
  /\ UNCHANGED <<driver, stream, locals, initflag, pmdbuff, score>>

Player(p) ==
  \/ Call(p) \/ pmdload(p) \/ OpenFile(p) \/ pmdstop(p) \/ ReadHalf(p) \/ CloseFile(p)
  \/ TestInit(p) \/ InitMusic(p) \/ LockPlay(p) \/ PlayMusic(p) \/ UnlockPlay(p)

\* Between the statement of PlayMusic that queues the first block and the next
\* one there is no time for that block, 8 ms of sound, to end.
Hurried == Len(queue) = 1 /\ \E p \in Players : pc[p] = "go"

Interrupt ==
  /\ ~Hurried
  /\ BlockEnds
  /\ UNCHANGED <<pc, locals, owner, initflag, pmdbuff, score>>

Next == Interrupt \/ \E p \in Players : Player(p)

Spec == Init /\ [][Next]_vars

-----------------------------------------------------------------------------

\* "pmdplay: play the music data" (simple.h:172): when PlayMusic returns and
\* the score is not over, a block is queued whose end keeps the music going,
\* and the queue holds nothing but what was rendered for it.  pmdplay unlocks
\* between pmdstop and PlayMusic, where another thread can start its own music.
PlayStarts ==
  \A p \in Players : pc[p] = "playing" /\ finish = 0 => queue # <<>> /\ QueueIntact

\* "pmdload: load the music data and play it" (simple.h:167): what pmdload
\* hands to PlayMusic is the file it was asked for, all of it.
PlaysLoadedFile ==
  \A p \in Players :
    pc[p] = "init" /\ src[p] = "pmdbuff" => \A h \in {0, 1} : pmdbuff[h] = file[p]

\* The sequencer, which BuffFree runs while blocks are queued, never reads a
\* buffer that pmdload is in the middle of overwriting.
DriverReadsWholeScore ==
  finish = 0 /\ queue # <<>> /\ score = "pmdbuff" => pmdbuff[0] = pmdbuff[1]
=============================================================================
