------------------------------ MODULE MusicRing ------------------------------
(***************************************************************************)
(* The output side of the music driver, tools/muslib/mus.c: a ring of BLKN *)
(* wave blocks.  The driver renders blocks at blkip and hands them to the  *)
(* kernel's wave queue; the kernel calls BuffFree from its interrupt when  *)
(* the block at the head of the queue has been played, and BuffFree frees  *)
(* it (blkop) and renders as many new blocks as fit.                       *)
(*                                                                         *)
(* The kernel (pceWaveDataOut, pceWaveAbort, pceWaveCheckBuffs) is         *)
(* external.  Assumed of it: it plays the queue in order, it takes a block *)
(* off the queue before it calls pfEndProc, calls are not nested, and      *)
(* pceWaveAbort drops the queue without calling back.                      *)
(*                                                                         *)
(* A block's 128 samples are abstracted to the number of the block in the  *)
(* stream, modulo Numbers.  The main program is the client: Fpkplay, or    *)
(* the threads of PmdPlay.                                                 *)
(***************************************************************************)
EXTENDS Integers, Sequences

CONSTANT
  BLKN     \* number of blocks, 3 or more (4 in the code)

ASSUME RingAssumption == BLKN \in Nat \ {0, 1, 2}

Blocks  == 0 .. BLKN - 1
Numbers == 2 * BLKN        \* enough to tell the blocks of the ring apart

VARIABLES
  finish,          \* 0 playing, 1 stop requested, 2 stopped
  blkip, blkop,    \* next block to render, oldest block in use
  runf,            \* ProcSeq's result: some part of the score still runs
  waveinfo,        \* "zero" or "set", per block
  wavebuff,        \* the number of what was rendered into the block
  queue,           \* the kernel's queue of blocks
  made, heard      \* history: number of the next block rendered, of the last ended

driver == <<finish, blkip, blkop, runf, waveinfo, wavebuff>>
stream == <<queue, made, heard>>

RingTypeOK ==
  /\ finish \in 0 .. 2
  /\ blkip \in Blocks /\ blkop \in Blocks
  /\ runf \in {0, 1}
  /\ waveinfo \in [Blocks -> {"zero", "set"}]
  /\ wavebuff \in [Blocks -> 0 .. Numbers - 1]
  /\ Len(queue) <= BLKN /\ \A i \in 1 .. Len(queue) : queue[i] \in Blocks
  /\ made \in 0 .. Numbers - 1 /\ heard \in 0 .. Numbers - 1

\* After InitMusic.
RingInit ==
  /\ finish = 1 /\ blkip = 0 /\ blkop = 0 /\ runf = 0
  /\ waveinfo = [b \in Blocks |-> "zero"]
  /\ wavebuff = [b \in Blocks |-> 0]
  /\ queue = <<>> /\ made = 0 /\ heard = Numbers - 1

-----------------------------------------------------------------------------
(***************************************************************************)
(* BuffFree, in the kernel's interrupt.                                    *)
(***************************************************************************)

\* A stopped or stopping driver only takes note.
BuffFreeStopped ==
  /\ finish # 0
  /\ finish' = 2
  /\ UNCHANGED <<blkip, blkop, runf, waveinfo, wavebuff, made>>
  /\ queue' = Tail(queue)

\* Blocks in use from op up to ip.
Used(op, ip) == IF op <= ip THEN ip - op ELSE ip - op + BLKN

\* ProcSeq: the score runs on or has come to its end.
ProcSeq == IF runf = 0 THEN {0} ELSE {0, 1}

\* The loop of BuffFree after blkop became op: render and queue blocks until
\* one more would make blkip meet op; then advance the score.
RefillFrom(op) ==
  LET new == BLKN - 1 - Used(op, blkip)
      nth(i) == (blkip + i - 1) % BLKN
  IN  /\ blkop' = op
      /\ blkip' = (blkip + new) % BLKN
      /\ waveinfo' = [b \in Blocks |->
                        IF \E i \in 1 .. new : b = nth(i) THEN "set" ELSE waveinfo[b]]
      /\ wavebuff' = [b \in Blocks |->
                        IF \E i \in 1 .. new : b = nth(i)
                        THEN (made + Used(blkip, b)) % Numbers ELSE wavebuff[b]]
      /\ made' = (made + new) % Numbers
      /\ queue' = Tail(queue) \o [i \in 1 .. new |-> nth(i)]
      /\ runf' \in ProcSeq
      /\ finish' = IF runf' = 0 THEN 2 ELSE 0

\* Mutated: the blocks that wait behind the one that ended are freed with it.
BuffFreeRefills_FreesQueued == finish = 0 /\ RefillFrom((blkop + 3) % BLKN)

\* A playing driver frees the block that ended and refills the ring.
BuffFreeRefills == finish = 0 /\ RefillFrom((blkop + 1) % BLKN)

\* Mutated: finish is not looked at.
BlockEnds_IgnoresFinish ==
  /\ queue # <<>>
  /\ heard' = wavebuff[Head(queue)]
  /\ LET op  == (blkop + 1) % BLKN
     IN  /\ blkop' = op
         /\ blkip' = (blkip + 1) % BLKN
         /\ queue' = Append(Tail(queue), blkip)
         /\ waveinfo' = [waveinfo EXCEPT ![blkip] = "set"]
         /\ wavebuff' = [wavebuff EXCEPT ![blkip] = made]
         /\ made' = (made + 1) % Numbers
         /\ runf' \in ProcSeq
         /\ finish' = IF runf' = 0 THEN 2 ELSE finish

\* The kernel has played the block at the head of its queue.
BlockEnds ==
  /\ queue # <<>>
  /\ heard' = wavebuff[Head(queue)]
  /\ BuffFreeStopped \/ BuffFreeRefills

-----------------------------------------------------------------------------
(***************************************************************************)
(* The driver's functions, called by the main program.                     *)
(***************************************************************************)

\* init_wk, also all of InitMusic.
init_wk ==
  /\ finish' = 1
  /\ waveinfo' = [b \in Blocks |-> "zero"]
  /\ blkip' = 0 /\ blkop' = 0
  /\ UNCHANGED <<runf, wavebuff, stream>>

\* PlayMusic up to StartSeq ...
PlayInit ==
  /\ finish' = 1
  /\ waveinfo' = [b \in Blocks |-> "zero"]
  /\ blkip' = 0 /\ blkop' = 0
  /\ runf' = 1
  /\ UNCHANGED <<wavebuff, stream>>

\* ... hands a block of silence to the kernel ...
PlayQueue ==
  /\ wavebuff' = [wavebuff EXCEPT ![blkip] = made]
  /\ waveinfo' = [waveinfo EXCEPT ![blkip] = "set"]
  /\ queue' = Append(queue, blkip)
  /\ made' = (made + 1) % Numbers
  /\ blkip' = blkip + 1
  /\ UNCHANGED <<finish, blkop, runf, heard>>

\* ... and only then declares itself playing.
PlayGo ==
  /\ finish' = 0
  /\ UNCHANGED <<blkip, blkop, runf, waveinfo, wavebuff, stream>>

\* The kernel forgets what is queued.
pceWaveAbort ==
  /\ queue' = <<>>
  /\ heard' = (made + Numbers - 1) % Numbers
  /\ UNCHANGED <<driver, made>>

pceWaveCheckBuffs == Len(queue)

MusicCheck == finish = 2

-----------------------------------------------------------------------------

\* What the kernel is about to play is what the driver rendered, block after
\* block: a queued block is never rendered into again, its waveinfo is never
\* cleared under the kernel, no block is skipped or played twice (BuffFree's
\* two cursors, PlayMusic's init_wk, the clients' way of stopping first).
QueueIntact ==
  /\ \A i \in 1 .. Len(queue) :
       /\ waveinfo[queue[i]] = "set"
       /\ wavebuff[queue[i]] = (heard + i) % Numbers
  /\ made = (heard + Len(queue) + 1) % Numbers
=============================================================================
