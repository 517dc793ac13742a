------------------------------ MODULE Music_proofs ------------------------------
(***************************************************************************)
(* The output ring keeps its queue intact (QueueIntact), for every number  *)
(* of blocks and for both clients: a thread of a simple program (PmdPlay)  *)
(* and the player (Fpkplay), which has variables of its own here.          *)
(***************************************************************************)
EXTENDS PmdPlay, TLAPS

-----------------------------------------------------------------------------
(***************************************************************************)
(* The ring.  Seen from blkip the queue is the blocks before it; while the *)
(* driver plays, blkop is the oldest of them.                              *)
(***************************************************************************)
Around(x) == IF x < 0 THEN x + BLKN ELSE x

RingInv ==
  /\ RingTypeOK
  /\ queue \in Seq(Blocks) /\ Len(queue) < BLKN
  /\ \A i \in 1 .. Len(queue) : queue[i] = Around(blkip - Len(queue) + i - 1)
  /\ QueueIntact
  /\ finish = 0 /\ queue # <<>> => blkop = Around(blkip - Len(queue))

\* Cursors and block numbers wrap around at most once.
LEMMA Wraps ==
  ASSUME NEW b \in Nat \ {0}, NEW a \in Nat, a < 2 * b
  PROVE  a % b = IF a < b THEN a ELSE a - b
<1>1. CASE a < b BY <1>1
<1>2. CASE ~(a < b) BY <1>2
<1> QED BY <1>1, <1>2

\* After InitMusic nothing is queued.
LEMMA RingStarts == RingInit => RingInv
<1> SUFFICES ASSUME RingInit PROVE RingInv OBVIOUS
<1>1. Len(queue) = 0 /\ queue \in Seq(Blocks) BY DEF RingInit
<1>2. RingTypeOK BY <1>1, RingAssumption DEF RingInit, RingTypeOK, Blocks, Numbers
<1>3. (heard + 1) % Numbers = 0
  <2>1. heard + 1 = Numbers /\ Numbers \in Nat \ {0} BY RingAssumption DEF RingInit, Numbers
  <2> QED BY <2>1, Wraps
<1>4. QueueIntact BY <1>1, <1>3, RingAssumption DEF QueueIntact, RingInit, Numbers
<1> QED BY <1>1, <1>2, <1>4, RingAssumption DEF RingInv, RingInit

\* The numbers QueueIntact is about, without the modulus.
Number(n) == IF n < Numbers THEN n ELSE n - Numbers

\* In these numbers the queue's places follow one another.
LEMMA Numbered ==
    ASSUME RingInv
    PROVE  /\ \A i \in 1 .. Len(queue) : wavebuff[queue[i]] = Number(heard + i)
           /\ made = Number(heard + Len(queue) + 1)
           /\ \A n \in Nat : n < 2 * Numbers => n % Numbers = Number(n)
           /\ Numbers = 2 * BLKN
<1>0. Numbers \in Nat \ {0} /\ Numbers = 2 * BLKN BY RingAssumption DEF Numbers
<1>1. \A n \in Nat : n < 2 * Numbers => n % Numbers = Number(n)
  BY <1>0, Wraps DEF Number
<1>2. heard \in Nat /\ heard < Numbers /\ Len(queue) \in Nat /\ Len(queue) < BLKN
  BY <1>0 DEF RingInv, RingTypeOK
<1>3. \A i \in 1 .. Len(queue) : heard + i \in Nat /\ heard + i < 2 * Numbers
  BY <1>0, <1>2, RingAssumption
<1>4. heard + Len(queue) + 1 \in Nat /\ heard + Len(queue) + 1 < 2 * Numbers
  BY <1>0, <1>2, RingAssumption
<1> QED BY <1>0, <1>1, <1>3, <1>4 DEF RingInv, QueueIntact

\* Counting on from a number counts on from where it was counted.
LEMMA CountOn ==
    ASSUME NEW h \in 0 .. Numbers - 1, NEW a \in 0 .. BLKN, NEW b \in 0 .. BLKN
    PROVE  /\ Number(h + a) \in 0 .. Numbers - 1
           /\ Number(Number(h + a) + b) = Number(h + (a + b))
           /\ Number(h + (a + b)) \in 0 .. Numbers - 1
<1>1. BLKN \in Nat /\ Numbers = 2 * BLKN BY RingAssumption DEF Numbers
<1>2. h \in Nat /\ h < 2 * BLKN /\ a \in Nat /\ a <= BLKN /\ b \in Nat /\ b <= BLKN BY <1>1
<1>3. CASE h + a < 2 * BLKN BY <1>1, <1>2, <1>3 DEF Number
<1>4. CASE ~(h + a < 2 * BLKN) BY <1>1, <1>2, <1>4 DEF Number
<1> QED BY <1>3, <1>4

\* The block at the head of the queue is the next of the stream.
LEMMA HeadIsNext ==
    ASSUME RingInv, queue # <<>>
    PROVE  /\ Len(queue) \in Nat \ {0}
           /\ wavebuff[Head(queue)] = Number(heard + 1)
           /\ Tail(queue) \in Seq(Blocks) /\ Len(Tail(queue)) = Len(queue) - 1
           /\ \A i \in 1 .. Len(queue) - 1 : Tail(queue)[i] = queue[i + 1]
<1>1. queue \in Seq(Blocks) BY DEF RingInv
<1>2. Len(queue) \in Nat \ {0} /\ Head(queue) = queue[1] BY <1>1
<1> QED BY <1>1, <1>2, Numbered

\* A stopped driver loses the head of the queue and keeps the rest as it is.
LEMMA StoppedKeeps ==
    ASSUME RingInv, queue # <<>>, heard' = wavebuff[Head(queue)], BuffFreeStopped
    PROVE  RingInv' /\ Len(queue') = Len(queue) - 1
<1> USE RingAssumption
<1>1. queue' = Tail(queue) /\ finish' = 2
      /\ UNCHANGED <<blkip, blkop, runf, waveinfo, wavebuff, made>>
  BY DEF BuffFreeStopped
<1>2. Len(queue') = Len(queue) - 1 /\ queue' \in Seq(Blocks)
  BY <1>1, HeadIsNext
<1>3. heard' = Number(heard + 1) /\ heard' \in 0 .. Numbers - 1
  <2>1. heard \in 0 .. Numbers - 1 /\ Numbers \in Nat \ {0} BY DEF RingInv, RingTypeOK, Numbers
  <2> QED BY <2>1, HeadIsNext DEF Number
<1>4. RingTypeOK'
  BY <1>1, <1>2, <1>3, HeadIsNext DEF RingInv, RingTypeOK, Numbers, Blocks
<1>5. \A i \in 1 .. Len(queue') : queue'[i] = Around(blkip - Len(queue') + i - 1)
  <2> SUFFICES ASSUME NEW i \in 1 .. Len(queue')
               PROVE  queue'[i] = Around(blkip - Len(queue') + i - 1)
    OBVIOUS
  <2>1. i + 1 \in 1 .. Len(queue) /\ queue'[i] = queue[i + 1] BY <1>1, <1>2, HeadIsNext
  <2>2. queue[i + 1] = Around(blkip - Len(queue) + (i + 1) - 1) BY <2>1 DEF RingInv
  <2>3. blkip \in Int /\ Len(queue) \in Int /\ i \in Int
    BY DEF RingInv, RingTypeOK, Blocks
  <2>4. blkip - Len(queue) + (i + 1) - 1 = blkip - Len(queue') + i - 1 BY <1>2, <2>3
  <2> QED BY <2>1, <2>2, <2>4
<1>6. \A i \in 1 .. Len(queue') :
        waveinfo'[queue'[i]] = "set" /\ wavebuff'[queue'[i]] = (heard' + i) % Numbers
  <2> SUFFICES ASSUME NEW i \in 1 .. Len(queue')
               PROVE  waveinfo[queue'[i]] = "set" /\ wavebuff[queue'[i]] = (heard' + i) % Numbers
    BY <1>1
  <2>1. i + 1 \in 1 .. Len(queue) /\ queue'[i] = queue[i + 1] BY <1>1, <1>2, HeadIsNext
  <2>2. waveinfo[queue'[i]] = "set" /\ wavebuff[queue'[i]] = Number(heard + (i + 1))
    BY <2>1, Numbered DEF RingInv, QueueIntact
  <2>3. heard \in 0 .. Numbers - 1 /\ i < BLKN /\ i \in Nat BY <2>1 DEF RingInv, RingTypeOK
  <2>4. heard' + i \in Nat /\ heard' + i < 2 * Numbers BY <1>3, <2>3 DEF Numbers
  <2>5. (heard' + i) % Numbers = Number(heard' + i) BY <2>4, Numbered
  <2> QED BY <1>3, <2>2, <2>3, <2>5 DEF Number, Numbers
<1>7. made' = (heard' + Len(queue') + 1) % Numbers
  <2>1. made = Number(heard + Len(queue) + 1) BY Numbered
  <2>2. heard \in 0 .. Numbers - 1 /\ Len(queue) \in Nat /\ Len(queue) < BLKN
    BY DEF RingInv, RingTypeOK
  <2>3. heard' + Len(queue') + 1 \in Nat /\ heard' + Len(queue') + 1 < 2 * Numbers
    BY <1>2, <1>3, <2>2, HeadIsNext DEF Numbers
  <2>4. (heard' + Len(queue') + 1) % Numbers = Number(heard' + Len(queue') + 1)
    BY <2>3, Numbered
  <2>5. Number(heard' + Len(queue') + 1) = Number(heard + Len(queue) + 1)
    <3>1. heard' = IF heard + 1 < 2 * BLKN THEN heard + 1 ELSE (heard + 1) - 2 * BLKN
      BY <1>3 DEF Number, Numbers
    <3>2. heard \in 0 .. 2 * BLKN - 1 /\ Len(queue) \in Nat \ {0} /\ Len(queue) < BLKN
      BY <2>2, HeadIsNext DEF Numbers
    <3>3. Len(queue') = Len(queue) - 1 BY <1>2
    <3>4. CASE heard + 1 < 2 * BLKN BY <3>1, <3>2, <3>3, <3>4 DEF Number, Numbers
    <3>5. CASE ~(heard + 1 < 2 * BLKN) BY <3>1, <3>2, <3>3, <3>5 DEF Number, Numbers
    <3> QED BY <3>4, <3>5
  <2> QED BY <1>1, <2>1, <2>4, <2>5
<1>8. QueueIntact' BY <1>6, <1>7 DEF QueueIntact
<1> QED BY <1>1, <1>2, <1>4, <1>5, <1>8, HeadIsNext DEF RingInv

-----------------------------------------------------------------------------
(***************************************************************************)
(* BuffFree while the driver plays: with n blocks queued it frees one and  *)
(* renders BLKN - n, all there is room for.                                *)
(***************************************************************************)
Wrapped(x) == IF x < BLKN THEN x ELSE x - BLKN

\* Where the cursors stand, and which blocks are rendered.
LEMMA Cursors ==
    ASSUME NEW ip \in Blocks, NEW n \in 1 .. BLKN - 1,
           NEW op, op = (Around(ip - n) + 1) % BLKN
    PROVE  /\ op \in Blocks
           /\ Used(op, ip) = n - 1
           /\ (ip + (BLKN - n)) % BLKN = Around(ip - n)
           /\ op = Around(Around(ip - n) - (BLKN - 1))
           /\ \A i \in 1 .. BLKN - n : /\ (ip + i - 1) % BLKN = Wrapped(ip + i - 1)
                                      /\ Wrapped(ip + i - 1) \in Blocks
                                      /\ Used(ip, Wrapped(ip + i - 1)) = i - 1
<1> USE RingAssumption
<1>1. ip \in Nat /\ ip < BLKN /\ n \in Nat /\ n >= 1 /\ n < BLKN /\ BLKN \in Nat \ {0}
  BY DEF Blocks
<1>2. \A x \in Nat : x < 2 * BLKN => x % BLKN = Wrapped(x) BY Wraps DEF Wrapped
<1>3. Around(ip - n) + 1 \in Nat /\ Around(ip - n) + 1 < 2 * BLKN BY <1>1 DEF Around
<1>4. op = Wrapped(Around(ip - n) + 1) BY <1>2, <1>3
<1>5. op = IF ip - n < 0 THEN IF ip - n + BLKN + 1 < BLKN THEN ip - n + BLKN + 1 ELSE 0
           ELSE ip - n + 1
  BY <1>1, <1>4 DEF Wrapped, Around
<1>6. op \in Blocks BY <1>1, <1>5 DEF Blocks
<1>7. Used(op, ip) = n - 1 BY <1>1, <1>5 DEF Used
<1>8. (ip + (BLKN - n)) % BLKN = Around(ip - n)
  <2>1. ip + (BLKN - n) \in Nat /\ ip + (BLKN - n) < 2 * BLKN BY <1>1
  <2>2. (ip + (BLKN - n)) % BLKN = Wrapped(ip + (BLKN - n)) BY <1>2, <2>1
  <2> QED BY <1>1, <2>2 DEF Wrapped, Around
<1>9. op = Around(Around(ip - n) - (BLKN - 1)) BY <1>1, <1>5 DEF Around
<1>10. ASSUME NEW i \in 1 .. BLKN - n
       PROVE  /\ (ip + i - 1) % BLKN = Wrapped(ip + i - 1)
              /\ Wrapped(ip + i - 1) \in Blocks
              /\ Used(ip, Wrapped(ip + i - 1)) = i - 1
  <2>1. i \in Nat /\ i >= 1 /\ i <= BLKN - n BY <1>1
  <2>2. ip + i - 1 \in Nat /\ ip + i - 1 < 2 * BLKN BY <1>1, <2>1
  <2>3. (ip + i - 1) % BLKN = Wrapped(ip + i - 1) BY <1>2, <2>2
  <2>4. Wrapped(ip + i - 1) \in Blocks BY <1>1, <2>1 DEF Wrapped, Blocks
  <2>5. Used(ip, Wrapped(ip + i - 1)) = i - 1 BY <1>1, <2>1 DEF Wrapped, Used
  <2> QED BY <2>3, <2>4, <2>5
<1> QED BY <1>6, <1>7, <1>8, <1>9, <1>10

\* What is queued is not rendered over.
LEMMA QueuedApart ==
    ASSUME NEW ip \in Blocks, NEW n \in 1 .. BLKN - 1,
           NEW k \in 1 .. n, NEW i \in 1 .. BLKN - n
    PROVE  Around(ip - n + k - 1) # Wrapped(ip + i - 1)
<1>1. ip \in Nat /\ ip < BLKN /\ n \in Nat /\ n >= 1 /\ n < BLKN
      /\ BLKN \in Nat /\ k \in Nat /\ k >= 1 /\ k <= n /\ i \in Nat /\ i >= 1 /\ i <= BLKN - n
  BY RingAssumption DEF Blocks
<1> QED BY <1>1 DEF Around, Wrapped

\* A playing driver leaves all blocks but one queued, in the stream's order.
LEMMA RefillKeeps ==
    ASSUME RingInv, queue # <<>>, heard' = wavebuff[Head(queue)], BuffFreeRefills
    PROVE  RingInv' /\ Len(queue') = BLKN - 1
<1> USE RingAssumption
<1> DEFINE n == Len(queue)
           new == BLKN - n
           op == (blkop + 1) % BLKN
           nth(i) == Wrapped(blkip + i - 1)
<1>1. finish = 0 /\ RefillFrom(op) BY DEF BuffFreeRefills
<1>2. n \in 1 .. BLKN - 1 /\ n \in Nat /\ BLKN \in Nat
  BY HeadIsNext DEF RingInv
<1>3. blkip \in Blocks /\ blkop = Around(blkip - n) BY <1>1 DEF RingInv, RingTypeOK
<1>4. /\ op \in Blocks /\ Used(op, blkip) = n - 1
      /\ (blkip + new) % BLKN = blkop
      /\ op = Around(blkop - (BLKN - 1))
      /\ \A i \in 1 .. new : /\ (blkip + i - 1) % BLKN = nth(i) /\ nth(i) \in Blocks
                             /\ Used(blkip, nth(i)) = i - 1
  <2> HIDE DEF n, op
  <2>1. op = (Around(blkip - n) + 1) % BLKN BY <1>3 DEF op
  <2> QED BY <1>2, <1>3, <2>1, Cursors
<1>5. BLKN - 1 - Used(op, blkip) = new BY <1>2, <1>4
<1> HIDE DEF op
<1>6. blkop' = op /\ blkip' = blkop /\ made' = (made + new) % Numbers
      /\ runf' \in {0, 1} /\ finish' \in {0, 2}
  BY <1>1, <1>4, <1>5 DEF RefillFrom, ProcSeq
<1>7. \A b \in Blocks : waveinfo'[b] = IF \E i \in 1 .. new : b = nth(i) THEN "set" ELSE waveinfo[b]
  BY <1>1, <1>4, <1>5 DEF RefillFrom
<1>8. \A b \in Blocks : wavebuff'[b] = IF \E i \in 1 .. new : b = nth(i)
                                       THEN (made + Used(blkip, b)) % Numbers ELSE wavebuff[b]
  BY <1>1, <1>4, <1>5 DEF RefillFrom
<1>9. waveinfo' = [b \in Blocks |-> waveinfo'[b]] /\ wavebuff' = [b \in Blocks |-> wavebuff'[b]]
  BY <1>1 DEF RefillFrom
<1>10. queue' = Tail(queue) \o [i \in 1 .. new |-> nth(i)]
  <2>1. queue' = Tail(queue) \o [i \in 1 .. BLKN - 1 - Used(op, blkip) |-> (blkip + i - 1) % BLKN]
    BY <1>1 DEF RefillFrom
  <2>2. [i \in 1 .. new |-> (blkip + i - 1) % BLKN] = [i \in 1 .. new |-> nth(i)]
    BY <1>4
  <2> QED BY <1>5, <2>1, <2>2
<1>11. /\ Len(queue') = BLKN - 1 /\ queue' \in Seq(Blocks)
       /\ \A k \in 1 .. n - 1 : queue'[k] = queue[k + 1]
       /\ \A j \in 1 .. new : queue'[(n - 1) + j] = nth(j)
  <2> DEFINE fresh == [i \in 1 .. new |-> nth(i)]
  <2>1. fresh \in Seq(Blocks) /\ Len(fresh) = new BY <1>2, <1>4
  <2>2. Tail(queue) \in Seq(Blocks) /\ Len(Tail(queue)) = n - 1
        /\ \A k \in 1 .. n - 1 : Tail(queue)[k] = queue[k + 1]
    BY HeadIsNext
  <2>3. \A j \in 1 .. new : fresh[j] = nth(j) OBVIOUS
  <2>4. queue' = Tail(queue) \o fresh BY <1>10
  <2> HIDE DEF fresh, nth
  <2>5. n - 1 \in Nat /\ new \in Nat /\ (n - 1) + new = BLKN - 1 BY <1>2
  <2>6. Len(queue') = (n - 1) + new /\ queue' \in Seq(Blocks)
    <3> HIDE DEF n, new
    <3> QED BY <2>1, <2>2, <2>4
  <2>7. \A k \in 1 .. n - 1 : queue'[k] = Tail(queue)[k] BY <2>1, <2>2, <2>4, <2>5
  <2>8. \A j \in 1 .. new : queue'[(n - 1) + j] = fresh[j] BY <2>1, <2>2, <2>4, <2>5
  <2> QED BY <2>2, <2>3, <2>5, <2>6, <2>7, <2>8
<1>12. \A k \in 1 .. BLKN - 1 : queue'[k] = Around(blkop - (BLKN - 1) + k - 1)
  <2> SUFFICES ASSUME NEW k \in 1 .. BLKN - 1
               PROVE  queue'[k] = Around(blkop - (BLKN - 1) + k - 1)
    OBVIOUS
  <2>1. blkip \in 0 .. BLKN - 1 /\ blkop = IF blkip - n < 0 THEN blkip - n + BLKN ELSE blkip - n
    BY <1>3 DEF Blocks, Around
  <2>2. CASE k <= n - 1
    <3>1. queue'[k] = queue[k + 1] /\ k + 1 \in 1 .. n BY <1>2, <1>11, <2>2
    <3>2. queue[k + 1] = Around(blkip - n + (k + 1) - 1) BY <3>1 DEF RingInv
    <3> QED BY <1>2, <2>1, <2>2, <3>1, <3>2 DEF Around
  <2>3. CASE k >= n
    <3>1. k - (n - 1) \in 1 .. new /\ (n - 1) + (k - (n - 1)) = k BY <1>2, <2>3
    <3>2. queue'[k] = nth(k - (n - 1)) BY <1>11, <3>1
    <3> QED BY <1>2, <2>1, <2>3, <3>2 DEF Around, Wrapped
  <2> QED BY <1>2, <2>2, <2>3
<1>13. heard' = Number(heard + 1) /\ heard \in 0 .. Numbers - 1 /\ heard' \in 0 .. Numbers - 1
       /\ made = Number(heard + n + 1) /\ made \in 0 .. Numbers - 1
       /\ Numbers = 2 * BLKN
  <2>1. Numbers = 2 * BLKN /\ made = Number(heard + n + 1) BY Numbered
  <2>2. heard \in 0 .. Numbers - 1 /\ made \in 0 .. Numbers - 1 BY DEF RingInv, RingTypeOK
  <2>3. heard' = Number(heard + 1) BY HeadIsNext
  <2> QED BY <2>1, <2>2, <2>3, CountOn, <1>2
<1>14. \A k \in 1 .. BLKN - 1 :
         waveinfo'[queue'[k]] = "set" /\ wavebuff'[queue'[k]] = (heard' + k) % Numbers
  <2> SUFFICES ASSUME NEW k \in 1 .. BLKN - 1
               PROVE  waveinfo'[queue'[k]] = "set" /\ wavebuff'[queue'[k]] = (heard' + k) % Numbers
    OBVIOUS
  <2>1. (heard' + k) % Numbers = Number(heard' + k)
    <3>1. heard' + k \in Nat /\ heard' + k < 2 * Numbers BY <1>2, <1>13
    <3> QED BY <3>1, Numbered
  <2>2. CASE k <= n - 1
    <3>1. queue'[k] = queue[k + 1] /\ k + 1 \in 1 .. n BY <1>2, <1>11, <2>2
    <3>2. queue[k + 1] \in Blocks /\ waveinfo[queue[k + 1]] = "set"
          /\ wavebuff[queue[k + 1]] = Number(heard + (k + 1))
      BY <3>1, Numbered DEF RingInv, QueueIntact
    <3>3. \A i \in 1 .. new : queue[k + 1] # nth(i)
      <4>1. queue[k + 1] = Around(blkip - n + (k + 1) - 1) BY <3>1 DEF RingInv
      <4> HIDE DEF n
      <4> QED BY <1>2, <1>3, <3>1, <4>1, QueuedApart
    <3>4. waveinfo'[queue[k + 1]] = "set" /\ wavebuff'[queue[k + 1]] = Number(heard + (k + 1))
      BY <1>7, <1>8, <3>2, <3>3
    <3>5. Number(heard + (k + 1)) = Number(heard' + k)
      BY <1>2, <1>13, <2>2 DEF Number
    <3> QED BY <2>1, <3>1, <3>4, <3>5
  <2>3. CASE k >= n
    <3>1. k - (n - 1) \in 1 .. new /\ (n - 1) + (k - (n - 1)) = k BY <1>2, <2>3
    <3>2. PICK j \in 1 .. new : j = k - (n - 1) BY <3>1
    <3>3. queue'[k] = nth(j) /\ nth(j) \in Blocks /\ Used(blkip, nth(j)) = j - 1
      BY <1>4, <1>11, <3>1, <3>2
    <3>4. waveinfo'[queue'[k]] = "set" /\ wavebuff'[queue'[k]] = (made + (j - 1)) % Numbers
      BY <1>7, <1>8, <3>3
    <3>5. (made + (j - 1)) % Numbers = Number(made + (j - 1))
      <4>1. made + (j - 1) \in Nat /\ made + (j - 1) < 2 * Numbers BY <1>2, <1>13
      <4> QED BY <4>1, Numbered
    <3>6. Number(made + (j - 1)) = Number(heard' + k)
      <4> DEFINE m == n + 1
      <4>0. heard \in 0 .. Numbers - 1 BY <1>13
      <4>1. m \in 0 .. BLKN /\ j - 1 \in 0 .. BLKN /\ k \in 0 .. BLKN /\ 1 \in 0 .. BLKN
        BY <1>2, <2>3, <3>2
      <4>2. m + (j - 1) = 1 + k BY <1>2, <3>2
      <4>3. made = Number(heard + m) BY <1>2, <1>13
      <4> HIDE DEF m
      <4>4. Number(Number(heard + m) + (j - 1)) = Number(heard + (m + (j - 1)))
        BY <4>0, <4>1, CountOn
      <4>5. Number(Number(heard + 1) + k) = Number(heard + (1 + k)) BY <4>0, <4>1, CountOn
      <4> QED BY <1>13, <4>2, <4>3, <4>4, <4>5
    <3> QED BY <2>1, <3>4, <3>5, <3>6
  <2> QED BY <1>2, <2>2, <2>3
<1>15. made' = (heard' + (BLKN - 1) + 1) % Numbers /\ made' \in 0 .. Numbers - 1
  <2>1. made + new \in Nat /\ made + new < 2 * Numbers
        /\ heard' + (BLKN - 1) + 1 \in Nat /\ heard' + (BLKN - 1) + 1 < 2 * Numbers
    BY <1>2, <1>13
  <2>2. made' = Number(made + new)
        /\ (heard' + (BLKN - 1) + 1) % Numbers = Number(heard' + (BLKN - 1) + 1)
    BY <1>6, <2>1, Numbered
  <2>3. Number(made + new) = Number(heard' + (BLKN - 1) + 1) /\ Number(made + new) \in 0 .. Numbers - 1
    <3> DEFINE m == n + 1
               l == BLKN - 1 + 1
    <3>1. m \in 0 .. BLKN /\ new \in 0 .. BLKN /\ 1 \in 0 .. BLKN /\ l \in 0 .. BLKN
      BY <1>2
    <3>2. m + new = 1 + l BY <1>2
    <3>3. made = Number(heard + m) /\ heard' + (BLKN - 1) + 1 = heard' + l
      BY <1>2, <1>13
    <3> HIDE DEF m, l
    <3>4. heard \in 0 .. Numbers - 1 BY <1>13
    <3> HIDE DEF new, Number
    <3>5. Number(Number(heard + m) + new) = Number(heard + (m + new))
          /\ Number(heard + (m + new)) \in 0 .. Numbers - 1
      BY <3>1, <3>4, CountOn
    <3>6. Number(Number(heard + 1) + l) = Number(heard + (1 + l)) BY <3>1, <3>4, CountOn
    <3>7. Number(made + new) = Number(heard + (m + new)) BY <3>3, <3>5
    <3>8. Number(heard' + (BLKN - 1) + 1) = Number(heard + (1 + l)) BY <1>13, <3>3, <3>6
    <3> QED BY <3>2, <3>5, <3>7, <3>8
  <2> QED BY <2>2, <2>3
<1>16. wavebuff' \in [Blocks -> 0 .. Numbers - 1] /\ waveinfo' \in [Blocks -> {"zero", "set"}]
  <2>1. \A b \in Blocks : waveinfo'[b] \in {"zero", "set"}
    BY <1>7 DEF RingInv, RingTypeOK
  <2>2. ASSUME NEW b \in Blocks PROVE wavebuff'[b] \in 0 .. Numbers - 1
    <3>1. wavebuff[b] \in 0 .. Numbers - 1 BY DEF RingInv, RingTypeOK
    <3>2. ASSUME NEW i \in 1 .. new, b = nth(i) PROVE (made + Used(blkip, b)) % Numbers \in 0 .. Numbers - 1
      <4>1. made + Used(blkip, b) \in Nat /\ made + Used(blkip, b) < 2 * Numbers
        BY <1>2, <1>4, <1>13, <3>2
      <4>2. (made + Used(blkip, b)) % Numbers = Number(made + Used(blkip, b))
        BY <4>1, Numbered
      <4> QED BY <1>13, <4>1, <4>2 DEF Number
    <3> QED BY <1>8, <3>1, <3>2
  <2> QED BY <1>9, <2>1, <2>2
<1>17. blkip' \in Blocks /\ blkop' \in Blocks
  <2>1. blkop \in Blocks BY <1>2, <1>3 DEF Around, Blocks
  <2> QED BY <1>4, <1>6, <2>1
<1>18. RingTypeOK'
  <2>1. \A k \in 1 .. Len(queue') : queue'[k] \in Blocks BY <1>11
  <2>2. Len(queue') <= BLKN BY <1>2, <1>11
  <2>3. (0 .. Numbers - 1)' = 0 .. Numbers - 1 /\ Blocks' = Blocks BY DEF Numbers, Blocks
  <2>4. finish' \in 0 .. 2 BY <1>6
  <2> QED BY <1>6, <1>13, <1>15, <1>16, <1>17, <2>1, <2>2, <2>3, <2>4 DEF RingTypeOK
<1>19. QueueIntact'
  BY <1>11, <1>14, <1>15 DEF QueueIntact
<1> QED BY <1>2, <1>4, <1>6, <1>11, <1>12, <1>18, <1>19 DEF RingInv

\* The end of a block, whatever the driver is doing.
LEMMA BlockEndsKeeps ==
    ASSUME RingInv, BlockEnds
    PROVE  /\ RingInv' /\ queue # <<>>
           /\ finish = 0 => Len(queue') = BLKN - 1
           /\ finish # 0 => finish' = 2 /\ Len(queue') = Len(queue) - 1
<1>1. queue # <<>> /\ heard' = wavebuff[Head(queue)] /\ (BuffFreeStopped \/ BuffFreeRefills)
  BY DEF BlockEnds
<1>2. CASE BuffFreeStopped BY <1>1, <1>2, StoppedKeeps DEF BuffFreeStopped
<1>3. CASE BuffFreeRefills BY <1>1, <1>3, RefillKeeps DEF BuffFreeRefills
<1> QED BY <1>1, <1>2, <1>3

-----------------------------------------------------------------------------
(***************************************************************************)
(* The driver's functions.                                                 *)
(***************************************************************************)

\* The driver is initialised while nothing is queued.
LEMMA InitKeeps ==
    ASSUME RingInv, queue = <<>>, init_wk \/ PlayInit
    PROVE  RingInv' /\ finish' = 1 /\ blkip' = 0 /\ blkop' = 0 /\ queue' = <<>>
<1> USE RingAssumption
<1>1. /\ finish' = 1 /\ blkip' = 0 /\ blkop' = 0 /\ runf' \in {0, 1}
      /\ waveinfo' = [b \in Blocks |-> "zero"]
      /\ UNCHANGED <<wavebuff, queue, made, heard>>
  BY DEF init_wk, PlayInit, stream, RingInv, RingTypeOK
<1>2. Len(queue) = 0 OBVIOUS
<1>3. RingTypeOK' BY <1>1, <1>2 DEF RingInv, RingTypeOK, Blocks, Numbers
<1>4. QueueIntact' BY <1>1, <1>2 DEF RingInv, QueueIntact, Numbers
<1> QED BY <1>1, <1>2, <1>3, <1>4 DEF RingInv, Blocks

\* The first block is queued into the driver just initialised.
LEMMA QueueKeeps ==
    ASSUME RingInv, queue = <<>>, finish = 1, blkip = 0, blkop = 0, PlayQueue
    PROVE  RingInv' /\ finish' = 1 /\ blkip' = 1 /\ blkop' = 0 /\ Len(queue') = 1
<1> USE RingAssumption
<1>1. /\ wavebuff' = [wavebuff EXCEPT ![0] = made]
      /\ waveinfo' = [waveinfo EXCEPT ![0] = "set"]
      /\ queue' = <<0>>
      /\ made' = (made + 1) % Numbers
      /\ blkip' = 1
      /\ UNCHANGED <<finish, blkop, runf, heard>>
  BY DEF PlayQueue
<1>2. Len(queue) = 0 /\ Len(queue') = 1 /\ queue'[1] = 0 /\ 0 \in Blocks /\ 1 \in Blocks
  BY <1>1 DEF Blocks
<1>3. heard \in 0 .. Numbers - 1 /\ made \in 0 .. Numbers - 1 /\ 1 \in 0 .. BLKN
  BY DEF RingInv, RingTypeOK
<1>4. made = Number(heard + 1) BY <1>2, <1>3, Numbered DEF Numbers
<1>5. made' = Number(made + 1) /\ made' = Number(heard + 2)
  <2>1. made + 1 \in Nat /\ made + 1 < 2 * Numbers BY <1>3 DEF Numbers
  <2>2. (made + 1) % Numbers = Number(made + 1) BY <2>1, Numbered
  <2>3. Number(Number(heard + 1) + 1) = Number(heard + (1 + 1)) BY <1>3, CountOn
  <2> QED BY <1>1, <1>4, <2>2, <2>3
<1>6. made' \in 0 .. Numbers - 1 BY <1>3, <1>4, <1>5, CountOn
<1>7. RingTypeOK' BY <1>1, <1>2, <1>3, <1>6 DEF RingInv, RingTypeOK, Blocks, Numbers
<1>8. QueueIntact'
  <2>1. (heard + 1) % Numbers = Number(heard + 1) /\ (heard + 2) % Numbers = Number(heard + 2)
    <3>1. heard + 1 \in Nat /\ heard + 1 < 2 * Numbers /\ heard + 2 \in Nat /\ heard + 2 < 2 * Numbers
      BY <1>3 DEF Numbers
    <3> QED BY <3>1, Numbered
  <2>2. waveinfo'[0] = "set" /\ wavebuff'[0] = made
    BY <1>1, <1>2 DEF RingInv, RingTypeOK
  <2>3. (heard' + Len(queue') + 1) % Numbers = (heard + 2) % Numbers
    BY <1>1, <1>2, <1>3 DEF Numbers
  <2> QED BY <1>1, <1>2, <1>4, <1>5, <2>1, <2>2, <2>3 DEF QueueIntact, Numbers
<1>9. queue' \in Seq(Blocks) /\ queue'[1] = Around(blkip' - Len(queue') + 1 - 1)
  BY <1>1, <1>2 DEF Around
<1> QED BY <1>1, <1>2, <1>7, <1>8, <1>9 DEF RingInv, Blocks

\* The driver declares itself playing with the first block queued.
LEMMA GoKeeps ==
    ASSUME RingInv, Len(queue) = 1, blkip = 1, blkop = 0, PlayGo
    PROVE  RingInv' /\ finish' = 0 /\ UNCHANGED queue
<1> USE RingAssumption
<1>1. finish' = 0 /\ UNCHANGED <<blkip, blkop, runf, waveinfo, wavebuff, queue, made, heard>>
  BY DEF PlayGo, stream
<1>2. finish' \in 0 .. 2 BY <1>1
<1>3. RingTypeOK'
  <2>1. Blocks' = Blocks /\ Numbers' = Numbers BY DEF Blocks, Numbers
  <2> QED BY <1>1, <1>2, <2>1 DEF RingInv, RingTypeOK
<1>4. QueueIntact' BY <1>1 DEF RingInv, QueueIntact, Numbers
<1>5. blkop' = Around(blkip' - Len(queue'))
  <2>1. blkop' = 0 /\ blkip' - Len(queue') = 0 BY <1>1
  <2> QED BY <2>1 DEF Around
<1>6. \A i \in 1 .. Len(queue') : queue'[i] = Around(blkip' - Len(queue') + i - 1)
  BY <1>1 DEF RingInv, Around
<1> QED BY <1>1, <1>3, <1>4, <1>5, <1>6 DEF RingInv, Blocks

\* The kernel forgets the queue.
LEMMA AbortKeeps ==
    ASSUME RingInv, pceWaveAbort
    PROVE  RingInv' /\ queue' = <<>> /\ UNCHANGED driver
<1> USE RingAssumption
<1>1. queue' = <<>> /\ heard' = (made + Numbers - 1) % Numbers /\ UNCHANGED <<driver, made>>
  BY DEF pceWaveAbort
<1>2. Len(queue') = 0 /\ queue' \in Seq(Blocks) BY <1>1
<1>3. made \in 0 .. Numbers - 1 /\ Numbers \in Nat \ {0} /\ Numbers >= 2
  BY DEF RingInv, RingTypeOK, Numbers
<1>4. heard' = Number(made + Numbers - 1)
  <2>1. made + Numbers - 1 \in Nat /\ made + Numbers - 1 < 2 * Numbers BY <1>3
  <2> QED BY <1>1, <2>1, Numbered
<1>5. heard' \in 0 .. Numbers - 1 /\ Number(heard' + 1) = made
  BY <1>3, <1>4 DEF Number
<1>6. (heard' + 0 + 1) % Numbers = made
  <2>1. heard' + 0 + 1 \in Nat /\ heard' + 0 + 1 < 2 * Numbers /\ heard' + 0 + 1 = heard' + 1
    <3>1. heard' \in 0 .. 2 * BLKN - 1 BY <1>5 DEF Numbers
    <3>2. \A h \in 0 .. 2 * BLKN - 1 :
            h + 0 + 1 \in Nat /\ h + 0 + 1 < 2 * (2 * BLKN) /\ h + 0 + 1 = h + 1
      OBVIOUS
    <3> QED BY <3>1, <3>2 DEF Numbers
  <2> QED BY <1>5, <2>1, Numbered
<1>7. RingTypeOK' BY <1>1, <1>2, <1>5 DEF driver, RingInv, RingTypeOK, Blocks, Numbers
<1>8. QueueIntact' BY <1>1, <1>2, <1>6 DEF QueueIntact, Numbers
<1> QED BY <1>1, <1>2, <1>7, <1>8 DEF RingInv, Blocks

\* Steps that leave the ring alone, or only stop the driver.
LEMMA RestKeeps ==
    ASSUME RingInv,
           UNCHANGED <<blkip, blkop, runf, waveinfo, wavebuff, queue, made, heard>>,
           finish' = finish \/ finish' = 1
    PROVE  RingInv'
<1>1. RingTypeOK' BY DEF RingInv, RingTypeOK, Blocks, Numbers
<1>2. QueueIntact' BY DEF RingInv, QueueIntact, Numbers
<1> QED BY <1>1, <1>2 DEF RingInv, Blocks, Around

-----------------------------------------------------------------------------
(***************************************************************************)
(* One thread of a simple program as the client.  What it relies on: once  *)
(* pmdstop has returned the queue stays empty until it plays again.        *)
(***************************************************************************)
Playing == {"stop_play", "play", "init", "queue", "go", "playing"}
Silent  == {"read0", "read1", "close", "play", "init", "queue"}

ThreadInv(p) ==
  /\ pc \in [Players -> Playing \cup Silent \cup {"idle", "open", "test", "setup", "stop", "stop_load"}]
  /\ initflag \in {0, 1} /\ pmdbuff \in [{0, 1} -> Files] /\ file \in [Players -> Files]
  /\ initflag = 0 => queue = <<>>
  /\ pc[p] = "setup" => initflag = 0
  /\ pc[p] \in Playing => initflag = 1
  /\ pc[p] \in Silent => queue = <<>>
  /\ pc[p] \in {"queue", "go"} => finish = 1 /\ blkop = 0
  /\ pc[p] = "queue" => blkip = 0
  /\ pc[p] = "go" => blkip = 1 /\ Len(queue) = 1
  /\ pc[p] = "playing" /\ finish = 0 => queue # <<>>
  /\ pmdbuff[0] = IF pc[p] = "read1" THEN file[p] ELSE pmdbuff[1]

\* The only player's invariant holds when nothing has been played yet.
LEMMA ThreadStarts ==
  ASSUME NEW p, Players = {p}
  PROVE  Init => RingInv /\ ThreadInv(p)
BY RingStarts DEF Init, ThreadInv, RingInit, Playing, Silent

\* Steps of the thread that do not touch the ring.
LEMMA ThreadAlone ==
    ASSUME NEW p, Players = {p}, RingInv, ThreadInv(p),
           \/ Call(p) \/ pmdload(p) \/ OpenFile(p) \/ ReadHalf(p) \/ CloseFile(p)
           \/ TestInit(p) \/ LockPlay(p) \/ UnlockPlay(p)
    PROVE  RingInv' /\ ThreadInv(p)'
<1>1. UNCHANGED <<driver, stream, initflag>>
  BY DEF Call, pmdload, OpenFile, ReadHalf, CloseFile, TestInit, LockPlay, UnlockPlay
<1>2. RingInv' BY <1>1, RestKeeps DEF driver, stream
<1> SUFFICES ThreadInv(p)' BY <1>2
<1> USE <1>1 DEF ThreadInv, Runs, driver, stream, Playing, Silent
<1>3. CASE Call(p) BY <1>3 DEF Call
<1>4. CASE pmdload(p) BY <1>4 DEF pmdload
<1>5. CASE OpenFile(p) BY <1>5 DEF OpenFile, locals
<1>6. CASE ReadHalf(p)
  <2>1. CASE Runs(p, "read0", "read1", owner) /\ pmdbuff' = [pmdbuff EXCEPT ![0] = file[p]]
    BY <1>6, <2>1 DEF ReadHalf, locals
  <2>2. CASE Runs(p, "read1", "close", owner) /\ pmdbuff' = [pmdbuff EXCEPT ![1] = file[p]]
    BY <1>6, <2>2 DEF ReadHalf, locals
  <2> QED BY <1>6, <2>1, <2>2 DEF ReadHalf
<1>7. CASE CloseFile(p) BY <1>7 DEF CloseFile, locals
<1>8. CASE TestInit(p) BY <1>8 DEF TestInit, locals
<1>9. CASE LockPlay(p) BY <1>9 DEF LockPlay, locals
<1>10. CASE UnlockPlay(p) BY <1>10 DEF UnlockPlay, locals
<1> QED BY <1>3, <1>4, <1>5, <1>6, <1>7, <1>8, <1>9, <1>10

\* And every step, the player's or the driver's, keeps it.
LEMMA ThreadKeeps ==
    ASSUME NEW p, Players = {p}, RingInv, ThreadInv(p), [Next]_vars
    PROVE  RingInv' /\ ThreadInv(p)'
<1>1. CASE UNCHANGED vars
  <2>1. UNCHANGED <<driver, stream, pc, initflag, pmdbuff, file>> BY <1>1 DEF vars, locals
  <2>2. RingInv' BY <2>1, RestKeeps DEF driver, stream
  <2> QED BY <2>1, <2>2 DEF ThreadInv, driver, stream
<1>2. CASE Interrupt
  <2>1. BlockEnds /\ ~Hurried /\ UNCHANGED <<pc, file, initflag, pmdbuff>>
    BY <1>2 DEF Interrupt, locals
  <2>2. RingInv' /\ queue # <<>>
        /\ (finish = 0 => Len(queue') = BLKN - 1)
        /\ (finish # 0 => finish' = 2)
    BY <2>1, BlockEndsKeeps
  <2>3. pc[p] \notin Silent /\ initflag = 1 BY <2>2 DEF ThreadInv
  <2>4. pc[p] # "go" BY <2>1 DEF Hurried, ThreadInv
  <2>5. finish' = 0 => queue' # <<>>
    <3>1. BLKN - 1 # 0 BY RingAssumption
    <3>2. SUFFICES ASSUME finish' = 0, queue' = <<>> PROVE FALSE OBVIOUS
    <3>3. Len(queue') = 0 BY <3>2
    <3>4. Len(queue') = BLKN - 1 BY <2>2, <3>2
    <3> QED BY <3>1, <3>3, <3>4
  <2> QED BY <2>1, <2>2, <2>3, <2>4, <2>5 DEF ThreadInv, Silent
<1>3. CASE pmdstop(p)
  <2>1. RingInv' /\ queue' = <<>> /\ UNCHANGED <<finish, blkip, blkop, file, initflag, pmdbuff>>
    BY <1>3, AbortKeeps DEF pmdstop, driver, locals
  <2>2. PICK from \in DOMAIN Return : pc[p] = from /\ pc' = [pc EXCEPT ![p] = Return[from]]
    BY <1>3 DEF pmdstop, Runs
  <2> QED BY <2>1, <2>2 DEF Return, ThreadInv, Playing, Silent
<1>4. CASE InitMusic(p)
  <2>1. pc[p] = "setup" /\ pc' = [pc EXCEPT ![p] = "stop_play"] /\ init_wk /\ initflag' = 1
        /\ UNCHANGED <<file, pmdbuff>>
    BY <1>4 DEF InitMusic, Runs, locals
  <2>2. queue = <<>> BY <2>1 DEF ThreadInv
  <2>3. RingInv' /\ queue' = <<>> BY <2>1, <2>2, InitKeeps
  <2> QED BY <2>1, <2>3 DEF ThreadInv, Playing, Silent
<1>5. CASE PlayMusic(p)
  <2>1. UNCHANGED <<file, initflag, pmdbuff>> BY <1>5 DEF PlayMusic, locals
  <2>2. CASE Runs(p, "init", "queue", p) /\ PlayInit
    <3>1. pc[p] = "init" /\ pc' = [pc EXCEPT ![p] = "queue"] /\ queue = <<>>
      BY <2>2 DEF Runs, ThreadInv, Silent
    <3>2. RingInv' /\ finish' = 1 /\ blkip' = 0 /\ blkop' = 0 /\ queue' = <<>>
      BY <2>2, <3>1, InitKeeps
    <3> QED BY <2>1, <3>1, <3>2 DEF ThreadInv, Playing, Silent
  <2>3. CASE Runs(p, "queue", "go", p) /\ PlayQueue
    <3>1. pc[p] = "queue" /\ pc' = [pc EXCEPT ![p] = "go"] /\ queue = <<>>
          /\ finish = 1 /\ blkip = 0 /\ blkop = 0
      BY <2>3 DEF Runs, ThreadInv, Silent
    <3>2. RingInv' /\ finish' = 1 /\ blkip' = 1 /\ blkop' = 0 /\ Len(queue') = 1
      BY <2>3, <3>1, QueueKeeps
    <3> QED BY <2>1, <3>1, <3>2 DEF ThreadInv, Playing, Silent
  <2>4. CASE Runs(p, "go", "playing", p) /\ PlayGo
    <3>1. pc[p] = "go" /\ pc' = [pc EXCEPT ![p] = "playing"]
          /\ Len(queue) = 1 /\ blkip = 1 /\ blkop = 0
      BY <2>4 DEF Runs, ThreadInv
    <3>2. RingInv' /\ finish' = 0 /\ UNCHANGED queue BY <2>4, <3>1, GoKeeps
    <3>3. queue' # <<>> BY <3>1, <3>2
    <3> QED BY <2>1, <3>1, <3>2, <3>3 DEF ThreadInv, Playing, Silent
  <2> QED BY <1>5, <2>2, <2>3, <2>4 DEF PlayMusic
<1>6. CASE \/ Call(p) \/ pmdload(p) \/ OpenFile(p) \/ ReadHalf(p) \/ CloseFile(p)
           \/ TestInit(p) \/ LockPlay(p) \/ UnlockPlay(p)
  BY <1>6, ThreadAlone
<1> QED BY <1>1, <1>2, <1>3, <1>4, <1>5, <1>6 DEF Next, Player

\* The ring is always as it should be while one thread plays music.
THEOREM ThreadInductive ==
  ASSUME NEW CONSTANT p, Players = {p}
  PROVE  Spec => [](RingInv /\ ThreadInv(p))
<1>1. Init => RingInv /\ ThreadInv(p) BY ThreadStarts
<1>2. RingInv /\ ThreadInv(p) /\ [Next]_vars => (RingInv /\ ThreadInv(p))' BY ThreadKeeps
<1> QED BY <1>1, <1>2, PTL DEF Spec

\* pmdload, pmdplay and pmdstop, called in any order by one thread, never let
\* the driver render into a block that is queued, skip one or play one twice.
THEOREM SimpleQueueIntact ==
  ASSUME NEW CONSTANT p, Players = {p}
  PROVE  Spec => []QueueIntact
<1>1. RingInv => QueueIntact BY DEF RingInv
<1> QED BY <1>1, ThreadInductive, PTL

\* pmdload stops the music before it reads over the score that plays.
THEOREM ScoreReadWhole ==
  ASSUME NEW CONSTANT p, Players = {p}
  PROVE  Spec => []DriverReadsWholeScore
<1>1. ThreadInv(p) => DriverReadsWholeScore BY DEF ThreadInv, DriverReadsWholeScore, Silent
<1> QED BY <1>1, ThreadInductive, PTL

-----------------------------------------------------------------------------
(***************************************************************************)
(* The player as the client.  Its ring is the same ring.                   *)
(***************************************************************************)
VARIABLES player, todo, active

F == INSTANCE Fpkplay WITH pc <- player

\* The player's driver is the same driver, action by action.
LEMMA SameRing ==
  /\ F!RingInit => RingInit
  /\ F!BlockEnds => BlockEnds
  /\ F!PlayInit => PlayInit
  /\ F!PlayQueue => PlayQueue
  /\ F!PlayGo => PlayGo
  /\ F!pceWaveAbort => pceWaveAbort
  /\ F!QueueIntact <=> QueueIntact
<1>1. F!Blocks = Blocks /\ F!Numbers = Numbers BY DEF F!Blocks, F!Numbers, Blocks, Numbers
<1>2. F!RingInit => RingInit BY <1>1 DEF F!RingInit, RingInit
<1>3. F!BlockEnds => BlockEnds
  BY DEF F!BlockEnds, F!BuffFreeStopped, F!BuffFreeRefills, F!RefillFrom, F!Used, F!ProcSeq, F!Blocks,
         F!Numbers, BlockEnds, BuffFreeStopped, BuffFreeRefills, RefillFrom, Used, ProcSeq, Blocks, Numbers
<1>4. F!PlayInit => PlayInit
  BY DEF F!PlayInit, PlayInit, F!Blocks, Blocks, F!stream, stream
<1>5. F!PlayQueue => PlayQueue
  BY DEF F!PlayQueue, PlayQueue, F!Numbers, Numbers
<1>6. F!PlayGo => PlayGo BY DEF F!PlayGo, PlayGo, F!stream, stream
<1>7. F!pceWaveAbort => pceWaveAbort
  BY DEF F!pceWaveAbort, pceWaveAbort, F!driver, driver, F!Numbers, Numbers
<1>8. F!QueueIntact <=> QueueIntact BY DEF F!QueueIntact, QueueIntact, F!Numbers, Numbers
<1> QED BY <1>2, <1>3, <1>4, <1>5, <1>6, <1>7, <1>8

PlayerInv ==
  /\ RingInv
  /\ player \in {"file", "init", "queue"} => queue = <<>>
  /\ player \in {"queue", "go"} => finish = 1 /\ blkop = 0
  /\ player = "queue" => blkip = 0
  /\ player = "go" => blkip = 1 /\ Len(queue) = 1
  /\ player = "drain" => finish # 0
  /\ todo \in {"again", "file", "idle", "exit"}

\* The music player's invariant holds at the start.
LEMMA PlayerStarts == F!Init => PlayerInv
BY RingStarts, SameRing DEF F!Init, PlayerInv, RingInit

\* And every step of it keeps it.
LEMMA PlayerKeeps ==
    ASSUME PlayerInv, [F!Next]_(F!vars)
    PROVE  PlayerInv'
<1> USE DEF PlayerInv
<1>u. ASSUME UNCHANGED <<finish, blkip, blkop, runf, waveinfo, wavebuff, queue, made, heard>>
      PROVE  RingInv'
  BY <1>u, RestKeeps
<1>1. CASE UNCHANGED F!vars
  BY <1>1, <1>u DEF F!vars, F!driver, F!stream
<1>2. CASE F!StopTest
  BY <1>2, <1>u DEF F!StopTest, F!Goto, F!driver, F!stream
<1>3. CASE F!StopSet
  <2>1. finish' = 1 /\ UNCHANGED <<blkip, blkop, runf, waveinfo, wavebuff, queue, made, heard>>
        /\ player' = "drain" /\ UNCHANGED todo
    BY <1>3 DEF F!StopSet, F!Goto, F!stream
  <2>2. RingInv' BY <2>1, RestKeeps
  <2> QED BY <2>1, <2>2
<1>4. CASE F!Drain
  <2>1. UNCHANGED <<finish, blkip, blkop, runf, waveinfo, wavebuff, queue, made, heard, todo>>
        /\ player = "drain" /\ player' \in {"drain", "abort"}
    BY <1>4 DEF F!Drain, F!Goto, F!driver, F!stream
  <2> QED BY <2>1, <1>u
<1>5. CASE F!Abort
  <2>1. pceWaveAbort /\ player' = (IF todo = "again" THEN "stop" ELSE todo)
        /\ todo' = (IF todo = "again" THEN "file" ELSE "idle")
    BY <1>5, SameRing DEF F!Abort
  <2>2. RingInv' /\ queue' = <<>> BY <2>1, AbortKeeps
  <2> QED BY <2>1, <2>2
<1>6. CASE F!FileKind
  BY <1>6, <1>u DEF F!FileKind, F!Goto, F!driver, F!stream
<1>7. CASE F!PlayMusic
  <2>1. CASE player = "init" /\ F!PlayInit /\ F!Goto("queue")
    <3>1. RingInv' /\ finish' = 1 /\ blkip' = 0 /\ blkop' = 0 /\ queue' = <<>>
      BY <2>1, SameRing, InitKeeps
    <3> QED BY <2>1, <3>1 DEF F!Goto
  <2>2. CASE player = "queue" /\ F!PlayQueue /\ F!Goto("go")
    <3>1. RingInv' /\ finish' = 1 /\ blkip' = 1 /\ blkop' = 0 /\ Len(queue') = 1
      BY <2>2, SameRing, QueueKeeps
    <3> QED BY <2>2, <3>1 DEF F!Goto
  <2>3. CASE player = "go" /\ F!PlayGo /\ F!Goto("idle")
    <3>1. RingInv' BY <2>3, SameRing, GoKeeps
    <3> QED BY <2>3, <3>1 DEF F!Goto
  <2> QED BY <1>7, <2>1, <2>2, <2>3 DEF F!PlayMusic
<1>8. CASE F!Key \/ F!pceAppExit \/ F!ActiveResponse
  BY <1>8, <1>u DEF F!Key, F!pceAppExit, F!ActiveResponse, F!driver, F!stream
<1>9. CASE F!Interrupt
  <2>1. BlockEnds /\ ~F!Hurried /\ UNCHANGED <<player, todo>>
    BY <1>9, SameRing DEF F!Interrupt
  <2>2. RingInv' /\ queue # <<>> /\ (finish # 0 => finish' = 2)
    BY <2>1, BlockEndsKeeps
  <2>3. player # "go" BY <2>1 DEF F!Hurried
  <2> QED BY <2>1, <2>2, <2>3
<1> QED BY <1>1, <1>2, <1>3, <1>4, <1>5, <1>6, <1>7, <1>8, <1>9 DEF F!Next, F!MainStep

\* The keys of the player, pressed at any moment, never let the driver render
\* into a block that is queued, skip one or play one twice.
THEOREM PlayerQueueIntact == F!Spec => []QueueIntact
<1>1. F!Init => PlayerInv BY PlayerStarts
<1>2. PlayerInv /\ [F!Next]_(F!vars) => PlayerInv' BY PlayerKeeps
<1>3. PlayerInv => QueueIntact BY DEF PlayerInv, RingInv
<1> QED BY <1>1, <1>2, <1>3, PTL DEF F!Spec

\* While musStopImmediately waits, each block that ends leaves one block less:
\* the safety half of why its busy loop ends (StopReturns).
THEOREM DrainShrinks ==
  F!Spec => [][player = "drain" /\ F!Interrupt => Len(queue') = Len(queue) - 1]_(F!vars)
<1>1. F!Init => PlayerInv BY PlayerStarts
<1>2. PlayerInv /\ [F!Next]_(F!vars) => PlayerInv' BY PlayerKeeps
<1>3. PlayerInv => [player = "drain" /\ F!Interrupt => Len(queue') = Len(queue) - 1]_(F!vars)
  BY SameRing, BlockEndsKeeps DEF PlayerInv, F!Interrupt
<1> QED BY <1>1, <1>2, <1>3, PTL DEF F!Spec
=============================================================================
