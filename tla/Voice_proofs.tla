----------------------------- MODULE Voice_proofs -----------------------------
(***************************************************************************)
(* Proofs about the tone generator, for every set of instruments that      *)
(* keeps to VoiceAssumption, every block length and every command: waves   *)
(* are read inside their tables, a released voice ends, and the assembler  *)
(* that is linked mixes what the C it stands for does.                     *)
(***************************************************************************)
EXTENDS Voice, LoopLemmas

-----------------------------------------------------------------------------
(***************************************************************************)
(* C's integers.                                                           *)
(***************************************************************************)
\* Conversions to short and unsigned short give values of those types.
LEMMA Widths ==
  ASSUME NEW n \in Int
  PROVE  /\ Short(n) \in Int /\ -32768 <= Short(n) /\ Short(n) <= 32767
         /\ UShort(n) \in Nat /\ UShort(n) <= 65535
  BY DEF Short, UShort

\* A short is its own conversion.
LEMMA ShortOfShort ==
  ASSUME NEW n \in Int, -32768 <= n, n <= 32767
  PROVE  Short(n) = n
  BY DEF Short

\* The powers that gexp divides by are positive.
LEMMA Powers == \A s \in 0 .. 16 : 2 ^ s \in Nat /\ 2 ^ s > 0
<1> DEFINE P(n) == 2 ^ n
<1>1. \A s \in 0 .. 16 : s \in {0, 1, 2, 3, 4, 5, 6, 7, 8, 9, 10, 11, 12, 13, 14, 15, 16}
  OBVIOUS
<1>2. /\ P(0) = 1 /\ P(1) = 2 /\ P(2) = 4 /\ P(3) = 8 /\ P(4) = 16 /\ P(5) = 32 /\ P(6) = 64
      /\ P(7) = 128 /\ P(8) = 256 /\ P(9) = 512 /\ P(10) = 1024 /\ P(11) = 2048
      /\ P(12) = 4096 /\ P(13) = 8192 /\ P(14) = 16384 /\ P(15) = 32768 /\ P(16) = 65536
  OBVIOUS
<1>3. \A s \in 0 .. 16 : P(s) \in Nat /\ P(s) > 0
  <2> HIDE DEF P
  <2> QED
    BY <1>1, <1>2
<1> QED
  BY <1>3

\* A product of naturals is a natural, and it grows with its factors.
LEMMA Products ==
  ASSUME NEW x \in Nat, NEW y \in Nat, NEW top \in Nat, x <= top
  PROVE  x * y \in Nat /\ x * y <= top * y
<1>1. (top - x) * y \in Nat /\ x * y \in Nat /\ top * y \in Nat
  OBVIOUS
<1>2. (top - x) * y = top * y - x * y
  OBVIOUS
<1> QED
  BY <1>1, <1>2

\* A quotient of naturals is a natural and not above the dividend.
LEMMA Quotients ==
  ASSUME NEW x \in Nat, NEW d \in Nat, d > 0
  PROVE  x \div d \in Nat /\ x \div d <= x
  OBVIOUS

\* The exponential is a step of 16 bits at most.
LEMMA ExpBounded ==
  ASSUME NEW n \in Int
  PROVE  gexp(n) \in Nat /\ gexp(n) <= 65535
<1> DEFINE a == IF n < 0 THEN 0 ELSE n \div 256
<1> DEFINE b == Semitone(a) + 1
<1> DEFINE r == n % 256
<1> DEFINE top == expt[b] + ((expb[b] * r) \div 256)
<1>1. a \in Nat /\ b \in 1 .. 12 /\ r \in Nat /\ r <= 255
  BY DEF Semitone
<1>2. 2 ^ Shift(a) \in Nat /\ 2 ^ Shift(a) > 0
  <2>1. Shift(a) \in 0 .. 16
    BY <1>1 DEF Shift
  <2> QED
    BY <2>1, Powers
<1>3. /\ expt[b] \in Nat /\ expt[b] <= 61858
      /\ expb[b] \in Nat /\ expb[b] <= 3678
  <2> HIDE DEF b
  <2>1. b \in {1, 2, 3, 4, 5, 6, 7, 8, 9, 10, 11, 12}
    BY <1>1
  <2> QED
    BY <2>1 DEF expt, expb
<1>4. top \in Nat /\ top <= 65535
  <2> DEFINE x == expb[b]
  <2> HIDE DEF x, b, r, a
  <2>1. x * r \in Nat /\ x * r <= 3678 * r
    BY <1>1, <1>3, Products DEF x
  <2>2. (x * r) \div 256 \in Nat /\ (x * r) \div 256 <= 3677
    BY <1>1, <2>1
  <2> QED
    BY <1>3, <2>2 DEF x
<1>5. top \div (2 ^ Shift(a)) \in Nat /\ top \div (2 ^ Shift(a)) <= 65535
  <2> DEFINE d == 2 ^ Shift(a)
  <2> HIDE DEF top, d, a
  <2>1. top \div d \in Nat /\ top \div d <= top
    BY <1>2, <1>4, Quotients DEF d
  <2> QED
    BY <1>4, <2>1 DEF d
<1>6. gexp(n) = IF a > 255 THEN 0 ELSE top \div (2 ^ Shift(a))
  BY DEF gexp
<1> HIDE DEF top, a
<1> QED
  BY <1>5, <1>6

-----------------------------------------------------------------------------
(***************************************************************************)
(* The C and the assembler routines.                                       *)
(***************************************************************************)
\* What a voice reads from its table is a sample.
LEMMA Reading ==
  ASSUME NEW v \in Voices, NEW o
  PROVE  At(v, o) \in Int /\ -128 <= At(v, o) /\ At(v, o) <= 127
<1>1. v.pData \in Seq(SChars)
  BY DEF Voices
<1>2. At(v, o) = 0 \/ At(v, o) \in SChars
  <2>1. \A k \in DOMAIN v.pData : v.pData[k] \in SChars
    BY <1>1
  <2> QED
    BY <2>1 DEF At
<1> QED
  BY <1>2 DEF SChars

\* The product of two shorts in the multiplier's lower halves is their product.
LEMMA ShortProduct ==
  ASSUME NEW a \in Int, -32768 <= a, a <= 32767, NEW b \in Int, -32768 <= b, b <= 32767
  PROVE  mlt_h(a, b) = a * b /\ a * b \in Int
<1>1. Short(a) = a /\ Short(b) = b
  BY ShortOfShort
<1> QED
  BY <1>1 DEF mlt_h

\* The step from one sample to the next, scaled by the phase between them, is no
\* longer than the step.
LEMMA StepScaled ==
  ASSUME NEW d \in Int, -255 <= d, d <= 255, NEW f \in Nat, f < 16384
  PROVE  /\ (d * f) \div 16384 \in Int
         /\ -255 <= (d * f) \div 16384 /\ (d * f) \div 16384 <= 255
<1>1. CASE d >= 0
  <2>1. d \in Nat /\ 255 \in Nat
    BY <1>1
  <2>2. d * f \in Nat /\ d * f <= 255 * f
    BY <2>1, Products
  <2> QED
    BY <2>2
<1>2. CASE d < 0
  <2>1. -d \in Nat /\ 255 \in Nat /\ -d <= 255
    BY <1>2
  <2>2. (-d) * f \in Nat /\ (-d) * f <= 255 * f
    BY <2>1, Products
  <2>3. d * f = -((-d) * f) /\ d * f \in Int
    BY <2>1
  <2>4. d * f <= 0 /\ -(255 * 16384) <= d * f
    BY <2>2, <2>3
  <2> QED
    BY <2>3, <2>4
<1> QED
  BY <1>1, <1>2

\* A tone's or a table's sample is the same number in both (mus.c:58-141,
\* musfast_llvm.s:139-248), as long as the volume is a short.
LEMMA SampleSame ==
  ASSUME NEW v \in Voices, NEW cc \in Nat, NEW vv \in Nat, vv <= 32767
  PROVE  SampleFast(v, cc, vv) = Sample(v, cc, vv) /\ Sample(v, cc, vv) \in Int
<1> DEFINE half == vv \div 2
<1> DEFINE s == Short(cc)
<1>1. /\ half \in Nat /\ half <= 32767 /\ s \in Int /\ -32768 <= s /\ s <= 32767
      /\ Short(vv) = vv /\ Short(half) = half
  <2>1. half \in Nat /\ half <= 32767
    OBVIOUS
  <2> HIDE DEF half
  <2> QED
    BY <2>1, Widths, ShortOfShort
<1>2. v.genwave \in WaveKinds
  BY DEF Voices
<1>3. CASE v.genwave = "SQR"
  <2>1. s < 0 <=> (cc \div 32768) % 2 = 1
    BY DEF Short
  <2>2. /\ SampleFast(v, cc, vv) = IF s < 0 THEN half ELSE -half
        /\ Sample(v, cc, vv) = IF (cc \div 32768) % 2 = 1 THEN half ELSE -half
    BY <1>3 DEF SampleFast, Sample, Tabled
  <2> HIDE DEF half, s
  <2> QED
    BY <1>1, <2>1, <2>2
<1>4. CASE v.genwave = "SAW"
  <2>1. /\ SampleFast(v, cc, vv) = mlt_h(cc, vv) \div 65536
        /\ Sample(v, cc, vv) = (s * vv) \div 65536
    BY <1>4 DEF SampleFast, Sample, Tabled
  <2>2. mlt_h(cc, vv) = s * vv
    BY <1>1 DEF mlt_h
  <2> HIDE DEF s
  <2> QED
    BY <1>1, <2>1, <2>2
<1>5. CASE v.genwave = "TRI"
  <2> DEFINE up == mlt_h(cc, half)
  <2>1. /\ SampleFast(v, cc, vv) = ((IF s < 0 THEN -up ELSE up) - half * 16384) \div 16384
        /\ Sample(v, cc, vv) = (Abs(s * half) - half * 16384) \div 16384
    BY <1>5 DEF SampleFast, Sample, Tabled
  <2>2. up = s * half
    BY <1>1 DEF mlt_h
  <2> HIDE DEF s, half, up
  <2>3. s * half \in Int
    BY <1>1
  <2>4. Abs(s * half) = IF s < 0 THEN -(s * half) ELSE s * half
    <3>1. s >= 0 => s * half >= 0
      BY <1>1
    <3>2. s < 0 => s * half <= 0
      BY <1>1
    <3> QED
      BY <1>1, <2>3, <3>1, <3>2 DEF Abs
  <2>5. (Abs(s * half) - half * 16384) \div 16384 \in Int
    BY <1>1, <2>3, <2>4
  <2> QED
    BY <2>1, <2>2, <2>4, <2>5
<1>6. CASE Tabled(v)
  <2> DEFINE d1 == At(v, cc \div 16384)
  <2> DEFINE d == At(v, cc \div 16384 + 1) - d1
  <2> DEFINE f == cc % 16384
  <2> DEFINE e == (d * f) \div 16384
  <2>1. d1 \in Int /\ -128 <= d1 /\ d1 <= 127 /\ d \in Int /\ -255 <= d /\ d <= 255
    BY Reading
  <2>2. f \in Nat /\ f < 16384
    OBVIOUS
  <2>3. v.genwave # "SQR" /\ v.genwave # "SAW" /\ v.genwave # "TRI"
    BY <1>6 DEF Tabled
  <2>4. /\ SampleFast(v, cc, vv) = mlt_h(d1 + mlt_h(d, f) \div 16384, vv) \div 256
        /\ Sample(v, cc, vv) = ((d1 + e) * vv) \div 256
    BY <1>6, <2>3 DEF SampleFast, Sample
  <2> HIDE DEF d1, d, f
  <2>5. mlt_h(d, f) = d * f
    BY <2>1, <2>2, ShortProduct
  <2>6. e \in Int /\ -255 <= e /\ e <= 255
    BY <2>1, <2>2, StepScaled
  <2>7. d1 + e \in Int /\ -32768 <= d1 + e /\ d1 + e <= 32767
    BY <2>1, <2>6
  <2>8. mlt_h(d1 + e, vv) = (d1 + e) * vv /\ (d1 + e) * vv \in Int
    BY <2>7, ShortProduct
  <2> HIDE DEF e
  <2>9. ((d1 + e) * vv) \div 256 \in Int
    BY <2>8
  <2> QED
    BY <2>4, <2>5, <2>8, <2>9 DEF e
<1> QED
  BY <1>2, <1>3, <1>4, <1>5, <1>6 DEF WaveKinds, Tabled

\* A sample is a number whatever the volume.
LEMMA SampleIsInt ==
  ASSUME NEW v \in Voices, NEW cc \in Nat, NEW vv \in Nat
  PROVE  SampleFast(v, cc, vv) \in Int
<1> DEFINE half == vv \div 2
<1> DEFINE up == mlt_h(cc, half)
<1> DEFINE d1 == At(v, cc \div 16384)
<1> DEFINE d2 == mlt_h(At(v, cc \div 16384 + 1) - d1, cc % 16384) \div 16384
<1>1. \A a, b \in Int : mlt_h(a, b) \in Int
  <2> SUFFICES ASSUME NEW a \in Int, NEW b \in Int PROVE mlt_h(a, b) \in Int
    OBVIOUS
  <2>1. Short(a) \in Int /\ Short(b) \in Int
    BY Widths
  <2> QED
    BY <2>1 DEF mlt_h
<1>2. half \in Int /\ Short(cc) \in Int
  BY Widths
<1>3. up \in Int
  BY <1>1, <1>2
<1>4. d1 \in Int /\ At(v, cc \div 16384 + 1) \in Int
  BY Reading
<1>5. d2 \in Int
  <2> DEFINE d == At(v, cc \div 16384 + 1) - d1
  <2>1. d \in Int /\ cc % 16384 \in Int
    BY <1>4
  <2> HIDE DEF d
  <2>2. mlt_h(d, cc % 16384) \in Int
    BY <1>1, <2>1
  <2>3. mlt_h(d, cc % 16384) \div 16384 \in Int
    BY <2>2
  <2> QED
    BY <2>3 DEF d
<1>6. v.genwave \in WaveKinds
  BY DEF Voices
<1> HIDE DEF half, up, d1, d2
<1>7. CASE v.genwave = "SQR"
  <2>1. SampleFast(v, cc, vv) = IF Short(cc) < 0 THEN half ELSE -half
    BY <1>7 DEF SampleFast, Tabled, half
  <2> QED
    BY <1>2, <2>1
<1>8. CASE v.genwave = "SAW"
  <2>1. SampleFast(v, cc, vv) = mlt_h(cc, vv) \div 65536
    BY <1>8 DEF SampleFast, Tabled
  <2>2. mlt_h(cc, vv) \in Int
    BY <1>1
  <2> QED
    BY <2>1, <2>2
<1>9. CASE v.genwave = "TRI"
  <2>1. SampleFast(v, cc, vv) = ((IF Short(cc) < 0 THEN -up ELSE up) - half * 16384) \div 16384
    BY <1>9 DEF SampleFast, Tabled, half, up
  <2> QED
    BY <1>2, <1>3, <2>1
<1>10. CASE Tabled(v)
  <2>1. v.genwave # "SQR" /\ v.genwave # "SAW" /\ v.genwave # "TRI"
    BY <1>10 DEF Tabled
  <2>2. SampleFast(v, cc, vv) = mlt_h(d1 + d2, vv) \div 256
    BY <1>10, <2>1 DEF SampleFast, d1, d2
  <2>3. mlt_h(d1 + d2, vv) \in Int
    BY <1>1, <1>4, <1>5
  <2> QED
    BY <2>2, <2>3
<1> QED
  BY <1>6, <1>7, <1>8, <1>9, <1>10 DEF WaveKinds, Tabled

-----------------------------------------------------------------------------
(***************************************************************************)
(* A block, turn by turn.                                                  *)
(***************************************************************************)
Turns == [cc : Nat, p : [1 .. BLKS -> Int], ended : BOOLEAN, past : BOOLEAN]

\* The phase lies in the wave, and nothing was read behind it.
Inside(v, b) == (Tabled(v) => b.cc < v.loop_end) /\ ~b.past

\* Where the phase goes: on, or back to the start of the loop.
LEMMA AheadInside ==
  ASSUME NEW v \in Voices, LoopFits(v), v.freq <= 65535,
         NEW cc \in Nat, Tabled(v) => cc < v.loop_end, ~Ends(v, cc)
  PROVE  /\ Ahead(v, cc) \in Nat
         /\ Tabled(v) => Ahead(v, cc) < v.loop_end
<1>1. v.freq \in Nat /\ v.loop_end \in Nat /\ v.loop_w \in Int /\ v.genwave \in WaveKinds
  BY DEF Voices
<1>2. CASE v.genwave = "LP"
  <2>1. 65536 <= v.loop_w /\ v.loop_w <= v.loop_end /\ cc < v.loop_end
    BY <1>2 DEF LoopFits, Tabled
  <2>2. Ahead(v, cc) = IF cc + v.freq >= v.loop_end THEN cc + v.freq - v.loop_w ELSE cc + v.freq
    BY <1>2 DEF Ahead
  <2> QED
    BY <1>1, <2>1, <2>2
<1>3. CASE v.genwave # "LP"
  <2>1. Ahead(v, cc) = cc + v.freq
    BY <1>3 DEF Ahead
  <2>2. Tabled(v) => ~(cc + v.freq >= v.loop_end)
    BY <1>3 DEF Tabled, Ends
  <2> QED
    BY <1>1, <2>1, <2>2
<1> QED
  BY <1>2, <1>3

\* The last sample a turn needs is not behind the end of the table.
LEMMA NotPast ==
  ASSUME NEW v \in Voices, LoopFits(v), Tabled(v), NEW cc \in Nat, cc < v.loop_end
  PROVE  ~(cc \div 16384 + 1 > v.loop_end \div 16384)
<1>1. v.loop_end \in Nat /\ v.loop_end % 16384 = 0
  BY DEF Voices, LoopFits
<1> QED
  BY <1>1

\* A turn keeps the block's type and stays inside the wave ...
LEMMA TurnInside ==
  ASSUME NEW v \in Voices, LoopFits(v), v.freq <= 65535, NEW vv \in Nat,
         NEW b \in Turns, Inside(v, b), NEW i \in 1 .. BLKS
  PROVE  Turn("asm", v, vv, b, i) \in Turns /\ Inside(v, Turn("asm", v, vv, b, i))
<1> DEFINE N == 1 .. BLKS
<1>1. /\ b.cc \in Nat /\ b.p \in [N -> Int] /\ b.ended \in BOOLEAN /\ b.past = FALSE
      /\ b = [cc |-> b.cc, p |-> b.p, ended |-> b.ended, past |-> b.past]
      /\ i \in N
      /\ Turns = [cc : Nat, p : [N -> Int], ended : BOOLEAN, past : BOOLEAN]
  BY DEF Turns, Inside
<1> HIDE DEF N
<1>2. Tabled(v) => b.cc < v.loop_end
  BY DEF Inside
<1> DEFINE past == b.past \/ (Tabled(v) /\ b.cc \div 16384 + 1 > v.loop_end \div 16384)
<1> DEFINE t == Turn("asm", v, vv, b, i)
<1> SUFFICES t \in Turns /\ Inside(v, t)
  OBVIOUS
<1> DEFINE cc == Ahead(v, b.cc)
<1> DEFINE q == [b.p EXCEPT ![i] = UShort(@ + SampleFast(v, b.cc, vv))]
<1>3. t =
        IF b.ended THEN b
        ELSE IF Ends(v, b.cc) THEN [cc |-> b.cc, p |-> b.p, ended |-> TRUE, past |-> past]
        ELSE [cc |-> cc, p |-> q, ended |-> FALSE, past |-> past]
  BY DEF Turn
<1>4. ~past /\ past \in BOOLEAN
  BY <1>1, <1>2, NotPast
<1> HIDE DEF past, cc, q, t
<1>5. ASSUME b.ended PROVE t \in Turns /\ Inside(v, t)
  BY <1>3, <1>5
<1>6. ASSUME ~b.ended, Ends(v, b.cc) PROVE t \in Turns /\ Inside(v, t)
  <2> DEFINE e == TRUE
  <2>1. t = [cc |-> b.cc, p |-> b.p, ended |-> e, past |-> past]
    BY <1>3, <1>6
  <2>e. e \in BOOLEAN
    OBVIOUS
  <2> HIDE DEF e
  <2>2. t \in Turns
    BY <1>1, <1>4, <2>1, <2>e
  <2>3. t.cc = b.cc /\ t.past = past
    BY <2>1
  <2> QED
    BY <1>2, <1>4, <2>2, <2>3 DEF Inside
<1>7. ASSUME ~b.ended, ~Ends(v, b.cc) PROVE t \in Turns /\ Inside(v, t)
  <2>1. cc \in Nat /\ (Tabled(v) => cc < v.loop_end)
    BY <1>1, <1>2, <1>7, AheadInside DEF cc
  <2>2. q \in [N -> Int]
    <3>1. b.p[i] \in Int
      BY <1>1
    <3>2. SampleFast(v, b.cc, vv) \in Int
      BY <1>1, SampleIsInt
    <3>3. b.p[i] + SampleFast(v, b.cc, vv) \in Int
      BY <3>1, <3>2
    <3>4. UShort(b.p[i] + SampleFast(v, b.cc, vv)) \in Int
      BY <3>3, Widths
    <3> QED
      BY <1>1, <3>4 DEF q
  <2> DEFINE e == FALSE
  <2>3. t = [cc |-> cc, p |-> q, ended |-> e, past |-> past]
    BY <1>3, <1>7
  <2>e. e \in BOOLEAN
    OBVIOUS
  <2> HIDE DEF e
  <2>4. t \in Turns
    BY <1>1, <1>4, <2>1, <2>2, <2>3, <2>e
  <2>5. t.cc = cc /\ t.past = past
    BY <2>3
  <2> QED
    BY <1>4, <2>1, <2>4, <2>5 DEF Inside
<1> QED
  BY <1>5, <1>6, <1>7

\* ... and the C's turn is the assembler's.
LEMMA TurnSame ==
  ASSUME NEW v \in Voices, NEW vv \in Nat, vv <= 32767, NEW b \in Turns, NEW i \in 1 .. BLKS
  PROVE  Turn("asm", v, vv, b, i) = Turn("c", v, vv, b, i)
<1>1. b.cc \in Nat
  BY DEF Turns
<1>2. SampleFast(v, b.cc, vv) = Sample(v, b.cc, vv)
  BY <1>1, SampleSame
<1> QED
  BY <1>2 DEF Turn

\* f is what Mix calls after, for a block that starts as b, up to turn n.
IsChain(f, code, v, vv, b, n) ==
  f = [i \in 0 .. n |-> IF i = 0 THEN b ELSE Turn(code, v, vv, f[i - 1], i)]

\* The turns of a block exist as Mix numbers them.
LEMMA TurnsExist ==
  ASSUME NEW code, NEW v, NEW vv, NEW b, NEW n \in Nat
  PROVE  \E f : IsChain(f, code, v, vv, b, n)
<1> DEFINE Chain(f, k) == f = [i \in 0 .. k |-> IF i = 0 THEN b ELSE Turn(code, v, vv, f[i - 1], i)]
<1> DEFINE S == {k \in Nat : \E f : Chain(f, k)}
<1>1. 0 \in S
  <2> DEFINE f == [i \in 0 .. 0 |-> b]
  <2>1. Chain(f, 0)
    <3>1. \A i \in 0 .. 0 : i = 0
      OBVIOUS
    <3> QED
      BY <3>1
  <2> HIDE DEF Chain
  <2> QED
    BY <2>1
<1>2. ASSUME NEW k \in Nat, k \in S PROVE k + 1 \in S
  <2>1. PICK f : Chain(f, k)
    BY <1>2
  <2> DEFINE g == [i \in 0 .. k + 1 |-> IF i = k + 1 THEN Turn(code, v, vv, f[k], k + 1) ELSE f[i]]
  <2>2. \A i \in 0 .. k + 1 : i # 0 => g[i - 1] = f[i - 1]
    OBVIOUS
  <2>3. \A i \in 0 .. k : f[i] = IF i = 0 THEN b ELSE Turn(code, v, vv, f[i - 1], i)
    BY <2>1
  <2>4. \A i \in 0 .. k + 1 : g[i] = IF i = 0 THEN b ELSE Turn(code, v, vv, g[i - 1], i)
    <3> SUFFICES ASSUME NEW i \in 0 .. k + 1
                 PROVE  g[i] = IF i = 0 THEN b ELSE Turn(code, v, vv, g[i - 1], i)
      OBVIOUS
    <3>1. CASE i = k + 1
      <4>1. g[i] = Turn(code, v, vv, f[k], k + 1) /\ i # 0 /\ g[i - 1] = f[k]
        BY <3>1, <2>2
      <4> HIDE DEF g
      <4> QED
        BY <3>1, <4>1
    <3>2. CASE i # k + 1
      <4>1. i \in 0 .. k /\ g[i] = f[i]
        BY <3>2
      <4>2. i # 0 => g[i - 1] = f[i - 1]
        BY <2>2
      <4> HIDE DEF g
      <4> QED
        BY <2>3, <4>1, <4>2
    <3> QED
      BY <3>1, <3>2
  <2>5. g = [i \in 0 .. k + 1 |-> g[i]]
    OBVIOUS
  <2>6. Chain(g, k + 1)
    <3> HIDE DEF g
    <3> QED
      BY <2>4, <2>5
  <2> HIDE DEF Chain
  <2> QED
    BY <2>6
<1>3. n \in S
  <2> HIDE DEF S
  <2> QED
    BY <1>1, <1>2, SetInduction
<1> QED
  BY <1>3 DEF IsChain

\* A block is where the turns have come to after BLKS of them.
LEMMA MixTurns ==
  ASSUME NEW code, NEW v, NEW vv, NEW p
  PROVE  \E f : /\ f[0] = [cc |-> v.freqwk, p |-> p, ended |-> FALSE, past |-> FALSE]
                /\ \A i \in 1 .. BLKS : f[i] = Turn(code, v, vv, f[i - 1], i)
                /\ Mix(code, v, p, vv) = f[BLKS]
<1> DEFINE b == [cc |-> v.freqwk, p |-> p, ended |-> FALSE, past |-> FALSE]
<1> DEFINE Chain(f) == f = [i \in 0 .. BLKS |-> IF i = 0 THEN b ELSE Turn(code, v, vv, f[i - 1], i)]
<1> DEFINE after == CHOOSE f : Chain(f)
<1>0. BLKS \in Nat
  BY VoiceAssumption
<1>1. Mix(code, v, p, vv) = after[BLKS]
  BY DEF Mix
<1>2. \E f : Chain(f)
  <2> HIDE DEF b
  <2>1. \E f : IsChain(f, code, v, vv, b, BLKS)
    BY <1>0, TurnsExist
  <2> QED
    BY <2>1 DEF IsChain
<1>3. Chain(after)
  <2> HIDE DEF Chain
  <2> QED
    BY <1>2
<1> HIDE DEF after, b
<1>4. after[0] = b
  BY <1>0, <1>3
<1>5. \A i \in 1 .. BLKS : after[i] = Turn(code, v, vv, after[i - 1], i)
  BY <1>0, <1>3
<1> QED
  BY <1>1, <1>4, <1>5 DEF b

\* A voice that may be rendered: its wave fits and its phase lies in it.
InWave(v) ==
  v \in Voices /\ LoopFits(v) /\ v.freq <= 65535 /\ (Tabled(v) => v.freqwk < v.loop_end)

\* A block stays inside the wave, and the C mixes what the assembler does.
LEMMA Mixed ==
  ASSUME NEW v, InWave(v), NEW vv \in Nat
  PROVE  /\ Mix("asm", v, EmptyBlock, vv) \in Turns
         /\ Inside(v, Mix("asm", v, EmptyBlock, vv))
         /\ vv <= 32767 => Mix("asm", v, EmptyBlock, vv) = Mix("c", v, EmptyBlock, vv)
<1> DEFINE b == [cc |-> v.freqwk, p |-> EmptyBlock, ended |-> FALSE, past |-> FALSE]
<1>0. BLKS \in Nat \ {0}
  BY VoiceAssumption
<1>1. v \in Voices /\ LoopFits(v) /\ v.freq <= 65535 /\ v.freqwk \in Nat
  BY DEF InWave, Voices
<1>2. b \in Turns /\ Inside(v, b)
  <2>1. EmptyBlock \in [1 .. BLKS -> Int]
    BY DEF EmptyBlock
  <2>2. b \in Turns
    BY <1>1, <2>1 DEF Turns
  <2>3. b.cc = v.freqwk /\ ~b.past
    OBVIOUS
  <2> HIDE DEF b
  <2> QED
    BY <2>2, <2>3 DEF Inside, InWave
<1>3. PICK a : /\ a[0] = b
               /\ \A i \in 1 .. BLKS : a[i] = Turn("asm", v, vv, a[i - 1], i)
               /\ Mix("asm", v, EmptyBlock, vv) = a[BLKS]
  BY MixTurns
<1>4. PICK c : /\ c[0] = b
               /\ \A i \in 1 .. BLKS : c[i] = Turn("c", v, vv, c[i - 1], i)
               /\ Mix("c", v, EmptyBlock, vv) = c[BLKS]
  BY MixTurns
<1> HIDE DEF b
<1> DEFINE S == {n \in Nat : n <= BLKS => a[n] \in Turns /\ Inside(v, a[n]) /\ (vv <= 32767 => a[n] = c[n])}
<1>5. 0 \in S
  BY <1>2, <1>3, <1>4
<1>6. ASSUME NEW n \in Nat, n \in S PROVE n + 1 \in S
  <2> SUFFICES ASSUME n + 1 <= BLKS
               PROVE  /\ a[n + 1] \in Turns /\ Inside(v, a[n + 1])
                      /\ vv <= 32767 => a[n + 1] = c[n + 1]
    OBVIOUS
  <2>1. n + 1 \in 1 .. BLKS /\ (n + 1) - 1 = n /\ n <= BLKS
    BY <1>0
  <2>2. a[n] \in Turns /\ Inside(v, a[n]) /\ (vv <= 32767 => a[n] = c[n])
    BY <1>6, <2>1
  <2>3. a[n + 1] = Turn("asm", v, vv, a[n], n + 1) /\ c[n + 1] = Turn("c", v, vv, c[n], n + 1)
    BY <1>3, <1>4, <2>1
  <2>4. a[n + 1] \in Turns /\ Inside(v, a[n + 1])
    BY <1>1, <2>1, <2>2, <2>3, TurnInside
  <2>5. vv <= 32767 => a[n + 1] = c[n + 1]
    BY <1>1, <2>1, <2>2, <2>3, TurnSame
  <2> QED
    BY <2>4, <2>5
<1>7. BLKS \in S
  <2> HIDE DEF S
  <2> QED
    BY <1>0, <1>5, <1>6, SetInduction
<1> QED
  BY <1>0, <1>3, <1>4, <1>7

-----------------------------------------------------------------------------
(***************************************************************************)
(* The commands and the generators.                                        *)
(***************************************************************************)
\* A voice with another phase is a voice.
LEMMA NewPhase ==
  ASSUME NEW v \in Voices, NEW x \in Nat
  PROVE  [v EXCEPT !.freqwk = x] \in Voices
  BY DEF Voices

\* A voice with another step is a voice.
LEMMA NewStep ==
  ASSUME NEW v \in Voices, NEW x \in Nat
  PROVE  [v EXCEPT !.freq = x] \in Voices
  BY DEF Voices

\* A voice with another end of its wave is a voice.
LEMMA NewLoopEnd ==
  ASSUME NEW v \in Voices, NEW x \in Nat
  PROVE  [v EXCEPT !.loop_end = x] \in Voices
  BY DEF Voices

\* A voice with another length of its loop is a voice.
LEMMA NewLoopW ==
  ASSUME NEW v \in Voices, NEW x \in Int
  PROVE  [v EXCEPT !.loop_w = x] \in Voices
  BY DEF Voices

\* A voice with another pitch of its instrument is a voice.
LEMMA NewIpitch ==
  ASSUME NEW v \in Voices, NEW x \in Int
  PROVE  [v EXCEPT !.ipitch = x] \in Voices
  BY DEF Voices

\* A voice with another pitch is a voice.
LEMMA NewCpitch ==
  ASSUME NEW v \in Voices, NEW x \in Int
  PROVE  [v EXCEPT !.cpitch = x] \in Voices
  BY DEF Voices

\* A voice with another portamento is a voice.
LEMMA NewPtwk1 ==
  ASSUME NEW v \in Voices, NEW x \in Int
  PROVE  [v EXCEPT !.ptwk1 = x] \in Voices
  BY DEF Voices

\* A voice with another deviation by the vibrato is a voice.
LEMMA NewPtwk2 ==
  ASSUME NEW v \in Voices, NEW x \in Int
  PROVE  [v EXCEPT !.ptwk2 = x] \in Voices
  BY DEF Voices

\* A voice with another envelope level is a voice.
LEMMA NewEnvwk ==
  ASSUME NEW v \in Voices, NEW x \in Int
  PROVE  [v EXCEPT !.envwk = x] \in Voices
  BY DEF Voices

\* A voice with another attack rate is a voice.
LEMMA NewEnvAR ==
  ASSUME NEW v \in Voices, NEW x \in Nat
  PROVE  [v EXCEPT !.envAR = x] \in Voices
  BY DEF Voices

\* A voice with another decay rate is a voice.
LEMMA NewEnvDR ==
  ASSUME NEW v \in Voices, NEW x \in Nat
  PROVE  [v EXCEPT !.envDR = x] \in Voices
  BY DEF Voices

\* A voice with another sustain rate is a voice.
LEMMA NewEnvSR ==
  ASSUME NEW v \in Voices, NEW x \in Nat
  PROVE  [v EXCEPT !.envSR = x] \in Voices
  BY DEF Voices

\* A voice with another sustain level is a voice.
LEMMA NewEnvSL ==
  ASSUME NEW v \in Voices, NEW x \in Int
  PROVE  [v EXCEPT !.envSL = x] \in Voices
  BY DEF Voices

\* A voice with another volume is a voice.
LEMMA NewPvol ==
  ASSUME NEW v \in Voices, NEW x \in Int
  PROVE  [v EXCEPT !.pvol = x] \in Voices
  BY DEF Voices

\* A voice with another expression is a voice.
LEMMA NewPexp ==
  ASSUME NEW v \in Voices, NEW x \in Int
  PROVE  [v EXCEPT !.pexp = x] \in Voices
  BY DEF Voices

\* A voice with another place in the vibrato is a voice.
LEMMA NewVibwk ==
  ASSUME NEW v \in Voices, NEW x \in Int
  PROVE  [v EXCEPT !.vibwk = x] \in Voices
  BY DEF Voices

\* A voice with another vibrato speed is a voice.
LEMMA NewVibvv ==
  ASSUME NEW v \in Voices, NEW x \in Int
  PROVE  [v EXCEPT !.vibvv = x] \in Voices
  BY DEF Voices

\* A voice with another vibrato delay is a voice.
LEMMA NewVibv1 ==
  ASSUME NEW v \in Voices, NEW x \in Int
  PROVE  [v EXCEPT !.vibv1 = x] \in Voices
  BY DEF Voices

\* A voice with another vibrato swell is a voice.
LEMMA NewVibv2 ==
  ASSUME NEW v \in Voices, NEW x \in Int
  PROVE  [v EXCEPT !.vibv2 = x] \in Voices
  BY DEF Voices

\* A voice with another vibrato depth so far is a voice.
LEMMA NewVibdpwk ==
  ASSUME NEW v \in Voices, NEW x \in Int
  PROVE  [v EXCEPT !.vibdpwk = x] \in Voices
  BY DEF Voices

\* A voice with another vibrato depth is a voice.
LEMMA NewVibdpe ==
  ASSUME NEW v \in Voices, NEW x \in Int
  PROVE  [v EXCEPT !.vibdpe = x] \in Voices
  BY DEF Voices

\* A voice with another table is a voice.
LEMMA NewTable ==
  ASSUME NEW v \in Voices, NEW x \in Seq(SChars)
  PROVE  [v EXCEPT !.pData = x] \in Voices
  BY DEF Voices

\* A voice with another wave routine is a voice.
LEMMA NewWave ==
  ASSUME NEW v \in Voices, NEW x \in WaveKinds
  PROVE  [v EXCEPT !.genwave = x] \in Voices
  BY DEF Voices

\* A voice with another envelope generator is a voice.
LEMMA NewEnv ==
  ASSUME NEW v \in Voices, NEW x \in {"A", "D", "S", "R"}
  PROVE  [v EXCEPT !.genenv = x] \in Voices
  BY DEF Voices

\* A voice with another vibrato generator is a voice.
LEMMA NewVib ==
  ASSUME NEW v \in Voices, NEW x \in {"S0", "S1", "S2"}
  PROVE  [v EXCEPT !.genvib = x] \in Voices
  BY DEF Voices

\* Two voices that differ in how they sound only: same wave, phase, step and envelope.
Alike(v, w) ==
  /\ w.genwave = v.genwave /\ w.loop_end = v.loop_end /\ w.loop_w = v.loop_w
  /\ w.freqwk = v.freqwk /\ w.freq = v.freq
  /\ w.envwk = v.envwk /\ w.genenv = v.genenv

\* Envelope speeds are never negative, and an envelope changes no more than how a voice sounds.
LEMMA EnvSet ==
  ASSUME NEW v \in Voices, NEW ar \in Int, NEW dr \in Int, NEW sl \in Int, NEW sr \in Int
  PROVE  SetEnv(v, ar, dr, sl, sr) \in Voices /\ Alike(v, SetEnv(v, ar, dr, sl, sr))
<1>1. ASSUME NEW n \in Int PROVE SetEnvSpeed(n) \in Nat
  <2> DEFINE k == n * 192 + 4 * 12 * 256
  <2>1. k \in Int
    OBVIOUS
  <2> HIDE DEF k
  <2>2. gexp(k) \in Nat
    BY <2>1, ExpBounded
  <2>3. SetEnvSpeed(n) = gexp(k) * 2
    BY DEF SetEnvSpeed, k
  <2> HIDE DEF gexp
  <2> QED
    BY <2>2, <2>3
<1> DEFINE l == ((IF sl > 127 THEN 127 ELSE sl) - 127) * 192 * 2
<1> DEFINE a == SetEnvSpeed(ar)
<1> DEFINE d == SetEnvSpeed(dr)
<1> DEFINE r == SetEnvSpeed(sr)
<1> DEFINE w == [v EXCEPT !.envSL = l, !.envAR = a, !.envDR = d, !.envSR = r]
<1>2. l \in Int /\ a \in Nat /\ d \in Nat /\ r \in Nat
  BY <1>1
<1>3. SetEnv(v, ar, dr, sl, sr) = w
  BY DEF SetEnv
<1> HIDE DEF l, a, d, r
<1>4. w \in Voices
  BY <1>2, NewEnvSL, NewEnvAR, NewEnvDR, NewEnvSR
<1>5. Alike(v, w)
  BY DEF Voices, Alike
<1> QED
  BY <1>3, <1>4, <1>5

\* Depth and speeds of the vibrato are numbers, and it changes no more than how a voice sounds.
LEMMA VibSet ==
  ASSUME NEW v \in Voices, NEW depth \in Int, NEW spd \in Int, NEW t1 \in Int, NEW t2 \in Int
  PROVE  SetVib(v, depth, spd, t1, t2) \in Voices /\ Alike(v, SetVib(v, depth, spd, t1, t2))
<1> DEFINE speed(n) == Short(gexp(n * 192 + 8 * 12 * 256))
<1>1. ASSUME NEW n \in Int PROVE speed(n) \in Int
  <2> DEFINE k == n * 192 + 8 * 12 * 256
  <2>1. k \in Int
    OBVIOUS
  <2> HIDE DEF k
  <2>2. gexp(k) \in Int
    BY <2>1, ExpBounded
  <2>3. Short(gexp(k)) \in Int
    BY <2>2, Widths
  <2> QED
    BY <2>3 DEF k
<1> DEFINE dp == depth * 12 * 8
<1> DEFINE a == speed(spd)
<1> DEFINE b == speed(t1)
<1> DEFINE c == speed(t2)
<1> DEFINE w == [v EXCEPT !.vibdpe = dp, !.vibvv = a, !.vibv1 = b, !.vibv2 = c]
<1> HIDE DEF speed
<1>2. dp \in Int /\ a \in Int /\ b \in Int /\ c \in Int
  BY <1>1
<1>3. SetVib(v, depth, spd, t1, t2) = w
  BY DEF SetVib, speed
<1> HIDE DEF dp, a, b, c
<1>4. w \in Voices
  BY <1>2, NewVibdpe, NewVibvv, NewVibv1, NewVibv2
<1>5. Alike(v, w)
  BY DEF Voices, Alike
<1> QED
  BY <1>3, <1>4, <1>5

\* The parameters of the commands are numbers.
LEMMA Parameters ==
  /\ \A x \in Vols \cup Exps \cup ExpRels \cup Pitches \cup Slides : x \in Int
  /\ \A e \in Envs \cup Vibs : e[1] \in Int /\ e[2] \in Int /\ e[3] \in Int /\ e[4] \in Int
<1>1. \A x \in Bytes : x \in Int
  BY DEF Bytes
<1>2. /\ Vols \subseteq Bytes /\ Exps \subseteq Bytes /\ ExpRels \subseteq Int
      /\ Pitches \subseteq Int /\ Slides \subseteq Int
      /\ Envs \cup Vibs \subseteq Bytes \X Bytes \X Bytes \X Bytes
  BY VoiceAssumption
<1>3. ASSUME NEW e \in Envs \cup Vibs PROVE e[1] \in Bytes /\ e[2] \in Bytes /\ e[3] \in Bytes /\ e[4] \in Bytes
  BY <1>2
<1> QED
  BY <1>1, <1>2, <1>3

\* A volume is a number for every voice, and changes no more than how it sounds.
LEMMA VolSet ==
  ASSUME NEW v \in Voices, NEW x \in Int
  PROVE  SetVol(v, x) \in Voices /\ Alike(v, SetVol(v, x))
<1> DEFINE vol == (x * 192 + 11 * 12 * 256) * 2
<1>1. vol \in Int /\ 0 \in Int
  OBVIOUS
<1>2. SetVol(v, x) = [v EXCEPT !.pvol = vol, !.pexp = 0]
  BY DEF SetVol
<1> HIDE DEF vol
<1>3. [v EXCEPT !.pvol = vol, !.pexp = 0] \in Voices
  BY <1>1, NewPvol, NewPexp
<1> QED
  BY <1>2, <1>3 DEF Voices, Alike

\* The commands of a tick but SetInst leave the wave, the phase and the envelope alone.
LEMMA ShapeKeeps ==
  ASSUME NEW v \in Voices, NEW w,
         \/ \E x \in Vols : w = SetVol(v, x)
         \/ \E x \in Exps : w = SetExp(v, x)
         \/ \E x \in ExpRels : w = SetExpRel(v, x)
         \/ \E e \in Envs : w = SetEnv(v, e[1], e[2], e[3], e[4])
         \/ \E e \in Vibs : w = SetVib(v, e[1], e[2], e[3], e[4])
         \/ \E x \in Slides : w = Slide(v, x)
         \/ \E x \in Pitches : w = NotePitch(v, x)
  PROVE  w \in Voices /\ Alike(v, w)
<1>0. v.pexp \in Int /\ v.ipitch \in Int
  BY DEF Voices
<1>1. ASSUME NEW x \in Vols, w = SetVol(v, x) PROVE w \in Voices /\ Alike(v, w)
  BY <1>1, Parameters, VolSet
<1>2. ASSUME NEW x \in Exps, w = SetExp(v, x) PROVE w \in Voices /\ Alike(v, w)
  <2> DEFINE exp == (x - 127) * 192 * 2
  <2>1. exp \in Int
    BY Parameters
  <2>2. w = [v EXCEPT !.pexp = exp]
    BY <1>2 DEF SetExp
  <2> HIDE DEF exp
  <2>3. w \in Voices
    BY <2>1, <2>2, NewPexp
  <2> QED
    BY <2>2, <2>3 DEF Voices, Alike
<1>3. ASSUME NEW x \in ExpRels, w = SetExpRel(v, x) PROVE w \in Voices /\ Alike(v, w)
  <2> DEFINE exp == v.pexp + x * 192 * 2
  <2>1. exp \in Int
    BY <1>0, Parameters
  <2>2. w = [v EXCEPT !.pexp = exp]
    BY <1>3 DEF SetExpRel
  <2> HIDE DEF exp
  <2>3. w \in Voices
    BY <2>1, <2>2, NewPexp
  <2> QED
    BY <2>2, <2>3 DEF Voices, Alike
<1>4. ASSUME NEW e \in Envs, w = SetEnv(v, e[1], e[2], e[3], e[4]) PROVE w \in Voices /\ Alike(v, w)
  BY <1>4, Parameters, EnvSet
<1>5. ASSUME NEW e \in Vibs, w = SetVib(v, e[1], e[2], e[3], e[4]) PROVE w \in Voices /\ Alike(v, w)
  BY <1>5, Parameters, VibSet
<1>6. ASSUME NEW x \in Slides, w = Slide(v, x) PROVE w \in Voices /\ Alike(v, w)
  <2> DEFINE y == x * 2 ^ 18
  <2>1. y \in Int
    <3>1. x \in Int /\ 2 ^ 18 \in Int
      BY Parameters
    <3> QED
      BY <3>1
  <2>2. w = [v EXCEPT !.ptwk1 = y]
    BY <1>6 DEF Slide
  <2> HIDE DEF y
  <2>3. w \in Voices
    BY <2>1, <2>2, NewPtwk1
  <2> QED
    BY <2>2, <2>3 DEF Voices, Alike
<1>7. ASSUME NEW x \in Pitches, w = NotePitch(v, x) PROVE w \in Voices /\ Alike(v, w)
  <2> DEFINE y == v.ipitch + x
  <2>1. y \in Int
    BY <1>0, Parameters
  <2>2. w = [v EXCEPT !.cpitch = y]
    BY <1>7 DEF NotePitch
  <2> HIDE DEF y
  <2>3. w \in Voices
    BY <2>1, <2>2, NewCpitch
  <2> QED
    BY <2>2, <2>3 DEF Voices, Alike
<1> QED
  BY <1>1, <1>2, <1>3, <1>4, <1>5, <1>6, <1>7

\* An instrument gives a voice a table that fits, and silences it.
LEMMA InstSet ==
  ASSUME NEW v \in Voices, NEW no \in DOMAIN inst
  PROVE  /\ SetInst(v, no) \in Voices /\ LoopFits(SetInst(v, no))
         /\ SetInst(v, no).freq = 0
         /\ SetInst(v, no).envwk = v.envwk /\ SetInst(v, no).genenv = v.genenv
<1> DEFINE ip == inst[no]
<1>1. /\ ip \in [wave : WaveKinds, pitch_fs : Nat, pitch_org : Nat,
                 data : Seq(SChars), top : Nat, end : Nat]
      /\ WaveFits(ip)
  BY VoiceAssumption
<1> HIDE DEF ip
<1> DEFINE data == ip.data
<1> DEFINE end == ip.end
<1> DEFINE long == ip.end - ip.top
<1> DEFINE pitch == ip.pitch_fs - ip.pitch_org + (IBASE0 - FOFS)
<1> DEFINE wave == ip.wave
<1> DEFINE w == [v EXCEPT !.pData = data, !.loop_end = end, !.loop_w = long, !.freq = 0,
                          !.ipitch = pitch, !.envAR = 0, !.genwave = wave]
<1>2. SetInst(v, no) = w
  BY DEF SetInst, ip
<1>3. /\ data \in Seq(SChars) /\ end \in Nat /\ long \in Int /\ pitch \in Int
      /\ wave \in WaveKinds /\ 0 \in Nat /\ long <= end
  BY <1>1 DEF IBASE0, FOFS
<1>4. /\ wave \in {"LP", "NL"} => end > 0 /\ end % 16384 = 0
      /\ wave = "LP" => long >= 65536
  BY <1>1 DEF WaveFits
<1> HIDE DEF data, end, long, pitch, wave
<1>5. w \in Voices
  BY <1>3, NewTable, NewLoopEnd, NewLoopW, NewStep, NewIpitch, NewEnvAR, NewWave
<1>6. /\ w.freq = 0 /\ w.envwk = v.envwk /\ w.genenv = v.genenv
      /\ w.loop_end = end /\ w.loop_w = long /\ w.genwave = wave
  BY DEF Voices
<1> HIDE DEF w
<1>7. LoopFits(w)
  BY <1>3, <1>4, <1>6 DEF LoopFits, Tabled
<1> QED
  BY <1>2, <1>5, <1>6, <1>7

\* Two voices with the same wave.
SameWave(v, w) ==
  w.genwave = v.genwave /\ w.loop_end = v.loop_end /\ w.loop_w = v.loop_w

\* A note starts at the first sample of the same wave, and no louder than full.
LEMMA NoteStarts ==
  ASSUME NEW v \in Voices, NEW x \in Int
  PROVE  /\ NoteOn(v, x) \in Voices /\ SameWave(v, NoteOn(v, x))
         /\ NoteOn(v, x).freqwk = 0 /\ NoteOn(v, x).envwk <= 0
<1> DEFINE c == v.ipitch + x
<1> DEFINE e == IF v.envAR # 0 THEN ENVSTART ELSE 0
<1> DEFINE w == [v EXCEPT !.freqwk = 0, !.ptwk1 = 0, !.ptwk2 = 0, !.cpitch = c, !.freq = 1,
                          !.envwk = e, !.genenv = "A", !.genvib = "S0", !.vibdpwk = 0]
<1>1. NoteOn(v, x) = w
  BY DEF NoteOn
<1>2. v.ipitch \in Int
  BY DEF Voices
<1>3. /\ c \in Int /\ e \in Int /\ e <= 0 /\ 0 \in Nat /\ 1 \in Nat /\ 0 \in Int
      /\ "A" \in {"A", "D", "S", "R"} /\ "S0" \in {"S0", "S1", "S2"}
  BY <1>2 DEF ENVSTART
<1> HIDE DEF c, e
<1>4. w \in Voices
  BY <1>3, NewPhase, NewPtwk1, NewPtwk2, NewCpitch, NewStep, NewEnvwk, NewEnv, NewVib, NewVibdpwk
<1>5. w.freqwk = 0 /\ w.envwk = e /\ SameWave(v, w)
  BY DEF Voices, SameWave
<1> QED
  BY <1>1, <1>3, <1>4, <1>5

\* The end of a note changes the envelope's generator only.
LEMMA NoteStops ==
  ASSUME NEW v \in Voices
  PROVE  /\ NoteOff(v) \in Voices /\ SameWave(v, NoteOff(v)) /\ NoteOff(v).genenv = "R"
         /\ NoteOff(v).freqwk = v.freqwk /\ NoteOff(v).freq = v.freq /\ NoteOff(v).envwk = v.envwk
<1>1. "R" \in {"A", "D", "S", "R"}
  OBVIOUS
<1>2. NoteOff(v) = [v EXCEPT !.genenv = "R"]
  BY DEF NoteOff
<1>3. NoteOff(v) \in Voices
  BY <1>1, <1>2, NewEnv
<1> QED
  BY <1>2, <1>3 DEF Voices, SameWave

\* The vibrato bends the pitch and touches nothing else.
LEMMA VibSwings ==
  ASSUME NEW v \in Voices
  PROVE  GenVibS2(v) \in Voices /\ Alike(v, GenVibS2(v))
<1> DEFINE wk == Short(v.vibwk + v.vibvv)
<1> DEFINE pt == ((16384 - Abs(wk)) * v.vibdpwk) \div 8
<1>1. v.vibwk \in Int /\ v.vibvv \in Int /\ v.vibdpwk \in Int
  BY DEF Voices
<1>2. wk \in Int
  BY <1>1, Widths
<1>3. pt \in Int
  <2> HIDE DEF wk
  <2>1. 16384 - Abs(wk) \in Int
    BY <1>2 DEF Abs
  <2>2. (16384 - Abs(wk)) * v.vibdpwk \in Int
    BY <1>1, <2>1
  <2> QED
    BY <2>2
<1>4. GenVibS2(v) = [v EXCEPT !.vibwk = wk, !.ptwk2 = pt]
  BY DEF GenVibS2
<1> HIDE DEF wk, pt
<1>5. [v EXCEPT !.vibwk = wk, !.ptwk2 = pt] \in Voices
  BY <1>2, <1>3, NewVibwk, NewPtwk2
<1> QED
  BY <1>4, <1>5 DEF Voices, Alike

\* So do its delay and its swell.
LEMMA VibSteps ==
  ASSUME NEW v \in Voices
  PROVE  genvib(v) \in Voices /\ Alike(v, genvib(v))
<1>0. /\ v.vibdpwk \in Int /\ v.vibv1 \in Int /\ v.vibv2 \in Int /\ v.vibdpe \in Int
      /\ v.genvib \in {"S0", "S1", "S2"}
  BY DEF Voices
<1>1. GenVibS0(v) \in Voices /\ Alike(v, GenVibS0(v))
  <2> DEFINE dp == Short(v.vibdpwk + v.vibv1)
  <2>1. dp \in Int /\ 0 \in Int /\ "S1" \in {"S0", "S1", "S2"}
    BY <1>0, Widths
  <2>2. GenVibS0(v) = IF dp >= 16384 THEN [v EXCEPT !.genvib = "S1", !.vibwk = 0, !.vibdpwk = 0]
                      ELSE [v EXCEPT !.vibdpwk = dp]
    BY DEF GenVibS0
  <2> HIDE DEF dp
  <2>3. /\ [v EXCEPT !.genvib = "S1", !.vibwk = 0, !.vibdpwk = 0] \in Voices
        /\ [v EXCEPT !.vibdpwk = dp] \in Voices
    BY <2>1, NewVib, NewVibwk, NewVibdpwk
  <2>4. /\ Alike(v, [v EXCEPT !.genvib = "S1", !.vibwk = 0, !.vibdpwk = 0])
        /\ Alike(v, [v EXCEPT !.vibdpwk = dp])
    BY DEF Voices, Alike
  <2> QED
    BY <2>2, <2>3, <2>4
<1>2. GenVibS1(v) \in Voices /\ Alike(v, GenVibS1(v))
  <2> DEFINE dp == Short(v.vibdpwk + v.vibv2)
  <2> DEFINE full == v.vibdpe
  <2> DEFINE w == IF dp >= full THEN [v EXCEPT !.genvib = "S2", !.vibdpwk = full]
                  ELSE [v EXCEPT !.vibdpwk = dp]
  <2>1. dp \in Int /\ full \in Int /\ "S2" \in {"S0", "S1", "S2"}
    BY <1>0, Widths
  <2>2. GenVibS1(v) = GenVibS2(w)
    BY DEF GenVibS1
  <2> HIDE DEF dp, full
  <2>3. /\ [v EXCEPT !.genvib = "S2", !.vibdpwk = full] \in Voices
        /\ [v EXCEPT !.vibdpwk = dp] \in Voices
    BY <2>1, NewVib, NewVibdpwk
  <2>4. /\ Alike(v, [v EXCEPT !.genvib = "S2", !.vibdpwk = full])
        /\ Alike(v, [v EXCEPT !.vibdpwk = dp])
    BY DEF Voices, Alike
  <2>5. w \in Voices /\ Alike(v, w)
    BY <2>3, <2>4
  <2> HIDE DEF w
  <2>6. GenVibS2(w) \in Voices /\ Alike(w, GenVibS2(w))
    BY <2>5, VibSwings
  <2> QED
    BY <2>2, <2>5, <2>6 DEF Alike
<1>3. GenVibS2(v) \in Voices /\ Alike(v, GenVibS2(v))
  BY VibSwings
<1>4. genvib(v) \in {GenVibS0(v), GenVibS1(v), GenVibS2(v)}
  BY <1>0 DEF genvib
<1> QED
  BY <1>1, <1>2, <1>3, <1>4

\* The envelope never rises above full volume, and a release falls by ENVRR
\* a block or ends the voice.
LEMMA EnvSteps ==
  ASSUME NEW v \in Voices, v.envwk <= 0
  PROVE  /\ genenv(v) \in Voices /\ SameWave(v, genenv(v)) /\ genenv(v).freqwk = v.freqwk
         /\ genenv(v).freq \in {0, v.freq} /\ genenv(v).envwk <= 0
         /\ v.genenv = "R" =>
              /\ genenv(v).genenv = "R"
              /\ genenv(v).freq # 0 => genenv(v).envwk = v.envwk - ENVRR /\ genenv(v).envwk >= ENVSTOP
<1>0. /\ v.envwk \in Int /\ v.envAR \in Nat /\ v.envDR \in Nat /\ v.envSR \in Nat /\ v.envSL \in Int
      /\ v.genenv \in {"A", "D", "S", "R"} /\ v.freq \in Nat
  BY DEF Voices
<1>1. ASSUME NEW by \in Nat
      PROVE  /\ Fall(v, by) \in Voices /\ SameWave(v, Fall(v, by)) /\ Fall(v, by).freqwk = v.freqwk
             /\ Fall(v, by).freq \in {0, v.freq} /\ Fall(v, by).envwk <= 0
             /\ Fall(v, by).genenv = v.genenv
             /\ Fall(v, by).freq # 0 => Fall(v, by).envwk = v.envwk - by /\ Fall(v, by).envwk >= ENVSTOP
  <2> DEFINE low == v.envwk - by
  <2> DEFINE stop == ENVSTOP
  <2>1. low \in Int /\ stop \in Int /\ 0 \in Nat /\ low <= 0 /\ stop <= 0
    BY <1>0 DEF ENVSTOP
  <2>2. Fall(v, by) = IF low < stop THEN [v EXCEPT !.envwk = stop, !.freq = 0] ELSE [v EXCEPT !.envwk = low]
    BY DEF Fall
  <2> HIDE DEF low, stop
  <2> DEFINE w == Fall(v, by)
  <2>3. CASE low < stop
    <3>1. w = [v EXCEPT !.envwk = stop, !.freq = 0]
      BY <2>2, <2>3
    <3> HIDE DEF w
    <3>2. w \in Voices
      BY <2>1, <3>1, NewEnvwk, NewStep
    <3>3. SameWave(v, w) /\ w.freqwk = v.freqwk /\ w.freq = 0 /\ w.envwk = stop /\ w.genenv = v.genenv
      BY <3>1 DEF Voices, SameWave
    <3> QED
      BY <2>1, <3>2, <3>3 DEF w
  <2>4. CASE ~(low < stop)
    <3>1. w = [v EXCEPT !.envwk = low]
      BY <2>2, <2>4
    <3> HIDE DEF w
    <3>2. w \in Voices
      BY <2>1, <3>1, NewEnvwk
    <3>3. SameWave(v, w) /\ w.freqwk = v.freqwk /\ w.freq = v.freq /\ w.envwk = low /\ w.genenv = v.genenv
      BY <3>1 DEF Voices, SameWave
    <3>4. low >= stop
      BY <2>1, <2>4
    <3> QED
      BY <2>1, <3>2, <3>3, <3>4 DEF w, low, stop
  <2> QED
    BY <2>3, <2>4
<1>2. CASE v.genenv = "R"
  <2>1. genenv(v) = Fall(v, ENVRR) /\ ENVRR \in Nat
    BY <1>2 DEF genenv, GenEnvR, ENVRR
  <2> QED
    BY <1>1, <1>2, <2>1
<1>3. CASE v.genenv = "S"
  <2>1. genenv(v) = Fall(v, v.envSR)
    BY <1>3 DEF genenv, GenEnvS
  <2> QED
    BY <1>0, <1>1, <1>3, <2>1
<1>4. CASE v.genenv = "D"
  <2> DEFINE low == v.envwk - v.envDR
  <2> DEFINE next == IF low < v.envSL THEN "S" ELSE v.genenv
  <2> DEFINE w == [v EXCEPT !.envwk = low, !.genenv = next]
  <2>1. low \in Int /\ low <= 0 /\ next \in {"A", "D", "S", "R"}
    BY <1>0
  <2>2. genenv(v) = w
    BY <1>4 DEF genenv, GenEnvD
  <2> HIDE DEF low, next
  <2>3. w \in Voices
    BY <2>1, NewEnvwk, NewEnv
  <2>4. SameWave(v, w) /\ w.freqwk = v.freqwk /\ w.freq = v.freq /\ w.envwk = low
    BY DEF Voices, SameWave
  <2> HIDE DEF w
  <2> QED
    BY <1>4, <2>1, <2>2, <2>3, <2>4
<1>5. CASE v.genenv = "A"
  <2> DEFINE high == v.envwk + v.envAR
  <2>1. high \in Int /\ 0 \in Int /\ "D" \in {"A", "D", "S", "R"}
    BY <1>0
  <2>2. genenv(v) = IF high > 0 THEN [v EXCEPT !.envwk = 0, !.genenv = "D"] ELSE [v EXCEPT !.envwk = high]
    BY <1>5 DEF genenv, GenEnvA
  <2> HIDE DEF high
  <2> DEFINE full == [v EXCEPT !.envwk = 0, !.genenv = "D"]
  <2> DEFINE rising == [v EXCEPT !.envwk = high]
  <2>3. full \in Voices /\ rising \in Voices
    BY <2>1, NewEnvwk, NewEnv
  <2>4. SameWave(v, full) /\ full.freqwk = v.freqwk /\ full.freq = v.freq /\ full.envwk = 0
    BY DEF Voices, SameWave
  <2>5. SameWave(v, rising) /\ rising.freqwk = v.freqwk /\ rising.freq = v.freq /\ rising.envwk = high
    BY DEF Voices, SameWave
  <2>6. genenv(v) = IF high > 0 THEN full ELSE rising
    BY <2>2
  <2> HIDE DEF full, rising
  <2> QED
    BY <1>5, <2>1, <2>3, <2>4, <2>5, <2>6
<1> QED
  BY <1>0, <1>2, <1>3, <1>4, <1>5

\* BuffFree brings a sounding voice to a step of 16 bits and lowers its
\* envelope; wave and phase stay.
LEMMA GeneratedFits ==
  ASSUME NEW v \in Voices, LoopFits(v), Tabled(v) => v.freqwk < v.loop_end, v.envwk <= 0
  PROVE  /\ InWave(Generated(v)) /\ Generated(v).envwk <= 0
         /\ Volume(Generated(v)) \in Nat
         /\ v.genenv = "R" =>
              /\ Generated(v).genenv = "R"
              /\ Generated(v).freq # 0 =>
                   Generated(v).envwk = v.envwk - ENVRR /\ Generated(v).envwk >= ENVSTOP
<1> DEFINE w == genvib(v)
<1> DEFINE step == gexp(w.cpitch + w.ptwk1 \div 1024 + w.ptwk2 \div 16384)
<1> DEFINE x == [w EXCEPT !.freq = step]
<1> DEFINE g == genenv(x)
<1>1. Generated(v) = g
  BY DEF Generated
<1>2. w \in Voices /\ Alike(v, w)
  BY VibSteps
<1> HIDE DEF w
<1>3. step \in Nat /\ step <= 65535
  <2> DEFINE n == w.cpitch + w.ptwk1 \div 1024 + w.ptwk2 \div 16384
  <2>1. w.cpitch \in Int /\ w.ptwk1 \in Int /\ w.ptwk2 \in Int
    BY <1>2 DEF Voices
  <2>2. n \in Int
    BY <2>1
  <2> HIDE DEF n
  <2>3. gexp(n) \in Nat /\ gexp(n) <= 65535
    BY <2>2, ExpBounded
  <2> QED
    BY <2>3 DEF n
<1> HIDE DEF step
<1>4. x \in Voices
  BY <1>2, <1>3, NewStep
<1>5. /\ x.freq = step /\ SameWave(w, x) /\ x.freqwk = w.freqwk /\ x.envwk = w.envwk
      /\ x.genenv = w.genenv
  BY <1>2 DEF Voices, SameWave
<1> HIDE DEF x
<1>6. /\ SameWave(v, x) /\ x.freqwk = v.freqwk /\ x.envwk = v.envwk /\ x.genenv = v.genenv
  BY <1>2, <1>5 DEF Alike, SameWave
<1>7. /\ g \in Voices /\ SameWave(x, g) /\ g.freqwk = x.freqwk
      /\ g.freq \in {0, x.freq} /\ g.envwk <= 0
      /\ x.genenv = "R" =>
           /\ g.genenv = "R"
           /\ g.freq # 0 => g.envwk = x.envwk - ENVRR /\ g.envwk >= ENVSTOP
  BY <1>4, <1>6, EnvSteps
<1> HIDE DEF g
<1>8. SameWave(v, g) /\ g.freqwk = v.freqwk /\ g.freq <= 65535
  BY <1>3, <1>5, <1>6, <1>7 DEF SameWave
<1>9. InWave(g)
  BY <1>7, <1>8 DEF InWave, LoopFits, Tabled, SameWave
<1>10. Volume(g) \in Nat
  <2> DEFINE vv == (g.pvol + g.pexp + g.envwk) \div 2
  <2>1. vv \in Int
    <3>1. g.pvol \in Int /\ g.pexp \in Int /\ g.envwk \in Int
      BY <1>7 DEF Voices
    <3> QED
      BY <3>1
  <2>2. Volume(g) = IF vv <= 11 THEN 0 ELSE gexp(vv)
    BY DEF Volume
  <2> HIDE DEF vv
  <2>3. gexp(vv) \in Nat
    BY <2>1, ExpBounded
  <2> QED
    BY <2>2, <2>3
<1> QED
  BY <1>1, <1>6, <1>7, <1>9, <1>10

\* A block mixed into a wave that fits reads nothing behind it and leaves the
\* phase in it, or the voice free.
LEMMA BlockMixed ==
  ASSUME NEW g, InWave(g), NEW vv \in Nat
  PROVE  LET w == MakeWaveFast(g, EmptyBlock, vv)
         IN  /\ ~w.past
             /\ w.v \in Voices /\ SameWave(g, w.v)
             /\ w.v.envwk = g.envwk /\ w.v.genenv = g.genenv
             /\ w.v.freq # 0 => w.v.freq = g.freq /\ (Tabled(w.v) => w.v.freqwk < w.v.loop_end)
<1> DEFINE b == Mix("asm", g, EmptyBlock, vv)
<1> DEFINE cc == Phase(g, b.cc)
<1> DEFINE u == IF b.ended THEN [g EXCEPT !.freq = 0] ELSE [g EXCEPT !.freqwk = cc]
<1> DEFINE w == MakeWaveFast(g, EmptyBlock, vv)
<1>1. w = [p |-> b.p, past |-> b.past, v |-> u]
  BY DEF MakeWaveFast
<1>2. b \in Turns /\ Inside(g, b)
  BY Mixed
<1> HIDE DEF b
<1>3. g \in Voices
  BY DEF InWave
<1>4. cc \in Nat /\ (Tabled(g) => cc < g.loop_end)
  <2>1. b.cc \in Nat
    BY <1>2 DEF Turns
  <2>2. UShort(b.cc) \in Nat
    BY <2>1, Widths
  <2> QED
    BY <1>2, <2>1, <2>2 DEF Phase, Inside
<1> HIDE DEF cc
<1> DEFINE off0 == [g EXCEPT !.freq = 0]
<1> DEFINE on == [g EXCEPT !.freqwk = cc]
<1>5. off0 \in Voices /\ on \in Voices
  BY <1>3, <1>4, NewStep, NewPhase
<1>6. /\ SameWave(g, off0) /\ off0.envwk = g.envwk /\ off0.genenv = g.genenv /\ off0.freq = 0
      /\ SameWave(g, on) /\ on.envwk = g.envwk /\ on.genenv = g.genenv /\ on.freq = g.freq
      /\ on.freqwk = cc
  BY <1>3 DEF Voices, SameWave
<1>7. u = IF b.ended THEN off0 ELSE on
  OBVIOUS
<1> HIDE DEF off0, on, u
<1>8. w.past = b.past /\ w.v = u
  BY <1>1
<1>9. ~b.past
  BY <1>2 DEF Inside
<1>10. /\ u \in Voices /\ SameWave(g, u) /\ u.envwk = g.envwk /\ u.genenv = g.genenv
       /\ u.freq # 0 => u.freq = g.freq /\ u.freqwk = cc
  BY <1>5, <1>6, <1>7
<1> HIDE DEF w
<1>11. Tabled(u) /\ u.freq # 0 => u.freqwk < u.loop_end
  BY <1>4, <1>10 DEF Tabled, SameWave
<1> QED
  BY <1>8, <1>9, <1>10, <1>11 DEF w

-----------------------------------------------------------------------------
(***************************************************************************)
(* The inductive invariant.                                                *)
(***************************************************************************)
\* The part of VoiceInv about the voice itself.
Sound(v) ==
  v \in Voices /\ LoopFits(v) /\ (v.freq # 0 /\ Tabled(v) => v.freqwk < v.loop_end) /\ v.envwk <= 0

\* A voice as StartSeq sets it up.
LEMMA FreshSounds == Sound(Fresh)
<1>1. Zeroed \in Voices /\ Zeroed.envwk = 0
  <2>1. <<>> \in Seq(SChars)
    OBVIOUS
  <2> QED
    BY <2>1 DEF Zeroed, Voices, WaveKinds
<1> DEFINE a == SetInst(Zeroed, 0)
<1> DEFINE b == SetVol(a, 127)
<1> DEFINE c == SetEnv(b, 255, 0, 0, 0)
<1> DEFINE d == SetVib(c, 0, 0, 0, 0)
<1>2. a \in Voices /\ LoopFits(a) /\ a.freq = 0 /\ a.envwk = 0
  BY <1>1, InstSet, VoiceAssumption
<1> HIDE DEF a
<1>3. b \in Voices /\ Alike(a, b)
  BY <1>2, VolSet
<1> HIDE DEF b
<1>4. c \in Voices /\ Alike(b, c)
  BY <1>3, EnvSet
<1> HIDE DEF c
<1>5. d \in Voices /\ Alike(c, d)
  BY <1>4, VibSet
<1> HIDE DEF d
<1>6. Sound(d)
  BY <1>2, <1>3, <1>4, <1>5 DEF Sound, Alike, LoopFits, Tabled
<1> QED
  BY <1>6 DEF Fresh, a, b, c, d

\* A command leaves the voice sound, and a released one released or started anew.
LEMMA Commanded ==
  ASSUME VoiceInv, Command
  PROVE  VoiceInv'
<1>1. /\ Sound(mp) /\ off \in -1 .. 9 /\ ~over /\ over \in BOOLEAN
      /\ commands \in 0 .. CALLS /\ held \in 0 .. HOLD
      /\ off >= 0 => mp.genenv = "R"
      /\ off >= 0 /\ mp.freq # 0 => off <= 7 /\ mp.envwk <= -(off * ENVRR)
  BY DEF VoiceInv, VoiceTyped, Sound
<1>2. over' = over /\ commands' \in 0 .. CALLS /\ held' \in 0 .. HOLD
  BY <1>1, VoiceAssumption DEF Command
<1>3. CASE Shape
  <2>1. ASSUME NEW no \in DOMAIN inst, mp' = SetInst(mp, no)
        PROVE  Sound(mp') /\ mp'.genenv = mp.genenv /\ mp'.freq = 0
    BY <1>1, <2>1, InstSet DEF Sound
  <2>2. ASSUME Alike(mp, mp'), mp' \in Voices
        PROVE  Sound(mp') /\ mp'.genenv = mp.genenv /\ mp'.freq = mp.freq /\ mp'.envwk = mp.envwk
    BY <1>1, <2>2 DEF Sound, Alike, LoopFits, Tabled
  <2>3. \/ \E no \in DOMAIN inst : mp' = SetInst(mp, no)
        \/ mp' \in Voices /\ Alike(mp, mp')
    <3>1. mp \in Voices
      BY <1>1 DEF Sound
    <3> QED
      BY <1>3, <3>1, ShapeKeeps DEF Shape
  <2>4. off' = off
    BY <1>3 DEF Shape
  <2>5. /\ Sound(mp') /\ mp'.genenv = mp.genenv
        /\ mp'.freq # 0 => mp'.freq = mp.freq /\ mp'.envwk = mp.envwk
    BY <2>1, <2>2, <2>3
  <2> QED
    BY <1>1, <1>2, <2>4, <2>5 DEF VoiceInv, VoiceTyped, Sound
<1>4. CASE KeyOn
  <2>1. PICK x \in Pitches : mp' = NoteOn(mp, x) /\ off' = -1
    BY <1>4 DEF KeyOn
  <2>2. x \in Int
    BY Parameters
  <2>3. mp' \in Voices /\ SameWave(mp, mp') /\ mp'.freqwk = 0 /\ mp'.envwk <= 0
    BY <1>1, <2>1, <2>2, NoteStarts DEF Sound
  <2>4. mp.loop_end \in Nat
    BY <1>1 DEF Sound, Voices
  <2>5. Sound(mp')
    BY <1>1, <2>3, <2>4 DEF Sound, SameWave, LoopFits, Tabled
  <2>6. off' \in -1 .. 9 /\ ~(off' >= 0)
    BY <2>1
  <2>7. VoiceTyped' /\ ~over'
    BY <1>1, <1>2, <2>5, <2>6 DEF VoiceTyped, Sound
  <2>8. LoopFits(mp') /\ (mp'.freq # 0 /\ Tabled(mp') => mp'.freqwk < mp'.loop_end) /\ mp'.envwk <= 0
    BY <2>5 DEF Sound
  <2>9. /\ off' >= 0 => mp'.genenv = "R"
        /\ off' >= 0 /\ mp'.freq # 0 => off' <= 7 /\ mp'.envwk <= -(off' * ENVRR)
    BY <2>6
  <2> QED
    BY <2>7, <2>8, <2>9 DEF VoiceInv
<1>5. CASE KeyOff
  <2>1. mp' = NoteOff(mp) /\ off' = 0
    BY <1>5 DEF KeyOff
  <2>2. /\ mp' \in Voices /\ SameWave(mp, mp') /\ mp'.genenv = "R"
        /\ mp'.freqwk = mp.freqwk /\ mp'.freq = mp.freq /\ mp'.envwk = mp.envwk
    BY <1>1, <2>1, NoteStops DEF Sound
  <2>3. Sound(mp')
    BY <1>1, <2>2 DEF Sound, SameWave, LoopFits, Tabled
  <2>4. -(off' * ENVRR) = 0
    <3>1. off' = 0 /\ ENVRR \in Int
      BY <2>1 DEF ENVRR
    <3> QED
      BY <3>1
  <2>5. mp'.envwk <= 0
    BY <2>3 DEF Sound
  <2> QED
    BY <1>1, <1>2, <2>1, <2>2, <2>3, <2>4, <2>5 DEF VoiceInv, VoiceTyped, Sound
<1> QED
  BY <1>3, <1>4, <1>5 DEF Command

\* A block leaves the voice sound; a released one is a block further down.
LEMMA Rendered ==
  ASSUME VoiceInv, Render
  PROVE  VoiceInv'
<1> DEFINE g == Generated(mp)
<1> DEFINE w == MakeWaveFast(g, EmptyBlock, Volume(g))
<1>1. /\ Sound(mp) /\ off \in -1 .. 9 /\ ~over
      /\ commands \in 0 .. CALLS /\ held \in 0 .. HOLD
      /\ off >= 0 => mp.genenv = "R"
      /\ off >= 0 => off <= 7 /\ mp.envwk <= -(off * ENVRR)
      /\ mp.freq # 0
  BY DEF VoiceInv, VoiceTyped, Sound, Render
<1>2. /\ mp' = w.v /\ over' = (over \/ w.past) /\ commands' = commands
      /\ off' = IF off = -1 THEN off ELSE off + 1
  BY DEF Render
<1>3. held' \in 0 .. HOLD
  BY <1>1, VoiceAssumption DEF Render
<1>4. /\ InWave(g) /\ g.envwk <= 0 /\ Volume(g) \in Nat
      /\ mp.genenv = "R" =>
           g.genenv = "R" /\ (g.freq # 0 => g.envwk = mp.envwk - ENVRR /\ g.envwk >= ENVSTOP)
  BY <1>1, GeneratedFits DEF Sound
<1> HIDE DEF g
<1>5. /\ ~w.past /\ w.v \in Voices /\ SameWave(g, w.v)
      /\ w.v.envwk = g.envwk /\ w.v.genenv = g.genenv
      /\ w.v.freq # 0 => w.v.freq = g.freq /\ (Tabled(w.v) => w.v.freqwk < w.v.loop_end)
  BY <1>4, BlockMixed
<1> HIDE DEF w
<1>6. Sound(mp') /\ mp'.envwk = g.envwk /\ mp'.genenv = g.genenv /\ (mp'.freq # 0 => g.freq # 0)
  BY <1>2, <1>4, <1>5 DEF Sound, InWave, SameWave, LoopFits, Tabled
<1>7. over' = FALSE
  BY <1>1, <1>2, <1>5
<1>8. CASE off = -1
  <2>1. off' = -1
    BY <1>2, <1>8
  <2> QED
    BY <1>1, <1>2, <1>3, <1>6, <1>7, <2>1 DEF VoiceInv, VoiceTyped, Sound
<1>9. CASE off # -1
  <2>1. off \in 0 .. 7 /\ off' = off + 1
    BY <1>1, <1>2, <1>9
  <2>2. mp'.genenv = "R"
    BY <1>1, <1>4, <1>6, <2>1
  <2>3. mp'.freq # 0 => off' <= 7 /\ mp'.envwk <= -(off' * ENVRR)
    <3>1. SUFFICES ASSUME mp'.freq # 0
                   PROVE  off' <= 7 /\ mp'.envwk <= -(off' * ENVRR)
      OBVIOUS
    <3>2. mp.genenv = "R" /\ mp.envwk <= -(off * ENVRR)
      BY <1>1, <2>1
    <3>3. mp'.envwk = g.envwk /\ g.freq # 0
      BY <1>6, <3>1
    <3>4. mp'.envwk = mp.envwk - ENVRR /\ mp'.envwk >= ENVSTOP
      BY <1>4, <3>2, <3>3
    <3>5. mp.envwk \in Int
      BY <1>1 DEF Sound, Voices
    <3>6. ENVRR = 8000 /\ ENVSTOP = -61440
      BY DEF ENVRR, ENVSTOP
    <3> DEFINE e == mp.envwk
    <3> DEFINE f == mp'.envwk
    <3>7. e \in Int /\ e <= -(off * 8000) /\ f = e - 8000 /\ f >= -61440
      BY <3>2, <3>4, <3>5, <3>6
    <3> HIDE DEF e, f
    <3>8. off' <= 7 /\ f <= -(off' * 8000)
      BY <2>1, <3>7
    <3> QED
      BY <3>6, <3>8 DEF f
  <2> QED
    BY <1>1, <1>2, <1>3, <1>6, <1>7, <2>1, <2>2, <2>3 DEF VoiceInv, VoiceTyped, Sound
<1> QED
  BY <1>8, <1>9

\* VoiceInv is an invariant: every phase lies in its wave and every released
\* envelope falls, whatever is commanded and however long a key is held
\* (mus.c:55, 59, 79 and 158).
THEOREM VoiceInductive == VoiceSpec => []VoiceInv
<1>1. VoiceInit => VoiceInv
  <2> SUFFICES ASSUME VoiceInit PROVE VoiceInv
    OBVIOUS
  <2>1. Sound(mp) /\ off = -1 /\ over = FALSE /\ commands = CALLS /\ held = 0
    BY FreshSounds DEF VoiceInit
  <2>2. commands \in 0 .. CALLS /\ held \in 0 .. HOLD
    BY <2>1, VoiceAssumption
  <2>3. off \in -1 .. 9 /\ ~(off >= 0)
    BY <2>1
  <2> QED
    BY <2>1, <2>2, <2>3 DEF VoiceInv, VoiceTyped, Sound, ENVRR
<1>2. ASSUME VoiceInv, [VoiceNext]_voiceVars PROVE VoiceInv'
  <2>1. CASE Render
    BY <1>2, <2>1, Rendered
  <2>2. CASE Command
    BY <1>2, <2>2, Commanded
  <2>3. CASE RenderNothing
    <3>1. off \in 0 .. 8 /\ off' = off + 1 /\ mp.freq = 0 /\ UNCHANGED <<mp, over, commands, held>>
      BY <2>3 DEF RenderNothing
    <3> QED
      BY <1>2, <3>1 DEF VoiceInv, VoiceTyped
  <2>4. CASE UNCHANGED voiceVars
    BY <1>2, <2>4 DEF VoiceInv, VoiceTyped, voiceVars
  <2> QED
    BY <1>2, <2>1, <2>2, <2>3, <2>4 DEF VoiceNext
<1> QED
  BY <1>1, <1>2, PTL DEF VoiceSpec

\* No wave is read behind the sample its interpolation needs last, for every
\* instrument that keeps to VoiceAssumption.
THEOREM WavesReadInside == VoiceSpec => []ReadsInTable
<1>1. VoiceInv => ReadsInTable
  BY DEF VoiceInv, ReadsInTable
<1> QED
  BY <1>1, VoiceInductive, PTL

\* A released voice is free after eight blocks, for every envelope.
THEOREM ReleasesEnd == VoiceSpec => []ReleasedVoiceEnds
<1>1. VoiceInv => ReleasedVoiceEnds
  BY DEF VoiceInv, VoiceTyped, ReleasedVoiceEnds
<1> QED
  BY <1>1, VoiceInductive, PTL

\* The assembler routines mix what the C routines do, and leave the voice they
\* leave, as long as the volume fits the multiplier.
THEOREM AssemblerMixesC == VoiceSpec => []FastMixesSame
<1>1. VoiceInv => FastMixesSame
  <2> DEFINE g == Generated(mp)
  <2> DEFINE vv == Volume(g)
  <2> SUFFICES ASSUME VoiceInv, mp.freq # 0, vv <= 32767
               PROVE  MakeWaveFast(g, EmptyBlock, vv) = MakeWave(g, EmptyBlock, vv)
    BY DEF FastMixesSame
  <2>1. InWave(g) /\ vv \in Nat
    BY GeneratedFits DEF VoiceInv, VoiceTyped
  <2> HIDE DEF g, vv
  <2>2. Mix("asm", g, EmptyBlock, vv) = Mix("c", g, EmptyBlock, vv)
    BY <2>1, Mixed
  <2> QED
    BY <2>2 DEF MakeWave, MakeWaveFast
<1> QED
  BY <1>1, VoiceInductive, PTL
=============================================================================
