--------------------------------- MODULE Voice ---------------------------------
(***************************************************************************)
(* The tone generator of the music driver: one voice (MDEVICE) and what    *)
(* BuffFree does with it for every block of BLKS samples: pitch with       *)
(* vibrato and portamento, envelope, volume, and the wave mixed into the   *)
(* block.  Integers have the widths of mus.c; gexp is the table driven     *)
(* exponential of exp12.c.  The waves are given twice, as mus.c writes     *)
(* them in C and as musfast_llvm.s, which the Makefile links (-DFASTCODE). *)
(***************************************************************************)
EXTENDS Integers, Sequences

CONSTANTS
  BLKS,         \* samples in a block (128)
  CALLS,        \* bound on the commands
  HOLD,         \* bound on the blocks between two commands while the key is held
  inst,         \* instrument number -> [wave, pitch_fs, pitch_org, data, top, end]
  Vols, Exps, ExpRels, Envs, Vibs, Pitches, Slides

WaveKinds == {"LP", "NL", "SQR", "SAW", "TRI"}
Bytes     == 0 .. 255
SChars    == -128 .. 127

\* What wavetable.c and wave/*.c keep to: a table ends with a whole sample, and
\* the shortest loop (16 samples) is longer than the longest step (4 samples).
WaveFits(ip) ==
  /\ ip.wave \in {"LP", "NL"} => ip.end > 0 /\ ip.end % 16384 = 0
  /\ ip.wave = "LP" => ip.end - ip.top >= 65536

ASSUME VoiceAssumption ==
  /\ BLKS \in Nat \ {0} /\ CALLS \in Nat /\ HOLD \in Nat
  /\ 0 \in DOMAIN inst
  /\ \A no \in DOMAIN inst :
       /\ inst[no] \in [wave : WaveKinds, pitch_fs : Nat, pitch_org : Nat,
                        data : Seq(SChars), top : Nat, end : Nat]
       /\ WaveFits(inst[no])
  /\ Vols \subseteq Bytes /\ Exps \subseteq Bytes /\ ExpRels \subseteq Int
  /\ Envs \subseteq Bytes \X Bytes \X Bytes \X Bytes
  /\ Vibs \subseteq Bytes \X Bytes \X Bytes \X Bytes
  /\ Pitches \subseteq Int /\ Slides \subseteq Int

VARIABLES
  mp,           \* the voice
  off,          \* blocks since its NoteOff, -1 while the key is held
  over,         \* history: a wave was read behind its last sample
  commands,     \* commands left, of CALLS
  held          \* blocks since the last command, of HOLD

voiceVars == <<mp, off, over, commands, held>>

-----------------------------------------------------------------------------
(***************************************************************************)
(* C's integers.  \div rounds down: it is an arithmetic shift to the right.*)
(***************************************************************************)
Short(n)  == ((n + 32768) % 65536) - 32768
UShort(n) == n % 65536
Abs(n)    == IF n < 0 THEN -n ELSE n

expt == <<32768, 34716, 36781, 38968, 41285, 43740, 46341, 49097, 52016, 55109, 58386, 61858>>
expb == <<1948, 2064, 2187, 2317, 2455, 2601, 2756, 2919, 3093, 3277, 3472, 3678>>

\* div12t1 and div12t2: an octave is twelve entries, and the shift stays in 0 .. 16.
Semitone(a) == a % 12
Shift(a) == LET s == 20 - a \div 12 IN IF s > 16 THEN 16 ELSE IF s < 0 THEN 0 ELSE s

\* 2^(n / (12 * 256)), scaled; nothing above the highest octave.
gexp(n) ==
  LET a == IF n < 0 THEN 0 ELSE n \div 256
      b == Semitone(a) + 1
  IN  IF a > 255 THEN 0
      ELSE (expt[b] + ((expb[b] * (n % 256)) \div 256)) \div (2 ^ Shift(a))

\* musdef.h.
FOFS   == 42903
IBASE0 == 43008 + 26976 - 69 * 256 + 60 * 256

ENVSTART == -4 * 12 * 256 * 2
ENVSTOP  == -10 * 12 * 256 * 2
ENVRR    == 4000 * 2
SetEnvSpeed(n) == gexp(n * 192 + 4 * 12 * 256) * 2

-----------------------------------------------------------------------------
(***************************************************************************)
(* The commands seq.c gives a voice: each maps the voice to the voice.     *)
(***************************************************************************)
SetInst(v, no) ==
  LET ip == inst[no]
  IN  [v EXCEPT !.pData = ip.data, !.loop_end = ip.end, !.loop_w = ip.end - ip.top,
                !.freq = 0, !.ipitch = ip.pitch_fs - ip.pitch_org + (IBASE0 - FOFS),
                !.envAR = 0, !.genwave = ip.wave]

SetVol(v, vol)      == [v EXCEPT !.pvol = (vol * 192 + 11 * 12 * 256) * 2, !.pexp = 0]
SetExp(v, exp)      == [v EXCEPT !.pexp = (exp - 127) * 192 * 2]
SetExpRel(v, expr)  == [v EXCEPT !.pexp = @ + expr * 192 * 2]
SetEnv(v, ar, dr, sl, sr) ==
  [v EXCEPT !.envSL = ((IF sl > 127 THEN 127 ELSE sl) - 127) * 192 * 2,
            !.envAR = SetEnvSpeed(ar), !.envDR = SetEnvSpeed(dr), !.envSR = SetEnvSpeed(sr)]
SetVib(v, depth, spd, t1, t2) ==
  LET speed(n) == Short(gexp(n * 192 + 8 * 12 * 256))
  IN  [v EXCEPT !.vibdpe = depth * 12 * 8, !.vibvv = speed(spd), !.vibv1 = speed(t1), !.vibv2 = speed(t2)]

\* Mutated: the note goes on reading where the last one stopped.
NoteOn_KeepsPlace(v, pitch) ==
  [v EXCEPT !.ptwk1 = 0, !.ptwk2 = 0, !.cpitch = v.ipitch + pitch, !.freq = 1,
            !.envwk = IF v.envAR # 0 THEN ENVSTART ELSE 0, !.genenv = "A",
            !.genvib = "S0", !.vibdpwk = 0]

\* GenEnvInit and GenVibInit are its last two lines.
NoteOn(v, pitch) ==
  [v EXCEPT !.freqwk = 0, !.ptwk1 = 0, !.ptwk2 = 0, !.cpitch = v.ipitch + pitch, !.freq = 1,
            !.envwk = IF v.envAR # 0 THEN ENVSTART ELSE 0, !.genenv = "A",
            !.genvib = "S0", !.vibdpwk = 0]

NotePitch(v, pitch) == [v EXCEPT !.cpitch = v.ipitch + pitch]
NoteOff(v)          == [v EXCEPT !.genenv = "R"]
\* SeqNote and the portamento steps of seq.c write ptwk1 themselves.
Slide(v, a)         == [v EXCEPT !.ptwk1 = a * 2 ^ 18]

-----------------------------------------------------------------------------
(***************************************************************************)
(* The generators BuffFree calls for each block.                           *)
(***************************************************************************)
\* Mutated: a release that has reached its end does not stop the voice.
GenEnvR_Runs(v) == [v EXCEPT !.envwk = IF v.envwk - ENVRR < ENVSTOP THEN ENVSTOP ELSE @ - ENVRR]

\* A falling envelope ends the voice.
Fall(v, by) ==
  IF v.envwk - by < ENVSTOP THEN [v EXCEPT !.envwk = ENVSTOP, !.freq = 0] ELSE [v EXCEPT !.envwk = @ - by]
GenEnvR(v) == Fall(v, ENVRR)
GenEnvS(v) == Fall(v, v.envSR)
GenEnvD(v) == [v EXCEPT !.envwk = @ - v.envDR, !.genenv = IF v.envwk - v.envDR < v.envSL THEN "S" ELSE @]
GenEnvA(v) ==
  IF v.envwk + v.envAR > 0 THEN [v EXCEPT !.envwk = 0, !.genenv = "D"] ELSE [v EXCEPT !.envwk = @ + v.envAR]

genenv(v) == CASE v.genenv = "A" -> GenEnvA(v) [] v.genenv = "D" -> GenEnvD(v)
               [] v.genenv = "S" -> GenEnvS(v) [] v.genenv = "R" -> GenEnvR(v)

\* Vibrato: a delay, a swell and the full depth; a triangle all the while.
GenVibS2(v) ==
  LET wk == Short(v.vibwk + v.vibvv)
  IN  [v EXCEPT !.vibwk = wk, !.ptwk2 = ((16384 - Abs(wk)) * v.vibdpwk) \div 8]
GenVibS1(v) ==
  LET dp == Short(v.vibdpwk + v.vibv2)
  IN  GenVibS2(IF dp >= v.vibdpe THEN [v EXCEPT !.genvib = "S2", !.vibdpwk = v.vibdpe]
               ELSE [v EXCEPT !.vibdpwk = dp])
GenVibS0(v) ==
  LET dp == Short(v.vibdpwk + v.vibv1)
  IN  IF dp >= 16384 THEN [v EXCEPT !.genvib = "S1", !.vibwk = 0, !.vibdpwk = 0]
      ELSE [v EXCEPT !.vibdpwk = dp]

genvib(v) == CASE v.genvib = "S0" -> GenVibS0(v) [] v.genvib = "S1" -> GenVibS1(v)
               [] v.genvib = "S2" -> GenVibS2(v)

-----------------------------------------------------------------------------
(***************************************************************************)
(* The waves.  A block is made sample by sample from the phase cc; what    *)
(* stays behind is the block p, the phase and, when a wave without a loop  *)
(* has come to its end, freq = 0.                                          *)
(***************************************************************************)
Ahead(v, cc) ==
  IF v.genwave = "LP" /\ cc + v.freq >= v.loop_end THEN cc + v.freq - v.loop_w ELSE cc + v.freq
Ends(v, cc) == v.genwave = "NL" /\ cc + v.freq >= v.loop_end

Tabled(v) == v.genwave \in {"LP", "NL"}

\* tbl[o] and tbl[o+1]; what lies behind the table is unknown, 0 here.
At(v, o) == IF o + 1 \in DOMAIN v.pData THEN v.pData[o + 1] ELSE 0

\* MakeWaveLP ... MakeWaveTRI of mus.c: one sample at volume vv.
Sample(v, cc, vv) ==
  LET d1 == At(v, cc \div 16384)
      d2 == ((At(v, cc \div 16384 + 1) - d1) * (cc % 16384)) \div 16384
      half == vv \div 2
      s == Short(cc)
  IN  CASE v.genwave = "SQR" -> IF (cc \div 32768) % 2 = 1 THEN half ELSE -half
        [] v.genwave = "SAW" -> (s * vv) \div 65536
        [] v.genwave = "TRI" -> (Abs(s * half) - half * 16384) \div 16384
        [] Tabled(v)         -> ((d1 + d2) * vv) \div 256

\* mlt.h: the product of two registers' lower halves, signed.
mlt_h(a, b) == Short(a) * Short(b)

\* The same by the assembler routines.
SampleFast(v, cc, vv) ==
  LET d1 == At(v, cc \div 16384)
      d2 == mlt_h(At(v, cc \div 16384 + 1) - d1, cc % 16384) \div 16384
      half == vv \div 2
      up == mlt_h(cc, half)
  IN  CASE v.genwave = "SQR" -> IF Short(cc) < 0 THEN half ELSE -half
        [] v.genwave = "SAW" -> mlt_h(cc, vv) \div 65536
        [] v.genwave = "TRI" -> ((IF Short(cc) < 0 THEN -up ELSE up) - half * 16384) \div 16384
        [] Tabled(v)         -> mlt_h(d1 + d2, vv) \div 256

\* One turn of their loops; b is the block as the turns before it left it.
Turn(code, v, vv, b, i) ==
  LET past == b.past \/ (Tabled(v) /\ b.cc \div 16384 + 1 > v.loop_end \div 16384)
      s    == IF code = "asm" THEN SampleFast(v, b.cc, vv) ELSE Sample(v, b.cc, vv)
  IN  IF b.ended THEN b
      ELSE IF Ends(v, b.cc) THEN [cc |-> b.cc, p |-> b.p, ended |-> TRUE, past |-> past]
      ELSE [cc |-> Ahead(v, b.cc), p |-> [b.p EXCEPT ![i] = UShort(@ + s)],
            ended |-> FALSE, past |-> past]

\* A block of the wave into p, by the routines in code ("c" or "asm").
Mix(code, v, p, vv) ==
  LET after[i \in 0 .. BLKS] ==
        IF i = 0 THEN [cc |-> v.freqwk, p |-> p, ended |-> FALSE, past |-> FALSE]
        ELSE Turn(code, v, vv, after[i - 1], i)
  IN  after[BLKS]

\* Only the lower half of a tone's phase is read; the C routine for the
\* triangle keeps no more.
Phase(v, cc) == IF Tabled(v) THEN cc ELSE UShort(cc)

MakeWave(v, p, vv) ==
  LET b == Mix("c", v, p, vv)
  IN  [p |-> b.p, past |-> b.past,
       v |-> IF b.ended THEN [v EXCEPT !.freq = 0] ELSE [v EXCEPT !.freqwk = Phase(v, b.cc)]]

\* Mutated: the end of a wave is marked as its comment says, in freqwk.
MakeWaveFast_ByComment(v, p, vv) ==
  LET b == Mix("asm", v, p, vv)
  IN  [p |-> b.p, past |-> b.past,
       v |-> IF b.ended THEN [v EXCEPT !.freqwk = 0] ELSE [v EXCEPT !.freqwk = Phase(v, b.cc)]]

MakeWaveFast(v, p, vv) ==
  LET b == Mix("asm", v, p, vv)
  IN  [p |-> b.p, past |-> b.past,
       v |-> IF b.ended THEN [v EXCEPT !.freq = 0] ELSE [v EXCEPT !.freqwk = Phase(v, b.cc)]]

-----------------------------------------------------------------------------
\* BuffFree up to genwave: vibrato, pitch, envelope ...
Generated(v) ==
  LET w == genvib(v)
  IN  genenv([w EXCEPT !.freq = gexp(w.cpitch + w.ptwk1 \div 1024 + w.ptwk2 \div 16384)])

\* ... and volume.
Volume(v) ==
  LET vv == (v.pvol + v.pexp + v.envwk) \div 2
  IN  IF vv <= 11 THEN 0 ELSE gexp(vv)

EmptyBlock == [i \in 1 .. BLKS |-> 0]

\* The part of BuffFree that renders a block: a voice with freq = 0 is left out.
Render ==
  /\ mp.freq # 0
  /\ IF off = -1 THEN held < HOLD /\ held' = held + 1 ELSE UNCHANGED held
  /\ LET g == Generated(mp)
         w == MakeWaveFast(g, EmptyBlock, Volume(g))
     IN  mp' = w.v /\ over' = (over \/ w.past)
  /\ off' = IF off = -1 THEN off ELSE off + 1
  /\ UNCHANGED commands

\* A block in which the voice is silent.
RenderNothing ==
  /\ mp.freq = 0 /\ off \in 0 .. 8
  /\ off' = off + 1
  /\ UNCHANGED <<mp, over, commands, held>>

\* MDEVICE.
Voices ==
  [pData : Seq(SChars), freqwk : Nat, freq : Nat, loop_end : Nat, loop_w : Int,
   ipitch : Int, cpitch : Int, ptwk1 : Int, ptwk2 : Int, envwk : Int, envAR : Nat, envDR : Nat,
   envSL : Int, envSR : Nat, pvol : Int, pexp : Int, vibwk : Int, vibvv : Int,
   vibv1 : Int, vibv2 : Int, vibdpwk : Int, vibdpe : Int,
   genwave : WaveKinds, genenv : {"A", "D", "S", "R"}, genvib : {"S0", "S1", "S2"}]

\* A voice in static storage ...
Zeroed ==
  [pData |-> <<>>, freqwk |-> 0, freq |-> 0, loop_end |-> 0, loop_w |-> 0, ipitch |-> 0,
   cpitch |-> 0, ptwk1 |-> 0, ptwk2 |-> 0, envwk |-> 0, envAR |-> 0, envDR |-> 0, envSL |-> 0,
   envSR |-> 0, pvol |-> 0, pexp |-> 0, vibwk |-> 0, vibvv |-> 0, vibv1 |-> 0, vibv2 |-> 0,
   vibdpwk |-> 0, vibdpe |-> 0, genwave |-> "SQR", genenv |-> "A", genvib |-> "S0"]

\* ... and as StartSeq sets it up.
Fresh == SetVib(SetEnv(SetVol(SetInst(Zeroed, 0), 127), 255, 0, 0, 0), 0, 0, 0, 0)

VoiceInit == mp = Fresh /\ off = -1 /\ over = FALSE /\ commands = CALLS /\ held = 0

\* Commands of a tick: how the voice sounds ...
Shape ==
  /\ \/ \E no \in DOMAIN inst : mp' = SetInst(mp, no)
     \/ \E x \in Vols : mp' = SetVol(mp, x)
     \/ \E x \in Exps : mp' = SetExp(mp, x)
     \/ \E x \in ExpRels : mp' = SetExpRel(mp, x)
     \/ \E e \in Envs : mp' = SetEnv(mp, e[1], e[2], e[3], e[4])
     \/ \E e \in Vibs : mp' = SetVib(mp, e[1], e[2], e[3], e[4])
     \/ \E x \in Slides : mp' = Slide(mp, x)
     \/ \E x \in Pitches : mp' = NotePitch(mp, x)
  /\ UNCHANGED off

\* ... and its key.
KeyOn  == \E x \in Pitches : mp' = NoteOn(mp, x) /\ off' = -1
KeyOff == off = -1 /\ mp' = NoteOff(mp) /\ off' = 0

Command ==
  /\ commands > 0 /\ commands' = commands - 1 /\ held' = 0
  /\ Shape \/ KeyOn \/ KeyOff
  /\ UNCHANGED over

VoiceNext == Render \/ RenderNothing \/ Command

VoiceSpec == VoiceInit /\ [][VoiceNext]_voiceVars

-----------------------------------------------------------------------------
VoiceTyped ==
  /\ mp \in Voices
  /\ off \in -1 .. 9 /\ over \in BOOLEAN /\ commands \in 0 .. CALLS /\ held \in 0 .. HOLD

\* No wave is read behind the sample its interpolation needs last, whatever
\* instrument is set while another one sounds (mus.c:55, 59 and 79).
ReadsInTable == ~over

\* A voice whose key was released is free after eight blocks, for any
\* envelope, and stays so until its next note (mus.c:158).
ReleasedVoiceEnds == off >= 8 => mp.freq = 0

\* The table of a voice ends with a whole sample, and a loop is longer than a step.
LoopFits(v) ==
  /\ Tabled(v) => v.loop_end > 0 /\ v.loop_end % 16384 = 0
  /\ v.genwave = "LP" => 65536 <= v.loop_w /\ v.loop_w <= v.loop_end

\* What the proofs of the two need of a state: the phase lies in a wave that
\* fits, and a released envelope has fallen by ENVRR a block.
VoiceInv ==
  /\ VoiceTyped /\ ~over
  /\ LoopFits(mp)
  /\ mp.freq # 0 /\ Tabled(mp) => mp.freqwk < mp.loop_end
  /\ mp.envwk <= 0
  /\ off >= 0 => mp.genenv = "R"
  /\ off >= 0 /\ mp.freq # 0 => off <= 7 /\ mp.envwk <= -(off * ENVRR)

\* The assembler that is linked and the C it stands for leave the same block
\* and the same voice, as long as the volume fits the multiplier.
FastMixesSame ==
  mp.freq # 0 =>
    LET g == Generated(mp)
    IN  Volume(g) <= 32767 => MakeWaveFast(g, EmptyBlock, Volume(g)) = MakeWave(g, EmptyBlock, Volume(g))
=============================================================================
