-------------------------------- MODULE MCMusic --------------------------------
(***************************************************************************)
(* The music library for TLC: a simple program (PmdPlay) and the player    *)
(* fpkplay as clients of the output ring, the sequencer with the scores of *)
(* MCSequencer, and a voice of the tone generator.  One of the four runs,  *)
(* the others rest; the two clients share the ring's variables.            *)
(***************************************************************************)
EXTENDS PmdPlay, MCSequencer, Voice, TLC

CONSTANTS
  MCOUNT, TEMPO, LEVELS, Scores    \* Sequencer

ASSUME MusicAssumption ==
  /\ Players # {} /\ Files # {}
  /\ MCOUNT \in Nat \ {0} /\ TEMPO \in 1 .. MCOUNT /\ LEVELS \in Nat \ {0}

VARIABLES
  mode,
  player, todo, active,
  song, part, key, tempo, tempowk, parts_run, at, fetching, now, notes

(***************************************************************************)
(* Instruments as instdef.c numbers them: the tones, a wave with a loop    *)
(* (wavetable.c), and a drum that has the guard sample, cut to six samples.*)
(***************************************************************************)
Tone(w)  == [wave |-> w, pitch_fs |-> 42903, pitch_org |-> 42903 - 6144, data |-> <<>>, top |-> 0, end |-> 65536]
Square   == <<0>> \o [i \in 1 .. 16 |-> 127] \o <<0>> \o [i \in 1 .. 16 |-> -127] \o <<0>>
Instruments ==
  (0 :> Tone("SQR")) @@ (1 :> Tone("SAW")) @@ (2 :> Tone("TRI"))
  @@ (3 :> [Tone("LP") EXCEPT !.pitch_org = 42903 - 15629, !.data = Square, !.end = 34 * 16384])
  @@ (6 :> [Tone("NL") EXCEPT !.pitch_org = 24672, !.data = <<5, -8, 40, 0, 127, -127, 3>>, !.end = 6 * 16384])

MCExpRels == {-5}
MCEnvs    == {<<150, 150, 60, 130>>}
MCVibs    == {<<255, 200, 190, 190>>}
MCPitches == {60 * 256, 97 * 256 + 13}
MCSlides  == {-12}

F == INSTANCE Fpkplay WITH pc <- player
S == INSTANCE SequencerScores WITH score <- song, runf <- parts_run, heard <- notes

ringVars   == <<driver, stream>>
playerVars == <<player, todo, active>>
simpleVars == <<pc, src, file, owner, initflag, pmdbuff, score>>
scoreVars  == <<song, part, key, tempo, tempowk, parts_run, at, fetching, now, notes>>
allVars    == <<mode, ringVars, playerVars, simpleVars, scoreVars, voiceVars>>

AnyScore == CHOOSE s \in Scores : TRUE
AnyFile  == CHOOSE f \in Files : TRUE

MusicInit ==
  /\ mode \in {"fpkplay", "pmdplay", "sequencer", "voice"}
  /\ IF mode = "sequencer" THEN TRUE ELSE song = AnyScore
  /\ IF mode = "fpkplay" THEN TRUE ELSE player = "idle"
  /\ IF mode = "pmdplay" THEN TRUE
     ELSE file = [p \in Players |-> AnyFile] /\ pmdbuff = [h \in {0, 1} |-> AnyFile]
  /\ Init /\ F!Init /\ S!ScoreInit /\ VoiceInit

InPlayer(A) == mode = "fpkplay" /\ A /\ UNCHANGED <<mode, simpleVars, scoreVars, voiceVars>>

Plays     == InPlayer(F!Next)
Simple    == mode = "pmdplay" /\ Next /\ UNCHANGED <<mode, playerVars, scoreVars, voiceVars>>
Sequences == mode = "sequencer" /\ S!ScoreNext /\ UNCHANGED <<mode, ringVars, playerVars, simpleVars, voiceVars>>
Sounds    == mode = "voice" /\ VoiceNext /\ UNCHANGED <<mode, ringVars, playerVars, simpleVars, scoreVars>>

MusicNext == Plays \/ Simple \/ Sequences \/ Sounds

\* The fairness of Fpkplay and of SequencerScores.
MusicSpec ==
  /\ MusicInit /\ [][MusicNext]_allVars
  /\ WF_allVars(InPlayer(F!MainStep)) /\ WF_allVars(InPlayer(F!Interrupt))
  /\ WF_allVars(Sequences)

-----------------------------------------------------------------------------
\* Stopping the music immediately comes to an end (Fpkplay).
StopReturns == F!StopReturns

\* Every part plays what its score means (SequencerScores).
PlaysScore == S!PlaysScore

\* A part ends when its score is over, not a tick early or late (SequencerScores).
EndsOnTime == S!EndsOnTime

\* Every score without jumps that is played comes to its end, and ProcSeq
\* returns whatever the score says (Sequencer).
EverySongEnds == mode = "sequencer" => S!SongEnds /\ S!ProcSeqReturns
=============================================================================
