--------------------------- MODULE SequencerScores ---------------------------
(***************************************************************************)
(* Sequencer with the history of what it plays, to be compared with what   *)
(* its score means: the events and the ends ScoreLanguage works out.       *)
(***************************************************************************)
EXTENDS Sequencer, SequencesExt

VARIABLES
  now,       \* history: ticks begun, counted until the score should be over
  heard      \* history: per part, <<tick, note>> and <<tick, "off">>

\* Scores that have no compiled meaning are played without history.
Meant == score.over # <<>>

ScoreInit == Init /\ now = 0 /\ heard = [p \in Parts |-> <<>>]

NoteStep == at # 0 /\ fetching
            /\ \/ Command.op = "note"
               \/ Command.op = "key" /\ "DRUMS" \notin part[at].tatt

ScoreNext ==
  /\ Next
  /\ now' = IF Meant /\ at = 0 /\ at' = 1 /\ (\E p \in Parts : now <= score.over[p])
            THEN now + 1 ELSE now
  /\ heard' = IF ~Meant THEN heard
              ELSE IF NoteStep THEN [heard EXCEPT ![at] = Append(@, <<now, Command.arg>>)]
              ELSE IF at # 0 /\ key[at] /\ ~key'[at]
              THEN [heard EXCEPT ![at] = Append(@, <<now, "off">>)]
              ELSE heard

scoreVars == <<vars, now, heard>>

ScoreSpec == ScoreInit /\ [][ScoreNext]_scoreVars /\ WF_scoreVars(ScoreNext)

\* Every part plays what its score means: the right notes, started and released
\* on the right ticks, through every nesting of loops, breaks, calls and drums.
PlaysScore == Meant => \A p \in Parts : IsPrefix(heard[p], score.events[p])

\* A part ends when its score is over, neither a tick early nor late, with
\* nothing left out.
EndsOnTime ==
  [][Meant => \A p \in Parts : part[p].run # 0 /\ part'[p].run = 0 =>
       now = score.over[p] /\ heard[p] = score.events[p]]_scoreVars
=============================================================================
