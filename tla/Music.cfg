CONSTANTS
  BLKN = 4
  Players = {"smain"}
  Files = {"a", "b"}
  BLKS = 8
  CALLS = 4
  HOLD = 3
  inst <- Instruments
  Vols = {15}
  Exps = {40}
  ExpRels <- MCExpRels
  Envs <- MCEnvs
  Vibs <- MCVibs
  Pitches <- MCPitches
  Slides <- MCSlides
  MCOUNT = 5
  TEMPO = 2
  LEVELS = 3
  Scores <- AllScores
SPECIFICATION MusicSpec
INVARIANTS
  QueueIntact
  DriverReadsWholeScore
  PlaysScore
  ReadsInTable
  ReleasedVoiceEnds
  FastMixesSame
PROPERTIES
  StopReturns
  EndsOnTime
  EverySongEnds
CHECK_DEADLOCK FALSE
