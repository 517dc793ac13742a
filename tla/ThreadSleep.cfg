CONSTANTS
  MAX_TH = 1
  DCT_CAP = 1
  Times = {0, 1, 3}
  MaxNest = 1
  Nesters = {}
  Uses = {"join"}
SPECIFICATION FairSleepSpec
PROPERTIES
  EarlyByOneGapAtMost
  ReadyRuns
  SleepEnds
