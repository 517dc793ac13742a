CONSTANTS
  BLKN = 4
  Players = {"smain", "other"}
  Files = {"a", "b"}
SPECIFICATION Spec
INVARIANT
  PlaysLoadedFile
