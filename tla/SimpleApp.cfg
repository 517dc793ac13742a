CONSTANTS
  MAX_TH = 1
  DCT_CAP = 1
  Times = {0, 1}
  MaxNest = 1
  Nesters = {}
  Uses = {"stop"}
  FRAME = 1
SPECIFICATION FairAppSpec
INVARIANTS
  OsUndisturbed
PROPERTIES
  ErrorNotSilent
  ErrorShown
  ChildrenRun
