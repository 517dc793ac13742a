CONSTANTS
  MAX_TH = 2
  DCT_CAP = 1
  Times = {0, 1}
  MaxNest = 1
  Nesters = {}
  Uses = {"join"}
SPECIFICATION JoinSpec
INVARIANT JoinEndsWithTarget
