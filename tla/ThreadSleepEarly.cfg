CONSTANTS
  MAX_TH = 1
  DCT_CAP = 2
  Times = {0, 1, 4}
  MaxNest = 1
  Nesters = {}
  Uses = {"join"}
SPECIFICATION SleepSpec
PROPERTY NeverEarly
