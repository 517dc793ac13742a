\* Two children, the parent and the idle thread: child 0 nests the lock and
\* sleeps while it holds it, the others do not (MCThreads has the rest).
CONSTANTS
  MAX_TH = 2
  DCT_CAP = 1
  Times = {0, 1}
  Nesters = {0}
  MaxNest = 2
  Uses = {"join", "stop"}
SPECIFICATION MCSpec
INVARIANTS
  CriticalSectionsExclude
  OnlyReadyRun
  LockHasOwner
  ResumesSavedFrame
PROPERTY NeverPassesReady
