SPECIFICATION Spec
CONSTANTS
  FAIRNESS_EVERY = 1
  Cores = {0, 1}
  Primary = 0
  MaxTasks = 2
  Boot = 1
  Spaces = {0, 1}
  Masks = {}
  Classes = {}
  Parks = {"Blocked", "Sleeping"}
INVARIANT NoFreedSpaceActive
CHECK_DEADLOCK FALSE
