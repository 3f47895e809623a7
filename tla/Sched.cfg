SPECIFICATION MCSpec
CONSTANTS
  FAIRNESS_EVERY = 1
  Cores = {0, 1}
  Primary = 0
  MaxTasks = 3
  Boot = 1
  Spaces = {0, 1}
  Masks = {{0}, {1}}
  Classes = {}
  Parks = {"Blocked", "Sleeping"}
INVARIANTS NoDoubleRun NoStaleContext NoFreedStack SpaceOfRunner RunsWherePinned
PROPERTY KeepsWakeups
CHECK_DEADLOCK FALSE
