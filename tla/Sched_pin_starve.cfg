SPECIFICATION SpinSpec
CONSTANTS
  FAIRNESS_EVERY = 1
  Cores = {0, 1}
  Primary = 0
  MaxTasks = 3
  Boot = 3
  Spaces = {0, 1, 2}
  Masks = {{0}}
  Classes = {}
  Parks = {"Blocked", "Sleeping"}
PROPERTY ReadyRuns
CHECK_DEADLOCK FALSE
