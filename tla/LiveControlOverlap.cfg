\* Two instances; ticks, seconds and calls in any interleaving.
SPECIFICATION Spec
CONSTANTS
  Instances = {i1, i2}
  Users = {u1}
  Plan <- UpDown
  MaxVUs = 3
  MinBuffer = 2
  MaxBuffer = 3
  VUChoices = {2}
  DurChoices = {3, 6}
  Cluster = TRUE
  RestPause = FALSE
  Calls = {"resume", "duration", "stop", "kill"}
  Overlap = TRUE
  Faults = FALSE
  MaxClock = 5
INVARIANTS PlanFollowed EndsOnTime
CHECK_DEADLOCK FALSE
