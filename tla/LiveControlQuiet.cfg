\* Every control call, one at a time.
SPECIFICATION Spec
CONSTANTS
  Instances = {i1}
  Users = {u1}
  Plan <- UpDown
  MaxVUs = 3
  MinBuffer = 2
  MaxBuffer = 3
  VUChoices = {2, 5}
  DurChoices = {2, 6}
  Cluster = FALSE
  RestPause = TRUE
  Calls = {"vus", "resume", "pause", "duration", "stop", "kill"}
  Overlap = FALSE
  Faults = FALSE
  MaxClock = 6
INVARIANTS TypeOK K6Agrees
PROPERTIES NeverStopsEarly
CHECK_DEADLOCK FALSE
