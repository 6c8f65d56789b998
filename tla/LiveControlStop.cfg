\* Lost PATCHes and a k6 that may hang, in any interleaving.
SPECIFICATION FairSpec
CONSTANTS
  Instances = {i1}
  Users = {u1}
  Plan <- Steady
  MaxVUs = 2
  MinBuffer = 2
  MaxBuffer = 3
  VUChoices = {3}
  DurChoices = {3}
  Cluster = FALSE
  RestPause = FALSE
  Calls = {"vus", "pause", "duration", "stop"}
  Overlap = TRUE
  Faults = TRUE
  MaxClock = 3
INVARIANT ElapsedIsRan
PROPERTIES RunsAreStopped
CHECK_DEADLOCK FALSE
