\* Two workers; calls fail, streams are closed, the run may be killed.
SPECIFICATION FairSpec
CONSTANTS
  p1 = p1
  p2 = p2
  Pods = {p1, p2}
  Stamps <- ThreeAndNone
  Codes <- OneFails
  MaxFailures = 1
  MaxFaults = 2
  Faults = {"api", "answer", "delete", "kill", "error", "cut", "tear", "late", "slow"}
INVARIANTS TypeOK NothingElseLost EndIsClean
PROPERTIES  BackendEnds
CHECK_DEADLOCK FALSE
