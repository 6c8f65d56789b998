\* A worker that starts late, workers that hang, and a kill.
SPECIFICATION FairSpec
CONSTANTS
  w1 = w1
  w2 = w2
  Workers = {w1, w2}
  MaxLag = 3
  Faults = {"kill"}
  Late = {w2}
  MaxClock = 5
  MaxSample = 2
PROPERTIES NoStall
CHECK_DEADLOCK FALSE
