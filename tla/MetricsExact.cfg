\* Two workers; POSTs fail and workers die.
SPECIFICATION Spec
CONSTANTS
  w1 = w1
  w2 = w2
  Workers = {w1, w2}
  MaxLag = 9
  Faults = {"request", "crash"}
  Late = {}
  MaxClock = 4
  MaxSample = 4
SYMMETRY Symmetry
INVARIANTS TypeOK  SeriesIsRight
CHECK_DEADLOCK FALSE
