\* Two cluster runs, of which keep_last_n keeps one; a crash, or a shutdown
\* that must record both.
CONSTANTS
  NRuns = 2
  Mode = "cluster"
  Store = "dir"
  Policy = "keep_last_n"
  KeepN = 1
  MaxBoots = 1
  Ops = {"shutdown", "crash"}
  HandlerFirst = TRUE
SPECIFICATION Spec
INVARIANTS NoOrphans ShutdownRecords
 
CHECK_DEADLOCK FALSE
