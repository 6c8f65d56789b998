\* k6 may end before its Start handler does; no crash, no user.
CONSTANTS
  NRuns = 1
  Mode = "local"
  Store = "dir"
  Policy = "keep_all"
  KeepN = 1
  MaxBoots = 0
  Ops = {}
  HandlerFirst = FALSE
SPECIFICATION FairSpec
PROPERTIES RunsEnd
CHECK_DEADLOCK FALSE
