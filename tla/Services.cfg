\* Plans of every kind of node, two pieces side by side; two requests at once
\* about accounts; saves and lists of documents; two browsers and two publishers.
SPECIFICATION MCSpec
CONSTANTS
  c1 = c1
  c2 = c2
  Jobs <- MCJobs
  Conds = {"c", "d"}
  Statuses = {200, 404}
  Rands = {0, 1, 2}
  MaxIter = 2
  MayHold = TRUE
  MinBuffer = 5
  MaxBuffer = 24
  Lengths = {0, 1, 2, 3, 4}
  Counts = {0, 1, 2, 5}
  Ids = {"u1", "u2"}
  Emails = {"a", "b"}
  Passwords = {"p", "q"}
  Roles = {"admin", "viewer"}
  Tokens = {"t1", "t2"}
  Callers = {c1, c2}
  Alone <- MCAlone
  Docs = {1, 2, 3, 4}
  Contents = {"", "x"}
  BuiltIns = {"fragment"}
  Editors = {1}
  ListKinds = {"plan"}
  Limit = 1
  MaxNow = 4
  Clients = {1, 2}
  Publishers = {1, 2}
  Channels = {"m"}
  MaxFrames = 2
  SendQueue = 1
SYMMETRY Symmetry
INVARIANT ServicesTypeOK
INVARIANT ScriptIsThePlan
INVARIANT ImportsKeep
INVARIANT LoadIsRight
 
 
INVARIANT HistoryAgrees
 
INVARIANT FramesInOrder
 
CHECK_DEADLOCK FALSE
