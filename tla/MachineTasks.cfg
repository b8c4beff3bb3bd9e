SPECIFICATION Spec
CONSTANTS
  Prints = {p1, p2}
  Inlines = {i1, i2, i3}
  NoTask = NoTask
  Automatic = TRUE
  Blocking = {FALSE, TRUE}
  Ops = {"print","pause","resume","exec","override","StopMachine","ResetMachine","AddDevice"}
  MaxOps = 3
  Faults = {}
  MaxFaults = 0
  MaxMail = 2
SYMMETRY Symmetry
INVARIANT NothingRunsUnseen
PROPERTY RecordsFollowLifecycle
CHECK_DEADLOCK FALSE
