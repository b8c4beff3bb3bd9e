SPECIFICATION Spec
CONSTANTS
  Prints = {p1, p2}
  Inlines = {i1, i2, i3}
  NoTask = NoTask
  Automatic = TRUE
  Blocking = {FALSE}
  Ops = {"print","pause","resume"}
  MaxOps = 3
  Faults = {"connect","compile","kill","disconnected","errored","crash","stream","server"}
  MaxFaults = 1
  MaxMail = 2
SYMMETRY Symmetry
INVARIANTS NeverStranded ResumableHasLeftDriver NothingIsLost
PROPERTY RecordsFollowLifecycle
CHECK_DEADLOCK FALSE
