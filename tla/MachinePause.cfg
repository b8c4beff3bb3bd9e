SPECIFICATION Spec
CONSTANTS
  Prints = {p1}
  Inlines = {i1, i2}
  NoTask = NoTask
  Automatic = FALSE
  Blocking = {FALSE}
  Ops = {"print","pause"}
  MaxOps = 2
  Faults = {}
  MaxFaults = 0
  MaxMail = 2
INVARIANTS PausedMidPrint
CHECK_DEADLOCK FALSE
