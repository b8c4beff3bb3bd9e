SPECIFICATION Spec
CONSTANTS
  print = print
  macro = macro
  Task = {print, macro}
  Override = {macro}
  FromFile = {}
  Lines <- ShortLines
  FIRMWARE_INFO = FIRMWARE_INFO
  AUTOREPORT_TEMP = AUTOREPORT_TEMP
  Bauds = 1
  MaxTickles = 1
  QueueCap = 3
  Faults = {}
  Requests = {"PauseTask", "Resume"}
  MaxFaults = 0
  MaxRequests = 1
  MaxPolls = 0
  MaxReports = 0
INVARIANTS
  NoLineRunsTwice
CHECK_DEADLOCK FALSE
