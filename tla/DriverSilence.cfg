SPECIFICATION Spec
CONSTANTS
  print = print
  macro = macro
  Task = {print}
  Override = {}
  FromFile = {}
  Lines <- OneLine
  FIRMWARE_INFO = FIRMWARE_INFO
  AUTOREPORT_TEMP = AUTOREPORT_TEMP
  Bauds = 1
  MaxTickles = 1
  QueueCap = 3
  Faults = {"answer"}
  Requests = {}
  MaxFaults = 1
  MaxRequests = 0
  MaxPolls = 0
  MaxReports = 0
INVARIANTS
  SilenceIsTimed
CHECK_DEADLOCK FALSE
