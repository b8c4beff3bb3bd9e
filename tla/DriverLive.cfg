SPECIFICATION FairSpec
CONSTANTS
  print = print
  macro = macro
  Task = {print}
  Override = {}
  FromFile = {print}
  Lines <- OneLine
  FIRMWARE_INFO = FIRMWARE_INFO
  AUTOREPORT_TEMP = AUTOREPORT_TEMP
  Bauds = 1
  MaxTickles = 1
  QueueCap = 3
  Faults = {"newline", "corrupt", "unplug"}
  Requests = {}
  MaxFaults = 2
  MaxRequests = 0
  MaxPolls = 0
  MaxReports = 0
PROPERTIES
  AcceptedTasksEnd
CHECK_DEADLOCK FALSE
