SPECIFICATION Spec
CONSTANTS
  print = print
  macro = macro
  Task = {print, macro}
  Override = {macro}
  FromFile = {print}
  Lines <- ShortLines
  FIRMWARE_INFO = FIRMWARE_INFO
  AUTOREPORT_TEMP = AUTOREPORT_TEMP
  Bauds = 1
  MaxTickles = 1
  QueueCap = 3
  Faults = {"corrupt", "newline", "answer", "unplug", "open", "early", "reboot", "file", "Error"}
  Requests = {}
  MaxFaults = 2
  MaxRequests = 0
  MaxPolls = 0
  MaxReports = 1
INVARIANTS
  TypeOK
  FirmwareRunsInOrder
  DelaysMatchState
PROPERTIES
  SettledIsFinal
CHECK_DEADLOCK FALSE
