SPECIFICATION Spec
CONSTANTS
  print = print
  macro = macro
  Task = {print, macro}
  Override = {macro}
  FromFile = {print}
  Lines <- MarkLines
  FIRMWARE_INFO = FIRMWARE_INFO
  AUTOREPORT_TEMP = AUTOREPORT_TEMP
  Bauds = 1
  MaxTickles = 1
  QueueCap = 3
  Faults = {}
  Requests = {"PauseTask", "PausedForUser", "Autoreport", "Busy", "Unknown"}
  MaxFaults = 0
  MaxRequests = 1
  MaxPolls = 1
  MaxReports = 2
INVARIANTS
  ProgressMatchesSpool
  TasksAccountedFor
  LineNumbersInStep
  ErrorsHaveACause
  PollsAwaitTheirTurn
CHECK_DEADLOCK FALSE
