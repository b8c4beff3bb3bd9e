SPECIFICATION Spec
CONSTANTS
  print = print
  macro = macro
  Task = {print}
  Override = {}
  FromFile = {print}
  Lines <- OneLine
  FIRMWARE_INFO = FIRMWARE_INFO
  AUTOREPORT_TEMP = AUTOREPORT_TEMP
  Bauds = 1
  MaxTickles = 1
  QueueCap = 3
  Faults = {"open"}
  Requests = {"Estop", "Reset", "ResetWhenIdle", "DeviceDiscovered", "DeviceDisconnected", "DeleteTaskHistory", "ProtobufClientConnection", "PauseTask", "Resume"}
  MaxFaults = 1
  MaxRequests = 3
  MaxPolls = 0
  MaxReports = 0
INVARIANTS
  ProgressMatchesSpool
  ConfirmedPauseHolds
PROPERTIES
  SettledIsFinal
  IdleResetSparesTheSpool
CHECK_DEADLOCK FALSE
