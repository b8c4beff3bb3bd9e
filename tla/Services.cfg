SPECIFICATION Spec
CONSTANTS
  ChunkPayload = 3
  MessagePayload = 4
  FilePayload = 3
  Sessions = {s1, s2}
  Shapes <- MCShapes
  MaxSent = 2
  MaxLinkFaults = 1
  People = {p1, p2}
  Codes = {c1}
  Desks = {d1, d2}
  MaxRequests = 4
  MaxRestarts = 1
  Machines = {m1, m2}
  Materials = {x1}
  Clients = {1, 2}
  MaxEdits = 3
  MaxFleetFaults = 1
  Files <- MCFiles
  LongNames = {"b"}
  MaxPlugs = 3
INVARIANTS
  DeliveredIntact
  NothingStaysPartial
  RefusalHasACause
  AnswersDecode
  InviteAdmitsOnce
  AnAdminRemains
  NothingOverwrittenUnseen
  TargetsCurrent
  StoresAgree
  DriverCatchesUp
  NoPortMissed
  NoPortLeft
PROPERTY ClientsGetConnected
CHECK_DEADLOCK FALSE
