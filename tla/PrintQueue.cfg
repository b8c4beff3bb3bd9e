SPECIFICATION QueueSpec
CONSTANTS
  Parts = {a1, a2, a3}
  Packages = {k1, k2, k3}
  NoPart = NoPart
  NoPkg = NoPkg
  MaxPrints = 2
  Machines = {mc}
  Clients = {c1, c2}
  Automatic = TRUE
  MaxQuantity = 2
  MaxMoves = 1
  QueueOps = {"print", "move", "quantity", "add", "addStarred", "star", "unstar", "deleteParts", "deletePackage", "failure"}
  MaxQueueOps = 3
SYMMETRY ClientSymmetry
INVARIANTS QuantityRespected PlacesDiffer AutoPrintAccepted DeletedPartsStop PendingHasAFuture TemplatesAreKept
CHECK_DEADLOCK FALSE
