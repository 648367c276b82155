SPECIFICATION Spec
CONSTANTS
  p1 = p1
  p2 = p2
  Proc = {p1, p2}
  l1 = l1
  l2 = l2
  Locks = {l1, l2}
  Requests <- OneAndBoth
  Surface = {"create", "lock", "unlock", "try"}
  NoLock = NoLock
  Free = Free
  Instance = 1
  ManagementDB = 0
  Instances = {0, 1}
  Timeout = 1
  MaxNow = 0
  MaxFaults = 1
  MaxTickets = 2
SYMMETRY Goroutines
PROPERTIES ImplementsLockTable RequestsOnlyAdvance
ACTION_CONSTRAINT StaysInTurn
