SPECIFICATION Spec
CONSTANTS
  p1 = p1
  p2 = p2
  Proc = {p1, p2}
  l1 = l1
  l2 = l2
  Locks = {l1}
  Requests <- One
  Surface = {"create", "lock"}
  NoLock = NoLock
  Free = Free
  Instance = 1
  ManagementDB = 0
  Instances = {1}
  Timeout = 1
  MaxNow = 0
  MaxFaults = 0
  MaxTickets = 2
INVARIANT NoDoubleGrant
