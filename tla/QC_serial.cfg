SPECIFICATION SerialSpec
CONSTANTS
  p1 = p1
  p2 = p2
  Proc = {p1, p2}
  l1 = l1
  l2 = l2
  Locks = {l1, l2}
  NoLock = NoLock
  Free = Free
  Instance = 1
  ManagementDB = 1
  Instances = {1}
  Timeout = 0
  MaxNow = 1
  MaxFaults = 1
  MaxTickets = 3
SYMMETRY Exchanges
INVARIANTS NextUpIsFirst MutexHeldInside
PROPERTY ImplementsTicketLine
