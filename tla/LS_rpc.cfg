SPECIFICATION FairSpec
CONSTANTS
  p1 = p1
  p2 = p2
  Proc = {p1, p2}
  l1 = l1
  l2 = l2
  Locks = {l1}
  Requests <- One
  Surface = {"create", "lock", "unlock"}
  NoLock = NoLock
  Free = Free
  Instance = 1
  ManagementDB = 0
  Instances = {0, 1}
  Timeout = 1
  MaxNow = 1
  MaxFaults = 1
  MaxTickets = 3
INVARIANTS TypeOK NoGrantOverSettledHold
PROPERTIES RequestsOnlyAdvance SettledWaitersKeepTheirPlace EveryRequestAnswered
