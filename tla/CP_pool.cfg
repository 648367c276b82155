SPECIFICATION FairSpec
CONSTANTS
  p1 = p1
  p2 = p2
  p3 = p3
  Proc = {p1, p2}
  Closers = {p1}
  Instances = {0, 1}
  Asked = {0, 1, 2}
  Conns <- Names
  NoConn = NoConn
  NoBase = NoBase
  Free = Free
  MaxFaults = 1
INVARIANTS TypeOK LateCommandsTakeTurns MutexesHeldByCommands
PROPERTIES SettledStays SilenceIsContained
CHECK_DEADLOCK FALSE
