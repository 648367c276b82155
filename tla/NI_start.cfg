SPECIFICATION Spec
CONSTANTS
  n1 = n1
  n2 = n2
  n3 = n3
  Node = {n1, n2, n3}
  NoPath = {}
  Cluster = {n3}
  NoFile = NoFile
  Torn = Torn
  MaxIds = 3
  MaxStarts = 6
INVARIANTS TypeOK LateStartsAgree
PROPERTY SettledFileStays
CHECK_DEADLOCK FALSE
