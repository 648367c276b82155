SPECIFICATION ClientSpec
CONSTANTS
  Main = Main
  Sequential = Sequential
  Contention = Contention
  Contender = Contender
  Database = Database
  Different = Different
  Proc = {Main, Contention}
  Client1 = Client1
  Client2 = Client2
  Client3 = Client3
  Clients = {Client1, Client2, Client3}
  SharedResource1 = SharedResource1
  SharedResource2 = SharedResource2
  DatabaseAccess = DatabaseAccess
  Locks = {SharedResource1, SharedResource2, DatabaseAccess}
  Script <- ExampleScript
  Lossy = FALSE
  Requests <- EveryLock
  Surface = {"create", "lock", "unlock"}
  NoLock = NoLock
  Free = Free
  Instance = 1
  ManagementDB = 0
  Instances = {0, 1}
  Timeout = 1
  MaxNow = 0
  MaxFaults = 0
  MaxTickets = 9
INVARIANT LockBlocksWhileHeld
CHECK_DEADLOCK FALSE
