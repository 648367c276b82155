SPECIFICATION FairClientSpec
CONSTANTS
  Main = Main
  Sequential = Sequential
  Contention = Contention
  Contender = Contender
  Database = Database
  Different = Different
  Proc = {Main, Contention, Contender}
  Client1 = Client1
  Client2 = Client2
  Client3 = Client3
  Clients = {Client1, Client2, Client3}
  SharedResource1 = SharedResource1
  SharedResource2 = SharedResource2
  DatabaseAccess = DatabaseAccess
  Locks = {SharedResource1, SharedResource2, DatabaseAccess}
  Script <- ExampleScript
  Lossy = TRUE
  Requests <- EveryLock
  Surface = {"create", "lock", "unlock"}
  NoLock = NoLock
  Free = Free
  Instance = 1
  ManagementDB = 0
  Instances = {0, 1}
  Timeout = 1
  MaxNow = 1
  MaxFaults = 1
  MaxTickets = 9
INVARIANTS ClientTypeOK LeaksOnlyByError HeldLocksExist
PROPERTY ClientsFinish
CHECK_DEADLOCK FALSE
