---------------------------- MODULE ExampleClient ----------------------------
(***************************************************************************)
(* example/client/main.go: three clients, three locks and the goroutines   *)
(* of its scenarios, as scripts of SDK calls.  The pauses between calls    *)
(* are left out: a goroutine may take any time between two of them.        *)
(***************************************************************************)
EXTENDS ClientSDK

CONSTANTS
  Client1, Client2, Client3,
  SharedResource1, SharedResource2, DatabaseAccess,
  Sequential, Contention, Contender, Database, Different  \* goroutines

Does(op, c, l) == [op |-> op, client |-> c, lock |-> l]

CreateLocks == <<Does("create", Client1, SharedResource1),
                 Does("create", Client1, SharedResource2),
                 Does("create", Client1, DatabaseAccess)>>

SequentialAccess == <<Does("lock", Client1, SharedResource1),
                      Does("unlock", Client1, SharedResource1),
                      Does("lock", Client2, SharedResource1),
                      Does("unlock", Client2, SharedResource1)>>

LockContention == <<Does("lock", Client1, SharedResource2),
                    Does("lock", Client3, SharedResource2),
                    Does("unlock", Client1, SharedResource2),
                    Does("unlock", Client3, SharedResource2)>>

SecondAttempt == <<Does("lock", Client3, SharedResource2),
                   Does("unlock", Client3, SharedResource2)>>

DatabaseWork == <<Does("lock", Client2, DatabaseAccess),
                  Does("unlock", Client2, DatabaseAccess)>>

DifferentLock == <<Does("lock", Client3, SharedResource1),
                   Does("unlock", Client3, SharedResource1)>>

ExampleScript ==
  [p \in Proc |-> CASE p = Main       -> CreateLocks
                    [] p = Sequential -> SequentialAccess
                    [] p = Contention -> LockContention
                    [] p = Contender  -> SecondAttempt
                    [] p = Database   -> DatabaseWork
                    [] p = Different  -> DifferentLock]

EveryLock == {<<l>> : l \in Locks}
=============================================================================
