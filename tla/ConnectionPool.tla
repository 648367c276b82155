--------------------------- MODULE ConnectionPool ---------------------------
(***************************************************************************)
(* internal/handler/redis.go: the pool of Redis connections that all       *)
(* request goroutines share.                                               *)
(*                                                                         *)
(* The pool is a global map, one connection per database, filled by        *)
(* whoever finds no entry.  No mutex guards the map: RedisConnection reads *)
(* the variable, looks the database up, dials and stores in separate       *)
(* steps, and those of other goroutines run in between.  A connection has  *)
(* a mutex of its own, held for the time of a command.                     *)
(*                                                                         *)
(* Two goroutines inside the map at once, one of them writing, are a data  *)
(* race: the accesses happen in either order, or the runtime notices and   *)
(* ends the process.                                                       *)
(***************************************************************************)
EXTENDS Naturals, FiniteSets

CONSTANTS
  Proc,       \* request goroutines
  Closers,    \* those that may also call the two Close functions
  Instances,  \* databases the configuration declares
  Asked,      \* databases requests ask for
  Conns,      \* names of connections, numbers; a name nobody holds is used again
  NoConn,     \* no connection
  NoBase,     \* no database, for a goroutine that is in no request
  Free,       \* owner of a mutex nobody holds
  MaxFaults   \* bound: failed dials, connections gone silent, ends of the process

ASSUME ConnsAssumption == Conns \subseteq Nat /\ NoConn \notin Conns
ASSUME BasesAssumption == NoBase \notin Instances \cup Asked
ASSUME FreeAssumption == Free \notin Proc /\ Closers \subseteq Proc
ASSUME FaultsAssumption == MaxFaults \in Nat

VARIABLES
  made,    \* redisConnectionPool is not nil
  pool,    \* its entry for every declared database, or NoConn
  hold,    \* per connection, the goroutine that holds its mutex
  silent,  \* connections on which Redis does not answer any more
  closed,  \* connections that were closed
  use,     \* per goroutine, what it does with the pool
  faults   \* faults so far

vars == <<made, pool, hold, silent, closed, use, faults>>
connVars == <<hold, silent, closed>>

(* "late" says that the database was settled (see below) when the request  *)
(* arrived, and was not closed since.                                      *)
Uses == [at : {"idle", "check", "make", "lookup", "dial", "store", "ready", "lock",
               "command", "closing", "delete"},
         base : Instances \cup {NoBase}, conn : Conns \cup {NoConn},
         left : SUBSET Instances, late : BOOLEAN]

IdleUse == [at |-> "idle", base |-> NoBase, conn |-> NoConn, left |-> {}, late |-> FALSE]

At(p, label) == use[p].at = label
Entry(p) == pool[use[p].base]

Goto(p, label) == use' = [use EXCEPT ![p].at = label]
Take(p, c, label) == use' = [use EXCEPT ![p].at = label, ![p].conn = c]

(* Nobody is about to replace the map, or to add, close or remove the      *)
(* entry of the database.                                                  *)
Quiet(i) ==
  \A p \in Proc :
    /\ use[p].at # "make"
    /\ use[p].base = i => use[p].at \notin {"dial", "store", "delete"}
    /\ i \notin use[p].left

Settled(i) == i \in Instances /\ pool[i] # NoConn /\ Quiet(i)

-----------------------------------------------------------------------------
(* RedisConnection.  A database the configuration does not declare is      *)
(* refused before anything else.                                           *)

MutDeclared(i) == TRUE
Declared(i) == i \in Instances

Ask(p, i) ==
  /\ At(p, "idle")
  /\ Declared(i)
  /\ use' = [use EXCEPT ![p] = [IdleUse EXCEPT !.at = "check", !.base = i,
                                               !.late = Settled(i)]]
  /\ UNCHANGED <<made, pool, connVars, faults>>

MutUnmade == TRUE
Unmade == ~made

CheckMap(p) ==
  /\ At(p, "check")
  /\ Goto(p, IF Unmade THEN "make" ELSE "lookup")
  /\ UNCHANGED <<made, pool, connVars, faults>>

(* The new map takes the place of whatever map is there by now.            *)
MakeMap(p) ==
  /\ At(p, "make")
  /\ made' = TRUE
  /\ pool' = [i \in Instances |-> NoConn]
  /\ Goto(p, "lookup")
  /\ UNCHANGED <<connVars, faults>>

MutLookup(p) == At(p, "lookup") /\ Goto(p, "dial") /\ UNCHANGED <<made, pool, connVars, faults>>
Lookup(p) ==
  /\ At(p, "lookup")
  /\ IF Entry(p) = NoConn THEN Goto(p, "dial") ELSE Take(p, Entry(p), "ready")
  /\ UNCHANGED <<made, pool, connVars, faults>>

(* generateNewRedisConnection: a client and a mutex nobody else has; the   *)
(* test goes over a connection of its own.                                 *)
Fresh == {c \in Conns : (\A i \in Instances : pool[i] # c) /\ (\A p \in Proc : use[p].conn # c)}

Connect(p) ==
  /\ At(p, "dial")
  /\ \E c \in Fresh :
       /\ \A d \in Fresh : c <= d
       /\ Take(p, c, "store")
       /\ hold' = [hold EXCEPT ![c] = Free]
       /\ silent' = silent \ {c} /\ closed' = closed \ {c}
  /\ UNCHANGED <<made, pool, faults>>

Store(p) ==
  /\ At(p, "store")
  /\ pool' = [pool EXCEPT ![use[p].base] = use[p].conn]
  /\ Goto(p, "ready")
  /\ UNCHANGED <<made, connVars, faults>>

-----------------------------------------------------------------------------
(* Get, Set, Exists and Delete: one command, under the connection's mutex. *)
(* A request sends any number of them over the connection it was given.    *)

Command(p) ==
  At(p, "ready") /\ Goto(p, "lock") /\ UNCHANGED <<made, pool, connVars, faults>>

MutMutex(c) == CHOOSE d \in Conns : TRUE
Mutex(c) == c

MutMayEnter(c) == TRUE
MayEnter(c) == hold[Mutex(c)] = Free

LockHold(p) ==
  /\ At(p, "lock")
  /\ MayEnter(use[p].conn)
  /\ hold' = [hold EXCEPT ![Mutex(use[p].conn)] = p]
  /\ Goto(p, "command")
  /\ UNCHANGED <<made, pool, silent, closed, faults>>

(* Redis answers, or the client does because it was closed.                *)
MutAfterCommand(p) ==
  hold' = [hold EXCEPT ![Mutex(use[p].conn)] = IF use[p].conn \in closed THEN @ ELSE Free]

AfterCommand(p) == hold' = [hold EXCEPT ![Mutex(use[p].conn)] = Free]

Answered(p) ==
  /\ At(p, "command")
  /\ use[p].conn \in silent => use[p].conn \in closed
  /\ AfterCommand(p)
  /\ Goto(p, "ready")
  /\ UNCHANGED <<made, pool, silent, closed, faults>>

Finish(p) ==
  /\ At(p, "ready")
  /\ use' = [use EXCEPT ![p] = IdleUse]
  /\ UNCHANGED <<made, pool, connVars, faults>>

-----------------------------------------------------------------------------
(* CloseSingleRedisConnection, and CloseRedisConnections, which does the   *)
(* same for every entry of the map.  Neither waits for a command.          *)

StartClose(p, bases) ==
  /\ p \in Closers /\ At(p, "idle")
  /\ use' = [q \in Proc |->
               IF q = p THEN [IdleUse EXCEPT !.at = "closing", !.left = bases]
               ELSE [use[q] EXCEPT !.late = @ /\ use[q].base \notin bases]]
  /\ UNCHANGED <<made, pool, connVars, faults>>

CloseSingle(p, i) == StartClose(p, {i} \cap Instances)
CloseAll(p) == StartClose(p, {i \in Instances : pool[i] # NoConn})

CloseClient(p) ==
  /\ At(p, "closing")
  /\ \E i \in use[p].left :
       /\ pool[i] # NoConn
       /\ use' = [use EXCEPT ![p].at = "delete", ![p].base = i]
       /\ closed' = closed \cup {pool[i]}
  /\ UNCHANGED <<made, pool, hold, silent, faults>>

DeleteEntry(p) ==
  /\ At(p, "delete")
  /\ pool' = [pool EXCEPT ![use[p].base] = NoConn]
  /\ use' = [use EXCEPT ![p].at = "closing", ![p].base = NoBase, ![p].left = @ \ {use[p].base}]
  /\ UNCHANGED <<made, connVars, faults>>

CloseReturns(p) ==
  /\ At(p, "closing")
  /\ \A i \in use[p].left : pool[i] = NoConn
  /\ use' = [use EXCEPT ![p] = IdleUse]
  /\ UNCHANGED <<made, pool, connVars, faults>>

-----------------------------------------------------------------------------
(* Faults.                                                                 *)

Fails == faults < MaxFaults /\ faults' = faults + 1

(* The connection test fails: the request is answered with an error, and   *)
(* nothing is stored.                                                      *)
ConnectFails(p) ==
  /\ At(p, "dial")
  /\ Fails
  /\ use' = [use EXCEPT ![p] = IdleUse]
  /\ UNCHANGED <<made, pool, connVars>>

GoesSilent(c) ==
  /\ Fails
  /\ c \in {use[p].conn : p \in Proc} /\ c \notin silent
  /\ silent' = silent \cup {c}
  /\ UNCHANGED <<made, pool, hold, closed, use>>

(* The process ends, and a new one starts with a nil map.                  *)
Dies ==
  /\ Fails
  /\ made' = FALSE
  /\ pool' = [i \in Instances |-> NoConn]
  /\ hold' = [c \in Conns |-> Free]
  /\ silent' = {} /\ closed' = {}
  /\ use' = [p \in Proc |-> IdleUse]

Writing == {"store", "delete"}
InMap == {"lookup", "closing"} \cup Writing

(* "fatal error: concurrent map writes", or "... read and map write".      *)
MapRace(p, q) == p # q /\ use[p].at \in Writing /\ use[q].at \in InMap /\ Dies

(* log.Fatalf when there is no client.                                     *)
NoClient(p) == At(p, "dial") /\ Dies

Killed == Dies

-----------------------------------------------------------------------------
Init ==
  /\ made = FALSE
  /\ pool = [i \in Instances |-> NoConn]
  /\ hold = [c \in Conns |-> Free]
  /\ silent = {} /\ closed = {}
  /\ use = [p \in Proc |-> IdleUse]
  /\ faults = 0

RedisConnection(p) == CheckMap(p) \/ MakeMap(p) \/ Lookup(p) \/ Connect(p) \/ Store(p)
Close(p) == CloseClient(p) \/ DeleteEntry(p) \/ CloseReturns(p)

Call(p) ==
  \/ \E i \in Asked : Ask(p, i) \/ CloseSingle(p, i)
  \/ CloseAll(p)
  \/ Command(p)
  \/ Finish(p)

Fault(p) == ConnectFails(p) \/ NoClient(p) \/ \E q \in Proc : MapRace(p, q)

Next ==
  \/ \E p \in Proc :
       Call(p) \/ RedisConnection(p) \/ LockHold(p) \/ Answered(p) \/ Close(p) \/ Fault(p)
  \/ \E c \in Conns : GoesSilent(c)
  \/ Killed

Spec == Init /\ [][Next]_vars

(* Goroutines run, Redis answers where it is not silent, and sync.Mutex    *)
(* starves nobody.                                                         *)
Fairness ==
  \A p \in Proc :
    /\ WF_vars(RedisConnection(p) \/ Answered(p) \/ Close(p))
    /\ SF_vars(LockHold(p))

FairSpec == Spec /\ Fairness
-----------------------------------------------------------------------------
(* The variables hold values of their types: no request gets past          *)
(* RedisConnection with a database the configuration does not declare.     *)
TypeOK ==
  /\ made \in BOOLEAN
  /\ pool \in [Instances -> Conns \cup {NoConn}]
  /\ hold \in [Conns -> Proc \cup {Free}]
  /\ silent \subseteq Conns /\ closed \subseteq Conns
  /\ use \in [Proc -> Uses]
  /\ faults \in Nat

(* First uses of a database may race, replace each other's connection or   *)
(* even the whole map.  Once they are over, the connection in the pool is  *)
(* the one of its database until it is closed or the process ends: no map  *)
(* is made and no connection dialed again, whatever else is going on.      *)
Undisturbed(i) == made' /\ \A p \in Proc : i \notin use'[p].left

SettledStays ==
  [][\A i \in Instances :
       Settled(i) /\ Undisturbed(i) => Settled(i)' /\ pool'[i] = pool[i]]_vars

(* What the pool is for: of the requests that came to a settled database,  *)
(* one at a time has a command under way.  It takes the reuse of the       *)
(* connection and the mutex together.                                      *)
LateCommandsTakeTurns ==
  \A p, q \in Proc :
    At(p, "command") /\ At(q, "command") /\ use[p].late /\ use[q].late
      /\ use[p].base = use[q].base => p = q

(* The mutex of a connection is held by a command under way on it, or by   *)
(* nobody: no answer, error, closed or replaced connection leaves it       *)
(* locked, and whoever waits for it waits for Redis.                       *)
MutexesHeldByCommands ==
  \A c \in Conns : hold[c] # Free => At(hold[c], "command") /\ use[hold[c]].conn = c

(* A connection on which Redis does not answer holds up the requests that  *)
(* use it, and no other: RedisConnection and every command come to an end, *)
(* whatever the connections of other databases do.                         *)
InCall(p) == use[p].at \notin {"idle", "ready"}

SilenceIsContained ==
  \A p \in Proc : InCall(p) ~> (~InCall(p) \/ use[p].conn \in silent)

-----------------------------------------------------------------------------
(* The inductive invariant behind the safety properties.                   *)

(* What a goroutine has at a step.                                         *)
UseOK(u) ==
  /\ u.base = NoBase <=> u.at \in {"idle", "closing"}
  /\ u.conn # NoConn <=> u.at \in {"store", "ready", "lock", "command"}
  /\ u.left # {} => u.at \in {"closing", "delete"}
  /\ u.at \in {"lookup", "dial", "store"} => made

(* A late request finds its database settled for as long as it runs, so    *)
(* the connection it was given is the one in the pool.                     *)
LateOK(u) ==
  u.late => /\ Settled(u.base)
            /\ u.conn \in {NoConn, pool[u.base]}
            /\ u.at \notin {"idle", "make", "dial", "store", "closing", "delete"}

PoolInv ==
  /\ TypeOK
  /\ \A i \in Instances : pool[i] # NoConn => made
  /\ \A p \in Proc : UseOK(use[p]) /\ LateOK(use[p])
  /\ \A p \in Proc : At(p, "command") => hold[use[p].conn] = p
=============================================================================
