---------------------------- MODULE LockService ----------------------------
(***************************************************************************)
(* The gRPC handlers Create, Lock and Unlock (internal/services/dislo), and *)
(* TryAcquireLock, which the package offers but no handler calls, over the *)
(* queue manager.                                                          *)
(*                                                                         *)
(* gRPC runs every request in a goroutine of its own.  A request names a   *)
(* list of locks and works through it, lock by lock: check that the lock   *)
(* exists, read its status, write the new one, call the queue manager.     *)
(* Each of these is a Redis command of its own, and no mutex is held from  *)
(* one to the next.  The first error ends the request; what was done for   *)
(* the locks before it stays done.                                         *)
(*                                                                         *)
(* Requests the handlers refuse for their form (a missing correlation id,  *)
(* client id or lock id, an unknown namespace) change nothing and are left *)
(* out.  The client id is stored in the queue and never read again, so     *)
(* clients are told apart by their queue ids alone.                        *)
(***************************************************************************)
EXTENDS QueueManager

CONSTANTS
  Surface,    \* the calls clients make, a subset of {"create", "lock", "unlock", "try"}
  Requests,   \* the lists of locks a request may name
  MaxTickets  \* bound: no Lock arrives once queue ids issued and Locks under way reach it

ASSUME SurfaceAssumption == Surface \subseteq {"create", "lock", "unlock", "try"}
ASSUME RequestsAssumption == Requests \subseteq Seq(Locks) \ {<<>>}
ASSUME MaxTicketsAssumption == MaxTickets \in Nat

VARIABLES
  status,  \* the ":lock" key of every lock, "ABSENT" when there is none
  call,    \* per goroutine, its request
  told,    \* per lock, the queue ids returned to clients
  held,    \* history: granted locks no other request can have freed since
  line     \* history: the queue as of the last time nobody was joining it

historyVars == <<held, line>>
vars == <<queueVars, status, call, told, historyVars>>

Statuses == {"ABSENT", "PENDING_CREATION", "UNLOCKED", "LOCKED"}

(* A request: the step it is at, the locks it has still to do, the locks   *)
(* it was granted, and those of "held" it found when it arrived that were  *)
(* not freed since.                                                        *)
Calls == [op : {"none", "create", "lock", "unlock", "try"},
          at : {"idle", "exists", "status", "pending", "free", "lock", "unlock",
                "schedule", "position", "release", "acquire", "done"},
          todo : Seq(Locks), won : SUBSET Locks, late : SUBSET Locks,
          res : {"none", "ok", "error"}]

IdleCall == [op |-> "none", at |-> "idle", todo |-> <<>>, won |-> {}, late |-> {},
             res |-> "none"]

Doing(p, op, label) == call[p].op = op /\ call[p].at = label

Current(p) == Head(call[p].todo)

(* A request c that may still write something else than LOCKED to l: an    *)
(* Unlock that has the lock before it, a Create past its check that there  *)
(* is no such lock.                                                        *)
MayFree(c, l) ==
  \/ c.op = "unlock" /\ c.at # "done" /\ l \in Range(c.todo)
  \/ c.at \in {"pending", "free"} /\ Head(c.todo) = l

Freers(l) == {p \in Proc : MayFree(call[p], l)}

(* Requests inside addToQueue.                                             *)
Joiners(l) == {p \in Proc : frame[p].op = "schedule" /\ frame[p].at # "done"
                              /\ frame[p].lock = l}

Answer(p, r) == call' = [call EXCEPT ![p].at = "done", ![p].res = r]

Advance(p, label) == call' = [call EXCEPT ![p].at = label]

(* The lock is done, and the client was granted the locks of "grants": the *)
(* request goes on with the next of its list.                              *)
GoOn(p, rest, grants) ==
  call' = [call EXCEPT ![p].todo = rest, ![p].won = @ \cup grants,
                       ![p].at = IF rest = <<>> THEN "done" ELSE "exists",
                       ![p].res = IF rest = <<>> THEN "ok" ELSE "none"]

MutNextLock(p, grants) == GoOn(p, call[p].todo, grants)
NextLock(p, grants) == GoOn(p, Tail(call[p].todo), grants)

-----------------------------------------------------------------------------
(* A request arrives, and its answer reaches the client.                   *)

(* An Unlock of a lock makes its grant uncertain for everyone.             *)
Receive(p, op, locks) ==
  LET disturbed == IF op = "unlock" THEN Range(locks) ELSE {}
      certain   == held \ disturbed
  IN  /\ op \in Surface
      /\ call[p].at = "idle"
      /\ held' = certain
      /\ call' = [q \in Proc |->
                    IF q = p
                    THEN [IdleCall EXCEPT !.op = op, !.at = "exists", !.todo = locks,
                                          !.late = certain]
                    ELSE [call[q] EXCEPT !.late = @ \ disturbed]]
      /\ UNCHANGED <<queueVars, status, told, line>>

Locking == {p \in Proc : call[p].op = "lock" /\ call[p].at # "done"}

CreateRequest(p, locks) == Receive(p, "create", locks)
UnlockRequest(p, locks) == Receive(p, "unlock", locks)
LockRequest(p, locks) ==
  /\ issued + Cardinality(Locking) < MaxTickets
  /\ Receive(p, "lock", locks)

(* TryAcquireLock, with a queue id the client was told.                    *)
TryAcquireLock(p, l, t) ==
  /\ "try" \in Surface
  /\ call[p].at = "idle"
  /\ StartAcquire(p, l, t)
  /\ call' = [call EXCEPT ![p] = [IdleCall EXCEPT !.op = "try", !.at = "acquire",
                                                  !.todo = <<l>>, !.late = held]]
  /\ UNCHANGED <<status, told, historyVars>>

Respond(p) ==
  /\ call[p].at = "done"
  /\ call' = [call EXCEPT ![p] = IdleCall]
  /\ Close(p)
  /\ UNCHANGED <<redis, mutex, now, issued, faults, status, told, historyVars>>

-----------------------------------------------------------------------------
(* checkForLockInInstance, which refuses the management instance ...       *)

MutFound(p) == call[p].op # "create" /\ status[Current(p)] # "ABSENT"
Found(p) == status[Current(p)] # "ABSENT"

CheckExists(p) ==
  /\ call[p].at = "exists"
  /\ IF Instance = ManagementDB THEN Answer(p, "error")
     ELSE IF call[p].op = "create"
          THEN IF Found(p) THEN Answer(p, "error") ELSE Advance(p, "pending")
          ELSE IF Found(p) THEN Advance(p, "status") ELSE Answer(p, "error")
  /\ UNCHANGED <<queueVars, status, told, historyVars>>

(* ... and getLockStatus.  Lock on a lock in use joins its queue, on a     *)
(* free one takes it.                                                      *)
MayTake(l) == status[l] = "UNLOCKED"

LockReadsStatus(p) ==
  /\ Doing(p, "lock", "status")
  /\ \/ /\ status[Current(p)] = "LOCKED"
        /\ Advance(p, "schedule") /\ StartSchedule(p, Current(p))
     \/ /\ MayTake(Current(p))
        /\ Advance(p, "lock") /\ UNCHANGED queueVars
     \/ /\ status[Current(p)] # "LOCKED" /\ ~MayTake(Current(p))
        /\ Answer(p, "error") /\ UNCHANGED queueVars
  /\ UNCHANGED <<status, told, historyVars>>

(* Unlock returns at the first lock it finds free, and frees any other,    *)
(* whoever took it.                                                        *)
UnlockReadsStatus(p) ==
  /\ Doing(p, "unlock", "status")
  /\ IF status[Current(p)] = "UNLOCKED" THEN Answer(p, "ok") ELSE Advance(p, "unlock")
  /\ UNCHANGED <<queueVars, status, told, historyVars>>

-----------------------------------------------------------------------------
(* updateLockInInstance.                                                   *)

Write(l, s) == status' = [status EXCEPT ![l] = s]

(* Create writes PENDING_CREATION and then UNLOCKED.                       *)
CreateWritesPending(p) ==
  /\ call[p].at = "pending"
  /\ Write(Current(p), "PENDING_CREATION")
  /\ Advance(p, "free")
  /\ UNCHANGED <<queueVars, told, historyVars>>

CreateWritesUnlocked(p) ==
  /\ call[p].at = "free"
  /\ Write(Current(p), "UNLOCKED")
  /\ NextLock(p, {})
  /\ UNCHANGED <<queueVars, told, historyVars>>

(* The end of Lock on a free lock, and of TryAcquireLock.  The grant is    *)
(* certain unless a request that may free the lock is under way.           *)
WriteLocked(p) ==
  LET l == Current(p)
  IN  /\ call[p].at = "lock"
      /\ Write(l, "LOCKED")
      /\ NextLock(p, {l})
      /\ held' = IF Freers(l) = {} THEN held \cup {l} ELSE held
      /\ UNCHANGED <<queueVars, told, line>>

(* Unlock tells the queue manager and does not look at its answer.         *)
WriteUnlocked(p) ==
  /\ call[p].at = "unlock"
  /\ Write(Current(p), "UNLOCKED")
  /\ StartRelease(p, Current(p))
  /\ Advance(p, "release")
  /\ UNCHANGED <<told, historyVars>>

ReleaseReturns(p) ==
  /\ call[p].at = "release" /\ At(p, "done")
  /\ NextLock(p, {})
  /\ Close(p)
  /\ UNCHANGED <<redis, mutex, now, issued, faults, status, told, historyVars>>

-----------------------------------------------------------------------------
(* LockWithQueue on a lock in use: the queue id and the position of the    *)
(* client.  An error of either call is an error of the request, though the *)
(* client may be in the queue.                                             *)

ScheduleReturns(p) ==
  /\ call[p].at = "schedule" /\ At(p, "done")
  /\ IF frame[p].res = "ok"
     THEN Advance(p, "position") /\ StartPosition(p, frame[p].lock, frame[p].ticket)
     ELSE Answer(p, "error") /\ UNCHANGED queueVars
  /\ UNCHANGED <<status, told, historyVars>>

PositionReturns(p) ==
  /\ call[p].at = "position" /\ At(p, "done")
  /\ IF frame[p].res = "ok"
     THEN /\ NextLock(p, {})
          /\ told' = [told EXCEPT ![frame[p].lock] = @ \cup {frame[p].ticket}]
     ELSE Answer(p, "error") /\ UNCHANGED told
  /\ Close(p)
  /\ UNCHANGED <<redis, mutex, now, issued, faults, status, historyVars>>

MutAcquireReturns(p) ==
  /\ call[p].at = "acquire" /\ At(p, "done")
  /\ Advance(p, "lock")
  /\ Close(p)
  /\ UNCHANGED <<redis, mutex, now, issued, faults, status, told, historyVars>>

AcquireReturns(p) ==
  /\ call[p].at = "acquire" /\ At(p, "done")
  /\ IF frame[p].res = "ok" THEN Advance(p, "lock") ELSE Answer(p, "error")
  /\ Close(p)
  /\ UNCHANGED <<redis, mutex, now, issued, faults, status, told, historyVars>>

-----------------------------------------------------------------------------
(* The queue manager runs.  "line" follows the queue of a lock while no    *)
(* request is inside addToQueue for it.                                    *)
Observe ==
  line' = [l \in Locks |-> IF Joiners(l)' = {} THEN queue'[<<Instance, l>>] ELSE line[l]]

InPackage == Observe /\ UNCHANGED <<status, call, told, held>>

PackageStep(p) == QueueStep(p) /\ InPackage

ClockTick == Tick /\ UNCHANGED <<status, call, told, historyVars>>

-----------------------------------------------------------------------------
(* A command of a handler fails.  A write whose answer is lost took        *)
(* effect.  Create answers a failed write with UNKNOWN_ERROR, the code for *)
(* success, and does no more of its list.                                  *)

Writes == {"pending", "free", "lock", "unlock"}
MutWritten(p) ==
  CASE call[p].at = "pending" -> "PENDING_DELETION"
    [] call[p].at = "lock"    -> "LOCKED"
    [] OTHER                  -> "UNLOCKED"
Written(p) ==
  CASE call[p].at = "pending" -> "PENDING_CREATION"
    [] call[p].at = "lock"    -> "LOCKED"
    [] OTHER                  -> "UNLOCKED"

HandlerCommandFails(p) ==
  /\ call[p].at \in {"exists", "status"} \cup Writes
  /\ Fails
  /\ Answer(p, IF call[p].at \in {"pending", "free"} THEN "ok" ELSE "error")
  /\ \/ UNCHANGED status
     \/ call[p].at \in Writes /\ Write(Current(p), Written(p))
  /\ UNCHANGED <<redis, mutex, frame, now, issued, told, historyVars>>

(* The process dies; Redis stays.  Clients see a broken connection.        *)
ServerCrash ==
  /\ QueueCrash
  /\ call' = [p \in Proc |-> IdleCall]
  /\ Observe
  /\ UNCHANGED <<status, told, held>>

-----------------------------------------------------------------------------
Init ==
  /\ QueueInit
  /\ status = [l \in Locks |-> "ABSENT"]
  /\ call = [p \in Proc |-> IdleCall]
  /\ told = [l \in Locks |-> {}]
  /\ held = {}
  /\ line = [l \in Locks |-> <<>>]

Arrive(p) ==
  \/ \E locks \in Requests :
       CreateRequest(p, locks) \/ LockRequest(p, locks) \/ UnlockRequest(p, locks)
  \/ \E l \in Locks : \E t \in told[l] : TryAcquireLock(p, l, t)

HandlerStep(p) ==
  \/ CheckExists(p) \/ LockReadsStatus(p) \/ UnlockReadsStatus(p)
  \/ CreateWritesPending(p) \/ CreateWritesUnlocked(p) \/ WriteLocked(p) \/ WriteUnlocked(p)
  \/ ReleaseReturns(p) \/ ScheduleReturns(p) \/ PositionReturns(p) \/ AcquireReturns(p)
  \/ Respond(p)

Act(p) == Arrive(p) \/ HandlerStep(p) \/ HandlerCommandFails(p) \/ PackageStep(p)

Next == \/ \E p \in Proc : Act(p)
        \/ ServerCrash
        \/ ClockTick

Spec == Init /\ [][Next]_vars

(* Goroutines run, Redis answers, sync.Mutex starves nobody.               *)
Fairness ==
  \A p \in Proc :
    /\ WF_vars(HandlerStep(p) \/ (QueueCommand(p) /\ InPackage))
    /\ SF_vars(EnterLock(p) /\ InPackage)

FairSpec == Spec /\ Fairness

(* The runs in which no two requests are at work on the same lock at once. *)
(* Requests at different locks may interleave as they like.                *)
Working(p) == call[p].at \notin {"idle", "done"}

OneRequestPerLock ==
  \A p, q \in Proc : p # q /\ Working(p) /\ Working(q) => Current(p) # Current(q)

StaysInTurn == OneRequestPerLock'

SerialSpec == Init /\ [][Next /\ StaysInTurn]_vars
-----------------------------------------------------------------------------
TypeOK ==
  /\ QueueTypeOK
  /\ status \in [Locks -> Statuses]
  /\ call \in [Proc -> Calls]
  /\ told \in [Locks -> SUBSET (1..issued)]
  /\ held \subseteq Locks
  /\ line \in [Locks -> Seq(1..issued)]

(* The exclusion that Lock does give: once a grant of a lock can no longer *)
(* be undone by a request under way, no request that arrives before the    *)
(* next Unlock of the lock is granted it.                                  *)
NoGrantOverSettledHold == \A p \in Proc : call[p].won \cap call[p].late = {}

(* A client that was in the queue while nobody was joining it is not lost  *)
(* by later, racing joins: they leave the queue it is in at the front.     *)
SettledWaitersKeepTheirPlace ==
  [][\A l \in Locks : IsPrefix(line[l], queue'[<<Instance, l>>])]_vars

(* Every request is answered, whatever fails.                              *)
EveryRequestAnswered == \A p \in Proc : call[p].at # "idle" ~> call[p].at = "idle"

(* The steps a request takes at most for the lock it is at.                *)
PhasesLeft(at) ==
  CASE at = "exists" -> 4
    [] at = "status" -> 3
    [] at \in {"pending", "schedule", "unlock", "acquire"} -> 2
    [] at \in {"free", "position", "release", "lock"} -> 1
    [] at \in {"idle", "done"} -> 0

(* A step of a goroutine leaves its request fewer locks to do, or fewer    *)
(* steps at this one, or fewer steps in the call it waits for.             *)
LessToDo(p) ==
  \/ Len(call'[p].todo) < Len(call[p].todo)
  \/ /\ call'[p].todo = call[p].todo
     /\ \/ PhasesLeft(call'[p].at) < PhasesLeft(call[p].at)
        \/ call'[p].at = call[p].at /\ StepsLeft(frame'[p].at) < StepsLeft(frame[p].at)

(* No request turns in circles, whatever the others do and whatever fails. *)
RequestsOnlyAdvance ==
  [][\A p \in Proc :
       Working(p) =>
         \/ <<call'[p].at, call'[p].todo, frame'[p]>> = <<call[p].at, call[p].todo, frame[p]>>
         \/ LessToDo(p)]_vars

(* AcquireLock has taken its client out of the queue and found no error.   *)
Served(f) ==
  f.at \in {"mov.clearnext", "ent.lock"} \cup EnterLabels \/ (f.at = "done" /\ f.res = "ok")

(* The lock a TryAcquireLock was served for and has yet to write.          *)
Turn(p) ==
  IF Doing(p, "try", "lock") \/ (Doing(p, "try", "acquire") /\ Served(frame[p]))
  THEN {Current(p)} ELSE {}

(* The queue id with which a TryAcquireLock asks for its client's turn.    *)
Asks(p) == IF Doing(p, "try", "acquire") THEN frame[p].ticket ELSE NoTicket

(* With one request at a time for a lock the service is the table of locks *)
(* with their lines that it is meant to be: a Lock is granted a free lock  *)
(* only, a TryAcquireLock one whose queue its client has just left from    *)
(* the front, nobody leaves a queue otherwise, and what a failed command   *)
(* or a crash may do beyond that is bounded by the number of them.         *)
Table == INSTANCE LockTable WITH
           table <- status, line <- [l \in Locks |-> queue[<<Instance, l>>]], tickets <- issued,
           asks <- [p \in Proc |-> Asks(p)], turn <- [p \in Proc |-> Turn(p)],
           won <- [p \in Proc |-> call[p].won],
           Clients <- Proc, HandsOver <- HandoffConfigured
ImplementsLockTable == Table!Spec

-----------------------------------------------------------------------------
(* The inductive invariants behind the safety properties.                  *)

(* A request at a step has a lock to do it for, and is one that takes it.  *)
CallOK(c) ==
  /\ c \in Calls
  /\ c.at \notin {"idle", "done"} => c.todo # <<>>
  /\ c.at \in {"pending", "free"} => c.op = "create"
  /\ c.at = "lock" => c.op \in {"lock", "try"}
  /\ c.at = "acquire" => c.op = "try"
  /\ c.at = "unlock" => c.op = "unlock"

(* A call of the queue manager is the one its request waits for, for the   *)
(* lock the request is at, and what it returned is still there to be read. *)
WaitOK(c, f) ==
  /\ f.at \notin {"idle", "done"} => c.at = f.op
  /\ f.at \notin {"idle", "done"} \/ c.at \in {"schedule", "position"} => f.lock = Head(c.todo)
  /\ c.at = "schedule" => f.op = "schedule"
  /\ c.at = "position" => f.op = "position" /\ f.ticket # NoTicket

ServiceInv ==
  /\ QueueInv /\ TypeOK
  /\ \A p \in Proc : CallOK(call[p]) /\ WaitOK(call[p], frame[p])

(* A settled grant stands in Redis, no request is left that could undo it, *)
(* and whoever arrived since is not about to be granted the lock.          *)
HoldOK(c) ==
  /\ c.late \subseteq held /\ c.won \cap c.late = {} /\ c.at # "acquire"
  /\ c.at = "lock" => Head(c.todo) \notin c.late

HoldInv ==
  /\ \A l \in held : status[l] = "LOCKED"
  /\ \A p \in Proc : HoldOK(call[p]) /\ \A l \in held : ~MayFree(call[p], l)

(* Every list that a join is about to write extends the settled one.       *)
LineOK(f) == f.op # "acquire" /\ (f.at = "add.set" => IsPrefix(line[f.lock], f.items))

LineInv ==
  /\ \A l \in Locks : IsPrefix(line[l], queue[<<Instance, l>>])
  /\ \A p \in Proc : LineOK(frame[p])

(* Behind ImplementsLockTable, under SerialSpec: the status a request read *)
(* is the status of the lock and only existing locks have waiters ...      *)
StatusFits(c, s) ==
  /\ c.at = "status" => s[Head(c.todo)] # "ABSENT"
  /\ c.at = "pending" => s[Head(c.todo)] = "ABSENT"
  /\ c.at = "free" => s[Head(c.todo)] = "PENDING_CREATION"
  /\ c.at \in {"lock", "acquire"} => s[Head(c.todo)] \in {"LOCKED", "UNLOCKED"}
  /\ c.at = "lock" /\ c.op = "lock" => s[Head(c.todo)] = "UNLOCKED"
  /\ c.at = "unlock" => s[Head(c.todo)] \in {"PENDING_CREATION", "LOCKED"}
  /\ c.at \in {"schedule", "position"} => s[Head(c.todo)] = "LOCKED"

StatusInv ==
  /\ \A p \in Proc : StatusFits(call[p], status)
  /\ \A l \in Locks : told[l] # {} => status[l] \in {"LOCKED", "UNLOCKED"}

(* ... the client that moveToNextClient is about to drop is the one that   *)
(* called AcquireLock ...                                                  *)
MoveFits(f, q) ==
  /\ f.at \in {"mov.exists", "mov.get", "mov.window", "mov.clear", "mov.set"} =>
       q # <<>> /\ Head(q) = f.ticket
  /\ f.at \notin {"mov.dropnext", "mov.dropwin"}

MoveInv == \A p \in Proc : MoveFits(frame[p], queue[Own(p)])

(* ... and requests for the management instance get nowhere.               *)
RefusedAtOnce ==
  /\ \A p \in Proc : call[p].at \in {"idle", "exists", "done"}
  /\ \A l \in Locks : told[l] = {}

TableInv == StatusInv /\ MoveInv /\ ApartInv /\ (Instance = ManagementDB => RefusedAtOnce)

IInv == ServiceInv /\ ("try" \notin Surface => HoldInv /\ LineInv)

-----------------------------------------------------------------------------
(* What the README and the comments say, and does not hold.                *)

(* Two requests under way are never both granted the same lock.            *)
NoDoubleGrant ==
  \A p, q \in Proc : p # q => call[p].won \cap call[q].won = {}

(* A client that was told its place in the queue is in the queue.          *)
ToldWaitersAreQueued == \A l \in Locks : told[l] \subseteq Range(queue[<<Instance, l>>])

(* An Unlock answered with success left none of its locks in use.          *)
UnlockProcessesEachLock ==
  \A p \in Proc : call[p].op = "unlock" /\ call[p].res = "ok" =>
    \A l \in Range(call[p].todo) : status[l] # "LOCKED"

(* An Unlock whose hand-off succeeded, with no other request at work,      *)
(* leaves the first client of the queue with a period to take the lock in. *)
NextClientGetsAPeriod ==
  \A p \in Proc :
    /\ Doing(p, "unlock", "release") /\ At(p, "done") /\ frame[p].res = "ok"
    /\ \A q \in Proc \ {p} : ~Working(q)
    => LET k == <<Instance, Current(p)>>
       IN  queue[k] # <<>> => nextUp[k] = Head(queue[k]) /\ window[k] # NoWindow
=============================================================================
