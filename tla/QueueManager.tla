---------------------------- MODULE QueueManager ----------------------------
(***************************************************************************)
(* internal/queueManager/queueManager.go at the granularity of one Redis   *)
(* command per step.                                                       *)
(*                                                                         *)
(* Every lock has three Redis keys: the queue (":q", a comma separated     *)
(* list of "queueId:clientId"), the queue id of the client that may take   *)
(* the lock next (":qn") and the time at which that client's turn expires  *)
(* (":qt").  The functions of the package run in the goroutine of the      *)
(* request that called them, and every Get, Set, Exists and Delete is a    *)
(* separate command, so calls interleave between any two of them.          *)
(*                                                                         *)
(* A goroutine of the package is a frame: the command it is about to send  *)
(* and the values it read so far.  Callers open a frame with one of the    *)
(* Start actions and find its result in a frame that is "done";            *)
(* QueueCallers (the package alone) and LockService (the package under the *)
(* gRPC handlers) are the two callers.                                     *)
(***************************************************************************)
EXTENDS Integers, Sequences, FiniteSets, SequencesExt

CONSTANTS
  Proc,          \* request goroutines
  Locks,         \* lock ids of one instance and namespace
  NoLock,        \* "no lock", for a goroutine that is in no call
  Free,          \* owner of a mutex nobody holds
  Instance,      \* Redis database of the requests' instance
  ManagementDB,  \* configuration.Context.Cluster.ClusterManagement.DB
  Instances,     \* instances the configuration declares
  Timeout,       \* the namespace's next_in_queue_timeout in clock ticks
  MaxNow,        \* bound: last clock tick
  MaxFaults      \* bound: failed Redis commands and server crashes

NoTicket == 0    \* no ":qn" key
NoWindow == -1   \* no ":qt" key
BadDuration == -1 \* a next_in_queue_timeout time.ParseDuration refuses

ASSUME LocksAssumption == NoLock \notin Locks
ASSUME FreeAssumption == Free \notin Proc
ASSUME InstanceAssumption == Instance \in Instances
ASSUME TimeoutAssumption == Timeout \in Nat \cup {BadDuration}
ASSUME BoundsAssumption == MaxNow \in Nat /\ MaxFaults \in Nat

VARIABLES
  queue,     \* ":q" of every key: the queue ids in it, <<>> when the key is missing
  nextUp,    \* ":qn" of every key, or NoTicket
  window,    \* ":qt" of every key, or NoWindow
  mutex,     \* lockMutexes: the goroutine in enterNextClientTimeoutPeriod
  frame,     \* per goroutine, its activation of the package
  now,       \* the clock time.Now() reads
  issued,    \* queue ids written to a queue so far, numbered in that order
  faults     \* failed commands and crashes so far

redis == <<queue, nextUp, window>>
queueVars == <<queue, nextUp, window, mutex, frame, now, issued, faults>>

Keys == {Instance, ManagementDB} \X Locks
QueueOps == {"schedule", "position", "acquire", "release"}

AddLabels == {"add.exists", "add.get", "add.set", "add.next"}
TurnLabels == {"next.exists", "next.get", "win.exists", "win.get", "win.check"}
RemoveLabels == {"rem.exists", "rem.get", "rem.next", "rem.nextget", "rem.set"}
MoveLabels == {"mov.exists", "mov.dropnext", "mov.dropwin", "mov.get", "mov.window",
               "mov.clear", "mov.clearnext", "mov.set"}
EnterLabels == {"ent.exists", "ent.get", "ent.next", "ent.window"}
Labels == {"idle", "pos.exists", "pos.get", "ent.lock", "done"}
            \cup AddLabels \cup TurnLabels \cup RemoveLabels \cup MoveLabels \cup EnterLabels

Frames == [op : QueueOps \cup {"none"}, at : Labels, lock : Locks \cup {NoLock},
           ticket : Nat, items : Seq(Nat), until : Int, expired : BOOLEAN,
           res : {"none", "ok", "error"}]

IdleFrame == [op |-> "none", at |-> "idle", lock |-> NoLock, ticket |-> NoTicket,
              items |-> <<>>, until |-> NoWindow, expired |-> FALSE, res |-> "none"]

At(p, label) == frame[p].at = label

(* The key of the goroutine's lock in the database of its instance, which  *)
(* every function but one uses ...                                         *)
Own(p) == <<Instance, frame[p].lock>>

(* ... and in the database enterNextClientTimeoutPeriod connects to.       *)
HandoffKey(p) == <<ManagementDB, frame[p].lock>>

(* nextInQueueTimeout parses the duration and RedisConnection knows the    *)
(* management database only when the configuration declares it.            *)
HandoffConfigured == Timeout # BadDuration /\ ManagementDB \in Instances

-----------------------------------------------------------------------------
(* Moving between commands, and returning.                                 *)

GotoWith(p, label, items) ==
  frame' = [frame EXCEPT ![p].at = label, ![p].items = items]

Goto(p, label) == GotoWith(p, label, frame[p].items)

(* AcquireLock reports an error to its caller whenever the turn had        *)
(* expired, whatever moveToNextClient answered isNextInQueue.              *)
Return(p, r) ==
  frame' = [frame EXCEPT ![p].at = "done", ![p].items = <<>>, ![p].until = NoWindow,
                         ![p].expired = FALSE,
                         ![p].res = IF frame[p].expired THEN "error" ELSE r]

Ready(p) == frame[p].at \in {"idle", "done"}

Start(p, op, l, t, label) ==
  /\ Ready(p)
  /\ frame' = [frame EXCEPT ![p] = [IdleFrame EXCEPT !.op = op, !.lock = l,
                                                     !.ticket = t, !.at = label]]
  /\ UNCHANGED <<redis, mutex, now, issued, faults>>

StartSchedule(p, l) == Start(p, "schedule", l, NoTicket, "add.exists")
StartPosition(p, l, t) == Start(p, "position", l, t, "pos.exists")
StartAcquire(p, l, t) == Start(p, "acquire", l, t, "next.exists")

StartRelease(p, l) ==
  IF HandoffConfigured
  THEN Start(p, "release", l, NoTicket, "ent.lock")
  ELSE /\ Ready(p)
       /\ frame' = [frame EXCEPT ![p] = [IdleFrame EXCEPT !.op = "release", !.lock = l,
                                           !.at = "done", !.res = "error"]]
       /\ UNCHANGED <<redis, mutex, now, issued, faults>>

(* Most commands only read.                                                *)
Reads == UNCHANGED <<redis, mutex, now, issued, faults>>

(* A Get after an Exists that answered yes fails if the key is gone by now. *)
GetQueue(p, label) ==
  /\ IF queue[Own(p)] = <<>>
     THEN Return(p, "error")
     ELSE GotoWith(p, label, queue[Own(p)])
  /\ Reads

-----------------------------------------------------------------------------
(* addToQueue: read the list, append, write it back.  The queue id is      *)
(* drawn by uuid.New when the call starts; nothing depends on it before it *)
(* is written, so it is numbered when it is.                               *)

MutEnqueue(items, t) == <<t>> \o items
Enqueue(items, t) == Append(items, t)

AddExists(p) ==
  /\ At(p, "add.exists")
  /\ Goto(p, IF queue[Own(p)] = <<>> THEN "add.set" ELSE "add.get")
  /\ Reads

MutAddGet(p) ==
  /\ At(p, "add.get")
  /\ IF queue[Own(p)] = <<>>
     THEN Goto(p, "add.exists")
     ELSE GotoWith(p, "add.set", queue[Own(p)])
  /\ Reads

AddGet(p) == At(p, "add.get") /\ GetQueue(p, "add.set")

(* The list read before, with the new client, replaces whatever the queue  *)
(* is by now.                                                              *)
MutWriteAdded(p) ==
  /\ issued' = issued + 1
  /\ queue' = [queue EXCEPT ![Own(p)] =
                 IF @ = frame[p].items THEN Enqueue(@, issued') ELSE <<issued'>>]

WriteAdded(p) ==
  /\ issued' = issued + 1
  /\ queue' = [queue EXCEPT ![Own(p)] = Enqueue(frame[p].items, issued')]

MutAddSet(p) ==
  /\ At(p, "add.set")
  /\ WriteAdded(p)
  /\ frame' = [frame EXCEPT ![p].at = "add.next", ![p].ticket = issued']
  /\ UNCHANGED <<nextUp, window, mutex, now, faults>>

AddSet(p) ==
  /\ At(p, "add.set")
  /\ WriteAdded(p)
  /\ frame' = IF frame[p].items = <<>>
              THEN [frame EXCEPT ![p].at = "add.next", ![p].ticket = issued']
              ELSE [frame EXCEPT ![p].at = "done", ![p].ticket = issued',
                                 ![p].items = <<>>, ![p].res = "ok"]
  /\ UNCHANGED <<nextUp, window, mutex, now, faults>>

MutWriteFounder(p) == nextUp' = [nextUp EXCEPT ![Own(p)] = frame[p].ticket + 1]
WriteFounder(p) == nextUp' = [nextUp EXCEPT ![Own(p)] = frame[p].ticket]

AddNext(p) ==
  /\ At(p, "add.next")
  /\ WriteFounder(p)
  /\ Return(p, "ok")
  /\ UNCHANGED <<queue, window, mutex, now, issued, faults>>

-----------------------------------------------------------------------------
(* getPositionInQueue.                                                     *)

PositionExists(p) ==
  /\ At(p, "pos.exists")
  /\ IF queue[Own(p)] = <<>> THEN Return(p, "error") ELSE Goto(p, "pos.get")
  /\ Reads

PositionGet(p) ==
  /\ At(p, "pos.get")
  /\ Return(p, IF frame[p].ticket \in Range(queue[Own(p)]) THEN "ok" ELSE "error")
  /\ Reads

-----------------------------------------------------------------------------
(* isNextInQueue, called by AcquireLock.  Only the client whose turn it is *)
(* gets as far as looking at the expiry time.                              *)

NextExists(p) ==
  /\ At(p, "next.exists")
  /\ IF nextUp[Own(p)] = NoTicket THEN Return(p, "error") ELSE Goto(p, "next.get")
  /\ Reads

NextGet(p) ==
  /\ At(p, "next.get")
  /\ IF nextUp[Own(p)] = frame[p].ticket
     THEN Goto(p, "win.exists")
     ELSE Return(p, "error")
  /\ Reads

WindowExists(p) ==
  /\ At(p, "win.exists")
  /\ Goto(p, IF window[Own(p)] = NoWindow THEN "rem.exists" ELSE "win.get")
  /\ Reads

WindowGet(p) ==
  /\ At(p, "win.get")
  /\ IF window[Own(p)] = NoWindow
     THEN Return(p, "error")
     ELSE frame' = [frame EXCEPT ![p].at = "win.check", ![p].until = window[Own(p)]]
  /\ Reads

WindowCheck(p) ==
  /\ At(p, "win.check")
  /\ frame' = IF now > frame[p].until
              THEN [frame EXCEPT ![p].at = "mov.exists", ![p].expired = TRUE]
              ELSE [frame EXCEPT ![p].at = "rem.exists"]
  /\ Reads

-----------------------------------------------------------------------------
(* removeFromQueue, the second half of AcquireLock.                        *)

Index(items, t) == CHOOSE i \in 1..Len(items) : items[i] = t

RemoveExists(p) ==
  /\ At(p, "rem.exists")
  /\ IF queue[Own(p)] = <<>> THEN Return(p, "error") ELSE Goto(p, "rem.get")
  /\ Reads

RemoveGet(p) ==
  /\ At(p, "rem.get")
  /\ IF frame[p].ticket \in Range(queue[Own(p)])
     THEN GotoWith(p, "rem.next", queue[Own(p)])
     ELSE Return(p, "error")
  /\ Reads

RemoveNext(p) ==
  /\ At(p, "rem.next")
  /\ Goto(p, IF nextUp[Own(p)] = NoTicket THEN "rem.set" ELSE "rem.nextget")
  /\ Reads

(* moveToNextClient takes over, and reads the queue again, when the client *)
(* is still next and was first in the list read by RemoveGet.              *)
RemoveNextGet(p) ==
  /\ At(p, "rem.nextget")
  /\ IF nextUp[Own(p)] = frame[p].ticket /\ Head(frame[p].items) = frame[p].ticket
     THEN GotoWith(p, "mov.exists", <<>>)
     ELSE Goto(p, "rem.set")
  /\ Reads

WriteRemoved(p) ==
  queue' = [queue EXCEPT ![Own(p)] =
              RemoveAt(frame[p].items, Index(frame[p].items, frame[p].ticket))]

RemoveSet(p) ==
  /\ At(p, "rem.set")
  /\ WriteRemoved(p)
  /\ Return(p, "ok")
  /\ UNCHANGED <<nextUp, window, mutex, now, issued, faults>>

-----------------------------------------------------------------------------
(* moveToNextClient: drop the first client of the list.                    *)

MutPopped(items) == Front(items)
Popped(items) == Tail(items)

MoveExists(p) ==
  /\ At(p, "mov.exists")
  /\ Goto(p, IF queue[Own(p)] = <<>> THEN "mov.dropnext" ELSE "mov.get")
  /\ Reads

MoveDropNext(p) ==
  /\ At(p, "mov.dropnext")
  /\ nextUp' = [nextUp EXCEPT ![Own(p)] = NoTicket]
  /\ Goto(p, "mov.dropwin")
  /\ UNCHANGED <<queue, window, mutex, now, issued, faults>>

MoveDropWindow(p) ==
  /\ At(p, "mov.dropwin")
  /\ window' = [window EXCEPT ![Own(p)] = NoWindow]
  /\ Return(p, "ok")
  /\ UNCHANGED <<queue, nextUp, mutex, now, issued, faults>>

MoveGet(p) == At(p, "mov.get") /\ GetQueue(p, "mov.window")

AfterPop(p) == IF Popped(frame[p].items) = <<>> THEN "mov.clear" ELSE "mov.set"

MoveWindow(p) ==
  /\ At(p, "mov.window")
  /\ window' = [window EXCEPT ![Own(p)] = NoWindow]
  /\ Goto(p, AfterPop(p))
  /\ UNCHANGED <<queue, nextUp, mutex, now, issued, faults>>

MoveClear(p) ==
  /\ At(p, "mov.clear")
  /\ queue' = [queue EXCEPT ![Own(p)] = <<>>]
  /\ Goto(p, "mov.clearnext")
  /\ UNCHANGED <<nextUp, window, mutex, now, issued, faults>>

MoveClearNext(p) ==
  /\ At(p, "mov.clearnext")
  /\ nextUp' = [nextUp EXCEPT ![Own(p)] = NoTicket]
  /\ Return(p, "ok")
  /\ UNCHANGED <<queue, window, mutex, now, issued, faults>>

WriteMoved(p) == queue' = [queue EXCEPT ![Own(p)] = Popped(frame[p].items)]

MoveSet(p) ==
  /\ At(p, "mov.set")
  /\ WriteMoved(p)
  /\ IF HandoffConfigured THEN GotoWith(p, "ent.lock", <<>>) ELSE Return(p, "error")
  /\ UNCHANGED <<nextUp, window, mutex, now, issued, faults>>

-----------------------------------------------------------------------------
(* enterNextClientTimeoutPeriod: under the lock's mutex, give the first    *)
(* client of the queue its turn.  The mutex is deferred: every return      *)
(* releases it.                                                            *)

MutUnlock(p) == UNCHANGED mutex
Unlock(p) == mutex' = [mutex EXCEPT ![frame[p].lock] = Free]

EnterLock(p) ==
  /\ At(p, "ent.lock")
  /\ mutex[frame[p].lock] = Free
  /\ mutex' = [mutex EXCEPT ![frame[p].lock] = p]
  /\ Goto(p, "ent.exists")
  /\ UNCHANGED <<redis, now, issued, faults>>

EnterExists(p) ==
  /\ At(p, "ent.exists")
  /\ IF queue[HandoffKey(p)] = <<>>
     THEN Return(p, "ok") /\ Unlock(p)
     ELSE Goto(p, "ent.get") /\ UNCHANGED mutex
  /\ UNCHANGED <<redis, now, issued, faults>>

EnterGet(p) ==
  /\ At(p, "ent.get")
  /\ IF queue[HandoffKey(p)] = <<>>
     THEN Return(p, "error") /\ Unlock(p)
     ELSE GotoWith(p, "ent.next", queue[HandoffKey(p)]) /\ UNCHANGED mutex
  /\ UNCHANGED <<redis, now, issued, faults>>

WriteTurn(p) == nextUp' = [nextUp EXCEPT ![HandoffKey(p)] = Head(frame[p].items)]
WriteExpiry(p) == window' = [window EXCEPT ![HandoffKey(p)] = now + Timeout]

EnterNext(p) ==
  /\ At(p, "ent.next")
  /\ WriteTurn(p)
  /\ Goto(p, "ent.window")
  /\ UNCHANGED <<queue, window, mutex, now, issued, faults>>

EnterWindow(p) ==
  /\ At(p, "ent.window")
  /\ WriteExpiry(p)
  /\ Return(p, "ok")
  /\ Unlock(p)
  /\ UNCHANGED <<queue, nextUp, now, issued, faults>>

-----------------------------------------------------------------------------
(* Failures.  A command that fails, or a connection that cannot be opened, *)
(* returns INTERNAL_SERVER_ERROR, except that removeFromQueue goes on      *)
(* without the ":qn" key and that the errors of Delete are ignored.        *)

Fails == faults < MaxFaults /\ faults' = faults + 1

EmptiesQueue(p) == At(p, "rem.set") /\ Len(frame[p].items) = 1

Deletes == {"mov.dropnext", "mov.dropwin", "mov.window", "mov.clear", "mov.clearnext"}

Fallible(p) ==
  /\ frame[p].at \in Labels \ ({"idle", "done", "win.check", "rem.next", "rem.nextget"} \cup Deletes)
  /\ ~EmptiesQueue(p)

CommandFails(p) ==
  /\ Fallible(p)
  /\ Fails
  /\ Return(p, "error")
  /\ IF frame[p].at \in EnterLabels THEN Unlock(p) ELSE UNCHANGED mutex
  /\ UNCHANGED <<redis, now, issued>>

(* A Set whose answer is lost took effect and still counts as failed.      *)
AnswerLost(p) ==
  /\ ~EmptiesQueue(p)
  /\ Fails
  /\ Return(p, "error")
  /\ UNCHANGED now
  /\ \/ At(p, "add.set") /\ WriteAdded(p) /\ UNCHANGED <<nextUp, window, mutex>>
     \/ At(p, "add.next") /\ WriteFounder(p) /\ UNCHANGED <<queue, window, mutex, issued>>
     \/ At(p, "rem.set") /\ WriteRemoved(p) /\ UNCHANGED <<nextUp, window, mutex, issued>>
     \/ At(p, "mov.set") /\ WriteMoved(p) /\ UNCHANGED <<nextUp, window, mutex, issued>>
     \/ At(p, "ent.next") /\ WriteTurn(p) /\ Unlock(p) /\ UNCHANGED <<queue, window, issued>>
     \/ At(p, "ent.window") /\ WriteExpiry(p) /\ Unlock(p) /\ UNCHANGED <<queue, nextUp, issued>>

NextKeyUnreadable(p) ==
  /\ frame[p].at \in {"rem.next", "rem.nextget"}
  /\ Fails
  /\ Goto(p, "rem.set")
  /\ UNCHANGED <<redis, mutex, now, issued>>

DeleteFails(p) ==
  /\ frame[p].at \in Deletes \/ EmptiesQueue(p)
  /\ Fails
  /\ CASE At(p, "mov.dropnext") -> Goto(p, "mov.dropwin")
       [] At(p, "mov.window")   -> Goto(p, AfterPop(p))
       [] At(p, "mov.clear")    -> Goto(p, "mov.clearnext")
       [] OTHER                 -> Return(p, "ok")
  /\ UNCHANGED <<redis, mutex, now, issued>>

(* The process dies: its goroutines and mutexes are gone, Redis stays.     *)
QueueCrash ==
  /\ Fails
  /\ frame' = [p \in Proc |-> IdleFrame]
  /\ mutex' = [l \in Locks |-> Free]
  /\ UNCHANGED <<redis, now, issued>>

(* The caller has read the result.                                         *)
Close(p) == frame' = [frame EXCEPT ![p] = IdleFrame]

Tick ==
  /\ now < MaxNow
  /\ now' = now + 1
  /\ UNCHANGED <<redis, mutex, frame, issued, faults>>

-----------------------------------------------------------------------------
QueueInit ==
  /\ queue = [k \in Keys |-> <<>>]
  /\ nextUp = [k \in Keys |-> NoTicket]
  /\ window = [k \in Keys |-> NoWindow]
  /\ mutex = [l \in Locks |-> Free]
  /\ frame = [p \in Proc |-> IdleFrame]
  /\ now = 0
  /\ issued = 0
  /\ faults = 0

AddStep(p) == AddExists(p) \/ AddGet(p) \/ AddSet(p) \/ AddNext(p)
PositionStep(p) == PositionExists(p) \/ PositionGet(p)
TurnStep(p) == NextExists(p) \/ NextGet(p) \/ WindowExists(p) \/ WindowGet(p) \/ WindowCheck(p)
RemoveStep(p) ==
  RemoveExists(p) \/ RemoveGet(p) \/ RemoveNext(p) \/ RemoveNextGet(p) \/ RemoveSet(p)
MoveStep(p) ==
  \/ MoveExists(p) \/ MoveDropNext(p) \/ MoveDropWindow(p) \/ MoveGet(p)
  \/ MoveWindow(p) \/ MoveClear(p) \/ MoveClearNext(p) \/ MoveSet(p)
EnterStep(p) == EnterExists(p) \/ EnterGet(p) \/ EnterNext(p) \/ EnterWindow(p)
FailStep(p) == CommandFails(p) \/ AnswerLost(p) \/ NextKeyUnreadable(p) \/ DeleteFails(p)

(* The goroutine sends its next command and gets an answer; it may have to *)
(* wait only in EnterLock.                                                 *)
QueueCommand(p) ==
  \/ AddStep(p) \/ PositionStep(p) \/ TurnStep(p) \/ RemoveStep(p) \/ MoveStep(p)
  \/ EnterStep(p)

QueueStep(p) == QueueCommand(p) \/ EnterLock(p) \/ FailStep(p)
-----------------------------------------------------------------------------
(* The variables hold values of their types.                               *)
QueueTypeOK ==
  /\ queue \in [Keys -> Seq(1..issued)]
  /\ nextUp \in [Keys -> 0..issued]
  /\ window \in [Keys -> Nat \cup {NoWindow}]
  /\ mutex \in [Locks -> Proc \cup {Free}]
  /\ frame \in [Proc -> Frames]
  /\ now \in Nat /\ issued \in Nat /\ faults \in Nat

Increasing(s) == \A i, j \in 1..Len(s) : i < j => s[i] < s[j]

(* First come, first served: the list in Redis is always in the order in   *)
(* which the queue ids were written to it, without repetitions, however    *)
(* the unsynchronised read-modify-write cycles of addToQueue,              *)
(* removeFromQueue and moveToNextClient interleave, fail or are cut short  *)
(* by a crash.  They may lose or bring back a client, never reorder two.   *)
QueueInCommitOrder == \A k \in Keys : Increasing(queue[k])

(* A lock's mutex is held by the goroutine that is inside                  *)
(* enterNextClientTimeoutPeriod for the lock, and by nobody else: no       *)
(* return of it, of a failed command or of a lost answer, keeps a mutex,   *)
(* and no two goroutines give turns of one lock at the same time.          *)
MutexHeldInside ==
  \A p \in Proc, l \in Locks :
    mutex[l] = p <=> frame[p].at \in EnterLabels /\ frame[p].lock = l

(* The steps a call takes at most from the one it is at: its commands, its *)
(* look at the clock, and entering the mutex.                              *)
StepsLeft(label) ==
  CASE label = "next.exists"  -> 18 [] label = "next.get"      -> 17
    [] label = "win.exists"   -> 16 [] label = "win.get"       -> 15
    [] label = "win.check"    -> 14 [] label = "rem.exists"    -> 13
    [] label = "rem.get"      -> 12 [] label = "rem.next"      -> 11
    [] label = "rem.nextget"  -> 10 [] label = "mov.exists"    -> 9
    [] label = "mov.get"      -> 8  [] label = "mov.window"    -> 7
    [] label = "mov.set"      -> 6  [] label = "ent.lock"      -> 5
    [] label = "ent.exists"   -> 4  [] label = "ent.get"       -> 3
    [] label = "ent.next"     -> 2  [] label = "ent.window"    -> 1
    [] label = "mov.dropnext" -> 2  [] label = "mov.dropwin"   -> 1
    [] label = "mov.clear"    -> 2  [] label = "mov.clearnext" -> 1
    [] label = "rem.set"      -> 1
    [] label = "add.exists"   -> 4  [] label = "add.get"       -> 3
    [] label = "add.set"      -> 2  [] label = "add.next"      -> 1
    [] label = "pos.exists"   -> 2  [] label = "pos.get"       -> 1
    [] label \in {"idle", "done"} -> 0

(* A step of a call leaves it fewer steps to take, whatever it finds and   *)
(* whatever fails.                                                         *)
FewerSteps ==
  \A p \in Proc :
    ~Ready(p) /\ frame'[p] # frame[p] => StepsLeft(frame'[p].at) < StepsLeft(frame[p].at)

(* Which call a goroutine may be in before a command, and what the commands *)
(* before that one established.                                            *)
StepOK(op, at, ticket, items) ==
  /\ at \in AddLabels => op = "schedule"
  /\ at \in {"pos.exists", "pos.get"} => op = "position"
  /\ at \in TurnLabels \cup RemoveLabels \cup MoveLabels => op = "acquire"
  /\ at \in EnterLabels \cup {"ent.lock"} => op \in {"acquire", "release"} /\ HandoffConfigured
  /\ at = "add.next" => ticket # NoTicket
  /\ at \in {"rem.next", "rem.nextget", "rem.set"} => ticket \in Range(items)
  /\ at \in {"mov.window", "mov.set", "ent.next"} => items # <<>>

(* A frame when n queue ids were issued.  The lists goroutines read are as *)
(* ordered as the ones in Redis.                                           *)
FrameOK(f, n) ==
  /\ f \in Frames
  /\ f.ticket \in 0..n
  /\ f.items \in Seq(1..n) /\ Increasing(f.items)
  /\ f.at # "idle" => f.lock \in Locks
  /\ f.op = "acquire" => f.ticket # NoTicket
  /\ f.op = "schedule" /\ f.res = "ok" => f.ticket # NoTicket
  /\ StepOK(f.op, f.at, f.ticket, f.items)

(* The inductive invariant of the package.                                 *)
QueueInv ==
  /\ QueueTypeOK
  /\ QueueInCommitOrder
  /\ \A p \in Proc : FrameOK(frame[p], issued)

(* The management database holds no queue and no expiry time as long as it *)
(* is not the instance's, so enterNextClientTimeoutPeriod never gets past  *)
(* its first command and no turn ever expires.                             *)
ApartInv ==
  Instance # ManagementDB =>
    /\ \A l \in Locks : queue[<<ManagementDB, l>>] = <<>>
    /\ \A k \in Keys : window[k] = NoWindow
    /\ \A p \in Proc :
         /\ frame[p].at \notin {"win.get", "win.check", "ent.get", "ent.next", "ent.window"}
         /\ ~frame[p].expired

(* Calls for one lock do not overlap; calls for different locks may.       *)
OneCallPerLock ==
  \A p, q \in Proc : p # q /\ ~Ready(p) /\ ~Ready(q) => frame[p].lock # frame[q].lock

(* The inductive invariant behind the two refinements, where that is so,   *)
(* whatever fails: a client whose turn it is is not behind another, and    *)
(* the lists the goroutines read are the queues.                           *)
HeadNext(q, n) == n \in Range(q) => n = Head(q)

ReadLabels ==
  {"add.set", "rem.next", "rem.nextget", "rem.set", "mov.window", "mov.clear", "mov.set"}
TurnKnown == {"win.exists", "win.get", "win.check"} \cup (RemoveLabels \ {"rem.set"})

ReadsFit(f, q, n, h) ==
  /\ f.at = "add.exists" => f.items = <<>>
  /\ f.at \in ReadLabels => f.items = q
  /\ f.at = "ent.next" => f.items = h
  /\ f.at = "add.next" => q = <<f.ticket>>
  /\ f.at \in TurnKnown => n = f.ticket
  /\ f.at = "rem.set" => Head(q) = f.ticket
  /\ f.at = "mov.clear" => q # <<>> /\ Tail(q) = <<>>

OneCallerInv ==
  /\ \A k \in Keys : HeadNext(queue[k], nextUp[k])
  /\ \A p \in Proc : ReadsFit(frame[p], queue[Own(p)], nextUp[Own(p)], queue[HandoffKey(p)])
=============================================================================
