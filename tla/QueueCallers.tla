---------------------------- MODULE QueueCallers ----------------------------
(***************************************************************************)
(* The package queueManager with callers that may issue any of its         *)
(* exported calls, ScheduleLock, GetQueuePosition, AcquireLock and         *)
(* ReleaseLock, in any order and concurrently.  A caller only presents     *)
(* queue ids ScheduleLock gave out for that lock, and does not present one *)
(* in two AcquireLock calls at the same time.                              *)
(*                                                                         *)
(* With Instance # ManagementDB this is how the server runs the package:   *)
(* checkForLockInInstance refuses requests for the management instance.    *)
(* The package itself accepts the management instance like any other: with *)
(* Instance = ManagementDB the hand-off finds the queue, so every command  *)
(* of the package is reached.  No property below depends on it.            *)
(***************************************************************************)
EXTENDS QueueManager

CONSTANT MaxTickets  \* bound: queue ids ScheduleLock may hand out

ASSUME MaxTicketsAssumption == MaxTickets \in Nat

VARIABLE told  \* per lock, the queue ids ScheduleLock returned

vars == <<queueVars, told>>

Scheduling == {p \in Proc : frame[p].op = "schedule" /\ ~At(p, "done")}

ScheduleLock(p, l) ==
  /\ At(p, "idle")
  /\ issued + Cardinality(Scheduling) < MaxTickets
  /\ StartSchedule(p, l)
  /\ UNCHANGED told

GetQueuePosition(p, l, t) ==
  At(p, "idle") /\ StartPosition(p, l, t) /\ UNCHANGED told

AcquireLock(p, l, t) ==
  /\ At(p, "idle")
  /\ \A q \in Proc : ~(frame[q].op = "acquire" /\ frame[q].ticket = t)
  /\ StartAcquire(p, l, t)
  /\ UNCHANGED told

ReleaseLock(p, l) ==
  At(p, "idle") /\ StartRelease(p, l) /\ UNCHANGED told

(* The call returns to its caller.                                         *)
Finish(p) ==
  LET f == frame[p]
  IN  /\ At(p, "done")
      /\ Close(p)
      /\ told' = IF f.op = "schedule" /\ f.res = "ok"
                 THEN [told EXCEPT ![f.lock] = @ \cup {f.ticket}] ELSE told
      /\ UNCHANGED <<redis, mutex, now, issued, faults>>

Init == QueueInit /\ told = [l \in Locks |-> {}]

Call(p) ==
  \E l \in Locks :
    \/ ScheduleLock(p, l)
    \/ ReleaseLock(p, l)
    \/ \E t \in told[l] : AcquireLock(p, l, t) \/ GetQueuePosition(p, l, t)

Step(p) == QueueStep(p) /\ UNCHANGED told

Environment == (QueueCrash \/ Tick) /\ UNCHANGED told

Next ==
  \/ \E p \in Proc : Call(p) \/ Step(p) \/ Finish(p)
  \/ Environment

Spec == Init /\ [][Next]_vars

(* A goroutine is scheduled and its commands are answered; sync.Mutex does *)
(* not starve a waiter.  Nobody is obliged to call, and no clock or fault  *)
(* is obliged to happen.                                                   *)
Fairness ==
  \A p \in Proc :
    /\ WF_vars((QueueCommand(p) /\ UNCHANGED told) \/ Finish(p))
    /\ SF_vars(EnterLock(p) /\ UNCHANGED told)

FairSpec == Spec /\ Fairness

(* The package with callers that take turns at each lock.                  *)
SerialSpec == Init /\ [][Next /\ OneCallPerLock']_vars
-----------------------------------------------------------------------------
TypeOK ==
  /\ QueueTypeOK
  /\ told \in [Locks -> SUBSET (1..issued)]

(* The inductive invariant behind the safety properties.                   *)
IInv == QueueInv /\ ApartInv /\ told \in [Locks -> SUBSET (1..issued)]

(* AcquireLock serves the client of ":qn" and takes it out of the queue    *)
(* wherever it stands.  With callers that take turns at a lock it stands   *)
(* at the front whenever it is in the queue, whatever failed, lost its     *)
(* answer or was cut short between the writes of the two keys: nobody is   *)
(* served ahead of a client that was there before it.                      *)
NextUpIsFirst == \A k \in Keys : HeadNext(queue[k], nextUp[k])

(* Every call returns, whatever fails: no path keeps a lock's mutex.       *)
EveryCallReturns == \A p \in Proc : ~At(p, "idle") ~> At(p, "idle")

(* No call turns in circles: each of its steps, however the others move    *)
(* the keys under it, leaves it fewer steps to take, 18 at the most.       *)
CallsOnlyAdvance == [][FewerSteps]_vars

(* Callers that take turns at a lock see a FIFO queue: clients join at the *)
(* end and leave from the front, one at a time.                            *)
Line == INSTANCE TicketLine WITH
          line <- [l \in Locks |-> queue[<<Instance, l>>]], tickets <- issued
ImplementsTicketLine == Line!Spec
=============================================================================
