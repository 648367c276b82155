------------------------------ MODULE ClientSDK ------------------------------
(***************************************************************************)
(* pkg/sdk/client: the methods Create, Lock and Unlock, used over the lock *)
(* service by goroutines that each run a script of such calls.             *)
(*                                                                         *)
(* A method sends one request, for one lock, waits for its answer without  *)
(* a deadline and returns an error or nil.  So a goroutine has at most one *)
(* request under way, and the goroutine of the server that handles it has  *)
(* the same name here.  The methods look at the error code of the answer   *)
(* and at nothing else: Lock returns nil to a client that was granted the  *)
(* lock and to one that was put in its queue, and the queue id is dropped. *)
(*                                                                         *)
(* The callers are those of example/client/main.go: an error of Lock or    *)
(* Unlock ends the goroutine, one of Create does not, and all goroutines   *)
(* but the main one start when the main one has done its calls.            *)
(***************************************************************************)
EXTENDS LockService

CONSTANTS
  Clients,  \* client ids
  Main,     \* the goroutine that creates the locks
  Script,   \* per goroutine, the calls it makes
  Lossy     \* whether the connection to the server may break

CallSteps == [op : {"create", "lock", "unlock"}, client : Clients, lock : Locks]

ASSUME ScriptAssumption == Script \in [Proc -> Seq(CallSteps)]
ASSUME PairsAssumption ==
  \A p \in Proc : \A i \in 1..Len(Script[p]) :
    Script[p][i].op = "lock" =>
      \E j \in i + 1..Len(Script[p]) : /\ Script[p][j].op = "unlock"
                                       /\ Script[p][j].lock = Script[p][i].lock
ASSUME RequestsPerLock == \A l \in Locks : <<l>> \in Requests
ASSUME LossyAssumption == Lossy \in BOOLEAN

VARIABLES
  next,   \* per goroutine, the place in its script
  gaveUp  \* goroutines that returned because of an error

clientVars == <<next, gaveUp>>
sdkVars == <<vars, clientVars>>

Step(p) == Script[p][next[p]]
Running(p) == p \notin gaveUp /\ next[p] <= Len(Script[p])
Started(p) == p = Main \/ ~Running(Main)

-----------------------------------------------------------------------------
(* A method sends its request.                                             *)

Request(p, s) ==
  \/ s.op = "create" /\ CreateRequest(p, <<s.lock>>)
  \/ s.op = "lock" /\ LockRequest(p, <<s.lock>>)
  \/ s.op = "unlock" /\ UnlockRequest(p, <<s.lock>>)

Send(p) ==
  /\ Running(p) /\ Started(p)
  /\ Request(p, Step(p))
  /\ UNCHANGED clientVars

(* It returns, and its caller goes on or gives up.                         *)

GoesOn(p) == next' = [next EXCEPT ![p] = @ + 1] /\ UNCHANGED gaveUp
MutGivesUp(p) == gaveUp' = gaveUp \cup {p} /\ next' = [next EXCEPT ![p] = @ + 1]
GivesUp(p) == gaveUp' = gaveUp \cup {p} /\ UNCHANGED next

MutStops(s) == s.op = "lock"
Stops(s) == s.op # "create"
Outcome(p, failed) == IF failed /\ Stops(Step(p)) THEN GivesUp(p) ELSE GoesOn(p)

MutFailed(p) == FALSE
Failed(p) == call[p].res = "error"

MutMayReturn(p) ==
  /\ call[p].at = "done"
  /\ call[p].op = "lock" /\ call[p].won = {} => status[Step(p).lock] = "UNLOCKED"
MayReturn(p) == call[p].at = "done"

MethodReturns(p) == MayReturn(p) /\ Respond(p) /\ Outcome(p, Failed(p))

-----------------------------------------------------------------------------
(* The service, and what may go wrong between it and its clients.          *)

Handle(p) == call[p].at # "done" /\ HandlerStep(p) /\ UNCHANGED clientVars
Package(p) == PackageStep(p) /\ UNCHANGED clientVars
HandlerFails(p) == HandlerCommandFails(p) /\ UNCHANGED clientVars
Clock == ClockTick /\ UNCHANGED clientVars

(* The request does not get to the server, or its answer not back.         *)
Unreachable(p) ==
  /\ Lossy /\ Running(p) /\ Started(p) /\ call[p].at = "idle"
  /\ Outcome(p, TRUE)
  /\ UNCHANGED vars

ResponseLost(p) == Lossy /\ Respond(p) /\ Outcome(p, TRUE)

(* The methods that wait for an answer return with an error.               *)
ServerGone ==
  LET waiting == {p \in Proc : call[p].at # "idle"}
  IN  /\ ServerCrash
      /\ gaveUp' = gaveUp \cup {p \in waiting : Stops(Step(p))}
      /\ next' = [p \in Proc |->
                    IF p \in waiting /\ ~Stops(Step(p)) THEN next[p] + 1 ELSE next[p]]

-----------------------------------------------------------------------------
ClientInit ==
  /\ Init
  /\ next = [p \in Proc |-> 1]
  /\ gaveUp = {}

ClientNext ==
  \/ \E p \in Proc :
       \/ Send(p) \/ MethodReturns(p) \/ Unreachable(p) \/ ResponseLost(p)
       \/ Handle(p) \/ HandlerFails(p) \/ Package(p)
  \/ ServerGone
  \/ Clock

ClientSpec == ClientInit /\ [][ClientNext]_sdkVars

(* The goroutines of the clients run, and the service answers.             *)
ClientFairness ==
  \A p \in Proc :
    /\ WF_sdkVars(Send(p) \/ MethodReturns(p) \/ Handle(p)
                    \/ (QueueCommand(p) /\ InPackage /\ UNCHANGED clientVars))
    /\ SF_sdkVars(EnterLock(p) /\ InPackage /\ UNCHANGED clientVars)

FairClientSpec == ClientSpec /\ ClientFairness

-----------------------------------------------------------------------------
ClientTypeOK ==
  /\ next \in [Proc -> Nat] /\ gaveUp \subseteq Proc
  /\ \A p \in Proc : next[p] \in 1..Len(Script[p]) + 1
  /\ \A p \in gaveUp : next[p] <= Len(Script[p])

(* The client for which a goroutine's Lock of a lock returned nil, and     *)
(* which it has not unlocked since.                                        *)
Holds(p, c, l) ==
  \E i \in 1..(next[p] - 1) :
    /\ Script[p][i] = [op |-> "lock", client |-> c, lock |-> l]
    /\ \A j \in (i + 1)..(next[p] - 1) :
         Script[p][j] # [op |-> "unlock", client |-> c, lock |-> l]

(* A goroutine that gave up stays at the call that failed.                 *)
Owes(p, l) ==
  \E i \in next[p]..Len(Script[p]) : Script[p][i].op = "unlock" /\ Script[p][i].lock = l

(* No lock stays locked with nobody to blame: one that Redis has as LOCKED *)
(* is still to be unlocked by a goroutine, or one gave up before it did.   *)
(* The queued clients of the example unlock what they were not granted, so *)
(* grants and Unlocks do not pair up by client.                            *)
LeaksOnlyByError == \A l \in Locks : status[l] = "LOCKED" => \E p \in Proc : Owes(p, l)

(* Create may return nil without having created the lock.  The first Lock  *)
(* finds out: no client ever works under a lock that does not exist.       *)
HeldLocksExist ==
  \A p \in Proc : \A c \in Clients : \A l \in Locks : Holds(p, c, l) => status[l] # "ABSENT"

(* Every goroutine comes to an end (wg.Wait returns in main), however the  *)
(* calls are interleaved and whatever fails: Lock waits for no other       *)
(* client.                                                                 *)
ClientsFinish == <>(\A p \in Proc : ~Running(p))

-----------------------------------------------------------------------------
(* The inductive invariant behind the safety properties.                   *)

(* A request under way is the one of the call its goroutine is at.         *)
Linked(p) ==
  call[p].at # "idle" =>
    /\ Running(p) /\ call[p].op = Step(p).op
    /\ call[p].at # "done" => call[p].todo = <<Step(p).lock>>
    /\ call[p].at \in {"schedule", "position"} => call[p].op = "lock"

(* A Lock that is past its check, and did not fail, found its lock.        *)
Refused(c) == c.at = "done" /\ c.res = "error"

FoundLock(p) ==
  call[p].op = "lock" /\ call[p].at \notin {"idle", "exists"} /\ ~Refused(call[p]) =>
    status[Step(p).lock] # "ABSENT"

(* The goroutine has yet to free the lock: an Unlock of it comes later in  *)
(* its script, or is under way and did not write or see UNLOCKED yet.      *)
Past(c) == c.at = "release" \/ (c.at = "done" /\ c.res # "error")

Due(p, l) ==
  \E i \in next[p]..Len(Script[p]) :
    /\ Script[p][i].op = "unlock" /\ Script[p][i].lock = l
    /\ i = next[p] => ~Past(call[p])

ClientInv ==
  /\ ServiceInv /\ ClientTypeOK
  /\ \A p \in Proc : Linked(p) /\ FoundLock(p)
  /\ \A l \in Locks : status[l] = "LOCKED" => \E p \in Proc : Due(p, l)
  /\ HeldLocksExist

-----------------------------------------------------------------------------
(* What the example client says, and does not hold.                        *)

(* "should block until Client-1 releases": a lock is held for one client   *)
(* at a time.                                                              *)
LockBlocksWhileHeld ==
  \A p, q \in Proc : \A c, d \in Clients : \A l \in Locks :
    Holds(p, c, l) /\ Holds(q, d, l) => c = d
=============================================================================
