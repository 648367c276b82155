--------------------------- MODULE ClientSDKProofs ---------------------------
(***************************************************************************)
(* Theorems about the clients of the SDK, for every script in which each   *)
(* Lock is followed by an Unlock of the same lock: any number of           *)
(* goroutines, clients, locks and faults.                                  *)
(***************************************************************************)
EXTENDS ClientSDK, LockServiceProofs

-----------------------------------------------------------------------------
(* Scripts.                                                                *)

(* Where a goroutine is in its script.                                     *)
LEMMA PlaceFacts ==
  ASSUME ClientTypeOK, NEW p \in Proc
  PROVE  /\ Script[p] \in Seq(CallSteps) /\ Len(Script[p]) \in Nat
         /\ next \in [Proc -> Nat] /\ next[p] \in 1..Len(Script[p]) + 1
         /\ \A i \in 1..Len(Script[p]) : Script[p][i] \in CallSteps
  <1>1. Script[p] \in Seq(CallSteps)
    BY ScriptAssumption
  <1>2. Len(Script[p]) \in Nat /\ \A i \in 1..Len(Script[p]) : Script[p][i] \in CallSteps
    BY <1>1, LenProperties, ElementOfSeq
  <1> QED BY <1>1, <1>2 DEF ClientTypeOK

LEMMA StepFacts ==
  ASSUME ClientTypeOK, NEW p \in Proc, Running(p)
  PROVE  /\ next[p] \in 1..Len(Script[p]) /\ Step(p) \in CallSteps
         /\ Step(p).lock \in Locks /\ <<Step(p).lock>> \in Requests
  <1>1. next[p] \in 1..Len(Script[p]) /\ Step(p) \in CallSteps
    BY PlaceFacts DEF Running, Step
  <1>2. Step(p).lock \in Locks
    BY <1>1 DEF CallSteps
  <1> QED BY <1>1, <1>2, RequestsPerLock

(* The outcome of a call: one goroutine goes on by one, or gives up.       *)
LEMMA OutcomeFacts ==
  ASSUME ClientTypeOK, NEW p \in Proc, Running(p), NEW failed \in BOOLEAN, Outcome(p, failed)
  PROVE  /\ ClientTypeOK'
         /\ \A q \in Proc : q # p => next'[q] = next[q] /\ (q \in gaveUp' <=> q \in gaveUp)
         /\ \/ next'[p] = next[p]
            \/ next'[p] = next[p] + 1 /\ (~failed \/ Step(p).op = "create")
         /\ next'[p] = next[p] => failed
  <1>1. next[p] \in 1..Len(Script[p]) /\ next \in [Proc -> Nat] /\ Len(Script[p]) \in Nat
    BY StepFacts, PlaceFacts
  <1>2. CASE failed /\ Stops(Step(p))
    <2>1. gaveUp' = gaveUp \cup {p} /\ next' = next
      BY <1>2 DEF Outcome, GivesUp
    <2> QED BY <1>1, <1>2, <2>1 DEF ClientTypeOK
  <1>3. CASE ~(failed /\ Stops(Step(p)))
    <2>1. next' = [next EXCEPT ![p] = @ + 1] /\ gaveUp' = gaveUp
      BY <1>3 DEF Outcome, GoesOn
    <2>2. /\ next'[p] = next[p] + 1 /\ \A q \in Proc : q # p => next'[q] = next[q]
          /\ next' \in [Proc -> Nat]
      BY <1>1, <2>1
    <2>3. p \notin gaveUp
      BY DEF Running
    <2> QED BY <1>1, <1>3, <2>1, <2>2, <2>3 DEF ClientTypeOK, Stops
  <1> QED BY <1>2, <1>3

-----------------------------------------------------------------------------
(* What a handler does to its request, and to the lock of the request.     *)
Handled(p) ==
  LET l == Step(p).lock
      c == call[p]
      d == call'[p]
  IN  /\ \A q \in Proc : q # p => call'[q] = call[q]
      /\ d.op = c.op /\ d.at # "idle"
      /\ d.at # "done" => d.todo = c.todo
      /\ d.at \in {"schedule", "position"} => d.op = "lock"
      /\ \A m \in Locks : status'[m] = "ABSENT" => status[m] = "ABSENT"
      /\ \A m \in Locks : status'[m] = "LOCKED" => status[m] = "LOCKED" \/ (c.op = "lock" /\ m = l)
      /\ c.op = "unlock" /\ Past(d) => Past(c) \/ status'[l] = "UNLOCKED"
      /\ c.op = "lock" /\ d.at # "exists" /\ ~Refused(d) => status'[l] # "ABSENT"

(* A request with one lock, and where its fields go.                       *)
LEMMA OneLock ==
  ASSUME ClientInv, NEW p \in Proc, call[p].at \notin {"idle", "done"}
  PROVE  /\ Running(p) /\ Step(p).lock \in Locks /\ Current(p) = Step(p).lock
         /\ call[p].todo = <<Step(p).lock>> /\ Tail(call[p].todo) = <<>>
         /\ call \in [Proc -> Calls] /\ status \in [Locks -> Statuses]
         /\ call[p].op = Step(p).op /\ call[p].op \in {"create", "lock", "unlock"}
  <1>1. Running(p) /\ call[p].op = Step(p).op /\ call[p].todo = <<Step(p).lock>>
    BY DEF ClientInv, Linked
  <1>2. Step(p).lock \in Locks /\ Step(p) \in CallSteps
    BY <1>1, StepFacts DEF ClientInv
  <1>3. Head(<<Step(p).lock>>) = Step(p).lock /\ Tail(<<Step(p).lock>>) = <<>>
    OBVIOUS
  <1> QED BY <1>1, <1>2, <1>3 DEF Current, ClientInv, ServiceInv, TypeOK, CallSteps

LEMMA AnswerTo ==
  ASSUME ClientInv, NEW p \in Proc, NEW r, Answer(p, r)
  PROVE  /\ \A q \in Proc : q # p => call'[q] = call[q]
         /\ call'[p].op = call[p].op /\ call'[p].at = "done" /\ call'[p].res = r
  <1>1. call \in [Proc -> Calls] /\ call[p] \in Calls
    BY DEF ClientInv, ServiceInv, TypeOK
  <1> QED BY <1>1 DEF Answer, Calls

LEMMA AdvanceTo ==
  ASSUME ClientInv, NEW p \in Proc, NEW label, Advance(p, label)
  PROVE  /\ \A q \in Proc : q # p => call'[q] = call[q]
         /\ call'[p].op = call[p].op /\ call'[p].at = label /\ call'[p].res = call[p].res
         /\ call'[p].todo = call[p].todo
  <1>1. call \in [Proc -> Calls] /\ call[p] \in Calls
    BY DEF ClientInv, ServiceInv, TypeOK
  <1> QED BY <1>1 DEF Advance, Calls

LEMMA NextLockTo ==
  ASSUME ClientInv, NEW p \in Proc, call[p].at \notin {"idle", "done"}, NEW grants,
         NextLock(p, grants)
  PROVE  /\ \A q \in Proc : q # p => call'[q] = call[q]
         /\ call'[p].op = call[p].op /\ call'[p].at = "done" /\ call'[p].res = "ok"
  <1>1. call \in [Proc -> Calls] /\ call[p] \in Calls /\ Tail(call[p].todo) = <<>>
    BY OneLock
  <1>2. call' = [call EXCEPT ![p].todo = <<>>, ![p].won = @ \cup grants,
                             ![p].at = "done", ![p].res = "ok"]
    BY <1>1 DEF NextLock, GoOn
  <1> QED BY <1>1, <1>2 DEF Calls

(* The checks: no lock is written, and a Lock goes on only past a lock     *)
(* that is there.                                                          *)
LEMMA CheckHandled ==
  ASSUME ClientInv, NEW p \in Proc, CheckExists(p) \/ LockReadsStatus(p) \/ UnlockReadsStatus(p)
  PROVE  Handled(p)
  <1> DEFINE l == Step(p).lock
  <1>1. call[p].at \in {"exists", "status"} /\ UNCHANGED status
    BY DEF CheckExists, LockReadsStatus, UnlockReadsStatus, Doing
  <1>2. Current(p) = l /\ l \in Locks /\ FoundLock(p)
    BY <1>1, OneLock DEF ClientInv
  <1>3. ASSUME Answer(p, "error") PROVE Handled(p)
    BY <1>1, <1>3, AnswerTo DEF Handled, Past, Refused
  <1>4. CASE CheckExists(p)
    <2>1. CASE Answer(p, "error")
      BY <1>3, <2>1
    <2>2. CASE ~Answer(p, "error")
      <3>1. \/ call[p].op = "create" /\ Advance(p, "pending")
            \/ status[l] # "ABSENT" /\ Advance(p, "status")
        BY <1>2, <1>4, <2>2 DEF CheckExists, Found
      <3>2. CASE call[p].op = "create" /\ Advance(p, "pending")
        BY <1>1, <3>2, AdvanceTo DEF Handled, Past, Refused
      <3>3. CASE status[l] # "ABSENT" /\ Advance(p, "status")
        BY <1>1, <3>3, AdvanceTo DEF Handled, Past, Refused
      <3> QED BY <3>1, <3>2, <3>3
    <2> QED BY <2>1, <2>2
  <1>5. CASE LockReadsStatus(p)
    <2>1. call[p].op = "lock" /\ call[p].at = "status" /\ status[l] # "ABSENT"
      BY <1>2, <1>5 DEF LockReadsStatus, Doing, FoundLock, Refused
    <2>2. Advance(p, "schedule") \/ Advance(p, "lock") \/ Answer(p, "error")
      BY <1>5 DEF LockReadsStatus
    <2>3. ASSUME NEW label \in {"schedule", "lock"}, Advance(p, label) PROVE Handled(p)
      BY <1>1, <2>1, <2>3, AdvanceTo DEF Handled, Past, Refused
    <2> QED BY <1>3, <2>2, <2>3
  <1>6. CASE UnlockReadsStatus(p)
    <2>1. call[p].op = "unlock"
      BY <1>6 DEF UnlockReadsStatus, Doing
    <2>2. CASE status[l] = "UNLOCKED"
      <3>1. Answer(p, "ok")
        BY <1>2, <1>6, <2>2 DEF UnlockReadsStatus
      <3> QED BY <1>1, <2>1, <2>2, <3>1, AnswerTo DEF Handled, Refused
    <2>3. CASE status[l] # "UNLOCKED"
      <3>1. Advance(p, "unlock")
        BY <1>2, <1>6, <2>3 DEF UnlockReadsStatus
      <3> QED BY <1>1, <2>1, <3>1, AdvanceTo DEF Handled, Past, Refused
    <2> QED BY <2>2, <2>3
  <1> QED BY <1>4, <1>5, <1>6

(* The writes.                                                             *)
LEMMA WriteHandled ==
  ASSUME ClientInv, NEW p \in Proc,
         CreateWritesPending(p) \/ CreateWritesUnlocked(p) \/ WriteLocked(p) \/ WriteUnlocked(p)
  PROVE  Handled(p)
  <1> DEFINE l == Step(p).lock
  <1>1. call[p].at \in {"pending", "free", "lock", "unlock"}
    BY DEF CreateWritesPending, CreateWritesUnlocked, WriteLocked, WriteUnlocked
  <1>2. /\ Current(p) = l /\ l \in Locks /\ status \in [Locks -> Statuses]
        /\ call[p].op \in {"create", "lock", "unlock"}
    BY <1>1, OneLock
  <1>3. CallOK(call[p])
    BY DEF ClientInv, ServiceInv
  <1>4. ASSUME NEW s, Write(l, s)
        PROVE  status'[l] = s /\ \A m \in Locks : m # l => status'[m] = status[m]
    BY <1>2, <1>4 DEF Write
  <1>5. CASE CreateWritesPending(p)
    <2>1. call[p].op = "create" /\ Write(l, "PENDING_CREATION") /\ Advance(p, "free")
      BY <1>2, <1>3, <1>5 DEF CreateWritesPending, CallOK
    <2> QED BY <1>2, <1>4, <2>1, AdvanceTo DEF Handled, Past
  <1>6. CASE CreateWritesUnlocked(p)
    <2>1. call[p].op = "create" /\ Write(l, "UNLOCKED") /\ NextLock(p, {})
      BY <1>2, <1>3, <1>6 DEF CreateWritesUnlocked, CallOK
    <2> QED BY <1>1, <1>2, <1>4, <2>1, NextLockTo DEF Handled
  <1>7. CASE WriteLocked(p)
    <2>1. call[p].op = "lock" /\ Write(l, "LOCKED") /\ NextLock(p, {l})
      BY <1>2, <1>3, <1>7 DEF WriteLocked, CallOK
    <2> QED BY <1>1, <1>2, <1>4, <2>1, NextLockTo DEF Handled
  <1>8. CASE WriteUnlocked(p)
    <2>1. call[p].op = "unlock" /\ Write(l, "UNLOCKED") /\ Advance(p, "release")
      BY <1>2, <1>3, <1>8 DEF WriteUnlocked, CallOK
    <2> QED BY <1>2, <1>4, <2>1, AdvanceTo DEF Handled
  <1> QED BY <1>5, <1>6, <1>7, <1>8

(* The queue manager has answered.                                         *)
LEMMA ReturnHandled ==
  ASSUME ClientInv, NEW p \in Proc,
         ReleaseReturns(p) \/ ScheduleReturns(p) \/ PositionReturns(p) \/ AcquireReturns(p)
  PROVE  Handled(p)
  <1> DEFINE l == Step(p).lock
  <1>1. call[p].at \in {"release", "schedule", "position", "acquire"} /\ UNCHANGED status
    BY DEF ReleaseReturns, ScheduleReturns, PositionReturns, AcquireReturns
  <1>2. /\ call[p].op = "lock" => status[l] # "ABSENT"
        /\ call[p].at \in {"schedule", "position"} => call[p].op = "lock"
    BY <1>1 DEF ClientInv, FoundLock, Refused, Linked
  <1>3. ASSUME Answer(p, "error") PROVE Handled(p)
    BY <1>1, <1>3, AnswerTo DEF Handled, Past, Refused
  <1>4. CASE ReleaseReturns(p)
    <2>1. call[p].at = "release" /\ NextLock(p, {})
      BY <1>4 DEF ReleaseReturns
    <2> QED BY <1>1, <1>2, <2>1, NextLockTo DEF Handled, Past
  <1>5. CASE ScheduleReturns(p)
    <2>1. CASE Answer(p, "error")
      BY <1>3, <2>1
    <2>2. CASE ~Answer(p, "error")
      <3>1. call[p].at = "schedule" /\ Advance(p, "position")
        BY <1>5, <2>2 DEF ScheduleReturns
      <3> QED BY <1>1, <1>2, <3>1, AdvanceTo DEF Handled, Past
    <2> QED BY <2>1, <2>2
  <1>6. CASE PositionReturns(p)
    <2>1. CASE Answer(p, "error")
      BY <1>3, <2>1
    <2>2. CASE ~Answer(p, "error")
      <3>1. call[p].at = "position" /\ NextLock(p, {})
        BY <1>6, <2>2 DEF PositionReturns
      <3> QED BY <1>1, <1>2, <3>1, NextLockTo DEF Handled
    <2> QED BY <2>1, <2>2
  <1>7. CASE AcquireReturns(p)
    <2>1. Advance(p, "lock") \/ Answer(p, "error")
      BY <1>7 DEF AcquireReturns
    <2>2. CASE Advance(p, "lock")
      BY <1>1, <1>2, <2>2, AdvanceTo DEF Handled, Past
    <2> QED BY <1>3, <2>1, <2>2
  <1> QED BY <1>4, <1>5, <1>6, <1>7

(* A command fails.                                                        *)
LEMMA FailHandled ==
  ASSUME ClientInv, NEW p \in Proc, HandlerCommandFails(p)
  PROVE  Handled(p)
  <1> DEFINE l == Step(p).lock
             at == call[p].at
             r == IF at \in {"pending", "free"} THEN "ok" ELSE "error"
  <1>1. /\ at \in {"exists", "status", "pending", "free", "lock", "unlock"}
        /\ Answer(p, r)
        /\ UNCHANGED status \/ (at \in Writes /\ Write(Current(p), Written(p)))
    BY DEF HandlerCommandFails, Writes
  <1>2. /\ Current(p) = l /\ l \in Locks /\ status \in [Locks -> Statuses]
        /\ call[p].op \in {"create", "lock", "unlock"}
    BY <1>1, OneLock
  <1>3. /\ at \in {"pending", "free"} => call[p].op = "create"
        /\ at = "lock" => call[p].op = "lock"
        /\ at = "unlock" => call[p].op = "unlock"
    BY <1>2 DEF ClientInv, ServiceInv, CallOK
  <1>4. /\ \A q \in Proc : q # p => call'[q] = call[q]
        /\ call'[p].op = call[p].op /\ call'[p].at = "done" /\ call'[p].res = r
    BY <1>1, AnswerTo
  <1>5. Past(call'[p]) \/ ~Refused(call'[p]) => call[p].op = "create"
    BY <1>3, <1>4 DEF Past, Refused
  <1>6. CASE UNCHANGED status
    BY <1>4, <1>5, <1>6 DEF Handled
  <1>7. CASE at \in Writes /\ Write(l, Written(p))
    <2>1. status'[l] = Written(p) /\ \A m \in Locks : m # l => status'[m] = status[m]
      BY <1>2, <1>7 DEF Write
    <2>2. /\ Written(p) \in {"PENDING_CREATION", "LOCKED", "UNLOCKED"}
          /\ Written(p) = "LOCKED" => call[p].op = "lock"
      BY <1>3, <1>7 DEF Written, Writes
    <2> QED BY <1>2, <1>4, <1>5, <2>1, <2>2 DEF Handled
  <1> QED BY <1>1, <1>2, <1>6, <1>7

LEMMA HandlerHandled ==
  ASSUME ClientInv, NEW p \in Proc, Handle(p) \/ HandlerFails(p)
  PROVE  Handled(p) /\ UNCHANGED clientVars /\ call[p].at \notin {"idle", "done"}
  <1>1. CASE Handle(p)
    <2>1. ~Respond(p)
      BY <1>1 DEF Handle, Respond
    <2>2. HandlerStep(p) /\ UNCHANGED clientVars
      BY <1>1 DEF Handle
    <2>3. call[p].at \notin {"idle", "done"}
      BY <2>1, <2>2 DEF HandlerStep, CheckExists, LockReadsStatus, UnlockReadsStatus, Doing,
         CreateWritesPending, CreateWritesUnlocked, WriteLocked, WriteUnlocked, ReleaseReturns,
         ScheduleReturns, PositionReturns, AcquireReturns
    <2> QED BY <2>1, <2>2, <2>3, CheckHandled, WriteHandled, ReturnHandled DEF HandlerStep
  <1>2. CASE HandlerFails(p)
    BY <1>2, FailHandled DEF HandlerFails, HandlerCommandFails, Writes
  <1> QED BY <1>1, <1>2

-----------------------------------------------------------------------------
(* The clients' part of the invariant, one goroutine at a time.            *)

(* Locks do not vanish.                                                    *)
Remain == \A m \in Locks : status'[m] = "ABSENT" => status[m] = "ABSENT"

(* A goroutine that is where it was, in its script and in its request.     *)
Same(q) ==
  /\ next'[q] = next[q] /\ (q \in gaveUp' <=> q \in gaveUp)
  /\ call'[q].op = call[q].op /\ call'[q].at = call[q].at
  /\ call'[q].res = call[q].res /\ call'[q].todo = call[q].todo

LEMMA SameKept ==
  ASSUME ClientInv, Remain, NEW q \in Proc, Same(q)
  PROVE  Linked(q)' /\ FoundLock(q)' /\ \A m \in Locks : Due(q, m) => Due(q, m)'
  <1>1. Linked(q) /\ FoundLock(q) /\ (call[q].at # "idle" => Step(q).lock \in Locks)
    BY StepFacts DEF ClientInv, Linked
  <1>2. Linked(q)'
    BY <1>1 DEF Linked, Running, Step, Same
  <1>3. FoundLock(q)'
    BY <1>1 DEF FoundLock, Refused, Step, Same, Remain
  <1>4. \A m \in Locks : Due(q, m) => Due(q, m)'
    BY DEF Due, Past, Same
  <1> QED BY <1>2, <1>3, <1>4

(* What a goroutine holds after a step: what it held, or the lock that its *)
(* Lock returned nil for.                                                  *)
LEMMA HoldsKept ==
  ASSUME ClientInv, Remain,
         \A q \in Proc : \/ next'[q] = next[q]
                         \/ /\ next'[q] = next[q] + 1 /\ Running(q)
                            /\ Step(q).op = "lock" => status[Step(q).lock] # "ABSENT"
  PROVE  HeldLocksExist'
  <1> SUFFICES ASSUME NEW q \in Proc, NEW c \in Clients, NEW l \in Locks, Holds(q, c, l)'
               PROVE  status'[l] # "ABSENT"
    BY DEF HeldLocksExist
  <1>1. next[q] \in Nat /\ ClientTypeOK /\ HeldLocksExist
    BY PlaceFacts DEF ClientInv
  <1>2. PICK i \in 1..(next'[q] - 1) :
          /\ Script[q][i] = [op |-> "lock", client |-> c, lock |-> l]
          /\ \A j \in (i + 1)..(next'[q] - 1) :
               Script[q][j] # [op |-> "unlock", client |-> c, lock |-> l]
    BY DEF Holds
  <1>3. CASE i \in 1..(next[q] - 1)
    <2>1. next[q] <= next'[q] /\ next'[q] \in Nat
      BY <1>1
    <2>2. Holds(q, c, l)
      BY <1>1, <1>2, <1>3, <2>1 DEF Holds
    <2> QED BY <1>1, <2>2 DEF HeldLocksExist, Remain
  <1>4. CASE i \notin 1..(next[q] - 1)
    <2>1. /\ i = next[q] /\ Step(q) = [op |-> "lock", client |-> c, lock |-> l]
          /\ Step(q).op = "lock" => status[Step(q).lock] # "ABSENT"
      BY <1>1, <1>2, <1>4 DEF Step
    <2> QED BY <2>1 DEF Remain
  <1> QED BY <1>3, <1>4

ClientKept ==
  /\ ClientTypeOK'
  /\ \A p \in Proc : Linked(p)' /\ FoundLock(p)'
  /\ \A l \in Locks : status'[l] = "LOCKED" => \E p \in Proc : Due(p, l)'
  /\ HeldLocksExist'

(* A step of a handler.                                                    *)
LEMMA HandlerKept ==
  ASSUME ClientInv, NEW p \in Proc, Handle(p) \/ HandlerFails(p)
  PROVE  ClientKept
  <1> DEFINE l == Step(p).lock
  <1>1. Handled(p) /\ UNCHANGED clientVars /\ call[p].at \notin {"idle", "done"}
    BY HandlerHandled
  <1>2. /\ Remain /\ next' = next /\ gaveUp' = gaveUp
        /\ \A q \in Proc : q # p => Same(q)
    BY <1>1 DEF Handled, Remain, Same, clientVars
  <1>3. ClientTypeOK' /\ HeldLocksExist'
    BY <1>2, HoldsKept DEF ClientInv, ClientTypeOK
  <1>4. /\ Running(p) /\ l \in Locks /\ call[p].op = Step(p).op
        /\ call[p].todo = <<l>> /\ status \in [Locks -> Statuses] /\ ClientTypeOK
    BY <1>1, OneLock DEF ClientInv
  <1>5. Linked(p)' /\ FoundLock(p)'
    BY <1>1, <1>2, <1>4 DEF Linked, FoundLock, Handled, Running, Step
  <1>6. ASSUME NEW m \in Locks, status'[m] = "LOCKED" PROVE \E q \in Proc : Due(q, m)'
    <2>1. status[m] = "LOCKED" \/ (call[p].op = "lock" /\ m = l)
      BY <1>1, <1>6 DEF Handled
    <2>2. CASE call[p].op = "lock" /\ m = l
      <3>1. next[p] \in 1..Len(Script[p]) /\ Script[p][next[p]].op = "lock" /\ Len(Script[p]) \in Nat
        BY <1>4, <2>2, StepFacts, PlaceFacts DEF Step
      <3>2. PICK j \in next[p] + 1..Len(Script[p]) :
              Script[p][j].op = "unlock" /\ Script[p][j].lock = m
        BY <2>2, <3>1, PairsAssumption DEF Step
      <3>3. j \in next[p]..Len(Script[p]) /\ j # next[p]
        BY <3>1
      <3>4. Due(p, m)'
        BY <1>2, <3>2, <3>3 DEF Due
      <3> QED BY <3>4
    <2>3. CASE status[m] = "LOCKED"
      <3>1. PICK r \in Proc : Due(r, m)
        BY <2>3 DEF ClientInv
      <3>2. CASE r # p
        BY <1>2, <3>1, <3>2, SameKept
      <3>3. CASE r = p
        <4>1. PICK i \in next[p]..Len(Script[p]) :
                /\ Script[p][i].op = "unlock" /\ Script[p][i].lock = m
                /\ i = next[p] => ~Past(call[p])
          BY <3>1, <3>3 DEF Due
        <4>2. ASSUME i = next[p] PROVE ~Past(call'[p])
          <5>1. call[p].op = "unlock" /\ m = l
            BY <1>4, <4>1, <4>2 DEF Step
          <5> QED BY <1>1, <1>6, <4>1, <4>2, <5>1 DEF Handled
        <4>3. Due(p, m)'
          BY <1>2, <4>1, <4>2 DEF Due
        <4> QED BY <4>3
      <3> QED BY <3>2, <3>3
    <2> QED BY <2>1, <2>2, <2>3
  <1> QED BY <1>2, <1>3, <1>5, <1>6, SameKept DEF ClientKept

(* A method sends its request.                                             *)
LEMMA SendKept ==
  ASSUME ClientInv, NEW p \in Proc, Send(p)
  PROVE  ClientKept /\ [Next]_vars
  <1> DEFINE s == Step(p)
             locks == <<s.lock>>
  <1>1. Running(p) /\ UNCHANGED clientVars /\ ClientTypeOK /\ call \in [Proc -> Calls]
    BY DEF Send, ClientInv, ServiceInv, TypeOK
  <1>2. /\ s.op \in {"create", "lock", "unlock"} /\ locks \in Requests
        /\ Receive(p, s.op, locks)
        /\ CreateRequest(p, locks) \/ LockRequest(p, locks) \/ UnlockRequest(p, locks)
    BY <1>1, StepFacts
       DEF Send, Request, CreateRequest, LockRequest, UnlockRequest, CallSteps
  <1>3. Next
    BY <1>2 DEF Next, Act, Arrive
  <1> DEFINE dis == IF s.op = "unlock" THEN Range(locks) ELSE {}
             cert == held \ dis
  <1>4. /\ call[p].at = "idle" /\ UNCHANGED status
        /\ call' = [q \in Proc |->
                      IF q = p
                      THEN [IdleCall EXCEPT !.op = s.op, !.at = "exists", !.todo = locks,
                                            !.late = cert]
                      ELSE [call[q] EXCEPT !.late = @ \ dis]]
    BY <1>2 DEF Receive
  <1>5. call'[p].op = s.op /\ call'[p].at = "exists" /\ call'[p].todo = locks
    BY <1>4 DEF IdleCall
  <1>6. /\ Remain /\ next' = next /\ gaveUp' = gaveUp
        /\ \A q \in Proc : q # p => Same(q)
    <2>1. ASSUME NEW q \in Proc, q # p
          PROVE  /\ call'[q].op = call[q].op /\ call'[q].at = call[q].at
                 /\ call'[q].res = call[q].res /\ call'[q].todo = call[q].todo
      <3>1. call'[q] = [call[q] EXCEPT !.late = @ \ dis] /\ call[q] \in Calls
        BY <1>1, <1>4, <2>1
      <3> QED BY <3>1 DEF Calls
    <2> QED BY <1>1, <1>4, <2>1 DEF Remain, Same, clientVars
  <1>7. ClientTypeOK' /\ HeldLocksExist'
    BY <1>6, HoldsKept DEF ClientInv, ClientTypeOK
  <1>8. Linked(p)' /\ FoundLock(p)'
    BY <1>1, <1>5, <1>6 DEF Linked, FoundLock, Running, Step
  <1>9. \A m \in Locks : Due(p, m) => Due(p, m)'
    BY <1>5, <1>6 DEF Due, Past
  <1>10. \A q \in Proc : Linked(q)' /\ FoundLock(q)' /\ \A m \in Locks : Due(q, m) => Due(q, m)'
    BY <1>6, <1>8, <1>9, SameKept
  <1>11. \A m \in Locks : status'[m] = "LOCKED" => \E q \in Proc : Due(q, m)'
    BY <1>4, <1>10 DEF ClientInv
  <1> QED BY <1>3, <1>7, <1>10, <1>11 DEF ClientKept

(* A call ends, with its answer or without, or is never made.              *)
LEMMA OutcomeKept ==
  ASSUME ClientInv, NEW p \in Proc, Running(p), NEW failed \in BOOLEAN, Outcome(p, failed),
         UNCHANGED status, call'[p].at = "idle",
         \A q \in Proc : q # p => call'[q] = call[q],
         \/ failed
         \/ call[p].at = "done" /\ call[p].res # "error" /\ call[p].op = Step(p).op
  PROVE  ClientKept
  <1>1. ClientTypeOK
    BY DEF ClientInv
  <1>2. /\ ClientTypeOK'
        /\ \A q \in Proc : q # p => next'[q] = next[q] /\ (q \in gaveUp' <=> q \in gaveUp)
        /\ \/ next'[p] = next[p]
           \/ next'[p] = next[p] + 1 /\ (~failed \/ Step(p).op = "create")
    BY <1>1, OutcomeFacts
  <1>3. Remain /\ \A q \in Proc : q # p => Same(q)
    BY <1>2 DEF Remain, Same
  <1>4. ~failed /\ Step(p).op = "lock" => status[Step(p).lock] # "ABSENT"
    BY DEF ClientInv, FoundLock, Refused
  <1>5. HeldLocksExist'
    BY <1>2, <1>3, <1>4, HoldsKept
  <1>6. Linked(p)' /\ FoundLock(p)'
    BY DEF Linked, FoundLock
  <1>7. ASSUME NEW m \in Locks, Due(p, m) PROVE Due(p, m)'
    <2>1. PICK i \in next[p]..Len(Script[p]) :
            /\ Script[p][i].op = "unlock" /\ Script[p][i].lock = m
            /\ i = next[p] => ~Past(call[p])
      BY <1>7 DEF Due
    <2>2. next[p] \in Nat /\ Len(Script[p]) \in Nat
      BY <1>1, PlaceFacts
    <2>3. i \in next'[p]..Len(Script[p])
      <3>1. i = next[p] => next'[p] = next[p]
        BY <1>2, <2>1, <2>2 DEF Step, Past
      <3> QED BY <1>2, <2>2, <3>1
    <2> QED BY <2>1, <2>3 DEF Due, Past
  <1>8. \A q \in Proc : Linked(q)' /\ FoundLock(q)' /\ \A m \in Locks : Due(q, m) => Due(q, m)'
    BY <1>3, <1>6, <1>7, SameKept
  <1>9. \A m \in Locks : status'[m] = "LOCKED" => \E q \in Proc : Due(q, m)'
    BY <1>8 DEF ClientInv
  <1> QED BY <1>2, <1>5, <1>8, <1>9 DEF ClientKept

LEMMA ReturnKept ==
  ASSUME ClientInv, NEW p \in Proc, MethodReturns(p) \/ ResponseLost(p) \/ Unreachable(p)
  PROVE  ClientKept /\ [Next]_vars
  <1>1. call \in [Proc -> Calls] /\ Linked(p)
    BY DEF ClientInv, ServiceInv, TypeOK
  <1>2. CASE MethodReturns(p) \/ ResponseLost(p)
    <2>1. /\ Respond(p) /\ call[p].at = "done"
          /\ Running(p) /\ call[p].op = Step(p).op
      BY <1>1, <1>2 DEF MethodReturns, ResponseLost, Respond, Linked
    <2>2. /\ UNCHANGED status /\ call'[p].at = "idle"
          /\ \A q \in Proc : q # p => call'[q] = call[q]
      BY <1>1, <2>1 DEF Respond, IdleCall
    <2>3. [Next]_vars
      BY <2>1 DEF Next, Act, HandlerStep
    <2>4. PICK failed \in BOOLEAN : Outcome(p, failed) /\ (~failed => call[p].res # "error")
      BY <1>2 DEF MethodReturns, ResponseLost, Failed
    <2> QED BY <2>1, <2>2, <2>3, <2>4, OutcomeKept
  <1>3. CASE Unreachable(p)
    BY <1>3, OutcomeKept DEF Unreachable, vars
  <1> QED BY <1>2, <1>3

(* The methods that wait return with an error.                             *)
LEMMA GoneKept ==
  ASSUME ClientInv, ServerGone
  PROVE  ClientKept
  <1> DEFINE waiting == {p \in Proc : call[p].at # "idle"}
  <1>1. /\ UNCHANGED status /\ \A p \in Proc : call'[p].at = "idle"
        /\ gaveUp' = gaveUp \cup {p \in waiting : Stops(Step(p))}
        /\ next' = [p \in Proc |->
                      IF p \in waiting /\ ~Stops(Step(p)) THEN next[p] + 1 ELSE next[p]]
    BY DEF ServerGone, ServerCrash, IdleCall
  <1>2. ClientTypeOK /\ \A p \in waiting : Running(p) /\ next[p] \in 1..Len(Script[p])
    BY StepFacts DEF ClientInv, Linked
  <1>3. \A p \in Proc : next[p] \in Nat /\ Len(Script[p]) \in Nat
                          /\ next[p] \in 1..Len(Script[p]) + 1
    BY <1>2, PlaceFacts
  <1>4. \A p \in Proc : \/ next'[p] = next[p]
                        \/ /\ next'[p] = next[p] + 1 /\ Running(p) /\ p \in waiting
                           /\ Step(p).op = "create"
    BY <1>1, <1>2 DEF Stops
  <1>5. ClientTypeOK'
    <2>1. next' \in [Proc -> Nat] /\ gaveUp' \subseteq Proc
      BY <1>1, <1>2, <1>3 DEF ClientTypeOK
    <2>2. \A p \in Proc : next'[p] \in 1..Len(Script[p]) + 1
      BY <1>2, <1>3, <1>4
    <2>3. \A p \in gaveUp' : next'[p] <= Len(Script[p])
      BY <1>1, <1>2, <1>3 DEF ClientTypeOK, Running
    <2> QED BY <2>1, <2>2, <2>3 DEF ClientTypeOK
  <1>6. Remain /\ HeldLocksExist'
    BY <1>1, <1>4, HoldsKept DEF Remain
  <1>7. \A p \in Proc : Linked(p)' /\ FoundLock(p)'
    BY <1>1 DEF Linked, FoundLock
  <1>8. ASSUME NEW p \in Proc, NEW m \in Locks, Due(p, m) PROVE Due(p, m)'
    <2>1. PICK i \in next[p]..Len(Script[p]) :
            Script[p][i].op = "unlock" /\ Script[p][i].lock = m
      BY <1>8 DEF Due
    <2>2. i \in next'[p]..Len(Script[p])
      BY <1>3, <1>4, <2>1 DEF Step
    <2> QED BY <1>1, <2>1, <2>2 DEF Due, Past
  <1>9. \A m \in Locks : status'[m] = "LOCKED" => \E q \in Proc : Due(q, m)'
    BY <1>1, <1>8 DEF ClientInv
  <1> QED BY <1>5, <1>6, <1>7, <1>9 DEF ClientKept

(* The queue manager, the clock, and a stuttering step.                    *)
LEMMA ElsewhereKept ==
  ASSUME ClientInv, UNCHANGED <<call, status, next, gaveUp>>
  PROVE  ClientKept
  <1>1. Remain /\ \A q \in Proc : Same(q)
    BY DEF Remain, Same
  <1>2. ClientTypeOK' /\ HeldLocksExist'
    BY <1>1, HoldsKept DEF ClientInv, ClientTypeOK
  <1> QED BY <1>1, <1>2, SameKept DEF ClientKept, ClientInv

-----------------------------------------------------------------------------
(* A step of the clients is a step of the service, and keeps the clients'  *)
(* part of the invariant.                                                  *)
LEMMA ClientStep ==
  ASSUME ClientInv, [ClientNext]_sdkVars
  PROVE  ClientKept /\ [Next]_vars
  <1>1. ASSUME NEW p \in Proc, Send(p) PROVE ClientKept /\ [Next]_vars
    BY <1>1, SendKept
  <1>2. ASSUME NEW p \in Proc, MethodReturns(p) \/ ResponseLost(p) \/ Unreachable(p)
        PROVE  ClientKept /\ [Next]_vars
    BY <1>2, ReturnKept
  <1>3. ASSUME NEW p \in Proc, Handle(p) \/ HandlerFails(p) PROVE ClientKept /\ [Next]_vars
    BY <1>3, HandlerKept DEF Handle, HandlerFails, Next, Act
  <1>4. ASSUME NEW p \in Proc, Package(p) PROVE ClientKept /\ [Next]_vars
    BY <1>4, ElsewhereKept DEF Package, PackageStep, InPackage, clientVars, Next, Act
  <1>5. CASE ServerGone
    BY <1>5, GoneKept DEF ServerGone, Next
  <1>6. CASE Clock
    BY <1>6, ElsewhereKept DEF Clock, ClockTick, clientVars, Next
  <1>7. CASE UNCHANGED sdkVars
    BY <1>7, ElsewhereKept DEF sdkVars, vars, clientVars
  <1> QED BY <1>1, <1>2, <1>3, <1>4, <1>5, <1>6, <1>7 DEF ClientNext

LEMMA ClientStart == ClientInit => ClientInv
  <1> SUFFICES ASSUME ClientInit PROVE ClientInv
    OBVIOUS
  <1>1. ServiceInv
    BY ServiceInit DEF ClientInit
  <1>2. \A p \in Proc : Script[p] \in Seq(CallSteps) /\ Len(Script[p]) \in Nat
    BY ScriptAssumption, LenProperties
  <1>3. ClientTypeOK
    BY <1>2 DEF ClientInit, ClientTypeOK
  <1>4. \A p \in Proc : Linked(p) /\ FoundLock(p)
    BY DEF ClientInit, Init, IdleCall, Linked, FoundLock
  <1>5. (\A l \in Locks : status[l] # "LOCKED") /\ HeldLocksExist
    BY DEF ClientInit, Init, HeldLocksExist, Holds
  <1> QED BY <1>1, <1>3, <1>4, <1>5 DEF ClientInv

(* In every reachable state: a request under way is that of its            *)
(* goroutine's call, and every locked lock has a goroutine with an Unlock  *)
(* of it still to do.                                                      *)
THEOREM ClientInductive == ClientSpec => []ClientInv
  <1>1. ClientInv /\ [ClientNext]_sdkVars => ClientInv'
    BY ClientStep, NextService DEF ClientInv, ClientKept
  <1> QED BY ClientStart, <1>1, PTL DEF ClientSpec

(* The clients of the SDK are among those LockService was modelled with:   *)
(* what is proved of the service holds for them.                           *)
THEOREM ClientsUseTheService == ClientSpec => Spec
  <1>1. ClientInv /\ [ClientNext]_sdkVars => [Next]_vars
    BY ClientStep
  <1>2. ClientInit => Init
    BY DEF ClientInit
  <1> QED BY ClientInductive, <1>1, <1>2, PTL DEF ClientSpec, Spec

(* A goroutine is at a place of its script, and stays at the call that     *)
(* made it give up.                                                        *)
THEOREM ClientTypeCorrect == ClientSpec => []ClientTypeOK
  <1>1. ClientInv => ClientTypeOK
    BY DEF ClientInv
  <1> QED BY ClientInductive, <1>1, PTL

(* A lock that Redis has as LOCKED has a goroutine that is still to unlock *)
(* it or gave up before it did, whatever fails and whatever crashes: where *)
(* no call of the SDK returned an error, no lock stays locked for nobody.  *)
THEOREM NoSilentLeak == ClientSpec => []LeaksOnlyByError
  <1>1. ClientInv => LeaksOnlyByError
    BY DEF ClientInv, LeaksOnlyByError, Due, Owes
  <1> QED BY ClientInductive, <1>1, PTL

(* A lock that a client was told it has, or waits for, exists: the Create  *)
(* that failed and was answered as a success shows at the first Lock.      *)
THEOREM NobodyHoldsAMissingLock == ClientSpec => []HeldLocksExist
  <1>1. ClientInv => HeldLocksExist
    BY DEF ClientInv
  <1> QED BY ClientInductive, <1>1, PTL

(* The exclusion that Lock gives, for the clients of the SDK.              *)
THEOREM ClientsExclude == "try" \notin Surface => (ClientSpec => []NoGrantOverSettledHold)
  <1> SUFFICES ASSUME "try" \notin Surface PROVE ClientSpec => []NoGrantOverSettledHold
    OBVIOUS
  <1> QED BY ClientsUseTheService, SettledHoldsExclude, PTL
=============================================================================
