------------------------- MODULE QueueCallersProofs -------------------------
(***************************************************************************)
(* The safety properties of QueueCallers, for every number of goroutines,  *)
(* locks, queue ids, clock ticks and faults, and for every declaration of  *)
(* instances and of the management database.  IInv is the inductive        *)
(* invariant; what the package's own steps do to it is proved in           *)
(* QueueManagerProofs, and here the callers are added.                     *)
(***************************************************************************)
EXTENDS QueueCallers, QueueManagerProofs

(* No queue id was handed out before the first call.                       *)
LEMMA InitIInv == Init => IInv
  <1> SUFFICES ASSUME Init PROVE IInv
    OBVIOUS
  <1>1. QueueInv /\ ApartInv
    BY QueueInitInv, ApartInitInv DEF Init
  <1>2. told \in [Locks -> SUBSET (1..issued)]
    BY DEF Init
  <1> QED BY <1>1, <1>2 DEF IInv

(* A step of the package never takes a queue id back, so what callers were *)
(* told stays true.                                                        *)
LEMMA CallersKeep ==
  ASSUME IInv, QueueInv', ApartInv', issued <= issued', UNCHANGED told
  PROVE  IInv'
  <1>1. issued \in Nat /\ issued' \in Nat
    BY DEF IInv, QueueInv, QueueTypeOK
  <1>2. 1..issued \subseteq 1..issued'
    BY <1>1
  <1>3. told' \in [Locks -> SUBSET (1..issued')]
    BY <1>2 DEF IInv
  <1> QED BY <1>3 DEF IInv

(* Opening a call.                                                         *)
LEMMA CallKeeps ==
  ASSUME IInv, NEW p \in Proc, Call(p)
  PROVE  IInv'
  <1>1. issued \in Nat /\ NoTicket \in 0..issued
    BY DEF IInv, QueueInv, QueueTypeOK, NoTicket
  <1>2. PICK l \in Locks : \/ ScheduleLock(p, l) \/ ReleaseLock(p, l)
                           \/ \E t \in told[l] : AcquireLock(p, l, t) \/ GetQueuePosition(p, l, t)
    BY DEF Call
  <1>3. \A t \in told[l] : t \in 0..issued /\ t # NoTicket
    BY <1>1 DEF IInv, NoTicket
  <1>4. Kept(p) /\ ApartInv' /\ UNCHANGED told
    <2>1. CASE ScheduleLock(p, l)
      BY <1>1, <2>1, StartKeeps, ApartStartInv
         DEF ScheduleLock, StartSchedule, Start, IInv, QueueOps
    <2>2. CASE ReleaseLock(p, l)
      BY <1>1, <2>2, StartReleaseKeeps, ApartStartInv
         DEF ReleaseLock, StartRelease, Start, IInv
    <2>3. CASE \E t \in told[l] : AcquireLock(p, l, t)
      <3>1. PICK t \in told[l] : AcquireLock(p, l, t)
        BY <2>3
      <3> QED BY <1>3, <3>1, StartKeeps, ApartStartInv
                 DEF AcquireLock, StartAcquire, Start, IInv, QueueOps
    <2>4. CASE \E t \in told[l] : GetQueuePosition(p, l, t)
      <3>1. PICK t \in told[l] : GetQueuePosition(p, l, t)
        BY <2>4
      <3> QED BY <1>3, <3>1, StartKeeps, ApartStartInv
                 DEF GetQueuePosition, StartPosition, Start, IInv, QueueOps
    <2> QED BY <1>2, <2>1, <2>2, <2>3, <2>4
  <1>5. QueueInv' /\ issued <= issued'
    BY <1>4, KeptInv DEF Kept, IInv
  <1> QED BY <1>4, <1>5, CallersKeep

(* A command of the package.                                               *)
LEMMA StepKeeps ==
  ASSUME IInv, NEW p \in Proc, Step(p)
  PROVE  IInv'
  <1>1. QueueInv' /\ issued <= issued'
    BY QueueStepInv DEF Step, Kept, IInv
  <1>2. ApartInv'
    BY ApartStepInv DEF Step, IInv
  <1> QED BY <1>1, <1>2, CallersKeep DEF Step

(* A call returns: a queue id it tells is one that was issued.             *)
LEMMA FinishKeeps ==
  ASSUME IInv, NEW p \in Proc, Finish(p)
  PROVE  IInv'
  <1>1. QueueInv' /\ ApartInv' /\ UNCHANGED <<issued>>
    BY CloseKeeps, KeptInv, ApartCloseInv DEF Finish, Kept, IInv, redis
  <1>2. /\ FrameOK(frame[p], issued) /\ issued \in Nat /\ frame[p].lock \in Locks
        /\ frame[p].op = "schedule" /\ frame[p].res = "ok" => frame[p].ticket \in 1..issued
    BY FrameFacts DEF Finish, IInv, FrameOK, At, NoTicket
  <1>3. told' \in [Locks -> SUBSET (1..issued')]
    BY <1>1, <1>2 DEF Finish, IInv
  <1> QED BY <1>1, <1>3 DEF IInv

(* The whole step relation, one step per kind of action.                   *)
LEMMA NextIInv == IInv /\ [Next]_vars => IInv'
  <1> SUFFICES ASSUME IInv, [Next]_vars PROVE IInv'
    OBVIOUS
  <1>1. ASSUME NEW p \in Proc, Call(p) PROVE IInv'
    BY <1>1, CallKeeps
  <1>2. ASSUME NEW p \in Proc, Step(p) PROVE IInv'
    BY <1>2, StepKeeps
  <1>3. ASSUME NEW p \in Proc, Finish(p) PROVE IInv'
    BY <1>3, FinishKeeps
  <1>4. CASE Environment \/ UNCHANGED vars
    <2>1. QueueInv'
      BY <1>4, CrashInv, TickInv, QueueStutterInv DEF Environment, vars, IInv
    <2>2. ApartInv'
      BY <1>4, ApartEnvironmentInv DEF Environment, vars, IInv
    <2>3. UNCHANGED <<issued, told>> /\ issued \in Nat
      BY <1>4 DEF Environment, QueueCrash, Tick, vars, queueVars, IInv, QueueInv, QueueTypeOK
    <2> QED BY <2>1, <2>2, <2>3, CallersKeep
  <1> QED BY <1>1, <1>2, <1>3, <1>4 DEF Next

-----------------------------------------------------------------------------
(* The inductive invariant is invariant.                                   *)
THEOREM InductiveInvariant == Spec => []IInv
  BY InitIInv, NextIInv, PTL DEF Spec

(* Type correctness: the variables of the package and of its callers hold  *)
(* values of their types; in particular ":qn" and the lists in Redis hold  *)
(* only queue ids addToQueue wrote, and every index the list functions use *)
(* exists.                                                                 *)
THEOREM TypeCorrect == Spec => []TypeOK
  <1>1. IInv => TypeOK
    BY DEF IInv, TypeOK, QueueInv
  <1> QED BY <1>1, InductiveInvariant, PTL

(* First come, first served, for any number of requests, interleavings,    *)
(* failed commands, lost answers and crashes: addToQueue, removeFromQueue  *)
(* and moveToNextClient never reorder two clients in Redis and never list  *)
(* one twice.                                                              *)
THEOREM CommitOrder == Spec => []QueueInCommitOrder
  <1>1. IInv => QueueInCommitOrder
    BY DEF IInv, QueueInv
  <1> QED BY <1>1, InductiveInvariant, PTL

(* No call keeps a mutex: the goroutine that holds a lock's is inside      *)
(* enterNextClientTimeoutPeriod for it, whatever fails there, so whoever   *)
(* waits for the mutex waits for a goroutine that does not itself wait.    *)
THEOREM MutexReturned == Spec => []MutexHeldInside
  <1>1. Init => MutexHeldInside
    BY MutexInitInv DEF Init
  <1>2. ASSUME IInv, MutexHeldInside, [Next]_vars
        PROVE  MutexHeldInside'
    <2>1. QueueInv
      BY <1>2 DEF IInv
    <2>2. ASSUME NEW p \in Proc, Call(p) PROVE MutexHeldInside'
      BY <1>2, <2>1, <2>2, MutexCallInv DEF Call, ScheduleLock, GetQueuePosition, AcquireLock, ReleaseLock
    <2>3. ASSUME NEW p \in Proc, Step(p) PROVE MutexHeldInside'
      BY <1>2, <2>1, <2>3, MutexStepInv DEF Step
    <2>4. ASSUME NEW p \in Proc, Finish(p) PROVE MutexHeldInside'
      BY <1>2, <2>1, <2>4, MutexCallInv DEF Finish, At, Ready
    <2>5. CASE Environment \/ UNCHANGED vars
      BY <1>2, <2>5, MutexEnvironmentInv DEF Environment, vars, queueVars
    <2> QED BY <1>2, <2>2, <2>3, <2>4, <2>5 DEF Next
  <1> QED BY <1>1, <1>2, InductiveInvariant, PTL DEF Spec

(* No call turns in circles, for any number of goroutines that move the    *)
(* keys under each other: every step leaves a call fewer steps to take.    *)
(* AcquireLock takes 18 at the most.                                       *)
THEOREM CallsAdvance == Spec => CallsOnlyAdvance
  <1>1. ASSUME IInv, [Next]_vars
        PROVE  [FewerSteps]_vars
    <2>1. QueueInv
      BY <1>1 DEF IInv
    <2>2. ASSUME NEW p \in Proc, Call(p) PROVE FewerSteps
      BY <2>1, <2>2, CallFewer DEF Call, ScheduleLock, GetQueuePosition, AcquireLock, ReleaseLock, At, Ready
    <2>3. ASSUME NEW p \in Proc, Step(p) PROVE FewerSteps
      BY <2>1, <2>3, StepFewer DEF Step
    <2>4. ASSUME NEW p \in Proc, Finish(p) PROVE FewerSteps
      BY <2>1, <2>4, CallFewer DEF Finish, At, Ready
    <2>5. CASE Environment
      BY <2>1, <2>5, EnvironmentFewer DEF Environment
    <2> QED BY <1>1, <2>2, <2>3, <2>4, <2>5 DEF Next
  <1> QED BY <1>1, InductiveInvariant, PTL DEF Spec, CallsOnlyAdvance
=============================================================================
