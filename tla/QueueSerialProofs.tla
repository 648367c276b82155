-------------------------- MODULE QueueSerialProofs --------------------------
(***************************************************************************)
(* QueueCallers when calls for one lock do not overlap (SerialSpec),       *)
(* whatever fails: it implements TicketLine, and the client of ":qn" is    *)
(* never behind another.  OneCallerInv is the inductive invariant of both. *)
(***************************************************************************)
EXTENDS QueueCallersProofs, QueueLineProofs

-----------------------------------------------------------------------------
(* The refinement.                                                         *)

(* SerialSpec is Spec with calls kept apart; one goroutine always is.      *)
LEMMA SerialApart == SerialSpec => Spec /\ []OneCallPerLock
  <1>1. Init => OneCallPerLock
    BY DEF Init, QueueInit, IdleFrame, OneCallPerLock, Ready
  <1>2. OneCallPerLock /\ [Next /\ OneCallPerLock']_vars => OneCallPerLock'
    BY DEF OneCallPerLock, Ready, vars, queueVars
  <1>3. [Next /\ OneCallPerLock']_vars => [Next]_vars
    OBVIOUS
  <1> QED BY <1>1, <1>2, <1>3, PTL DEF SerialSpec, Spec

LEMMA OneGoroutine ==
  ASSUME NEW p, Proc = {p}
  PROVE  Spec => SerialSpec
  <1>1. [Next]_vars => [Next /\ OneCallPerLock']_vars
    BY DEF OneCallPerLock
  <1> QED BY <1>1, PTL DEF SerialSpec, Spec

LEMMA NextOneCall ==
  ASSUME QueueInv, OneCallerInv, OneCallPerLock, [Next]_vars
  PROVE  /\ OneCallerInv'
         /\ \/ UNCHANGED <<queue, issued>>
            \/ \E p \in Proc : Mid(p) /\ (Joins(p) \/ Leaves(p))
  <1>1. ASSUME NEW p \in Proc, Call(p) PROVE OneCallerInv' /\ UNCHANGED <<queue, issued>>
    BY <1>1, StartLine DEF Call, ScheduleLock, GetQueuePosition, AcquireLock, ReleaseLock
  <1>2. ASSUME NEW p \in Proc, Finish(p) PROVE OneCallerInv' /\ UNCHANGED <<queue, issued>>
    BY <1>2, StartLine DEF Finish
  <1>3. ASSUME NEW p \in Proc, QueueStep(p)
        PROVE  OneCallerInv' /\ Mid(p) /\ (UNCHANGED <<queue, issued>> \/ Joins(p) \/ Leaves(p))
    BY <1>3, StepLine
  <1>4. CASE QueueCrash \/ Tick \/ UNCHANGED vars
    BY <1>4, EnvironmentLine DEF vars
  <1>5. CASE \E p \in Proc : QueueStep(p)
    BY <1>3, <1>5
  <1> QED BY <1>1, <1>2, <1>4, <1>5 DEF Next, Step, Environment

(* What the goroutine does to the queue of its lock is a step of the line  *)
(* of that lock.                                                           *)
LEMMA LineStep ==
  ASSUME NEW p, Mid(p), Joins(p) \/ Leaves(p)
  PROVE  Line!Next
  <1> DEFINE l == frame[p].lock
             line == [m \in Locks |-> queue[<<Instance, m>>]]
  <1>1. Own(p) = <<Instance, l>> /\ Own(p) \in Keys /\ l \in Locks /\ DOMAIN queue = Keys
    BY MidFacts DEF Own, Keys
  <1>2. \A m \in Locks : <<Instance, m>> \in Keys /\ (<<Instance, m>> = Own(p) <=> m = l)
    BY <1>1 DEF Keys
  <1>3. ASSUME NEW q, queue' = [queue EXCEPT ![Own(p)] = q]
        PROVE  line' = [line EXCEPT ![l] = q]
    BY <1>1, <1>2, <1>3
  <1>4. line[l] = queue[Own(p)]
    BY <1>1
  <1>5. CASE Joins(p)
    <2>1. line' = [line EXCEPT ![l] = Append(line[l], issued')] /\ issued' = issued + 1
      BY <1>3, <1>4, <1>5 DEF Joins
    <2> HIDE DEF l
    <2> QED BY <1>1, <2>1 DEF Line!Next, Line!Join
  <1>6. CASE Leaves(p)
    <2>1. line' = [line EXCEPT ![l] = Tail(line[l])] /\ issued' = issued /\ line[l] # <<>>
      BY <1>3, <1>4, <1>6 DEF Leaves
    <2> HIDE DEF l
    <2> QED BY <1>1, <2>1 DEF Line!Next, Line!Leave
  <1> QED BY <1>5, <1>6

(* Calls that do not overlap on a lock see a line: clients join at the     *)
(* end, and only the one at the front leaves, for any number of goroutines *)
(* at any number of locks, whichever command fails or loses its answer and *)
(* whenever the process dies.                                              *)
THEOREM CallsInTurnKeepTheLine == SerialSpec => ImplementsTicketLine
  <1>1. Init => Line!Init /\ OneCallerInv
    BY InitLine DEF Init, QueueInit, Line!Init, Keys
  <1>2. IInv /\ OneCallerInv /\ OneCallPerLock /\ [Next]_vars => OneCallerInv'
    BY NextOneCall DEF IInv
  <1>3. ASSUME IInv, OneCallerInv, OneCallPerLock, [Next]_vars
        PROVE  [Line!Next]_<<[l \in Locks |-> queue[<<Instance, l>>]], issued>>
    <2>1. CASE UNCHANGED <<queue, issued>>
      BY <2>1
    <2>2. CASE \E p \in Proc : Mid(p) /\ (Joins(p) \/ Leaves(p))
      BY <2>2, LineStep
    <2> QED BY <1>3, <2>1, <2>2, NextOneCall DEF IInv
  <1> QED BY <1>1, <1>2, <1>3, SerialApart, InductiveInvariant, PTL
          DEF Spec, ImplementsTicketLine, Line!Spec

(* AcquireLock takes the client of ":qn" out of the queue wherever it      *)
(* stands.  It only ever stands at the front, for any number of goroutines *)
(* and locks, both configurations of the databases, and whatever fails or  *)
(* dies between the writes of ":q" and ":qn".                              *)
THEOREM NextUpStaysFirst == SerialSpec => []NextUpIsFirst
  <1>1. Init => OneCallerInv
    BY InitLine DEF Init
  <1>2. IInv /\ OneCallerInv /\ OneCallPerLock /\ [Next]_vars => OneCallerInv'
    BY NextOneCall DEF IInv
  <1>3. OneCallerInv => NextUpIsFirst
    BY DEF OneCallerInv, NextUpIsFirst
  <1> QED BY <1>1, <1>2, <1>3, SerialApart, InductiveInvariant, PTL DEF Spec

(* A single goroutine always sees a line.                                  *)
COROLLARY OneCallerKeepsTheLine ==
  ASSUME NEW p, Proc = {p}
  PROVE  Spec => ImplementsTicketLine
  BY OneGoroutine, CallsInTurnKeepTheLine

=============================================================================
