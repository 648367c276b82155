--------------------------- MODULE LockServiceProofs ---------------------------
(***************************************************************************)
(* The safety properties of LockService, for every number of goroutines,   *)
(* locks, lists of locks, queue ids, clock ticks and faults.  Types are    *)
(* proved of every surface; the exclusion of settled grants and the place  *)
(* of settled waiters where clients do not call TryAcquireLock, which is   *)
(* how the server is registered.                                           *)
(***************************************************************************)
EXTENDS LockService, QueueLineProofs

-----------------------------------------------------------------------------
(* Lists of locks.                                                         *)

(* The locks of a request's list are among those it still has to do before *)
(* and after the first is done.                                            *)
LEMMA ListFacts ==
  ASSUME NEW S, NEW s \in Seq(S), s # <<>>
  PROVE  /\ Head(s) \in S /\ Head(s) \in Range(s)
         /\ Tail(s) \in Seq(S) /\ Range(Tail(s)) \subseteq Range(s)
  <1>1. /\ Len(s) \in Nat /\ Len(s) >= 1 /\ Head(s) = s[1] /\ Head(s) \in S
        /\ DOMAIN s = 1..Len(s)
    BY LenProperties, HeadTailProperties, EmptySeq
  <1>2. /\ Tail(s) \in Seq(S) /\ Len(Tail(s)) = Len(s) - 1
        /\ DOMAIN Tail(s) = 1..(Len(s) - 1)
        /\ \A i \in 1..(Len(s) - 1) : Tail(s)[i] = s[i + 1]
    BY <1>1, LenProperties, HeadTailProperties
  <1>3. ASSUME NEW i \in 1..(Len(s) - 1)
        PROVE  i + 1 \in 1..Len(s)
    BY <1>1
  <1> QED BY <1>1, <1>2, <1>3 DEF Range

-----------------------------------------------------------------------------
(* What a step of the package changes.                                     *)

(* Without TryAcquireLock a queue is only ever written by addToQueue.      *)
LEMMA StepJoins ==
  ASSUME QueueInv, NEW p \in Proc, QueueStep(p), frame[p].op # "acquire"
  PROVE  /\ queue' = queue \/ (At(p, "add.set") /\ WriteAdded(p))
         /\ frame'[p].at = "add.set" =>
              queue' = queue /\ queue[Own(p)] \in {<<>>, frame'[p].items}
  <1>f. frame \in [Proc -> Frames] /\ frame[p] \in Frames
    BY DEF QueueInv, QueueTypeOK
  <1>r. ASSUME NEW r, Return(p, r)
        PROVE  frame'[p].at = "done"
    BY <1>f, <1>r DEF Return, Frames
  <1>g. ASSUME NEW label, NEW items, GotoWith(p, label, items)
        PROVE  frame'[p].at = label /\ frame'[p].items = items
    BY <1>f, <1>g DEF GotoWith, Frames
  <1>o. frame[p].at \notin TurnLabels \cup RemoveLabels \cup MoveLabels
    <2>1. ~At(p, "idle")
      BY StepFrame
    <2> QED BY <2>1, FrameFacts DEF StepOK
  <1>1. CASE AddStep(p)
    <2>1. CASE AddExists(p)
      BY <1>f, <1>g, <2>1 DEF AddExists, Goto, Reads, redis
    <2>2. CASE AddGet(p)
      BY <1>f, <1>g, <1>r, <2>2 DEF AddGet, GetQueue, Reads, redis
    <2>3. CASE AddSet(p)
      <3>1. frame'[p].at \in {"add.next", "done"}
        BY <1>f, <2>3 DEF AddSet, Frames
      <3> QED BY <2>3, <3>1 DEF AddSet
    <2>4. CASE AddNext(p)
      BY <1>r, <2>4 DEF AddNext
    <2> QED BY <1>1, <2>1, <2>2, <2>3, <2>4 DEF AddStep
  <1>2. CASE PositionStep(p)
    BY <1>f, <1>r, <1>g, <1>2 DEF PositionStep, PositionExists, PositionGet, Goto, Reads, redis
  <1>3. ~TurnStep(p)
    BY <1>o DEF TurnStep, NextExists, NextGet, WindowExists, WindowGet, WindowCheck, At, TurnLabels
  <1>4. ~RemoveStep(p)
    BY <1>o DEF RemoveStep, RemoveExists, RemoveGet, RemoveNext, RemoveNextGet, RemoveSet, At,
                RemoveLabels
  <1>5. ~MoveStep(p)
    BY <1>o DEF MoveStep, MoveExists, MoveDropNext, MoveDropWindow, MoveGet, MoveWindow, MoveClear,
                MoveClearNext, MoveSet, At, MoveLabels
  <1>6. CASE EnterStep(p) \/ EnterLock(p)
    BY <1>r, <1>g, <1>6
       DEF EnterStep, EnterExists, EnterGet, EnterNext, EnterWindow, EnterLock, Goto, redis
  <1>7. CASE FailStep(p)
    <2>1. CASE CommandFails(p)
      BY <1>r, <2>1 DEF CommandFails, redis
    <2>2. CASE AnswerLost(p)
      BY <1>r, <1>o, <2>2 DEF AnswerLost, At, RemoveLabels, MoveLabels
    <2>3. ~NextKeyUnreadable(p) /\ ~DeleteFails(p)
      BY <1>o DEF NextKeyUnreadable, DeleteFails, Deletes, EmptiesQueue, At, RemoveLabels, MoveLabels
    <2> QED BY <1>7, <2>1, <2>2, <2>3 DEF FailStep
  <1> QED BY <1>1, <1>2, <1>3, <1>4, <1>5, <1>6, <1>7 DEF QueueStep, QueueCommand

-----------------------------------------------------------------------------
(* Requests from one step to the next.                                     *)

(* What every handler step keeps of the requests.                          *)
CallKept(p) ==
  /\ call' = [call EXCEPT ![p] = call'[p]]
  /\ CallOK(call'[p])

(* A goroutine without a request.                                          *)
LEMMA IdleCallOK == CallOK(IdleCall)
  <1>1. <<>> \in Seq(Locks)
    BY EmptySeq
  <1> QED BY <1>1 DEF CallOK, IdleCall, Calls

(* The types of the requests, and the first lock of one under way.         *)
LEMMA CallFacts ==
  ASSUME ServiceInv, NEW p \in Proc
  PROVE  /\ call \in [Proc -> Calls] /\ CallOK(call[p]) /\ call[p] \in Calls
         /\ call[p].todo \in Seq(Locks)
         /\ call[p].at \notin {"idle", "done"} =>
              /\ call[p].todo # <<>> /\ Current(p) \in Locks
              /\ Current(p) \in Range(call[p].todo)
              /\ Tail(call[p].todo) \in Seq(Locks)
              /\ Range(Tail(call[p].todo)) \subseteq Range(call[p].todo)
  <1>1. call \in [Proc -> Calls] /\ CallOK(call[p]) /\ call[p] \in Calls
    BY DEF ServiceInv, TypeOK
  <1>2. call[p].todo \in Seq(Locks)
    BY <1>1 DEF Calls
  <1>3. call[p].at \notin {"idle", "done"} => call[p].todo # <<>>
    BY <1>1 DEF CallOK
  <1> QED BY <1>1, <1>2, <1>3, ListFacts DEF Current

(* A call of the package belongs to its goroutine's request, which is at   *)
(* the lock of the call; every other step of a request finds no call open. *)
LEMMA WaitFacts ==
  ASSUME ServiceInv, NEW p \in Proc
  PROVE  /\ WaitOK(call[p], frame[p])
         /\ call[p].at \notin QueueOps => Ready(p)
         /\ ~Ready(p) => Working(p) /\ frame[p].lock = Current(p)
  <1>1. WaitOK(call[p], frame[p]) /\ frame[p] \in Frames /\ call[p] \in Calls
    BY DEF ServiceInv, TypeOK, QueueTypeOK
  <1>2. /\ frame[p].op \in QueueOps \cup {"none"} /\ call[p].at # "none"
        /\ frame[p].op \notin {"idle", "done"}
    BY <1>1 DEF Frames, Calls, QueueOps
  <1> QED BY <1>1, <1>2 DEF WaitOK, Ready, Working, Current

(* The request is answered.                                                *)
LEMMA AnswerKept ==
  ASSUME ServiceInv, NEW p \in Proc, NEW r \in {"ok", "error"}, Answer(p, r)
  PROVE  /\ CallKept(p) /\ call'[p].at = "done"
         /\ call'[p].won = call[p].won /\ call'[p].late = call[p].late
         /\ call'[p].todo = call[p].todo
  <1> DEFINE c == [call[p] EXCEPT !.at = "done", !.res = r]
  <1>1. call \in [Proc -> Calls] /\ call[p] \in Calls /\ CallOK(call[p])
    BY CallFacts
  <1>2. call' = [call EXCEPT ![p] = c] /\ call'[p] = c
    BY <1>1 DEF Answer
  <1>3. /\ c \in Calls /\ c.at = "done" /\ c.won = call[p].won /\ c.late = call[p].late
        /\ c.todo = call[p].todo
    BY <1>1 DEF Calls
  <1> HIDE DEF c
  <1> QED BY <1>2, <1>3 DEF CallKept, CallOK

(* The request goes on to its next command for the same lock.              *)
LEMMA AdvanceKept ==
  ASSUME ServiceInv, NEW p \in Proc, call[p].at \notin {"idle", "done"},
         NEW label \in {"exists", "status", "pending", "free", "lock", "unlock",
                        "schedule", "position", "release", "acquire"},
         label \in {"pending", "free"} => call[p].op = "create",
         label = "lock" => call[p].op \in {"lock", "try"},
         label = "acquire" => call[p].op = "try",
         label = "unlock" => call[p].op = "unlock",
         Advance(p, label)
  PROVE  /\ CallKept(p) /\ call'[p].at = label
         /\ call'[p].op = call[p].op /\ call'[p].todo = call[p].todo
         /\ call'[p].won = call[p].won /\ call'[p].late = call[p].late
  <1> DEFINE c == [call[p] EXCEPT !.at = label]
  <1>1. call \in [Proc -> Calls] /\ call[p] \in Calls /\ call[p].todo # <<>>
    BY CallFacts
  <1>2. call' = [call EXCEPT ![p] = c] /\ call'[p] = c
    BY <1>1 DEF Advance
  <1>3. /\ c \in Calls /\ c.at = label /\ c.op = call[p].op /\ c.todo = call[p].todo
        /\ c.won = call[p].won /\ c.late = call[p].late
    BY <1>1 DEF Calls
  <1> HIDE DEF c
  <1>4. CallOK(c)
    BY <1>1, <1>3 DEF CallOK
  <1> QED BY <1>2, <1>3, <1>4 DEF CallKept

(* The request is done with a lock, and goes on with the rest of its list. *)
LEMMA NextLockKept ==
  ASSUME ServiceInv, NEW p \in Proc, call[p].at \notin {"idle", "done"},
         NEW grants \in SUBSET Locks, NextLock(p, grants)
  PROVE  /\ CallKept(p) /\ call'[p].at \in {"exists", "done"}
         /\ call'[p].op = call[p].op /\ call'[p].todo = Tail(call[p].todo)
         /\ call'[p].won = call[p].won \cup grants /\ call'[p].late = call[p].late
  <1> DEFINE rest == Tail(call[p].todo)
             c == [call[p] EXCEPT !.todo = rest, !.won = @ \cup grants,
                                  !.at = IF rest = <<>> THEN "done" ELSE "exists",
                                  !.res = IF rest = <<>> THEN "ok" ELSE "none"]
  <1>1. call \in [Proc -> Calls] /\ call[p] \in Calls /\ rest \in Seq(Locks)
    BY CallFacts
  <1> HIDE DEF rest
  <1>2. call' = [call EXCEPT ![p] = c] /\ call'[p] = c
    BY <1>1 DEF NextLock, GoOn, rest
  <1>3. /\ c \in Calls /\ c.at = (IF rest = <<>> THEN "done" ELSE "exists")
        /\ c.op = call[p].op /\ c.todo = rest
        /\ c.won = call[p].won \cup grants /\ c.late = call[p].late
    BY <1>1 DEF Calls
  <1> HIDE DEF c
  <1>4. CallOK(c) /\ c.at \in {"exists", "done"}
    BY <1>3 DEF CallOK
  <1> QED BY <1>2, <1>3, <1>4 DEF CallKept, rest

(* A step that moves one request, and the package on its behalf, keeps the *)
(* invariant.                                                              *)
LEMMA ServiceKept ==
  ASSUME ServiceInv, NEW p \in Proc, QueueInv', issued <= issued',
         frame' = [frame EXCEPT ![p] = frame'[p]], CallKept(p), WaitOK(call'[p], frame'[p]),
         status' \in [Locks -> Statuses], told' \in [Locks -> SUBSET (1..issued')],
         held' \subseteq Locks, line' \in [Locks -> Seq(1..issued')]
  PROVE  ServiceInv'
  <1>1. call \in [Proc -> Calls] /\ frame \in [Proc -> Frames]
    BY DEF ServiceInv, TypeOK, QueueTypeOK
  <1>2. ASSUME NEW q \in Proc
        PROVE  CallOK(call'[q]) /\ WaitOK(call'[q], frame'[q])
    <2>1. CASE q = p
      BY <2>1 DEF CallKept
    <2>2. CASE q # p
      <3>1. call'[q] = call[q] /\ frame'[q] = frame[q]
        BY <1>1, <2>2 DEF CallKept
      <3> QED BY <3>1 DEF ServiceInv
    <2> QED BY <2>1, <2>2
  <1>3. call' \in [Proc -> Calls]
    BY <1>1, <1>2 DEF CallKept, CallOK
  <1> QED BY <1>2, <1>3 DEF ServiceInv, TypeOK, QueueInv, CallOK, WaitOK

(* Queue ids issued stay issued.                                           *)
LEMMA HistoriesTyped ==
  ASSUME ServiceInv, QueueInv', issued <= issued'
  PROVE  /\ 1..issued \subseteq 1..issued'
         /\ told \in [Locks -> SUBSET (1..issued')] /\ line \in [Locks -> Seq(1..issued')]
         /\ held \subseteq Locks /\ status \in [Locks -> Statuses]
  <1>1. issued \in Nat /\ issued' \in Nat
    BY DEF ServiceInv, QueueInv, QueueTypeOK
  <1>2. 1..issued \subseteq 1..issued'
    BY <1>1
  <1>3. /\ told \in [Locks -> SUBSET (1..issued)] /\ line \in [Locks -> Seq(1..issued)]
        /\ held \subseteq Locks /\ status \in [Locks -> Statuses]
    BY DEF ServiceInv, TypeOK
  <1>4. \A l \in Locks : line[l] \in Seq(1..issued')
    BY <1>2, <1>3, SeqMonotonic
  <1> QED BY <1>2, <1>3, <1>4

-----------------------------------------------------------------------------
(* ServiceInv: the types of the service, and what its requests know.       *)

(* Before the first request nobody waits and no list is under way.         *)
LEMMA ServiceInit == Init => ServiceInv
  <1> SUFFICES ASSUME Init PROVE ServiceInv
    OBVIOUS
  <1>1. QueueInv
    BY QueueInitInv DEF Init
  <1>2. /\ status \in [Locks -> Statuses] /\ told \in [Locks -> SUBSET (1..issued)]
        /\ held \subseteq Locks /\ line \in [Locks -> Seq(1..issued)]
    BY EmptySeq DEF Init, Statuses
  <1>3. \A p \in Proc : call[p] = IdleCall /\ frame[p].at = "idle"
    BY DEF Init, QueueInit, IdleFrame
  <1>4. \A p \in Proc : CallOK(call[p]) /\ WaitOK(call[p], frame[p])
    BY <1>3, IdleCallOK DEF WaitOK, IdleCall
  <1>5. call \in [Proc -> Calls]
    BY <1>4 DEF Init, CallOK
  <1> QED BY <1>1, <1>2, <1>4, <1>5 DEF ServiceInv, TypeOK, QueueInv

(* A request arrives, and nobody else's is changed but for what it finds   *)
(* held.                                                                   *)
LEMMA ReceiveService ==
  ASSUME ServiceInv, NEW p \in Proc, NEW op \in {"create", "lock", "unlock"},
         NEW locks \in Requests, Receive(p, op, locks)
  PROVE  ServiceInv'
  <1> DEFINE disturbed == IF op = "unlock" THEN Range(locks) ELSE {}
             new == [IdleCall EXCEPT !.op = op, !.at = "exists", !.todo = locks,
                                     !.late = held \ disturbed]
             Old(q) == [call[q] EXCEPT !.late = @ \ disturbed]
  <1>1. QueueInv' /\ UNCHANGED <<issued, frame, status, told, line>>
    BY QueueStutterInv DEF ServiceInv, Receive, queueVars
  <1>2. held' = held \ disturbed /\ held \subseteq Locks
    BY DEF Receive, ServiceInv, TypeOK
  <1>3. call' = [q \in Proc |-> IF q = p THEN new ELSE Old(q)]
    BY DEF Receive
  <1>4. locks \in Seq(Locks) /\ locks # <<>>
    BY RequestsAssumption
  <1>5. CallOK(new) /\ WaitOK(new, frame[p])
    <2>1. IdleCall \in Calls
      BY IdleCallOK DEF CallOK
    <2>2. new \in Calls /\ new.at = "exists" /\ new.todo = locks
      BY <1>2, <1>4, <2>1 DEF Calls
    <2>3. Ready(p)
      BY WaitFacts DEF Receive, QueueOps
    <2> HIDE DEF new
    <2> QED BY <1>4, <2>2, <2>3 DEF CallOK, WaitOK, Ready
  <1>6. ASSUME NEW q \in Proc
        PROVE  CallOK(Old(q)) /\ WaitOK(Old(q), frame[q])
    <2>1. call[q] \in Calls /\ CallOK(call[q]) /\ WaitOK(call[q], frame[q])
      BY DEF ServiceInv, TypeOK
    <2>2. /\ Old(q) \in Calls /\ Old(q).at = call[q].at /\ Old(q).op = call[q].op
          /\ Old(q).todo = call[q].todo
      BY <2>1 DEF Calls
    <2> HIDE DEF Old
    <2> QED BY <2>1, <2>2 DEF CallOK, WaitOK
  <1> HIDE DEF new, Old, disturbed
  <1>7. \A q \in Proc : CallOK(call'[q]) /\ WaitOK(call'[q], frame'[q])
    BY <1>1, <1>3, <1>5, <1>6
  <1>8. call' \in [Proc -> Calls]
    BY <1>3, <1>5, <1>6 DEF CallOK
  <1> QED BY <1>1, <1>2, <1>7, <1>8 DEF ServiceInv, TypeOK, QueueInv

(* TryAcquireLock with a queue id that was told, and so issued.            *)
LEMMA TryService ==
  ASSUME ServiceInv, NEW p \in Proc, NEW l \in Locks, NEW t \in told[l], TryAcquireLock(p, l, t)
  PROVE  ServiceInv'
  <1> DEFINE c == [IdleCall EXCEPT !.op = "try", !.at = "acquire", !.todo = <<l>>, !.late = held]
  <1>1. issued \in Nat /\ t \in 0..issued /\ t # NoTicket /\ held \subseteq Locks
        /\ call \in [Proc -> Calls] /\ frame \in [Proc -> Frames]
    BY DEF ServiceInv, TypeOK, QueueTypeOK, NoTicket
  <1>2. Kept(p) /\ issued' = issued
    BY <1>1, StartKeeps DEF TryAcquireLock, StartAcquire, Start, ServiceInv, QueueOps
  <1>3. QueueInv' /\ issued <= issued' /\ frame' = [frame EXCEPT ![p] = frame'[p]]
    BY <1>2, KeptInv DEF Kept, FrameKept, ServiceInv
  <1>4. call' = [call EXCEPT ![p] = c] /\ call'[p] = c
    BY <1>1 DEF TryAcquireLock
  <1>5. CallOK(c) /\ WaitOK(c, frame'[p])
    <2>1. IdleCall \in Calls /\ <<l>> \in Seq(Locks) /\ <<l>> # <<>>
      BY IdleCallOK DEF CallOK
    <2>2. c \in Calls /\ c.at = "acquire" /\ c.op = "try" /\ c.todo = <<l>>
      BY <1>1, <2>1 DEF Calls
    <2>3. frame'[p].op = "acquire" /\ frame'[p].lock = Head(<<l>>)
      BY <1>1 DEF TryAcquireLock, StartAcquire, Start, IdleFrame
    <2> HIDE DEF c
    <2> QED BY <2>1, <2>2, <2>3 DEF CallOK, WaitOK
  <1> HIDE DEF c
  <1>6. CallKept(p) /\ WaitOK(call'[p], frame'[p])
    BY <1>4, <1>5 DEF CallKept
  <1>7. /\ status' \in [Locks -> Statuses] /\ told' \in [Locks -> SUBSET (1..issued')]
        /\ held' \subseteq Locks /\ line' \in [Locks -> Seq(1..issued')]
    BY <1>3, HistoriesTyped DEF TryAcquireLock, historyVars
  <1> QED BY <1>3, <1>6, <1>7, ServiceKept

(* A handler step that leaves the package alone, and finds no call open.   *)
LEMMA OwnStepService ==
  ASSUME ServiceInv, NEW p \in Proc, Ready(p), CallKept(p),
         call'[p].at \notin {"schedule", "position"},
         UNCHANGED <<redis, mutex, frame, now, issued>>, faults' \in Nat,
         status' \in [Locks -> Statuses], held' \subseteq Locks, UNCHANGED <<told, line>>
  PROVE  ServiceInv'
  <1>1. QueueInv' /\ issued <= issued'
    BY DEF ServiceInv, QueueInv, QueueTypeOK, QueueInCommitOrder, redis
  <1>2. frame' = [frame EXCEPT ![p] = frame'[p]] /\ WaitOK(call'[p], frame'[p])
    BY DEF ServiceInv, QueueInv, QueueTypeOK, WaitOK, Ready
  <1>3. told' \in [Locks -> SUBSET (1..issued')] /\ line' \in [Locks -> Seq(1..issued')]
    BY <1>1, HistoriesTyped
  <1> QED BY <1>1, <1>2, <1>3, ServiceKept

(* A handler step that opens or closes a call of the package.              *)
LEMMA CallStepService ==
  ASSUME ServiceInv, NEW p \in Proc, Kept(p), CallKept(p), WaitOK(call'[p], frame'[p]),
         status' \in [Locks -> Statuses], told' \in [Locks -> SUBSET (1..issued')],
         UNCHANGED historyVars
  PROVE  ServiceInv'
  <1>1. QueueInv' /\ issued <= issued' /\ frame' = [frame EXCEPT ![p] = frame'[p]]
    BY KeptInv DEF Kept, FrameKept, ServiceInv
  <1>2. held' \subseteq Locks /\ line' \in [Locks -> Seq(1..issued')]
    BY <1>1, HistoriesTyped DEF historyVars
  <1> QED BY <1>1, <1>2, ServiceKept

(* The handlers' own commands.                                             *)
LEMMA CommandService ==
  ASSUME ServiceInv, NEW p \in Proc,
         CheckExists(p) \/ UnlockReadsStatus(p) \/ CreateWritesPending(p)
           \/ CreateWritesUnlocked(p) \/ WriteLocked(p)
  PROVE  ServiceInv'
  <1> USE DEF queueVars, redis, historyVars, Write, Statuses
  <1>1. /\ status \in [Locks -> Statuses] /\ held \subseteq Locks /\ faults \in Nat
        /\ call[p].at \notin {"idle", "done"} => Current(p) \in Locks
        /\ call[p].at \in {"pending", "free"} => call[p].op = "create"
    BY CallFacts DEF ServiceInv, TypeOK, QueueTypeOK, CallOK
  <1>r. Ready(p)
    BY WaitFacts DEF CheckExists, UnlockReadsStatus, CreateWritesPending, CreateWritesUnlocked,
                     WriteLocked, Doing, QueueOps
  <1>2. CASE CheckExists(p)
    <2>1. CallKept(p) /\ call'[p].at \in {"pending", "status", "done"}
      BY <1>2, AnswerKept, AdvanceKept DEF CheckExists
    <2> QED BY <1>1, <1>r, <1>2, <2>1, OwnStepService DEF CheckExists
  <1>3. CASE UnlockReadsStatus(p)
    <2>1. CallKept(p) /\ call'[p].at \in {"unlock", "done"}
      BY <1>3, AnswerKept, AdvanceKept DEF UnlockReadsStatus, Doing
    <2> QED BY <1>1, <1>r, <1>3, <2>1, OwnStepService DEF UnlockReadsStatus
  <1>4. CASE CreateWritesPending(p)
    <2>1. CallKept(p) /\ call'[p].at = "free"
      BY <1>1, <1>4, AdvanceKept DEF CreateWritesPending
    <2>2. status' \in [Locks -> Statuses]
      BY <1>1, <1>4 DEF CreateWritesPending
    <2> QED BY <1>1, <1>r, <1>4, <2>1, <2>2, OwnStepService DEF CreateWritesPending
  <1>5. CASE CreateWritesUnlocked(p)
    <2>1. CallKept(p) /\ call'[p].at \in {"exists", "done"}
      BY <1>5, NextLockKept DEF CreateWritesUnlocked
    <2>2. status' \in [Locks -> Statuses]
      BY <1>1, <1>5 DEF CreateWritesUnlocked
    <2> QED BY <1>1, <1>r, <1>5, <2>1, <2>2, OwnStepService DEF CreateWritesUnlocked
  <1>6. CASE WriteLocked(p)
    <2>0. call[p].at = "lock" /\ Current(p) \in Locks
      BY <1>1, <1>6 DEF WriteLocked
    <2>1. CallKept(p) /\ call'[p].at \in {"exists", "done"}
      BY <1>6, <2>0, NextLockKept DEF WriteLocked
    <2>2. status' \in [Locks -> Statuses] /\ held' \subseteq Locks
      BY <1>1, <1>6, <2>0 DEF WriteLocked
    <2> QED BY <1>1, <1>r, <1>6, <2>1, <2>2, OwnStepService DEF WriteLocked
  <1> QED BY <1>2, <1>3, <1>4, <1>5, <1>6

(* The handlers' calls of the queue manager.                               *)
LEMMA CallService ==
  ASSUME ServiceInv, NEW p \in Proc, LockReadsStatus(p) \/ WriteUnlocked(p) \/ ScheduleReturns(p)
  PROVE  ServiceInv'
  <1> USE DEF historyVars, Write, Statuses
  <1>1. /\ status \in [Locks -> Statuses] /\ held \subseteq Locks /\ issued \in Nat
        /\ told \in [Locks -> SUBSET (1..issued)] /\ frame \in [Proc -> Frames]
        /\ faults \in Nat /\ NoTicket \in 0..issued
        /\ call[p].at \notin {"idle", "done"} => Current(p) \in Locks
    BY CallFacts DEF ServiceInv, TypeOK, QueueTypeOK, NoTicket
  <1>2. ServiceInv => QueueInv
    BY DEF ServiceInv
  <1>3. CASE LockReadsStatus(p)
    <2>1. call[p].at = "status" /\ call[p].op = "lock"
      BY <1>3 DEF LockReadsStatus, Doing
    <2>2. CASE status[Current(p)] = "LOCKED"
      <3>1. Advance(p, "schedule") /\ StartSchedule(p, Current(p))
              /\ UNCHANGED <<status, told, historyVars>>
        BY <1>3, <2>2 DEF LockReadsStatus, MayTake
      <3>2. /\ Kept(p) /\ issued' = issued
            /\ frame'[p].op = "schedule" /\ frame'[p].lock = Head(call[p].todo)
        BY <1>1, <1>2, <2>1, <3>1, StartKeeps
           DEF StartSchedule, Start, QueueOps, IdleFrame, Current
      <3>3. CallKept(p) /\ call'[p].at = "schedule" /\ call'[p].todo = call[p].todo
        BY <2>1, <3>1, AdvanceKept
      <3> QED BY <1>1, <3>1, <3>2, <3>3, CallStepService DEF WaitOK
    <2>3. CASE status[Current(p)] # "LOCKED"
      <3>1. CallKept(p) /\ call'[p].at \in {"lock", "done"}
        <4>1. CASE MayTake(Current(p))
          BY <1>3, <2>1, <2>3, <4>1, AdvanceKept DEF LockReadsStatus
        <4>2. CASE ~MayTake(Current(p))
          BY <1>3, <2>3, <4>2, AnswerKept DEF LockReadsStatus
        <4> QED BY <4>1, <4>2
      <3>2. UNCHANGED queueVars /\ UNCHANGED <<status, told, historyVars>> /\ Ready(p)
        BY <1>3, <2>1, <2>3, WaitFacts DEF LockReadsStatus, QueueOps
      <3> QED BY <1>1, <3>1, <3>2, OwnStepService DEF queueVars, redis
    <2> QED BY <2>2, <2>3
  <1>4. CASE WriteUnlocked(p)
    <2>0. call[p].at = "unlock" /\ Current(p) \in Locks
      BY <1>1, <1>4 DEF WriteUnlocked
    <2>1. Kept(p) /\ UNCHANGED issued
      BY <1>2, <1>4, <2>0, StartReleaseKeeps DEF WriteUnlocked, StartRelease, Start
    <2>2. CallKept(p) /\ call'[p].at = "release" /\ call'[p].todo = call[p].todo
      BY <1>4, <2>0, AdvanceKept DEF WriteUnlocked
    <2>3. status' \in [Locks -> Statuses]
      BY <1>1, <1>4, <2>0 DEF WriteUnlocked
    <2>4. frame'[p].op = "release" /\ frame'[p].lock = Head(call[p].todo)
      <3>1. StartRelease(p, Current(p))
        BY <1>4 DEF WriteUnlocked
      <3> QED BY <1>1, <3>1 DEF StartRelease, Start, IdleFrame, Current
    <2> QED BY <1>1, <1>4, <2>1, <2>2, <2>3, <2>4, CallStepService DEF WriteUnlocked, WaitOK
  <1>5. CASE ScheduleReturns(p)
    <2>1. /\ call[p].at = "schedule" /\ frame[p].op = "schedule" /\ At(p, "done")
          /\ frame[p].lock = Head(call[p].todo) /\ Ready(p)
          /\ UNCHANGED <<status, told, historyVars>>
      BY <1>5, WaitFacts DEF ScheduleReturns, WaitOK, Ready, At
    <2>2. CASE frame[p].res = "ok"
      <3>1. /\ Advance(p, "position") /\ StartPosition(p, frame[p].lock, frame[p].ticket)
        BY <1>5, <2>2 DEF ScheduleReturns
      <3>2. frame[p].lock \in Locks /\ frame[p].ticket \in 0..issued /\ frame[p].ticket # NoTicket
        BY <1>2, <2>1, <2>2, FrameFacts DEF At, FrameOK
      <3>3. Kept(p) /\ issued' = issued
        BY <1>2, <3>1, <3>2, StartKeeps DEF StartPosition, Start, QueueOps
      <3>4. /\ frame'[p].op = "position" /\ frame'[p].ticket = frame[p].ticket
            /\ frame'[p].lock = frame[p].lock
        BY <1>1, <3>1 DEF StartPosition, Start, IdleFrame
      <3>5. CallKept(p) /\ call'[p].at = "position" /\ call'[p].todo = call[p].todo
        BY <2>1, <3>1, AdvanceKept
      <3> QED BY <1>1, <2>1, <3>2, <3>3, <3>4, <3>5, CallStepService DEF WaitOK
    <2>3. CASE frame[p].res # "ok"
      <3>1. Answer(p, "error") /\ UNCHANGED queueVars
        BY <1>5, <2>3 DEF ScheduleReturns
      <3>2. CallKept(p) /\ call'[p].at = "done"
        BY <3>1, AnswerKept
      <3> QED BY <1>1, <2>1, <3>1, <3>2, OwnStepService DEF queueVars, redis
    <2> QED BY <2>2, <2>3
  <1> QED BY <1>3, <1>4, <1>5

(* The queue manager has answered, or the client has.                      *)
LEMMA ReturnService ==
  ASSUME ServiceInv, NEW p \in Proc,
         ReleaseReturns(p) \/ PositionReturns(p) \/ AcquireReturns(p) \/ Respond(p)
  PROVE  ServiceInv'
  <1>1. /\ status \in [Locks -> Statuses] /\ issued \in Nat
        /\ told \in [Locks -> SUBSET (1..issued)] /\ call \in [Proc -> Calls]
        /\ frame \in [Proc -> Frames]
    BY DEF ServiceInv, TypeOK, QueueTypeOK
  <1>2. /\ Close(p) /\ UNCHANGED <<redis, mutex, now, issued, faults>>
        /\ status' = status /\ UNCHANGED historyVars
    BY DEF ReleaseReturns, PositionReturns, AcquireReturns, Respond
  <1>3. Kept(p) /\ frame'[p].at = "idle"
    BY <1>1, <1>2, CloseKeeps DEF ServiceInv, Close, IdleFrame
  <1>4. CallKept(p) /\ call'[p].at \notin {"schedule", "position"}
    <2>1. CASE ReleaseReturns(p)
      BY <2>1, NextLockKept DEF ReleaseReturns
    <2>2. CASE PositionReturns(p)
      BY <2>2, NextLockKept, AnswerKept DEF PositionReturns
    <2>3. CASE AcquireReturns(p)
      <3>1. call[p].at = "acquire" => call[p].op = "try"
        BY DEF ServiceInv, CallOK
      <3> QED BY <2>3, <3>1, AdvanceKept, AnswerKept DEF AcquireReturns
    <2>4. CASE Respond(p)
      <3>1. call' = [call EXCEPT ![p] = IdleCall] /\ call'[p] = IdleCall
        BY <1>1, <2>4 DEF Respond
      <3>2. call'[p].at = "idle"
        BY <3>1 DEF IdleCall
      <3> QED BY <3>1, <3>2, IdleCallOK DEF CallKept
    <2> QED BY <2>1, <2>2, <2>3, <2>4
  <1>5. told' \in [Locks -> SUBSET (1..issued')]
    <2>1. CASE PositionReturns(p) /\ frame[p].res = "ok"
      <3>1. frame[p].ticket # NoTicket /\ At(p, "done")
        BY <2>1 DEF PositionReturns, ServiceInv, WaitOK
      <3>2. frame[p].lock \in Locks /\ frame[p].ticket \in 1..issued
        BY <1>1, <3>1, FrameFacts DEF ServiceInv, FrameOK, At, NoTicket
      <3> QED BY <1>1, <1>2, <2>1, <3>2 DEF PositionReturns
    <2>2. CASE ~(PositionReturns(p) /\ frame[p].res = "ok")
      <3>1. told' = told
        BY <2>2 DEF ReleaseReturns, PositionReturns, AcquireReturns, Respond
      <3> QED BY <1>1, <1>2, <3>1
    <2> QED BY <2>1, <2>2
  <1> QED BY <1>1, <1>2, <1>3, <1>4, <1>5, CallStepService DEF WaitOK

(* A command of a handler fails.                                           *)
LEMMA FailService ==
  ASSUME ServiceInv, NEW p \in Proc, HandlerCommandFails(p)
  PROVE  ServiceInv'
  <1>1. /\ status \in [Locks -> Statuses] /\ held \subseteq Locks /\ faults \in Nat
        /\ call[p].at \notin {"idle", "done"} => Current(p) \in Locks
    BY CallFacts DEF ServiceInv, TypeOK, QueueTypeOK
  <1>2. CallKept(p) /\ call'[p].at = "done"
    BY AnswerKept DEF HandlerCommandFails
  <1>3. Written(p) \in Statuses
    BY DEF Written, Statuses
  <1>4. status' \in [Locks -> Statuses]
    BY <1>1, <1>3 DEF HandlerCommandFails, Write, Writes
  <1>5. /\ UNCHANGED <<redis, mutex, frame, now, issued>> /\ UNCHANGED <<told, held, line>>
        /\ faults' \in Nat
    BY <1>1 DEF HandlerCommandFails, Fails, historyVars
  <1>6. Ready(p)
    BY WaitFacts DEF HandlerCommandFails, Writes, QueueOps
  <1> QED BY <1>1, <1>2, <1>4, <1>5, <1>6, OwnStepService

(* "line" follows lists of issued queue ids.                               *)
LEMMA ObserveTyped ==
  ASSUME ServiceInv, QueueInv', issued <= issued', Observe
  PROVE  line' \in [Locks -> Seq(1..issued')]
  <1>1. line \in [Locks -> Seq(1..issued')]
    BY HistoriesTyped
  <1>2. \A l \in Locks : <<Instance, l>> \in Keys /\ queue'[<<Instance, l>>] \in Seq(1..issued')
    BY DEF Keys, QueueInv, QueueTypeOK
  <1> QED BY <1>1, <1>2 DEF Observe

(* A command of the queue manager.                                         *)
LEMMA PackageService ==
  ASSUME ServiceInv, NEW p \in Proc, PackageStep(p)
  PROVE  ServiceInv'
  <1>1. QueueInv /\ QueueStep(p) /\ Observe /\ UNCHANGED <<status, call, told, held>>
    BY DEF ServiceInv, PackageStep, InPackage
  <1>2. QueueInv' /\ issued <= issued'
    BY <1>1, QueueStepInv DEF Kept
  <1>3. line' \in [Locks -> Seq(1..issued')]
    BY <1>1, <1>2, ObserveTyped
  <1>4. /\ told' \in [Locks -> SUBSET (1..issued')] /\ held' \subseteq Locks
        /\ status' \in [Locks -> Statuses]
    BY <1>1, <1>2, HistoriesTyped
  <1>5. /\ call \in [Proc -> Calls] /\ CallOK(call[p]) /\ WaitOK(call[p], frame[p])
    BY DEF ServiceInv, TypeOK
  <1>6. /\ frame' = [frame EXCEPT ![p] = frame'[p]]
        /\ frame'[p].op = frame[p].op /\ frame'[p].lock = frame[p].lock
        /\ frame'[p].ticket = frame[p].ticket \/ At(p, "add.set")
        /\ frame[p].at \notin {"idle", "done"}
    BY <1>1, StepFrame, NotReady DEF At
  <1>7. At(p, "add.set") => frame[p].op = "schedule"
    BY <1>1, FrameFacts DEF At, StepOK, AddLabels
  <1>8. CallKept(p) /\ WaitOK(call'[p], frame'[p])
    BY <1>1, <1>5, <1>6, <1>7 DEF CallKept, WaitOK
  <1> QED BY <1>2, <1>3, <1>4, <1>6, <1>8, ServiceKept

(* The process dies.                                                       *)
LEMMA CrashService ==
  ASSUME ServiceInv, ServerCrash
  PROVE  ServiceInv'
  <1>1. QueueInv' /\ issued' = issued /\ issued \in Nat
    BY CrashInv DEF ServiceInv, ServerCrash, QueueCrash, QueueTypeOK, QueueInv
  <1>2. line' \in [Locks -> Seq(1..issued')]
    BY <1>1, ObserveTyped DEF ServerCrash
  <1>3. \A p \in Proc : call'[p] = IdleCall /\ frame'[p].at = "idle"
    BY DEF ServerCrash, QueueCrash, IdleFrame
  <1>4. \A p \in Proc : CallOK(call'[p]) /\ WaitOK(call'[p], frame'[p])
    BY <1>3, IdleCallOK DEF WaitOK, IdleCall
  <1>5. call' \in [Proc -> Calls]
    BY <1>4 DEF ServerCrash, CallOK
  <1> QED BY <1>1, <1>2, <1>4, <1>5 DEF ServiceInv, TypeOK, QueueInv, ServerCrash

(* The clock, and a stuttering step.                                       *)
LEMMA IdleService ==
  ASSUME ServiceInv, ClockTick \/ UNCHANGED vars
  PROVE  ServiceInv'
  <1>1. QueueInv' /\ UNCHANGED <<frame, issued>>
    BY TickInv, QueueStutterInv DEF ServiceInv, ClockTick, Tick, vars, queueVars
  <1>2. UNCHANGED <<status, call, told, held, line>>
    BY DEF ClockTick, vars, historyVars
  <1> QED BY <1>1, <1>2 DEF ServiceInv, TypeOK, QueueInv

(* The whole step relation, one step per kind of action.                   *)
LEMMA NextService == ServiceInv /\ [Next]_vars => ServiceInv'
  <1> SUFFICES ASSUME ServiceInv, [Next]_vars PROVE ServiceInv'
    OBVIOUS
  <1>1. ASSUME NEW p \in Proc, Arrive(p) PROVE ServiceInv'
    BY <1>1, ReceiveService, TryService DEF Arrive, CreateRequest, LockRequest, UnlockRequest
  <1>2. ASSUME NEW p \in Proc, HandlerStep(p) PROVE ServiceInv'
    BY <1>2, CommandService, CallService, ReturnService DEF HandlerStep
  <1>3. ASSUME NEW p \in Proc, HandlerCommandFails(p) \/ PackageStep(p) PROVE ServiceInv'
    BY <1>3, FailService, PackageService
  <1>4. CASE ServerCrash \/ ClockTick \/ UNCHANGED vars
    BY <1>4, CrashService, IdleService
  <1> QED BY <1>1, <1>2, <1>3, <1>4 DEF Next, Act

-----------------------------------------------------------------------------
(* HoldInv: a settled grant stands.                                        *)

(* A request that may free no settled lock, and is about to be granted     *)
(* none it found held.                                                     *)
Harmless(c) == HoldOK(c) /\ \A l \in held : ~MayFree(c, l)

(* No lock is held before the first request.                               *)
LEMMA HoldInit == Init => HoldInv
  BY DEF Init, HoldInv, HoldOK, IdleCall

(* A step of one request that leaves the settled grants and their status   *)
(* alone.                                                                  *)
LEMMA HoldKept ==
  ASSUME ServiceInv, HoldInv, NEW p \in Proc, call' = [call EXCEPT ![p] = call'[p]],
         held' = held, \A l \in held : status'[l] = "LOCKED", Harmless(call'[p])
  PROVE  HoldInv'
  <1>1. call \in [Proc -> Calls]
    BY DEF ServiceInv, TypeOK
  <1>2. ASSUME NEW q \in Proc
        PROVE  Harmless(call'[q])
    <2>1. CASE q = p
      BY <2>1
    <2>2. CASE q # p
      <3>1. call'[q] = call[q]
        BY <1>1, <2>2
      <3> QED BY <3>1 DEF Harmless, HoldInv
    <2> QED BY <2>1, <2>2
  <1> QED BY <1>2 DEF HoldInv, HoldOK, Harmless, MayFree

(* A request arrives: an Unlock makes the grants of its locks uncertain    *)
(* for everyone, so that nobody counts on what it may free.                *)
LEMMA ReceiveHold ==
  ASSUME ServiceInv, HoldInv, NEW p \in Proc, NEW op \in {"create", "lock", "unlock"},
         NEW locks \in Requests, Receive(p, op, locks)
  PROVE  HoldInv'
  <1> DEFINE disturbed == IF op = "unlock" THEN Range(locks) ELSE {}
             new == [IdleCall EXCEPT !.op = op, !.at = "exists", !.todo = locks,
                                     !.late = held \ disturbed]
             Old(q) == [call[q] EXCEPT !.late = @ \ disturbed]
  <1>1. held' = held \ disturbed /\ status' = status
    BY DEF Receive
  <1>2. call' = [q \in Proc |-> IF q = p THEN new ELSE Old(q)]
    BY DEF Receive
  <1>3. /\ new.op = op /\ new.at = "exists" /\ new.todo = locks /\ new.late = held \ disturbed
        /\ new.won = {}
    BY DEF IdleCall
  <1>4. op = "unlock" => disturbed = Range(locks)
    OBVIOUS
  <1>5. ASSUME NEW q \in Proc
        PROVE  /\ Old(q).op = call[q].op /\ Old(q).at = call[q].at /\ Old(q).todo = call[q].todo
               /\ Old(q).won = call[q].won /\ Old(q).late = call[q].late \ disturbed
    <2>1. call[q] \in Calls
      BY DEF ServiceInv, TypeOK
    <2> QED BY <2>1 DEF Calls
  <1> HIDE DEF new, Old, disturbed
  <1>6. ASSUME NEW q \in Proc
        PROVE  /\ call'[q].late \subseteq held' /\ call'[q].won \cap call'[q].late = {}
               /\ call'[q].at # "acquire"
               /\ call'[q].at = "lock" => Head(call'[q].todo) \notin call'[q].late
               /\ \A l \in held' : ~MayFree(call'[q], l)
    <2>1. CASE q = p
      <3>1. call'[q] = new
        BY <1>2, <2>1
      <3> QED BY <1>1, <1>3, <1>4, <3>1 DEF MayFree
    <2>2. CASE q # p
      <3>1. call'[q] = Old(q)
        BY <1>2, <2>2
      <3>2. HoldOK(call[q]) /\ \A l \in held : ~MayFree(call[q], l)
        BY DEF HoldInv
      <3> QED BY <1>1, <1>5, <3>1, <3>2 DEF HoldOK, MayFree
    <2> QED BY <2>1, <2>2
  <1>7. \A l \in held' : status'[l] = "LOCKED"
    BY <1>1 DEF HoldInv
  <1> QED BY <1>6, <1>7 DEF HoldInv, HoldOK

(* What HoldInv says of one request.                                       *)
LEMMA HoldFacts ==
  ASSUME ServiceInv, HoldInv, NEW p \in Proc
  PROVE  /\ Harmless(call[p]) /\ held \subseteq Locks /\ status \in [Locks -> Statuses]
         /\ \A l \in held : status[l] = "LOCKED"
         /\ call[p].late \subseteq held /\ call[p].won \cap call[p].late = {}
         /\ call[p].at # "acquire"
         /\ call[p].at \in {"pending", "free", "unlock"} => Current(p) \notin held
  <1>1. Harmless(call[p]) /\ \A l \in held : status[l] = "LOCKED"
    BY DEF HoldInv, Harmless
  <1>2. held \subseteq Locks /\ status \in [Locks -> Statuses]
    BY DEF ServiceInv, TypeOK
  <1>3. /\ call[p].at = "unlock" => call[p].op = "unlock" /\ Current(p) \in Range(call[p].todo)
    BY CallFacts DEF CallOK
  <1>4. call[p].at \in {"pending", "free", "unlock"} => MayFree(call[p], Current(p))
    BY <1>3 DEF MayFree, Current
  <1> QED BY <1>1, <1>2, <1>4 DEF Harmless, HoldOK

(* A request that is answered, or goes on without a grant, does no harm it *)
(* could not do before.                                                    *)
LEMMA StaysHarmless ==
  ASSUME ServiceInv, HoldInv, NEW p \in Proc,
         \/ \E r \in {"ok", "error"} : Answer(p, r)
         \/ /\ call[p].at \notin {"idle", "done"}
            /\ \E label \in {"status", "unlock", "schedule", "position", "release"} :
                 Advance(p, label) /\ (label = "unlock" => call[p].op = "unlock")
         \/ call[p].at \notin {"idle", "done"} /\ NextLock(p, {})
  PROVE  call' = [call EXCEPT ![p] = call'[p]] /\ Harmless(call'[p])
  <1>1. /\ HoldOK(call[p]) /\ \A l \in held : ~MayFree(call[p], l)
    BY DEF HoldInv
  <1>2. CASE \E r \in {"ok", "error"} : Answer(p, r)
    <2>1. /\ CallKept(p) /\ call'[p].at = "done"
          /\ call'[p].won = call[p].won /\ call'[p].late = call[p].late
      BY <1>2, AnswerKept
    <2> QED BY <1>1, <2>1 DEF CallKept, Harmless, HoldOK, MayFree
  <1>3. ASSUME call[p].at \notin {"idle", "done"},
               NEW label \in {"status", "unlock", "schedule", "position", "release"},
               Advance(p, label), label = "unlock" => call[p].op = "unlock"
        PROVE  call' = [call EXCEPT ![p] = call'[p]] /\ Harmless(call'[p])
    <2>1. /\ CallKept(p) /\ call'[p].at = label
          /\ call'[p].op = call[p].op /\ call'[p].todo = call[p].todo
          /\ call'[p].won = call[p].won /\ call'[p].late = call[p].late
      BY <1>3, AdvanceKept
    <2> QED BY <1>1, <1>3, <2>1 DEF CallKept, Harmless, HoldOK, MayFree
  <1>4. CASE call[p].at \notin {"idle", "done"} /\ NextLock(p, {})
    <2>1. /\ CallKept(p) /\ call'[p].at \in {"exists", "done"}
          /\ call'[p].op = call[p].op /\ call'[p].todo = Tail(call[p].todo)
          /\ call'[p].won = call[p].won \cup {} /\ call'[p].late = call[p].late
      <3>1. {} \in SUBSET Locks
        OBVIOUS
      <3> QED BY <1>4, <3>1, NextLockKept
    <2>2. Range(call'[p].todo) \subseteq Range(call[p].todo)
      <3>1. Range(Tail(call[p].todo)) \subseteq Range(call[p].todo)
        BY <1>4, CallFacts
      <3> QED BY <2>1, <3>1
    <2>3. HoldOK(call'[p])
      BY <1>1, <2>1 DEF HoldOK
    <2>4. ASSUME NEW l \in held
          PROVE  ~MayFree(call'[p], l)
      BY <1>1, <1>4, <2>1, <2>2 DEF MayFree
    <2> QED BY <2>1, <2>3, <2>4 DEF CallKept, Harmless
  <1> QED BY <1>2, <1>3, <1>4

(* Reads of the handlers: nobody is let on to a lock held before it came.  *)
LEMMA ReadHold ==
  ASSUME ServiceInv, HoldInv, NEW p \in Proc,
         CheckExists(p) \/ LockReadsStatus(p) \/ UnlockReadsStatus(p)
  PROVE  HoldInv'
  <1>1. /\ held' = held /\ status' = status
        /\ \A l \in held : status[l] = "LOCKED" /\ HoldOK(call[p]) /\ ~MayFree(call[p], l)
    BY DEF CheckExists, LockReadsStatus, UnlockReadsStatus, historyVars, HoldInv
  <1>2. call[p].at \notin {"idle", "done"} /\ HoldOK(call[p])
    BY DEF CheckExists, LockReadsStatus, UnlockReadsStatus, Doing, HoldInv
  <1>3. call' = [call EXCEPT ![p] = call'[p]] /\ Harmless(call'[p])
    <2>1. CASE CheckExists(p)
      <3>1. CASE call[p].op = "create" /\ ~Found(p) /\ Instance # ManagementDB
        <4>1. /\ CallKept(p) /\ call'[p].at = "pending"
              /\ call'[p].op = call[p].op /\ call'[p].todo = call[p].todo
              /\ call'[p].won = call[p].won /\ call'[p].late = call[p].late
          BY <1>2, <2>1, <3>1, AdvanceKept DEF CheckExists
        <4>2. Head(call'[p].todo) \notin held
          BY <1>1, <3>1, <4>1 DEF Found, Current
        <4> QED BY <1>2, <3>1, <4>1, <4>2 DEF CallKept, Harmless, HoldOK, MayFree
      <3>2. CASE ~(call[p].op = "create" /\ ~Found(p) /\ Instance # ManagementDB)
        <4>1. Answer(p, "error") \/ Advance(p, "status")
          BY <2>1, <3>2 DEF CheckExists
        <4> QED BY <1>2, <4>1, StaysHarmless
      <3> QED BY <3>1, <3>2
    <2>2. CASE LockReadsStatus(p)
      <3>1. CASE MayTake(Current(p)) /\ Advance(p, "lock")
        <4>1. /\ CallKept(p) /\ call'[p].at = "lock"
              /\ call'[p].op = call[p].op /\ call'[p].todo = call[p].todo
              /\ call'[p].won = call[p].won /\ call'[p].late = call[p].late
          BY <1>2, <2>2, <3>1, AdvanceKept DEF LockReadsStatus, Doing
        <4>2. Head(call'[p].todo) \notin held /\ call[p].op = "lock"
          BY <1>1, <2>2, <3>1, <4>1 DEF LockReadsStatus, Doing, MayTake, Current
        <4> QED BY <1>2, <4>1, <4>2 DEF CallKept, Harmless, HoldOK, MayFree
      <3>2. CASE ~(MayTake(Current(p)) /\ Advance(p, "lock"))
        <4>1. Answer(p, "error") \/ Advance(p, "schedule")
          BY <2>2, <3>2 DEF LockReadsStatus
        <4> QED BY <1>2, <4>1, StaysHarmless
      <3> QED BY <3>1, <3>2
    <2>3. CASE UnlockReadsStatus(p)
      <3>1. Answer(p, "ok") \/ (Advance(p, "unlock") /\ call[p].op = "unlock")
        BY <2>3 DEF UnlockReadsStatus, Doing
      <3> QED BY <1>2, <3>1, StaysHarmless
    <2> QED BY <2>1, <2>2, <2>3
  <1>4. \A l \in held : status'[l] = "LOCKED"
    BY <1>1
  <1> QED BY <1>1, <1>3, <1>4, HoldKept

(* Writes of the handlers: what is not LOCKED is written only to locks     *)
(* whose grants are not settled.                                           *)
LEMMA WriteHold ==
  ASSUME ServiceInv, HoldInv, NEW p \in Proc,
         CreateWritesPending(p) \/ CreateWritesUnlocked(p) \/ WriteUnlocked(p)
           \/ HandlerCommandFails(p)
  PROVE  HoldInv'
  <1>1. /\ held' = held /\ held \subseteq Locks /\ status \in [Locks -> Statuses]
        /\ \A l \in held : status[l] = "LOCKED"
        /\ HoldOK(call[p])
        /\ call[p].at \in {"pending", "free", "unlock"} => Current(p) \notin held
    BY HoldFacts DEF CreateWritesPending, CreateWritesUnlocked, WriteUnlocked, HandlerCommandFails,
                     historyVars, HoldInv
  <1>2. \A l \in held : status'[l] = "LOCKED"
    BY <1>1 DEF CreateWritesPending, CreateWritesUnlocked, WriteUnlocked, HandlerCommandFails,
                Write, Writes, Written
  <1>3. call' = [call EXCEPT ![p] = call'[p]] /\ Harmless(call'[p])
    <2>1. CASE CreateWritesPending(p)
      <3>1. call[p].at = "pending" /\ call[p].op = "create"
        BY <2>1, CallFacts DEF CreateWritesPending, CallOK
      <3>2. /\ CallKept(p) /\ call'[p].at = "free"
            /\ call'[p].op = call[p].op /\ call'[p].todo = call[p].todo
            /\ call'[p].won = call[p].won /\ call'[p].late = call[p].late
        BY <2>1, <3>1, AdvanceKept DEF CreateWritesPending
      <3>3. Head(call'[p].todo) \notin held
        BY <1>1, <3>1, <3>2 DEF Current
      <3> QED BY <1>1, <3>1, <3>2, <3>3 DEF CallKept, Harmless, HoldOK, MayFree
    <2>2. CASE CreateWritesUnlocked(p)
      BY <2>2, StaysHarmless DEF CreateWritesUnlocked
    <2>3. CASE WriteUnlocked(p)
      BY <2>3, StaysHarmless DEF WriteUnlocked
    <2>4. CASE HandlerCommandFails(p)
      BY <2>4, StaysHarmless DEF HandlerCommandFails
    <2> QED BY <2>1, <2>2, <2>3, <2>4
  <1> QED BY <1>1, <1>2, <1>3, HoldKept

(* A grant: it is of a lock this request did not find held, and it is      *)
(* settled only when nobody may free the lock.                             *)
LEMMA GrantHold ==
  ASSUME ServiceInv, HoldInv, NEW p \in Proc, WriteLocked(p)
  PROVE  HoldInv'
  <1> DEFINE l == Current(p)
  <1>1. /\ call[p].at = "lock" /\ call[p].op \in {"lock", "try"}
        /\ HoldOK(call[p]) /\ l \in Locks /\ l \notin call[p].late
    BY CallFacts DEF WriteLocked, CallOK, HoldInv, HoldOK, Current
  <1>2. /\ CallKept(p) /\ call'[p].at \in {"exists", "done"}
        /\ call'[p].op = call[p].op /\ call'[p].todo = Tail(call[p].todo)
        /\ call'[p].won = call[p].won \cup {l} /\ call'[p].late = call[p].late
    <2>1. {l} \in SUBSET Locks
      BY <1>1
    <2> QED BY <1>1, <2>1, NextLockKept DEF WriteLocked
  <1>3. /\ held \subseteq held' /\ held' \subseteq held \cup {l}
        /\ l \in held' => l \in held \/ Freers(l) = {}
        /\ status \in [Locks -> Statuses] /\ status' = [status EXCEPT ![l] = "LOCKED"]
        /\ held \subseteq Locks /\ \A k \in held : status[k] = "LOCKED"
    BY HoldFacts DEF WriteLocked, Write
  <1> HIDE DEF l
  <1>4. \A k \in held' : status'[k] = "LOCKED"
    BY <1>1, <1>3
  <1>5. ASSUME NEW q \in Proc, NEW k \in held'
        PROVE  ~MayFree(call[q], k)
    <2>1. CASE k \in held
      BY <2>1 DEF HoldInv
    <2>2. CASE k = l /\ Freers(l) = {}
      BY <2>2 DEF Freers
    <2> QED BY <1>3, <2>1, <2>2
  <1>6. ASSUME NEW q \in Proc
        PROVE  /\ call'[q].late \subseteq held' /\ call'[q].won \cap call'[q].late = {}
               /\ call'[q].at # "acquire"
               /\ call'[q].at = "lock" => Head(call'[q].todo) \notin call'[q].late
               /\ \A k \in held' : ~MayFree(call'[q], k)
    <2>1. CASE q = p
      BY <1>1, <1>2, <1>3, <2>1 DEF HoldOK, MayFree
    <2>2. CASE q # p
      <3>1. call'[q] = call[q]
        BY <1>2, <2>2, CallFacts DEF CallKept
      <3>2. HoldOK(call[q])
        BY DEF HoldInv
      <3> QED BY <1>3, <1>5, <3>1, <3>2 DEF HoldOK
    <2> QED BY <2>1, <2>2
  <1> QED BY <1>4, <1>6 DEF HoldInv, HoldOK

(* The queue manager and the clients are answered; AcquireLock is in no    *)
(* request's way.                                                          *)
LEMMA ReturnHold ==
  ASSUME ServiceInv, HoldInv, NEW p \in Proc,
         ReleaseReturns(p) \/ ScheduleReturns(p) \/ PositionReturns(p) \/ AcquireReturns(p)
           \/ Respond(p)
  PROVE  HoldInv'
  <1>1. /\ held' = held /\ status' = status /\ \A l \in held : status[l] = "LOCKED"
        /\ call[p].at # "acquire" /\ call \in [Proc -> Calls]
    BY HoldFacts, CallFacts
       DEF ReleaseReturns, ScheduleReturns, PositionReturns, AcquireReturns, Respond, historyVars
  <1>2. call' = [call EXCEPT ![p] = call'[p]] /\ Harmless(call'[p])
    <2>1. CASE ReleaseReturns(p)
      BY <2>1, StaysHarmless DEF ReleaseReturns
    <2>2. CASE ScheduleReturns(p)
      BY <2>2, StaysHarmless DEF ScheduleReturns
    <2>3. CASE PositionReturns(p)
      BY <2>3, StaysHarmless DEF PositionReturns
    <2>4. ~AcquireReturns(p)
      BY <1>1 DEF AcquireReturns
    <2>5. CASE Respond(p)
      <3>1. call' = [call EXCEPT ![p] = IdleCall] /\ call'[p] = IdleCall
        BY <1>1, <2>5 DEF Respond
      <3>2. Harmless(IdleCall)
        BY DEF Harmless, HoldOK, MayFree, IdleCall
      <3> QED BY <3>1, <3>2
    <2> QED BY <2>1, <2>2, <2>3, <2>4, <2>5
  <1>3. \A l \in held : status'[l] = "LOCKED"
    BY <1>1
  <1> QED BY <1>1, <1>2, <1>3, HoldKept

(* The whole step relation: without TryAcquireLock no request is granted a *)
(* lock other than by reading it free.                                     *)
LEMMA NextHold ==
  ASSUME "try" \notin Surface, ServiceInv, HoldInv, [Next]_vars
  PROVE  HoldInv'
  <1>1. ASSUME NEW p \in Proc, Arrive(p) PROVE HoldInv'
    <2>1. \A l \in Locks : \A t \in told[l] : ~TryAcquireLock(p, l, t)
      BY DEF TryAcquireLock
    <2> QED BY <1>1, <2>1, ReceiveHold DEF Arrive, CreateRequest, LockRequest, UnlockRequest
  <1>2. ASSUME NEW p \in Proc, HandlerStep(p) \/ HandlerCommandFails(p) PROVE HoldInv'
    BY <1>2, ReadHold, WriteHold, GrantHold, ReturnHold DEF HandlerStep
  <1>3. CASE (\E p \in Proc : PackageStep(p)) \/ ClockTick \/ UNCHANGED vars
    <2>1. UNCHANGED <<status, call, held>>
      BY <1>3 DEF PackageStep, InPackage, ClockTick, vars, historyVars
    <2> QED BY <2>1 DEF HoldInv, HoldOK, MayFree
  <1>4. CASE ServerCrash
    <2>1. \A p \in Proc : call'[p] = IdleCall
      BY <1>4 DEF ServerCrash
    <2>2. status' = status /\ held' = held
      BY <1>4 DEF ServerCrash
    <2> QED BY <2>1, <2>2 DEF HoldInv, HoldOK, MayFree, IdleCall
  <1> QED BY <1>1, <1>2, <1>3, <1>4 DEF Next, Act

-----------------------------------------------------------------------------
(* LineInv: settled waiters are at the front of the queue.                 *)

(* The lists LineInv compares are lists of queue ids.                      *)
LEMMA LineFacts ==
  ASSUME ServiceInv
  PROVE  /\ issued \in Nat /\ frame \in [Proc -> Frames] /\ queue \in [Keys -> Seq(Nat)]
         /\ \A l \in Locks : /\ <<Instance, l>> \in Keys
                             /\ line[l] \in Seq(Nat) /\ queue[<<Instance, l>>] \in Seq(Nat)
  <1>1. /\ issued \in Nat /\ frame \in [Proc -> Frames] /\ queue \in [Keys -> Seq(1..issued)]
        /\ line \in [Locks -> Seq(1..issued)]
    BY DEF ServiceInv, QueueInv, QueueTypeOK, TypeOK
  <1>2. \A l \in Locks : <<Instance, l>> \in Keys
    BY DEF Keys
  <1>3. \A s \in Seq(1..issued) : s \in Seq(Nat)
    BY <1>1, SeqNat
  <1> QED BY <1>1, <1>2, <1>3

(* The queues, and "line", are empty before the first request.             *)
LEMMA LineInit == Init => LineInv
  <1> SUFFICES ASSUME Init PROVE LineInv
    OBVIOUS
  <1>1. ASSUME NEW l \in Locks
        PROVE  IsPrefix(line[l], queue[<<Instance, l>>])
    <2>1. line[l] = <<>> /\ queue[<<Instance, l>>] = <<>>
      BY DEF Init, QueueInit, Keys
    <2>2. line[l] \in Seq(Nat) /\ IsPrefix(line[l], line[l])
      BY <2>1, EmptySeq, PrefixOfItself
    <2> QED BY <2>1, <2>2
  <1>2. \A p \in Proc : frame[p].at = "idle" /\ frame[p].op = "none"
    BY DEF Init, QueueInit, IdleFrame
  <1> QED BY <1>1, <1>2 DEF LineInv, LineOK

(* The handlers do not touch the queue; a call they open has read nothing  *)
(* yet, and is no AcquireLock.                                             *)
LEMMA HandlerLine ==
  ASSUME "try" \notin Surface, ServiceInv, LineInv, NEW p \in Proc,
         Arrive(p) \/ HandlerStep(p) \/ HandlerCommandFails(p)
  PROVE  LineInv' /\ UNCHANGED <<queue, line>>
  <1> USE DEF queueVars, redis, historyVars
  <1>f. frame \in [Proc -> Frames]
    BY LineFacts
  <1>n. \A l \in Locks : \A t \in told[l] : ~TryAcquireLock(p, l, t)
    BY DEF TryAcquireLock
  <1>1. UNCHANGED <<queue, line>>
    <2>1. CASE Arrive(p)
      BY <1>n, <2>1 DEF Arrive, CreateRequest, LockRequest, UnlockRequest, Receive
    <2>2. CASE HandlerStep(p)
      BY <2>2 DEF HandlerStep, CheckExists, LockReadsStatus, UnlockReadsStatus, CreateWritesPending,
           CreateWritesUnlocked, WriteLocked, WriteUnlocked, ReleaseReturns, ScheduleReturns,
           PositionReturns, AcquireReturns, Respond, StartSchedule, StartPosition, StartRelease, Start
    <2>3. CASE HandlerCommandFails(p)
      BY <2>3 DEF HandlerCommandFails
    <2> QED BY <2>1, <2>2, <2>3
  <1>s. ASSUME NEW op, NEW l, NEW t, NEW label, Start(p, op, l, t, label)
        PROVE  frame' = [frame EXCEPT ![p] = frame'[p]]
                 /\ frame'[p].op = op /\ frame'[p].at = label
    BY <1>f, <1>s DEF Start, IdleFrame
  <1>2. \/ UNCHANGED frame
        \/ /\ frame' = [frame EXCEPT ![p] = frame'[p]]
           /\ frame'[p].op # "acquire" /\ frame'[p].at # "add.set"
    <2>1. CASE Close(p)
      BY <1>f, <2>1 DEF Close, IdleFrame
    <2>2. CASE \E l, t : StartSchedule(p, l) \/ StartPosition(p, l, t)
      BY <1>s, <2>2 DEF StartSchedule, StartPosition
    <2>3. CASE \E l : StartRelease(p, l)
      <3>1. CASE HandoffConfigured
        BY <1>s, <2>3, <3>1 DEF StartRelease
      <3>2. CASE ~HandoffConfigured
        BY <1>f, <2>3, <3>2 DEF StartRelease, IdleFrame
      <3> QED BY <3>1, <3>2
    <2>4. \/ UNCHANGED frame \/ Close(p)
          \/ (\E l, t : StartSchedule(p, l) \/ StartPosition(p, l, t)) \/ (\E l : StartRelease(p, l))
      <3>1. CASE Arrive(p)
        BY <1>n, <3>1 DEF Arrive, CreateRequest, LockRequest, UnlockRequest, Receive
      <3>2. CASE HandlerStep(p)
        BY <3>2 DEF HandlerStep, CheckExists, LockReadsStatus, UnlockReadsStatus,
             CreateWritesPending, CreateWritesUnlocked, WriteLocked, WriteUnlocked, ReleaseReturns,
             ScheduleReturns, PositionReturns, AcquireReturns, Respond
      <3>3. CASE HandlerCommandFails(p)
        BY <3>3 DEF HandlerCommandFails
      <3> QED BY <3>1, <3>2, <3>3
    <2> QED BY <2>1, <2>2, <2>3, <2>4
  <1>3. ASSUME NEW q \in Proc
        PROVE  /\ frame'[q].op # "acquire"
               /\ frame'[q].at = "add.set" => IsPrefix(line'[frame'[q].lock], frame'[q].items)
    <2>1. LineOK(frame[q])
      BY DEF LineInv
    <2>2. CASE frame'[q] = frame[q]
      BY <1>1, <2>1, <2>2 DEF LineOK
    <2>3. CASE frame'[q] # frame[q]
      BY <1>2, <1>f, <2>3
    <2> QED BY <2>2, <2>3
  <1> QED BY <1>1, <1>3 DEF LineInv, LineOK

(* The queue after a command of the queue manager still starts with the    *)
(* settled waiters: it is as before, or what addToQueue read with one more *)
(* client.                                                                 *)
LEMMA PackageKeepsPlace ==
  ASSUME ServiceInv, LineInv, NEW p \in Proc, PackageStep(p), NEW l \in Locks
  PROVE  IsPrefix(line[l], queue'[<<Instance, l>>])
  <1>1. QueueInv /\ QueueStep(p) /\ LineOK(frame[p]) /\ frame[p].op # "acquire"
    BY DEF ServiceInv, PackageStep, LineInv, LineOK
  <1>2. IsPrefix(line[l], queue[<<Instance, l>>])
    BY DEF LineInv
  <1>3. queue' = queue \/ (At(p, "add.set") /\ WriteAdded(p))
    BY <1>1, StepJoins
  <1>4. CASE At(p, "add.set") /\ WriteAdded(p) /\ l = frame[p].lock
    <2>1. frame[p].items \in Seq(1..issued) /\ issued \in Nat
      BY <1>1, <1>4, FrameFacts DEF At
    <2>2. frame[p].items \in Seq(Nat) /\ issued' \in Nat /\ line[l] \in Seq(Nat)
      <3>1. issued' = issued + 1
        BY <1>4 DEF WriteAdded
      <3>2. frame[p].items \in Seq(Nat)
        BY <2>1, SeqNat
      <3>3. line[l] \in Seq(Nat)
        BY LineFacts
      <3> QED BY <2>1, <3>1, <3>2, <3>3
    <2>3. IsPrefix(line[l], frame[p].items)
      BY <1>1, <1>4 DEF LineOK, At
    <2>4. IsPrefix(line[l], Append(frame[p].items, issued'))
      BY <2>2, <2>3, PrefixOfAppend
    <2>5. queue'[<<Instance, l>>] = Append(frame[p].items, issued')
      BY <1>4, LineFacts DEF WriteAdded, Own, Enqueue
    <2> QED BY <2>4, <2>5
  <1>5. CASE At(p, "add.set") /\ WriteAdded(p) /\ l # frame[p].lock
    <2>1. Own(p) # <<Instance, l>>
      BY <1>5 DEF Own
    <2>2. queue'[<<Instance, l>>] = queue[<<Instance, l>>]
      BY <1>5, <2>1, LineFacts DEF WriteAdded
    <2> QED BY <1>2, <2>2
  <1> QED BY <1>2, <1>3, <1>4, <1>5

(* A command of the queue manager: a goroutine that has a list to write is *)
(* joining, so "line" stood still since it read the list.                  *)
LEMMA PackageLine ==
  ASSUME ServiceInv, LineInv, NEW p \in Proc, PackageStep(p)
  PROVE  LineInv'
  <1>1. /\ QueueInv /\ QueueStep(p) /\ Observe /\ frame[p].op # "acquire"
        /\ QueueInv' /\ ServiceInv'
    BY PackageService DEF ServiceInv, PackageStep, InPackage, LineInv, LineOK
  <1>2. /\ frame \in [Proc -> Frames] /\ frame' = [frame EXCEPT ![p] = frame'[p]]
        /\ frame'[p].op = frame[p].op /\ frame'[p].lock = frame[p].lock
    BY <1>1, StepFrame, LineFacts
  <1>3. ASSUME NEW l \in Locks
        PROVE  IsPrefix(line'[l], queue'[<<Instance, l>>])
    <2>1. CASE Joiners(l)' = {}
      <3>1. line'[l] = queue'[<<Instance, l>>]
        BY <1>1, <2>1 DEF Observe
      <3>2. queue'[<<Instance, l>>] \in Seq(1..issued')
        BY <1>1 DEF QueueInv, QueueTypeOK, Keys
      <3> QED BY <3>1, <3>2, PrefixOfItself
    <2>2. CASE Joiners(l)' # {}
      <3>1. line'[l] = line[l]
        BY <1>1, <2>2 DEF Observe
      <3> QED BY <3>1, PackageKeepsPlace
    <2> QED BY <2>1, <2>2
  <1>4. ASSUME NEW q \in Proc
        PROVE  /\ frame'[q].op # "acquire"
               /\ frame'[q].at = "add.set" => IsPrefix(line'[frame'[q].lock], frame'[q].items)
    <2>1. LineOK(frame[q])
      BY DEF LineInv
    <2>2. frame'[q].op # "acquire"
      BY <1>1, <1>2, <2>1 DEF LineOK
    <2>3. ASSUME frame'[q].at = "add.set"
          PROVE  IsPrefix(line'[frame'[q].lock], frame'[q].items)
      <3>1. /\ FrameOK(frame'[q], issued') /\ frame'[q].op = "schedule"
            /\ frame'[q].lock = frame[q].lock /\ frame'[q].lock \in Locks
        BY <1>1, <1>2, <2>3 DEF QueueInv, FrameOK, StepOK, AddLabels
      <3>l. PICK l \in Locks : frame'[q].lock = l /\ frame[q].lock = l
        BY <3>1
      <3>2. q \in Joiners(l)'
        BY <2>3, <3>l, <3>1 DEF Joiners
      <3>3. line'[l] = line[l]
        BY <1>1, <3>1, <3>2 DEF Observe
      <3>4. IsPrefix(line[l], frame'[q].items)
        <4>1. CASE q # p
          <5>1. frame'[q] = frame[q]
            BY <1>2, <4>1
          <5> QED BY <2>1, <2>3, <3>l, <5>1 DEF LineOK
        <4>2. CASE q = p
          <5>1. queue[Own(p)] \in {<<>>, frame'[p].items} /\ Own(p) = <<Instance, l>>
            BY <1>1, <2>3, <3>l, <4>2, StepJoins DEF Own
          <5>2. IsPrefix(line[l], queue[Own(p)])
            BY <3>1, <5>1 DEF LineInv
          <5>3. line[l] \in Seq(Nat) /\ queue[Own(p)] \in Seq(Nat)
            BY <3>1, <5>1, LineFacts
          <5>4. frame'[p].items \in Seq(Nat)
            BY <3>1, <4>2 DEF FrameOK, Frames
          <5> QED BY <4>2, <5>1, <5>2, <5>3, <5>4, PrefixOfEmpty
        <4> QED BY <4>1, <4>2
      <3> QED BY <3>l, <3>3, <3>4
    <2> QED BY <2>2, <2>3
  <1> QED BY <1>3, <1>4 DEF LineInv, LineOK

(* After a crash nobody joins, and "line" is the queue.                    *)
LEMMA CrashLine ==
  ASSUME ServiceInv, ServerCrash
  PROVE  LineInv' /\ queue' = queue
  <1>1. queue' = queue /\ Observe /\ \A p \in Proc : frame'[p] = IdleFrame
    BY DEF ServerCrash, QueueCrash, redis
  <1>2. \A p \in Proc : frame'[p].op = "none" /\ frame'[p].at = "idle"
    BY <1>1 DEF IdleFrame
  <1>3. ASSUME NEW l \in Locks
        PROVE  IsPrefix(line'[l], queue'[<<Instance, l>>])
    <2>1. Joiners(l)' = {}
      BY <1>2 DEF Joiners
    <2>2. line'[l] = queue[<<Instance, l>>] /\ queue[<<Instance, l>>] \in Seq(Nat)
      BY <1>1, <2>1, LineFacts DEF Observe
    <2> QED BY <1>1, <2>2, PrefixOfItself
  <1> QED BY <1>1, <1>2, <1>3 DEF LineInv, LineOK

(* The whole step relation: every step keeps the invariant and leaves the  *)
(* settled waiters at the front of the queue.                              *)
LEMMA NextLine ==
  ASSUME "try" \notin Surface, ServiceInv, LineInv, [Next]_vars
  PROVE  LineInv' /\ \A l \in Locks : IsPrefix(line[l], queue'[<<Instance, l>>])
  <1>1. \A l \in Locks : IsPrefix(line[l], queue[<<Instance, l>>])
    BY DEF LineInv
  <1>2. ASSUME NEW p \in Proc, Arrive(p) \/ HandlerStep(p) \/ HandlerCommandFails(p)
        PROVE  LineInv' /\ \A l \in Locks : IsPrefix(line[l], queue'[<<Instance, l>>])
    BY <1>1, <1>2, HandlerLine
  <1>3. ASSUME NEW p \in Proc, PackageStep(p)
        PROVE  LineInv' /\ \A l \in Locks : IsPrefix(line[l], queue'[<<Instance, l>>])
    BY <1>3, PackageLine, PackageKeepsPlace
  <1>4. CASE ServerCrash
    BY <1>1, <1>4, CrashLine
  <1>5. CASE ClockTick \/ UNCHANGED vars
    <2>1. UNCHANGED <<queue, frame, line>>
      BY <1>5 DEF ClockTick, Tick, vars, queueVars, redis, historyVars
    <2> QED BY <1>1, <2>1 DEF LineInv, LineOK
  <1> QED BY <1>2, <1>3, <1>4, <1>5 DEF Next, Act

-----------------------------------------------------------------------------
(* The invariant of the service, on every surface, holds throughout.       *)
THEOREM ServiceInvariant == Spec => []ServiceInv
  BY ServiceInit, NextService, PTL DEF Spec

(* Type correctness: a status is one of the four the code knows, requests  *)
(* have a lock before them at every command, and clients are only told     *)
(* queue ids that were issued.                                             *)
THEOREM ServiceTypeCorrect == Spec => []TypeOK
  <1>1. ServiceInv => TypeOK
    BY DEF ServiceInv
  <1> QED BY <1>1, ServiceInvariant, PTL

(* The whole inductive invariant.                                          *)
THEOREM ServiceInductive == Spec => []IInv
  <1>1. Init => IInv
    BY ServiceInit, HoldInit, LineInit DEF IInv
  <1>2. IInv /\ [Next]_vars => IInv'
    BY NextService, NextHold, NextLine DEF IInv
  <1> QED BY <1>1, <1>2, PTL DEF Spec

(* The exclusion Lock gives, for any number of requests, interleavings,    *)
(* failures and crashes, where TryAcquireLock is not offered: between a    *)
(* settled grant of a lock and the next Unlock of it, no later request is  *)
(* granted the lock.                                                       *)
THEOREM SettledHoldsExclude == "try" \notin Surface => (Spec => []NoGrantOverSettledHold)
  <1> SUFFICES ASSUME "try" \notin Surface PROVE Spec => []NoGrantOverSettledHold
    OBVIOUS
  <1>1. IInv => NoGrantOverSettledHold
    BY DEF IInv, HoldInv, HoldOK, NoGrantOverSettledHold
  <1> QED BY <1>1, ServiceInductive, PTL

(* No client waits in vain for having been overtaken, where TryAcquireLock *)
(* is not offered: those in the queue when nobody was joining it stay at   *)
(* its front, in their order, whatever addToQueue calls race, fail or are  *)
(* cut short afterwards.                                                   *)
THEOREM SettledWaitersStay == "try" \notin Surface => (Spec => SettledWaitersKeepTheirPlace)
  <1> SUFFICES ASSUME "try" \notin Surface PROVE Spec => SettledWaitersKeepTheirPlace
    OBVIOUS
  <1>1. IInv /\ [Next]_vars
          => [\A l \in Locks : IsPrefix(line[l], queue'[<<Instance, l>>])]_vars
    BY NextLine DEF IInv
  <1> QED BY <1>1, ServiceInductive, PTL DEF Spec, SettledWaitersKeepTheirPlace

-----------------------------------------------------------------------------
(* Requests come to an end.                                                *)

(* What a step of p leaves of another request.                             *)
Untouched(q) ==
  /\ frame'[q] = frame[q] /\ call'[q].at = call[q].at /\ call'[q].todo = call[q].todo
  /\ call'[q].op = call[q].op /\ call'[q].won = call[q].won

(* A step of a request leaves the others alone.                            *)
LEMMA OthersUntouched ==
  ASSUME NEW p \in Proc, ServiceInv, Act(p)
  PROVE  \A q \in Proc : q # p => Untouched(q)
  <1>1. p \in Proc /\ QueueInv /\ call \in [Proc -> Calls] /\ frame \in [Proc -> Frames]
    BY DEF ServiceInv, TypeOK, QueueTypeOK
  <1>2. ASSUME call' = [call EXCEPT ![p] = call'[p]], frame' = [frame EXCEPT ![p] = frame'[p]]
        PROVE  \A q \in Proc : q # p => Untouched(q)
    BY <1>1, <1>2 DEF Untouched
  <1>3. ASSUME NEW op, NEW locks, Receive(p, op, locks)
        PROVE  \A q \in Proc : q # p => Untouched(q)
    <2> SUFFICES ASSUME NEW q \in Proc, q # p PROVE Untouched(q)
      OBVIOUS
    <2>1. frame'[q] = frame[q] /\ \E S : call'[q] = [call[q] EXCEPT !.late = S]
      BY <1>3 DEF Receive, queueVars
    <2>2. PICK S : call'[q] = [call[q] EXCEPT !.late = S]
      BY <2>1
    <2>3. /\ call'[q].at = call[q].at /\ call'[q].todo = call[q].todo
          /\ call'[q].op = call[q].op /\ call'[q].won = call[q].won
      BY <1>1, <2>2 DEF Calls
    <2> QED BY <2>1, <2>3 DEF Untouched
  <1>4. CASE \E locks \in Requests :
               CreateRequest(p, locks) \/ LockRequest(p, locks) \/ UnlockRequest(p, locks)
    BY <1>3, <1>4 DEF CreateRequest, LockRequest, UnlockRequest
  <1>5. CASE \E l \in Locks : \E t \in told[l] : TryAcquireLock(p, l, t)
    BY <1>1, <1>2, <1>5 DEF TryAcquireLock, StartAcquire, Start
  <1>6. CASE CheckExists(p) \/ UnlockReadsStatus(p) \/ CreateWritesPending(p)
    BY <1>1, <1>2, <1>6 DEF CheckExists, UnlockReadsStatus, CreateWritesPending, Answer, Advance,
                            queueVars
  <1>7. CASE CreateWritesUnlocked(p) \/ WriteLocked(p) \/ HandlerCommandFails(p)
    BY <1>1, <1>2, <1>7 DEF CreateWritesUnlocked, WriteLocked, HandlerCommandFails, NextLock, GoOn,
                            Answer, queueVars
  <1>8. CASE LockReadsStatus(p) \/ WriteUnlocked(p) \/ ScheduleReturns(p)
    BY <1>1, <1>2, <1>8 DEF LockReadsStatus, WriteUnlocked, ScheduleReturns, StartSchedule, StartRelease,
                            StartPosition, Start, Answer, Advance, queueVars
  <1>9. CASE ReleaseReturns(p) \/ PositionReturns(p) \/ AcquireReturns(p) \/ Respond(p)
    BY <1>1, <1>2, <1>9 DEF ReleaseReturns, PositionReturns, AcquireReturns, Respond, Close, NextLock,
                            GoOn, Answer, Advance
  <1>10. CASE PackageStep(p)
    BY <1>1, <1>2, <1>10, StepFrame DEF PackageStep, InPackage
  <1> QED BY <1>4, <1>5, <1>6, <1>7, <1>8, <1>9, <1>10 DEF Act, Arrive, HandlerStep

(* A goroutine with a request that takes a step takes it forward.          *)
LEMMA ActAdvances ==
  ASSUME NEW p \in Proc, ServiceInv, Act(p), Working(p)
  PROVE  LessToDo(p)
  <1>1. /\ call[p] \in Calls /\ call[p].todo \in Seq(Locks) /\ call[p].todo # <<>>
        /\ call[p].at \notin {"idle", "done"}
        /\ call[p].at \in {"pending", "free"} => call[p].op = "create"
        /\ call[p].at \in {"lock", "acquire"} => call[p].op \in {"lock", "try"}
    BY CallFacts DEF Working, CallOK
  <1>2. ASSUME NEW r \in {"ok", "error"}, Answer(p, r)
        PROVE  LessToDo(p)
    <2>1. PhasesLeft("done") < PhasesLeft(call[p].at)
      BY <1>1 DEF PhasesLeft, Calls
    <2> QED BY <1>2, <2>1, AnswerKept DEF LessToDo
  <1>3. ASSUME NEW grants \in SUBSET Locks, NextLock(p, grants)
        PROVE  LessToDo(p)
    <2>1. call'[p].todo = Tail(call[p].todo)
      BY <1>1, <1>3, NextLockKept
    <2> QED BY <1>1, <2>1 DEF LessToDo
  <1>4. ASSUME call'[p].todo = call[p].todo, PhasesLeft(call'[p].at) < PhasesLeft(call[p].at)
        PROVE  LessToDo(p)
    BY <1>4 DEF LessToDo
  <1>5. CASE CheckExists(p)
    <2>1. \/ Answer(p, "error")
          \/ /\ call[p].at = "exists" /\ call'[p].todo = call[p].todo
             /\ call'[p].at \in {"pending", "status"}
      BY <1>1, <1>5, AdvanceKept DEF CheckExists
    <2> QED BY <1>2, <1>4, <2>1 DEF PhasesLeft
  <1>6. CASE LockReadsStatus(p)
    <2>1. \/ Answer(p, "error")
          \/ /\ call[p].at = "status" /\ call'[p].todo = call[p].todo
             /\ call'[p].at \in {"schedule", "lock"}
      BY <1>1, <1>6, AdvanceKept DEF LockReadsStatus, Doing
    <2> QED BY <1>2, <1>4, <2>1 DEF PhasesLeft
  <1>7. CASE UnlockReadsStatus(p)
    <2>1. \/ Answer(p, "ok")
          \/ /\ call[p].at = "status" /\ call'[p].todo = call[p].todo
             /\ call'[p].at = "unlock"
      BY <1>1, <1>7, AdvanceKept DEF UnlockReadsStatus, Doing
    <2> QED BY <1>2, <1>4, <2>1 DEF PhasesLeft
  <1>8. CASE CreateWritesPending(p) \/ WriteUnlocked(p)
    <2>1. /\ call'[p].todo = call[p].todo
          /\ \/ call[p].at = "pending" /\ call'[p].at = "free"
             \/ call[p].at = "unlock" /\ call'[p].at = "release"
      BY <1>1, <1>8, AdvanceKept DEF CreateWritesPending, WriteUnlocked
    <2> QED BY <1>4, <2>1 DEF PhasesLeft
  <1>9. CASE CreateWritesUnlocked(p) \/ ReleaseReturns(p)
    BY <1>3, <1>9 DEF CreateWritesUnlocked, ReleaseReturns
  <1>10. CASE WriteLocked(p)
    <2>1. {Current(p)} \in SUBSET Locks
      BY <1>1, CallFacts
    <2> QED BY <1>3, <1>10, <2>1 DEF WriteLocked
  <1>11. CASE ScheduleReturns(p) \/ AcquireReturns(p)
    <2>1. \/ Answer(p, "error")
          \/ /\ call'[p].todo = call[p].todo
             /\ \/ call[p].at = "schedule" /\ call'[p].at = "position"
                \/ call[p].at = "acquire" /\ call'[p].at = "lock"
      BY <1>1, <1>11, AdvanceKept DEF ScheduleReturns, AcquireReturns
    <2> QED BY <1>2, <1>4, <2>1 DEF PhasesLeft
  <1>12. CASE PositionReturns(p)
    BY <1>2, <1>3, <1>12 DEF PositionReturns
  <1>13. CASE HandlerCommandFails(p)
    BY <1>2, <1>13 DEF HandlerCommandFails
  <1>14. CASE PackageStep(p)
    BY <1>14, StepAdvances DEF PackageStep, InPackage, LessToDo, ServiceInv
  <1>15. CASE Arrive(p) \/ Respond(p)
    BY <1>1, <1>15 DEF Arrive, CreateRequest, LockRequest, UnlockRequest, Receive, TryAcquireLock, Respond
  <1> QED BY <1>5, <1>6, <1>7, <1>8, <1>9, <1>10, <1>11, <1>12, <1>13, <1>14, <1>15
          DEF Act, HandlerStep

(* No request turns in circles, on any surface and for any number of       *)
(* goroutines, locks and faults: each step leaves it fewer locks to do, or *)
(* fewer steps at its lock, or fewer in the call of the package.           *)
THEOREM RequestsAdvance == Spec => RequestsOnlyAdvance
  <1> DEFINE Advances ==
        \A p \in Proc :
          Working(p) =>
            \/ <<call'[p].at, call'[p].todo, frame'[p]>> = <<call[p].at, call[p].todo, frame[p]>>
            \/ LessToDo(p)
  <1>1. ASSUME ServiceInv, [Next]_vars
        PROVE  [Advances]_vars
    <2>1. ASSUME NEW p \in Proc, Act(p) PROVE Advances
      BY <1>1, <2>1, OthersUntouched, ActAdvances DEF Untouched
    <2>2. CASE ServerCrash
      <3>1. ASSUME NEW p \in Proc, Working(p)
            PROVE  Len(call'[p].todo) < Len(call[p].todo)
        <4>1. call'[p].todo = <<>>
          BY <2>2 DEF ServerCrash, IdleCall
        <4>2. call[p].todo \in Seq(Locks) /\ call[p].todo # <<>>
          BY <1>1, <3>1, CallFacts DEF Working
        <4> QED BY <4>1, <4>2
      <3> QED BY <3>1 DEF LessToDo
    <2>3. CASE ClockTick
      BY <2>3 DEF ClockTick, Tick
    <2> QED BY <1>1, <2>1, <2>2, <2>3 DEF Next
  <1> QED BY <1>1, ServiceInvariant, PTL DEF Spec, RequestsOnlyAdvance

(* No request keeps the mutex of a lock, whatever surface it uses: an      *)
(* Unlock or a TryAcquireLock that waits for one waits for a goroutine     *)
(* inside enterNextClientTimeoutPeriod.                                    *)
THEOREM RequestsReturnMutexes == Spec => []MutexHeldInside
  <1>1. Init => MutexHeldInside
    BY MutexInitInv DEF Init
  <1>2. ASSUME ServiceInv, MutexHeldInside, [Next]_vars
        PROVE  MutexHeldInside'
    <2>1. QueueInv
      BY <1>2 DEF ServiceInv
    <2>2. CASE UNCHANGED <<mutex, frame>>
      BY <1>2, <2>2, MutexEnvironmentInv
    <2>3. ASSUME NEW p \in Proc, Arrive(p)
          PROVE  MutexHeldInside'
      <3>1. CASE \E l \in Locks : \E t \in told[l] : TryAcquireLock(p, l, t)
        BY <1>2, <2>1, <3>1, MutexCallInv DEF TryAcquireLock
      <3>2. CASE \E locks \in Requests :
                   CreateRequest(p, locks) \/ LockRequest(p, locks) \/ UnlockRequest(p, locks)
        BY <2>2, <3>2 DEF CreateRequest, LockRequest, UnlockRequest, Receive, queueVars
      <3> QED BY <2>3, <3>1, <3>2 DEF Arrive
    <2>4. ASSUME NEW p \in Proc, LockReadsStatus(p) \/ WriteUnlocked(p) \/ ScheduleReturns(p)
          PROVE  MutexHeldInside'
      BY <1>2, <2>1, <2>2, <2>4, MutexCallInv DEF LockReadsStatus, WriteUnlocked, ScheduleReturns, queueVars
    <2>5. ASSUME NEW p \in Proc, ReleaseReturns(p) \/ PositionReturns(p) \/ AcquireReturns(p)
          PROVE  MutexHeldInside'
      BY <1>2, <2>1, <2>5, MutexCallInv DEF ReleaseReturns, PositionReturns, AcquireReturns, At, Ready
    <2>6. ASSUME NEW p \in Proc, \/ CheckExists(p) \/ UnlockReadsStatus(p) \/ CreateWritesPending(p)
                                 \/ CreateWritesUnlocked(p) \/ WriteLocked(p)
                                 \/ HandlerCommandFails(p)
          PROVE  MutexHeldInside'
      BY <2>2, <2>6 DEF CheckExists, UnlockReadsStatus, CreateWritesPending, CreateWritesUnlocked,
                        WriteLocked, HandlerCommandFails, queueVars
    <2>7. ASSUME NEW p \in Proc, PackageStep(p)
          PROVE  MutexHeldInside'
      BY <1>2, <2>1, <2>7, MutexStepInv DEF PackageStep
    <2>8. CASE ServerCrash \/ ClockTick \/ UNCHANGED vars
      BY <1>2, <2>8, MutexEnvironmentInv DEF ServerCrash, ClockTick, vars, queueVars
    <2>9. ASSUME NEW p \in Proc, Respond(p)
          PROVE  MutexHeldInside'
      <3>1. Ready(p)
        BY <1>2, <2>9, WaitFacts DEF Respond, QueueOps
      <3> QED BY <1>2, <2>1, <2>9, <3>1, MutexCallInv DEF Respond
    <2> QED BY <1>2, <2>3, <2>4, <2>5, <2>6, <2>7, <2>8, <2>9 DEF Next, Act, HandlerStep
  <1> QED BY <1>1, <1>2, ServiceInvariant, PTL DEF Spec
-----------------------------------------------------------------------------
(* Requests that do not overlap on a lock implement LockTable.             *)

(* The conditions of a step of a request that is alone at its lock.        *)
Solo(p) == p \in Proc /\ ServiceInv /\ TableInv /\ OneRequestPerLock

LEMMA SoloFacts ==
  ASSUME NEW p, Solo(p)
  PROVE  /\ p \in Proc /\ ServiceInv /\ QueueInv /\ StatusInv /\ MoveInv /\ ApartInv
         /\ StatusFits(call[p], status) /\ WaitOK(call[p], frame[p])
         /\ \A l \in Locks : told[l] # {} => status[l] \in {"LOCKED", "UNLOCKED"}
         /\ status \in [Locks -> Statuses] /\ told \in [Locks -> SUBSET (1..issued)]
         /\ call \in [Proc -> Calls] /\ frame[p] \in Frames
         /\ call[p].at \notin {"idle", "done"} => Current(p) \in Locks
         /\ call[p].at \in {"pending", "free"} => call[p].op = "create"
         /\ call[p].at = "lock" => call[p].op \in {"lock", "try"}
         /\ call[p].at = "acquire" => call[p].op = "try"
  <1>1. p \in Proc /\ ServiceInv /\ TableInv
    BY DEF Solo
  <1>2. WaitOK(call[p], frame[p])
    BY <1>1, WaitFacts
  <1> QED BY <1>1, <1>2, CallFacts
          DEF TableInv, StatusInv, ServiceInv, TypeOK, QueueInv, QueueTypeOK, CallOK

(* What may become of a status: a lock is created once, freed, or taken    *)
(* while it is free or on the client's turn.                               *)
Becomes(l, from, to) == status[l] \in from /\ status' = [status EXCEPT ![l] = to]

Frees(p) ==
  LET l == Current(p)
  IN  /\ Working(p)
      /\ \/ Becomes(l, {"ABSENT"}, "PENDING_CREATION")
         \/ Becomes(l, {"PENDING_CREATION", "LOCKED"}, "UNLOCKED")

Takes(p) ==
  LET l == Current(p)
  IN  /\ Working(p)
      /\ Becomes(l, IF l \in Turn(p) THEN {"UNLOCKED", "LOCKED"} ELSE {"UNLOCKED"}, "LOCKED")

(* A request moves the lock it is at.                                      *)
TableMove(p) == UNCHANGED status \/ Frees(p) \/ Takes(p)

(* A call of the package belongs to a request that is at its lock, so that *)
(* calls do not overlap on a lock when requests do not.                    *)
LEMMA CallsApart ==
  ASSUME ServiceInv, OneRequestPerLock
  PROVE  OneCallPerLock
  BY WaitFacts DEF OneRequestPerLock, OneCallPerLock

(* What a request knows of its lock, one at another lock leaves true.      *)
LEMMA OthersFit ==
  ASSUME NEW p, Solo(p), TableMove(p), NEW q \in Proc, q # p, Untouched(q)
  PROVE  StatusFits(call'[q], status')
  <1>1. /\ StatusFits(call[q], status) /\ status \in [Locks -> Statuses]
        /\ Working(p) => Current(p) \in Locks
        /\ Working(q) => Head(call[q].todo) \in Locks
    BY CallFacts DEF Solo, TableInv, StatusInv, ServiceInv, TypeOK, Working, Current
  <1>2. CASE UNCHANGED status
    BY <1>1, <1>2 DEF Untouched, StatusFits
  <1>3. CASE ~Working(q)
    BY <1>1, <1>3 DEF Untouched, StatusFits, Working
  <1>4. CASE Working(q) /\ ~UNCHANGED status
    <2>1. Head(call[q].todo) # Current(p)
      BY <1>4 DEF Solo, OneRequestPerLock, TableMove, Frees, Takes, Current
    <2>2. status'[Head(call[q].todo)] = status[Head(call[q].todo)]
      BY <1>1, <1>4, <2>1 DEF TableMove, Frees, Takes, Becomes
    <2> QED BY <1>1, <2>2 DEF Untouched, StatusFits
  <1> QED BY <1>2, <1>3, <1>4

LEMMA StatusKept ==
  ASSUME NEW p, Solo(p), TableMove(p), told' = told, StatusFits(call'[p], status'),
         \A q \in Proc : q # p => Untouched(q)
  PROVE  StatusInv'
  <1>1. ASSUME NEW l \in Locks, told[l] # {}
        PROVE  status'[l] \in {"LOCKED", "UNLOCKED"}
    BY <1>1, SoloFacts DEF TableMove, Frees, Takes, Becomes
  <1>2. \A q \in Proc : q # p => StatusFits(call'[q], status')
    BY OthersFit
  <1> QED BY <1>1, <1>2 DEF StatusInv

(* A request that has answered, or goes on to a lock it has not looked at, *)
(* knows nothing of a status.                                              *)
Fresh == {"idle", "exists", "release", "done"}

LEMMA FreshStatus ==
  ASSUME NEW c, NEW s, c.at \in Fresh
  PROVE  StatusFits(c, s)
  BY DEF StatusFits, Fresh

-----------------------------------------------------------------------------
(* What a step of a handler is to the table of locks and to its client.    *)

SameQueues == UNCHANGED <<queue, issued>>
SameClient(p) ==
  call'[p].won = call[p].won /\ Turn(p)' = Turn(p) /\ Asks(p)' = Asks(p)

(* It is to none, or the client has its answer ...                         *)
Pauses(p) ==
  /\ UNCHANGED <<status, faults>> /\ SameQueues
  /\ call'[p].won \in {call[p].won, {}} /\ Turn(p)' = Turn(p) /\ Asks(p)' = Asks(p)

(* ... or the client asks for its turn, or no longer does ...              *)
AsksFor(p) ==
  /\ UNCHANGED <<status, faults>> /\ SameQueues
  /\ Asks(p) = NoTicket /\ Asks(p)' \in 1..issued
  /\ call'[p].won = {} /\ Turn(p)' = Turn(p)

StopsAsking(p) ==
  /\ UNCHANGED <<status, faults>> /\ SameQueues
  /\ Asks(p)' = NoTicket
  /\ call'[p].won = call[p].won /\ Turn(p)' = Turn(p)

(* ... or the lock is created, freed, or granted to the client ...         *)
Does(p) ==
  /\ UNCHANGED faults /\ SameQueues
  /\ \/ Frees(p) /\ SameClient(p)
     \/ /\ Takes(p) /\ call'[p].won = call[p].won \cup {Current(p)}
        /\ Turn(p)' = {} /\ Asks(p)' = Asks(p)

(* ... or it fails.                                                        *)
Breaks(p) ==
  /\ faults' = faults + 1
  /\ call'[p].won = call[p].won /\ Turn(p)' = {} /\ Asks(p)' = Asks(p)
  /\ TableMove(p) /\ SameQueues

HandlerEffect(p) == Pauses(p) \/ AsksFor(p) \/ StopsAsking(p) \/ Does(p) \/ Breaks(p)

(* Only a TryAcquireLock ever asks for a turn, and has one.                *)
LEMMA NoTurn ==
  ASSUME NEW p
  PROVE  /\ call[p].at \notin {"lock", "acquire"} \/ call[p].op # "try" => Turn(p) = {}
         /\ call'[p].at \notin {"lock", "acquire"} \/ call'[p].op # "try" => Turn(p)' = {}
         /\ call[p].at # "acquire" => Asks(p) = NoTicket
         /\ call'[p].at # "acquire" => Asks(p)' = NoTicket
  BY DEF Turn, Asks, Doing

(* A step of a handler that leaves the package alone.                      *)
LEMMA TableOwn ==
  ASSUME NEW p, Solo(p), \A q \in Proc : q # p => Untouched(q),
         \/ \E op \in {"create", "lock", "unlock"} : \E locks \in Requests : Receive(p, op, locks)
         \/ CheckExists(p) \/ UnlockReadsStatus(p) \/ CreateWritesPending(p)
         \/ CreateWritesUnlocked(p) \/ WriteLocked(p) \/ HandlerCommandFails(p)
  PROVE  StatusInv' /\ HandlerEffect(p) /\ UNCHANGED <<queue, nextUp, window, frame, issued>>
  <1>1. /\ p \in Proc /\ ServiceInv /\ StatusFits(call[p], status)
        /\ status \in [Locks -> Statuses] /\ call \in [Proc -> Calls] /\ call[p] \in Calls
        /\ call[p].at \notin {"idle", "done"} => Current(p) \in Locks
        /\ call[p].at \in {"pending", "free"} => call[p].op = "create"
        /\ call[p].at = "lock" => call[p].op \in {"lock", "try"}
        /\ Current(p) = Head(call[p].todo)
    BY SoloFacts DEF Current
  <1>2. ASSUME NEW op, NEW locks, Receive(p, op, locks)
        PROVE  StatusInv' /\ HandlerEffect(p) /\ UNCHANGED <<queue, nextUp, window, frame, issued>>
    <2> DEFINE c == [IdleCall EXCEPT !.op = op, !.at = "exists", !.todo = locks,
                                     !.late = held \ (IF op = "unlock" THEN Range(locks) ELSE {})]
    <2>0. c.at = "exists" /\ c.won = {}
      BY DEF IdleCall
    <2>1. call[p].at = "idle" /\ call'[p] = c /\ UNCHANGED <<queueVars, status, told>>
      BY <1>1, <1>2 DEF Receive
    <2> HIDE DEF c
    <2>2. StatusFits(call'[p], status')
      BY <1>1, <2>0, <2>1, FreshStatus DEF Fresh
    <2>3. StatusInv'
      BY <2>1, <2>2, StatusKept DEF TableMove
    <2> QED BY <2>0, <2>1, <2>3, NoTurn DEF HandlerEffect, Pauses, SameQueues, queueVars
  <1>3. CASE CheckExists(p)
    <2>1. /\ call[p].at = "exists" /\ UNCHANGED <<queueVars, status, told>>
      BY <1>3 DEF CheckExists
    <2>2. /\ call'[p].won = call[p].won
          /\ \/ call'[p].at = "done"
             \/ /\ call'[p].todo = call[p].todo
                /\ \/ call'[p].at = "pending" /\ ~Found(p)
                   \/ call'[p].at = "status" /\ Found(p)
      BY <1>1, <1>3, <2>1, AnswerKept, AdvanceKept DEF CheckExists
    <2>3. StatusFits(call'[p], status')
      BY <1>1, <2>1, <2>2 DEF StatusFits, Found
    <2>4. StatusInv'
      BY <2>1, <2>3, StatusKept DEF TableMove
    <2> QED BY <2>1, <2>2, <2>4, NoTurn DEF HandlerEffect, Pauses, SameQueues, queueVars
  <1>4. CASE UnlockReadsStatus(p)
    <2>1. call[p].at = "status" /\ call[p].op = "unlock" /\ UNCHANGED <<queueVars, status, told>>
      BY <1>4 DEF UnlockReadsStatus, Doing
    <2>2. /\ call'[p].won = call[p].won
          /\ \/ call'[p].at = "done"
             \/ call'[p].todo = call[p].todo /\ call'[p].at = "unlock" /\ status[Current(p)] # "UNLOCKED"
      BY <1>1, <1>4, <2>1, AnswerKept, AdvanceKept DEF UnlockReadsStatus
    <2>3. StatusFits(call'[p], status')
      BY <1>1, <2>1, <2>2 DEF StatusFits, Statuses
    <2>4. StatusInv'
      BY <2>1, <2>3, StatusKept DEF TableMove
    <2> QED BY <2>1, <2>2, <2>4, NoTurn DEF HandlerEffect, Pauses, SameQueues, queueVars
  <1>5. CASE CreateWritesPending(p)
    <2>1. /\ call[p].at = "pending" /\ UNCHANGED <<queueVars, told>>
          /\ status' = [status EXCEPT ![Current(p)] = "PENDING_CREATION"]
          /\ call'[p].at = "free" /\ call'[p].todo = call[p].todo /\ call'[p].won = call[p].won
      BY <1>1, <1>5, AdvanceKept DEF CreateWritesPending, Write
    <2>2. Frees(p)
      BY <1>1, <2>1 DEF StatusFits, Frees, Becomes, Working
    <2>3. StatusFits(call'[p], status')
      BY <1>1, <2>1 DEF StatusFits
    <2>4. StatusInv'
      BY <2>1, <2>2, <2>3, StatusKept DEF TableMove
    <2> QED BY <2>1, <2>2, <2>4, NoTurn DEF HandlerEffect, Does, SameQueues, SameClient, queueVars
  <1>6. CASE CreateWritesUnlocked(p)
    <2>1. /\ call[p].at = "free" /\ UNCHANGED <<queueVars, told>>
          /\ status' = [status EXCEPT ![Current(p)] = "UNLOCKED"] /\ NextLock(p, {})
      BY <1>6 DEF CreateWritesUnlocked, Write
    <2>2. call'[p].at \in {"exists", "done"} /\ call'[p].won = call[p].won \cup {}
      BY <1>1, <2>1, NextLockKept
    <2>3. Frees(p)
      BY <1>1, <2>1 DEF StatusFits, Frees, Becomes, Working
    <2>4. StatusInv'
      BY <2>1, <2>2, <2>3, FreshStatus, StatusKept DEF TableMove, Fresh
    <2> QED BY <2>1, <2>2, <2>3, <2>4, NoTurn
            DEF HandlerEffect, Does, SameQueues, SameClient, queueVars
  <1>7. CASE WriteLocked(p)
    <2>1. /\ call[p].at = "lock" /\ UNCHANGED <<queueVars, told>>
          /\ status' = [status EXCEPT ![Current(p)] = "LOCKED"] /\ NextLock(p, {Current(p)})
      BY <1>7 DEF WriteLocked, Write
    <2>2. call'[p].at \in {"exists", "done"} /\ call'[p].won = call[p].won \cup {Current(p)}
      BY <1>1, <2>1, NextLockKept
    <2>3. Takes(p)
      BY <1>1, <2>1 DEF StatusFits, Takes, Becomes, Working, Turn, Doing
    <2>4. StatusInv'
      BY <2>1, <2>2, <2>3, FreshStatus, StatusKept DEF TableMove, Fresh
    <2> QED BY <2>1, <2>2, <2>3, <2>4, NoTurn DEF HandlerEffect, Does, SameQueues, queueVars
  <1>8. CASE HandlerCommandFails(p)
    <2>1. /\ call[p].at \in {"exists", "status"} \cup Writes /\ told' = told
          /\ UNCHANGED <<queue, nextUp, window, frame, issued>> /\ faults' = faults + 1
          /\ UNCHANGED status \/ (call[p].at \in Writes
                                   /\ status' = [status EXCEPT ![Current(p)] = Written(p)])
      BY <1>8 DEF HandlerCommandFails, Fails, Write, redis
    <2>2. call'[p].at = "done" /\ call'[p].won = call[p].won
      BY <1>1, <1>8, AnswerKept DEF HandlerCommandFails
    <2>3. TableMove(p)
      BY <1>1, <2>1 DEF StatusFits, TableMove, Frees, Takes, Becomes, Working, Writes, Written, Turn, Doing
    <2>4. StatusInv'
      BY <2>1, <2>2, <2>3, FreshStatus, StatusKept DEF Fresh
    <2>5. Turn(p)' = {} /\ Asks(p)' = Asks(p)
      BY <2>1, <2>2, NoTurn DEF Writes
    <2> QED BY <2>1, <2>2, <2>3, <2>4, <2>5 DEF HandlerEffect, Breaks, SameQueues
  <1> QED BY <1>2, <1>3, <1>4, <1>5, <1>6, <1>7, <1>8

(* A call opens without touching the queues, in a frame that is not Served *)
(* and takes nobody out.                                                   *)
LEMMA OpensQuietly ==
  ASSUME NEW p \in Proc, ServiceInv,
         \/ \E l : StartSchedule(p, l) \/ StartRelease(p, l)
         \/ \E l, t : StartPosition(p, l, t) \/ StartAcquire(p, l, t)
  PROVE  /\ SameQueues /\ UNCHANGED <<faults, window>>
         /\ frame'[p].at \in {"add.exists", "pos.exists", "next.exists", "ent.lock", "done"}
         /\ \A l, t : StartAcquire(p, l, t) =>
              frame'[p].at = "next.exists" /\ frame'[p].ticket = t
  <1>1. frame \in [Proc -> Frames]
    BY DEF ServiceInv, QueueInv, QueueTypeOK
  <1>2. ASSUME NEW op, NEW l, NEW t, NEW label, Start(p, op, l, t, label)
        PROVE  /\ SameQueues /\ UNCHANGED <<faults, window>>
               /\ frame'[p].at = label /\ frame'[p].ticket = t
    BY <1>1, <1>2 DEF Start, SameQueues, redis, IdleFrame
  <1>3. ASSUME NEW l, StartRelease(p, l)
        PROVE  SameQueues /\ UNCHANGED <<faults, window>> /\ frame'[p].at \in {"ent.lock", "done"}
    <2>1. CASE HandoffConfigured
      BY <1>2, <1>3, <2>1 DEF StartRelease
    <2>2. CASE ~HandoffConfigured
      BY <1>1, <1>3, <2>2 DEF StartRelease, SameQueues, redis, IdleFrame
    <2> QED BY <2>1, <2>2
  <1> QED BY <1>2, <1>3 DEF StartSchedule, StartPosition, StartAcquire

(* A step of a handler that opens a call of the package.                   *)
LEMMA TableCalls ==
  ASSUME NEW p, Solo(p), \A q \in Proc : q # p => Untouched(q),
         \/ LockReadsStatus(p) \/ WriteUnlocked(p) \/ ScheduleReturns(p)
         \/ \E l \in Locks : \E t \in told[l] : TryAcquireLock(p, l, t)
  PROVE  StatusInv' /\ HandlerEffect(p)
  <1>1. /\ p \in Proc /\ ServiceInv /\ StatusFits(call[p], status)
        /\ status \in [Locks -> Statuses] /\ call \in [Proc -> Calls]
        /\ call[p].at \notin {"idle", "done"} => Current(p) \in Locks
        /\ Current(p) = Head(call[p].todo)
    BY SoloFacts DEF Current
  <1>2. ASSUME UNCHANGED <<queueVars, status>>, SameClient(p)
        PROVE  HandlerEffect(p)
    BY <1>2 DEF HandlerEffect, Pauses, SameQueues, SameClient, queueVars
  <1>3. CASE LockReadsStatus(p)
    <2>1. call[p].at = "status" /\ call[p].op = "lock" /\ UNCHANGED <<status, told>>
      BY <1>3 DEF LockReadsStatus, Doing
    <2>2. CASE status[Current(p)] = "LOCKED"
      <3>1. Advance(p, "schedule") /\ StartSchedule(p, Current(p))
        BY <1>3, <2>2 DEF LockReadsStatus, MayTake
      <3>2. /\ call'[p].at = "schedule" /\ call'[p].todo = call[p].todo
            /\ call'[p].won = call[p].won
        BY <1>1, <2>1, <3>1, AdvanceKept
      <3>3. StatusFits(call'[p], status')
        BY <1>1, <2>1, <2>2, <3>2 DEF StatusFits
      <3>4. StatusInv'
        BY <2>1, <3>3, StatusKept DEF TableMove
      <3>5. SameQueues /\ UNCHANGED faults
        BY <1>1, <3>1, OpensQuietly
      <3> QED BY <2>1, <3>2, <3>4, <3>5, NoTurn DEF HandlerEffect, Pauses
    <2>3. CASE status[Current(p)] # "LOCKED"
      <3>1. /\ UNCHANGED queueVars /\ call'[p].won = call[p].won
            /\ \/ call'[p].at = "done"
               \/ /\ call'[p].at = "lock" /\ call'[p].todo = call[p].todo
                  /\ call'[p].op = call[p].op /\ status[Current(p)] = "UNLOCKED"
        <4>1. CASE MayTake(Current(p))
          BY <1>1, <1>3, <2>1, <2>3, <4>1, AdvanceKept DEF LockReadsStatus, MayTake
        <4>2. CASE ~MayTake(Current(p))
          BY <1>1, <1>3, <2>3, <4>2, AnswerKept DEF LockReadsStatus
        <4> QED BY <4>1, <4>2
      <3>2. StatusFits(call'[p], status')
        BY <1>1, <2>1, <3>1 DEF StatusFits
      <3>3. StatusInv'
        BY <2>1, <3>2, StatusKept DEF TableMove
      <3> QED BY <1>2, <2>1, <3>1, <3>3, NoTurn DEF SameClient
    <2> QED BY <2>2, <2>3
  <1>4. CASE WriteUnlocked(p)
    <2>1. /\ call[p].at = "unlock" /\ told' = told /\ StartRelease(p, Current(p))
          /\ status' = [status EXCEPT ![Current(p)] = "UNLOCKED"]
      BY <1>4 DEF WriteUnlocked, Write
    <2>2. call[p].op = "unlock"
      BY <1>1, <2>1, CallFacts DEF CallOK
    <2>3. call'[p].at = "release" /\ call'[p].won = call[p].won
      BY <1>1, <1>4, <2>1, AdvanceKept DEF WriteUnlocked
    <2>4. Frees(p)
      BY <1>1, <2>1 DEF StatusFits, Frees, Becomes, Working
    <2>5. StatusInv'
      BY <2>1, <2>3, <2>4, FreshStatus, StatusKept DEF Fresh, TableMove
    <2>6. SameQueues /\ UNCHANGED faults
      BY <1>1, <2>1, OpensQuietly
    <2> QED BY <2>1, <2>3, <2>4, <2>5, <2>6, NoTurn DEF HandlerEffect, Does, SameClient
  <1>5. CASE ScheduleReturns(p)
    <2>1. /\ call[p].at = "schedule" /\ frame[p].at = "done" /\ UNCHANGED <<status, told>>
          /\ status[frame[p].lock] = "LOCKED" /\ frame[p].lock = Head(call[p].todo)
      BY <1>1, <1>5, SoloFacts DEF ScheduleReturns, StatusFits, WaitOK, At
    <2>2. CASE frame[p].res = "ok"
      <3>1. Advance(p, "position") /\ StartPosition(p, frame[p].lock, frame[p].ticket)
        BY <1>5, <2>2 DEF ScheduleReturns
      <3>2. /\ call'[p].at = "position" /\ call'[p].todo = call[p].todo
            /\ call'[p].won = call[p].won
        BY <1>1, <2>1, <3>1, AdvanceKept
      <3>3. StatusFits(call'[p], status')
        BY <2>1, <3>2 DEF StatusFits
      <3>4. StatusInv'
        BY <2>1, <3>3, StatusKept DEF TableMove
      <3>5. SameQueues /\ UNCHANGED faults
        BY <1>1, <3>1, OpensQuietly
      <3> QED BY <2>1, <3>2, <3>4, <3>5, NoTurn DEF HandlerEffect, Pauses
    <2>3. CASE frame[p].res # "ok"
      <3>1. call'[p].at = "done" /\ call'[p].won = call[p].won /\ UNCHANGED queueVars
        BY <1>1, <1>5, <2>3, AnswerKept DEF ScheduleReturns
      <3>2. StatusInv'
        BY <2>1, <3>1, FreshStatus, StatusKept DEF Fresh, TableMove
      <3> QED BY <1>2, <2>1, <3>1, <3>2, NoTurn DEF SameClient
    <2> QED BY <2>2, <2>3
  <1>6. ASSUME NEW l \in Locks, NEW t \in told[l], TryAcquireLock(p, l, t)
        PROVE  StatusInv' /\ HandlerEffect(p)
    <2>1. /\ UNCHANGED <<status, told>> /\ call[p].at = "idle" /\ StartAcquire(p, l, t)
          /\ call'[p].op = "try" /\ call'[p].at = "acquire" /\ Head(call'[p].todo) = l
          /\ call'[p].won = {}
      <3> DEFINE c == [IdleCall EXCEPT !.op = "try", !.at = "acquire", !.todo = <<l>>, !.late = held]
      <3>1. c.op = "try" /\ c.at = "acquire" /\ Head(c.todo) = l /\ c.won = {}
        BY DEF IdleCall
      <3>2. /\ call' = [call EXCEPT ![p] = c] /\ UNCHANGED <<status, told>>
            /\ call[p].at = "idle" /\ StartAcquire(p, l, t)
        BY <1>6 DEF TryAcquireLock
      <3> HIDE DEF c
      <3> QED BY <1>1, <3>1, <3>2
    <2>2. status[l] \in {"LOCKED", "UNLOCKED"} /\ t \in 1..issued
      BY SoloFacts
    <2>3. StatusFits(call'[p], status')
      BY <2>1, <2>2 DEF StatusFits
    <2>4. StatusInv'
      BY <2>1, <2>3, StatusKept DEF TableMove
    <2>5. /\ SameQueues /\ UNCHANGED faults
          /\ frame'[p].at = "next.exists" /\ frame'[p].ticket = t
      BY <1>1, <2>1, OpensQuietly
    <2>6. Turn(p) = {} /\ Turn(p)' = {}
      BY <2>1, <2>5 DEF Turn, Doing, Served, EnterLabels
    <2>7. Asks(p) = NoTicket /\ Asks(p)' = t
      BY <2>1, <2>5 DEF Asks, Doing
    <2> QED BY <2>1, <2>2, <2>4, <2>5, <2>6, <2>7 DEF HandlerEffect, AsksFor
  <1> QED BY <1>3, <1>4, <1>5, <1>6

(* A step of a handler that reads a result, or the end of a request.       *)
LEMMA TableReturns ==
  ASSUME NEW p, Solo(p), \A q \in Proc : q # p => Untouched(q),
         ReleaseReturns(p) \/ PositionReturns(p) \/ AcquireReturns(p) \/ Respond(p)
  PROVE  StatusInv' /\ HandlerEffect(p)
  <1>1. /\ p \in Proc /\ ServiceInv /\ StatusFits(call[p], status)
        /\ call \in [Proc -> Calls] /\ told \in [Locks -> SUBSET (1..issued)]
        /\ call[p].at = "acquire" => call[p].op = "try"
    BY SoloFacts
  <1>2. UNCHANGED status /\ TableMove(p) /\ SameQueues /\ UNCHANGED faults
    BY DEF ReleaseReturns, PositionReturns, AcquireReturns, Respond, TableMove, SameQueues, redis
  <1>3. CASE ReleaseReturns(p)
    <2>1. call[p].at = "release" /\ told' = told /\ NextLock(p, {})
      BY <1>3 DEF ReleaseReturns
    <2>2. call'[p].at \in {"exists", "done"} /\ call'[p].won = call[p].won \cup {}
      BY <1>1, <2>1, NextLockKept
    <2>3. StatusInv'
      BY <1>2, <2>1, <2>2, FreshStatus, StatusKept DEF Fresh
    <2> QED BY <1>2, <2>1, <2>2, <2>3, NoTurn DEF HandlerEffect, Pauses
  <1>4. CASE Respond(p)
    <2>1. call[p].at = "done" /\ call'[p].at = "idle" /\ call'[p].won = {} /\ told' = told
      BY <1>1, <1>4 DEF Respond, IdleCall
    <2>2. StatusInv'
      BY <1>2, <2>1, FreshStatus, StatusKept DEF Fresh
    <2> QED BY <1>2, <2>1, <2>2, NoTurn DEF HandlerEffect, Pauses
  <1>5. CASE AcquireReturns(p)
    <2>1. call[p].at = "acquire" /\ call[p].op = "try" /\ told' = told /\ frame[p].at = "done"
      BY <1>1, <1>5 DEF AcquireReturns, At
    <2>2. CASE frame[p].res = "ok"
      <3>1. /\ call'[p].at = "lock" /\ call'[p].todo = call[p].todo
            /\ call'[p].op = call[p].op /\ call'[p].won = call[p].won
        BY <1>1, <1>5, <2>1, <2>2, AdvanceKept DEF AcquireReturns
      <3>2. Turn(p) = {Current(p)} /\ Turn(p)' = {Current(p)}
        BY <2>1, <2>2, <3>1 DEF Turn, Doing, Served, Current
      <3>3. StatusFits(call'[p], status')
        BY <1>1, <1>2, <2>1, <3>1 DEF StatusFits
      <3>4. StatusInv'
        BY <1>2, <2>1, <3>3, StatusKept
      <3> QED BY <1>2, <3>1, <3>2, <3>4, NoTurn DEF HandlerEffect, StopsAsking
    <2>3. CASE frame[p].res # "ok"
      <3>1. call'[p].at = "done" /\ call'[p].won = call[p].won
        BY <1>1, <1>5, <2>3, AnswerKept DEF AcquireReturns
      <3>2. Turn(p) = {} /\ Turn(p)' = {}
        BY <2>1, <2>3, <3>1 DEF Turn, Doing, Served, EnterLabels
      <3>3. StatusInv'
        BY <1>2, <2>1, <3>1, FreshStatus, StatusKept DEF Fresh
      <3> QED BY <1>2, <3>1, <3>2, <3>3, NoTurn DEF HandlerEffect, StopsAsking
    <2> QED BY <2>2, <2>3
  <1>6. CASE PositionReturns(p)
    <2>1. /\ call[p].at = "position" /\ status[frame[p].lock] = "LOCKED"
          /\ told' = told \/ told' = [told EXCEPT ![frame[p].lock] = @ \cup {frame[p].ticket}]
      BY <1>1, <1>6, SoloFacts DEF PositionReturns, StatusFits, WaitOK
    <2>2. call'[p].at \in {"exists", "done"} /\ call'[p].won = call[p].won \cup {}
      <3>1. CASE frame[p].res = "ok"
        BY <1>1, <1>6, <2>1, <3>1, NextLockKept DEF PositionReturns
      <3>2. CASE frame[p].res # "ok"
        BY <1>1, <1>6, <3>2, AnswerKept DEF PositionReturns
      <3> QED BY <3>1, <3>2
    <2>3. StatusFits(call'[p], status')
      BY <2>2, FreshStatus DEF Fresh
    <2>4. \A l \in Locks : told'[l] # {} => status'[l] \in {"LOCKED", "UNLOCKED"}
      <3>1. \A l \in Locks : told[l] # {} => status[l] \in {"LOCKED", "UNLOCKED"}
        BY SoloFacts
      <3> QED BY <1>1, <1>2, <2>1, <3>1
    <2>5. \A q \in Proc : q # p => StatusFits(call'[q], status')
      BY <1>2, OthersFit
    <2>6. StatusInv'
      BY <2>3, <2>4, <2>5 DEF StatusInv
    <2> QED BY <1>2, <2>1, <2>2, <2>6, NoTurn DEF HandlerEffect, Pauses
  <1> QED BY <1>3, <1>4, <1>5, <1>6

-----------------------------------------------------------------------------
(* What a step of the package is to a client that AcquireLock takes out.   *)

(* The step keeps what MoveFits says of its goroutine, and a client is     *)
(* served with the step that takes it out of the queue; only an error that *)
(* is ignored can serve one that stays in.                                 *)
InFront(p) == queue[Own(p)] # <<>> /\ Head(queue[Own(p)]) = frame[p].ticket

LeavesInTurn(p) == Leaves(p) /\ InFront(p)

Serves(p) ==
  /\ MoveFits(frame'[p], queue'[Own(p)])
  /\ \/ /\ UNCHANGED faults
        /\ \/ SameQueues /\ (frame[p].op = "acquire" => (Served(frame'[p]) <=> Served(frame[p])))
           \/ Joins(p)
           \/ LeavesInTurn(p) /\ (HandoffConfigured => Served(frame'[p]))
     \/ /\ faults' = faults + 1
        /\ \/ ~Served(frame'[p]) /\ (SameQueues \/ Joins(p) \/ LeavesInTurn(p))
           \/ /\ SameQueues
              /\ (Served(frame'[p]) <=> Served(frame[p])) \/ InFront(p)

(* The conditions of such a step.                                          *)
Taking(p) ==
  /\ Mid(p) /\ ApartInv /\ Instance # ManagementDB
  /\ MoveFits(frame[p], queue[Own(p)])

LEMMA TakingFacts ==
  ASSUME NEW p, Taking(p)
  PROVE  /\ Mid(p) /\ p \in Proc /\ frame \in [Proc -> Frames] /\ frame[p] \in Frames
         /\ ReadsFit(frame[p], queue[Own(p)], nextUp[Own(p)], queue[HandoffKey(p)])
         /\ StepOK(frame[p].op, frame[p].at, frame[p].ticket, frame[p].items)
         /\ frame[p].at \notin {"win.get", "win.check", "ent.get", "ent.next", "ent.window"}
         /\ ~frame[p].expired /\ queue[HandoffKey(p)] = <<>>
         /\ MoveFits(frame[p], queue[Own(p)])
  <1>1. Mid(p) /\ p \in Proc /\ QueueInv /\ ~At(p, "idle")
    BY DEF Taking, Mid, Ready, At
  <1> QED BY <1>1, MidFacts, ApartFacts DEF Taking

(* A call that returns has served its client if it returns no error.       *)
LEMMA ServedReturn ==
  ASSUME NEW p, Taking(p), NEW r, Return(p, r)
  PROVE  MoveFits(frame'[p], queue'[Own(p)]) /\ (Served(frame'[p]) <=> r = "ok")
  <1>1. frame'[p].at = "done" /\ frame'[p].res = r
    BY TakingFacts DEF Return, Frames
  <1> QED BY <1>1 DEF MoveFits, Served, EnterLabels

LEMMA ServedGoto ==
  ASSUME NEW p, Taking(p), NEW label, NEW items, GotoWith(p, label, items)
  PROVE  frame'[p].at = label /\ frame'[p].ticket = frame[p].ticket
  BY TakingFacts DEF GotoWith, Frames

(* The client that is taken out is the one at the front.                   *)
LEMMA TakenInFront ==
  ASSUME NEW p, Taking(p)
  PROVE  /\ frame[p].at \in {"rem.set", "mov.exists", "mov.get", "mov.window", "mov.clear", "mov.set"}
              => InFront(p)
         /\ At(p, "rem.nextget") => frame[p].items = queue[Own(p)] /\ queue[Own(p)] # <<>>
  <1> DEFINE f == frame[p]
             q == queue[Own(p)]
  <1>1. /\ ReadsFit(f, q, nextUp[Own(p)], queue[HandoffKey(p)])
        /\ StepOK(f.op, f.at, f.ticket, f.items) /\ MoveFits(f, q)
    BY TakingFacts
  <1>2. f.at \in {"rem.set", "rem.nextget"} => f.items = q /\ f.ticket \in Range(f.items)
    BY <1>1 DEF ReadsFit, ReadLabels, StepOK
  <1>3. q = <<>> => Range(q) = {}
    BY DEF Range
  <1>4. f.at = "rem.set" => Head(q) = f.ticket
    BY <1>1 DEF ReadsFit
  <1> QED BY <1>1, <1>2, <1>3, <1>4 DEF MoveFits, InFront, At

LEMMA WrittenInTurn ==
  ASSUME NEW p, Taking(p), UNCHANGED <<nextUp, issued>>,
         \/ At(p, "rem.set") /\ WriteRemoved(p)
         \/ At(p, "mov.set") /\ WriteMoved(p)
  PROVE  LeavesInTurn(p)
  <1>1. Joins(p) \/ Leaves(p)
    BY TakingFacts, QueueWritten DEF WritesQueue
  <1> QED BY <1>1, TakenInFront DEF LeavesInTurn, Joins, At

LEMMA SameServes ==
  ASSUME NEW p, MoveFits(frame'[p], queue'[Own(p)]), SameQueues, UNCHANGED faults,
         Served(frame'[p]) <=> Served(frame[p])
  PROVE  Serves(p)
  BY DEF Serves

(* addToQueue and getPositionInQueue take nobody out.                      *)
LEMMA AddServes ==
  ASSUME NEW p, Taking(p), AddStep(p) \/ PositionStep(p)
  PROVE  Serves(p)
  <1>1. /\ frame \in [Proc -> Frames] /\ frame[p] \in Frames /\ p \in Proc /\ Mid(p)
        /\ StepOK(frame[p].op, frame[p].at, frame[p].ticket, frame[p].items)
    BY TakingFacts
  <1>2. UNCHANGED faults
    BY DEF AddStep, AddExists, AddGet, GetQueue, AddSet, AddNext, PositionStep, PositionExists,
           PositionGet, Reads
  <1>3. frame'[p].at \in {"add.set", "add.get", "add.next", "pos.get", "done"}
    <2>1. CASE AddSet(p)
      BY <1>1, <2>1 DEF AddSet, Frames
    <2>2. CASE AddExists(p) \/ AddGet(p) \/ AddNext(p)
      BY <1>1, <2>2 DEF AddExists, AddGet, GetQueue, AddNext, Goto, GotoWith, Return, Frames
    <2>3. CASE PositionExists(p) \/ PositionGet(p)
      BY <1>1, <2>3 DEF PositionExists, PositionGet, Goto, GotoWith, Return, Frames
    <2> QED BY <2>1, <2>2, <2>3 DEF AddStep, PositionStep
  <1>4. MoveFits(frame'[p], queue'[Own(p)])
    BY <1>3 DEF MoveFits
  <1>5. frame[p].op \in {"schedule", "position"}
    BY <1>1 DEF StepOK, AddLabels, AddStep, AddExists, AddGet, AddSet, AddNext, PositionStep,
                PositionExists, PositionGet, At
  <1>6. SameQueues \/ Joins(p)
    <2>1. CASE AddSet(p)
      BY <1>1, <2>1 DEF AddSet, WriteAdded, Enqueue, Joins, At, ReadsFit, ReadLabels, Mid, OneCallerInv
    <2>2. CASE ~AddSet(p)
      BY <2>2 DEF AddStep, AddExists, AddGet, GetQueue, AddNext, PositionStep, PositionExists,
                  PositionGet, Reads, redis, SameQueues
    <2> QED BY <2>1, <2>2
  <1> QED BY <1>2, <1>4, <1>5, <1>6 DEF Serves

(* isNextInQueue and removeFromQueue, whose last command takes it out.     *)
LEMMA RemoveServes ==
  ASSUME NEW p, Taking(p), TurnStep(p) \/ RemoveStep(p)
  PROVE  Serves(p)
  <1> DEFINE f == frame[p]
             q == queue[Own(p)]
  <1>1. /\ Mid(p) /\ ReadsFit(f, q, nextUp[Own(p)], queue[HandoffKey(p)])
        /\ StepOK(f.op, f.at, f.ticket, f.items)
        /\ f.at \notin {"win.get", "win.check"}
    BY TakingFacts
  <1>2. CASE RemoveSet(p)
    <2>1. LeavesInTurn(p)
      BY <1>2, WrittenInTurn DEF RemoveSet
    <2> QED BY <1>2, <2>1, ServedReturn DEF RemoveSet, Serves
  <1>3. CASE ~RemoveSet(p)
    <2>1. SameQueues /\ UNCHANGED faults
      BY <1>3 DEF TurnStep, NextExists, NextGet, WindowExists, WindowGet, WindowCheck, RemoveStep,
                  RemoveExists, RemoveGet, RemoveNext, RemoveNextGet, Reads, redis, SameQueues
    <2>2. f.at \in {"next.exists", "next.get", "win.exists", "rem.exists", "rem.get", "rem.next",
                    "rem.nextget"}
      BY <1>1, <1>3 DEF TurnStep, NextExists, NextGet, WindowExists, WindowGet, WindowCheck,
                        RemoveStep, RemoveExists, RemoveGet, RemoveNext, RemoveNextGet, At
    <2>3. \/ Return(p, "error")
          \/ \E items : \E label \in {"next.get", "win.exists", "win.get", "rem.exists", "rem.get",
                                     "rem.next", "rem.nextget", "rem.set"} :
               GotoWith(p, label, items)
          \/ /\ At(p, "rem.nextget") /\ Head(f.items) = f.ticket
             /\ GotoWith(p, "mov.exists", <<>>)
      BY <1>1, <1>3 DEF TurnStep, NextExists, NextGet, WindowExists, WindowGet, WindowCheck,
                        RemoveStep, RemoveExists, RemoveGet, RemoveNext, RemoveNextGet, Goto, At
    <2>4. ~Served(f)
      BY <2>2 DEF Served, EnterLabels
    <2>5. At(p, "rem.nextget") => f.items = q /\ q # <<>>
      BY TakenInFront
    <2>6. MoveFits(frame'[p], queue'[Own(p)]) /\ ~Served(frame'[p])
      <3>1. CASE Return(p, "error")
        BY <3>1, ServedReturn
      <3>2. ASSUME NEW label, NEW items, GotoWith(p, label, items),
                   \/ label \in {"next.get", "win.exists", "win.get", "rem.exists", "rem.get",
                                 "rem.next", "rem.nextget", "rem.set"}
                   \/ label = "mov.exists" /\ q # <<>> /\ Head(q) = f.ticket
            PROVE  MoveFits(frame'[p], queue'[Own(p)]) /\ ~Served(frame'[p])
        <4>1. frame'[p].at = label /\ frame'[p].ticket = f.ticket
          BY <3>2, ServedGoto
        <4>2. queue'[Own(p)] = q
          BY <2>1 DEF SameQueues
        <4> QED BY <3>2, <4>1, <4>2 DEF MoveFits, Served, EnterLabels
      <3> QED BY <2>3, <2>5, <3>1, <3>2
    <2> QED BY <2>1, <2>4, <2>6, SameServes
  <1> QED BY <1>2, <1>3

(* moveToNextClient takes it out with one of two commands.                 *)
LEMMA MoveServes ==
  ASSUME NEW p, Taking(p), MoveStep(p)
  PROVE  Serves(p)
  <1> DEFINE f == frame[p]
             q == queue[Own(p)]
  <1>1. /\ Mid(p) /\ ReadsFit(f, q, nextUp[Own(p)], queue[HandoffKey(p)])
        /\ StepOK(f.op, f.at, f.ticket, f.items) /\ MoveFits(f, q)
    BY TakingFacts
  <1>2. CASE MoveSet(p)
    <2>1. LeavesInTurn(p)
      BY <1>2, WrittenInTurn DEF MoveSet
    <2>2. CASE HandoffConfigured
      <3>1. frame'[p].at = "ent.lock"
        BY <1>2, <2>2, ServedGoto DEF MoveSet
      <3> QED BY <1>2, <2>1, <3>1 DEF MoveSet, Serves, Served, MoveFits
    <2>3. CASE ~HandoffConfigured
      BY <1>2, <2>1, <2>3, ServedReturn DEF MoveSet, Serves
    <2> QED BY <2>2, <2>3
  <1>3. CASE MoveClear(p)
    <2>1. LeavesInTurn(p)
      <3>1. Leaves(p)
        BY <1>1, <1>3, QueueCleared DEF MoveClear, ClearsQueue
      <3>2. frame[p].at = "mov.clear"
        BY <1>3 DEF MoveClear, At
      <3> QED BY <3>1, <3>2, TakenInFront DEF LeavesInTurn
    <2>2. frame'[p].at = "mov.clearnext"
      BY <1>3, ServedGoto DEF MoveClear, Goto
    <2> QED BY <1>3, <2>1, <2>2 DEF MoveClear, Serves, Served, MoveFits
  <1>4. CASE MoveClearNext(p)
    <2>1. MoveFits(frame'[p], queue'[Own(p)]) /\ Served(frame'[p])
      BY <1>4, ServedReturn DEF MoveClearNext
    <2>2. SameQueues /\ UNCHANGED faults /\ Served(f)
      BY <1>4 DEF MoveClearNext, SameQueues, Served, At
    <2> QED BY <2>1, <2>2, SameServes
  <1>5. CASE MoveExists(p) \/ MoveGet(p) \/ MoveWindow(p)
    <2>1. SameQueues /\ UNCHANGED faults /\ q # <<>> /\ Head(q) = f.ticket /\ ~Served(f)
      BY <1>1, <1>5 DEF MoveExists, MoveGet, GetQueue, MoveWindow, Reads, redis, SameQueues,
                        MoveFits, Served, EnterLabels, At
    <2>2. \E items : \E label \in {"mov.get", "mov.window", "mov.clear", "mov.set"} :
            GotoWith(p, label, items)
      BY <1>5, <2>1 DEF MoveExists, MoveGet, GetQueue, MoveWindow, AfterPop, Goto
    <2>3. /\ frame'[p].at \in {"mov.get", "mov.window", "mov.clear", "mov.set"}
          /\ frame'[p].ticket = f.ticket
      BY <2>2, ServedGoto
    <2>4. MoveFits(frame'[p], queue'[Own(p)]) /\ ~Served(frame'[p])
      BY <2>1, <2>3 DEF SameQueues, MoveFits, Served, EnterLabels
    <2> QED BY <2>1, <2>4, SameServes
  <1>6. ~MoveDropNext(p) /\ ~MoveDropWindow(p)
    BY <1>1 DEF MoveFits, MoveDropNext, MoveDropWindow, At
  <1> QED BY <1>2, <1>3, <1>4, <1>5, <1>6 DEF MoveStep

(* enterNextClientTimeoutPeriod finds no queue: the client stays served.   *)
LEMMA EnterServes ==
  ASSUME NEW p, Taking(p), EnterStep(p) \/ EnterLock(p)
  PROVE  Serves(p)
  <1>1. /\ frame[p].at \notin {"ent.get", "ent.next", "ent.window"} /\ queue[HandoffKey(p)] = <<>>
    BY TakingFacts
  <1>2. CASE EnterLock(p)
    <2>1. frame'[p].at = "ent.exists"
      BY <1>2, ServedGoto DEF EnterLock, Goto
    <2>2. Served(frame[p]) /\ Served(frame'[p]) /\ MoveFits(frame'[p], queue'[Own(p)])
      BY <1>2, <2>1 DEF EnterLock, At, Served, EnterLabels, MoveFits
    <2> QED BY <1>2, <2>2, SameServes DEF EnterLock, redis, SameQueues
  <1>3. CASE EnterExists(p)
    <2>1. Return(p, "ok") /\ Served(frame[p])
      BY <1>1, <1>3 DEF EnterExists, At, Served, EnterLabels
    <2>2. MoveFits(frame'[p], queue'[Own(p)]) /\ Served(frame'[p])
      BY <2>1, ServedReturn
    <2> QED BY <1>3, <2>1, <2>2, SameServes DEF EnterExists, redis, SameQueues
  <1> QED BY <1>1, <1>2, <1>3 DEF EnterStep, EnterGet, EnterNext, EnterWindow, At

(* A command that fails ends the call with an error, and nobody is served, *)
(* or is ignored.                                                          *)
LEMMA FailServes ==
  ASSUME NEW p, Taking(p), FailStep(p)
  PROVE  Serves(p)
  <1> DEFINE f == frame[p]
             q == queue[Own(p)]
  <1>1. /\ Mid(p) /\ ReadsFit(f, q, nextUp[Own(p)], queue[HandoffKey(p)])
        /\ StepOK(f.op, f.at, f.ticket, f.items) /\ MoveFits(f, q)
        /\ p \in Proc /\ frame \in [Proc -> Frames] /\ f \in Frames
    BY TakingFacts
  <1>2. faults' = faults + 1
    BY DEF FailStep, CommandFails, AnswerLost, NextKeyUnreadable, DeleteFails, Fails
  <1>3. CASE CommandFails(p) \/ AnswerLost(p)
    <2>1. MoveFits(frame'[p], queue'[Own(p)]) /\ ~Served(frame'[p])
      BY <1>3, ServedReturn DEF CommandFails, AnswerLost
    <2>2. SameQueues \/ Joins(p) \/ LeavesInTurn(p)
      <3>1. CASE At(p, "add.set") /\ WriteAdded(p)
        BY <1>1, <3>1 DEF WriteAdded, Enqueue, Joins, At, ReadsFit, ReadLabels
      <3>2. CASE ~At(p, "add.set")
        BY <1>3, <3>2, WrittenInTurn DEF CommandFails, AnswerLost, redis, SameQueues
      <3>3. CASE At(p, "add.set") /\ ~WriteAdded(p)
        BY <1>3, <3>3 DEF CommandFails, AnswerLost, At, redis, SameQueues
      <3> QED BY <3>1, <3>2, <3>3
    <2> QED BY <1>2, <2>1, <2>2 DEF Serves
  <1>4. CASE NextKeyUnreadable(p)
    <2>1. SameQueues /\ frame'[p].at = "rem.set"
      BY <1>4, ServedGoto DEF NextKeyUnreadable, Goto, redis, SameQueues
    <2> QED BY <1>2, <2>1 DEF Serves, MoveFits, Served, EnterLabels
  <1>5. CASE DeleteFails(p)
    <2>1. SameQueues
      BY <1>5 DEF DeleteFails, redis, SameQueues
    <2>2. CASE EmptiesQueue(p)
      <3>1. InFront(p)
        BY <2>2, TakenInFront DEF EmptiesQueue, At
      <3>2. Return(p, "ok")
        BY <1>5, <2>2 DEF DeleteFails, EmptiesQueue, At
      <3> QED BY <1>2, <2>1, <3>1, <3>2, ServedReturn DEF Serves
    <2>3. CASE At(p, "mov.clear")
      <3>1. frame'[p].at = "mov.clearnext" /\ InFront(p)
        BY <1>5, <2>3, TakenInFront, ServedGoto DEF DeleteFails, Goto, At
      <3> QED BY <1>2, <2>1, <3>1 DEF Serves, MoveFits
    <2>4. CASE At(p, "mov.window")
      <3>1. \E label \in {"mov.clear", "mov.set"} : GotoWith(p, label, f.items)
        BY <1>5, <2>4 DEF DeleteFails, AfterPop, Goto, At
      <3>2. /\ frame'[p].at \in {"mov.clear", "mov.set"} /\ frame'[p].ticket = f.ticket
            /\ q # <<>> /\ Head(q) = f.ticket /\ queue'[Own(p)] = q
        BY <1>1, <2>1, <2>4, <3>1, ServedGoto DEF At, MoveFits, SameQueues
      <3> QED BY <1>2, <2>1, <3>2 DEF Serves, MoveFits, Served, EnterLabels
    <2>5. CASE At(p, "mov.clearnext")
      <3>1. Return(p, "ok")
        BY <1>5, <2>5 DEF DeleteFails, At
      <3>2. Served(f)
        BY <2>5 DEF Served, At
      <3> QED BY <1>2, <2>1, <3>1, <3>2, ServedReturn DEF Serves
    <2>6. ~At(p, "mov.dropnext") /\ ~At(p, "mov.dropwin")
      BY <1>1 DEF MoveFits, At
    <2> QED BY <1>5, <2>2, <2>3, <2>4, <2>5, <2>6 DEF DeleteFails, Deletes, At
  <1> QED BY <1>3, <1>4, <1>5 DEF FailStep

LEMMA StepServes ==
  ASSUME NEW p, Taking(p), QueueStep(p)
  PROVE  Serves(p)
  BY AddServes, RemoveServes, MoveServes, EnterServes, FailServes DEF QueueStep, QueueCommand

-----------------------------------------------------------------------------
(* A step of the package under the service.                                *)
Foremost(p) == queue[Own(p)] # <<>> /\ Head(queue[Own(p)]) = Asks(p)

PackageEffect(p) ==
  LET l == frame[p].lock
  IN  /\ Mid(p) /\ UNCHANGED <<status, call>> /\ Asks(p)' = Asks(p)
      /\ \/ /\ UNCHANGED faults
            /\ \/ SameQueues /\ Turn(p)' = Turn(p)
               \/ Joins(p) /\ status[l] = "LOCKED" /\ Turn(p)' = Turn(p)
               \/ /\ Leaves(p) /\ Foremost(p)
                  /\ Turn(p)' \in {{}, {l}} /\ (HandoffConfigured => Turn(p)' = {l})
         \/ /\ faults' = faults + 1
            /\ \/ /\ Turn(p)' = {}
                  /\ SameQueues \/ (Joins(p) /\ status[l] = "LOCKED") \/ (Leaves(p) /\ Foremost(p))
               \/ /\ SameQueues
                  /\ Turn(p)' = Turn(p) \/ (Foremost(p) /\ Turn(p)' = {l})

LEMMA TablePackage ==
  ASSUME NEW p, Solo(p), OneCallerInv, PackageStep(p), \A q \in Proc : q # p => Untouched(q)
  PROVE  StatusInv' /\ MoveInv' /\ PackageEffect(p)
  <1> DEFINE f == frame[p]
             l == frame[p].lock
  <1>1. /\ p \in Proc /\ ServiceInv /\ QueueInv /\ StatusFits(call[p], status) /\ f \in Frames
        /\ QueueStep(p) /\ UNCHANGED <<status, call, told>> /\ WaitOK(call[p], f) /\ MoveInv
        /\ ApartInv /\ OneCallPerLock
        /\ call[p].at = "acquire" => call[p].op = "try"
    BY SoloFacts, CallsApart DEF PackageStep, InPackage, Solo
  <1>2. /\ frame'[p].op = f.op /\ frame'[p].lock = l /\ ~Ready(p)
        /\ StepOK(f.op, f.at, f.ticket, f.items)
        /\ frame'[p].ticket = f.ticket \/ f.op # "acquire"
    <2>1. /\ frame'[p].op = f.op /\ frame'[p].lock = l /\ ~At(p, "idle") /\ ~At(p, "done")
          /\ frame'[p].ticket = f.ticket \/ At(p, "add.set")
      BY <1>1, StepFrame, NotReady
    <2>2. StepOK(f.op, f.at, f.ticket, f.items)
      BY <1>1, <2>1, FrameFacts DEF Ready, At
    <2> QED BY <2>1, <2>2 DEF Ready, At, StepOK, AddLabels
  <1>3. call[p].at = f.op /\ l = Current(p) /\ Working(p)
    BY <1>1, <1>2, WaitFacts DEF WaitOK, Ready
  <1>4. Instance # ManagementDB
    <2>1. f.op # "exists"
      BY <1>1 DEF Frames, QueueOps
    <2> QED BY <1>1, <1>3, <2>1 DEF Solo, TableInv, RefusedAtOnce, Working
  <1>5. Mid(p) /\ Serves(p)
    BY <1>1, <1>2, <1>4, StepServes DEF Mid, Taking, MoveInv
  <1>6. /\ Turn(p) = IF f.op = "acquire" /\ Served(f) THEN {l} ELSE {}
        /\ Turn(p)' = IF f.op = "acquire" /\ Served(frame'[p]) THEN {l} ELSE {}
        /\ Asks(p) = IF f.op = "acquire" THEN f.ticket ELSE NoTicket
        /\ Asks(p)' = IF f.op = "acquire" THEN frame'[p].ticket ELSE NoTicket
    <2>1. /\ f.op # "lock"
          /\ Doing(p, "try", "acquire") <=> f.op = "acquire"
          /\ ~Doing(p, "try", "lock")
      BY <1>1, <1>3 DEF Doing, Frames, QueueOps
    <2>2. /\ Doing(p, "try", "acquire")' <=> f.op = "acquire"
          /\ ~Doing(p, "try", "lock")' /\ Current(p)' = l
      BY <1>1, <1>3, <2>1 DEF Doing, Current
    <2> QED BY <1>3, <2>1, <2>2 DEF Turn, Asks
  <1>7. StatusInv'
    BY <1>1, SoloFacts, StatusKept DEF TableMove, StatusInv
  <1>8. Joins(p) => f.op = "schedule" /\ status[l] = "LOCKED"
    BY <1>1, <1>2, <1>3 DEF Joins, At, StepOK, AddLabels, StatusFits, Current
  <1>9. Leaves(p) => f.op = "acquire"
    <2> SUFFICES ASSUME Leaves(p), f.op # "acquire" PROVE FALSE
      OBVIOUS
    <2>1. queue' = queue \/ issued' = issued + 1
      BY <1>1, StepJoins DEF WriteAdded
    <2>2. Own(p) \in DOMAIN queue /\ queue[Own(p)] \in Seq(1..issued) /\ issued \in Nat
      BY <1>5, MidFacts
    <2>3. queue'[Own(p)] = Tail(queue[Own(p)]) /\ queue[Own(p)] # <<>> /\ issued' = issued
      BY <2>2 DEF Leaves
    <2>4. Len(queue'[Own(p)]) # Len(queue[Own(p)])
      BY <2>2, <2>3
    <2> QED BY <2>1, <2>2, <2>3, <2>4
  <1>10. PackageEffect(p)
    <2>1. Asks(p)' = Asks(p)
      BY <1>2, <1>6
    <2>2. f.op = "acquire" => (InFront(p) <=> Foremost(p))
      BY <1>6 DEF InFront, Foremost
    <2>3. Turn(p)' # {} => f.op = "acquire"
      BY <1>6
    <2>4. LeavesInTurn(p) => Leaves(p) /\ f.op = "acquire" /\ Foremost(p)
      BY <1>9, <2>2 DEF LeavesInTurn
    <2> QED BY <1>1, <1>5, <1>6, <1>8, <2>1, <2>2, <2>3, <2>4 DEF PackageEffect, Serves
  <1>11. MoveInv'
    <2> SUFFICES ASSUME NEW q \in Proc PROVE MoveFits(frame'[q], queue'[Own(q)'])
      BY DEF MoveInv
    <2>1. CASE q = p
      BY <1>2, <1>5, <2>1 DEF Serves, Own
    <2>2. CASE q # p /\ Ready(q)
      BY <2>2 DEF Untouched, Ready, MoveFits
    <2>3. CASE q # p /\ ~Ready(q)
      <3>1. frame[q].lock # l /\ frame'[q] = frame[q] /\ Own(q)' = Own(q)
        BY <1>1, <1>2, <2>3 DEF OneCallPerLock, Untouched, Own
      <3>2. Own(q) \in Keys /\ Own(q) # Own(p) /\ Own(q) # HandoffKey(p)
        <4>1. ~At(q, "idle")
          BY <2>3 DEF Ready, At
        <4> QED BY <1>1, <3>1, <4>1, FrameFacts DEF Own, HandoffKey
      <3>3. queue'[Own(q)] = queue[Own(q)]
        BY <1>1, <3>2, StepKeysKept DEF KeysKept
      <3> QED BY <1>1, <3>1, <3>3 DEF MoveInv
    <2> QED BY <2>1, <2>2, <2>3
  <1> QED BY <1>7, <1>10, <1>11

-----------------------------------------------------------------------------
(* The rest of TableInv.                                                   *)

(* A step of a handler leaves the queues alone, and its own frame, if it   *)
(* is another one, out of moveToNextClient.                                *)
LEMMA MoveKept ==
  ASSUME NEW p \in Proc, MoveInv, UNCHANGED queue, \A q \in Proc : q # p => Untouched(q),
         \/ frame' = frame
         \/ frame'[p].at \in {"idle", "add.exists", "pos.exists", "next.exists", "ent.lock", "done"}
  PROVE  MoveInv'
  <1> SUFFICES ASSUME NEW q \in Proc PROVE MoveFits(frame'[q], queue'[Own(q)'])
    BY DEF MoveInv
  <1>1. CASE frame'[q] = frame[q]
    BY <1>1 DEF MoveInv, Own
  <1>2. CASE q = p /\ frame' # frame
    BY <1>2 DEF MoveFits
  <1> QED BY <1>1, <1>2 DEF Untouched

(* The databases stay apart.                                               *)
LEMMA ActApart ==
  ASSUME NEW p \in Proc, ServiceInv, ApartInv, Act(p)
  PROVE  ApartInv'
  <1>1. /\ QueueInv /\ issued \in Nat /\ told \in [Locks -> SUBSET (1..issued)]
        /\ call[p].at \notin {"idle", "done"} => Current(p) \in Locks
    BY CallFacts DEF ServiceInv, TypeOK, QueueInv, QueueTypeOK
  <1>2. ASSUME UNCHANGED <<queue, window, frame>>
        PROVE  ApartInv'
    BY <1>2 DEF ApartInv
  <1>3. CASE \/ \E locks \in Requests :
                  CreateRequest(p, locks) \/ LockRequest(p, locks) \/ UnlockRequest(p, locks)
             \/ CheckExists(p) \/ UnlockReadsStatus(p) \/ CreateWritesPending(p)
             \/ CreateWritesUnlocked(p) \/ WriteLocked(p) \/ HandlerCommandFails(p)
    BY <1>2, <1>3 DEF CreateRequest, LockRequest, UnlockRequest, Receive, CheckExists,
                      UnlockReadsStatus, CreateWritesPending, CreateWritesUnlocked, WriteLocked,
                      HandlerCommandFails, queueVars, redis
  <1>4. ASSUME NEW l \in Locks, NEW t \in told[l], TryAcquireLock(p, l, t)
        PROVE  ApartInv'
    <2>1. t \in 0..issued
      BY <1>1
    <2> QED BY <1>1, <1>4, <2>1, ApartStartInv DEF TryAcquireLock
  <1>5. CASE LockReadsStatus(p) \/ WriteUnlocked(p)
    <2>1. Current(p) \in Locks /\ 0 \in 0..issued
      BY <1>1, <1>5 DEF LockReadsStatus, Doing, WriteUnlocked
    <2> QED BY <1>1, <1>2, <1>5, <2>1, ApartStartInv DEF LockReadsStatus, WriteUnlocked, queueVars
  <1>6. CASE ScheduleReturns(p)
    <2>1. frame[p].lock \in Locks /\ frame[p].ticket \in 0..issued
      <3>1. ~At(p, "idle")
        BY <1>6 DEF ScheduleReturns, At
      <3> QED BY <1>1, <3>1, FrameFacts DEF FrameOK, At
    <2> QED BY <1>1, <1>2, <1>6, <2>1, ApartStartInv DEF ScheduleReturns, queueVars
  <1>7. CASE ReleaseReturns(p) \/ PositionReturns(p) \/ AcquireReturns(p) \/ Respond(p)
    BY <1>1, <1>7, ApartCloseInv
       DEF ReleaseReturns, PositionReturns, AcquireReturns, Respond, redis
  <1>8. CASE PackageStep(p)
    BY <1>1, <1>8, ApartStepInv DEF PackageStep
  <1> QED BY <1>3, <1>4, <1>5, <1>6, <1>7, <1>8 DEF Act, Arrive, HandlerStep

(* Requests for the management instance get no further than their check.   *)
LEMMA ActRefused ==
  ASSUME NEW p \in Proc, ServiceInv, RefusedAtOnce, Instance = ManagementDB, Act(p)
  PROVE  RefusedAtOnce'
  <1>1. /\ call \in [Proc -> Calls] /\ call[p].at \in {"idle", "exists", "done"}
        /\ \A l \in Locks : told[l] = {}
        /\ \A q \in Proc : q # p => Untouched(q)
    BY CallFacts, OthersUntouched DEF RefusedAtOnce
  <1>2. ASSUME call'[p].at \in {"idle", "exists", "done"}, told' = told
        PROVE  RefusedAtOnce'
    BY <1>1, <1>2 DEF RefusedAtOnce, Untouched
  <1>3. ASSUME NEW op, NEW locks, Receive(p, op, locks)
        PROVE  RefusedAtOnce'
    <2> DEFINE c == [IdleCall EXCEPT !.op = op, !.at = "exists", !.todo = locks,
                                     !.late = held \ (IF op = "unlock" THEN Range(locks) ELSE {})]
    <2>1. c.at = "exists"
      BY DEF IdleCall
    <2>2. call'[p] = c /\ told' = told
      BY <1>1, <1>3 DEF Receive
    <2> HIDE DEF c
    <2> QED BY <1>2, <2>1, <2>2
  <1>4. CASE CheckExists(p) \/ HandlerCommandFails(p)
    <2>1. Answer(p, "ok") \/ Answer(p, "error")
      BY <1>4 DEF CheckExists, HandlerCommandFails
    <2> QED BY <1>2, <1>4, <2>1, AnswerKept DEF CheckExists, HandlerCommandFails
  <1>5. CASE Respond(p)
    BY <1>1, <1>2, <1>5 DEF Respond, IdleCall
  <1>6. CASE PackageStep(p)
    BY <1>1, <1>2, <1>6 DEF PackageStep, InPackage
  <1>7. CASE \E locks \in Requests :
               CreateRequest(p, locks) \/ LockRequest(p, locks) \/ UnlockRequest(p, locks)
    BY <1>3, <1>7 DEF CreateRequest, LockRequest, UnlockRequest
  <1> QED BY <1>1, <1>4, <1>5, <1>6, <1>7
          DEF Act, Arrive, HandlerStep, TryAcquireLock, LockReadsStatus, UnlockReadsStatus,
              CreateWritesPending, CreateWritesUnlocked, WriteLocked, WriteUnlocked, ReleaseReturns,
              ScheduleReturns, PositionReturns, AcquireReturns, Doing

LEMMA ActTable ==
  ASSUME NEW p, Solo(p), OneCallerInv, Act(p)
  PROVE  TableInv' /\ OneCallerInv' /\ (HandlerEffect(p) \/ PackageEffect(p))
  <1>1. p \in Proc /\ ServiceInv /\ QueueInv /\ OneCallPerLock /\ MoveInv /\ frame \in [Proc -> Frames]
    BY SoloFacts, CallsApart DEF Solo, QueueInv, QueueTypeOK
  <1>o. \A q \in Proc : q # p => Untouched(q)
    BY OthersUntouched DEF Solo
  <1>2. ApartInv' /\ (Instance = ManagementDB => RefusedAtOnce')
    BY ActApart, ActRefused DEF Solo, TableInv
  <1>3. CASE \/ CheckExists(p) \/ UnlockReadsStatus(p) \/ CreateWritesPending(p)
             \/ CreateWritesUnlocked(p) \/ WriteLocked(p) \/ HandlerCommandFails(p)
             \/ \E locks \in Requests :
                  CreateRequest(p, locks) \/ LockRequest(p, locks) \/ UnlockRequest(p, locks)
    <2>1. StatusInv' /\ HandlerEffect(p) /\ UNCHANGED <<queue, nextUp, window, frame, issued>>
      BY <1>o, <1>3, TableOwn DEF CreateRequest, LockRequest, UnlockRequest
    <2>2. OneCallerInv' /\ MoveInv'
      BY <1>1, <1>o, <2>1, MoveKept DEF OneCallerInv, Own, HandoffKey
    <2> QED BY <1>2, <2>1, <2>2 DEF TableInv
  <1>4. CASE \/ LockReadsStatus(p) \/ WriteUnlocked(p) \/ ScheduleReturns(p)
             \/ \E l \in Locks : \E t \in told[l] : TryAcquireLock(p, l, t)
    <2>1. StatusInv' /\ HandlerEffect(p)
      BY <1>o, <1>4, TableCalls
    <2>2. CASE UNCHANGED queueVars
      <3>1. OneCallerInv' /\ MoveInv'
        BY <1>1, <1>o, <2>2, MoveKept DEF OneCallerInv, Own, HandoffKey, queueVars
      <3> QED BY <1>2, <2>1, <3>1 DEF TableInv
    <2>3. CASE \/ \E l : StartSchedule(p, l) \/ StartRelease(p, l)
               \/ \E l, t : StartPosition(p, l, t) \/ StartAcquire(p, l, t)
      <3>1. OneCallerInv' /\ MoveInv'
        BY <1>1, <1>o, <2>3, StartLine, OpensQuietly, MoveKept DEF Solo, SameQueues
      <3> QED BY <1>2, <2>1, <3>1 DEF TableInv
    <2> QED BY <1>4, <2>2, <2>3 DEF LockReadsStatus, WriteUnlocked, ScheduleReturns, TryAcquireLock
  <1>5. CASE ReleaseReturns(p) \/ PositionReturns(p) \/ AcquireReturns(p) \/ Respond(p)
    <2>1. StatusInv' /\ HandlerEffect(p)
      BY <1>o, <1>5, TableReturns
    <2>2. Close(p) /\ UNCHANGED <<redis, issued>>
      BY <1>5 DEF ReleaseReturns, PositionReturns, AcquireReturns, Respond
    <2>3. frame'[p].at = "idle" /\ UNCHANGED queue
      BY <1>1, <2>2 DEF Close, IdleFrame, redis
    <2>4. OneCallerInv' /\ MoveInv'
      BY <1>1, <1>o, <2>2, <2>3, StartLine, MoveKept DEF Solo
    <2> QED BY <1>2, <2>1, <2>4 DEF TableInv
  <1>6. CASE PackageStep(p)
    <2>1. OneCallerInv'
      BY <1>1, <1>6, StepLine DEF PackageStep
    <2> QED BY <1>2, <1>o, <1>6, <2>1, TablePackage DEF TableInv
  <1> QED BY <1>3, <1>4, <1>5, <1>6 DEF Act, Arrive, HandlerStep

(* The whole step relation keeps both invariants.  A crash leaves nobody   *)
(* with a request, let alone a turn.                                       *)
CrashEffect ==
  /\ faults' = faults + 1 /\ UNCHANGED status /\ SameQueues
  /\ \A q \in Proc : call'[q].won = {} /\ Turn(q)' = {} /\ Asks(q)' = NoTicket

RestEffect == UNCHANGED <<status, call, frame, faults>> /\ SameQueues

LEMMA NextTable ==
  ASSUME ServiceInv, TableInv, OneRequestPerLock, OneCallerInv, [Next]_vars
  PROVE  /\ TableInv' /\ OneCallerInv'
         /\ \/ \E p \in Proc : (HandlerEffect(p) \/ PackageEffect(p))
                                 /\ \A q \in Proc : q # p => Untouched(q)
            \/ CrashEffect \/ RestEffect
  <1>1. ASSUME NEW p \in Proc, Act(p)
        PROVE  /\ TableInv' /\ OneCallerInv' /\ (HandlerEffect(p) \/ PackageEffect(p))
               /\ \A q \in Proc : q # p => Untouched(q)
    BY <1>1, ActTable, OthersUntouched DEF Solo
  <1>2. CASE ServerCrash
    <2>1. /\ \A q \in Proc : /\ call'[q].at = "idle" /\ call'[q].won = {}
                             /\ frame'[q].at = "idle"
          /\ faults' = faults + 1 /\ UNCHANGED <<status, told>>
      BY <1>2 DEF ServerCrash, QueueCrash, Fails, IdleCall, IdleFrame
    <2>2. \A q \in Proc : StatusFits(call'[q], status')
      BY <2>1, FreshStatus DEF Fresh
    <2>3. OneCallerInv' /\ SameQueues
      BY <1>2, EnvironmentLine DEF ServerCrash, SameQueues
    <2>4. ApartInv'
      BY <1>2, ApartEnvironmentInv DEF ServerCrash, ServiceInv, TableInv
    <2>5. StatusInv' /\ MoveInv' /\ (Instance = ManagementDB => RefusedAtOnce')
      BY <2>1, <2>2 DEF StatusInv, MoveInv, MoveFits, RefusedAtOnce, TableInv
    <2>6. \A q \in Proc : Turn(q)' = {} /\ Asks(q)' = NoTicket
      BY <2>1 DEF Turn, Asks, Doing
    <2> QED BY <2>1, <2>3, <2>4, <2>5, <2>6 DEF TableInv, CrashEffect
  <1>3. CASE ClockTick \/ UNCHANGED vars
    <2>1. /\ UNCHANGED <<status, call, told, frame, faults>> /\ SameQueues
          /\ Tick \/ UNCHANGED queueVars
      BY <1>3 DEF ClockTick, Tick, vars, queueVars, redis, SameQueues
    <2>2. OneCallerInv' /\ ApartInv'
      BY <2>1, EnvironmentLine, ApartEnvironmentInv DEF ServiceInv, TableInv
    <2>3. TableInv'
      BY <2>1, <2>2 DEF TableInv, StatusInv, MoveInv, RefusedAtOnce, SameQueues, Own
    <2> QED BY <2>1, <2>2, <2>3 DEF RestEffect
  <1> QED BY <1>1, <1>2, <1>3 DEF Next

LEMMA TableInit == Init => Table!Init /\ TableInv /\ OneCallerInv
  <1> SUFFICES ASSUME Init PROVE Table!Init /\ TableInv /\ OneCallerInv
    OBVIOUS
  <1>1. /\ \A p \in Proc : /\ call[p].at = "idle" /\ call[p].won = {} /\ Turn(p) = {}
                           /\ Asks(p) = NoTicket /\ frame[p].at = "idle"
        /\ \A l \in Locks : told[l] = {} /\ queue[<<Instance, l>>] = <<>>
    BY DEF Init, QueueInit, IdleCall, IdleFrame, Turn, Asks, Doing, Keys
  <1>2. Table!Init /\ OneCallerInv /\ ApartInv
    BY <1>1, InitLine, ApartInitInv DEF Init, QueueInit, NoTicket, Table!Init
  <1>3. \A p \in Proc : StatusFits(call[p], status)
    BY <1>1, FreshStatus DEF Fresh
  <1> QED BY <1>1, <1>2, <1>3 DEF TableInv, StatusInv, MoveInv, MoveFits, RefusedAtOnce

-----------------------------------------------------------------------------
(* What a request does is a step of the table.                             *)
LineOf == [l \in Locks |-> queue[<<Instance, l>>]]
WonOf == [p \in Proc |-> call[p].won]
TurnOf == [p \in Proc |-> Turn(p)]
AsksOf == [p \in Proc |-> Asks(p)]

LEMMA QueuesOfTheTable ==
  ASSUME NEW p, Mid(p), NEW q, queue' = [queue EXCEPT ![Own(p)] = q]
  PROVE  /\ frame[p].lock \in Locks /\ LineOf[frame[p].lock] = queue[Own(p)]
         /\ LineOf' = [LineOf EXCEPT ![frame[p].lock] = q]
  <1>1. /\ Own(p) = <<Instance, frame[p].lock>> /\ Own(p) \in Keys /\ frame[p].lock \in Locks
        /\ DOMAIN queue = Keys
    BY MidFacts DEF Own, Keys
  <1>2. \A m \in Locks : <<Instance, m>> \in Keys /\ (<<Instance, m>> = Own(p) <=> m = frame[p].lock)
    BY <1>1 DEF Keys
  <1> QED BY <1>1, <1>2 DEF LineOf

LEMMA ClientsOfTheTable ==
  ASSUME NEW p \in Proc, \A q \in Proc : q # p => Untouched(q)
  PROVE  /\ WonOf[p] = call[p].won /\ WonOf' = [WonOf EXCEPT ![p] = call'[p].won]
         /\ TurnOf[p] = Turn(p) /\ TurnOf' = [TurnOf EXCEPT ![p] = Turn(p)']
         /\ AsksOf[p] = Asks(p) /\ AsksOf' = [AsksOf EXCEPT ![p] = Asks(p)']
  <1>1. \A q \in Proc : q # p =>
          call'[q].won = call[q].won /\ Turn(q)' = Turn(q) /\ Asks(q)' = Asks(q)
    BY DEF Untouched, Turn, Asks, Doing, Current
  <1> QED BY <1>1 DEF WonOf, TurnOf, AsksOf

(* A join and a leave of the package are one of the line.                  *)
LEMMA JoinOfTheTable ==
  ASSUME NEW p, Mid(p), Joins(p), status[frame[p].lock] = "LOCKED", UNCHANGED status
  PROVE  \E l \in Locks : Table!Joined(l)
  <1>1. PICK l \in Locks : l = frame[p].lock
    BY QueuesOfTheTable DEF Joins
  <1>2. /\ LineOf[l] = queue[Own(p)] /\ issued' = issued + 1
        /\ LineOf' = [LineOf EXCEPT ![l] = Append(queue[Own(p)], issued')]
    BY <1>1, QueuesOfTheTable DEF Joins
  <1>3. LineOf' = [LineOf EXCEPT ![l] = Append(LineOf[l], issued')] /\ status[l] = "LOCKED"
    BY <1>1, <1>2
  <1>4. Table!Joined(l)
    BY <1>2, <1>3 DEF Table!Joined, LineOf
  <1> QED BY <1>4

LEMMA LeaveOfTheTable ==
  ASSUME NEW p, Mid(p), p \in Proc, Leaves(p), Foremost(p), UNCHANGED status
  PROVE  \E l \in Locks : l = frame[p].lock /\ Table!Left(p, l)
  <1>1. PICK l \in Locks : l = frame[p].lock
    BY QueuesOfTheTable DEF Leaves
  <1>2. /\ LineOf[l] = queue[Own(p)] /\ queue[Own(p)] # <<>> /\ issued' = issued
        /\ LineOf' = [LineOf EXCEPT ![l] = Tail(queue[Own(p)])]
    BY <1>1, QueuesOfTheTable DEF Leaves
  <1>3. /\ LineOf' = [LineOf EXCEPT ![l] = Tail(LineOf[l])] /\ LineOf[l] # <<>>
        /\ Head(LineOf[l]) = AsksOf[p]
    BY <1>2 DEF Foremost, AsksOf
  <1>4. Table!Left(p, l)
    BY <1>2, <1>3 DEF Table!Left, Table!InFront, LineOf, AsksOf
  <1> QED BY <1>1, <1>4

(* A write of a handler is one of the table, and leaves the lines alone.   *)
LEMMA StatusOfTheTable ==
  ASSUME NEW p, Solo(p), SameQueues
  PROVE  /\ LineOf' = LineOf /\ issued' = issued
         /\ Frees(p) => \E l \in Locks : Table!Created(l) \/ Table!Freed(l)
         /\ Takes(p) => \E l \in Locks : l = Current(p) /\ Table!Taken(p, l)
  <1>1. LineOf' = LineOf /\ issued' = issued
    BY DEF SameQueues, LineOf
  <1>2. Working(p) => Current(p) \in Locks
    BY SoloFacts DEF Working
  <1>3. Frees(p) => \E l \in Locks : Table!Created(l) \/ Table!Freed(l)
    BY <1>1, <1>2 DEF Frees, Becomes, Table!Created, Table!Freed, Table!Becomes, LineOf
  <1>4. ASSUME Takes(p)
        PROVE  \E l \in Locks : l = Current(p) /\ Table!Taken(p, l)
    <2>1. PICK l \in Locks : l = Current(p)
      BY <1>2, <1>4 DEF Takes
    <2>2. p \in Proc
      BY DEF Solo
    <2>3. Table!Taken(p, l)
      BY <1>1, <1>4, <2>1, <2>2 DEF Takes, Becomes, Table!Taken, Table!Becomes, LineOf
    <2> QED BY <2>1, <2>3
  <1> QED BY <1>1, <1>3, <1>4

TableStutters == UNCHANGED <<status, LineOf, issued, AsksOf, TurnOf, WonOf, faults>>

LEMMA HandlerOfTheTable ==
  ASSUME NEW p, Solo(p), HandlerEffect(p), \A q \in Proc : q # p => Untouched(q)
  PROVE  Table!Next \/ TableStutters
  <1>1. /\ p \in Proc
        /\ WonOf[p] = call[p].won /\ WonOf' = [WonOf EXCEPT ![p] = call'[p].won]
        /\ TurnOf[p] = Turn(p) /\ TurnOf' = [TurnOf EXCEPT ![p] = Turn(p)']
        /\ AsksOf[p] = Asks(p) /\ AsksOf' = [AsksOf EXCEPT ![p] = Asks(p)']
        /\ DOMAIN WonOf = Proc /\ DOMAIN TurnOf = Proc /\ DOMAIN AsksOf = Proc
    BY ClientsOfTheTable DEF Solo, WonOf, TurnOf, AsksOf
  <1>2. /\ call'[p].won = call[p].won => WonOf' = WonOf
        /\ Turn(p)' = Turn(p) => TurnOf' = TurnOf
        /\ Asks(p)' = Asks(p) => AsksOf' = AsksOf
    <2>1. call'[p].won = call[p].won => WonOf' = WonOf
      BY <1>1 DEF WonOf
    <2>2. Turn(p)' = Turn(p) => TurnOf' = TurnOf
      BY <1>1 DEF TurnOf
    <2>3. Asks(p)' = Asks(p) => AsksOf' = AsksOf
      BY <1>1 DEF AsksOf
    <2> QED BY <2>1, <2>2, <2>3
  <1>3. CASE Pauses(p)
    <2>1. UNCHANGED <<status, LineOf, issued, TurnOf, AsksOf, faults>>
      BY <1>2, <1>3, StatusOfTheTable DEF Pauses
    <2>2. CASE call'[p].won = call[p].won
      BY <1>2, <2>1, <2>2 DEF TableStutters
    <2>3. CASE call'[p].won = {}
      <3>1. WonOf' = [WonOf EXCEPT ![p] = {}]
        BY <1>1, <2>3
      <3>2. Table!Answered(p)
        BY <2>1, <3>1 DEF Table!Answered, LineOf, WonOf, TurnOf, AsksOf
      <3> QED BY <1>1, <3>2 DEF Table!Next
    <2> QED BY <1>3, <2>2, <2>3 DEF Pauses
  <1>a. CASE AsksFor(p)
    <2>1. PICK t \in 1..issued : AsksOf' = [AsksOf EXCEPT ![p] = t]
      BY <1>1, <1>a DEF AsksFor
    <2>2. /\ AsksOf[p] = 0 /\ WonOf' = [WonOf EXCEPT ![p] = {}]
          /\ UNCHANGED <<status, LineOf, issued, TurnOf, faults>>
      BY <1>1, <1>2, <1>a, StatusOfTheTable DEF AsksFor, NoTicket
    <2>3. Table!Ask(p)
      BY <2>1, <2>2 DEF Table!Ask, LineOf, WonOf, TurnOf, AsksOf
    <2> QED BY <1>1, <2>3 DEF Table!Next
  <1>b. CASE StopsAsking(p)
    <2>1. /\ AsksOf' = [AsksOf EXCEPT ![p] = 0]
          /\ UNCHANGED <<status, LineOf, issued, TurnOf, WonOf, faults>>
      BY <1>1, <1>2, <1>b, StatusOfTheTable DEF StopsAsking, NoTicket
    <2>2. Table!Told(p)
      BY <2>1 DEF Table!Told, LineOf, WonOf, TurnOf, AsksOf
    <2> QED BY <1>1, <2>2 DEF Table!Next
  <1>4. CASE Does(p)
    <2>1. CASE Frees(p) /\ SameClient(p)
      <3>1. UNCHANGED <<WonOf, TurnOf, AsksOf, faults>>
        BY <1>2, <1>4, <2>1 DEF Does, SameClient
      <3>2. \E l \in Locks : Table!Created(l) \/ Table!Freed(l)
        BY <1>4, <2>1, StatusOfTheTable DEF Does
      <3> QED BY <3>1, <3>2 DEF Table!Next, Table!Create, Table!MakeFree, WonOf, TurnOf, AsksOf
    <2>2. CASE /\ Takes(p) /\ call'[p].won = call[p].won \cup {Current(p)}
               /\ Turn(p)' = {} /\ Asks(p)' = Asks(p)
      <3>1. PICK l \in Locks : l = Current(p) /\ Table!Taken(p, l)
        BY <1>4, <2>2, StatusOfTheTable DEF Does
      <3>2. /\ WonOf' = [WonOf EXCEPT ![p] = WonOf[p] \cup {l}]
            /\ TurnOf' = [TurnOf EXCEPT ![p] = {}] /\ UNCHANGED <<AsksOf, faults>>
        BY <1>1, <1>2, <1>4, <2>2, <3>1 DEF Does
      <3>3. Table!Grant(p, l)
        BY <1>1, <3>1, <3>2 DEF Table!Grant, WonOf, TurnOf, AsksOf
      <3> QED BY <1>1, <3>3 DEF Table!Next
    <2> QED BY <1>4, <2>1, <2>2 DEF Does
  <1>5. CASE Breaks(p)
    <2>1. /\ faults' = faults + 1 /\ UNCHANGED <<WonOf, AsksOf>>
          /\ TurnOf' = [TurnOf EXCEPT ![p] = {}]
      BY <1>1, <1>2, <1>5 DEF Breaks
    <2>2. \/ UNCHANGED <<status, LineOf, issued>>
          \/ \E l \in Locks : Table!Created(l) \/ Table!Freed(l) \/ Table!Taken(p, l)
      BY <1>5, StatusOfTheTable DEF Breaks, TableMove
    <2>3. Table!Fails(p)
      BY <2>1, <2>2 DEF Table!Fails, LineOf, WonOf, TurnOf, AsksOf
    <2> QED BY <1>1, <2>3 DEF Table!Next
  <1> QED BY <1>3, <1>a, <1>b, <1>4, <1>5 DEF HandlerEffect

LEMMA PackageOfTheTable ==
  ASSUME NEW p, Solo(p), PackageEffect(p), \A q \in Proc : q # p => Untouched(q)
  PROVE  Table!Next \/ TableStutters
  <1> DEFINE l == frame[p].lock
  <1>1. /\ p \in Proc /\ Mid(p) /\ UNCHANGED <<status, call>>
        /\ TurnOf[p] = Turn(p) /\ TurnOf' = [TurnOf EXCEPT ![p] = Turn(p)']
        /\ AsksOf' = [AsksOf EXCEPT ![p] = Asks(p)] /\ AsksOf[p] = Asks(p)
    BY ClientsOfTheTable DEF PackageEffect, Solo
  <1>2. WonOf' = WonOf /\ AsksOf' = AsksOf /\ (Turn(p)' = Turn(p) => TurnOf' = TurnOf)
    BY <1>1 DEF WonOf, TurnOf, AsksOf
  <1>3. SameQueues => UNCHANGED <<LineOf, issued>>
    BY StatusOfTheTable
  <1>4. CASE UNCHANGED faults /\ SameQueues /\ Turn(p)' = Turn(p)
    BY <1>1, <1>2, <1>3, <1>4 DEF TableStutters
  <1>5. CASE UNCHANGED faults /\ Joins(p) /\ status[l] = "LOCKED" /\ Turn(p)' = Turn(p)
    <2>1. \E k \in Locks : Table!Joined(k)
      BY <1>1, <1>5, JoinOfTheTable
    <2>2. UNCHANGED <<WonOf, TurnOf, AsksOf, faults>>
      BY <1>2, <1>5
    <2> QED BY <2>1, <2>2 DEF Table!Next, Table!Join, WonOf, TurnOf, AsksOf
  <1>6. CASE /\ UNCHANGED faults /\ Leaves(p) /\ Foremost(p)
             /\ Turn(p)' \in {{}, {l}} /\ (HandoffConfigured => Turn(p)' = {l})
    <2>1. PICK k \in Locks : k = l /\ Table!Left(p, k)
      BY <1>1, <1>6, LeaveOfTheTable
    <2>2. /\ UNCHANGED <<WonOf, AsksOf, faults>>
          /\ \E got \in {{}, {k}} : /\ HandoffConfigured => got = {k}
                                    /\ TurnOf' = [TurnOf EXCEPT ![p] = got]
      BY <1>1, <1>2, <1>6, <2>1
    <2>3. Table!Leave(p, k)
      BY <2>1, <2>2 DEF Table!Leave, WonOf, TurnOf, AsksOf
    <2> QED BY <1>1, <2>3 DEF Table!Next
  <1>7. CASE /\ faults' = faults + 1 /\ Turn(p)' = {}
             /\ SameQueues \/ (Joins(p) /\ status[l] = "LOCKED") \/ (Leaves(p) /\ Foremost(p))
    <2>1. \/ UNCHANGED <<status, LineOf, issued>>
          \/ \E k \in Locks : Table!Joined(k) \/ Table!Left(p, k)
      <3>1. CASE SameQueues
        BY <1>1, <1>3, <3>1
      <3>2. CASE Joins(p) /\ status[l] = "LOCKED"
        BY <1>1, <3>2, JoinOfTheTable
      <3>3. CASE Leaves(p) /\ Foremost(p)
        BY <1>1, <3>3, LeaveOfTheTable
      <3> QED BY <1>7, <3>1, <3>2, <3>3
    <2>2. faults' = faults + 1 /\ TurnOf' = [TurnOf EXCEPT ![p] = {}]
      BY <1>1, <1>7
    <2>3. Table!Fails(p)
      BY <1>2, <2>1, <2>2 DEF Table!Fails, LineOf, WonOf, TurnOf, AsksOf
    <2> QED BY <1>1, <2>3 DEF Table!Next
  <1>8. CASE /\ faults' = faults + 1 /\ SameQueues
             /\ Turn(p)' = Turn(p) \/ (Foremost(p) /\ Turn(p)' = {l})
    <2>1. PICK k \in Locks : k = l /\ LineOf[k] = queue[Own(p)]
      BY <1>1, MidFacts DEF LineOf, Own, Keys
    <2>2. \/ UNCHANGED TurnOf
          \/ /\ LineOf[k] # <<>> /\ Head(LineOf[k]) = AsksOf[p]
             /\ TurnOf' = [TurnOf EXCEPT ![p] = {k}]
      BY <1>1, <1>2, <1>8, <2>1 DEF Foremost
    <2>3. faults' = faults + 1 /\ UNCHANGED <<status, LineOf, issued, WonOf, AsksOf>>
      BY <1>1, <1>2, <1>3, <1>8
    <2>4. Table!GoesOnAfterError(p)
      BY <2>2, <2>3 DEF Table!GoesOnAfterError, Table!InFront, LineOf, WonOf, TurnOf, AsksOf
    <2> QED BY <1>1, <2>4 DEF Table!Next
  <1> QED BY <1>4, <1>5, <1>6, <1>7, <1>8 DEF PackageEffect

LEMMA TableStep ==
  ASSUME ServiceInv, TableInv, OneRequestPerLock, OneCallerInv, [Next]_vars
  PROVE  [Table!Next]_<<status, LineOf, issued, AsksOf, TurnOf, WonOf, faults>>
  <1>1. ASSUME NEW p \in Proc, HandlerEffect(p) \/ PackageEffect(p),
               \A q \in Proc : q # p => Untouched(q)
        PROVE  Table!Next \/ TableStutters
    BY <1>1, HandlerOfTheTable, PackageOfTheTable DEF Solo
  <1>2. CASE CrashEffect
    <2>1. /\ faults' = faults + 1 /\ UNCHANGED <<status, LineOf, issued>>
          /\ WonOf' = [p \in Proc |-> {}] /\ TurnOf' = [p \in Proc |-> {}]
          /\ AsksOf' = [p \in Proc |-> 0]
      BY <1>2 DEF CrashEffect, SameQueues, LineOf, WonOf, TurnOf, AsksOf, NoTicket
    <2>2. Table!Crash
      BY <2>1 DEF Table!Crash, LineOf, WonOf, TurnOf, AsksOf
    <2> QED BY <2>2 DEF Table!Next
  <1>3. CASE RestEffect
    BY <1>3 DEF RestEffect, SameQueues, LineOf, WonOf, TurnOf, Turn, AsksOf, Asks, Doing, Current
  <1> QED BY <1>1, <1>2, <1>3, NextTable DEF TableStutters

(* SerialSpec is Spec with requests kept apart.                            *)
LEMMA SerialRequests == SerialSpec => Spec /\ []OneRequestPerLock
  <1>1. Init => OneRequestPerLock
    BY DEF Init, IdleCall, OneRequestPerLock, Working
  <1>2. OneRequestPerLock /\ [Next /\ StaysInTurn]_vars => OneRequestPerLock'
    BY DEF StaysInTurn, OneRequestPerLock, Working, Current, vars
  <1>3. [Next /\ StaysInTurn]_vars => [Next]_vars
    OBVIOUS
  <1> QED BY <1>1, <1>2, <1>3, PTL DEF SerialSpec, Spec

(* Requests that do not overlap on a lock see a table of locks with their  *)
(* lines, for any number of goroutines, locks and lists, and whatever      *)
(* fails or dies.  A lock is created once.  A Lock is granted it only      *)
(* while it is free.  A TryAcquireLock is granted it, free or in use, only *)
(* after this very request found the queue id it came with at the front of *)
(* the line and took it out, and nobody leaves a line otherwise.  Only a   *)
(* lock in use makes a client wait.  Beyond that there is what a failed    *)
(* command or a crash did, one step for each of them.  Requests at other   *)
(* locks may run at the same time.                                         *)
THEOREM RequestsInTurnKeepTheTable == SerialSpec => ImplementsLockTable
  <1>1. ServiceInv /\ TableInv /\ OneRequestPerLock /\ OneCallerInv /\ [Next]_vars
          => TableInv' /\ OneCallerInv'
    BY NextTable
  <1>2. ServiceInv /\ TableInv /\ OneRequestPerLock /\ OneCallerInv /\ [Next]_vars
          => [Table!Next]_<<status, LineOf, issued, AsksOf, TurnOf, WonOf, faults>>
    BY TableStep
  <1> QED BY <1>1, <1>2, TableInit, SerialRequests, ServiceInvariant, PTL
          DEF Spec, ImplementsLockTable, Table!Spec, LineOf, WonOf, TurnOf, AsksOf

(* A single goroutine always keeps its requests apart.                     *)
COROLLARY OneRequestKeepsTheTable ==
  ASSUME NEW p, Proc = {p}
  PROVE  Spec => ImplementsLockTable
  <1>1. [Next]_vars => [Next /\ StaysInTurn]_vars
    BY DEF StaysInTurn, OneRequestPerLock
  <1>2. Spec => SerialSpec
    BY <1>1, PTL DEF SerialSpec, Spec
  <1> QED BY <1>2, RequestsInTurnKeepTheTable
=============================================================================
