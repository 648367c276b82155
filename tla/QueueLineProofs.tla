-------------------------- MODULE QueueLineProofs --------------------------
(***************************************************************************)
(* What the package queueManager does to its queues when calls for one     *)
(* lock do not overlap, whichever command fails and whenever the process   *)
(* dies: every step is a client joining at the end, the one at the front   *)
(* leaving, or leaves the queues alone.  OneCallerInv is the inductive     *)
(* invariant: the lists the goroutines have read are the queues, and the   *)
(* client in ":qn" is not in a queue behind another one.                   *)
(***************************************************************************)
EXTENDS QueueManagerProofs

(* The conditions of a step in the middle of a call.                       *)
Mid(p) == p \in Proc /\ QueueInv /\ OneCallerInv /\ ~Ready(p)

LEMMA MidFacts ==
  ASSUME NEW p, Mid(p)
  PROVE  /\ p \in Proc /\ Own(p) \in Keys /\ HandoffKey(p) \in Keys
         /\ ReadsFit(frame[p], queue[Own(p)], nextUp[Own(p)], queue[HandoffKey(p)])
         /\ frame \in [Proc -> Frames] /\ frame[p] \in Frames
         /\ StepOK(frame[p].op, frame[p].at, frame[p].ticket, frame[p].items)
         /\ DOMAIN queue = Keys /\ DOMAIN nextUp = Keys /\ issued \in Nat
         /\ \A k \in Keys : /\ queue[k] \in Seq(1..issued) /\ Increasing(queue[k])
                            /\ nextUp[k] \in 0..issued /\ HeadNext(queue[k], nextUp[k])
  <1>1. p \in Proc /\ QueueInv /\ OneCallerInv /\ ~At(p, "idle")
    BY DEF Mid, Ready, At
  <1>2. frame \in [Proc -> Frames] /\ nextUp \in [Keys -> 0..issued] /\ DOMAIN queue = Keys
    BY <1>1 DEF QueueInv, QueueTypeOK
  <1> QED BY <1>1, <1>2, FrameFacts DEF OneCallerInv

-----------------------------------------------------------------------------
(* Who is next when the list changes.                                      *)

(* A client that joins gets a new queue id, which is in no ":qn" key.      *)
LEMMA AppendHeadNext ==
  ASSUME NEW n \in Nat, NEW q \in Seq(1..n), NEW t \in 0..n, HeadNext(q, t)
  PROVE  HeadNext(Append(q, n + 1), t)
  <1> SUFFICES ASSUME t \in Range(Append(q, n + 1)) PROVE t = Head(Append(q, n + 1))
    BY DEF HeadNext
  <1>1. PICK i \in 1..(Len(q) + 1) : t = Append(q, n + 1)[i]
    BY DEF Range
  <1>2. i \in 1..Len(q) /\ t = q[i]
    BY <1>1
  <1>3. t \in Range(q) /\ q # <<>>
    BY <1>2 DEF Range
  <1>4. Head(Append(q, n + 1)) = Head(q)
    BY <1>3
  <1> QED BY <1>3, <1>4 DEF HeadNext

(* A client that leaves the front is no longer in the queue.               *)
LEMMA TailHeadNext ==
  ASSUME NEW n \in Nat, NEW q \in Seq(1..n), Increasing(q), q # <<>>, NEW t, HeadNext(q, t)
  PROVE  HeadNext(Tail(q), t)
  <1> SUFFICES ASSUME t \in Range(Tail(q)) PROVE FALSE
    BY DEF HeadNext
  <1>1. PICK i \in 1..(Len(q) - 1) : t = Tail(q)[i]
    BY DEF Range
  <1>2. i + 1 \in 1..Len(q) /\ t = q[i + 1] /\ 1 \in 1..Len(q)
    BY <1>1
  <1>3. t \in Range(q)
    BY <1>2 DEF Range
  <1>4. t = q[1]
    BY <1>3 DEF HeadNext
  <1>5. q[1] < q[i + 1] /\ q[1] \in Nat
    BY <1>1, <1>2 DEF Increasing
  <1> QED BY <1>2, <1>4, <1>5

(* Nobody is next in an empty queue, and no ":qn" key means nobody is.     *)
LEMMA NobodyNext ==
  ASSUME NEW n \in Nat, NEW q \in Seq(1..n), NEW t, q = <<>> \/ t = NoTicket \/ t = Head(q)
  PROVE  HeadNext(q, t)
  <1>1. \A x \in Range(q) : x \in 1..n
    BY DEF Range
  <1>2. q = <<>> => Range(q) = {}
    BY DEF Range
  <1> QED BY <1>1, <1>2 DEF HeadNext, NoTicket

(* removeFromQueue finds a client that is first in the list at its front,  *)
(* and cuts it off there.                                                  *)
LEMMA IndexOfFirst ==
  ASSUME NEW n \in Nat, NEW q \in Seq(1..n), Increasing(q), q # <<>>
  PROVE  Index(q, Head(q)) = 1
  <1>1. Len(q) \in Nat /\ 1 \in 1..Len(q) /\ q[1] = Head(q) /\ \A i \in 1..Len(q) : q[i] \in Nat
    OBVIOUS
  <1>2. \A i \in 1..Len(q) : q[i] = Head(q) => i = 1
    BY <1>1 DEF Increasing
  <1>3. Index(q, Head(q)) = 1
    BY <1>1, <1>2 DEF Index
  <1> QED BY <1>3

LEMMA RemoveAtFront ==
  ASSUME NEW n \in Nat, NEW q \in Seq(1..n), q # <<>>
  PROVE  RemoveAt(q, 1) = Tail(q)
  <1>1. Tail(q) \in Seq(1..n) /\ Len(q) \in Nat /\ 1 \in 1..Len(q)
    OBVIOUS
  <1>2. RemoveAt(q, 1) = SubSeq(q, 1, 0) \o SubSeq(q, 2, Len(q))
    BY DEF RemoveAt
  <1>3. SubSeq(q, 1, 0) = <<>> /\ SubSeq(q, 2, Len(q)) = Tail(q)
    BY <1>1
  <1>4. <<>> \o Tail(q) = Tail(q)
    BY <1>1, ConcatEmptySeq
  <1> QED BY <1>2, <1>3, <1>4

LEMMA RemovesTheFront ==
  ASSUME NEW n \in Nat, NEW q \in Seq(1..n), Increasing(q), q # <<>>
  PROVE  RemoveAt(q, Index(q, Head(q))) = Tail(q)
  BY IndexOfFirst, RemoveAtFront

-----------------------------------------------------------------------------
(* What a step has to leave.                                               *)
NextFits == \A k \in Keys : HeadNext(queue[k], nextUp[k])

(* p's frame still fits the keys of its lock, and ":qn" every queue.       *)
LineKept(p) ==
  /\ frame' = [frame EXCEPT ![p] = frame'[p]]
  /\ frame'[p].lock = frame[p].lock
  /\ NextFits'
  /\ ReadsFit(frame'[p], queue'[Own(p)], nextUp'[Own(p)], queue'[HandoffKey(p)])

(* The keys of other locks are left alone.                                 *)
KeysKept(p) ==
  \A k \in Keys : k # Own(p) /\ k # HandoffKey(p) =>
    queue'[k] = queue[k] /\ nextUp'[k] = nextUp[k]

(* A frame at rest has read nothing.                                       *)
LEMMA RestingFits ==
  ASSUME NEW f, f.at \in {"idle", "done"}, NEW q, NEW n, NEW h
  PROVE  ReadsFit(f, q, n, h)
  BY DEF ReadsFit, ReadLabels, TurnKnown, RemoveLabels

(* Then what the goroutines at other locks have read is still so.          *)
LEMMA LineStays ==
  ASSUME NEW p, Mid(p), OneCallPerLock, LineKept(p), KeysKept(p)
  PROVE  OneCallerInv'
  <1> SUFFICES ASSUME NEW q \in Proc
               PROVE  ReadsFit(frame'[q], queue'[Own(q)'], nextUp'[Own(q)'], queue'[HandoffKey(q)'])
    BY DEF OneCallerInv, LineKept, NextFits
  <1>1. p \in Proc /\ frame \in [Proc -> Frames]
    BY MidFacts
  <1>2. CASE q = p
    <2>1. Own(p)' = Own(p) /\ HandoffKey(p)' = HandoffKey(p)
      BY DEF Own, HandoffKey, LineKept
    <2> QED BY <1>2, <2>1 DEF LineKept
  <1>3. CASE q # p /\ Ready(q)
    <2>1. frame'[q].at \in {"idle", "done"}
      BY <1>1, <1>3 DEF LineKept, Ready
    <2> QED BY <2>1, RestingFits
  <1>4. CASE q # p /\ ~Ready(q)
    <2>1. frame'[q] = frame[q] /\ Own(q)' = Own(q) /\ HandoffKey(q)' = HandoffKey(q)
      BY <1>1, <1>4 DEF LineKept, Own, HandoffKey
    <2>2. Mid(q)
      BY <1>4 DEF Mid
    <2>3. frame[q].lock # frame[p].lock
      BY <1>4 DEF OneCallPerLock, Mid
    <2>4. /\ Own(q) \in Keys /\ HandoffKey(q) \in Keys
          /\ {Own(q), HandoffKey(q)} \cap {Own(p), HandoffKey(p)} = {}
      BY <2>2, <2>3, MidFacts DEF Own, HandoffKey
    <2>5. /\ ReadsFit(frame[q], queue[Own(q)], nextUp[Own(q)], queue[HandoffKey(q)])
      BY <2>2, MidFacts
    <2> QED BY <2>1, <2>4, <2>5 DEF KeysKept
  <1> QED BY <1>2, <1>3, <1>4

(* A call that returns has no list any more ...                            *)
LEMMA LineReturn ==
  ASSUME NEW p, Mid(p), NEW r, Return(p, r), NextFits'
  PROVE  LineKept(p)
  <1>1. frame \in [Proc -> Frames] /\ frame[p] \in Frames /\ p \in Proc
    BY MidFacts
  <1>2. /\ frame' = [frame EXCEPT ![p] = frame'[p]]
        /\ frame'[p].at = "done" /\ frame'[p].lock = frame[p].lock
    BY <1>1 DEF Return, Frames
  <1>3. ReadsFit(frame'[p], queue'[Own(p)], nextUp'[Own(p)], queue'[HandoffKey(p)])
    BY <1>2 DEF ReadsFit, ReadLabels, TurnKnown, RemoveLabels
  <1> QED BY <1>2, <1>3 DEF LineKept

(* ... and one that goes on needs what its next command relies on.         *)
LEMMA LineGoto ==
  ASSUME NEW p, Mid(p), NEW label, NEW items, GotoWith(p, label, items), NextFits',
         \A f : f.at = label /\ f.items = items /\ f.ticket = frame[p].ticket
                => ReadsFit(f, queue'[Own(p)], nextUp'[Own(p)], queue'[HandoffKey(p)])
  PROVE  LineKept(p)
  <1>1. frame \in [Proc -> Frames] /\ frame[p] \in Frames /\ p \in Proc
    BY MidFacts
  <1>2. /\ frame' = [frame EXCEPT ![p] = frame'[p]]
        /\ frame'[p].at = label /\ frame'[p].items = items
        /\ frame'[p].ticket = frame[p].ticket /\ frame'[p].lock = frame[p].lock
    BY <1>1 DEF GotoWith, Frames
  <1> QED BY <1>2 DEF LineKept

LEMMA SameNextFits ==
  ASSUME OneCallerInv, UNCHANGED <<queue, nextUp>>
  PROVE  NextFits'
  BY DEF OneCallerInv, NextFits

-----------------------------------------------------------------------------
(* The three writes to a queue, whether they are answered or not ...       *)
WritesQueue(p) ==
  \/ WriteAdded(p) /\ At(p, "add.set")
  \/ At(p, "rem.set") /\ WriteRemoved(p) /\ UNCHANGED issued
  \/ At(p, "mov.set") /\ WriteMoved(p) /\ UNCHANGED issued

(* ... and what they are to it.                                            *)
Joins(p) ==
  /\ At(p, "add.set")
  /\ issued' = issued + 1 /\ queue' = [queue EXCEPT ![Own(p)] = Append(@, issued')]
Leaves(p) ==
  queue[Own(p)] # <<>> /\ queue' = [queue EXCEPT ![Own(p)] = Tail(@)] /\ UNCHANGED issued

LEMMA QueueWritten ==
  ASSUME NEW p, Mid(p), WritesQueue(p), UNCHANGED nextUp
  PROVE  NextFits' /\ (Joins(p) \/ Leaves(p))
  <1> DEFINE f == frame[p]
             q == queue[Own(p)]
  <1>1. /\ ReadsFit(f, q, nextUp[Own(p)], queue[HandoffKey(p)])
        /\ StepOK(f.op, f.at, f.ticket, f.items)
        /\ q \in Seq(1..issued) /\ Increasing(q) /\ issued \in Nat
    BY MidFacts
  <1>2. CASE WriteAdded(p) /\ At(p, "add.set")
    <2>1. Joins(p) /\ queue' = [queue EXCEPT ![Own(p)] = Append(q, issued + 1)]
      BY <1>1, <1>2 DEF Joins, WriteAdded, Enqueue, At, ReadsFit, ReadLabels
    <2>2. NextFits'
      BY <2>1, MidFacts, AppendHeadNext DEF NextFits
    <2> QED BY <2>1, <2>2
  <1>3. ASSUME q # <<>>, queue' = [queue EXCEPT ![Own(p)] = Tail(q)], UNCHANGED issued
        PROVE  NextFits' /\ Leaves(p)
    <2>1. NextFits'
      BY <1>1, <1>3, MidFacts, TailHeadNext DEF NextFits
    <2> QED BY <1>3, <2>1 DEF Leaves
  <1>4. CASE At(p, "rem.set") /\ WriteRemoved(p) /\ UNCHANGED issued
    <2>1. f.items = q /\ Head(q) = f.ticket /\ f.ticket \in Range(q)
      BY <1>1, <1>4 DEF At, ReadsFit, StepOK, ReadLabels
    <2>2. q = <<>> => Range(q) = {}
      BY DEF Range
    <2> QED BY <1>1, <1>3, <1>4, <2>1, <2>2, RemovesTheFront DEF WriteRemoved
  <1>5. CASE At(p, "mov.set") /\ WriteMoved(p) /\ UNCHANGED issued
    BY <1>1, <1>3, <1>5 DEF WriteMoved, Popped, At, ReadsFit, StepOK, ReadLabels
  <1> QED BY <1>2, <1>4, <1>5 DEF WritesQueue

(* The key of a queue of one client is deleted.                            *)
ClearsQueue(p) ==
  At(p, "mov.clear") /\ queue' = [queue EXCEPT ![Own(p)] = <<>>] /\ UNCHANGED <<nextUp, issued>>

LEMMA QueueCleared ==
  ASSUME NEW p, Mid(p), ClearsQueue(p)
  PROVE  NextFits' /\ Leaves(p)
  <1>1. queue[Own(p)] # <<>> /\ Tail(queue[Own(p)]) = <<>>
    BY MidFacts DEF ClearsQueue, At, ReadsFit
  <1>2. <<>> \in Seq(1..issued) /\ issued \in Nat
    BY EmptySeq, MidFacts
  <1>3. NextFits'
    BY <1>2, MidFacts, NobodyNext DEF ClearsQueue, NextFits
  <1> QED BY <1>1, <1>3 DEF ClearsQueue, Leaves

-----------------------------------------------------------------------------
(* The steps of each function.                                             *)

(* A step that only reads, and returns or goes on.                         *)
LEMMA LineReadReturn ==
  ASSUME NEW p, Mid(p), NEW r, Return(p, r), Reads
  PROVE  LineKept(p)
  BY LineReturn, SameNextFits DEF Mid, Reads, redis

LEMMA LineReadGoto ==
  ASSUME NEW p, Mid(p), NEW label, NEW items, GotoWith(p, label, items), Reads,
         \A f : f.at = label /\ f.items = items /\ f.ticket = frame[p].ticket
                => ReadsFit(f, queue[Own(p)], nextUp[Own(p)], queue[HandoffKey(p)])
  PROVE  LineKept(p)
  <1>1. NextFits' /\ UNCHANGED <<queue, nextUp>>
    BY SameNextFits DEF Mid, Reads, redis
  <1> QED BY <1>1, LineGoto

LEMMA AddLine ==
  ASSUME NEW p, Mid(p), AddStep(p)
  PROVE  LineKept(p)
  <1> DEFINE f == frame[p]
             q == queue[Own(p)]
  <1>1. /\ ReadsFit(f, q, nextUp[Own(p)], queue[HandoffKey(p)])
        /\ StepOK(f.op, f.at, f.ticket, f.items)
        /\ p \in Proc /\ frame \in [Proc -> Frames] /\ f \in Frames
    BY MidFacts
  <1>2. CASE AddExists(p)
    BY <1>1, <1>2, LineReadGoto
       DEF AddExists, Goto, At, ReadsFit, ReadLabels, TurnKnown, RemoveLabels
  <1>3. CASE AddGet(p)
    BY <1>1, <1>3, LineReadGoto, LineReadReturn
       DEF AddGet, GetQueue, At, ReadsFit, ReadLabels, TurnKnown, RemoveLabels
  <1>4. CASE AddSet(p)
    <2>1. /\ f.items = q /\ issued' = issued + 1
          /\ queue' = [queue EXCEPT ![Own(p)] = Append(q, issued + 1)] /\ UNCHANGED nextUp
      BY <1>1, <1>4 DEF AddSet, WriteAdded, Enqueue, At, ReadsFit, ReadLabels
    <2>2. NextFits'
      BY <1>4, QueueWritten DEF AddSet, WritesQueue
    <2>3. /\ frame' = [frame EXCEPT ![p] = frame'[p]] /\ frame'[p].lock = f.lock
          /\ \/ frame'[p].at = "done"
             \/ q = <<>> /\ frame'[p].at = "add.next" /\ frame'[p].ticket = issued + 1
      BY <1>1, <1>4, <2>1 DEF AddSet, Frames
    <2>4. q = <<>> => queue'[Own(p)] = <<issued + 1>>
      BY <2>1, MidFacts
    <2>5. ReadsFit(frame'[p], queue'[Own(p)], nextUp'[Own(p)], queue'[HandoffKey(p)])
      BY <2>3, <2>4 DEF ReadsFit, ReadLabels, TurnKnown, RemoveLabels
    <2> QED BY <2>2, <2>3, <2>5 DEF LineKept
  <1>5. CASE AddNext(p)
    <2>1. q = <<f.ticket>> /\ queue' = queue /\ Return(p, "ok")
          /\ nextUp' = [nextUp EXCEPT ![Own(p)] = f.ticket]
      BY <1>1, <1>5 DEF AddNext, WriteFounder, At, ReadsFit
    <2>2. HeadNext(q, f.ticket)
      BY <2>1 DEF HeadNext
    <2>3. NextFits'
      BY <2>1, <2>2, MidFacts DEF NextFits
    <2> QED BY <2>1, <2>3, LineReturn
  <1> QED BY <1>2, <1>3, <1>4, <1>5 DEF AddStep

LEMMA PositionLine ==
  ASSUME NEW p, Mid(p), PositionStep(p)
  PROVE  LineKept(p)
  BY LineReadReturn, LineReadGoto
     DEF PositionStep, PositionExists, PositionGet, Goto, ReadsFit, ReadLabels, TurnKnown, RemoveLabels

LEMMA TurnLine ==
  ASSUME NEW p, Mid(p), TurnStep(p)
  PROVE  LineKept(p)
  <1> DEFINE f == frame[p]
             q == queue[Own(p)]
  <1>1. /\ ReadsFit(f, q, nextUp[Own(p)], queue[HandoffKey(p)])
        /\ p \in Proc /\ frame \in [Proc -> Frames] /\ f \in Frames
    BY MidFacts
  <1>2. CASE NextExists(p) \/ NextGet(p) \/ WindowExists(p)
    BY <1>1, <1>2, LineReadReturn, LineReadGoto
       DEF NextExists, NextGet, WindowExists, Goto, At, ReadsFit, ReadLabels, TurnKnown, RemoveLabels
  <1>3. ASSUME WindowGet(p) \/ WindowCheck(p), ~(\E r : Return(p, r))
        PROVE  LineKept(p)
    <2>1. /\ frame' = [frame EXCEPT ![p] = frame'[p]]
          /\ frame'[p].at \in {"win.check", "mov.exists", "rem.exists"}
          /\ frame'[p].lock = f.lock /\ frame'[p].ticket = f.ticket
      BY <1>1, <1>3 DEF WindowGet, WindowCheck, Frames
    <2>2. NextFits' /\ UNCHANGED <<queue, nextUp>>
      BY <1>3, SameNextFits DEF WindowGet, WindowCheck, Mid, Reads, redis
    <2>3. nextUp[Own(p)] = f.ticket
      BY <1>1, <1>3 DEF WindowGet, WindowCheck, At, ReadsFit, TurnKnown
    <2>4. ReadsFit(frame'[p], queue'[Own(p)], nextUp'[Own(p)], queue'[HandoffKey(p)])
      BY <2>1, <2>2, <2>3 DEF ReadsFit, ReadLabels, TurnKnown, RemoveLabels
    <2> QED BY <2>1, <2>2, <2>4 DEF LineKept
  <1>4. CASE WindowGet(p) \/ WindowCheck(p)
    BY <1>3, <1>4, LineReadReturn DEF WindowGet, WindowCheck
  <1> QED BY <1>2, <1>4 DEF TurnStep

LEMMA RemoveLine ==
  ASSUME NEW p, Mid(p), RemoveStep(p)
  PROVE  LineKept(p)
  <1> DEFINE f == frame[p]
             q == queue[Own(p)]
  <1>1. /\ ReadsFit(f, q, nextUp[Own(p)], queue[HandoffKey(p)])
        /\ StepOK(f.op, f.at, f.ticket, f.items)
        /\ HeadNext(q, nextUp[Own(p)])
    BY MidFacts
  <1>2. CASE RemoveExists(p)
    <2>1. nextUp[Own(p)] = f.ticket
      BY <1>1, <1>2 DEF RemoveExists, At, ReadsFit, TurnKnown, RemoveLabels
    <2> QED BY <1>2, <2>1, LineReadReturn, LineReadGoto
            DEF RemoveExists, Goto, At, ReadsFit, ReadLabels, TurnKnown, RemoveLabels
  <1>3. CASE RemoveGet(p)
    <2>1. nextUp[Own(p)] = f.ticket
      BY <1>1, <1>3 DEF RemoveGet, At, ReadsFit, TurnKnown, RemoveLabels
    <2> QED BY <1>3, <2>1, LineReadReturn, LineReadGoto
            DEF RemoveGet, At, ReadsFit, ReadLabels, TurnKnown, RemoveLabels
  <1>4. CASE RemoveNext(p) \/ RemoveNextGet(p)
    <2>1. f.items = q /\ nextUp[Own(p)] = f.ticket /\ f.ticket \in Range(q)
      BY <1>1, <1>4 DEF RemoveNext, RemoveNextGet, At, ReadsFit, StepOK, ReadLabels, TurnKnown,
                        RemoveLabels
    <2>2. Head(q) = f.ticket
      BY <1>1, <2>1 DEF HeadNext
    <2> QED BY <1>4, <2>1, <2>2, LineReadGoto
            DEF RemoveNext, RemoveNextGet, Goto, At, ReadsFit, ReadLabels, TurnKnown,
                RemoveLabels
  <1>5. CASE RemoveSet(p)
    BY <1>5, QueueWritten, LineReturn DEF RemoveSet, WritesQueue
  <1> QED BY <1>2, <1>3, <1>4, <1>5 DEF RemoveStep

(* moveToNextClient drops the first client, or the key of a queue of one.  *)
LEMMA MoveLine ==
  ASSUME NEW p, Mid(p), MoveStep(p)
  PROVE  LineKept(p)
  <1> DEFINE f == frame[p]
             q == queue[Own(p)]
  <1>1. /\ ReadsFit(f, q, nextUp[Own(p)], queue[HandoffKey(p)])
        /\ StepOK(f.op, f.at, f.ticket, f.items)
        /\ q \in Seq(1..issued) /\ Increasing(q) /\ issued \in Nat
        /\ p \in Proc /\ frame \in [Proc -> Frames] /\ f \in Frames
    BY MidFacts
  <1>2. CASE MoveExists(p) \/ MoveGet(p)
    BY <1>1, <1>2, LineReadGoto, LineReadReturn
       DEF MoveExists, MoveGet, GetQueue, Goto, At, ReadsFit, ReadLabels,
           TurnKnown, RemoveLabels
  <1>3. CASE MoveDropNext(p) \/ MoveClearNext(p)
    <2>1. queue' = queue /\ nextUp' = [nextUp EXCEPT ![Own(p)] = NoTicket]
      BY <1>3 DEF MoveDropNext, MoveClearNext
    <2>2. NextFits'
      BY <1>1, <2>1, MidFacts, NobodyNext DEF NextFits
    <2> QED BY <1>3, <2>2, LineReturn, LineGoto
            DEF MoveDropNext, MoveClearNext, Goto, At, ReadsFit, ReadLabels,
                TurnKnown, RemoveLabels
  <1>4. CASE MoveDropWindow(p)
    BY <1>4, SameNextFits, LineReturn DEF MoveDropWindow, Mid
  <1>5. CASE MoveWindow(p)
    <2>1. f.items = q /\ q # <<>> /\ UNCHANGED <<queue, nextUp>>
      BY <1>1, <1>5 DEF MoveWindow, At, ReadsFit, StepOK, ReadLabels
    <2>2. NextFits' /\ GotoWith(p, IF Tail(q) = <<>> THEN "mov.clear" ELSE "mov.set", q)
      BY <1>5, <2>1, SameNextFits DEF MoveWindow, Goto, AfterPop, Popped, Mid
    <2> QED BY <2>1, <2>2, LineGoto DEF ReadsFit, ReadLabels, TurnKnown, RemoveLabels
  <1>6. CASE MoveClear(p)
    <2>1. ClearsQueue(p)
      BY <1>6 DEF MoveClear, ClearsQueue
    <2> QED BY <1>6, <2>1, QueueCleared, LineGoto
            DEF MoveClear, Goto, ReadsFit, ReadLabels, TurnKnown, RemoveLabels
  <1>7. CASE MoveSet(p)
    BY <1>7, QueueWritten, LineReturn, LineGoto
       DEF MoveSet, WritesQueue, ReadsFit, ReadLabels, TurnKnown, RemoveLabels
  <1> QED BY <1>2, <1>3, <1>4, <1>5, <1>6, <1>7 DEF MoveStep

(* enterNextClientTimeoutPeriod makes the first client the next one.       *)
LEMMA EnterLine ==
  ASSUME NEW p, Mid(p), EnterStep(p) \/ EnterLock(p)
  PROVE  LineKept(p)
  <1> DEFINE f == frame[p]
             h == queue[HandoffKey(p)]
  <1>1. /\ ReadsFit(f, queue[Own(p)], nextUp[Own(p)], h)
        /\ StepOK(f.op, f.at, f.ticket, f.items)
        /\ h \in Seq(1..issued) /\ issued \in Nat
    BY MidFacts
  <1>2. CASE EnterLock(p) \/ EnterExists(p) \/ EnterGet(p)
    <2>1. NextFits' /\ UNCHANGED <<queue, nextUp>>
      BY <1>2, SameNextFits DEF EnterLock, EnterExists, EnterGet, Mid, redis
    <2> QED BY <1>2, <2>1, LineReturn, LineGoto
            DEF EnterLock, EnterExists, EnterGet, Goto, ReadsFit, ReadLabels, TurnKnown, RemoveLabels
  <1>3. CASE EnterNext(p)
    <2>1. f.items = h /\ queue' = queue /\ nextUp' = [nextUp EXCEPT ![HandoffKey(p)] = Head(h)]
      BY <1>1, <1>3 DEF EnterNext, WriteTurn, At, ReadsFit
    <2>2. NextFits'
      BY <1>1, <2>1, MidFacts, NobodyNext DEF NextFits
    <2> QED BY <1>3, <2>2, LineGoto
            DEF EnterNext, Goto, ReadsFit, ReadLabels, TurnKnown, RemoveLabels
  <1>4. CASE EnterWindow(p)
    BY <1>4, SameNextFits, LineReturn DEF EnterWindow, Mid
  <1> QED BY <1>2, <1>3, <1>4 DEF EnterStep


(* Failures: a command that fails returns an error or goes on, and a write *)
(* whose answer is lost is written.                                        *)
LEMMA FailLine ==
  ASSUME NEW p, Mid(p), FailStep(p)
  PROVE  LineKept(p)
  <1> DEFINE f == frame[p]
             q == queue[Own(p)]
  <1>1. /\ ReadsFit(f, q, nextUp[Own(p)], queue[HandoffKey(p)])
        /\ StepOK(f.op, f.at, f.ticket, f.items)
        /\ q \in Seq(1..issued) /\ HeadNext(q, nextUp[Own(p)])
        /\ queue[HandoffKey(p)] \in Seq(1..issued) /\ issued \in Nat
    BY MidFacts
  <1>2. CASE CommandFails(p)
    BY <1>2, SameNextFits, LineReturn DEF CommandFails, Mid, redis
  <1>3. CASE AnswerLost(p)
    <2>1. Return(p, "error")
      BY <1>3 DEF AnswerLost
    <2>2. CASE WritesQueue(p) /\ UNCHANGED nextUp
      BY <2>1, <2>2, QueueWritten, LineReturn
    <2>3. CASE At(p, "add.next") /\ WriteFounder(p) /\ UNCHANGED queue
      <3>1. HeadNext(q, f.ticket) /\ nextUp' = [nextUp EXCEPT ![Own(p)] = f.ticket]
        BY <1>1, <2>3 DEF WriteFounder, At, ReadsFit, HeadNext
      <3>2. NextFits'
        BY <2>3, <3>1, MidFacts DEF NextFits
      <3> QED BY <2>1, <3>2, LineReturn
    <2>4. CASE At(p, "ent.next") /\ WriteTurn(p) /\ UNCHANGED queue
      <3>1. nextUp' = [nextUp EXCEPT ![HandoffKey(p)] = Head(queue[HandoffKey(p)])]
        BY <1>1, <2>4 DEF WriteTurn, At, ReadsFit
      <3>2. NextFits'
        BY <1>1, <2>4, <3>1, MidFacts, NobodyNext DEF NextFits
      <3> QED BY <2>1, <3>2, LineReturn
    <2>5. CASE UNCHANGED <<queue, nextUp>>
      BY <2>1, <2>5, SameNextFits, LineReturn DEF Mid
    <2> QED BY <1>3, <2>2, <2>3, <2>4, <2>5 DEF AnswerLost, WritesQueue
  <1>4. CASE NextKeyUnreadable(p)
    <2>1. f.items = q /\ nextUp[Own(p)] = f.ticket /\ f.ticket \in Range(q)
      BY <1>1, <1>4 DEF NextKeyUnreadable, At, ReadsFit, StepOK, ReadLabels, TurnKnown, RemoveLabels
    <2>2. Head(q) = f.ticket
      BY <1>1, <2>1 DEF HeadNext
    <2>3. NextFits' /\ UNCHANGED <<queue, nextUp>>
      BY <1>4, SameNextFits DEF NextKeyUnreadable, Mid, redis
    <2> QED BY <1>4, <2>1, <2>2, <2>3, LineGoto
            DEF NextKeyUnreadable, Goto, ReadsFit, ReadLabels, TurnKnown, RemoveLabels
  <1>5. CASE DeleteFails(p)
    <2>1. NextFits' /\ UNCHANGED <<queue, nextUp>>
      BY <1>5, SameNextFits DEF DeleteFails, Mid, redis
    <2>2. CASE At(p, "mov.window")
      <3>1. f.items = q /\ q # <<>>
        BY <1>1, <2>2 DEF At, ReadsFit, StepOK, ReadLabels
      <3>2. GotoWith(p, IF Tail(q) = <<>> THEN "mov.clear" ELSE "mov.set", q)
        BY <1>5, <2>2, <3>1 DEF DeleteFails, Goto, AfterPop, Popped, At
      <3> QED BY <2>1, <3>1, <3>2, LineGoto DEF ReadsFit, ReadLabels, TurnKnown, RemoveLabels
    <2>3. CASE ~At(p, "mov.window")
      BY <1>5, <2>1, <2>3, LineReturn, LineGoto
         DEF DeleteFails, Deletes, EmptiesQueue, Goto, At, ReadsFit, ReadLabels, TurnKnown, RemoveLabels
    <2> QED BY <2>2, <2>3
  <1> QED BY <1>2, <1>3, <1>4, <1>5 DEF FailStep

-----------------------------------------------------------------------------
(* The whole step.                                                         *)

(* A call opens and a result is read in a frame that has no list.          *)
LEMMA LineFresh ==
  ASSUME NEW p \in Proc, QueueInv, OneCallerInv, NEW f, f.items = <<>>,
         f.at \in {"idle", "done", "add.exists", "pos.exists", "next.exists", "ent.lock"},
         frame' = [frame EXCEPT ![p] = f], UNCHANGED <<queue, nextUp>>
  PROVE  OneCallerInv'
  <1>1. frame'[p] = f /\ \A q \in Proc : q # p => frame'[q] = frame[q]
    BY DEF QueueInv, QueueTypeOK
  <1>2. ReadsFit(frame'[p], queue'[Own(p)'], nextUp'[Own(p)'], queue'[HandoffKey(p)'])
    BY <1>1 DEF ReadsFit, ReadLabels, TurnKnown, RemoveLabels
  <1> QED BY <1>1, <1>2 DEF OneCallerInv, Own, HandoffKey

LEMMA StartLine ==
  ASSUME NEW p \in Proc, QueueInv, OneCallerInv,
         \/ \E l : StartSchedule(p, l) \/ StartRelease(p, l)
         \/ \E l, t : StartPosition(p, l, t) \/ StartAcquire(p, l, t)
         \/ Close(p) /\ UNCHANGED <<redis, issued>>
  PROVE  OneCallerInv' /\ UNCHANGED <<queue, issued>>
  <1>1. ASSUME NEW op, NEW l, NEW t, NEW label \in {"add.exists", "pos.exists", "next.exists", "ent.lock"},
               Start(p, op, l, t, label)
        PROVE  OneCallerInv' /\ UNCHANGED <<queue, issued>>
    <2> DEFINE f == [IdleFrame EXCEPT !.op = op, !.lock = l, !.ticket = t, !.at = label]
    <2>1. f.at = label /\ f.items = <<>>
      BY DEF IdleFrame
    <2>2. frame' = [frame EXCEPT ![p] = f] /\ UNCHANGED <<queue, nextUp, issued>>
      BY <1>1 DEF Start, redis
    <2> HIDE DEF f
    <2> QED BY <2>1, <2>2, LineFresh
  <1>2. ASSUME NEW l, StartRelease(p, l)
        PROVE  OneCallerInv' /\ UNCHANGED <<queue, issued>>
    <2>1. CASE HandoffConfigured
      BY <1>1, <1>2, <2>1 DEF StartRelease
    <2>2. CASE ~HandoffConfigured
      <3> DEFINE f == [IdleFrame EXCEPT !.op = "release", !.lock = l, !.at = "done", !.res = "error"]
      <3>1. f.at = "done" /\ f.items = <<>>
        BY DEF IdleFrame
      <3>2. frame' = [frame EXCEPT ![p] = f] /\ UNCHANGED <<queue, nextUp, issued>>
        BY <1>2, <2>2 DEF StartRelease, redis
      <3> HIDE DEF f
      <3> QED BY <3>1, <3>2, LineFresh
    <2> QED BY <2>1, <2>2
  <1>3. CASE Close(p) /\ UNCHANGED <<redis, issued>>
    <2>1. /\ frame' = [frame EXCEPT ![p] = IdleFrame] /\ UNCHANGED <<queue, nextUp, issued>>
          /\ IdleFrame.at = "idle" /\ IdleFrame.items = <<>>
      BY <1>3 DEF Close, redis, IdleFrame
    <2> QED BY <2>1, LineFresh
  <1> QED BY <1>1, <1>2, <1>3 DEF StartSchedule, StartPosition, StartAcquire

(* What a command, a failed one too, does to the queues.                   *)
LEMMA StepQueues ==
  ASSUME NEW p, Mid(p), QueueStep(p)
  PROVE  UNCHANGED <<queue, issued>> \/ Joins(p) \/ Leaves(p)
  <1>1. CASE AddSet(p) \/ RemoveSet(p) \/ MoveSet(p)
    BY <1>1, QueueWritten DEF AddSet, RemoveSet, MoveSet, WritesQueue
  <1>2. CASE MoveClear(p)
    BY <1>2, QueueCleared DEF MoveClear, ClearsQueue
  <1>3. CASE AnswerLost(p)
    <2>1. (WritesQueue(p) /\ UNCHANGED nextUp) \/ UNCHANGED <<queue, issued>>
      BY <1>3 DEF AnswerLost, WritesQueue
    <2> QED BY <2>1, QueueWritten
  <1>4. CASE ~AddSet(p) /\ ~RemoveSet(p) /\ ~MoveSet(p) /\ ~MoveClear(p) /\ ~AnswerLost(p)
    BY <1>4 DEF QueueStep, QueueCommand, EnterLock, FailStep, CommandFails, NextKeyUnreadable,
                DeleteFails, AddStep, AddExists, AddGet, AddNext, PositionStep, PositionExists,
                PositionGet, TurnStep, NextExists, NextGet, WindowExists, WindowGet, WindowCheck,
                RemoveStep, RemoveExists, RemoveGet, RemoveNext, RemoveNextGet, MoveStep,
                MoveExists, MoveDropNext, MoveDropWindow, MoveGet, MoveWindow, MoveClearNext,
                EnterStep, EnterExists, EnterGet, EnterNext, EnterWindow, GetQueue, Reads, redis
  <1> QED BY <1>1, <1>2, <1>3, <1>4

LEMMA NotReady ==
  ASSUME NEW p, QueueStep(p)
  PROVE  ~At(p, "idle") /\ ~At(p, "done")
  BY DEF QueueStep, QueueCommand, EnterLock, FailStep, CommandFails, Fallible, AnswerLost,
         NextKeyUnreadable, DeleteFails, Deletes, EmptiesQueue, AddStep, AddExists, AddGet, AddSet,
         AddNext, PositionStep, PositionExists, PositionGet, TurnStep, NextExists, NextGet,
         WindowExists, WindowGet, WindowCheck, RemoveStep, RemoveExists, RemoveGet, RemoveNext,
         RemoveNextGet, RemoveSet, MoveStep, MoveExists, MoveDropNext, MoveDropWindow, MoveGet,
         MoveWindow, MoveClear, MoveClearNext, MoveSet, EnterStep, EnterExists, EnterGet,
         EnterNext, EnterWindow, At

(* A crash leaves no frame, and the clock reads nothing.                   *)
LEMMA EnvironmentLine ==
  ASSUME OneCallerInv, QueueCrash \/ Tick \/ UNCHANGED queueVars
  PROVE  OneCallerInv' /\ UNCHANGED <<queue, issued>>
  <1>1. CASE QueueCrash
    <2>1. UNCHANGED <<queue, nextUp, issued>> /\ \A q \in Proc : frame'[q] = IdleFrame
      BY <1>1 DEF QueueCrash, redis
    <2>2. IdleFrame.at = "idle"
      BY DEF IdleFrame
    <2>3. \A q, n, h : ReadsFit(IdleFrame, q, n, h)
      BY <2>2 DEF ReadsFit, ReadLabels, TurnKnown, RemoveLabels
    <2> QED BY <2>1, <2>3 DEF OneCallerInv
  <1>2. CASE Tick \/ UNCHANGED queueVars
    <2>1. UNCHANGED <<queue, nextUp, frame, issued>>
      BY <1>2 DEF Tick, redis, queueVars
    <2> QED BY <2>1 DEF OneCallerInv, Own, HandoffKey
  <1> QED BY <1>1, <1>2

(* A command writes to the keys of its goroutine's lock only.              *)
LEMMA StepKeysKept ==
  ASSUME NEW p \in Proc, QueueInv, QueueStep(p)
  PROVE  KeysKept(p)
  <1> SUFFICES ASSUME NEW k \in Keys, k # Own(p), k # HandoffKey(p)
               PROVE  queue'[k] = queue[k] /\ nextUp'[k] = nextUp[k]
    BY DEF KeysKept
  <1>1. k \in DOMAIN queue /\ k \in DOMAIN nextUp
    BY DEF QueueInv, QueueTypeOK
  <1>2. CASE AddStep(p) \/ PositionStep(p)
    BY <1>1, <1>2 DEF AddStep, AddExists, AddGet, AddSet, AddNext, WriteAdded, WriteFounder,
                      PositionStep, PositionExists, PositionGet, GetQueue, Reads, redis
  <1>3. CASE TurnStep(p) \/ RemoveStep(p)
    BY <1>1, <1>3 DEF TurnStep, NextExists, NextGet, WindowExists, WindowGet, WindowCheck, RemoveStep,
                      RemoveExists, RemoveGet, RemoveNext, RemoveNextGet, RemoveSet, WriteRemoved,
                      Reads, redis
  <1>4. CASE MoveStep(p)
    BY <1>1, <1>4 DEF MoveStep, MoveExists, MoveDropNext, MoveDropWindow, MoveGet, MoveWindow,
                      MoveClear, MoveClearNext, MoveSet, WriteMoved, GetQueue, Reads, redis
  <1>5. CASE EnterStep(p) \/ EnterLock(p)
    BY <1>1, <1>5 DEF EnterStep, EnterExists, EnterGet, EnterNext, EnterWindow, EnterLock,
                      WriteTurn, redis
  <1>6. CASE FailStep(p)
    BY <1>1, <1>6 DEF FailStep, CommandFails, AnswerLost, NextKeyUnreadable, DeleteFails, WriteAdded,
                      WriteFounder, WriteRemoved, WriteMoved, WriteTurn, redis
  <1> QED BY <1>2, <1>3, <1>4, <1>5, <1>6 DEF QueueStep, QueueCommand

LEMMA StepLine ==
  ASSUME NEW p \in Proc, QueueInv, OneCallerInv, OneCallPerLock, QueueStep(p)
  PROVE  OneCallerInv' /\ Mid(p) /\ (UNCHANGED <<queue, issued>> \/ Joins(p) \/ Leaves(p))
  <1>1. Mid(p)
    BY NotReady DEF Mid, Ready, At
  <1>2. LineKept(p)
    BY <1>1, AddLine, PositionLine, TurnLine, RemoveLine, MoveLine, EnterLine, FailLine
       DEF QueueStep, QueueCommand
  <1> QED BY <1>1, <1>2, StepQueues, StepKeysKept, LineStays

LEMMA InitLine == QueueInit => OneCallerInv
  <1> SUFFICES ASSUME QueueInit PROVE OneCallerInv
    OBVIOUS
  <1>1. /\ \A p \in Proc : frame[p] = IdleFrame
        /\ \A k \in Keys : queue[k] = <<>> /\ nextUp[k] = NoTicket
    BY DEF QueueInit
  <1>2. IdleFrame.at = "idle"
    BY DEF IdleFrame
  <1>3. \A q, n, h : ReadsFit(IdleFrame, q, n, h)
    BY <1>2 DEF ReadsFit, ReadLabels, TurnKnown, RemoveLabels
  <1>4. HeadNext(<<>>, NoTicket)
    BY EmptySeq, NobodyNext
  <1> QED BY <1>1, <1>3, <1>4 DEF OneCallerInv
=============================================================================
