------------------------- MODULE QueueManagerProofs -------------------------
(***************************************************************************)
(* What the steps of the package queueManager do to the two invariants of  *)
(* QueueManager, for every value of the constants and for any caller:      *)
(* QueueInv (types, the order of the lists, and what a goroutine knows     *)
(* between two commands) and ApartInv (what the databases being apart      *)
(* rules out).  The theorems about whole behaviours are in the modules of  *)
(* the callers.                                                            *)
(***************************************************************************)
EXTENDS QueueManager, TLAPS, SequenceTheorems

-----------------------------------------------------------------------------
(* Lists in the order in which their queue ids were issued.                *)

(* addToQueue appends a queue id newer than all in the list: the list      *)
(* stays in order.                                                         *)
LEMMA AppendIncreasing ==
  ASSUME NEW n \in Nat, NEW s \in Seq(1..n), Increasing(s)
  PROVE  Append(s, n + 1) \in Seq(1..(n + 1)) /\ Increasing(Append(s, n + 1))
  BY DEF Increasing

(* moveToNextClient drops the first client: the list stays in order.       *)
LEMMA TailIncreasing ==
  ASSUME NEW n \in Nat, NEW s \in Seq(1..n), Increasing(s), s # <<>>
  PROVE  Tail(s) \in Seq(1..n) /\ Increasing(Tail(s))
  BY DEF Increasing

(* removeFromQueue finds the index of a queue id that is in the list.      *)
LEMMA IndexInRange ==
  ASSUME NEW n \in Nat, NEW s \in Seq(1..n), NEW t \in Range(s)
  PROVE  Index(s, t) \in 1..Len(s)
  BY DEF Index, Range

(* removeFromQueue cuts one client out of the list: the list stays in      *)
(* order.                                                                  *)
LEMMA RemoveAtIncreasing ==
  ASSUME NEW n \in Nat, NEW s \in Seq(1..n), Increasing(s), NEW i \in 1..Len(s)
  PROVE  RemoveAt(s, i) \in Seq(1..n) /\ Increasing(RemoveAt(s, i))
  <1> DEFINE a == SubSeq(s, 1, i - 1)
             b == SubSeq(s, i + 1, Len(s))
             r == RemoveAt(s, i)
  <1>1. Len(s) \in Nat /\ i \in Int /\ \A j \in 1..Len(s) : s[j] \in 1..n
    BY LenProperties
  <1>2. /\ a \in Seq(1..n) /\ Len(a) = i - 1
        /\ \A j \in 1..(i - 1) : a[j] = s[j]
    <2>1. \A j \in 1..(i - 1) : s[j] \in 1..n
      BY <1>1
    <2>2. /\ a \in Seq(1..n) /\ Len(a) = IF 1 <= i - 1 THEN (i - 1) - 1 + 1 ELSE 0
          /\ \A j \in 1..((i - 1) - 1 + 1) : a[j] = s[1 + j - 1]
      BY <1>1, <2>1, SubSeqProperties
    <2> QED BY <1>1, <2>2
  <1>3. /\ b \in Seq(1..n) /\ Len(b) = Len(s) - i
        /\ \A j \in 1..(Len(s) - i) : b[j] = s[i + j]
    <2>1. \A j \in (i + 1)..Len(s) : s[j] \in 1..n
      BY <1>1
    <2>2. /\ b \in Seq(1..n)
          /\ Len(b) = IF i + 1 <= Len(s) THEN Len(s) - (i + 1) + 1 ELSE 0
          /\ \A j \in 1..(Len(s) - (i + 1) + 1) : b[j] = s[(i + 1) + j - 1]
      BY <1>1, <2>1, SubSeqProperties
    <2> QED BY <1>1, <2>2
  <1>4. r = a \o b
    BY DEF RemoveAt
  <1> HIDE DEF a, b
  <1>5. /\ a \o b \in Seq(1..n) /\ Len(a \o b) = Len(a) + Len(b)
        /\ \A j \in 1..(Len(a) + Len(b)) :
             (a \o b)[j] = IF j <= Len(a) THEN a[j] ELSE b[j - Len(a)]
    BY <1>2, <1>3, ConcatProperties
  <1>6. r \in Seq(1..n) /\ Len(r) = Len(s) - 1
    BY <1>1, <1>2, <1>3, <1>4, <1>5
  <1> HIDE DEF r
  <1>7. ASSUME NEW j \in 1..Len(r)
        PROVE  r[j] = IF j < i THEN s[j] ELSE s[j + 1]
    <2>1. j \in 1..(Len(a) + Len(b)) /\ r[j] = IF j <= Len(a) THEN a[j] ELSE b[j - Len(a)]
      BY <1>1, <1>2, <1>3, <1>4, <1>5, <1>6
    <2>2. CASE j < i
      BY <1>1, <1>2, <2>1, <2>2
    <2>3. CASE j >= i
      <3>1. j - (i - 1) \in 1..(Len(s) - i) /\ i + (j - (i - 1)) = j + 1
        BY <1>1, <1>6, <2>3
      <3>2. b[j - (i - 1)] = s[i + (j - (i - 1))]
        BY <1>3, <3>1
      <3> QED BY <1>1, <1>2, <2>1, <2>3, <3>1, <3>2
    <2> QED BY <1>1, <1>6, <2>2, <2>3
  <1>8. ASSUME NEW j \in 1..Len(r), NEW k \in 1..Len(r), j < k
        PROVE  r[j] < r[k]
    <2> DEFINE jj == IF j < i THEN j ELSE j + 1
               kk == IF k < i THEN k ELSE k + 1
    <2> DEFINE n1 == Len(r)
               n2 == Len(s)
    <2>0. j \in 1..n1 /\ k \in 1..n1 /\ j < k /\ n2 \in Nat /\ i \in 1..n2 /\ n1 = n2 - 1
      BY <1>1, <1>6, <1>8
    <2> HIDE DEF n1, n2
    <2>a. jj \in 1..n2
      BY <2>0
    <2>b. kk \in 1..n2
      BY <2>0
    <2>c. jj < kk
      BY <2>0
    <2>1. jj \in 1..Len(s) /\ kk \in 1..Len(s) /\ jj < kk
      BY <2>a, <2>b, <2>c DEF n2
    <2>2. r[j] = s[jj] /\ r[k] = s[kk]
      BY <1>7
    <2> HIDE DEF jj, kk
    <2> QED BY <2>1, <2>2 DEF Increasing
  <1>9. Increasing(r)
    BY <1>8 DEF Increasing
  <1> QED BY <1>6, <1>9 DEF r

(* A list of issued queue ids is a list of numbers.                        *)
LEMMA SeqNat ==
  ASSUME NEW n \in Nat, NEW s \in Seq(1..n)
  PROVE  s \in Seq(Nat)
  BY SeqMonotonic

(* A prefix, element by element.                                           *)
LEMMA PrefixElements ==
  ASSUME NEW S, NEW s \in Seq(S), NEW t \in Seq(S)
  PROVE  IsPrefix(s, t) <=> Len(s) <= Len(t) /\ \A i \in 1..Len(s) : s[i] = t[i]
  <1>1. Len(s) \in Nat /\ Len(t) \in Nat
    BY LenProperties
  <1> DEFINE a == SubSeq(s, 1, Len(s))
             b == SubSeq(t, 1, Len(s))
  <1>2. a \in Seq(S) /\ Len(a) = Len(s) /\ \A i \in 1..Len(s) : a[i] = s[i]
    <2>1. \A i \in 1..Len(s) : s[i] \in S
      BY ElementOfSeq
    <2>2. /\ a \in Seq(S) /\ Len(a) = IF 1 <= Len(s) THEN Len(s) - 1 + 1 ELSE 0
          /\ \A i \in 1..(Len(s) - 1 + 1) : a[i] = s[1 + i - 1]
      BY <1>1, <2>1, SubSeqProperties
    <2> QED BY <1>1, <2>2
  <1>3. ASSUME Len(s) <= Len(t)
        PROVE  b \in Seq(S) /\ Len(b) = Len(s) /\ \A i \in 1..Len(s) : b[i] = t[i]
    <2>1. \A i \in 1..Len(s) : t[i] \in S
      BY <1>1, <1>3, ElementOfSeq
    <2>2. /\ b \in Seq(S) /\ Len(b) = IF 1 <= Len(s) THEN Len(s) - 1 + 1 ELSE 0
          /\ \A i \in 1..(Len(s) - 1 + 1) : b[i] = t[1 + i - 1]
      BY <1>1, <1>3, <2>1, SubSeqProperties
    <2> QED BY <1>1, <2>2
  <1> HIDE DEF a, b
  <1>4. ASSUME Len(s) <= Len(t)
        PROVE  a = b <=> \A i \in 1..Len(s) : s[i] = t[i]
    <2>1. ASSUME \A i \in 1..Len(s) : s[i] = t[i]
          PROVE  a = b
      <3>1. \A i \in 1..Len(a) : a[i] = b[i]
        BY <1>2, <1>3, <1>4, <2>1
      <3> QED BY <1>2, <1>3, <1>4, <3>1, SeqEqual
    <2>2. ASSUME a = b
          PROVE  \A i \in 1..Len(s) : s[i] = t[i]
      BY <1>2, <1>3, <1>4, <2>2
    <2> QED BY <2>1, <2>2
  <1>5. IsPrefix(s, t) <=> Len(s) <= Len(t) /\ a = b
    BY DEF IsPrefix, a, b
  <1> QED BY <1>4, <1>5

(* Every list extends itself.                                              *)
LEMMA PrefixOfItself ==
  ASSUME NEW S, NEW s \in Seq(S)
  PROVE  IsPrefix(s, s)
  BY PrefixElements, LenProperties

(* addToQueue appends: what the list extended it still extends.            *)
LEMMA PrefixOfAppend ==
  ASSUME NEW S, NEW s \in Seq(S), NEW t \in Seq(S), NEW e \in S, IsPrefix(s, t)
  PROVE  IsPrefix(s, Append(t, e))
  <1>1. Len(s) <= Len(t) /\ \A i \in 1..Len(s) : s[i] = t[i]
    BY PrefixElements
  <1>2. /\ Len(s) \in Nat /\ Len(t) \in Nat /\ Append(t, e) \in Seq(S)
        /\ Len(Append(t, e)) = Len(t) + 1
        /\ \A i \in 1..Len(t) : Append(t, e)[i] = t[i]
    BY LenProperties, AppendProperties
  <1>3. Len(s) <= Len(Append(t, e)) /\ \A i \in 1..Len(s) : s[i] = Append(t, e)[i]
    BY <1>1, <1>2
  <1> QED BY <1>2, <1>3, PrefixElements

(* Only the empty list is extended by the empty list, and every list       *)
(* extends it.                                                             *)
LEMMA PrefixOfEmpty ==
  ASSUME NEW S, NEW s \in Seq(S), NEW e \in Seq(S), e = <<>>, IsPrefix(s, e), NEW t \in Seq(S)
  PROVE  IsPrefix(s, t)
  <1>1. Len(e) = 0
    BY EmptySeq
  <1>2. Len(s) \in Nat /\ Len(s) <= Len(e) /\ Len(t) \in Nat
    BY PrefixElements, LenProperties
  <1>3. Len(s) <= Len(t) /\ \A i \in 1..Len(s) : s[i] = t[i]
    BY <1>1, <1>2
  <1> QED BY <1>3, PrefixElements

(* A frame that fits the queue ids issued so far still fits when more are  *)
(* issued.                                                                 *)
LEMMA FrameOKMonotonic ==
  ASSUME NEW n \in Nat, NEW m \in Nat, n <= m, NEW f, FrameOK(f, n)
  PROVE  FrameOK(f, m)
  <1>1. f.items \in Seq(1..m)
    BY SeqMonotonic DEF FrameOK
  <1> QED BY <1>1 DEF FrameOK

-----------------------------------------------------------------------------
(* What every step of a goroutine p keeps: its own frame ...               *)
FrameKept(p) ==
  /\ frame' = [frame EXCEPT ![p] = frame'[p]]
  /\ FrameOK(frame'[p], issued')

(* ... and everything but the frames.                                      *)
RedisOK ==
  /\ queue \in [Keys -> Seq(1..issued)]
  /\ nextUp \in [Keys -> 0..issued]
  /\ window \in [Keys -> Nat \cup {NoWindow}]
  /\ mutex \in [Locks -> Proc \cup {Free}]
  /\ now \in Nat /\ issued \in Nat /\ faults \in Nat
  /\ QueueInCommitOrder

(* A step that changes only the frame of its goroutine, and keeps Redis,   *)
(* keeps the invariant.                                                    *)
LEMMA KeptInv ==
  ASSUME QueueInv, NEW p \in Proc, FrameKept(p), RedisOK', issued <= issued'
  PROVE  QueueInv'
  <1>1. issued \in Nat /\ issued' \in Nat /\ frame \in [Proc -> Frames] /\ frame'[p] \in Frames
    BY DEF QueueInv, QueueTypeOK, RedisOK, FrameKept, FrameOK
  <1>2. frame' \in [Proc -> Frames]
    BY <1>1 DEF FrameKept
  <1>3. ASSUME NEW q \in Proc
        PROVE  FrameOK(frame'[q], issued')
    <2>1. CASE q = p
      BY <2>1 DEF FrameKept
    <2>2. CASE q # p
      <3>1. frame'[q] = frame[q]
        BY <2>2, <1>1 DEF FrameKept
      <3>2. FrameOK(frame[q], issued)
        BY DEF QueueInv
      <3> QED BY <3>1, <3>2, <1>1, FrameOKMonotonic
    <2> QED BY <2>1, <2>2
  <1> QED BY <1>1, <1>2, <1>3 DEF QueueInv, QueueTypeOK, RedisOK

(* Most steps touch no key and no mutex.                                   *)
LEMMA UnchangedRedis ==
  ASSUME QueueInv, UNCHANGED <<redis, mutex, now, issued>>, faults' \in Nat
  PROVE  RedisOK' /\ issued <= issued'
  BY DEF QueueInv, QueueTypeOK, RedisOK, redis, QueueInCommitOrder

(* The empty list is in order.                                             *)
LEMMA EmptyIncreasing == Increasing(<<>>)
  BY DEF Increasing

(* A call that returns leaves a frame that is in order: ScheduleLock       *)
(* returns with a queue id.                                                *)
LEMMA ReturnKeepsFrame ==
  ASSUME QueueInv, NEW p \in Proc, NEW r \in {"ok", "error"}, Return(p, r),
         ~At(p, "idle"), issued' \in Nat, issued <= issued',
         r = "ok" /\ frame[p].op = "schedule" => frame[p].ticket # NoTicket
  PROVE  FrameKept(p)
  <1> DEFINE f == frame[p]
             g == [f EXCEPT !.at = "done", !.items = <<>>, !.until = NoWindow,
                            !.expired = FALSE, !.res = IF f.expired THEN "error" ELSE r]
  <1>1. frame \in [Proc -> Frames] /\ FrameOK(f, issued) /\ f \in Frames /\ issued \in Nat
    BY DEF QueueInv, QueueTypeOK
  <1>2. frame' = [frame EXCEPT ![p] = g]
    BY DEF Return
  <1>3. frame'[p] = g
    BY <1>1, <1>2
  <1>4. g \in Frames
    <2>1. "done" \in Labels /\ <<>> \in Seq(Nat) /\ NoWindow \in Int
      BY EmptySeq DEF Labels, NoWindow
    <2>2. (IF f.expired THEN "error" ELSE r) \in {"none", "ok", "error"}
      OBVIOUS
    <2> QED BY <1>1, <2>1, <2>2 DEF Frames
  <1>5. /\ g.op = f.op /\ g.lock = f.lock /\ g.ticket = f.ticket
        /\ g.at = "done" /\ g.items = <<>> /\ g.res \in {r, "error"}
    BY <1>1 DEF Frames
  <1>6. <<>> \in Seq(1..issued)
    BY EmptySeq
  <1>7. FrameOK(g, issued)
    <2> HIDE DEF g
    <2> QED BY <1>1, <1>4, <1>5, <1>6, EmptyIncreasing DEF FrameOK, StepOK, At, AddLabels,
          TurnLabels, RemoveLabels, MoveLabels, EnterLabels
  <1>8. FrameOK(g, issued')
    <2> HIDE DEF g
    <2> QED BY <1>1, <1>7, FrameOKMonotonic
  <1> QED BY <1>2, <1>3, <1>8 DEF FrameKept

(* A call that goes on to its next command, with a list that is in order.  *)
LEMMA GotoKeepsFrame ==
  ASSUME QueueInv, NEW p \in Proc, NEW label \in Labels, NEW items \in Seq(1..issued),
         Increasing(items), GotoWith(p, label, items), ~At(p, "idle"), UNCHANGED issued,
         StepOK(frame[p].op, label, frame[p].ticket, items)
  PROVE  FrameKept(p)
  <1> DEFINE f == frame[p]
             g == [f EXCEPT !.at = label, !.items = items]
  <1>1. frame \in [Proc -> Frames] /\ FrameOK(f, issued) /\ f \in Frames /\ issued \in Nat
    BY DEF QueueInv, QueueTypeOK
  <1>2. frame' = [frame EXCEPT ![p] = g]
    BY DEF GotoWith
  <1>3. frame'[p] = g
    BY <1>1, <1>2
  <1>4. g \in Frames
    BY <1>1, SeqNat DEF Frames
  <1>5. /\ g.op = f.op /\ g.lock = f.lock /\ g.ticket = f.ticket
        /\ g.at = label /\ g.items = items /\ g.res = f.res
    BY <1>1 DEF Frames
  <1>6. FrameOK(g, issued)
    <2> HIDE DEF g
    <2> QED BY <1>1, <1>4, <1>5 DEF FrameOK, At
  <1> QED BY <1>2, <1>3, <1>6 DEF FrameKept

(* What is known of a goroutine in the middle of a call, and of its two    *)
(* keys.                                                                   *)
LEMMA FrameFacts ==
  ASSUME QueueInv, NEW p \in Proc, ~At(p, "idle")
  PROVE  /\ FrameOK(frame[p], issued)
         /\ StepOK(frame[p].op, frame[p].at, frame[p].ticket, frame[p].items)
         /\ issued \in Nat /\ frame[p].ticket \in 0..issued
         /\ frame[p].items \in Seq(1..issued) /\ Increasing(frame[p].items)
         /\ Own(p) \in Keys /\ HandoffKey(p) \in Keys
         /\ \A k \in Keys : queue[k] \in Seq(1..issued) /\ Increasing(queue[k])
  BY DEF QueueInv, QueueTypeOK, QueueInCommitOrder, FrameOK, At, Own, HandoffKey, Keys

(* Replacing one key's list, or one key's queue id, by another of its kind. *)
LEMMA WriteQueue ==
  ASSUME QueueInv, NEW k \in Keys, NEW items \in Seq(1..issued), Increasing(items),
         queue' = [queue EXCEPT ![k] = items],
         UNCHANGED <<nextUp, window, now, issued>>, UNCHANGED mutex, faults' \in Nat
  PROVE  RedisOK' /\ issued <= issued'
  BY DEF QueueInv, QueueTypeOK, RedisOK, QueueInCommitOrder

(* A queue id written to a ":qn" key.                                      *)
LEMMA WriteNext ==
  ASSUME QueueInv, NEW k \in Keys, NEW t \in 0..issued,
         nextUp' = [nextUp EXCEPT ![k] = t], mutex' \in [Locks -> Proc \cup {Free}],
         UNCHANGED <<queue, window, now, issued>>, faults' \in Nat
  PROVE  RedisOK' /\ issued <= issued'
  BY DEF QueueInv, QueueTypeOK, RedisOK, QueueInCommitOrder

(* A time written to a ":qt" key.                                          *)
LEMMA WriteWindow ==
  ASSUME QueueInv, NEW k \in Keys, NEW t \in Nat \cup {NoWindow},
         window' = [window EXCEPT ![k] = t], mutex' \in [Locks -> Proc \cup {Free}],
         UNCHANGED <<queue, nextUp, now, issued>>, faults' \in Nat
  PROVE  RedisOK' /\ issued <= issued'
  BY DEF QueueInv, QueueTypeOK, RedisOK, QueueInCommitOrder

Kept(p) == FrameKept(p) /\ RedisOK' /\ issued <= issued'

(* The result of a step that only reads.                                   *)
LEMMA ReadReturns ==
  ASSUME QueueInv, NEW p \in Proc, ~At(p, "idle"), NEW r \in {"ok", "error"}, Return(p, r),
         Reads, r = "ok" /\ frame[p].op = "schedule" => frame[p].ticket # NoTicket
  PROVE  Kept(p)
  <1>1. RedisOK' /\ issued <= issued'
    BY UnchangedRedis DEF Reads, QueueInv, QueueTypeOK
  <1>2. issued' \in Nat /\ issued <= issued'
    BY <1>1 DEF RedisOK
  <1>3. FrameKept(p)
    BY <1>2, ReturnKeepsFrame
  <1> QED BY <1>1, <1>3 DEF Kept

(* A step that only reads and goes on to the next command.                 *)
LEMMA ReadGoesOn ==
  ASSUME QueueInv, NEW p \in Proc, ~At(p, "idle"), NEW label \in Labels,
         NEW items \in Seq(1..issued), Increasing(items), GotoWith(p, label, items),
         Reads, StepOK(frame[p].op, label, frame[p].ticket, items)
  PROVE  Kept(p)
  <1>1. RedisOK' /\ issued <= issued'
    BY UnchangedRedis DEF Reads, QueueInv, QueueTypeOK
  <1>2. FrameKept(p)
    BY GotoKeepsFrame DEF Reads
  <1> QED BY <1>1, <1>2 DEF Kept
-----------------------------------------------------------------------------
(* The steps of each function of the package keep the invariant.           *)

(* The Set of addToQueue, whether its answer arrives or not.               *)
LEMMA AddedKeeps ==
  ASSUME QueueInv, NEW p \in Proc, At(p, "add.set"), WriteAdded(p),
         UNCHANGED <<nextUp, window, mutex, now>>, faults' \in Nat
  PROVE  RedisOK' /\ issued' = issued + 1 /\ issued' \in Nat /\ issued <= issued'
  <1>1. /\ issued \in Nat /\ Own(p) \in Keys
        /\ frame[p].items \in Seq(1..issued) /\ Increasing(frame[p].items)
    BY FrameFacts DEF At
  <1>2. issued' = issued + 1 /\ issued' \in Nat
    BY <1>1 DEF WriteAdded
  <1> DEFINE list == Enqueue(frame[p].items, issued')
  <1>3. list \in Seq(1..issued') /\ Increasing(list)
    BY <1>1, <1>2, AppendIncreasing DEF Enqueue
  <1>4. queue' = [queue EXCEPT ![Own(p)] = list]
    BY DEF WriteAdded
  <1>5. \A k \in Keys : queue[k] \in Seq(1..issued') /\ Increasing(queue[k])
    <2> SUFFICES ASSUME NEW k \in Keys
                 PROVE  queue[k] \in Seq(1..issued') /\ Increasing(queue[k])
      OBVIOUS
    <2>1. queue[k] \in Seq(1..issued) /\ Increasing(queue[k])
      BY DEF QueueInv, QueueTypeOK, QueueInCommitOrder
    <2>2. 1..issued \subseteq 1..issued'
      BY <1>1, <1>2
    <2> QED BY <2>1, <2>2, SeqMonotonic
  <1> HIDE DEF list
  <1>6. \A k \in Keys : queue'[k] \in Seq(1..issued') /\ Increasing(queue'[k])
    BY <1>3, <1>4, <1>5 DEF QueueInv, QueueTypeOK
  <1>7. queue' \in [Keys -> Seq(1..issued')]
    BY <1>4, <1>6 DEF QueueInv, QueueTypeOK
  <1>8. nextUp' \in [Keys -> 0..issued']
    BY <1>1, <1>2 DEF QueueInv, QueueTypeOK
  <1> QED BY <1>1, <1>2, <1>6, <1>7, <1>8
          DEF RedisOK, QueueInCommitOrder, QueueInv, QueueTypeOK

(* The Set of addToQueue when its answer arrives: the call goes on or      *)
(* returns the new queue id.                                               *)
LEMMA AddSetKeeps ==
  ASSUME QueueInv, NEW p \in Proc, AddSet(p)
  PROVE  Kept(p)
  <1>1. ~At(p, "idle") /\ frame[p].op = "schedule"
    BY FrameFacts DEF AddSet, At, StepOK, AddLabels
  <1>2. RedisOK' /\ issued' = issued + 1 /\ issued' \in Nat /\ issued <= issued'
    BY AddedKeeps DEF AddSet, QueueInv, QueueTypeOK
  <1> DEFINE f == frame[p]
             g == frame'[p]
  <1>3. frame \in [Proc -> Frames] /\ f \in Frames /\ FrameOK(f, issued) /\ issued \in Nat
    BY DEF QueueInv, QueueTypeOK
  <1>4. /\ frame' = [frame EXCEPT ![p] = g]
        /\ g \in Frames
        /\ g.op = f.op /\ g.lock = f.lock /\ g.ticket = issued'
        /\ \/ g.at = "add.next" /\ g.items = f.items
           \/ g.at = "done" /\ g.items = <<>>
    <2>1. "add.next" \in Labels /\ "done" \in Labels /\ <<>> \in Seq(Nat)
      BY EmptySeq DEF Labels, AddLabels
    <2>2. CASE f.items = <<>>
      BY <1>2, <1>3, <2>1, <2>2 DEF AddSet, Frames
    <2>3. CASE f.items # <<>>
      BY <1>2, <1>3, <2>1, <2>3 DEF AddSet, Frames
    <2> QED BY <2>2, <2>3
  <1>5. FrameOK(g, issued')
    <2>1. g.items \in Seq(1..issued') /\ Increasing(g.items)
      <3>1. f.items \in Seq(1..issued) /\ Increasing(f.items)
        BY <1>3 DEF FrameOK
      <3>2. 1..issued \subseteq 1..issued'
        BY <1>2, <1>3
      <3>3. f.items \in Seq(1..issued') /\ <<>> \in Seq(1..issued')
        BY <3>1, <3>2, SeqMonotonic, EmptySeq
      <3> QED BY <1>4, <3>1, <3>3, EmptyIncreasing
    <2> HIDE DEF g
    <2>2. g.lock \in Locks
      BY <1>1, <1>3, <1>4 DEF FrameOK, At
    <2>3. g.ticket \in 0..issued' /\ g.ticket # NoTicket
      BY <1>2, <1>3, <1>4 DEF NoTicket
    <2>4. StepOK(g.op, g.at, g.ticket, g.items)
      BY <1>1, <1>4, <2>3 DEF StepOK, AddLabels, TurnLabels, RemoveLabels, MoveLabels, EnterLabels
    <2> QED BY <1>1, <1>4, <2>1, <2>2, <2>3, <2>4 DEF FrameOK
  <1> QED BY <1>2, <1>4, <1>5 DEF Kept, FrameKept

(* Every step of addToQueue.                                               *)
LEMMA AddKeeps ==
  ASSUME QueueInv, NEW p \in Proc, AddStep(p)
  PROVE  Kept(p)
  <1> USE DEF StepOK, AddLabels, TurnLabels, RemoveLabels, MoveLabels, EnterLabels, Labels
  <1>1. CASE AddExists(p)
    BY <1>1, FrameFacts, ReadGoesOn DEF AddExists, Goto, At
  <1>2. CASE AddGet(p)
    <2>1. CASE queue[Own(p)] = <<>>
      BY <1>2, <2>1, ReadReturns DEF AddGet, GetQueue, At
    <2>2. CASE queue[Own(p)] # <<>>
      BY <1>2, <2>2, FrameFacts, ReadGoesOn DEF AddGet, GetQueue, At
    <2> QED BY <2>1, <2>2
  <1>3. CASE AddSet(p)
    BY <1>3, AddSetKeeps
  <1>4. CASE AddNext(p)
    <2>1. RedisOK' /\ issued <= issued'
      BY <1>4, FrameFacts, WriteNext DEF AddNext, WriteFounder, At, QueueInv, QueueTypeOK
    <2>2. FrameKept(p)
      BY <1>4, <2>1, FrameFacts, ReturnKeepsFrame DEF AddNext, At, RedisOK
    <2> QED BY <2>1, <2>2 DEF Kept
  <1> QED BY <1>1, <1>2, <1>3, <1>4 DEF AddStep

(* Every step of getPositionInQueue.                                       *)
LEMMA PositionKeeps ==
  ASSUME QueueInv, NEW p \in Proc, PositionStep(p)
  PROVE  Kept(p)
  <1> USE DEF StepOK, AddLabels, TurnLabels, RemoveLabels, MoveLabels, EnterLabels, Labels
  <1>1. CASE PositionExists(p)
    <2>1. CASE queue[Own(p)] = <<>>
      BY <1>1, <2>1, ReadReturns DEF PositionExists, At
    <2>2. CASE queue[Own(p)] # <<>>
      BY <1>1, <2>2, FrameFacts, ReadGoesOn DEF PositionExists, Goto, At
    <2> QED BY <2>1, <2>2
  <1>2. CASE PositionGet(p)
    BY <1>2, FrameFacts, ReadReturns DEF PositionGet, At
  <1> QED BY <1>1, <1>2 DEF PositionStep

(* The two steps that change the frame's copy of the expiry time.          *)
LEMMA WindowGetKeeps ==
  ASSUME QueueInv, NEW p \in Proc, WindowGet(p)
  PROVE  Kept(p)
  <1> USE DEF StepOK, AddLabels, TurnLabels, RemoveLabels, MoveLabels, EnterLabels, Labels
  <1>1. CASE window[Own(p)] = NoWindow
    BY <1>1, ReadReturns DEF WindowGet, At
  <1>2. CASE window[Own(p)] # NoWindow
    <2> DEFINE f == frame[p]
               g == [f EXCEPT !.at = "win.check", !.until = window[Own(p)]]
    <2>1. frame \in [Proc -> Frames] /\ f \in Frames /\ FrameOK(f, issued) /\ f.at = "win.get"
      BY DEF QueueInv, QueueTypeOK, WindowGet, At
    <2>2. window[Own(p)] \in Int
      BY FrameFacts DEF WindowGet, At, QueueInv, QueueTypeOK, NoWindow
    <2>3. frame' = [frame EXCEPT ![p] = g] /\ g = frame'[p]
      BY <1>2, <2>1 DEF WindowGet
    <2>4. /\ g \in Frames /\ g.op = f.op /\ g.lock = f.lock /\ g.ticket = f.ticket
          /\ g.at = "win.check" /\ g.items = f.items /\ g.res = f.res
      BY <2>1, <2>2 DEF Frames
    <2>5. FrameOK(g, issued)
      <3> HIDE DEF g
      <3> QED BY <2>1, <2>4 DEF FrameOK
    <2>6. UNCHANGED issued /\ RedisOK' /\ issued <= issued'
      BY UnchangedRedis DEF WindowGet, Reads, QueueInv, QueueTypeOK
    <2> HIDE DEF g
    <2> QED BY <2>3, <2>5, <2>6 DEF Kept, FrameKept
  <1> QED BY <1>1, <1>2

(* ... and compares it with the clock.                                     *)
LEMMA WindowCheckKeeps ==
  ASSUME QueueInv, NEW p \in Proc, WindowCheck(p)
  PROVE  Kept(p)
  <1> USE DEF StepOK, AddLabels, TurnLabels, RemoveLabels, MoveLabels, EnterLabels, Labels
  <1> DEFINE f == frame[p]
             g == IF now > f.until
                  THEN [f EXCEPT !.at = "mov.exists", !.expired = TRUE]
                  ELSE [f EXCEPT !.at = "rem.exists"]
  <1>1. frame \in [Proc -> Frames] /\ f \in Frames /\ FrameOK(f, issued) /\ f.at = "win.check"
    BY DEF QueueInv, QueueTypeOK, WindowCheck, At
  <1>2. frame' = [frame EXCEPT ![p] = g] /\ g = frame'[p]
    <2>1. CASE now > f.until
      BY <1>1, <2>1 DEF WindowCheck
    <2>2. CASE ~(now > f.until)
      BY <1>1, <2>2 DEF WindowCheck
    <2> QED BY <2>1, <2>2
  <1>3. /\ g \in Frames /\ g.op = f.op /\ g.lock = f.lock /\ g.ticket = f.ticket
        /\ g.at \in {"mov.exists", "rem.exists"} /\ g.items = f.items /\ g.res = f.res
    BY <1>1 DEF Frames
  <1>4. FrameOK(g, issued)
    <2> HIDE DEF g
    <2> QED BY <1>1, <1>3 DEF FrameOK
  <1>5. UNCHANGED issued /\ RedisOK' /\ issued <= issued'
    BY UnchangedRedis DEF WindowCheck, Reads, QueueInv, QueueTypeOK
  <1> HIDE DEF g
  <1> QED BY <1>2, <1>4, <1>5 DEF Kept, FrameKept

(* Every step of isNextInQueue.                                            *)
LEMMA TurnKeeps ==
  ASSUME QueueInv, NEW p \in Proc, TurnStep(p)
  PROVE  Kept(p)
  <1> USE DEF StepOK, AddLabels, TurnLabels, RemoveLabels, MoveLabels, EnterLabels, Labels
  <1>1. CASE NextExists(p)
    <2>1. CASE nextUp[Own(p)] = NoTicket
      BY <1>1, <2>1, ReadReturns DEF NextExists, At
    <2>2. CASE nextUp[Own(p)] # NoTicket
      BY <1>1, <2>2, FrameFacts, ReadGoesOn DEF NextExists, Goto, At
    <2> QED BY <2>1, <2>2
  <1>2. CASE NextGet(p)
    <2>1. CASE nextUp[Own(p)] = frame[p].ticket
      BY <1>2, <2>1, FrameFacts, ReadGoesOn DEF NextGet, Goto, At
    <2>2. CASE nextUp[Own(p)] # frame[p].ticket
      BY <1>2, <2>2, ReadReturns DEF NextGet, At
    <2> QED BY <2>1, <2>2
  <1>3. CASE WindowExists(p)
    BY <1>3, FrameFacts, ReadGoesOn DEF WindowExists, Goto, At
  <1>4. CASE WindowGet(p)
    BY <1>4, WindowGetKeeps
  <1>5. CASE WindowCheck(p)
    BY <1>5, WindowCheckKeeps
  <1> QED BY <1>1, <1>2, <1>3, <1>4, <1>5 DEF TurnStep

(* The Set of removeFromQueue, whether its answer arrives or not.          *)
LEMMA RemovedKeeps ==
  ASSUME QueueInv, NEW p \in Proc, At(p, "rem.set"), WriteRemoved(p),
         UNCHANGED <<nextUp, window, mutex, now, issued>>, faults' \in Nat
  PROVE  RedisOK' /\ issued <= issued'
  <1> DEFINE items == frame[p].items
             i == Index(items, frame[p].ticket)
             list == RemoveAt(items, i)
  <1>1. /\ issued \in Nat /\ Own(p) \in Keys /\ items \in Seq(1..issued) /\ Increasing(items)
        /\ frame[p].ticket \in Range(items)
    BY FrameFacts DEF At, StepOK
  <1>2. i \in 1..Len(items)
    BY <1>1, IndexInRange
  <1>3. list \in Seq(1..issued) /\ Increasing(list)
    BY <1>1, <1>2, RemoveAtIncreasing
  <1>4. queue' = [queue EXCEPT ![Own(p)] = list]
    BY DEF WriteRemoved
  <1> HIDE DEF list
  <1> QED BY <1>1, <1>3, <1>4, WriteQueue

(* Every step of removeFromQueue.                                          *)
LEMMA RemoveKeeps ==
  ASSUME QueueInv, NEW p \in Proc, RemoveStep(p)
  PROVE  Kept(p)
  <1> USE DEF StepOK, AddLabels, TurnLabels, RemoveLabels, MoveLabels, EnterLabels, Labels
  <1>1. CASE RemoveExists(p)
    <2>1. CASE queue[Own(p)] = <<>>
      BY <1>1, <2>1, ReadReturns DEF RemoveExists, At
    <2>2. CASE queue[Own(p)] # <<>>
      BY <1>1, <2>2, FrameFacts, ReadGoesOn DEF RemoveExists, Goto, At
    <2> QED BY <2>1, <2>2
  <1>2. CASE RemoveGet(p)
    <2>1. CASE frame[p].ticket \in Range(queue[Own(p)])
      BY <1>2, <2>1, FrameFacts, ReadGoesOn DEF RemoveGet, At
    <2>2. CASE frame[p].ticket \notin Range(queue[Own(p)])
      BY <1>2, <2>2, ReadReturns DEF RemoveGet, At
    <2> QED BY <2>1, <2>2
  <1>3. CASE RemoveNext(p)
    BY <1>3, FrameFacts, ReadGoesOn DEF RemoveNext, Goto, At
  <1>4. CASE RemoveNextGet(p)
    <2>1. <<>> \in Seq(1..issued) /\ Increasing(<<>>)
      BY EmptySeq, EmptyIncreasing
    <2>2. CASE GotoWith(p, "mov.exists", <<>>)
      BY <1>4, <2>1, <2>2, FrameFacts, ReadGoesOn DEF RemoveNextGet, At
    <2>3. CASE Goto(p, "rem.set")
      BY <1>4, <2>3, FrameFacts, ReadGoesOn DEF RemoveNextGet, Goto, At
    <2> QED BY <1>4, <2>2, <2>3 DEF RemoveNextGet
  <1>5. CASE RemoveSet(p)
    <2>1. RedisOK' /\ issued <= issued'
      BY <1>5, RemovedKeeps DEF RemoveSet, QueueInv, QueueTypeOK
    <2>2. FrameKept(p)
      BY <1>5, <2>1, FrameFacts, ReturnKeepsFrame DEF RemoveSet, At, RedisOK
    <2> QED BY <2>1, <2>2 DEF Kept
  <1> QED BY <1>1, <1>2, <1>3, <1>4, <1>5 DEF RemoveStep

(* The Set of moveToNextClient, whether its answer arrives or not.         *)
LEMMA MovedKeeps ==
  ASSUME QueueInv, NEW p \in Proc, At(p, "mov.set"), WriteMoved(p),
         UNCHANGED <<nextUp, window, mutex, now, issued>>, faults' \in Nat
  PROVE  RedisOK' /\ issued <= issued'
  <1> DEFINE list == Popped(frame[p].items)
  <1>1. /\ issued \in Nat /\ Own(p) \in Keys /\ frame[p].items # <<>>
        /\ frame[p].items \in Seq(1..issued) /\ Increasing(frame[p].items)
    BY FrameFacts DEF At, StepOK
  <1>2. list \in Seq(1..issued) /\ Increasing(list)
    BY <1>1, TailIncreasing DEF Popped
  <1>3. queue' = [queue EXCEPT ![Own(p)] = list]
    BY DEF WriteMoved
  <1> HIDE DEF list
  <1> QED BY <1>1, <1>2, <1>3, WriteQueue

(* Every step of moveToNextClient.                                         *)
LEMMA MoveKeeps ==
  ASSUME QueueInv, NEW p \in Proc, MoveStep(p)
  PROVE  Kept(p)
  <1> USE DEF StepOK, AddLabels, TurnLabels, RemoveLabels, MoveLabels, EnterLabels, Labels
  <1>e. <<>> \in Seq(1..issued) /\ Increasing(<<>>)
    BY EmptySeq, EmptyIncreasing
  <1>t. /\ mutex \in [Locks -> Proc \cup {Free}] /\ faults \in Nat /\ issued \in Nat
        /\ NoTicket \in 0..issued
    BY DEF QueueInv, QueueTypeOK, NoTicket
  <1>1. CASE MoveExists(p)
    BY <1>1, FrameFacts, ReadGoesOn DEF MoveExists, Goto, At
  <1>2. CASE MoveDropNext(p)
    <2>1. RedisOK' /\ issued <= issued'
      BY <1>2, <1>t, FrameFacts, WriteNext DEF MoveDropNext, At
    <2>2. FrameKept(p)
      BY <1>2, FrameFacts, GotoKeepsFrame DEF MoveDropNext, Goto, At
    <2> QED BY <2>1, <2>2 DEF Kept
  <1>3. CASE MoveDropWindow(p)
    <2>1. RedisOK' /\ issued <= issued'
      BY <1>3, <1>t, FrameFacts, WriteWindow DEF MoveDropWindow, At
    <2>2. FrameKept(p)
      BY <1>3, <2>1, FrameFacts, ReturnKeepsFrame DEF MoveDropWindow, At, RedisOK
    <2> QED BY <2>1, <2>2 DEF Kept
  <1>4. CASE MoveGet(p)
    <2>1. CASE queue[Own(p)] = <<>>
      BY <1>4, <2>1, ReadReturns DEF MoveGet, GetQueue, At
    <2>2. CASE queue[Own(p)] # <<>>
      BY <1>4, <2>2, FrameFacts, ReadGoesOn DEF MoveGet, GetQueue, At
    <2> QED BY <2>1, <2>2
  <1>5. CASE MoveWindow(p)
    <2>1. RedisOK' /\ issued <= issued'
      BY <1>5, <1>t, FrameFacts, WriteWindow DEF MoveWindow, At
    <2>2. FrameKept(p)
      BY <1>5, FrameFacts, GotoKeepsFrame DEF MoveWindow, AfterPop, Goto, At
    <2> QED BY <2>1, <2>2 DEF Kept
  <1>6. CASE MoveClear(p)
    <2>1. RedisOK' /\ issued <= issued'
      BY <1>6, <1>e, <1>t, FrameFacts, WriteQueue DEF MoveClear, At
    <2>2. FrameKept(p)
      BY <1>6, FrameFacts, GotoKeepsFrame DEF MoveClear, Goto, At
    <2> QED BY <2>1, <2>2 DEF Kept
  <1>7. CASE MoveClearNext(p)
    <2>1. RedisOK' /\ issued <= issued'
      BY <1>7, <1>t, FrameFacts, WriteNext DEF MoveClearNext, At
    <2>2. FrameKept(p)
      BY <1>7, <2>1, FrameFacts, ReturnKeepsFrame DEF MoveClearNext, At, RedisOK
    <2> QED BY <2>1, <2>2 DEF Kept
  <1>8. CASE MoveSet(p)
    <2>1. RedisOK' /\ issued <= issued'
      BY <1>8, <1>t, MovedKeeps DEF MoveSet
    <2>2. CASE HandoffConfigured
      BY <1>8, <1>e, <2>1, <2>2, FrameFacts, GotoKeepsFrame DEF MoveSet, At, Kept
    <2>3. CASE ~HandoffConfigured
      <3>1. FrameKept(p)
        BY <1>8, <2>1, <2>3, ReturnKeepsFrame DEF MoveSet, At, RedisOK
      <3> QED BY <2>1, <3>1 DEF Kept
    <2> QED BY <2>2, <2>3
  <1> QED BY <1>1, <1>2, <1>3, <1>4, <1>5, <1>6, <1>7, <1>8 DEF MoveStep

(* mutex.Unlock, deferred by enterNextClientTimeoutPeriod.                 *)
LEMMA UnlockKeeps ==
  ASSUME QueueInv, NEW p \in Proc, Unlock(p)
  PROVE  mutex' \in [Locks -> Proc \cup {Free}]
  BY DEF Unlock, QueueInv, QueueTypeOK

(* A step that changes nothing but the frame and the mutex.                *)
LEMMA MutexKeeps ==
  ASSUME QueueInv, mutex' \in [Locks -> Proc \cup {Free}],
         UNCHANGED <<redis, now, issued>>, faults' \in Nat
  PROVE  RedisOK' /\ issued <= issued' /\ issued' \in Nat
  BY DEF QueueInv, QueueTypeOK, RedisOK, redis, QueueInCommitOrder

(* The Set of ":qn" in enterNextClientTimeoutPeriod writes the first       *)
(* client of a list it read.                                               *)
LEMMA TurnWritten ==
  ASSUME QueueInv, NEW p \in Proc, At(p, "ent.next"), WriteTurn(p),
         mutex' \in [Locks -> Proc \cup {Free}],
         UNCHANGED <<queue, window, now, issued>>, faults' \in Nat
  PROVE  RedisOK' /\ issued <= issued'
  <1>1. /\ frame[p].items \in Seq(1..issued) /\ frame[p].items # <<>> /\ issued \in Nat
        /\ HandoffKey(p) \in Keys
    BY FrameFacts DEF At, StepOK
  <1>2. Head(frame[p].items) \in 0..issued
    <2>1. Head(frame[p].items) \in 1..issued
      BY <1>1, HeadTailProperties
    <2> QED BY <1>1, <2>1
  <1> QED BY <1>1, <1>2, WriteNext DEF WriteTurn

(* The Set of ":qt" writes a time, since the timeout was parsed before.    *)
LEMMA ExpiryWritten ==
  ASSUME QueueInv, NEW p \in Proc, At(p, "ent.window"), WriteExpiry(p),
         mutex' \in [Locks -> Proc \cup {Free}],
         UNCHANGED <<queue, nextUp, now, issued>>, faults' \in Nat
  PROVE  RedisOK' /\ issued <= issued'
  <1>1. HandoffConfigured /\ HandoffKey(p) \in Keys
    BY FrameFacts DEF At, StepOK, EnterLabels
  <1>2. now + Timeout \in Nat
    BY <1>1, TimeoutAssumption DEF HandoffConfigured, QueueInv, QueueTypeOK
  <1> QED BY <1>1, <1>2, WriteWindow DEF WriteExpiry

(* Every step of enterNextClientTimeoutPeriod, waiting for the mutex       *)
(* included.                                                               *)
LEMMA EnterKeeps ==
  ASSUME QueueInv, NEW p \in Proc, EnterStep(p) \/ EnterLock(p)
  PROVE  Kept(p)
  <1> USE DEF StepOK, AddLabels, TurnLabels, RemoveLabels, MoveLabels, EnterLabels, Labels
  <1>t. mutex \in [Locks -> Proc \cup {Free}] /\ faults \in Nat /\ issued \in Nat
    BY DEF QueueInv, QueueTypeOK
  <1>1. CASE EnterLock(p)
    <2>1. mutex' \in [Locks -> Proc \cup {Free}]
      BY <1>1, <1>t DEF EnterLock
    <2>2. RedisOK' /\ issued <= issued'
      BY <1>1, <1>t, <2>1, MutexKeeps DEF EnterLock
    <2>3. FrameKept(p)
      BY <1>1, FrameFacts, GotoKeepsFrame DEF EnterLock, Goto, At
    <2> QED BY <2>2, <2>3 DEF Kept
  <1>2. CASE EnterExists(p)
    <2>1. mutex' \in [Locks -> Proc \cup {Free}]
      BY <1>2, <1>t, UnlockKeeps DEF EnterExists
    <2>2. RedisOK' /\ issued <= issued' /\ issued' \in Nat
      BY <1>2, <1>t, <2>1, MutexKeeps DEF EnterExists
    <2>3. FrameKept(p)
      <3>1. CASE queue[HandoffKey(p)] = <<>>
        BY <1>2, <2>2, <3>1, FrameFacts, ReturnKeepsFrame DEF EnterExists, At
      <3>2. CASE queue[HandoffKey(p)] # <<>>
        BY <1>2, <3>2, FrameFacts, GotoKeepsFrame DEF EnterExists, Goto, At
      <3> QED BY <3>1, <3>2
    <2> QED BY <2>2, <2>3 DEF Kept
  <1>3. CASE EnterGet(p)
    <2>1. mutex' \in [Locks -> Proc \cup {Free}]
      BY <1>3, <1>t, UnlockKeeps DEF EnterGet
    <2>2. RedisOK' /\ issued <= issued' /\ issued' \in Nat
      BY <1>3, <1>t, <2>1, MutexKeeps DEF EnterGet
    <2>3. FrameKept(p)
      <3>1. CASE queue[HandoffKey(p)] = <<>>
        BY <1>3, <2>2, <3>1, ReturnKeepsFrame DEF EnterGet, At
      <3>2. CASE queue[HandoffKey(p)] # <<>>
        BY <1>3, <3>2, FrameFacts, GotoKeepsFrame DEF EnterGet, At
      <3> QED BY <3>1, <3>2
    <2> QED BY <2>2, <2>3 DEF Kept
  <1>4. CASE EnterNext(p)
    <2>1. RedisOK' /\ issued <= issued'
      BY <1>4, <1>t, TurnWritten DEF EnterNext
    <2>2. FrameKept(p)
      BY <1>4, FrameFacts, GotoKeepsFrame DEF EnterNext, Goto, At
    <2> QED BY <2>1, <2>2 DEF Kept
  <1>5. CASE EnterWindow(p)
    <2>1. RedisOK' /\ issued <= issued'
      BY <1>5, <1>t, UnlockKeeps, ExpiryWritten DEF EnterWindow
    <2>2. FrameKept(p)
      BY <1>5, <2>1, FrameFacts, ReturnKeepsFrame DEF EnterWindow, At, RedisOK
    <2> QED BY <2>1, <2>2 DEF Kept
  <1> QED BY <1>1, <1>2, <1>3, <1>4, <1>5 DEF EnterStep

(* Every way a command can fail.                                           *)
LEMMA FailKeeps ==
  ASSUME QueueInv, NEW p \in Proc, FailStep(p)
  PROVE  Kept(p)
  <1> USE DEF StepOK, AddLabels, TurnLabels, RemoveLabels, MoveLabels, EnterLabels, Labels
  <1>t. mutex \in [Locks -> Proc \cup {Free}] /\ faults \in Nat /\ issued \in Nat
    BY DEF QueueInv, QueueTypeOK
  <1>1. CASE CommandFails(p)
    <2>1. mutex' \in [Locks -> Proc \cup {Free}] /\ faults' \in Nat
      BY <1>1, <1>t, UnlockKeeps DEF CommandFails, Fails
    <2>2. RedisOK' /\ issued <= issued' /\ issued' \in Nat
      BY <1>1, <2>1, MutexKeeps DEF CommandFails
    <2>3. FrameKept(p)
      BY <1>1, <2>2, ReturnKeepsFrame DEF CommandFails, Fallible, At
    <2> QED BY <2>2, <2>3 DEF Kept
  <1>2. CASE AnswerLost(p)
    <2>1. mutex' \in [Locks -> Proc \cup {Free}] /\ faults' \in Nat
      BY <1>2, <1>t, UnlockKeeps DEF AnswerLost, Fails
    <2>2. RedisOK' /\ issued <= issued'
      <3>1. CASE At(p, "add.set")
        BY <1>2, <2>1, <3>1, AddedKeeps DEF AnswerLost, At
      <3>2. CASE At(p, "add.next")
        BY <1>2, <1>t, <2>1, <3>2, FrameFacts, WriteNext DEF AnswerLost, WriteFounder, At
      <3>3. CASE At(p, "rem.set")
        BY <1>2, <2>1, <3>3, RemovedKeeps DEF AnswerLost, At
      <3>4. CASE At(p, "mov.set")
        BY <1>2, <2>1, <3>4, MovedKeeps DEF AnswerLost, At
      <3>5. CASE At(p, "ent.next")
        BY <1>2, <2>1, <3>5, TurnWritten DEF AnswerLost, At
      <3>6. CASE At(p, "ent.window")
        BY <1>2, <2>1, <3>6, ExpiryWritten DEF AnswerLost, At
      <3> QED BY <1>2, <3>1, <3>2, <3>3, <3>4, <3>5, <3>6 DEF AnswerLost
    <2>3. FrameKept(p)
      BY <1>2, <2>2, ReturnKeepsFrame DEF AnswerLost, At, RedisOK
    <2> QED BY <2>2, <2>3 DEF Kept
  <1>3. CASE NextKeyUnreadable(p)
    <2>1. RedisOK' /\ issued <= issued'
      BY <1>3, <1>t, UnchangedRedis DEF NextKeyUnreadable, Fails
    <2>2. FrameKept(p)
      BY <1>3, FrameFacts, GotoKeepsFrame DEF NextKeyUnreadable, Goto, At
    <2> QED BY <2>1, <2>2 DEF Kept
  <1>4. CASE DeleteFails(p)
    <2>1. RedisOK' /\ issued <= issued' /\ issued' \in Nat
      BY <1>4, <1>t, UnchangedRedis DEF DeleteFails, Fails, RedisOK
    <2>2. FrameKept(p)
      <3>1. CASE At(p, "mov.dropnext")
        BY <1>4, <3>1, FrameFacts, GotoKeepsFrame DEF DeleteFails, Goto, At
      <3>2. CASE At(p, "mov.window")
        BY <1>4, <3>2, FrameFacts, GotoKeepsFrame DEF DeleteFails, AfterPop, Goto, At
      <3>3. CASE At(p, "mov.clear")
        BY <1>4, <3>3, FrameFacts, GotoKeepsFrame DEF DeleteFails, Goto, At
      <3>4. CASE ~At(p, "mov.dropnext") /\ ~At(p, "mov.window") /\ ~At(p, "mov.clear")
        <4>1. Return(p, "ok") /\ frame[p].at \in RemoveLabels \cup MoveLabels
          BY <1>4, <3>4 DEF DeleteFails, Deletes, EmptiesQueue, At
        <4>2. ~At(p, "idle") /\ frame[p].op = "acquire"
          BY <4>1, FrameFacts DEF At
        <4> QED BY <2>1, <4>1, <4>2, ReturnKeepsFrame
      <3> QED BY <3>1, <3>2, <3>3, <3>4
    <2> QED BY <2>1, <2>2 DEF Kept
  <1> QED BY <1>1, <1>2, <1>3, <1>4 DEF FailStep

-----------------------------------------------------------------------------
(* Opening and closing a frame.                                            *)

(* A goroutine in no call has a frame that is in order.                    *)
LEMMA IdleFrameOK ==
  ASSUME NEW n \in Nat
  PROVE  FrameOK(IdleFrame, n)
  <1>1. "idle" \in Labels /\ <<>> \in Seq(Nat) /\ <<>> \in Seq(1..n)
    BY EmptySeq DEF Labels
  <1> QED BY <1>1, EmptyIncreasing DEF FrameOK, IdleFrame, Frames, StepOK, AddLabels,
             TurnLabels, RemoveLabels, MoveLabels, EnterLabels, NoTicket, NoWindow

(* A call is opened with a queue id that was issued.                       *)
LEMMA StartKeeps ==
  ASSUME QueueInv, NEW p \in Proc, NEW l \in Locks, NEW t \in 0..issued, NEW op \in QueueOps,
         NEW label \in {"add.exists", "pos.exists", "next.exists", "ent.lock"},
         label = "add.exists" => op = "schedule",
         label = "pos.exists" => op = "position",
         label = "next.exists" => op = "acquire",
         label = "ent.lock" => op = "release" /\ HandoffConfigured,
         op = "acquire" => t # NoTicket,
         Start(p, op, l, t, label)
  PROVE  Kept(p)
  <1> DEFINE g == [IdleFrame EXCEPT !.op = op, !.lock = l, !.ticket = t, !.at = label]
  <1>1. frame \in [Proc -> Frames] /\ issued \in Nat
    BY DEF QueueInv, QueueTypeOK
  <1>2. frame' = [frame EXCEPT ![p] = g] /\ frame'[p] = g
    BY <1>1 DEF Start
  <1>3. /\ g \in Frames /\ g.op = op /\ g.lock = l /\ g.ticket = t /\ g.at = label
        /\ g.items = <<>> /\ g.res = "none"
    <2>1. IdleFrame \in Frames /\ IdleFrame.items = <<>> /\ IdleFrame.res = "none"
      BY IdleFrameOK, <1>1 DEF FrameOK, IdleFrame
    <2>2. label \in Labels /\ t \in Nat
      BY <1>1 DEF Labels, AddLabels, TurnLabels
    <2> QED BY <2>1, <2>2 DEF Frames
  <1>4. FrameOK(g, issued)
    <2> HIDE DEF g
    <2> QED BY <1>1, <1>3, EmptySeq, EmptyIncreasing DEF FrameOK, StepOK, AddLabels, TurnLabels,
          RemoveLabels, MoveLabels, EnterLabels
  <1>5. RedisOK' /\ issued <= issued' /\ issued' = issued
    BY UnchangedRedis DEF Start, QueueInv, QueueTypeOK
  <1> HIDE DEF g
  <1> QED BY <1>2, <1>4, <1>5 DEF Kept, FrameKept

(* ReleaseLock, which may return before it sends a command.                *)
LEMMA StartReleaseKeeps ==
  ASSUME QueueInv, NEW p \in Proc, NEW l \in Locks, StartRelease(p, l)
  PROVE  Kept(p)
  <1>1. CASE HandoffConfigured
    <2>1. NoTicket \in 0..issued
      BY DEF NoTicket, QueueInv, QueueTypeOK
    <2> QED BY <1>1, <2>1, StartKeeps DEF StartRelease, QueueOps
  <1>2. CASE ~HandoffConfigured
    <2> DEFINE g == [IdleFrame EXCEPT !.op = "release", !.lock = l, !.at = "done", !.res = "error"]
    <2>1. frame \in [Proc -> Frames] /\ issued \in Nat
      BY DEF QueueInv, QueueTypeOK
    <2>2. frame' = [frame EXCEPT ![p] = g] /\ frame'[p] = g
      BY <1>2, <2>1 DEF StartRelease
    <2>3. /\ g \in Frames /\ g.op = "release" /\ g.lock = l /\ g.ticket = 0 /\ g.at = "done"
          /\ g.items = <<>> /\ g.res = "error"
      <3>1. /\ IdleFrame \in Frames /\ IdleFrame.items = <<>> /\ IdleFrame.ticket = 0
        BY IdleFrameOK, <2>1 DEF FrameOK, IdleFrame, NoTicket
      <3>2. "done" \in Labels /\ "release" \in QueueOps
        BY DEF Labels, QueueOps
      <3> QED BY <3>1, <3>2 DEF Frames
    <2>4. FrameOK(g, issued)
      <3> HIDE DEF g
      <3> QED BY <2>1, <2>3, EmptySeq, EmptyIncreasing DEF FrameOK, StepOK, AddLabels, TurnLabels,
            RemoveLabels, MoveLabels, EnterLabels
    <2>5. RedisOK' /\ issued <= issued' /\ issued' = issued
      BY <1>2, UnchangedRedis DEF StartRelease, QueueInv, QueueTypeOK
    <2> HIDE DEF g
    <2> QED BY <2>2, <2>4, <2>5 DEF Kept, FrameKept
  <1> QED BY <1>1, <1>2

(* A call is closed.                                                       *)
LEMMA CloseKeeps ==
  ASSUME QueueInv, NEW p \in Proc, Close(p),
         UNCHANGED <<redis, mutex, now, issued, faults>>
  PROVE  Kept(p)
  <1>1. frame \in [Proc -> Frames] /\ issued \in Nat
    BY DEF QueueInv, QueueTypeOK
  <1>2. frame' = [frame EXCEPT ![p] = IdleFrame] /\ frame'[p] = IdleFrame
    BY <1>1 DEF Close
  <1>3. RedisOK' /\ issued <= issued' /\ issued' = issued
    BY UnchangedRedis DEF QueueInv, QueueTypeOK
  <1> QED BY <1>1, <1>2, <1>3, IdleFrameOK DEF Kept, FrameKept

-----------------------------------------------------------------------------
(* The invariant, for whoever calls the package.                           *)

(* The invariant holds before the first call.                              *)
LEMMA QueueInitInv == QueueInit => QueueInv
  <1> SUFFICES ASSUME QueueInit PROVE QueueInv
    OBVIOUS
  <1>1. \A p \in Proc : frame[p] = IdleFrame /\ FrameOK(frame[p], issued)
    BY IdleFrameOK DEF QueueInit
  <1>2. frame \in [Proc -> Frames]
    BY <1>1 DEF QueueInit, FrameOK
  <1>3. \A k \in Keys : queue[k] = <<>>
    BY DEF QueueInit
  <1>4. queue \in [Keys -> Seq(1..issued)]
    BY EmptySeq DEF QueueInit
  <1>5. QueueInCommitOrder
    BY <1>3, EmptyIncreasing DEF QueueInCommitOrder
  <1> QED BY <1>1, <1>2, <1>4, <1>5 DEF QueueInv, QueueTypeOK, QueueInit, NoTicket, NoWindow

(* Every step of a goroutine keeps the invariant.                          *)
LEMMA QueueStepInv ==
  ASSUME QueueInv, NEW p \in Proc, QueueStep(p)
  PROVE  QueueInv' /\ Kept(p)
  <1>1. Kept(p)
    BY AddKeeps, PositionKeeps, TurnKeeps, RemoveKeeps, MoveKeeps, EnterKeeps, FailKeeps
       DEF QueueStep, QueueCommand
  <1> QED BY <1>1, KeptInv DEF Kept

(* The process dies between any two commands.                              *)
LEMMA CrashInv ==
  ASSUME QueueInv, QueueCrash
  PROVE  QueueInv'
  <1>1. \A p \in Proc : frame'[p] = IdleFrame
    BY DEF QueueCrash
  <1>2. mutex' \in [Locks -> Proc \cup {Free}] /\ faults' \in Nat /\ issued \in Nat
    BY DEF QueueCrash, Fails, QueueInv, QueueTypeOK
  <1>3. RedisOK' /\ issued' = issued
    BY <1>2, MutexKeeps DEF QueueCrash
  <1>4. \A p \in Proc : FrameOK(frame'[p], issued')
    BY <1>1, <1>2, <1>3, IdleFrameOK
  <1>5. frame' \in [Proc -> Frames]
    BY <1>1, <1>4 DEF QueueCrash, FrameOK
  <1> QED BY <1>3, <1>4, <1>5 DEF QueueInv, QueueTypeOK, RedisOK

(* The clock advances.                                                     *)
LEMMA TickInv ==
  ASSUME QueueInv, Tick
  PROVE  QueueInv'
  BY DEF Tick, QueueInv, QueueTypeOK, redis, QueueInCommitOrder

(* Nothing happens.                                                        *)
LEMMA QueueStutterInv ==
  ASSUME QueueInv, UNCHANGED queueVars
  PROVE  QueueInv'
  BY DEF queueVars, QueueInv, QueueTypeOK, QueueInCommitOrder

-----------------------------------------------------------------------------
(* How a goroutine moves through its call.                                 *)

(* Opened calls: a step only touches the frame of its goroutine, keeps the *)
(* call it is, and gives it a queue id only in the Set of addToQueue.      *)
LEMMA StepFrame ==
  ASSUME QueueInv, NEW p \in Proc, QueueStep(p)
  PROVE  /\ frame' = [frame EXCEPT ![p] = frame'[p]]
         /\ frame'[p].op = frame[p].op /\ frame'[p].lock = frame[p].lock
         /\ ~At(p, "idle")
         /\ frame'[p].ticket = frame[p].ticket \/ At(p, "add.set")
  <1>f. frame \in [Proc -> Frames] /\ frame[p] \in Frames
    BY DEF QueueInv, QueueTypeOK
  <1>1. frame' = [frame EXCEPT ![p] = frame'[p]]
    BY QueueStepInv DEF Kept, FrameKept
  <1>r. ASSUME NEW r, Return(p, r)
        PROVE  frame'[p].op = frame[p].op /\ frame'[p].lock = frame[p].lock
                 /\ frame'[p].ticket = frame[p].ticket
    BY <1>f, <1>r DEF Return, Frames
  <1>g. ASSUME NEW label, NEW items, GotoWith(p, label, items)
        PROVE  frame'[p].op = frame[p].op /\ frame'[p].lock = frame[p].lock
                 /\ frame'[p].ticket = frame[p].ticket
    BY <1>f, <1>g DEF GotoWith, Frames
  <1>2. CASE AddStep(p)
    <2>1. CASE AddSet(p)
      BY <1>1, <1>f, <2>1 DEF AddSet, At, Frames
    <2>2. CASE AddExists(p) \/ AddGet(p) \/ AddNext(p)
      BY <1>1, <1>r, <1>g, <2>2 DEF AddExists, AddGet, AddNext, GetQueue, Goto, At
    <2> QED BY <1>2, <2>1, <2>2 DEF AddStep
  <1>3. CASE PositionStep(p)
    BY <1>1, <1>r, <1>g, <1>3 DEF PositionStep, PositionExists, PositionGet, Goto, At
  <1>4. CASE TurnStep(p)
    <2>1. CASE WindowGet(p)
      <3>1. CASE window[Own(p)] = NoWindow
        BY <1>1, <1>r, <2>1, <3>1 DEF WindowGet, At
      <3>2. CASE window[Own(p)] # NoWindow
        BY <1>1, <1>f, <2>1, <3>2 DEF WindowGet, At, Frames
      <3> QED BY <3>1, <3>2
    <2>2. CASE WindowCheck(p)
      BY <1>1, <1>f, <2>2 DEF WindowCheck, At, Frames
    <2>3. CASE NextExists(p) \/ NextGet(p) \/ WindowExists(p)
      BY <1>1, <1>r, <1>g, <2>3 DEF NextExists, NextGet, WindowExists, Goto, At
    <2> QED BY <1>4, <2>1, <2>2, <2>3 DEF TurnStep
  <1>5. CASE RemoveStep(p)
    BY <1>1, <1>r, <1>g, <1>5
       DEF RemoveStep, RemoveExists, RemoveGet, RemoveNext, RemoveNextGet, RemoveSet, Goto, At
  <1>6. CASE MoveStep(p)
    BY <1>1, <1>r, <1>g, <1>6
       DEF MoveStep, MoveExists, MoveDropNext, MoveDropWindow, MoveGet, GetQueue, MoveWindow,
           MoveClear, MoveClearNext, MoveSet, Goto, At
  <1>7. CASE EnterStep(p) \/ EnterLock(p)
    BY <1>1, <1>r, <1>g, <1>7
       DEF EnterStep, EnterExists, EnterGet, EnterNext, EnterWindow, EnterLock, Goto, At
  <1>8. CASE FailStep(p)
    <2>1. CASE CommandFails(p)
      BY <1>1, <1>r, <2>1 DEF CommandFails, Fallible, At
    <2>2. CASE AnswerLost(p)
      BY <1>1, <1>r, <2>2 DEF AnswerLost, At
    <2>3. CASE NextKeyUnreadable(p)
      BY <1>1, <1>g, <2>3 DEF NextKeyUnreadable, Goto, At
    <2>4. CASE DeleteFails(p)
      <3>1. ~At(p, "idle")
        BY <2>4 DEF DeleteFails, Deletes, EmptiesQueue, At
      <3> QED BY <1>1, <1>r, <1>g, <2>4, <3>1 DEF DeleteFails, AfterPop, Goto
    <2> QED BY <1>8, <2>1, <2>2, <2>3, <2>4 DEF FailStep
  <1> QED BY <1>2, <1>3, <1>4, <1>5, <1>6, <1>7, <1>8 DEF QueueStep, QueueCommand

(* The label a step goes on at.                                            *)
LEMMA StepLabels ==
  ASSUME QueueInv, NEW p \in Proc
  PROVE  /\ \A r : Return(p, r) => frame'[p].at = "done"
         /\ \A label, items : GotoWith(p, label, items) => frame'[p].at = label
         /\ \A label : Goto(p, label) => frame'[p].at = label
  <1>1. frame \in [Proc -> Frames] /\ frame[p] \in Frames
    BY DEF QueueInv, QueueTypeOK
  <1>2. \A r : Return(p, r) => frame'[p].at = "done"
    BY <1>1 DEF Return, Frames
  <1>3. \A label, items : GotoWith(p, label, items) => frame'[p].at = label
    BY <1>1 DEF GotoWith, Frames
  <1> QED BY <1>2, <1>3 DEF Goto

(* No step goes back: the label after it has fewer steps to come.          *)
LEMMA StepAdvances ==
  ASSUME QueueInv, NEW p \in Proc, QueueStep(p)
  PROVE  StepsLeft(frame'[p].at) < StepsLeft(frame[p].at)
  <1>1. frame \in [Proc -> Frames] /\ frame[p] \in Frames
    BY DEF QueueInv, QueueTypeOK
  <1>2. CASE AddStep(p)
    <2>1. CASE AddSet(p)
      <3>1. frame[p].at = "add.set" /\ frame'[p].at \in {"add.next", "done"}
        BY <1>1, <2>1 DEF AddSet, At, Frames
      <3> QED BY <3>1 DEF StepsLeft
    <2>2. CASE AddExists(p) \/ AddGet(p) \/ AddNext(p)
      <3>1. \/ frame[p].at = "add.exists" /\ frame'[p].at \in {"add.get", "add.set"}
            \/ frame[p].at = "add.get" /\ frame'[p].at \in {"add.set", "done"}
            \/ frame[p].at = "add.next" /\ frame'[p].at = "done"
        BY <2>2, StepLabels DEF AddExists, AddGet, AddNext, GetQueue, At
      <3> QED BY <3>1 DEF StepsLeft
    <2> QED BY <1>2, <2>1, <2>2 DEF AddStep
  <1>3. CASE PositionStep(p)
    <2>1. \/ frame[p].at = "pos.exists" /\ frame'[p].at \in {"pos.get", "done"}
          \/ frame[p].at = "pos.get" /\ frame'[p].at = "done"
      BY <1>3, StepLabels DEF PositionStep, PositionExists, PositionGet, At
    <2> QED BY <2>1 DEF StepsLeft
  <1>4. CASE TurnStep(p)
    <2>1. CASE NextExists(p) \/ NextGet(p) \/ WindowExists(p)
      <3>1. \/ frame[p].at = "next.exists" /\ frame'[p].at \in {"next.get", "done"}
            \/ frame[p].at = "next.get" /\ frame'[p].at \in {"win.exists", "done"}
            \/ frame[p].at = "win.exists" /\ frame'[p].at \in {"rem.exists", "win.get"}
        BY <2>1, StepLabels DEF NextExists, NextGet, WindowExists, At
      <3> QED BY <3>1 DEF StepsLeft
    <2>2. CASE WindowGet(p)
      <3>1. frame[p].at = "win.get" /\ frame'[p].at \in {"win.check", "done"}
        <4>1. CASE window[Own(p)] = NoWindow
          BY <2>2, <4>1, StepLabels DEF WindowGet, At
        <4>2. CASE window[Own(p)] # NoWindow
          BY <1>1, <2>2, <4>2 DEF WindowGet, At, Frames
        <4> QED BY <4>1, <4>2
      <3> QED BY <3>1 DEF StepsLeft
    <2>3. CASE WindowCheck(p)
      <3>1. frame[p].at = "win.check" /\ frame'[p].at \in {"mov.exists", "rem.exists"}
        BY <1>1, <2>3 DEF WindowCheck, At, Frames
      <3> QED BY <3>1 DEF StepsLeft
    <2> QED BY <1>4, <2>1, <2>2, <2>3 DEF TurnStep
  <1>5. CASE RemoveStep(p)
    <2>1. \/ frame[p].at = "rem.exists" /\ frame'[p].at \in {"rem.get", "done"}
          \/ frame[p].at = "rem.get" /\ frame'[p].at \in {"rem.next", "done"}
          \/ frame[p].at = "rem.next" /\ frame'[p].at \in {"rem.set", "rem.nextget"}
          \/ frame[p].at = "rem.nextget" /\ frame'[p].at \in {"mov.exists", "rem.set"}
          \/ frame[p].at = "rem.set" /\ frame'[p].at = "done"
      BY <1>5, StepLabels DEF RemoveStep, RemoveExists, RemoveGet, RemoveNext, RemoveNextGet,
                              RemoveSet, At
    <2> QED BY <2>1 DEF StepsLeft
  <1>6. CASE MoveStep(p)
    <2>1. \/ frame[p].at = "mov.exists" /\ frame'[p].at \in {"mov.dropnext", "mov.get"}
          \/ frame[p].at = "mov.dropnext" /\ frame'[p].at = "mov.dropwin"
          \/ frame[p].at = "mov.get" /\ frame'[p].at \in {"mov.window", "done"}
          \/ frame[p].at = "mov.window" /\ frame'[p].at \in {"mov.clear", "mov.set"}
          \/ frame[p].at = "mov.clear" /\ frame'[p].at = "mov.clearnext"
          \/ frame[p].at = "mov.set" /\ frame'[p].at \in {"ent.lock", "done"}
          \/ frame[p].at \in {"mov.dropwin", "mov.clearnext"} /\ frame'[p].at = "done"
      BY <1>6, StepLabels DEF MoveStep, MoveExists, MoveDropNext, MoveDropWindow, MoveGet, GetQueue,
                              MoveWindow, AfterPop, MoveClear, MoveClearNext, MoveSet, At
    <2> QED BY <2>1 DEF StepsLeft
  <1>7. CASE EnterStep(p) \/ EnterLock(p)
    <2>1. \/ frame[p].at = "ent.lock" /\ frame'[p].at = "ent.exists"
          \/ frame[p].at = "ent.exists" /\ frame'[p].at \in {"ent.get", "done"}
          \/ frame[p].at = "ent.get" /\ frame'[p].at \in {"ent.next", "done"}
          \/ frame[p].at = "ent.next" /\ frame'[p].at = "ent.window"
          \/ frame[p].at = "ent.window" /\ frame'[p].at = "done"
      BY <1>7, StepLabels DEF EnterStep, EnterLock, EnterExists, EnterGet, EnterNext, EnterWindow, At
    <2> QED BY <2>1 DEF StepsLeft
  <1>8. CASE FailStep(p)
    <2>1. \/ frame[p].at \in Labels \ {"idle", "done"} /\ frame'[p].at = "done"
          \/ frame[p].at \in {"rem.next", "rem.nextget"} /\ frame'[p].at = "rem.set"
          \/ frame[p].at = "mov.dropnext" /\ frame'[p].at = "mov.dropwin"
          \/ frame[p].at = "mov.window" /\ frame'[p].at \in {"mov.clear", "mov.set"}
          \/ frame[p].at = "mov.clear" /\ frame'[p].at = "mov.clearnext"
      <3>1. CASE CommandFails(p)
        BY <3>1, StepLabels DEF CommandFails, Fallible
      <3>2. CASE AnswerLost(p)
        BY <3>2, StepLabels DEF AnswerLost, At, Labels, AddLabels, RemoveLabels, MoveLabels, EnterLabels
      <3>3. CASE NextKeyUnreadable(p)
        BY <3>3, StepLabels DEF NextKeyUnreadable
      <3>4. CASE DeleteFails(p)
        BY <3>4, StepLabels DEF DeleteFails, Deletes, EmptiesQueue, AfterPop, At, Labels, RemoveLabels,
                                MoveLabels
      <3> QED BY <1>8, <3>1, <3>2, <3>3, <3>4 DEF FailStep
    <2> QED BY <2>1 DEF StepsLeft, Labels, AddLabels, TurnLabels, RemoveLabels, MoveLabels, EnterLabels
  <1> QED BY <1>2, <1>3, <1>4, <1>5, <1>6, <1>7, <1>8 DEF QueueStep, QueueCommand

(* FewerSteps, of everything that can happen.                           *)
LEMMA StepFewer ==
  ASSUME QueueInv, NEW p \in Proc, QueueStep(p)
  PROVE  FewerSteps
  <1>1. frame' = [frame EXCEPT ![p] = frame'[p]] /\ DOMAIN frame = Proc
    BY StepFrame DEF QueueInv, QueueTypeOK
  <1>2. \A q \in Proc : q # p => frame'[q] = frame[q]
    BY <1>1
  <1> QED BY <1>2, StepAdvances DEF FewerSteps

LEMMA CallFewer ==
  ASSUME QueueInv, NEW p \in Proc, Ready(p),
         \/ \E l : StartSchedule(p, l) \/ StartRelease(p, l)
         \/ \E l, t : StartPosition(p, l, t) \/ StartAcquire(p, l, t)
         \/ Close(p)
  PROVE  FewerSteps
  <1>1. DOMAIN frame = Proc
    BY DEF QueueInv, QueueTypeOK
  <1>2. PICK f : frame' = [frame EXCEPT ![p] = f]
    BY DEF StartSchedule, StartRelease, StartPosition, StartAcquire, Start, Close
  <1>3. \A q \in Proc : q # p => frame'[q] = frame[q]
    BY <1>1, <1>2
  <1> QED BY <1>3 DEF FewerSteps

LEMMA EnvironmentFewer ==
  ASSUME QueueInv, QueueCrash \/ Tick \/ UNCHANGED frame
  PROVE  FewerSteps
  <1>1. CASE QueueCrash
    <2>1. ASSUME NEW p \in Proc, ~Ready(p)
          PROVE  StepsLeft(frame'[p].at) < StepsLeft(frame[p].at)
      <3>1. frame'[p].at = "idle"
        BY <1>1 DEF QueueCrash, IdleFrame
      <3>2. frame[p].at \in Labels \ {"idle", "done"}
        BY <2>1 DEF Ready, QueueInv, QueueTypeOK, Frames
      <3> QED BY <3>1, <3>2 DEF StepsLeft, Labels, AddLabels, TurnLabels, RemoveLabels, MoveLabels,
                                EnterLabels
    <2> QED BY <2>1 DEF FewerSteps
  <1>2. CASE Tick \/ UNCHANGED frame
    BY <1>2 DEF Tick, FewerSteps
  <1> QED BY <1>1, <1>2

-----------------------------------------------------------------------------
(* The databases apart: ApartInv, step by step, in the configuration in    *)
(* which enterNextClientTimeoutPeriod looks for the queue in another       *)
(* database.                                                               *)

(* What it says of a goroutine and of the keys.                            *)
LEMMA ApartFacts ==
  ASSUME QueueInv, ApartInv, Instance # ManagementDB, NEW p \in Proc
  PROVE  /\ frame[p].at \notin {"win.get", "win.check", "ent.get", "ent.next", "ent.window"}
         /\ ~frame[p].expired
         /\ ~At(p, "idle") => window[Own(p)] = NoWindow /\ queue[HandoffKey(p)] = <<>>
  <1>1. ~At(p, "idle") => frame[p].lock \in Locks
    BY FrameFacts DEF At, FrameOK
  <1> QED BY <1>1 DEF ApartInv, Own, HandoffKey, Keys

(* Rewriting ":q" in the database of the instance leaves the management    *)
(* database without a queue.                                               *)
LEMMA OwnQueueApart ==
  ASSUME QueueInv, ApartInv, Instance # ManagementDB, NEW p \in Proc, NEW items,
         queue' = [queue EXCEPT ![Own(p)] = items]
  PROVE  \A l \in Locks : queue'[<<ManagementDB, l>>] = <<>>
  <1>1. \A l \in Locks : <<ManagementDB, l>> \in Keys /\ <<ManagementDB, l>> # Own(p)
    BY DEF Own, Keys
  <1> QED BY <1>1 DEF QueueInv, QueueTypeOK, ApartInv

(* No step brings a queue to the management database.                      *)
LEMMA ApartQueues ==
  ASSUME QueueInv, ApartInv, Instance # ManagementDB, NEW p \in Proc, QueueStep(p)
  PROVE  \A l \in Locks : queue'[<<ManagementDB, l>>] = <<>>
  <1>1. UNCHANGED queue \/ \E items : queue' = [queue EXCEPT ![Own(p)] = items]
    <2>1. CASE AddStep(p)
      BY <2>1 DEF AddStep, AddExists, AddGet, GetQueue, AddSet, AddNext, WriteAdded, Reads, redis
    <2>2. CASE PositionStep(p) \/ TurnStep(p)
      BY <2>2 DEF PositionStep, PositionExists, PositionGet, TurnStep, NextExists, NextGet,
                  WindowExists, WindowGet, WindowCheck, Reads, redis
    <2>3. CASE RemoveStep(p)
      BY <2>3 DEF RemoveStep, RemoveExists, RemoveGet, RemoveNext, RemoveNextGet, RemoveSet,
                  WriteRemoved, Reads, redis
    <2>4. CASE MoveStep(p)
      BY <2>4 DEF MoveStep, MoveExists, MoveDropNext, MoveDropWindow, MoveGet, GetQueue,
                  MoveWindow, MoveClear, MoveClearNext, MoveSet, WriteMoved, Reads, redis
    <2>5. CASE EnterStep(p) \/ EnterLock(p)
      BY <2>5 DEF EnterStep, EnterExists, EnterGet, EnterNext, EnterWindow, EnterLock, redis
    <2>6. CASE FailStep(p)
      BY <2>6 DEF FailStep, CommandFails, AnswerLost, NextKeyUnreadable, DeleteFails,
                  WriteAdded, WriteRemoved, WriteMoved, redis
    <2> QED BY <2>1, <2>2, <2>3, <2>4, <2>5, <2>6 DEF QueueStep, QueueCommand
  <1>2. CASE UNCHANGED queue
    BY <1>2 DEF ApartInv
  <1>3. CASE \E items : queue' = [queue EXCEPT ![Own(p)] = items]
    BY <1>3, OwnQueueApart
  <1> QED BY <1>1, <1>2, <1>3

(* No step writes an expiry time.                                          *)
LEMMA ApartWindows ==
  ASSUME QueueInv, ApartInv, Instance # ManagementDB, NEW p \in Proc, QueueStep(p)
  PROVE  \A k \in Keys : window'[k] = NoWindow
  <1>0. ~At(p, "ent.window")
    BY ApartFacts DEF At
  <1>1. UNCHANGED window \/ window' = [window EXCEPT ![Own(p)] = NoWindow]
    <2>1. CASE AddStep(p)
      BY <2>1 DEF AddStep, AddExists, AddGet, GetQueue, AddSet, AddNext, Reads, redis
    <2>2. CASE PositionStep(p) \/ TurnStep(p)
      BY <2>2 DEF PositionStep, PositionExists, PositionGet, TurnStep, NextExists, NextGet,
                  WindowExists, WindowGet, WindowCheck, Reads, redis
    <2>3. CASE RemoveStep(p)
      BY <2>3 DEF RemoveStep, RemoveExists, RemoveGet, RemoveNext, RemoveNextGet, RemoveSet,
                  Reads, redis
    <2>4. CASE MoveStep(p)
      BY <2>4 DEF MoveStep, MoveExists, MoveDropNext, MoveDropWindow, MoveGet, GetQueue,
                  MoveWindow, MoveClear, MoveClearNext, MoveSet, Reads, redis
    <2>5. CASE EnterStep(p) \/ EnterLock(p)
      BY <1>0, <2>5 DEF EnterStep, EnterExists, EnterGet, EnterNext, EnterWindow, EnterLock, redis
    <2>6. CASE FailStep(p)
      BY <1>0, <2>6 DEF FailStep, CommandFails, AnswerLost, NextKeyUnreadable, DeleteFails, redis
    <2> QED BY <2>1, <2>2, <2>3, <2>4, <2>5, <2>6 DEF QueueStep, QueueCommand
  <1> QED BY <1>1 DEF ApartInv, QueueInv, QueueTypeOK

(* Where a goroutine must not get: past the lookup of an expiry time, or   *)
(* of the queue in the management database.                                *)
ApartFrame(p) ==
  /\ frame'[p].at \notin {"win.get", "win.check", "ent.get", "ent.next", "ent.window"}
  /\ ~frame'[p].expired

(* A call that goes on or returns does not get there by itself.            *)
LEMMA ApartMoves ==
  ASSUME QueueInv, ApartInv, Instance # ManagementDB, NEW p \in Proc
  PROVE  /\ \A r : Return(p, r) => ApartFrame(p)
         /\ \A label, items :
              /\ GotoWith(p, label, items)
              /\ label \notin {"win.get", "win.check", "ent.get", "ent.next", "ent.window"}
              => ApartFrame(p)
  <1>1. frame \in [Proc -> Frames] /\ frame[p] \in Frames /\ ~frame[p].expired
    BY ApartFacts DEF QueueInv, QueueTypeOK
  <1>2. ASSUME NEW r, Return(p, r)
        PROVE  ApartFrame(p)
    BY <1>1, <1>2 DEF Return, Frames, ApartFrame
  <1>3. ASSUME NEW label, NEW items, GotoWith(p, label, items),
               label \notin {"win.get", "win.check", "ent.get", "ent.next", "ent.window"}
        PROVE  ApartFrame(p)
    BY <1>1, <1>3 DEF GotoWith, Frames, ApartFrame
  <1> QED BY <1>2, <1>3

(* No step gets there.                                                     *)
LEMMA ApartFrames ==
  ASSUME QueueInv, ApartInv, Instance # ManagementDB, NEW p \in Proc, QueueStep(p)
  PROVE  ApartFrame(p)
  <1>0. /\ frame[p].at \notin {"win.get", "win.check", "ent.get", "ent.next", "ent.window"}
        /\ ~At(p, "idle") => window[Own(p)] = NoWindow /\ queue[HandoffKey(p)] = <<>>
    BY ApartFacts
  <1>f. frame \in [Proc -> Frames] /\ frame[p] \in Frames /\ ~frame[p].expired
    BY ApartFacts DEF QueueInv, QueueTypeOK
  <1>1. CASE AddStep(p)
    <2>1. CASE AddSet(p)
      BY <1>f, <2>1 DEF AddSet, Frames, ApartFrame
    <2>2. CASE AddExists(p) \/ AddGet(p) \/ AddNext(p)
      BY <2>2, ApartMoves DEF AddExists, AddGet, AddNext, GetQueue, Goto
    <2> QED BY <1>1, <2>1, <2>2 DEF AddStep
  <1>2. CASE PositionStep(p)
    BY <1>2, ApartMoves DEF PositionStep, PositionExists, PositionGet, Goto
  <1>3. CASE TurnStep(p)
    <2>1. CASE WindowExists(p)
      BY <1>0, <2>1, ApartMoves DEF WindowExists, Goto, At
    <2>2. ~WindowGet(p) /\ ~WindowCheck(p)
      BY <1>0 DEF WindowGet, WindowCheck, At
    <2>3. CASE NextExists(p) \/ NextGet(p)
      BY <2>3, ApartMoves DEF NextExists, NextGet, Goto
    <2> QED BY <1>3, <2>1, <2>2, <2>3 DEF TurnStep
  <1>4. CASE RemoveStep(p)
    BY <1>4, ApartMoves
       DEF RemoveStep, RemoveExists, RemoveGet, RemoveNext, RemoveNextGet, RemoveSet, Goto
  <1>5. CASE MoveStep(p)
    BY <1>5, ApartMoves
       DEF MoveStep, MoveExists, MoveDropNext, MoveDropWindow, MoveGet, GetQueue, MoveWindow,
           MoveClear, MoveClearNext, MoveSet, AfterPop, Goto
  <1>6. CASE EnterStep(p) \/ EnterLock(p)
    <2>1. CASE EnterLock(p)
      BY <2>1, ApartMoves DEF EnterLock, Goto
    <2>2. CASE EnterExists(p)
      BY <1>0, <2>2, ApartMoves DEF EnterExists, At
    <2>3. ~EnterGet(p) /\ ~EnterNext(p) /\ ~EnterWindow(p)
      BY <1>0 DEF EnterGet, EnterNext, EnterWindow, At
    <2> QED BY <1>6, <2>1, <2>2, <2>3 DEF EnterStep
  <1>7. CASE FailStep(p)
    <2>1. CASE CommandFails(p) \/ AnswerLost(p)
      BY <2>1, ApartMoves DEF CommandFails, AnswerLost
    <2>2. CASE NextKeyUnreadable(p)
      BY <2>2, ApartMoves DEF NextKeyUnreadable, Goto
    <2>3. CASE DeleteFails(p)
      BY <2>3, ApartMoves DEF DeleteFails, AfterPop, Goto
    <2> QED BY <1>7, <2>1, <2>2, <2>3 DEF FailStep
  <1> QED BY <1>1, <1>2, <1>3, <1>4, <1>5, <1>6, <1>7 DEF QueueStep, QueueCommand

(* A step that changes one frame, and keeps to that, keeps the invariant.  *)
LEMMA ApartKept ==
  ASSUME QueueInv, ApartInv, NEW p \in Proc,
         frame' = [frame EXCEPT ![p] = frame'[p]],
         Instance # ManagementDB =>
           /\ \A l \in Locks : queue'[<<ManagementDB, l>>] = <<>>
           /\ \A k \in Keys : window'[k] = NoWindow
           /\ ApartFrame(p)
  PROVE  ApartInv'
  <1>1. ASSUME Instance # ManagementDB, NEW q \in Proc
        PROVE  ApartFrame(q)
    <2>1. CASE q = p
      BY <1>1, <2>1
    <2>2. CASE q # p
      <3>1. frame'[q] = frame[q]
        BY <2>2 DEF QueueInv, QueueTypeOK
      <3> QED BY <1>1, <3>1, ApartFacts DEF ApartFrame
    <2> QED BY <2>1, <2>2
  <1> QED BY <1>1 DEF ApartInv, ApartFrame

(* The invariant holds at the start ...                                    *)
LEMMA ApartInitInv == QueueInit => ApartInv
  BY DEF QueueInit, ApartInv, IdleFrame, Keys

(* ... every step of a goroutine keeps it ...                              *)
LEMMA ApartStepInv ==
  ASSUME QueueInv, ApartInv, NEW p \in Proc, QueueStep(p)
  PROVE  ApartInv'
  BY StepFrame, ApartQueues, ApartWindows, ApartFrames, ApartKept

(* ... and so do opening and closing a call, ...                           *)
LEMMA ApartStartInv ==
  ASSUME QueueInv, ApartInv, NEW p \in Proc, NEW l \in Locks, NEW t \in 0..issued,
         StartSchedule(p, l) \/ StartPosition(p, l, t) \/ StartAcquire(p, l, t) \/ StartRelease(p, l)
  PROVE  ApartInv'
  <1>1. frame' = [frame EXCEPT ![p] = frame'[p]] /\ ApartFrame(p)
    <2>1. frame \in [Proc -> Frames]
      BY DEF QueueInv, QueueTypeOK
    <2>2. CASE StartSchedule(p, l)
      BY <2>1, <2>2 DEF StartSchedule, Start, IdleFrame, ApartFrame
    <2>3. CASE StartPosition(p, l, t)
      BY <2>1, <2>3 DEF StartPosition, Start, IdleFrame, ApartFrame
    <2>4. CASE StartAcquire(p, l, t)
      BY <2>1, <2>4 DEF StartAcquire, Start, IdleFrame, ApartFrame
    <2>5. CASE StartRelease(p, l)
      BY <2>1, <2>5 DEF StartRelease, Start, IdleFrame, ApartFrame
    <2> QED BY <2>2, <2>3, <2>4, <2>5
  <1>2. UNCHANGED <<queue, window>>
    BY DEF StartSchedule, StartPosition, StartAcquire, StartRelease, Start, redis
  <1> QED BY <1>1, <1>2, ApartKept DEF ApartInv

LEMMA ApartCloseInv ==
  ASSUME QueueInv, ApartInv, NEW p \in Proc, Close(p), UNCHANGED <<queue, window>>
  PROVE  ApartInv'
  <1>1. frame' = [frame EXCEPT ![p] = frame'[p]] /\ frame'[p] = IdleFrame
    BY DEF Close, QueueInv, QueueTypeOK
  <1>2. ApartFrame(p)
    BY <1>1 DEF ApartFrame, IdleFrame
  <1> QED BY <1>1, <1>2, ApartKept DEF ApartInv

(* ... a crash, the clock and a stuttering step.                           *)
LEMMA ApartEnvironmentInv ==
  ASSUME QueueInv, ApartInv, QueueCrash \/ Tick \/ UNCHANGED queueVars
  PROVE  ApartInv'
  <1>1. CASE QueueCrash
    <2>1. \A p \in Proc : frame'[p] = IdleFrame
      BY <1>1 DEF QueueCrash
    <2> QED BY <1>1, <2>1 DEF QueueCrash, ApartInv, IdleFrame, redis
  <1>2. CASE Tick
    BY <1>2 DEF Tick, ApartInv, redis
  <1>3. CASE UNCHANGED queueVars
    BY <1>3 DEF queueVars, ApartInv
  <1> QED BY <1>1, <1>2, <1>3

-----------------------------------------------------------------------------
(* The mutexes of the locks.                                               *)

(* A step takes the mutex of its lock where it enters the critical         *)
(* section, and gives it back where it leaves.                             *)
MutexEffect(p) ==
  \/ mutex' = mutex /\ (frame'[p].at \in EnterLabels <=> frame[p].at \in EnterLabels)
  \/ /\ frame[p].at \notin EnterLabels /\ frame'[p].at \in EnterLabels
     /\ mutex[frame[p].lock] = Free
     /\ mutex' = [mutex EXCEPT ![frame[p].lock] = p]
  \/ frame[p].at \in EnterLabels /\ frame'[p].at \notin EnterLabels /\ Unlock(p)

LEMMA StepMutex ==
  ASSUME QueueInv, NEW p \in Proc, QueueStep(p)
  PROVE  MutexEffect(p)
  <1>1. frame \in [Proc -> Frames] /\ frame[p] \in Frames
    BY DEF QueueInv, QueueTypeOK
  <1>2. CASE AddStep(p)
    <2>1. mutex' = mutex /\ {frame[p].at, frame'[p].at} \cap EnterLabels = {}
      <3>1. CASE AddSet(p)
        BY <1>1, <3>1 DEF AddSet, At, Frames, EnterLabels
      <3>2. CASE AddExists(p) \/ AddGet(p) \/ AddNext(p)
        BY <3>2, StepLabels DEF AddExists, AddGet, AddNext, GetQueue, Reads, At, EnterLabels
      <3> QED BY <1>2, <3>1, <3>2 DEF AddStep
    <2> QED BY <2>1 DEF MutexEffect
  <1>3. CASE PositionStep(p)
    <2>1. mutex' = mutex /\ {frame[p].at, frame'[p].at} \cap EnterLabels = {}
      BY <1>3, StepLabels DEF PositionStep, PositionExists, PositionGet, Reads, At, EnterLabels
    <2> QED BY <2>1 DEF MutexEffect
  <1>4. CASE TurnStep(p)
    <2>1. mutex' = mutex /\ {frame[p].at, frame'[p].at} \cap EnterLabels = {}
      <3>1. CASE NextExists(p) \/ NextGet(p) \/ WindowExists(p)
        BY <3>1, StepLabels DEF NextExists, NextGet, WindowExists, Reads, At, EnterLabels
      <3>2. CASE WindowGet(p) /\ window[Own(p)] = NoWindow
        BY <3>2, StepLabels DEF WindowGet, Reads, At, EnterLabels
      <3>3. CASE (WindowGet(p) /\ window[Own(p)] # NoWindow) \/ WindowCheck(p)
        BY <1>1, <3>3 DEF WindowGet, WindowCheck, Reads, At, Frames, EnterLabels
      <3> QED BY <1>4, <3>1, <3>2, <3>3 DEF TurnStep
    <2> QED BY <2>1 DEF MutexEffect
  <1>5. CASE RemoveStep(p)
    <2>1. mutex' = mutex /\ {frame[p].at, frame'[p].at} \cap EnterLabels = {}
      BY <1>5, StepLabels DEF RemoveStep, RemoveExists, RemoveGet, RemoveNext, RemoveNextGet,
                              RemoveSet, Reads, At, EnterLabels
    <2> QED BY <2>1 DEF MutexEffect
  <1>6. CASE MoveStep(p)
    <2>1. mutex' = mutex /\ {frame[p].at, frame'[p].at} \cap EnterLabels = {}
      BY <1>6, StepLabels DEF MoveStep, MoveExists, MoveDropNext, MoveDropWindow, MoveGet, GetQueue,
                              MoveWindow, AfterPop, MoveClear, MoveClearNext, MoveSet, Reads, At,
                              EnterLabels
    <2> QED BY <2>1 DEF MutexEffect
  <1>7. CASE EnterLock(p)
    BY <1>7, StepLabels DEF EnterLock, At, EnterLabels, MutexEffect
  <1>8. CASE EnterExists(p) \/ EnterGet(p)
    <2>1. CASE queue[HandoffKey(p)] = <<>>
      BY <1>8, <2>1, StepLabels DEF EnterExists, EnterGet, At, EnterLabels, MutexEffect
    <2>2. CASE queue[HandoffKey(p)] # <<>>
      BY <1>8, <2>2, StepLabels DEF EnterExists, EnterGet, At, EnterLabels, MutexEffect
    <2> QED BY <2>1, <2>2
  <1>9. CASE EnterNext(p) \/ EnterWindow(p)
    BY <1>9, StepLabels DEF EnterNext, EnterWindow, At, EnterLabels, MutexEffect
  <1>10. CASE FailStep(p)
    <2>1. CASE CommandFails(p)
      <3>1. frame'[p].at = "done"
        BY <2>1, StepLabels DEF CommandFails
      <3> QED BY <2>1, <3>1 DEF CommandFails, EnterLabels, MutexEffect
    <2>2. CASE AnswerLost(p)
      <3>1. frame'[p].at = "done"
        BY <2>2, StepLabels DEF AnswerLost
      <3> QED BY <2>2, <3>1 DEF AnswerLost, At, EnterLabels, MutexEffect
    <2>3. CASE NextKeyUnreadable(p)
      <3>1. mutex' = mutex /\ {frame[p].at, frame'[p].at} \cap EnterLabels = {}
        BY <2>3, StepLabels DEF NextKeyUnreadable, EnterLabels
      <3> QED BY <3>1 DEF MutexEffect
    <2>4. CASE DeleteFails(p)
      <3>1. mutex' = mutex /\ {frame[p].at, frame'[p].at} \cap EnterLabels = {}
        BY <2>4, StepLabels DEF DeleteFails, Deletes, EmptiesQueue, AfterPop, At, EnterLabels
      <3> QED BY <3>1 DEF MutexEffect
    <2> QED BY <1>10, <2>1, <2>2, <2>3, <2>4 DEF FailStep
  <1> QED BY <1>2, <1>3, <1>4, <1>5, <1>6, <1>7, <1>8, <1>9, <1>10
          DEF QueueStep, QueueCommand, EnterStep

LEMMA MutexStepInv ==
  ASSUME QueueInv, MutexHeldInside, NEW p \in Proc, QueueStep(p)
  PROVE  MutexHeldInside'
  <1> DEFINE l == frame[p].lock
  <1>1. /\ frame' = [frame EXCEPT ![p] = frame'[p]] /\ frame'[p].lock = l
        /\ l \in Locks /\ mutex \in [Locks -> Proc \cup {Free}] /\ Free \notin Proc
        /\ DOMAIN frame = Proc
    <2>1. l \in Locks
      BY StepFrame, FrameFacts DEF FrameOK, At
    <2>2. mutex \in [Locks -> Proc \cup {Free}] /\ DOMAIN frame = Proc
      BY DEF QueueInv, QueueTypeOK
    <2> QED BY <2>1, <2>2, StepFrame, FreeAssumption
  <1>2. \A q \in Proc : q # p => frame'[q] = frame[q]
    BY <1>1
  <1>3. \A q \in Proc, m \in Locks :
          mutex[m] = q <=> frame[q].at \in EnterLabels /\ frame[q].lock = m
    BY DEF MutexHeldInside
  <1>4. CASE mutex' = mutex /\ (frame'[p].at \in EnterLabels <=> frame[p].at \in EnterLabels)
    <2>1. ASSUME NEW q \in Proc, NEW m \in Locks
          PROVE  mutex'[m] = q <=> frame'[q].at \in EnterLabels /\ frame'[q].lock = m
      BY <1>1, <1>2, <1>3, <1>4
    <2> QED BY <2>1 DEF MutexHeldInside
  <1>5. ASSUME frame[p].at \notin EnterLabels, frame'[p].at \in EnterLabels, mutex[l] = Free,
               mutex' = [mutex EXCEPT ![l] = p]
        PROVE  MutexHeldInside'
    <2>1. ASSUME NEW q \in Proc, NEW m \in Locks
          PROVE  mutex'[m] = q <=> frame'[q].at \in EnterLabels /\ frame'[q].lock = m
      <3>1. mutex'[m] = IF m = l THEN p ELSE mutex[m]
        BY <1>1, <1>5
      <3>2. mutex[m] = q <=> frame[q].at \in EnterLabels /\ frame[q].lock = m
        BY <1>3
      <3> HIDE DEF l
      <3>3. CASE q = p
        BY <1>1, <1>5, <3>1, <3>2, <3>3
      <3>4. CASE q # p
        BY <1>1, <1>2, <1>5, <3>1, <3>2, <3>4
      <3> QED BY <3>3, <3>4
    <2> QED BY <2>1 DEF MutexHeldInside
  <1>6. ASSUME frame[p].at \in EnterLabels, frame'[p].at \notin EnterLabels,
               mutex' = [mutex EXCEPT ![l] = Free]
        PROVE  MutexHeldInside'
    <2>1. ASSUME NEW q \in Proc, NEW m \in Locks
          PROVE  mutex'[m] = q <=> frame'[q].at \in EnterLabels /\ frame'[q].lock = m
      <3>1. mutex'[m] = IF m = l THEN Free ELSE mutex[m]
        BY <1>1, <1>6
      <3>2. /\ mutex[m] = q <=> frame[q].at \in EnterLabels /\ frame[q].lock = m
            /\ mutex[l] = p
            /\ mutex[m] = p <=> frame[p].at \in EnterLabels /\ frame[p].lock = m
        BY <1>1, <1>3, <1>6
      <3>3. CASE q = p
        BY <1>1, <1>6, <3>1, <3>2, <3>3
      <3>4. CASE q # p
        BY <1>1, <1>2, <3>1, <3>2, <3>4
      <3> QED BY <3>3, <3>4
    <2> QED BY <2>1 DEF MutexHeldInside
  <1> QED BY <1>4, <1>5, <1>6, StepMutex DEF MutexEffect, Unlock

(* A call opens and a result is read outside the critical section.         *)
LEMMA MutexReadyInv ==
  ASSUME QueueInv, MutexHeldInside, NEW p \in Proc, Ready(p), mutex' = mutex, NEW f,
         frame' = [frame EXCEPT ![p] = f], f.at \notin EnterLabels
  PROVE  MutexHeldInside'
  <1>1. frame \in [Proc -> Frames]
    BY DEF QueueInv, QueueTypeOK
  <1>2. frame'[p] = f /\ \A q \in Proc : q # p => frame'[q] = frame[q]
    BY <1>1
  <1>3. frame[p].at \notin EnterLabels
    BY DEF Ready, EnterLabels
  <1> QED BY <1>2, <1>3 DEF MutexHeldInside

LEMMA MutexCallInv ==
  ASSUME QueueInv, MutexHeldInside, NEW p \in Proc,
         \/ \E l : StartSchedule(p, l) \/ StartRelease(p, l)
         \/ \E l, t : StartPosition(p, l, t) \/ StartAcquire(p, l, t)
         \/ Close(p) /\ Ready(p) /\ mutex' = mutex
  PROVE  MutexHeldInside'
  <1>1. ASSUME NEW op, NEW l, NEW t, NEW label \in {"add.exists", "pos.exists", "next.exists", "ent.lock"},
               Start(p, op, l, t, label)
        PROVE  MutexHeldInside'
    <2> DEFINE f == [IdleFrame EXCEPT !.op = op, !.lock = l, !.ticket = t, !.at = label]
    <2>1. f.at \notin EnterLabels
      BY DEF IdleFrame, EnterLabels
    <2>2. frame' = [frame EXCEPT ![p] = f] /\ Ready(p) /\ mutex' = mutex
      BY <1>1 DEF Start
    <2> HIDE DEF f
    <2> QED BY <2>1, <2>2, MutexReadyInv
  <1>2. ASSUME NEW l, StartRelease(p, l), ~HandoffConfigured
        PROVE  MutexHeldInside'
    <2> DEFINE f == [IdleFrame EXCEPT !.op = "release", !.lock = l, !.at = "done", !.res = "error"]
    <2>1. f.at \notin EnterLabels
      BY DEF IdleFrame, EnterLabels
    <2>2. frame' = [frame EXCEPT ![p] = f] /\ Ready(p) /\ mutex' = mutex
      BY <1>2 DEF StartRelease
    <2> HIDE DEF f
    <2> QED BY <2>1, <2>2, MutexReadyInv
  <1>3. CASE Close(p) /\ Ready(p) /\ mutex' = mutex
    <2>1. IdleFrame.at \notin EnterLabels
      BY DEF IdleFrame, EnterLabels
    <2> QED BY <1>3, <2>1, MutexReadyInv DEF Close
  <1> QED BY <1>1, <1>2, <1>3 DEF StartSchedule, StartPosition, StartAcquire, StartRelease

LEMMA MutexEnvironmentInv ==
  ASSUME MutexHeldInside, QueueCrash \/ Tick \/ UNCHANGED <<mutex, frame>>
  PROVE  MutexHeldInside'
  <1>1. CASE QueueCrash
    <2>1. /\ \A p \in Proc : frame'[p] = IdleFrame
          /\ \A l \in Locks : mutex'[l] = Free
      BY <1>1 DEF QueueCrash
    <2>2. IdleFrame.at \notin EnterLabels
      BY DEF IdleFrame, EnterLabels
    <2> QED BY <2>1, <2>2, FreeAssumption DEF MutexHeldInside
  <1>2. CASE Tick \/ UNCHANGED <<mutex, frame>>
    BY <1>2 DEF Tick, MutexHeldInside
  <1> QED BY <1>1, <1>2

LEMMA MutexInitInv == QueueInit => MutexHeldInside
  <1> SUFFICES ASSUME QueueInit PROVE MutexHeldInside
    OBVIOUS
  <1>1. /\ \A p \in Proc : frame[p] = IdleFrame
        /\ \A l \in Locks : mutex[l] = Free
    BY DEF QueueInit
  <1>2. IdleFrame.at \notin EnterLabels
    BY DEF IdleFrame, EnterLabels
  <1> QED BY <1>1, <1>2, FreeAssumption DEF MutexHeldInside
=============================================================================
