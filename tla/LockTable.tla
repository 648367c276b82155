----------------------------- MODULE LockTable -----------------------------
(***************************************************************************)
(* What the lock service promises of each lock.  It is created once.  It   *)
(* is granted while it is free, or to the client at the front of its line, *)
(* which leaves the line and takes the lock whatever its status, and to    *)
(* nobody else.  Only a lock in use makes a client wait in line for it,    *)
(* and a client leaves the line from the front, by a request of its own.   *)
(* What a failed command may add to that, and what the death of the server *)
(* may take away, are actions of their own, counted in "faults".           *)
(***************************************************************************)
EXTENDS Naturals, Sequences

CONSTANTS
  Locks,
  Clients,   \* whoever asks for locks
  HandsOver  \* whether the turn of the one behind can be announced

VARIABLES
  table,    \* per lock, "ABSENT", "PENDING_CREATION", "UNLOCKED" or "LOCKED"
  line,     \* per lock, the tickets of the clients waiting for it
  tickets,  \* tickets given out so far, numbered in that order
  asks,     \* per client, the ticket with which it asks for its turn, or 0
  turn,     \* per client, the lock whose line it left for its turn, if any
  won,      \* per client, the locks its request was granted
  faults    \* failed commands and crashes so far

(* What may happen to a lock and its line ...                              *)
Becomes(l, from, to) ==
  /\ table[l] \in from
  /\ table' = [table EXCEPT ![l] = to]
  /\ UNCHANGED <<line, tickets>>

Created(l) == Becomes(l, {"ABSENT"}, "PENDING_CREATION")
Freed(l) == Becomes(l, {"PENDING_CREATION", "LOCKED"}, "UNLOCKED")

Taken(c, l) ==
  Becomes(l, IF l \in turn[c] THEN {"UNLOCKED", "LOCKED"} ELSE {"UNLOCKED"}, "LOCKED")

Joined(l) ==
  /\ table[l] = "LOCKED"
  /\ tickets' = tickets + 1
  /\ line' = [line EXCEPT ![l] = Append(@, tickets')]
  /\ UNCHANGED table

InFront(c, l) == line[l] # <<>> /\ Head(line[l]) = asks[c]

Left(c, l) ==
  /\ InFront(c, l)
  /\ line' = [line EXCEPT ![l] = Tail(@)]
  /\ UNCHANGED <<table, tickets>>

(* ... and what it means to the clients.                                   *)
Create(l) == Created(l) /\ UNCHANGED <<asks, turn, won, faults>>
MakeFree(l) == Freed(l) /\ UNCHANGED <<asks, turn, won, faults>>
Join(l) == Joined(l) /\ UNCHANGED <<asks, turn, won, faults>>

Grant(c, l) ==
  /\ Taken(c, l)
  /\ won' = [won EXCEPT ![c] = @ \cup {l}]
  /\ turn' = [turn EXCEPT ![c] = {}]
  /\ UNCHANGED <<asks, faults>>

(* A client asks for its turn, takes it, and stops asking.  One with       *)
(* others behind it may lose it to a hand-off that is not configured.      *)
Ask(c) ==
  /\ asks[c] = 0
  /\ \E t \in 1..tickets : asks' = [asks EXCEPT ![c] = t]
  /\ won' = [won EXCEPT ![c] = {}]
  /\ UNCHANGED <<table, line, tickets, turn, faults>>

Leave(c, l) ==
  /\ Left(c, l)
  /\ \E got \in {{}, {l}} :
       /\ HandsOver => got = {l}
       /\ turn' = [turn EXCEPT ![c] = got]
  /\ UNCHANGED <<asks, won, faults>>

Told(c) ==
  /\ asks' = [asks EXCEPT ![c] = 0]
  /\ UNCHANGED <<table, line, tickets, turn, won, faults>>

(* The client has read the answer to its request.                          *)
Answered(c) ==
  /\ won' = [won EXCEPT ![c] = {}]
  /\ UNCHANGED <<table, line, tickets, asks, turn, faults>>

(* A request ends with an error.  Its last command may have taken effect,  *)
(* and its turn is lost.                                                   *)
Fails(c) ==
  /\ faults' = faults + 1
  /\ turn' = [turn EXCEPT ![c] = {}]
  /\ UNCHANGED <<asks, won>>
  /\ \/ UNCHANGED <<table, line, tickets>>
     \/ \E l \in Locks : Created(l) \/ Freed(l) \/ Taken(c, l) \/ Joined(l) \/ Left(c, l)

(* An error is ignored: a client may have its turn and stay in line.       *)
GoesOnAfterError(c) ==
  /\ faults' = faults + 1
  /\ \/ UNCHANGED turn
     \/ \E l \in Locks : InFront(c, l) /\ turn' = [turn EXCEPT ![c] = {l}]
  /\ UNCHANGED <<table, line, tickets, asks, won>>

Crash ==
  /\ faults' = faults + 1
  /\ asks' = [c \in Clients |-> 0]
  /\ turn' = [c \in Clients |-> {}]
  /\ won' = [c \in Clients |-> {}]
  /\ UNCHANGED <<table, line, tickets>>

Init ==
  /\ table = [l \in Locks |-> "ABSENT"]
  /\ line = [l \in Locks |-> <<>>]
  /\ tickets = 0
  /\ asks = [c \in Clients |-> 0]
  /\ turn = [c \in Clients |-> {}]
  /\ won = [c \in Clients |-> {}]
  /\ faults = 0

Next ==
  \/ \E l \in Locks : Create(l) \/ MakeFree(l) \/ Join(l)
  \/ \E c \in Clients : \E l \in Locks : Grant(c, l) \/ Leave(c, l)
  \/ \E c \in Clients : Ask(c) \/ Told(c) \/ Answered(c) \/ Fails(c) \/ GoesOnAfterError(c)
  \/ Crash

Spec == Init /\ [][Next]_<<table, line, tickets, asks, turn, won, faults>>
=============================================================================
