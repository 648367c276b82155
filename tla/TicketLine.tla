----------------------------- MODULE TicketLine -----------------------------
(***************************************************************************)
(* What the queue of a lock promises: clients join at the end of the line, *)
(* and only the one at the front leaves it.                                *)
(***************************************************************************)
EXTENDS Naturals, Sequences

CONSTANT Locks

VARIABLES
  line,    \* per lock, the clients in line
  tickets  \* clients that joined a line so far

Join(l) ==
  /\ tickets' = tickets + 1
  /\ line' = [line EXCEPT ![l] = Append(@, tickets')]

Leave(l) ==
  /\ line[l] # <<>>
  /\ line' = [line EXCEPT ![l] = Tail(@)]
  /\ UNCHANGED tickets

Init == line = [l \in Locks |-> <<>>] /\ tickets = 0

Next == \E l \in Locks : Join(l) \/ Leave(l)

Spec == Init /\ [][Next]_<<line, tickets>>
=============================================================================
