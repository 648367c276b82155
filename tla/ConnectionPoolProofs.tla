------------------------ MODULE ConnectionPoolProofs ------------------------
(***************************************************************************)
(* The safety properties of ConnectionPool, for any number of goroutines,  *)
(* databases, connections and faults, and whoever closes connections.      *)
(* PoolInv is the inductive invariant.  StepSettled says what a step does  *)
(* to a settled database, StepUses what it does to the goroutines; the     *)
(* part of PoolInv about late requests follows from the two.               *)
(***************************************************************************)
EXTENDS ConnectionPool, TLAPS

(* No goroutine is in the package yet, and no database has a connection.   *)
LEMMA InitPoolInv == Init => PoolInv
  <1> SUFFICES ASSUME Init PROVE PoolInv
    OBVIOUS
  <1>1. IdleUse \in Uses
    BY DEF IdleUse, Uses
  <1>2. TypeOK
    BY <1>1, FaultsAssumption DEF Init, TypeOK
  <1>3. \A p \in Proc : use[p] = IdleUse
    BY DEF Init
  <1>4. UseOK(IdleUse) /\ LateOK(IdleUse)
    BY DEF UseOK, LateOK, IdleUse
  <1>5. \A p \in Proc : ~At(p, "command")
    BY <1>3 DEF At, IdleUse
  <1> QED BY <1>2, <1>3, <1>4, <1>5 DEF PoolInv, Init

(* The steps that change neither the map nor what is about to change it,   *)
(* other than by taking a goroutine p out of it.                           *)
LEMMA StillSettled ==
  ASSUME NEW i, Settled(i), NEW p \in Proc,
         use \in [Proc -> Uses], use' \in [Proc -> Uses],
         pool'[i] = pool[i],
         \A q \in Proc : q # p => use'[q].at = use[q].at /\ use'[q].base = use[q].base
                                    /\ use'[q].left = use[q].left,
         use'[p].at # "make",
         use'[p].base = i => use'[p].at \notin {"dial", "store", "delete"},
         i \notin use'[p].left
  PROVE  Settled(i)' /\ pool'[i] = pool[i]
  BY DEF Settled, Quiet

(* A step of one goroutine, and a settled database it leaves alone.        *)
LEMMA StepSettled ==
  ASSUME PoolInv, TypeOK', Next, NEW i, Settled(i), Undisturbed(i)
  PROVE  Settled(i)' /\ pool'[i] = pool[i]
  <1> USE DEF At, Goto, Take, Entry
  <1>1. /\ use \in [Proc -> Uses] /\ use' \in [Proc -> Uses]
        /\ pool \in [Instances -> Conns \cup {NoConn}]
        /\ i \in Instances /\ pool[i] # NoConn /\ made
    BY DEF PoolInv, TypeOK, Settled
  <1>2. \A q \in Proc : /\ use[q].at # "make"
                        /\ use[q].base = i => use[q].at \notin {"dial", "store", "delete"}
                        /\ i \notin use[q].left /\ i \notin use'[q].left
    BY DEF Settled, Quiet, Undisturbed
  <1>3. ~Dies
    BY DEF Undisturbed, Dies
  <1>4. ASSUME NEW p \in Proc, Call(p) PROVE Settled(i)' /\ pool'[i] = pool[i]
    <2>1. CASE \E j \in Asked : Ask(p, j)
      BY <1>1, <1>2, <2>1, StillSettled DEF Ask, IdleUse
    <2>2. CASE \E j \in Asked : CloseSingle(p, j)
      BY <1>1, <1>2, <2>2, StillSettled DEF CloseSingle, StartClose, IdleUse
    <2>3. CASE CloseAll(p)
      BY <1>1, <1>2, <2>3, StillSettled DEF CloseAll, StartClose, IdleUse
    <2>4. CASE Command(p)
      BY <1>1, <1>2, <2>4, StillSettled DEF Command
    <2>5. CASE Finish(p)
      BY <1>1, <1>2, <2>5, StillSettled DEF Finish, IdleUse
    <2> QED BY <1>4, <2>1, <2>2, <2>3, <2>4, <2>5 DEF Call
  <1>5. ASSUME NEW p \in Proc, RedisConnection(p) PROVE Settled(i)' /\ pool'[i] = pool[i]
    <2>1. CASE CheckMap(p)
      BY <1>1, <1>2, <2>1, StillSettled DEF CheckMap, Unmade
    <2>2. CASE MakeMap(p)
      BY <1>2, <2>2 DEF MakeMap
    <2>3. CASE Lookup(p)
      <3>1. use[p].at = "lookup"
        BY <2>3 DEF Lookup
      <3>2. /\ use'[p].base = use[p].base /\ use'[p].left = use[p].left
            /\ use'[p].at \in {"dial", "ready"}
            /\ use[p].base = i => use'[p].at = "ready"
        BY <1>1, <2>3 DEF Lookup, Uses
      <3>3. \A q \in Proc : q # p => use'[q] = use[q]
        BY <1>1, <2>3 DEF Lookup
      <3>4. pool'[i] = pool[i]
        BY <2>3 DEF Lookup
      <3> QED BY <1>1, <1>2, <3>2, <3>3, <3>4, StillSettled
    <2>4. CASE Connect(p)
      BY <1>1, <1>2, <2>4, StillSettled DEF Connect
    <2>5. CASE Store(p)
      BY <1>1, <1>2, <2>5, StillSettled DEF Store
    <2> QED BY <1>5, <2>1, <2>2, <2>3, <2>4, <2>5 DEF RedisConnection
  <1>6. ASSUME NEW p \in Proc, LockHold(p) \/ Answered(p)
        PROVE  Settled(i)' /\ pool'[i] = pool[i]
    <2>1. CASE LockHold(p)
      BY <1>1, <1>2, <2>1, StillSettled DEF LockHold
    <2>2. CASE Answered(p)
      BY <1>1, <1>2, <2>2, StillSettled DEF Answered
    <2> QED BY <1>6, <2>1, <2>2
  <1>7. ASSUME NEW p \in Proc, Close(p) PROVE Settled(i)' /\ pool'[i] = pool[i]
    <2>1. CASE CloseClient(p)
      BY <1>1, <1>2, <2>1, StillSettled DEF CloseClient
    <2>2. CASE DeleteEntry(p)
      <3>1. use[p].base # i
        BY <1>2, <2>2 DEF DeleteEntry
      <3> QED BY <1>1, <1>2, <2>2, <3>1, StillSettled DEF DeleteEntry
    <2>3. CASE CloseReturns(p)
      BY <1>1, <1>2, <2>3, StillSettled DEF CloseReturns, IdleUse
    <2> QED BY <1>7, <2>1, <2>2, <2>3 DEF Close
  <1>8. ASSUME NEW p \in Proc, Fault(p) PROVE Settled(i)' /\ pool'[i] = pool[i]
    <2>1. ConnectFails(p)
      BY <1>3, <1>8 DEF Fault, NoClient, MapRace
    <2> QED BY <1>1, <1>2, <2>1, StillSettled DEF ConnectFails, IdleUse
  <1>9. ASSUME NEW c \in Conns, GoesSilent(c) PROVE Settled(i)' /\ pool'[i] = pool[i]
    BY <1>9 DEF GoesSilent, Settled, Quiet
  <1> QED BY <1>3, <1>4, <1>5, <1>6, <1>7, <1>8, <1>9 DEF Next, Killed

-----------------------------------------------------------------------------
(* Every step keeps the types, and every goroutine has what its step needs. *)
Kept == /\ TypeOK'
        /\ \A i \in Instances : pool'[i] # NoConn => made'
        /\ \A p \in Proc : UseOK(use[p])'
        /\ \A p \in Proc : At(p, "command")' => hold'[use'[p].conn] = p

(* The steps that touch the map and the goroutine p only.                  *)
LEMMA OneStep ==
  ASSUME PoolInv, NEW p \in Proc, NEW u \in Uses,
         use' = [use EXCEPT ![p] = u], UNCHANGED <<hold, made>>,
         faults' \in Nat, silent' \subseteq Conns, closed' \subseteq Conns,
         pool' \in [Instances -> Conns \cup {NoConn}],
         \A i \in Instances : pool'[i] # NoConn => made,
         UseOK(u), u.at = "command" => hold[u.conn] = p
  PROVE  Kept
  <1>1. use \in [Proc -> Uses]
    BY DEF PoolInv, TypeOK
  <1>2. use' \in [Proc -> Uses] /\ use'[p] = u /\ \A q \in Proc : q # p => use'[q] = use[q]
    BY <1>1
  <1>3. TypeOK'
    BY <1>2 DEF PoolInv, TypeOK
  <1>4. \A q \in Proc : UseOK(use[q])'
    BY <1>2 DEF PoolInv, UseOK
  <1>5. \A q \in Proc : At(q, "command")' => hold'[use'[q].conn] = q
    BY <1>2 DEF PoolInv, At
  <1> QED BY <1>3, <1>4, <1>5 DEF Kept

(* Opening a call, or a command.                                           *)
LEMMA CallKept == ASSUME PoolInv, NEW p \in Proc, Call(p) PROVE Kept
  <1> USE DEF At, Goto
  <1>1. use \in [Proc -> Uses] /\ use[p] \in Uses /\ UseOK(use[p]) /\ TypeOK
    BY DEF PoolInv, TypeOK
  <1>2. \A i \in Instances : pool[i] # NoConn => made
    BY DEF PoolInv
  <1>3. CASE \E i \in Asked : Ask(p, i)
    <2>1. PICK i \in Instances :
            /\ Ask(p, i)
            /\ use' = [use EXCEPT ![p] = [IdleUse EXCEPT !.at = "check", !.base = i,
                                                         !.late = Settled(i)]]
      BY <1>3 DEF Ask, Declared
    <2> DEFINE u == [IdleUse EXCEPT !.at = "check", !.base = i, !.late = Settled(i)]
    <2>2. Settled(i) \in BOOLEAN
      BY DEF Settled, Quiet
    <2>3. u \in Uses /\ u.at = "check" /\ u.base = i /\ u.conn = NoConn /\ u.left = {}
      BY <2>2 DEF IdleUse, Uses
    <2>4. UseOK(u)
      BY <2>3, BasesAssumption DEF UseOK
    <2>5. use' = [use EXCEPT ![p] = u]
      BY <2>1
    <2> HIDE DEF u
    <2> QED BY <1>1, <1>2, <2>1, <2>3, <2>4, <2>5, OneStep DEF Ask, connVars, TypeOK
  <1>4. ASSUME NEW bases, bases \subseteq Instances, StartClose(p, bases) PROVE Kept
    <2>1. \A q \in Proc : /\ use'[q].at = IF q = p THEN "closing" ELSE use[q].at
                          /\ use'[q].base = IF q = p THEN NoBase ELSE use[q].base
                          /\ use'[q].conn = IF q = p THEN NoConn ELSE use[q].conn
                          /\ use'[q].left = IF q = p THEN bases ELSE use[q].left
      BY <1>1, <1>4 DEF StartClose, IdleUse, Uses
    <2>2. use' \in [Proc -> Uses]
      BY <1>1, <1>4 DEF StartClose, IdleUse, Uses
    <2>3. TypeOK'
      BY <1>1, <1>4, <2>2 DEF StartClose, TypeOK, connVars
    <2>4. \A q \in Proc : UseOK(use[q])'
      BY <2>1, <1>4 DEF PoolInv, UseOK, StartClose
    <2> QED BY <1>4, <2>1, <2>3, <2>4 DEF Kept, PoolInv, StartClose, connVars
  <1>5. CASE \E i \in Asked : CloseSingle(p, i)
    BY <1>4, <1>5 DEF CloseSingle
  <1>6. CASE CloseAll(p)
    BY <1>4, <1>6 DEF CloseAll
  <1>7. CASE Command(p)
    <2> DEFINE u == [use[p] EXCEPT !.at = "lock"]
    <2>1. use' = [use EXCEPT ![p] = u] /\ u \in Uses /\ UseOK(u) /\ u.at = "lock"
      BY <1>1, <1>7 DEF Command, Uses, UseOK
    <2> HIDE DEF u
    <2> QED BY <1>1, <1>2, <1>7, <2>1, OneStep DEF Command, connVars, TypeOK
  <1>8. CASE Finish(p)
    <2>1. IdleUse \in Uses /\ UseOK(IdleUse) /\ IdleUse.at = "idle"
      BY DEF Uses, UseOK, IdleUse
    <2> QED BY <1>1, <1>2, <1>8, <2>1, OneStep DEF Finish, connVars, TypeOK
  <1> QED BY <1>3, <1>5, <1>6, <1>7, <1>8 DEF Call

(* RedisConnection.                                                        *)
LEMMA ConnectionKept == ASSUME PoolInv, NEW p \in Proc, RedisConnection(p) PROVE Kept
  <1> USE DEF At, Goto, Take, Entry
  <1>1. /\ use \in [Proc -> Uses] /\ use[p] \in Uses /\ UseOK(use[p]) /\ TypeOK
        /\ pool \in [Instances -> Conns \cup {NoConn}]
    BY DEF PoolInv, TypeOK
  <1>2. \A i \in Instances : pool[i] # NoConn => made
    BY DEF PoolInv
  <1>3. use[p].at \in {"check", "make", "lookup", "dial", "store"} => use[p].base \in Instances
    BY <1>1 DEF UseOK, Uses
  <1>4. CASE CheckMap(p)
    <2> DEFINE u == [use[p] EXCEPT !.at = IF Unmade THEN "make" ELSE "lookup"]
    <2>1. use' = [use EXCEPT ![p] = u] /\ u \in Uses /\ u.at \in {"make", "lookup"} /\ UseOK(u)
      BY <1>1, <1>4 DEF CheckMap, Unmade, Uses, UseOK
    <2> HIDE DEF u
    <2> QED BY <1>1, <1>2, <1>4, <2>1, OneStep DEF CheckMap, connVars, TypeOK
  <1>5. CASE MakeMap(p)
    <2>1. /\ use'[p] = [use[p] EXCEPT !.at = "lookup"] /\ use' \in [Proc -> Uses]
          /\ \A q \in Proc : q # p => use'[q] = use[q]
      BY <1>1, <1>5 DEF MakeMap, Uses
    <2>2. TypeOK'
      BY <1>1, <1>5, <2>1 DEF MakeMap, TypeOK, connVars
    <2>3. \A q \in Proc : UseOK(use[q])'
      BY <1>1, <1>5, <2>1 DEF MakeMap, PoolInv, UseOK, Uses
    <2>4. \A q \in Proc : At(q, "command")' => hold'[use'[q].conn] = q
      BY <1>1, <1>5, <2>1 DEF MakeMap, PoolInv, connVars
    <2> QED BY <1>5, <2>2, <2>3, <2>4 DEF Kept, MakeMap
  <1>6. CASE Lookup(p)
    <2>1. CASE Entry(p) = NoConn
      <3> DEFINE u == [use[p] EXCEPT !.at = "dial"]
      <3>1. use' = [use EXCEPT ![p] = u] /\ u \in Uses /\ u.at = "dial" /\ UseOK(u)
        BY <1>1, <1>6, <2>1 DEF Lookup, Uses, UseOK
      <3> HIDE DEF u
      <3> QED BY <1>1, <1>2, <1>6, <3>1, OneStep DEF Lookup, connVars, TypeOK
    <2>2. CASE Entry(p) # NoConn
      <3> DEFINE u == [use[p] EXCEPT !.at = "ready", !.conn = Entry(p)]
      <3>1. Entry(p) \in Conns
        BY <1>1, <1>3, <1>6, <2>2 DEF Lookup
      <3>2. use' = [use EXCEPT ![p] = u] /\ u \in Uses /\ u.at = "ready" /\ UseOK(u)
        BY <1>1, <1>6, <2>2, <3>1 DEF Lookup, Uses, UseOK
      <3> HIDE DEF u
      <3> QED BY <1>1, <1>2, <1>6, <3>2, OneStep DEF Lookup, connVars, TypeOK
    <2> QED BY <2>1, <2>2
  <1>7. CASE Connect(p)
    <2>1. PICK c \in Fresh : /\ use' = [use EXCEPT ![p].at = "store", ![p].conn = c]
                             /\ hold' = [hold EXCEPT ![c] = Free]
                             /\ silent' = silent \ {c} /\ closed' = closed \ {c}
      BY <1>7 DEF Connect
    <2>2. c \in Conns /\ \A q \in Proc : use[q].conn # c
      BY DEF Fresh
    <2>3. /\ use'[p] = [use[p] EXCEPT !.at = "store", !.conn = c] /\ use' \in [Proc -> Uses]
          /\ \A q \in Proc : q # p => use'[q] = use[q]
      BY <1>1, <2>1, <2>2 DEF Uses
    <2>4. TypeOK'
      BY <1>1, <1>7, <2>1, <2>2, <2>3 DEF Connect, TypeOK
    <2>5. ASSUME NEW q \in Proc PROVE UseOK(use[q])'
      <3>1. made' = made /\ UseOK(use[q])
        BY <1>7 DEF Connect, PoolInv
      <3>2. CASE q = p
        <4>1. c # NoConn
          BY <2>2, ConnsAssumption
        <4>2. /\ use'[p].at = "store" /\ use'[p].conn = c /\ use[p].at = "dial"
              /\ use'[p].base = use[p].base /\ use'[p].left = use[p].left
          BY <1>1, <1>7, <2>3 DEF Connect, Uses
        <4> QED BY <3>1, <3>2, <4>1, <4>2 DEF UseOK
      <3>3. CASE q # p
        BY <2>3, <3>1, <3>3 DEF UseOK
      <3> QED BY <3>2, <3>3
    <2>6. \A q \in Proc : At(q, "command")' => hold'[use'[q].conn] = q
      BY <1>1, <1>7, <2>1, <2>2, <2>3 DEF Connect, PoolInv, TypeOK, Uses
    <2> QED BY <1>2, <1>7, <2>4, <2>5, <2>6 DEF Kept, Connect
  <1>8. CASE Store(p)
    <2> DEFINE u == [use[p] EXCEPT !.at = "ready"]
    <2>1. use' = [use EXCEPT ![p] = u] /\ u \in Uses /\ u.at = "ready" /\ UseOK(u)
      BY <1>1, <1>8 DEF Store, Uses, UseOK
    <2>2. made /\ pool' \in [Instances -> Conns \cup {NoConn}]
      BY <1>1, <1>8 DEF Store, UseOK, Uses
    <2> HIDE DEF u
    <2> QED BY <1>1, <1>8, <2>1, <2>2, OneStep DEF Store, connVars, TypeOK
  <1> QED BY <1>4, <1>5, <1>6, <1>7, <1>8 DEF RedisConnection

(* The mutex of a connection.                                              *)
LEMMA HoldKept == ASSUME PoolInv, NEW p \in Proc, LockHold(p) \/ Answered(p) PROVE Kept
  <1> USE DEF At, Goto, Mutex
  <1>1. /\ use \in [Proc -> Uses] /\ use[p] \in Uses /\ UseOK(use[p]) /\ TypeOK
        /\ hold \in [Conns -> Proc \cup {Free}]
    BY DEF PoolInv, TypeOK
  <1>2. \A i \in Instances : pool[i] # NoConn => made
    BY DEF PoolInv
  <1>3. CASE LockHold(p)
    <2>1. use[p].conn \in Conns
      BY <1>1, <1>3 DEF LockHold, UseOK, Uses
    <2>2. /\ use'[p] = [use[p] EXCEPT !.at = "command"] /\ use' \in [Proc -> Uses]
          /\ \A q \in Proc : q # p => use'[q] = use[q]
      BY <1>1, <1>3 DEF LockHold, Uses
    <2>3. TypeOK'
      BY <1>1, <1>3, <2>1, <2>2 DEF LockHold, TypeOK
    <2>4. \A q \in Proc : UseOK(use[q])'
      BY <1>1, <1>3, <2>2 DEF LockHold, PoolInv, UseOK, Uses
    <2>5. \A q \in Proc : At(q, "command")' => hold'[use'[q].conn] = q
      <3>1. \A q \in Proc : At(q, "command") => use[q].conn # use[p].conn
        BY <1>3, FreeAssumption DEF LockHold, MayEnter, PoolInv
      <3> QED BY <1>1, <1>3, <2>1, <2>2, <3>1 DEF LockHold, PoolInv, Uses
    <2> QED BY <1>2, <1>3, <2>3, <2>4, <2>5 DEF Kept, LockHold
  <1>4. CASE Answered(p)
    <2>1. use[p].conn \in Conns
      BY <1>1, <1>4 DEF Answered, UseOK, Uses
    <2>2. /\ use'[p] = [use[p] EXCEPT !.at = "ready"] /\ use' \in [Proc -> Uses]
          /\ \A q \in Proc : q # p => use'[q] = use[q]
      BY <1>1, <1>4 DEF Answered, Uses
    <2>3. TypeOK'
      BY <1>1, <1>4, <2>1, <2>2 DEF Answered, AfterCommand, TypeOK
    <2>4. \A q \in Proc : UseOK(use[q])'
      BY <1>1, <1>4, <2>2 DEF Answered, PoolInv, UseOK, Uses
    <2>5. \A q \in Proc : At(q, "command")' => hold'[use'[q].conn] = q
      <3>1. \A q \in Proc : q # p /\ At(q, "command") => use[q].conn # use[p].conn
        BY <1>4 DEF Answered, PoolInv
      <3> QED BY <1>1, <1>4, <2>1, <2>2, <3>1 DEF Answered, AfterCommand, PoolInv, Uses
    <2> QED BY <1>2, <1>4, <2>3, <2>4, <2>5 DEF Kept, Answered
  <1> QED BY <1>3, <1>4

(* The Close functions.                                                    *)
LEMMA CloseKept == ASSUME PoolInv, NEW p \in Proc, Close(p) PROVE Kept
  <1> USE DEF At
  <1>1. /\ use \in [Proc -> Uses] /\ use[p] \in Uses /\ UseOK(use[p]) /\ TypeOK
        /\ pool \in [Instances -> Conns \cup {NoConn}]
    BY DEF PoolInv, TypeOK
  <1>2. \A i \in Instances : pool[i] # NoConn => made
    BY DEF PoolInv
  <1>3. CASE CloseClient(p)
    <2>1. PICK i \in use[p].left : /\ pool[i] # NoConn
                                   /\ use' = [use EXCEPT ![p].at = "delete", ![p].base = i]
                                   /\ closed' = closed \cup {pool[i]}
      BY <1>3 DEF CloseClient
    <2>2. i \in Instances /\ pool[i] \in Conns /\ i # NoBase
      BY <1>1, <2>1, BasesAssumption DEF Uses
    <2> DEFINE u == [use[p] EXCEPT !.at = "delete", !.base = i]
    <2>3. use' = [use EXCEPT ![p] = u] /\ u \in Uses /\ u.at = "delete" /\ UseOK(u)
      BY <1>1, <1>3, <2>1, <2>2 DEF CloseClient, Uses, UseOK
    <2> HIDE DEF u
    <2>4. UNCHANGED <<made, pool, hold, silent, faults>> /\ closed' \subseteq Conns
      BY <1>1, <1>3, <2>1, <2>2 DEF CloseClient, TypeOK
    <2> QED BY <1>1, <1>2, <2>3, <2>4, OneStep DEF TypeOK
  <1>4. CASE DeleteEntry(p)
    <2> DEFINE u == [use[p] EXCEPT !.at = "closing", !.base = NoBase,
                                   !.left = @ \ {use[p].base}]
    <2>1. use' = [use EXCEPT ![p] = u] /\ u \in Uses /\ u.at = "closing" /\ UseOK(u)
      BY <1>1, <1>4 DEF DeleteEntry, Uses, UseOK
    <2>2. /\ pool' \in [Instances -> Conns \cup {NoConn}]
          /\ \A i \in Instances : pool'[i] # NoConn => made
      BY <1>1, <1>2, <1>4 DEF DeleteEntry
    <2> HIDE DEF u
    <2> QED BY <1>1, <1>4, <2>1, <2>2, OneStep DEF DeleteEntry, connVars, TypeOK
  <1>5. CASE CloseReturns(p)
    <2>1. IdleUse \in Uses /\ UseOK(IdleUse) /\ IdleUse.at = "idle"
      BY DEF Uses, UseOK, IdleUse
    <2> QED BY <1>1, <1>2, <1>5, <2>1, OneStep DEF CloseReturns, connVars, TypeOK
  <1> QED BY <1>3, <1>4, <1>5 DEF Close

(* A new process starts as the first one did.                              *)
LEMMA DiesKept == ASSUME PoolInv, Dies PROVE Kept
  <1>1. IdleUse \in Uses
    BY DEF IdleUse, Uses
  <1>2. TypeOK'
    <2>1. faults' \in Nat
      BY DEF Dies, Fails, PoolInv, TypeOK
    <2>2. use' \in [Proc -> Uses] /\ pool' \in [Instances -> Conns \cup {NoConn}]
      BY <1>1 DEF Dies
    <2>3. hold' \in [Conns -> Proc \cup {Free}] /\ made' \in BOOLEAN
      BY DEF Dies
    <2>4. silent' \subseteq Conns /\ closed' \subseteq Conns
      BY DEF Dies
    <2> QED BY <2>1, <2>2, <2>3, <2>4 DEF TypeOK
  <1>3. \A p \in Proc : use'[p] = IdleUse
    BY DEF Dies
  <1>4. \A p \in Proc : UseOK(use[p])' /\ ~At(p, "command")'
    BY <1>3 DEF UseOK, IdleUse, At
  <1> QED BY <1>2, <1>4 DEF Kept, Dies

(* Faults.                                                                 *)
LEMMA FaultKept == ASSUME PoolInv, NEW p \in Proc, Fault(p) PROVE Kept
  <1>1. CASE Dies
    BY <1>1, DiesKept
  <1>2. CASE ConnectFails(p)
    <2>1. IdleUse \in Uses /\ UseOK(IdleUse) /\ IdleUse.at = "idle"
      BY DEF Uses, UseOK, IdleUse
    <2>2. faults' \in Nat
      BY <1>2 DEF ConnectFails, Fails, PoolInv, TypeOK
    <2>3. use' = [use EXCEPT ![p] = IdleUse] /\ UNCHANGED <<made, pool, hold, silent, closed>>
      BY <1>2 DEF ConnectFails, connVars
    <2> QED BY <2>1, <2>2, <2>3, OneStep DEF PoolInv, TypeOK
  <1> QED BY <1>1, <1>2 DEF Fault, NoClient, MapRace

(* All steps.                                                              *)
LEMMA NextKept == ASSUME PoolInv, Next PROVE Kept
  <1>1. ASSUME NEW c \in Conns, GoesSilent(c) PROVE Kept
    <2>1. TypeOK'
      BY <1>1 DEF GoesSilent, Fails, PoolInv, TypeOK
    <2> QED BY <1>1, <2>1 DEF GoesSilent, PoolInv, Kept, UseOK, At
  <1> QED BY <1>1, CallKept, ConnectionKept, HoldKept, CloseKept, DiesKept, FaultKept
             DEF Next, Killed

-----------------------------------------------------------------------------
(* Other than by StartClose, a goroutine changes its own state alone, and  *)
(* it comes no nearer to closing anything.                                 *)
LEMMA OwnStepOnly ==
  ASSUME PoolInv, NEW q \in Proc, ~Dies,
         \/ (\E i \in Asked : Ask(q, i)) \/ Command(q) \/ Finish(q)
         \/ RedisConnection(q) \/ LockHold(q) \/ Answered(q) \/ Close(q) \/ Fault(q)
  PROVE  /\ \A r \in Proc : r # q => use'[r] = use[r]
         /\ use'[q].left \subseteq use[q].left
         /\ made => made'
  <1> USE DEF At, Goto, Take, Entry
  <1>1. use \in [Proc -> Uses] /\ use[q] \in Uses
    BY DEF PoolInv, TypeOK
  <1>2. CASE (\E i \in Asked : Ask(q, i)) \/ Command(q) \/ Finish(q)
    <2>1. CASE \E i \in Asked : Ask(q, i)
      <3>1. PICK i \in Asked : Ask(q, i)
        BY <2>1
      <3>2. use'[q].left = {} /\ made' = made /\ \A r \in Proc : r # q => use'[r] = use[r]
        BY <1>1, <3>1 DEF Ask, IdleUse
      <3> QED BY <3>2
    <2>2. CASE Command(q)
      BY <1>1, <2>2 DEF Command, Uses
    <2>3. CASE Finish(q)
      BY <1>1, <2>3 DEF Finish, IdleUse
    <2> QED BY <1>2, <2>1, <2>2, <2>3
  <1>3. CASE RedisConnection(q)
    <2>1. CASE CheckMap(q)
      BY <1>1, <2>1 DEF CheckMap, Uses
    <2>2. CASE MakeMap(q)
      BY <1>1, <2>2 DEF MakeMap, Uses
    <2>3. CASE Lookup(q)
      BY <1>1, <2>3 DEF Lookup, Uses
    <2>4. CASE Connect(q)
      BY <1>1, <2>4 DEF Connect, Uses
    <2>5. CASE Store(q)
      BY <1>1, <2>5 DEF Store, Uses
    <2> QED BY <1>3, <2>1, <2>2, <2>3, <2>4, <2>5 DEF RedisConnection
  <1>4. CASE LockHold(q) \/ Answered(q)
    BY <1>1, <1>4 DEF LockHold, Answered, Uses
  <1>5. CASE Close(q)
    BY <1>1, <1>5 DEF Close, CloseClient, DeleteEntry, CloseReturns, IdleUse, Uses
  <1>6. CASE Fault(q)
    BY <1>1, <1>6 DEF Fault, ConnectFails, NoClient, MapRace, IdleUse, Uses
  <1> QED BY <1>2, <1>3, <1>4, <1>5, <1>6

(* What a late request does itself: it looks its database up, finds the    *)
(* connection, and sends commands over it.                                 *)
LEMMA LateStep ==
  ASSUME PoolInv, NEW p \in Proc, use[p].late, use'[p].late, ~Dies,
         \/ (\E i \in Asked : Ask(p, i)) \/ Command(p) \/ Finish(p)
         \/ RedisConnection(p) \/ LockHold(p) \/ Answered(p) \/ Close(p) \/ Fault(p)
  PROVE  /\ use'[p].base = use[p].base
         /\ use'[p].conn \in {NoConn, pool[use[p].base]}
         /\ use'[p].at \notin {"idle", "make", "dial", "store", "closing", "delete"}
  <1> USE DEF At, Goto, Take, Entry
  <1>1. /\ use \in [Proc -> Uses] /\ use[p] \in Uses /\ LateOK(use[p])
        /\ Settled(use[p].base) /\ made
    BY DEF PoolInv, TypeOK, LateOK, Settled
  <1>2. /\ use[p].at \notin {"idle", "make", "dial", "store", "closing", "delete"}
        /\ use[p].conn \in {NoConn, pool[use[p].base]} /\ pool[use[p].base] # NoConn
    BY <1>1 DEF LateOK, Settled
  <1>3. CASE CheckMap(p)
    BY <1>1, <1>2, <1>3 DEF CheckMap, Unmade, Uses
  <1>4. CASE Lookup(p)
    BY <1>1, <1>2, <1>4 DEF Lookup, Uses
  <1>5. CASE Command(p) \/ LockHold(p) \/ Answered(p)
    <2>1. CASE Command(p)
      BY <1>1, <1>2, <2>1 DEF Command, Uses
    <2>2. CASE LockHold(p)
      BY <1>1, <1>2, <2>2 DEF LockHold, Uses
    <2>3. CASE Answered(p)
      BY <1>1, <1>2, <2>3 DEF Answered, Uses
    <2> QED BY <1>5, <2>1, <2>2, <2>3
  <1>6. ~Finish(p)
    <2> SUFFICES ASSUME Finish(p) PROVE FALSE
      OBVIOUS
    <2>1. use'[p] = IdleUse
      BY <1>1 DEF Finish
    <2> QED BY <2>1 DEF IdleUse
  <1> QED BY <1>2, <1>3, <1>4, <1>5, <1>6
          DEF Ask, RedisConnection, MakeMap, Connect, Store, Close, CloseClient, DeleteEntry,
              CloseReturns, Fault, ConnectFails, NoClient, MapRace

(* A request that arrives late, or was late and still is, finds its        *)
(* database settled after the step as well.                                *)
LEMMA NextLate ==
  ASSUME PoolInv, Next, Kept, NEW p \in Proc
  PROVE  LateOK(use[p])'
  <1> SUFFICES ASSUME use'[p].late PROVE LateOK(use[p])'
    BY DEF LateOK
  <1> DEFINE i == use'[p].base
             Late == /\ Settled(i) /\ Undisturbed(i)
                     /\ use'[p].conn \in {NoConn, pool[i]}
                     /\ use'[p].at \notin {"idle", "make", "dial", "store", "closing", "delete"}
  <1>1. /\ use \in [Proc -> Uses] /\ use' \in [Proc -> Uses] /\ TypeOK'
        /\ LateOK(use[p])
    BY DEF PoolInv, Kept, TypeOK
  <1>2. ~Dies
    <2> SUFFICES ASSUME Dies PROVE FALSE
      OBVIOUS
    <2>1. use'[p] = IdleUse
      BY DEF Dies
    <2> QED BY <2>1 DEF IdleUse
  <1>3. ASSUME use[p].late PROVE Settled(use[p].base) /\ made
                                 /\ \A q \in Proc : use[p].base \notin use[q].left
    BY <1>1, <1>3 DEF LateOK, Settled, Quiet, PoolInv
  <1>4. ASSUME NEW q \in Proc, NEW bases, StartClose(q, bases) PROVE Late
    <2>1. /\ use[p].late /\ q # p /\ use'[p].base = use[p].base /\ use'[p].at = use[p].at
          /\ use'[p].conn = use[p].conn /\ use[p].base \notin bases
      BY <1>1, <1>4 DEF StartClose, IdleUse, Uses
    <2>2. Undisturbed(i)
      BY <1>1, <1>3, <1>4, <2>1 DEF StartClose, IdleUse, Undisturbed, Uses
    <2> QED BY <1>1, <1>3, <2>1, <2>2 DEF LateOK
  <1>5. ASSUME NEW q \in Proc,
               \/ (\E j \in Asked : Ask(q, j)) \/ Command(q) \/ Finish(q)
               \/ RedisConnection(q) \/ LockHold(q) \/ Answered(q) \/ Close(q) \/ Fault(q)
        PROVE  Late
    <2>1. /\ \A r \in Proc : r # q => use'[r] = use[r]
          /\ use'[q].left \subseteq use[q].left
          /\ made => made'
      BY <1>2, <1>5, OwnStepOnly
    <2>2. CASE use[p].late
      <3>1. /\ use'[p].base = use[p].base
            /\ use'[p].conn \in {NoConn, pool[use[p].base]}
            /\ use'[p].at \notin {"idle", "make", "dial", "store", "closing", "delete"}
        <4>1. CASE q = p
          BY <1>2, <1>5, <2>2, <4>1, LateStep
        <4>2. CASE q # p
          BY <1>1, <2>1, <2>2, <4>2 DEF LateOK
        <4> QED BY <4>1, <4>2
      <3>2. Undisturbed(i)
        BY <1>3, <2>1, <2>2, <3>1 DEF Undisturbed
      <3> QED BY <1>3, <2>2, <3>1, <3>2
    <2>3. CASE ~use[p].late
      <3>1. q = p /\ \E j \in Asked : Ask(p, j)
        <4>1. q = p
          BY <2>1, <2>3
        <4>2. ~(Command(p) \/ LockHold(p) \/ Answered(p) \/ RedisConnection(p))
          BY <1>1, <2>3 DEF Command, LockHold, Answered, RedisConnection, CheckMap, MakeMap,
                            Lookup, Connect, Store, Goto, Take, Uses
        <4>3. ~(Finish(p) \/ Close(p) \/ Fault(p))
          BY <1>1, <1>2, <2>3 DEF Finish, Close, CloseClient, DeleteEntry, CloseReturns, Fault,
                            ConnectFails, NoClient, MapRace, IdleUse, Uses
        <4> QED BY <1>5, <4>1, <4>2, <4>3
      <3>2. PICK j \in Asked : Ask(p, j)
        BY <3>1
      <3>3. /\ use'[p].at = "check" /\ use'[p].base = j /\ use'[p].conn = NoConn
            /\ use'[p].late = Settled(j) /\ use'[p].left = {}
        BY <1>1, <3>2 DEF Ask, IdleUse
      <3>4. Settled(j) /\ made /\ \A r \in Proc : j \notin use[r].left
        BY <3>3 DEF Settled, Quiet, PoolInv
      <3>5. Undisturbed(i)
        BY <2>1, <3>1, <3>3, <3>4 DEF Undisturbed
      <3> QED BY <3>3, <3>4, <3>5
    <2> QED BY <2>2, <2>3
  <1>6. ASSUME NEW c \in Conns, GoesSilent(c) PROVE Late
    BY <1>1, <1>3, <1>6 DEF GoesSilent, LateOK, Undisturbed
  <1>7. Late
    BY <1>2, <1>4, <1>5, <1>6 DEF Next, Killed, Call, CloseSingle, CloseAll
  <1>8. PICK j \in Instances : j = i
    BY <1>7 DEF Settled
  <1>9. Settled(j)' /\ pool'[j] = pool[j]
    BY <1>1, <1>7, <1>8, StepSettled
  <1>10. /\ use'[p].conn \in {NoConn, pool'[j]}
         /\ use'[p].at \notin {"idle", "make", "dial", "store", "closing", "delete"}
    BY <1>7, <1>8, <1>9
  <1> QED BY <1>8, <1>9, <1>10 DEF LateOK

LEMMA StutterKept == ASSUME PoolInv, UNCHANGED vars PROVE PoolInv'
  BY DEF vars, connVars, PoolInv, TypeOK, UseOK, LateOK, Settled, Quiet, At

-----------------------------------------------------------------------------
(* In every reachable state: what every goroutine of the pool has at its   *)
(* step, and that late requests are on the connection of the pool.         *)
THEOREM PoolInductive == Spec => []PoolInv
  <1>1. ASSUME PoolInv, Next PROVE PoolInv'
    BY <1>1, NextKept, NextLate DEF Kept, PoolInv
  <1>2. PoolInv /\ [Next]_vars => PoolInv'
    BY <1>1, StutterKept
  <1> QED BY InitPoolInv, <1>2, PTL DEF Spec

(* The pool's variables keep their types; in particular no goroutine gets  *)
(* past RedisConnection with an undeclared database.                       *)
THEOREM PoolTypeCorrect == Spec => []TypeOK
  <1>1. PoolInv => TypeOK
    BY DEF PoolInv
  <1> QED BY PoolInductive, <1>1, PTL

(* Two commands of requests that came to a settled database are never      *)
(* under way at once: both requests are on the connection of the pool, and *)
(* its mutex has one owner.                                                *)
THEOREM LateRequestsTakeTurns == Spec => []LateCommandsTakeTurns
  <1>1. PoolInv => LateCommandsTakeTurns
    <2> SUFFICES ASSUME PoolInv, NEW p \in Proc, NEW q \in Proc,
                        At(p, "command"), At(q, "command"), use[p].late, use[q].late,
                        use[p].base = use[q].base
                 PROVE  p = q
      BY DEF LateCommandsTakeTurns
    <2>1. use[p].conn = pool[use[p].base] /\ use[q].conn = pool[use[p].base]
      BY DEF PoolInv, UseOK, LateOK, At
    <2> QED BY <2>1 DEF PoolInv
  <1> QED BY PoolInductive, <1>1, PTL

(* A settled database keeps its connection until somebody closes it or the *)
(* process ends, whatever races there were before and are elsewhere.       *)
THEOREM SettledConnectionStays == Spec => SettledStays
  <1> DEFINE Stays == \A i \in Instances :
                        Settled(i) /\ Undisturbed(i) => Settled(i)' /\ pool'[i] = pool[i]
  <1>1. PoolInv /\ PoolInv' /\ [Next]_vars => [Stays]_vars
    <2> SUFFICES ASSUME PoolInv, PoolInv', Next PROVE Stays
      OBVIOUS
    <2> QED BY StepSettled DEF PoolInv
  <1> QED BY PoolInductive, <1>1, PTL DEF Spec, SettledStays

-----------------------------------------------------------------------------
(* Mutexes are given back.                                                 *)

(* A step by which p alone moves, from no command and to none, and no      *)
(* mutex changes hands.                                                    *)
LEMMA MutexesStay ==
  ASSUME PoolInv, MutexesHeldByCommands, NEW p \in Proc, ~At(p, "command"), hold' = hold,
         \A q \in Proc : q # p => use'[q].at = use[q].at /\ use'[q].conn = use[q].conn
  PROVE  MutexesHeldByCommands'
  <1>1. hold \in [Conns -> Proc \cup {Free}]
    BY DEF PoolInv, TypeOK
  <1> QED BY <1>1 DEF MutexesHeldByCommands, At

(* A mutex is taken for a command, and given back after it.                *)
LEMMA CommandMutexes ==
  ASSUME PoolInv, MutexesHeldByCommands, NEW p \in Proc, LockHold(p) \/ Answered(p)
  PROVE  MutexesHeldByCommands'
  <1>1. /\ hold \in [Conns -> Proc \cup {Free}] /\ use \in [Proc -> Uses]
        /\ use[p].conn \in Conns
        /\ At(p, "command") => hold[use[p].conn] = p
    BY DEF PoolInv, TypeOK, UseOK, Uses, LockHold, Answered, At
  <1>2. /\ use'[p].conn = use[p].conn
        /\ \A q \in Proc : q # p => use'[q] = use[q]
    <2>1. CASE LockHold(p)
      BY <1>1, <2>1 DEF LockHold, Goto, Uses
    <2>2. CASE Answered(p)
      BY <1>1, <2>2 DEF Answered, Goto, Uses
    <2> QED BY <2>1, <2>2
  <1>3. CASE LockHold(p)
    <2>1. /\ At(p, "lock") /\ use'[p].at = "command"
          /\ hold' = [hold EXCEPT ![use[p].conn] = p] /\ hold[use[p].conn] = Free
      BY <1>1, <1>3 DEF LockHold, Goto, MayEnter, Mutex, At
    <2>2. ASSUME NEW c \in Conns, hold'[c] # Free
          PROVE  At(hold[c], "command")' /\ use'[hold'[c]].conn = c
      <3>1. CASE c = use[p].conn
        BY <1>1, <1>2, <2>1, <3>1 DEF At
      <3>2. CASE c # use[p].conn
        <4>1. hold'[c] = hold[c]
          BY <1>1, <2>1, <3>2
        <4>2. hold[c] \in Proc /\ At(hold[c], "command") /\ use[hold[c]].conn = c
          BY <1>1, <2>2, <4>1 DEF MutexesHeldByCommands
        <4> QED BY <1>2, <2>1, <4>1, <4>2 DEF At
      <3> QED BY <3>1, <3>2
    <2> QED BY <2>2 DEF MutexesHeldByCommands
  <1>4. CASE Answered(p)
    <2>1. At(p, "command") /\ hold' = [hold EXCEPT ![use[p].conn] = Free]
      BY <1>4 DEF Answered, AfterCommand, Mutex
    <2>2. ASSUME NEW c \in Conns, hold'[c] # Free
          PROVE  At(hold[c], "command")' /\ use'[hold'[c]].conn = c
      <3>1. hold'[c] = hold[c] /\ c # use[p].conn
        BY <1>1, <2>1, <2>2
      <3>2. hold[c] \in Proc /\ At(hold[c], "command") /\ use[hold[c]].conn = c
        BY <1>1, <2>2, <3>1 DEF MutexesHeldByCommands
      <3> QED BY <1>2, <3>1, <3>2 DEF At
    <2> QED BY <2>2 DEF MutexesHeldByCommands
  <1> QED BY <1>3, <1>4

(* Every other step of a goroutine: a new connection has a mutex of its    *)
(* own, which nobody holds, and closing one does not touch its mutex.      *)
LEMMA OtherMutexes ==
  ASSUME PoolInv, MutexesHeldByCommands, NEW p \in Proc,
         Call(p) \/ RedisConnection(p) \/ Close(p) \/ ConnectFails(p)
  PROVE  MutexesHeldByCommands'
  <1> USE DEF At
  <1>1. use \in [Proc -> Uses] /\ hold \in [Conns -> Proc \cup {Free}]
    BY DEF PoolInv, TypeOK
  <1>2. ASSUME NEW u, use' = [use EXCEPT ![p] = u], hold' = hold, use[p].at # "command"
        PROVE  MutexesHeldByCommands'
    BY <1>1, <1>2, MutexesStay
  <1>3. ASSUME NEW bases, StartClose(p, bases)
        PROVE  MutexesHeldByCommands'
    <2>1. ASSUME NEW q \in Proc, q # p
          PROVE  use'[q].at = use[q].at /\ use'[q].conn = use[q].conn
      <3>1. PICK late : use'[q] = [use[q] EXCEPT !.late = late]
        BY <1>3, <2>1 DEF StartClose
      <3> QED BY <1>1, <3>1 DEF Uses
    <2> QED BY <1>3, <2>1, MutexesStay DEF StartClose, connVars
  <1>4. CASE Call(p)
    <2>1. CASE \E i \in Asked : Ask(p, i)
      BY <1>2, <2>1 DEF Ask, connVars
    <2>2. CASE (\E i \in Asked : CloseSingle(p, i)) \/ CloseAll(p)
      BY <1>3, <2>2 DEF CloseSingle, CloseAll
    <2>3. CASE Command(p) \/ Finish(p)
      BY <1>1, <2>3, MutexesStay DEF Command, Finish, Goto, connVars
    <2> QED BY <1>4, <2>1, <2>2, <2>3 DEF Call
  <1>5. CASE CheckMap(p) \/ MakeMap(p) \/ Lookup(p) \/ Store(p)
    BY <1>1, <1>5, MutexesStay DEF CheckMap, MakeMap, Lookup, Store, Goto, Take, connVars
  <1>6. CASE Connect(p)
    <2>1. PICK c \in Fresh : Take(p, c, "store") /\ hold' = [hold EXCEPT ![c] = Free]
      BY <1>6 DEF Connect
    <2>2. use[p].at = "dial" /\ \A q \in Proc : q # p => use'[q] = use[q]
      BY <1>1, <1>6, <2>1 DEF Connect, Take
    <2>3. ASSUME NEW d \in Conns, hold'[d] # Free
          PROVE  At(hold[d], "command")' /\ use'[hold'[d]].conn = d
      <3>1. hold'[d] = hold[d]
        BY <1>1, <2>1, <2>3 DEF Fresh
      <3>2. hold[d] \in Proc /\ At(hold[d], "command") /\ use[hold[d]].conn = d
        BY <1>1, <2>3, <3>1 DEF MutexesHeldByCommands
      <3> QED BY <2>2, <3>1, <3>2
    <2> QED BY <2>3 DEF MutexesHeldByCommands
  <1>7. CASE Close(p) \/ ConnectFails(p)
    BY <1>1, <1>7, MutexesStay
       DEF Close, CloseClient, DeleteEntry, CloseReturns, ConnectFails, connVars
  <1> QED BY <1>4, <1>5, <1>6, <1>7 DEF RedisConnection

(* No mutex of a connection stays locked, whatever races, fails, is closed *)
(* or goes silent, for any number of goroutines and databases: who waits   *)
(* for it waits for a command under way on that connection.                *)
THEOREM ConnectionMutexesReturned == Spec => []MutexesHeldByCommands
  <1>1. Init => MutexesHeldByCommands
    BY DEF Init, MutexesHeldByCommands
  <1>2. ASSUME PoolInv, MutexesHeldByCommands, [Next]_vars
        PROVE  MutexesHeldByCommands'
    <2>1. CASE Dies
      BY <2>1 DEF Dies, MutexesHeldByCommands
    <2>2. CASE UNCHANGED <<hold, use>>
      BY <1>2, <2>2 DEF MutexesHeldByCommands, At
    <2>3. ASSUME NEW p \in Proc, LockHold(p) \/ Answered(p) PROVE MutexesHeldByCommands'
      BY <1>2, <2>3, CommandMutexes
    <2>4. ASSUME NEW p \in Proc, Call(p) \/ RedisConnection(p) \/ Close(p) \/ Fault(p)
          PROVE  MutexesHeldByCommands'
      BY <1>2, <2>1, <2>4, OtherMutexes DEF Fault, NoClient, MapRace
    <2> QED BY <1>2, <2>1, <2>2, <2>3, <2>4 DEF Next, Killed, GoesSilent, vars
  <1> QED BY <1>1, <1>2, PoolInductive, PTL DEF Spec
=============================================================================
