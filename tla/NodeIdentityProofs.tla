------------------------- MODULE NodeIdentityProofs -------------------------
(* Theorems about the node id file, for any number of processes.           *)
EXTENDS NodeIdentity, TLAPS

LEMMA InitNodeInv == Init => NodeInv
  BY DEF Init, NodeInv, TypeOK, Steps, NoId

(* A step keeps a settled file as it is.                                   *)
LEMMA StepSettled == ASSUME NodeInv, Next, Settled PROVE Settled' /\ file' = file
  <1>1. at \in [Node -> Steps]
    BY DEF NodeInv, TypeOK
  <1>2. PICK n \in Node :
          Start(n) \/ Stat(n) \/ Create(n) \/ Write(n) \/ Read(n) \/ Mode(n) \/ Ends(n)
    BY DEF Next
  <1> USE <1>1 DEF Settled, Goto
  <1>3. CASE Start(n)
    BY <1>3 DEF Start
  <1>4. CASE Stat(n)
    BY <1>4 DEF Stat, Missing
  <1>5. ~Create(n) /\ ~Write(n)
    BY DEF Create, Write
  <1>6. CASE Read(n)
    BY <1>6 DEF Read
  <1>7. CASE Mode(n)
    BY <1>7 DEF Mode
  <1>8. CASE Ends(n)
    BY <1>8 DEF Ends
  <1> QED BY <1>2, <1>3, <1>4, <1>5, <1>6, <1>7, <1>8

LEMMA NextType == ASSUME NodeInv, Next PROVE TypeOK' /\ drawn' \in drawn..drawn + 1
  <1>1. PICK n \in Node :
          Start(n) \/ Stat(n) \/ Create(n) \/ Write(n) \/ Read(n) \/ Mode(n) \/ Ends(n)
    BY DEF Next
  <1> USE FileAssumption DEF NodeInv, TypeOK, Goto, Steps, NoId
  <1>2. CASE Start(n)
    BY <1>2 DEF Start
  <1>3. CASE Stat(n)
    BY <1>3 DEF Stat
  <1>4. CASE Create(n)
    BY <1>4 DEF Create
  <1>5. CASE Write(n)
    BY <1>5 DEF Write
  <1>6. CASE Read(n)
    BY <1>6 DEF Read, Parses
  <1>7. CASE Mode(n)
    BY <1>7 DEF Mode
  <1>8. CASE Ends(n)
    BY <1>8 DEF Ends
  <1> QED BY <1>1, <1>2, <1>3, <1>4, <1>5, <1>6, <1>7, <1>8

(* Who reads or writes the file has one to read or write.                  *)
LEMMA NextFile ==
  ASSUME NodeInv, Next, NEW m \in Node, at'[m] \in {"read", "write"}
  PROVE  file' # NoFile
  <1>1. PICK n \in Node :
          Start(n) \/ Stat(n) \/ Create(n) \/ Write(n) \/ Read(n) \/ Mode(n) \/ Ends(n)
    BY DEF Next
  <1> USE FileAssumption DEF NodeInv, TypeOK, Goto, NoId
  <1>2. CASE Start(n)
    BY <1>2 DEF Start
  <1>3. CASE Stat(n)
    BY <1>3 DEF Stat, Missing
  <1>4. CASE Create(n)
    BY <1>4 DEF Create
  <1>5. CASE Write(n)
    BY <1>5 DEF Write
  <1>6. CASE Read(n)
    BY <1>6 DEF Read
  <1>7. CASE Mode(n)
    BY <1>7 DEF Mode
  <1>8. CASE Ends(n)
    BY <1>8 DEF Ends
  <1> QED BY <1>1, <1>2, <1>3, <1>4, <1>5, <1>6, <1>7, <1>8

(* A late process finds the file settled at every step, and takes its id   *)
(* from it.                                                                *)
LEMMA NextLate ==
  ASSUME NodeInv, Next, NEW m \in late', at'[m] # "off"
  PROVE  Settled' /\ (at'[m] \in {"mode", "running"} => file' = nodeID'[m])
  <1>1. PICK n \in Node :
          Start(n) \/ Stat(n) \/ Create(n) \/ Write(n) \/ Read(n) \/ Mode(n) \/ Ends(n)
    BY DEF Next
  <1>2. /\ at \in [Node -> Steps] /\ nodeID \in [Node -> 0..drawn] /\ late \subseteq Node
        /\ late' \subseteq Node
    BY NextType DEF NodeInv, TypeOK
  <1>3. CASE Start(n) /\ m = n
    <2>1. Settled /\ at'[m] = "stat"
      BY <1>2, <1>3 DEF Start, Goto
    <2> QED BY <2>1, StepSettled
  <1>4. CASE ~Start(n) \/ m # n
    <2>1. m \in late /\ at[m] # "off"
      BY <1>1, <1>2, <1>4 DEF Start, Stat, Create, Write, Read, Mode, Ends, Goto
    <2>2. Settled /\ (at[m] \in {"mode", "running"} => file = nodeID[m])
      BY <2>1 DEF NodeInv
    <2>3. Settled' /\ file' = file
      BY <2>2, StepSettled
    <2>4. ~Create(n) /\ ~Write(n)
      BY <2>2 DEF Settled, Create, Write
    <2>5. CASE m # n
      <3>1. at'[m] = at[m] /\ nodeID'[m] = nodeID[m]
        BY <1>1, <1>2, <2>5 DEF Start, Stat, Create, Write, Read, Mode, Ends, Goto
      <3> QED BY <2>2, <2>3, <3>1
    <2>6. CASE m = n
      <3>1. CASE Stat(n)
        BY <1>2, <2>3, <2>6, <3>1 DEF Stat, Goto
      <3>2. CASE Read(n)
        BY <1>2, <2>3, <2>6, <3>2 DEF Read, Goto
      <3>3. CASE Mode(n)
        BY <1>2, <2>2, <2>3, <2>6, <3>3 DEF Mode, Goto
      <3>4. CASE Ends(n)
        BY <1>2, <2>3, <2>6, <3>4 DEF Ends, Goto
      <3> QED BY <1>1, <1>4, <2>4, <2>6, <3>1, <3>2, <3>3, <3>4
    <2> QED BY <2>5, <2>6
  <1> QED BY <1>3, <1>4

(* In every reachable state: ids are drawn ones, and late processes keep   *)
(* away from the steps that write.                                         *)
THEOREM NodeInductive == Spec => []NodeInv
  <1>1. ASSUME NodeInv, Next PROVE NodeInv'
    BY <1>1, NextType, NextFile, NextLate DEF NodeInv
  <1>2. ASSUME NodeInv, UNCHANGED vars PROVE NodeInv'
    BY <1>2 DEF NodeInv, TypeOK, Settled, vars
  <1> QED BY InitNodeInv, <1>1, <1>2, PTL DEF Spec

(* Whatever the starts of any number of processes on one file do to each   *)
(* other, and wherever one ends, a process that comes up has an id, and    *)
(* that id, like the one in the file, is one that was drawn.               *)
THEOREM NodeTypeCorrect == Spec => []TypeOK
  <1>1. NodeInv => TypeOK
    BY DEF NodeInv
  <1> QED BY NodeInductive, <1>1, PTL

(* A file that no process is about to write is never written again: its id *)
(* stays, and a torn file stays torn.                                      *)
THEOREM SettledFileIsFinal == Spec => SettledFileStays
  <1>1. NodeInv /\ [Next]_vars => [Settled => Settled' /\ file' = file]_vars
    BY StepSettled
  <1> QED BY NodeInductive, <1>1, PTL DEF Spec, SettledFileStays

(* Processes that started on a settled file and came up have its id, so    *)
(* any two of them have the same; on a torn file none comes up.            *)
THEOREM LateStartsHaveOneId == Spec => []LateStartsAgree
  <1>1. NodeInv => LateStartsAgree
    BY DEF NodeInv, LateStartsAgree
  <1> QED BY NodeInductive, <1>1, PTL
=============================================================================
