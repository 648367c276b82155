---------------------------- MODULE NodeIdentity ----------------------------
(***************************************************************************)
(* internal/cluster/cluster.go: where a node's id comes from.              *)
(*                                                                         *)
(* The first process to start on a path creates the id file and writes a   *)
(* new id to it; the next ones read it.  Looking whether there is a file,  *)
(* creating it and writing to it are three steps, a process may end        *)
(* between them, and another one may be starting on the same path.  A      *)
(* process that does not get an id out of the file ends (log.Fatalf) and   *)
(* leaves the file as it is.                                               *)
(*                                                                         *)
(* No package imports this one yet.                                        *)
(***************************************************************************)
EXTENDS Naturals

CONSTANTS
  Node,      \* processes that share the id path
  NoPath,    \* those whose configuration sets no path
  Cluster,   \* those whose configuration enables the cluster mode
  NoFile,    \* there is no file
  Torn,      \* the file is there, and empty
  MaxIds,    \* bound: ids drawn
  MaxStarts  \* bound: starts of processes

NoId == 0    \* the nil id a process begins with

ASSUME NodesAssumption == NoPath \subseteq Node /\ Cluster \subseteq Node
ASSUME FileAssumption == NoFile # Torn /\ NoFile \notin Nat /\ Torn \notin Nat
ASSUME BoundsAssumption == MaxIds \in Nat /\ MaxStarts \in Nat

VARIABLES
  file,    \* the file: NoFile, Torn or an id
  at,      \* per process, the step of init it is at
  nodeID,  \* per process, its id
  late,    \* history: processes that started when the file was settled
  drawn,   \* ids drawn so far
  starts   \* starts so far

vars == <<file, at, nodeID, late, drawn, starts>>

Steps == {"off", "stat", "create", "write", "read", "mode", "running"}

(* The file is there, and nobody is about to create or write it.           *)
Settled == file # NoFile /\ \A n \in Node : at[n] \notin {"create", "write"}

Goto(n, step) == at' = [at EXCEPT ![n] = step]

-----------------------------------------------------------------------------
(* A process starts.  Without a path it ends at once.                      *)
Start(n) ==
  /\ at[n] = "off" /\ n \notin NoPath
  /\ starts < MaxStarts /\ starts' = starts + 1
  /\ Goto(n, "stat")
  /\ nodeID' = [nodeID EXCEPT ![n] = NoId]
  /\ late' = IF Settled THEN late \cup {n} ELSE late \ {n}
  /\ UNCHANGED <<file, drawn>>

MutMissing == file \in {NoFile, Torn}
Missing == file = NoFile

Stat(n) ==
  /\ at[n] = "stat"
  /\ Goto(n, IF Missing THEN "create" ELSE "read")
  /\ UNCHANGED <<file, nodeID, late, drawn, starts>>

(* os.Create empties a file that came to be there since, and a new id is   *)
(* drawn.                                                                  *)
Create(n) ==
  /\ at[n] = "create"
  /\ drawn < MaxIds
  /\ file' = Torn
  /\ drawn' = drawn + 1
  /\ nodeID' = [nodeID EXCEPT ![n] = drawn + 1]
  /\ Goto(n, "write")
  /\ UNCHANGED <<late, starts>>

(* One write of 36 bytes, done or not.  All ids have that length, so an id *)
(* takes the place of another's.                                           *)
Write(n) ==
  /\ at[n] = "write"
  /\ file' = nodeID[n]
  /\ Goto(n, "mode")
  /\ UNCHANGED <<nodeID, late, drawn, starts>>

(* ReadFile and ParseBytes.                                                *)
MutParses == file # NoFile
Parses == file \notin {NoFile, Torn}

Read(n) ==
  /\ at[n] = "read"
  /\ IF Parses
     THEN nodeID' = [nodeID EXCEPT ![n] = file] /\ Goto(n, "mode")
     ELSE UNCHANGED nodeID /\ Goto(n, "off")
  /\ UNCHANGED <<file, late, drawn, starts>>

(* The cluster mode is refused, after the file was written.                *)
Mode(n) ==
  /\ at[n] = "mode"
  /\ Goto(n, IF n \in Cluster THEN "off" ELSE "running")
  /\ UNCHANGED <<file, nodeID, late, drawn, starts>>

(* The process ends wherever it is, a failed command of init included.     *)
Ends(n) ==
  /\ at[n] # "off"
  /\ Goto(n, "off")
  /\ UNCHANGED <<file, nodeID, late, drawn, starts>>

-----------------------------------------------------------------------------
Init ==
  /\ file = NoFile
  /\ at = [n \in Node |-> "off"]
  /\ nodeID = [n \in Node |-> NoId]
  /\ late = {}
  /\ drawn = 0 /\ starts = 0

Next ==
  \E n \in Node :
    Start(n) \/ Stat(n) \/ Create(n) \/ Write(n) \/ Read(n) \/ Mode(n) \/ Ends(n)

Spec == Init /\ [][Next]_vars

-----------------------------------------------------------------------------
(* The variables hold values of their types; what gets past init has an    *)
(* id that was drawn.                                                      *)
TypeOK ==
  /\ file \in {NoFile, Torn} \cup 1..drawn
  /\ at \in [Node -> Steps]
  /\ nodeID \in [Node -> 0..drawn]
  /\ \A n \in Node : at[n] \in {"write", "mode", "running"} => nodeID[n] # NoId
  /\ late \subseteq Node
  /\ drawn \in Nat /\ starts \in Nat

(* Once first starts are over, the file is for good: a file with an id     *)
(* keeps it, and a file that a process left without one is not repaired by *)
(* any number of restarts.                                                 *)
SettledFileStays == [][Settled => Settled' /\ file' = file]_vars

(* Every process that started after that and came up has the id of the     *)
(* file, whoever else starts or ends; where the file was torn none does.   *)
LateStartsAgree ==
  \A n \in late : at[n] = "running" => file = nodeID[n]

-----------------------------------------------------------------------------
(* The inductive invariant behind the safety properties: a late process    *)
(* never gets to the steps that write.                                     *)
NodeInv ==
  /\ TypeOK
  /\ \A n \in Node : at[n] \in {"read", "write"} => file # NoFile
  /\ \A n \in late : at[n] # "off" =>
       /\ Settled
       /\ at[n] \in {"mode", "running"} => file = nodeID[n]
=============================================================================
