---------------------------- MODULE NodeInventory ----------------------------
(***************************************************************************)
(* What the inventory of nodes promises, without saying how: the objects   *)
(* of a node come in pairs.  A Machine is registered first, by one         *)
(* cluster, and completed with its ExternalMachine; while the cluster is   *)
(* live neither is taken away or given to another, and when it ends the    *)
(* ExternalMachine goes first.                                             *)
(***************************************************************************)
CONSTANTS
  Clusters,  \* the clusters
  Names,     \* the names of nodes
  None       \* no cluster

VARIABLES
  live,        \* the clusters that nobody has deleted
  machineOf,   \* machineOf[n]: the cluster the Machine n is of, or None
  externalOf   \* externalOf[n]: the cluster its ExternalMachine is of, or None

inventory == <<live, machineOf, externalOf>>

Init ==
  /\ live = Clusters
  /\ machineOf = [n \in Names |-> None]
  /\ externalOf = [n \in Names |-> None]

\* A Machine for node n of cluster c.  Only a cluster that has ended may find
\* an ExternalMachine there already.
Register(n, c) ==
  /\ machineOf[n] = None
  /\ c \in live => externalOf[n] = None
  /\ machineOf' = [machineOf EXCEPT ![n] = c]
  /\ UNCHANGED <<live, externalOf>>

\* Its ExternalMachine, after the Machine.
Complete(n, c) ==
  /\ externalOf[n] = None
  /\ c \in live => machineOf[n] = c
  /\ externalOf' = [externalOf EXCEPT ![n] = c]
  /\ UNCHANGED <<live, machineOf>>

End(c) ==
  /\ live' = live \ {c}
  /\ UNCHANGED <<machineOf, externalOf>>

\* Of a cluster that has ended, the ExternalMachine goes
DropExternal(n) ==
  /\ externalOf[n] # None /\ externalOf[n] \notin live
  /\ externalOf' = [externalOf EXCEPT ![n] = None]
  /\ UNCHANGED <<live, machineOf>>

\* before the Machine.
DropMachine(n) ==
  /\ externalOf[n] = None
  /\ machineOf[n] # None /\ machineOf[n] \notin live
  /\ machineOf' = [machineOf EXCEPT ![n] = None]
  /\ UNCHANGED <<live, externalOf>>

Next ==
  \/ \E n \in Names :
       \/ \E c \in Clusters : Register(n, c) \/ Complete(n, c)
       \/ DropExternal(n) \/ DropMachine(n)
  \/ \E c \in live : End(c)

Spec == Init /\ [][Next]_inventory

=============================================================================
