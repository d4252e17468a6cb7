------------------------------ MODULE Managers ------------------------------
(***************************************************************************)
(* Two manager processes on the same objects.  `cape run` elects a leader  *)
(* only with --leader-elect, which is off by default; without it both      *)
(* managers are active, each with caches, a queue and a worker of its own. *)
(* An election only takes behaviours away: a manager that waits does       *)
(* nothing, one that takes over starts like one that was restarted.        *)
(*                                                                         *)
(* Each manager is an instance of ExternalCluster, taken with its theorems *)
(* so that ManagersProofs can cite them of either.                         *)
(***************************************************************************)
EXTENDS Naturals

CONSTANTS
  Clusters, NodesOf, None, Resync, MaxChanges, MaxFaults, \* as in ExternalCluster
  MaxTrouble                                              \* bound: changes and faults together

\* As in ExternalCluster.
ASSUME NoneAssumption == None \notin Clusters
ASSUME NodesOfAssumption == \A c \in Clusters : None \notin NodesOf[c]
ASSUME ResyncAssumption == Resync \in BOOLEAN
ASSUME BoundsAssumption == MaxChanges \in Nat /\ MaxFaults \in Nat

VARIABLES
  clusters, ecs, secrets, machines, extMachines,     \* the API server
  nodes, access,                                     \* the external clusters
  seenClustersA, seenEcsA, seenSecretsA, queueA, reqA, \* manager A
  seenClustersB, seenEcsB, seenSecretsB, queueB, reqB, \* manager B
  changes, faults                                    \* as in ExternalCluster

shared == <<clusters, ecs, secrets, machines, extMachines, nodes, access, changes, faults>>
managerA == <<seenClustersA, seenEcsA, seenSecretsA, queueA, reqA>>
managerB == <<seenClustersB, seenEcsB, seenSecretsB, queueB, reqB>>
vars == <<shared, managerA, managerB>>

A == INSTANCE CoverageProofs WITH
       seenClusters <- seenClustersA, seenEcs <- seenEcsA, seenSecrets <- seenSecretsA,
       queue <- queueA, req <- reqA
B == INSTANCE CoverageProofs WITH
       seenClusters <- seenClustersB, seenEcs <- seenEcsB, seenSecrets <- seenSecretsB,
       queue <- queueB, req <- reqB

Init == A!Init /\ B!Init

\* A step of one manager, or of the world, which belongs to neither.
Next ==
  /\ \/ (A!Worker \/ A!Informers \/ A!Restart \/ A!Environment) /\ UNCHANGED managerB
     \/ (B!Worker \/ B!Informers \/ B!Restart) /\ UNCHANGED managerA
  /\ changes' + faults' <= MaxTrouble

Spec == Init /\ [][Next]_vars

-----------------------------------------------------------------------------
(* Properties.                                                              *)

TypeOK == A!TypeOK /\ B!TypeOK

\* Neither manager loses a wake-up, although the other changes the objects under
\* its reconcile.
NoLostWakeup == A!NoLostWakeup /\ B!NoLostWakeup

\* The inventory is complete when either writes ready, whoever created what.
ReadyCoversNodes == A!ReadyCoversNodes /\ B!ReadyCoversNodes

\* Two loops over the nodes, each of which may stop in the middle, leave no
\* ExternalMachine without its Machine.
NoOrphanExternalMachine == A!NoOrphanExternalMachine

\* Both loops together implement the abstract inventory: a Machine that one
\* creates and the other finds is completed like one of its own (192-205).
KeepsInventory == A!KeepsInventory

\* What either manager reported ready stays covered under the other one's loops.
NodesStayCovered == A!NodesStayCovered

\* Either manager rests only when a node that is there all along has its objects.
RestsWhenDone == A!RestsWhenDone /\ B!RestsWhenDone

\* Neither manager fails because of the other (134-209): that a Machine, an
\* ExternalMachine or status.ready is there already is no failure, and the other's
\* Update of the Secret is one only until it has reached the cache.
FailsForCause == A!FailsForCause /\ B!FailsForCause

\* Two updates of the same Secret, from caches that are stale in different ways,
\* undo nothing that a user changed.
SecretNotClobbered ==
  [][\A c \in Clusters :
       secrets'[c].owner = "cluster" /\ secrets[c].owner # "cluster" =>
         secrets[c].exists /\ secrets'[c] = [secrets[c] EXCEPT !.owner = "cluster"]]_vars

=============================================================================
