---------------------------- MODULE OwnerCluster ----------------------------
(***************************************************************************)
(* What the ExternalControlPlane and the ExternalMachine controllers share: *)
(* the Cluster that owns their objects, the manager's cached copy of it,   *)
(* and the faults.  The controllers are alike: Reconcile reads its object  *)
(* and the owners from the caches, leaves alone what is paused, deleted or *)
(* without an owner, and otherwise marks the object ready, unchecked.      *)
(***************************************************************************)
EXTENDS Naturals

CONSTANTS
  Resync,      \* whether informers resync before the run is over
  MaxChanges,  \* bound: changes users make
  MaxFaults    \* bound: failed API calls and manager restarts

ASSUME ResyncAssumption == Resync \in BOOLEAN
ASSUME BoundsAssumption == MaxChanges \in Nat /\ MaxFaults \in Nat

VARIABLES
  cluster,      \* the Cluster
  seenCluster,  \* the Cluster as the manager's cache has it
  changes,      \* changes made so far
  faults        \* faults so far

clusterVars == <<cluster, seenCluster, changes, faults>>

\* infra: status.infrastructureReady.
ClusterObjects == [phase : {"live", "deleting", "gone"}, paused : BOOLEAN, infra : BOOLEAN]

ClusterTypeOK ==
  /\ cluster \in ClusterObjects
  /\ seenCluster \in ClusterObjects
  /\ changes \in 0..MaxChanges
  /\ faults \in 0..MaxFaults

ClusterInit ==
  /\ cluster \in [phase : {"live"}, paused : {FALSE}, infra : BOOLEAN]
  /\ seenCluster = cluster
  /\ changes = 0
  /\ faults = 0

\* Mutant: spec.paused of the Cluster is forgotten.
IsPausedObject(owner, object) == object.paused

\* annotations.IsPaused of the Cluster and of the object as read.
IsPaused(owner, object) == owner.paused \/ object.paused

Change == changes < MaxChanges /\ changes' = changes + 1

Fault == faults < MaxFaults /\ faults' = faults + 1

\* Cluster API and users: they change only the Cluster.
PauseCluster ==
  /\ Change
  /\ cluster.phase # "gone"
  /\ cluster' = [cluster EXCEPT !.paused = ~@]
  /\ UNCHANGED <<seenCluster, faults>>

DeleteCluster ==
  /\ Change
  /\ cluster.phase = "live"
  /\ cluster' = [cluster EXCEPT !.phase = "deleting"]
  /\ UNCHANGED <<seenCluster, faults>>

InfrastructureReady ==
  /\ cluster.phase = "live" /\ ~cluster.paused /\ ~cluster.infra
  /\ cluster' = [cluster EXCEPT !.infra = TRUE]
  /\ UNCHANGED <<seenCluster, changes, faults>>

\* Cluster API takes a deleting Cluster apart unless it is paused.
Deleting == cluster.phase = "deleting" /\ ~cluster.paused

=============================================================================
