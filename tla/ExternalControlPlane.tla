------------------------ MODULE ExternalControlPlane ------------------------
(***************************************************************************)
(* The ExternalControlPlane controller, for the control plane of one       *)
(* Cluster: which events reach it, and what its Reconcile makes of them.   *)
(***************************************************************************)
EXTENDS OwnerCluster

VARIABLES
  cp,        \* the ExternalControlPlane
  seenCp,    \* the cached copy of it
  cpQueued,  \* whether its key is in the work queue
  cpReq,     \* the reconcile the worker is in
  serving    \* whether the API server of the external cluster receives requests

cpVars == <<cp, seenCp, cpQueued, cpReq, serving>>

\* owned: has the ownerReference to the Cluster; ready: status.ready and
\* status.initialized, which are only ever written together.
CpObjects == [exists : BOOLEAN, owned : BOOLEAN, paused : BOOLEAN, ready : BOOLEAN]

\* As the importer creates it.
NewCp == [exists |-> TRUE, owned |-> FALSE, paused |-> FALSE, ready |-> FALSE]

CpIdle == [step |-> "idle", before |-> NewCp]

CpTypeOK ==
  /\ cp \in CpObjects
  /\ seenCp \in CpObjects
  /\ cpQueued \in BOOLEAN
  /\ cpReq \in [step : {"idle", "owner", "close"}, before : CpObjects]
  /\ serving \in BOOLEAN

\* The control plane of a Cluster may be of another kind.
CpInit ==
  /\ cp \in {NewCp, [NewCp EXCEPT !.exists = FALSE]}
  /\ seenCp = cp
  /\ cpQueued = cp.exists
  /\ cpReq = CpIdle
  /\ serving \in BOOLEAN

-----------------------------------------------------------------------------
\* Reconcile ends, with an error or without.
CpFinish(retry) == cpReq' = CpIdle /\ cpQueued' = (cpQueued \/ retry)

\* Events of an ExternalControlPlane pass unless it is paused.
CpEventAccepted(new) == ~new.paused

\* Mutant: the two update predicates are combined with All instead of Any.
CpClusterUpdateBoth(old, new) == old.paused /\ ~new.paused /\ ~old.infra /\ new.infra

\* ClusterUnpausedAndInfrastructureReady passes an update of a Cluster on which
\* it is unpaused or its infrastructure becomes ready,
CpClusterUpdateAccepted(old, new) == \/ old.paused /\ ~new.paused
                                     \/ ~old.infra /\ new.infra

\* and a create event if neither is still to come.
CpClusterCreateAccepted(new) == new.phase # "gone" /\ ~new.paused /\ new.infra

\* Reconcile stops short of marking the object ready.
CpStops(owner, object) == IsPaused(owner, object) \/ owner.phase # "live"

\* Take the key and read the object.  Without it or its owner it is over.
CpStart ==
  /\ cpReq.step = "idle"
  /\ cpQueued
  /\ cpQueued' = FALSE
  /\ cpReq' = IF seenCp.exists /\ seenCp.owned
              THEN [step |-> "owner", before |-> seenCp] ELSE CpIdle
  /\ UNCHANGED <<clusterVars, cp, seenCp, serving>>

\* Read the owner Cluster; not found is an error.
CpOwner ==
  /\ cpReq.step = "owner"
  /\ IF CpStops(seenCluster, cpReq.before) THEN CpFinish(seenCluster.phase = "gone")
     ELSE cpReq' = [cpReq EXCEPT !.step = "close"] /\ UNCHANGED cpQueued
  /\ UNCHANGED <<clusterVars, cp, seenCp, serving>>

\* Mutant: the error of Close does not become the result.
CpCloseIgnoringErrors ==
  /\ cpReq.step = "close"
  /\ \/ cp' = [cp EXCEPT !.ready = cp.exists] /\ UNCHANGED faults
     \/ Fault /\ UNCHANGED cp
  /\ CpFinish(FALSE)
  /\ UNCHANGED <<cluster, seenCluster, changes, seenCp, serving>>

\* The deferred Close patches the object by its name if ready was not set
\* before.  A patch that fails may have taken effect.
CpClose ==
  LET dirty == ~cpReq.before.ready
      patched == IF cp.exists THEN [cp EXCEPT !.ready = TRUE] ELSE cp
  IN
  /\ cpReq.step = "close"
  /\ \/ /\ cp' = IF dirty THEN patched ELSE cp
        /\ CpFinish(dirty /\ ~cp.exists)
        /\ UNCHANGED faults
     \/ /\ dirty /\ Fault
        /\ cp' \in {cp, patched}
        /\ CpFinish(TRUE)
  /\ UNCHANGED <<cluster, seenCluster, changes, seenCp, serving>>

CpWorker == CpStart \/ CpOwner \/ CpClose

-----------------------------------------------------------------------------
DeliverCp ==
  /\ seenCp # cp
  /\ seenCp' = cp
  /\ cpQueued' = (cpQueued \/ CpEventAccepted(cp))
  /\ UNCHANGED <<clusterVars, cp, cpReq, serving>>

\* A periodic update event for the cached object.
ResyncCp ==
  /\ Resync /\ ~cpQueued
  /\ seenCp.exists /\ CpEventAccepted(seenCp)
  /\ cpQueued' = TRUE
  /\ UNCHANGED <<clusterVars, cp, seenCp, cpReq, serving>>

\* What the delivery of the Cluster does to this controller.
CpClusterEvent ==
  /\ cpQueued' = (cpQueued \/ (cluster.phase # "gone" /\ CpClusterUpdateAccepted(seenCluster, cluster)))
  /\ UNCHANGED <<cp, seenCp, cpReq, serving>>

\* What a restart of the manager does to it.
CpRestart ==
  /\ seenCp' = cp
  /\ cpQueued' = ((cp.exists /\ CpEventAccepted(cp)) \/ CpClusterCreateAccepted(cluster))
  /\ cpReq' = CpIdle
  /\ UNCHANGED <<cp, serving>>

-----------------------------------------------------------------------------
(* Cluster API, users and the external cluster.                             *)

OwnCp ==
  /\ cluster.phase = "live" /\ ~IsPaused(cluster, cp)
  /\ cp.exists /\ ~cp.owned
  /\ cp' = [cp EXCEPT !.owned = TRUE]
  /\ UNCHANGED <<clusterVars, seenCp, cpQueued, cpReq, serving>>

PauseCp ==
  /\ Change
  /\ cp.exists
  /\ cp' = [cp EXCEPT !.paused = ~@]
  /\ UNCHANGED <<cluster, seenCluster, faults, seenCp, cpQueued, cpReq, serving>>

\* The API server begins or ceases to receive requests.
SetServing ==
  /\ Change
  /\ serving' = ~serving
  /\ UNCHANGED <<cluster, seenCluster, faults, cp, seenCp, cpQueued, cpReq>>

\* Once no Machine is left.
RemoveCp ==
  /\ Deleting
  /\ cp.exists
  /\ cp' = [cp EXCEPT !.exists = FALSE]
  /\ UNCHANGED <<clusterVars, seenCp, cpQueued, cpReq, serving>>

\* Last of all goes the Cluster.
RemoveCluster ==
  /\ Deleting
  /\ ~cp.exists
  /\ cluster' = [cluster EXCEPT !.phase = "gone"]
  /\ UNCHANGED <<seenCluster, changes, faults, cpVars>>

-----------------------------------------------------------------------------
(* Properties.                                                              *)

\* No wake-up of the control plane is lost: if by all the manager has seen it
\* is to be marked ready, it is, or its key is queued or being reconciled.  At
\* stake where Reconcile ends without an error (lines 68-91, 111), in the
\* predicates (38, 51) and in the error of Close (103-108).
CpNoLostWakeup ==
  seenCp.exists /\ seenCp.owned /\ ~CpStops(seenCluster, seenCp) =>
    cp.ready \/ cpQueued \/ cpReq.step # "idle"

\* Events and retries alone, no resync, bring a control plane that stays in
\* order, and whose API server serves, to ready and initialized (36-62, 116-124).
CpEventuallyReady ==
  <>[](serving /\ cp.exists /\ cp.owned /\ ~CpStops(cluster, cp)) => <>cp.ready

-----------------------------------------------------------------------------
(* What the repository says of the controller and the code does not do.     *)

\* "Ready denotes that the ExternalControlPlane API Server is ready to receive
\* requests" (externalcontrolplane_types.go:23-24): a control plane whose API
\* server never receives any is never ready.  The code does not look (120-122).
CpReadyMeansServing == []~serving => []~cp.ready

=============================================================================
