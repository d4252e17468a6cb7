------------------------------ MODULE Readiness ------------------------------
(***************************************************************************)
(* One manager with its ExternalControlPlane and ExternalMachine           *)
(* controllers.  Each has a worker of its own; they share the Cluster, the *)
(* cached copy of it, the restarts of the manager and the faults.          *)
(***************************************************************************)
EXTENDS ExternalControlPlane, ExternalMachine

vars == <<clusterVars, cpVars, extVars>>

TypeOK == ClusterTypeOK /\ CpTypeOK /\ ExtTypeOK

Init == ClusterInit /\ CpInit /\ ExtInit

\* The one informer of Clusters: only the first controller watches them.
DeliverCluster ==
  /\ seenCluster # cluster
  /\ seenCluster' = cluster
  /\ CpClusterEvent
  /\ UNCHANGED <<cluster, changes, faults, extVars>>

\* The manager dies and starts again with fresh caches.
Restart ==
  /\ Fault
  /\ seenCluster' = cluster
  /\ CpRestart
  /\ ExtRestart
  /\ UNCHANGED <<cluster, changes>>

ExtWorker == ExtStep \/ \E n \in Nodes : ExtStart(n)

ExtInformers == \E n \in Nodes : DeliverExt(n) \/ DeliverMachine(n) \/ ResyncExt(n)

Loop == StartLoop \/ LoopExternal \/ \E n \in Nodes : LoopMachine(n)

\* What happens to the Machines, and to the control plane.
MachineEnvironment ==
  \E n \in Nodes :
    \/ AdoptMachine(n) \/ OwnExt(n) \/ PauseExt(n)
    \/ DeleteMachine(n) \/ DeleteExt(n) \/ StripMachine(n) \/ RemoveMachine(n)

ClusterEnvironment ==
  \/ OwnCp \/ PauseCp \/ SetServing
  \/ (\A n \in Nodes : machines[n] = "none") /\ (RemoveCp \/ RemoveCluster)

Next ==
  \/ (CpWorker \/ DeliverCp \/ ResyncCp \/ ClusterEnvironment) /\ UNCHANGED extVars
  \/ (ExtWorker \/ ExtInformers \/ Loop \/ MachineEnvironment) /\ UNCHANGED cpVars
  \/ (PauseCluster \/ DeleteCluster \/ InfrastructureReady) /\ UNCHANGED <<cpVars, extVars>>
  \/ DeliverCluster
  \/ Restart

-----------------------------------------------------------------------------
\* Workers, watches and the loop go on; Cluster API's machine controller does
\* its part.  ExternalMachines and the ExternalCluster are resynced if Resync
\* says so; no property needs the resync of the control plane.
CpFairness ==
  /\ WF_vars(CpWorker /\ UNCHANGED extVars)
  /\ WF_vars(DeliverCp /\ UNCHANGED extVars)
  /\ WF_vars(DeliverCluster)

ExtFairness ==
  /\ WF_vars(ExtStep /\ UNCHANGED cpVars)
  /\ WF_vars((loop # LoopIdle /\ Loop) /\ UNCHANGED cpVars)
  /\ WF_vars((Resync /\ StartLoop) /\ UNCHANGED cpVars)
  /\ \A n \in Nodes :
       /\ SF_vars(ExtStart(n) /\ UNCHANGED cpVars)
       /\ WF_vars((DeliverExt(n) \/ DeliverMachine(n)) /\ UNCHANGED cpVars)
       /\ WF_vars(ResyncExt(n) /\ UNCHANGED cpVars)

CapiFairness ==
  \A n \in Nodes :
    /\ WF_vars((AdoptMachine(n) \/ OwnExt(n)) /\ UNCHANGED cpVars)
    /\ WF_vars(DeleteExt(n) /\ UNCHANGED cpVars)
    /\ SF_vars(StripMachine(n) /\ UNCHANGED cpVars)
    /\ WF_vars(RemoveMachine(n) /\ UNCHANGED cpVars)

Spec == Init /\ [][Next]_vars /\ CpFairness /\ ExtFairness /\ CapiFairness

-----------------------------------------------------------------------------
(* Properties.                                                              *)

\* Ready is not reported early (68-86): until its Machine is deleted, a ready
\* ExternalMachine has its owner and a Machine that Cluster API has adopted, and
\* keeps both, however the caches lag, whatever fails or restarts.  One that is
\* created anew under its name is another matter: the patch names no UID (101-106).
ReadyMeansAdopted ==
  \A n \in Nodes :
    [](machines[n] \notin {"deleting", "stripped"}) =>
      [](exts[n].ready => exts[n].owned /\ machines[n] = "adopted")

\* Each node ends up with an adopted Machine and a ready ExternalMachine, when
\* nothing stays paused and the Cluster lives: although users delete Machines
\* while the loop of the ExternalCluster controller (193-205) creates them
\* again, and owners are set in an order that this controller does not wait
\* for (68-86).
NodesBecomeReady ==
  \A n \in Nodes :
    <>[](n \in nodes /\ cluster.phase = "live" /\ ~IsPaused(cluster, exts[n])) =>
      <>[](machines[n] = "adopted" /\ exts[n].exists /\ exts[n].ready)

\* Under a Cluster that stays paused neither controller writes any more (87-90
\* of the one, 88-91 of the other).
PausedIsLeftAlone ==
  <>[]cluster.paused => <>[](cpReq.step # "close" /\ extReq.step # "close")

-----------------------------------------------------------------------------
(* What the repository says of the controller and the code does not do.     *)

\* "OwnerCluster is not set yet. Requeuing..." (externalmachine_controller.go:83)
\* and "Add a watch on clusterv1.Machine object for unpause notifications" (38):
\* a node whose owners are all set, and that is not paused, for good becomes
\* ready without waiting for a resync.  The code returns without a requeue (84),
\* and the predicate of the watch drops every event of a Machine.
NodesBecomeReadyByEvents ==
  \A n \in Nodes :
    <>[](/\ cluster.phase = "live" /\ ~IsPaused(cluster, exts[n])
         /\ machines[n] = "adopted" /\ exts[n].exists /\ exts[n].owned)
      => <>exts[n].ready

=============================================================================
