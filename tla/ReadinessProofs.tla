--------------------------- MODULE ReadinessProofs ---------------------------
(***************************************************************************)
(* What TLAPS proves about the ExternalControlPlane and ExternalMachine    *)
(* controllers, for any set of nodes and any bounds.                       *)
(***************************************************************************)
EXTENDS Readiness, TLAPS

-----------------------------------------------------------------------------
(* Type correctness.                                                        *)

\* The requests the workers can be in; the first objects are objects.
CpRequests == [step : {"idle", "owner", "close"}, before : CpObjects]
ExtRequests == [step : {"idle", "machine", "cluster", "close"},
                node : Nodes \cup {None}, before : ExtObjects]

LEMMA NewObjectsType ==
  /\ NewCp \in CpObjects /\ [NewCp EXCEPT !.exists = FALSE] \in CpObjects
  /\ CpIdle \in CpRequests
  /\ NoExt \in ExtObjects /\ NewExt \in ExtObjects
  /\ ExtIdle \in ExtRequests /\ ExtIdle.step = "idle"
  <1>1. NewCp \in CpObjects /\ [NewCp EXCEPT !.exists = FALSE] \in CpObjects
    BY DEF NewCp, CpObjects
  <1>2. CpIdle \in CpRequests
    BY <1>1 DEF CpIdle, CpRequests
  <1>3. NoExt \in ExtObjects
    BY DEF NoExt, ExtObjects
  <1>4. NewExt \in ExtObjects
    BY DEF NewExt, NoExt, ExtObjects
  <1>5. ExtIdle \in ExtRequests /\ ExtIdle.step = "idle"
    BY <1>3 DEF ExtIdle, ExtRequests
  <1> QED
    BY <1>1, <1>2, <1>3, <1>4, <1>5

LEMMA InitType == Init => TypeOK
  <1> SUFFICES ASSUME Init PROVE TypeOK
    OBVIOUS
  <1> USE DEF Init
  <1>1. ClusterTypeOK
    <2>1. cluster \in ClusterObjects
      BY DEF ClusterInit, ClusterObjects
    <2>2. changes \in 0..MaxChanges /\ faults \in 0..MaxFaults
      BY BoundsAssumption DEF ClusterInit
    <2> QED
      BY <2>1, <2>2 DEF ClusterInit, ClusterTypeOK
  <1>2. CpTypeOK
    <2>1. cp \in CpObjects
      BY NewObjectsType DEF CpInit
    <2>2. cp.exists \in BOOLEAN
      BY <2>1 DEF CpObjects
    <2> QED
      BY <2>1, <2>2, NewObjectsType DEF CpInit, CpTypeOK, CpRequests
  <1>3. ExtTypeOK
    BY NewObjectsType DEF ExtInit, ExtTypeOK, ExtRequests, MachineObjects, LoopIdle
  <1> QED
    BY <1>1, <1>2, <1>3 DEF TypeOK

\* Faults and changes keep within their bounds.
LEMMA CountersType ==
  ASSUME ClusterTypeOK
  PROVE  /\ Fault => faults' \in 0..MaxFaults
         /\ Change => changes' \in 0..MaxChanges
  BY BoundsAssumption DEF ClusterTypeOK, Fault, Change

LEMMA CpStepType ==
  ASSUME TypeOK, CpWorker \/ DeliverCp \/ ResyncCp \/ ClusterEnvironment
  PROVE  ClusterTypeOK' /\ CpTypeOK'
  <1> USE DEF TypeOK
  <1>1. CASE CpStart
    <2>1. [step |-> "owner", before |-> seenCp] \in CpRequests
      BY DEF CpRequests, CpTypeOK
    <2> QED
      BY <1>1, <2>1, NewObjectsType DEF CpStart, CpTypeOK, CpRequests, ClusterTypeOK, clusterVars
  <1>2. CASE CpOwner
    <2>1. [cpReq EXCEPT !.step = "close"] \in CpRequests
      BY DEF CpRequests, CpTypeOK
    <2> QED
      BY <1>2, <2>1, NewObjectsType DEF CpOwner, CpFinish, CpTypeOK, CpRequests, ClusterTypeOK, clusterVars
  <1>3. CASE CpClose
    <2>1. cp' \in CpObjects
      BY <1>3 DEF CpClose, CpTypeOK, CpObjects
    <2>2. cpQueued' \in BOOLEAN /\ cpReq' = CpIdle
      BY <1>3 DEF CpClose, CpFinish, CpTypeOK, CpObjects
    <2>3. faults' \in 0..MaxFaults
      BY <1>3, CountersType DEF CpClose, ClusterTypeOK
    <2> QED
      BY <1>3, <2>1, <2>2, <2>3, NewObjectsType DEF CpClose, CpTypeOK, CpRequests, ClusterTypeOK
  <1>4. CASE DeliverCp \/ ResyncCp
    BY <1>4 DEF DeliverCp, ResyncCp, CpEventAccepted, CpTypeOK, CpObjects, ClusterTypeOK, clusterVars
  <1>5. CASE OwnCp \/ RemoveCp
    BY <1>5 DEF OwnCp, RemoveCp, CpTypeOK, CpObjects, ClusterTypeOK, clusterVars
  <1>6. CASE PauseCp \/ SetServing
    BY <1>6, CountersType DEF PauseCp, SetServing, CpTypeOK, CpObjects, ClusterTypeOK
  <1>7. CASE RemoveCluster
    BY <1>7 DEF RemoveCluster, cpVars, CpTypeOK, ClusterTypeOK, ClusterObjects
  <1> QED
    BY <1>1, <1>2, <1>3, <1>4, <1>5, <1>6, <1>7 DEF CpWorker, ClusterEnvironment

LEMMA ExtStepType ==
  ASSUME TypeOK, ExtWorker \/ ExtInformers
  PROVE  ClusterTypeOK' /\ ExtTypeOK'
  <1> USE DEF TypeOK
  <1>1. ASSUME NEW n \in Nodes, ExtStart(n) PROVE ClusterTypeOK' /\ ExtTypeOK'
    <2>1. [step |-> "machine", node |-> n, before |-> seenExts[n]] \in ExtRequests
      BY DEF ExtRequests, ExtTypeOK
    <2> QED
      BY <1>1, <2>1, NewObjectsType DEF ExtStart, ExtTypeOK, ExtRequests, ClusterTypeOK, clusterVars
  <1>2. CASE ExtMachine
    <2>1. [extReq EXCEPT !.step = "cluster"] \in ExtRequests
      BY DEF ExtRequests, ExtTypeOK
    <2>2. extReq.node \in Nodes
      BY <1>2 DEF ExtMachine, ExtTypeOK
    <2> QED
      BY <1>2, <2>1, <2>2, NewObjectsType
         DEF ExtMachine, ExtFinish, ExtTypeOK, ExtRequests, ClusterTypeOK, clusterVars
  <1>3. CASE ExtCluster
    <2>1. [extReq EXCEPT !.step = "close"] \in ExtRequests
      BY DEF ExtRequests, ExtTypeOK
    <2>2. extReq.node \in Nodes
      BY <1>3 DEF ExtCluster, ExtTypeOK
    <2> QED
      BY <1>3, <2>1, <2>2, NewObjectsType
         DEF ExtCluster, ExtFinish, ExtTypeOK, ExtRequests, ClusterTypeOK, clusterVars
  <1>4. CASE ExtClose
    <2> DEFINE n == extReq.node
               patched == IF exts[n].exists THEN [exts EXCEPT ![n].ready = TRUE] ELSE exts
    <2>1. n \in Nodes
      BY <1>4 DEF ExtClose, ExtTypeOK
    <2>2. patched \in [Nodes -> ExtObjects]
      BY <2>1 DEF ExtTypeOK, ExtObjects
    <2>3. exts' \in [Nodes -> ExtObjects]
      BY <1>4, <2>2 DEF ExtClose, ExtTypeOK
    <2>4. extQueue' \subseteq Nodes /\ extReq' = ExtIdle
      BY <1>4, <2>1 DEF ExtClose, ExtFinish, ExtTypeOK
    <2>5. faults' \in 0..MaxFaults
      BY <1>4, CountersType DEF ExtClose, ClusterTypeOK
    <2> QED
      BY <1>4, <2>3, <2>4, <2>5, NewObjectsType DEF ExtClose, ExtTypeOK, ExtRequests, ClusterTypeOK
  <1>5. ASSUME NEW n \in Nodes, DeliverExt(n) \/ DeliverMachine(n) \/ ResyncExt(n)
        PROVE  ClusterTypeOK' /\ ExtTypeOK'
    BY <1>5 DEF DeliverExt, DeliverMachine, ResyncExt, ExtTypeOK, ClusterTypeOK, clusterVars
  <1> QED
    BY <1>1, <1>2, <1>3, <1>4, <1>5 DEF ExtWorker, ExtStep, ExtInformers

LEMMA LoopStepType ==
  ASSUME TypeOK, Loop
  PROVE  ClusterTypeOK' /\ ExtTypeOK'
  <1> USE DEF TypeOK
  <1>1. CASE StartLoop
    BY <1>1 DEF StartLoop, LoopIdle, ExtTypeOK, ClusterTypeOK, clusterVars
  <1>2. ASSUME NEW n \in Nodes, LoopMachine(n) PROVE ClusterTypeOK' /\ ExtTypeOK'
    <2>1. [machines EXCEPT ![n] = IF @ = "none" THEN "new" ELSE @] \in [Nodes -> MachineObjects]
      BY DEF ExtTypeOK, MachineObjects
    <2> QED
      BY <1>2, <2>1, CountersType DEF LoopMachine, LoopIdle, ExtTypeOK, ClusterTypeOK
  <1>3. CASE LoopExternal
    <2>1. loop.node \in Nodes
      BY <1>3 DEF LoopExternal, ExtTypeOK
    <2>2. [exts EXCEPT ![loop.node] = NewExt] \in [Nodes -> ExtObjects]
      BY <2>1, NewObjectsType DEF ExtTypeOK
    <2> QED
      BY <1>3, <2>2, CountersType DEF LoopExternal, LoopIdle, ExtTypeOK, ClusterTypeOK
  <1> QED
    BY <1>1, <1>2, <1>3 DEF Loop

LEMMA MachineStepType ==
  ASSUME TypeOK, MachineEnvironment
  PROVE  ClusterTypeOK' /\ ExtTypeOK'
  <1> USE DEF TypeOK
  <1> PICK n \in Nodes :
        \/ AdoptMachine(n) \/ OwnExt(n) \/ PauseExt(n)
        \/ DeleteMachine(n) \/ DeleteExt(n) \/ StripMachine(n) \/ RemoveMachine(n)
    BY DEF MachineEnvironment
  <1>1. CASE AdoptMachine(n) \/ StripMachine(n) \/ RemoveMachine(n)
    BY <1>1 DEF AdoptMachine, StripMachine, RemoveMachine, MachineObjects, ExtTypeOK,
                ClusterTypeOK, clusterVars
  <1>2. CASE DeleteMachine(n)
    BY <1>2, CountersType DEF DeleteMachine, MachineObjects, ExtTypeOK, ClusterTypeOK
  <1>3. CASE OwnExt(n) \/ DeleteExt(n)
    <2>1. [exts EXCEPT ![n].owned = TRUE] \in [Nodes -> ExtObjects]
      BY DEF ExtTypeOK, ExtObjects
    <2>2. [exts EXCEPT ![n] = NoExt] \in [Nodes -> ExtObjects]
      BY NewObjectsType DEF ExtTypeOK
    <2> QED
      BY <1>3, <2>1, <2>2 DEF OwnExt, DeleteExt, ExtTypeOK, ClusterTypeOK, clusterVars
  <1>4. CASE PauseExt(n)
    BY <1>4, CountersType DEF PauseExt, ExtObjects, ExtTypeOK, ClusterTypeOK
  <1> QED
    BY <1>1, <1>2, <1>3, <1>4

LEMMA SharedStepType ==
  /\ TypeOK /\ DeliverCluster => TypeOK'
  /\ TypeOK /\ Restart => TypeOK'
  /\ TypeOK /\ (PauseCluster \/ DeleteCluster \/ InfrastructureReady) => ClusterTypeOK'
  <1>1. TypeOK /\ DeliverCluster => TypeOK'
    BY DEF DeliverCluster, CpClusterEvent, CpClusterUpdateAccepted, TypeOK, ClusterTypeOK,
           CpTypeOK, ExtTypeOK, extVars
  <1>2. ASSUME TypeOK, Restart PROVE TypeOK'
    <2>1. ClusterTypeOK'
      BY <1>2, CountersType DEF Restart, TypeOK, ClusterTypeOK
    <2>2. CpTypeOK'
      BY <1>2, NewObjectsType DEF Restart, CpRestart, TypeOK, CpTypeOK, CpRequests
    <2>3. ExtTypeOK'
      BY <1>2, NewObjectsType DEF Restart, ExtRestart, TypeOK, ExtTypeOK, ExtRequests, LoopIdle
    <2> QED
      BY <2>1, <2>2, <2>3 DEF TypeOK
  <1>3. TypeOK /\ (PauseCluster \/ DeleteCluster \/ InfrastructureReady) => ClusterTypeOK'
    BY CountersType DEF PauseCluster, DeleteCluster, InfrastructureReady, TypeOK, ClusterTypeOK,
                        ClusterObjects
  <1> QED
    BY <1>1, <1>2, <1>3

\* TypeOK: every step keeps the types of the objects, caches, queues, requests
\* and counters of both controllers.
THEOREM ReadinessTypeCorrect == Spec => []TypeOK
  <1>1. TypeOK /\ [Next]_vars => TypeOK'
    <2> SUFFICES ASSUME TypeOK, [Next]_vars PROVE TypeOK'
      OBVIOUS
    <2>1. UNCHANGED extVars => ExtTypeOK'
      BY DEF TypeOK, ExtTypeOK, extVars
    <2>2. UNCHANGED cpVars => CpTypeOK'
      BY DEF TypeOK, CpTypeOK, cpVars
    <2>3. CASE Next
      BY <2>1, <2>2, <2>3, CpStepType, ExtStepType, LoopStepType, MachineStepType, SharedStepType
         DEF Next, TypeOK
    <2>4. CASE UNCHANGED vars
      BY <2>1, <2>2, <2>4 DEF vars, clusterVars, TypeOK, ClusterTypeOK
    <2> QED
      BY <2>3, <2>4
  <1> QED
    BY InitType, <1>1, PTL DEF Spec

-----------------------------------------------------------------------------
(* No wake-up of the control plane is lost.  A reconcile may end by what it *)
(* read some steps ago; three facts say why that does no harm.              *)

\* A Cluster that lives is cached as one that lives: it never comes back.
CacheLags == cluster.phase = "live" => seenCluster.phase = "live"

\* A control plane that was ever seen ready is ready.
ReadyStays == /\ seenCp.ready => cp.ready
              /\ cpReq.step # "idle" /\ cpReq.before.ready => cp.ready

\* If the cached control plane is not the one that the worker has read, then
\* its key is queued again, unless it is paused.
ChangedIsQueued ==
  cpReq.step # "idle" => cpReq.before = seenCp \/ seenCp.paused \/ cpQueued

WakeupInv == CpNoLostWakeup /\ CacheLags /\ ReadyStays /\ ChangedIsQueued

\* Parts of the state the invariant is about, left alone.
LEMMA KeptInv ==
  ASSUME WakeupInv, UNCHANGED <<seenCluster, seenCp, cpQueued, cpReq>>,
         cp.ready => cp'.ready, cluster'.phase = "live" => cluster.phase = "live"
  PROVE  WakeupInv'
  BY DEF WakeupInv, CpNoLostWakeup, CacheLags, ReadyStays, ChangedIsQueued, CpStops, IsPaused

LEMMA InitWakeup == Init => WakeupInv
  BY DEF Init, ClusterInit, CpInit, CpIdle, NewCp, WakeupInv, CpNoLostWakeup, CacheLags,
         ReadyStays, ChangedIsQueued

\* Each step of the worker.
LEMMA WorkerStep ==
  ASSUME TypeOK, WakeupInv, CpWorker
  PROVE  WakeupInv'
  <1> USE DEF WakeupInv, CacheLags, ReadyStays, ChangedIsQueued, CpNoLostWakeup, CpIdle
  <1>1. CASE CpStart
    BY <1>1 DEF CpStart, clusterVars
  <1>2. CASE CpOwner
    <2>1. CASE CpStops(seenCluster, cpReq.before)
      <3>1. cpReq' = CpIdle /\ (cpQueued => cpQueued') /\ UNCHANGED <<clusterVars, cp, seenCp>>
        BY <1>2, <2>1 DEF CpOwner, CpFinish
      <3>2. seenCp.exists /\ seenCp.owned /\ ~CpStops(seenCluster, seenCp) => cpQueued
        BY <1>2, <2>1 DEF CpOwner, CpStops, IsPaused
      <3> QED
        BY <3>1, <3>2 DEF CpStops, IsPaused, clusterVars
    <2>2. CASE ~CpStops(seenCluster, cpReq.before)
      BY <1>2, <2>2 DEF CpOwner, CpStops, IsPaused, clusterVars, TypeOK, CpTypeOK
    <2> QED
      BY <2>1, <2>2
  <1>3. CASE CpClose
    <2>1. cp.ready => cp'.ready
      BY <1>3 DEF CpClose, TypeOK, CpTypeOK, CpObjects
    <2>2. cpQueued' \/ cp'.ready
      BY <1>3 DEF CpClose, CpFinish, TypeOK, CpTypeOK, CpObjects
    <2> QED
      BY <1>3, <2>1, <2>2 DEF CpClose, CpFinish
  <1> QED
    BY <1>1, <1>2, <1>3 DEF CpWorker

\* Each event: what is seen anew is queued, or there is nothing to do.
LEMMA EventStep ==
  ASSUME TypeOK, WakeupInv, DeliverCp \/ ResyncCp \/ DeliverCluster \/ Restart
  PROVE  WakeupInv'
  <1> USE DEF WakeupInv, CacheLags, ReadyStays, ChangedIsQueued, CpNoLostWakeup
  <1>1. CASE DeliverCp
    BY <1>1 DEF DeliverCp, CpEventAccepted, CpStops, IsPaused, clusterVars
  <1>2. CASE ResyncCp
    BY <1>2 DEF ResyncCp, clusterVars
  <1>3. CASE DeliverCluster
    BY <1>3 DEF DeliverCluster, CpClusterEvent, CpClusterUpdateAccepted, CpStops, IsPaused
  <1>4. CASE Restart
    BY <1>4 DEF Restart, CpRestart, CpEventAccepted, CpStops, IsPaused, CpIdle
  <1> QED
    BY <1>1, <1>2, <1>3, <1>4

\* Nobody else takes a ready control plane back to unready.
LEMMA ElsewhereStep ==
  ASSUME TypeOK, WakeupInv,
         ClusterEnvironment \/ ((PauseCluster \/ DeleteCluster \/ InfrastructureReady) /\ UNCHANGED cpVars)
  PROVE  WakeupInv'
  <1>1. UNCHANGED <<seenCluster, seenCp, cpQueued, cpReq>>
    BY DEF ClusterEnvironment, OwnCp, PauseCp, SetServing, RemoveCp, RemoveCluster, PauseCluster,
           DeleteCluster, InfrastructureReady, clusterVars, cpVars
  <1>2. cp.ready => cp'.ready
    BY DEF ClusterEnvironment, OwnCp, PauseCp, SetServing, RemoveCp, RemoveCluster, cpVars,
           TypeOK, CpTypeOK, CpObjects
  <1>3. cluster'.phase = "live" => cluster.phase = "live"
    BY DEF ClusterEnvironment, OwnCp, PauseCp, SetServing, RemoveCp, RemoveCluster, PauseCluster,
           DeleteCluster, InfrastructureReady, clusterVars, Deleting, TypeOK, ClusterTypeOK, ClusterObjects
  <1> QED
    BY <1>1, <1>2, <1>3, KeptInv

\* The other controller, its loop and its Machines touch nothing of it.
LEMMA ExtStepKeeps ==
  ASSUME ExtWorker \/ ExtInformers \/ Loop \/ MachineEnvironment
  PROVE  UNCHANGED <<cluster, seenCluster>>
  <1>1. ExtWorker \/ ExtInformers => UNCHANGED <<cluster, seenCluster>>
    BY DEF ExtWorker, ExtStep, ExtStart, ExtMachine, ExtCluster, ExtClose, ExtInformers,
           DeliverExt, DeliverMachine, ResyncExt, clusterVars
  <1>2. Loop => UNCHANGED <<cluster, seenCluster>>
    BY DEF Loop, StartLoop, LoopMachine, LoopExternal, clusterVars
  <1>3. MachineEnvironment => UNCHANGED <<cluster, seenCluster>>
    BY DEF MachineEnvironment, AdoptMachine, OwnExt, PauseExt, DeleteMachine, DeleteExt,
           StripMachine, RemoveMachine, clusterVars
  <1> QED
    BY <1>1, <1>2, <1>3

LEMMA WakeupInvStep == TypeOK /\ WakeupInv /\ [Next]_vars => WakeupInv'
  <1> SUFFICES ASSUME TypeOK, WakeupInv, [Next]_vars PROVE WakeupInv'
    OBVIOUS
  <1>1. CASE ExtWorker \/ ExtInformers \/ Loop \/ MachineEnvironment
    <2>1. CASE UNCHANGED cpVars
      BY <1>1, <2>1, ExtStepKeeps, KeptInv DEF cpVars
    <2>2. CASE ~UNCHANGED cpVars
      BY <2>2, WorkerStep, EventStep, ElsewhereStep DEF Next, vars
    <2> QED
      BY <2>1, <2>2
  <1>2. CASE UNCHANGED vars
    BY <1>2, KeptInv DEF vars, clusterVars, cpVars
  <1> QED
    BY <1>1, <1>2, WorkerStep, EventStep, ElsewhereStep DEF Next

\* CpNoLostWakeup: whatever fails, however the caches lag, and whenever the
\* Cluster or the control plane is paused, deleted or changed under a reconcile,
\* a control plane that the manager should mark ready is ready, queued or in the
\* hands of its worker.
THEOREM ControlPlaneWakeupsAreKept == Spec => []CpNoLostWakeup
  <1>1. WakeupInv => CpNoLostWakeup
    BY DEF WakeupInv
  <1> QED
    BY InitWakeup, WakeupInvStep, ReadinessTypeCorrect, <1>1, PTL DEF Spec

-----------------------------------------------------------------------------
(* An ExternalMachine is not reported ready early.  What the controller knows  *)
(* of its owners may be stale, but only of owners that have been there, and    *)
(* owners stay until the Machine is deleted.                                   *)

NotDeleted(n) == machines[n] \notin {"deleting", "stripped"}

Reconciling(n) == extReq.step # "idle" /\ extReq.node = n

\* The cache or the worker has it that the Machine of n is adopted.
KnownAdopted(n) ==
  \/ exts[n].ready
  \/ seenMachines[n] = "adopted"
  \/ Reconciling(n) /\ extReq.step # "machine"

\* They have it that the ExternalMachine of n has its owner.
KnownOwned(n) == exts[n].ready \/ seenExts[n].owned \/ Reconciling(n)

ReadyInv(n) ==
  /\ KnownAdopted(n) => machines[n] = "adopted"
  /\ KnownOwned(n) => exts[n].owned
  /\ exts[n].owned => exts[n].exists

\* A Machine stays adopted, and its ExternalMachine owned, until it is deleted.
LEMMA OwnersStay ==
  ASSUME TypeOK, NEW n \in Nodes, ReadyInv(n), NotDeleted(n), NotDeleted(n)', Next
  PROVE  /\ machines[n] = "adopted" => machines'[n] = "adopted"
         /\ exts[n].owned => exts'[n].owned
         /\ exts'[n].owned => exts'[n].exists
  <1> USE DEF TypeOK, ExtTypeOK
  <1>1. UNCHANGED <<machines, exts>> => machines'[n] = machines[n] /\ exts'[n] = exts[n]
    OBVIOUS
  <1>2. exts[n] \in ExtObjects
    OBVIOUS
  <1>3. CASE ExtWorker
    <2>1. UNCHANGED machines
      BY <1>3 DEF ExtWorker, ExtStep, ExtStart, ExtMachine, ExtCluster, ExtClose
    <2>2. exts'[n] \in {exts[n], [exts[n] EXCEPT !.ready = TRUE]}
      BY <1>3 DEF ExtWorker, ExtStep, ExtStart, ExtMachine, ExtCluster, ExtClose
    <2> QED
      BY <1>2, <2>1, <2>2 DEF ReadyInv, ExtObjects
  <1>4. CASE Loop
    <2>1. machines[n] = "adopted" => machines'[n] = "adopted"
      BY <1>4 DEF Loop, StartLoop, LoopMachine, LoopExternal
    <2>2. \/ exts' = exts
          \/ ~exts[loop.node].exists /\ exts' = [exts EXCEPT ![loop.node] = NewExt]
      BY <1>4 DEF Loop, StartLoop, LoopMachine, LoopExternal
    <2>3. \/ exts'[n] = exts[n]
          \/ ~exts[n].exists /\ exts'[n] = NewExt
      BY <2>2
    <2> QED
      BY <2>1, <2>3 DEF ReadyInv, NewExt, NoExt
  <1>5. CASE MachineEnvironment
    <2>1. PICK m \in Nodes :
            \/ AdoptMachine(m) \/ OwnExt(m) \/ PauseExt(m)
            \/ DeleteMachine(m) \/ DeleteExt(m) \/ StripMachine(m) \/ RemoveMachine(m)
      BY <1>5 DEF MachineEnvironment
    <2>2. machines[n] = "adopted" => machines'[n] = "adopted"
      BY <2>1 DEF AdoptMachine, OwnExt, PauseExt, DeleteMachine, DeleteExt, StripMachine,
                  RemoveMachine, NotDeleted
    <2>3. \/ exts'[n] = exts[n]
          \/ exts[n].exists /\ exts'[n] = [exts[n] EXCEPT !.owned = TRUE]
          \/ \E p \in BOOLEAN : exts'[n] = [exts[n] EXCEPT !.paused = p]
      <3>1. exts[n].paused \in BOOLEAN
        BY <1>2 DEF ExtObjects
      <3> QED
        BY <2>1, <3>1 DEF AdoptMachine, OwnExt, PauseExt, DeleteMachine, DeleteExt, StripMachine,
                          RemoveMachine, NotDeleted
    <2> QED
      BY <1>2, <2>2, <2>3 DEF ReadyInv, ExtObjects
  <1>6. CASE ~(ExtWorker \/ Loop \/ MachineEnvironment)
    <2>1. UNCHANGED <<machines, exts>>
      BY <1>6 DEF Next, ExtInformers, DeliverExt, DeliverMachine, ResyncExt, DeliverCluster,
                  Restart, ExtRestart, extVars
    <2> QED
      BY <1>1, <2>1 DEF ReadyInv
  <1> QED
    BY <1>3, <1>4, <1>5, <1>6

\* Nothing is known of owners that are not there.
LEMMA OwnersKnown ==
  ASSUME TypeOK, NEW n \in Nodes, ReadyInv(n), NotDeleted(n), NotDeleted(n)', Next
  PROVE  /\ KnownAdopted(n)' => KnownAdopted(n) \/ machines'[n] = "adopted"
         /\ KnownOwned(n)' => KnownOwned(n) \/ exts'[n].owned
  <1> USE DEF TypeOK, ExtTypeOK
  <1>1. exts[n] \in ExtObjects /\ ExtIdle.step = "idle" /\ ~NewExt.ready /\ ~NoExt.ready
    BY DEF ExtIdle, NewExt, NoExt
  <1>2. CASE ExtWorker
    <2>1. UNCHANGED <<machines, seenMachines, seenExts>>
      BY <1>2 DEF ExtWorker, ExtStep, ExtStart, ExtMachine, ExtCluster, ExtClose
    <2>2. ASSUME NEW m \in Nodes, ExtStart(m)
          PROVE  /\ UNCHANGED exts
                 /\ Reconciling(n)' => extReq'.step = "machine" /\ seenExts[n].owned
      BY <1>1, <2>2 DEF ExtStart, Reconciling
    <2>3. CASE ExtMachine \/ ExtCluster
      <3>1. UNCHANGED exts
        BY <2>3 DEF ExtMachine, ExtCluster
      <3>2. Reconciling(n)' => Reconciling(n)
        BY <1>1, <2>3 DEF ExtMachine, ExtCluster, ExtFinish, Reconciling
      <3>3. Reconciling(n)' /\ extReq.step = "machine" => seenMachines[n] = "adopted"
        BY <1>1, <2>3 DEF ExtMachine, ExtCluster, ExtFinish, Reconciling
      <3> QED
        BY <2>1, <3>1, <3>2, <3>3 DEF KnownAdopted, KnownOwned
    <2>4. CASE ExtClose
      <3>1. ~Reconciling(n)'
        BY <1>1, <2>4 DEF ExtClose, ExtFinish, Reconciling
      <3>2. exts'[n].ready => exts[n].ready \/ (Reconciling(n) /\ extReq.step = "close")
        BY <2>4 DEF ExtClose, Reconciling
      <3> QED
        BY <2>1, <3>1, <3>2 DEF KnownAdopted, KnownOwned
    <2> QED
      BY <1>2, <2>1, <2>2, <2>3, <2>4 DEF ExtWorker, ExtStep, KnownAdopted, KnownOwned
  <1>3. CASE Loop
    <2>1. UNCHANGED <<seenMachines, seenExts, extReq>>
      BY <1>3 DEF Loop, StartLoop, LoopMachine, LoopExternal
    <2>2. exts'[n] \in {exts[n], NewExt}
      BY <1>3 DEF Loop, StartLoop, LoopMachine, LoopExternal
    <2> QED
      BY <1>1, <2>1, <2>2 DEF KnownAdopted, KnownOwned, Reconciling
  <1>4. CASE MachineEnvironment
    <2>1. PICK m \in Nodes :
            \/ AdoptMachine(m) \/ OwnExt(m) \/ PauseExt(m)
            \/ DeleteMachine(m) \/ DeleteExt(m) \/ StripMachine(m) \/ RemoveMachine(m)
      BY <1>4 DEF MachineEnvironment
    <2>2. UNCHANGED <<seenMachines, seenExts, extReq>>
      BY <2>1 DEF AdoptMachine, OwnExt, PauseExt, DeleteMachine, DeleteExt, StripMachine, RemoveMachine
    <2>3. exts'[n].ready => exts[n].ready
      <3>1. CASE UNCHANGED exts
        BY <3>1
      <3>2. CASE OwnExt(m) \/ PauseExt(m)
        BY <1>1, <3>2 DEF OwnExt, PauseExt, ExtObjects
      <3>3. CASE DeleteExt(m)
        BY <1>1, <3>3 DEF DeleteExt
      <3> QED
        BY <2>1, <3>1, <3>2, <3>3 DEF AdoptMachine, DeleteMachine, StripMachine, RemoveMachine
    <2> QED
      BY <2>2, <2>3 DEF KnownAdopted, KnownOwned, Reconciling
  <1>5. CASE ExtInformers
    <2>1. UNCHANGED <<exts, machines, extReq>>
      BY <1>5 DEF ExtInformers, DeliverExt, DeliverMachine, ResyncExt
    <2>2. seenMachines'[n] \in {seenMachines[n], machines[n]} /\ seenExts'[n] \in {seenExts[n], exts[n]}
      BY <1>5 DEF ExtInformers, DeliverExt, DeliverMachine, ResyncExt
    <2> QED
      BY <2>1, <2>2 DEF KnownAdopted, KnownOwned, Reconciling
  <1>6. CASE Restart
    BY <1>1, <1>6 DEF Restart, ExtRestart, KnownAdopted, KnownOwned, Reconciling, ReadyInv
  <1>7. CASE UNCHANGED extVars
    BY <1>7 DEF extVars, KnownAdopted, KnownOwned, Reconciling
  <1> QED
    BY <1>2, <1>3, <1>4, <1>5, <1>6, <1>7 DEF Next, DeliverCluster

\* ReadyMeansAdopted: for any nodes and bounds, whatever fails, is late or is paused,
\* status.ready is written after both owners are set, which stay until the Machine
\* is deleted.
THEOREM ReadyAfterAdoption == Spec => ReadyMeansAdopted
  <1> SUFFICES ASSUME NEW n \in Nodes
               PROVE  Spec /\ [](machines[n] \notin {"deleting", "stripped"}) =>
                        [](exts[n].ready => exts[n].owned /\ machines[n] = "adopted")
    BY DEF ReadyMeansAdopted
  <1> DEFINE Ready == exts[n].ready => exts[n].owned /\ machines[n] = "adopted"
  <1>1. Init => ReadyInv(n)
    BY DEF Init, ExtInit, ExtIdle, NoExt, ReadyInv, KnownAdopted, KnownOwned, Reconciling
  <1>2. TypeOK /\ NotDeleted(n) /\ NotDeleted(n)' /\ ReadyInv(n) /\ [Next]_vars => ReadyInv(n)'
    <2> SUFFICES ASSUME TypeOK, NotDeleted(n), NotDeleted(n)', ReadyInv(n), [Next]_vars
                 PROVE  ReadyInv(n)'
      OBVIOUS
    <2>1. CASE Next
      BY <2>1, OwnersStay, OwnersKnown DEF ReadyInv
    <2>2. CASE UNCHANGED vars
      BY <2>2 DEF vars, extVars, ReadyInv, KnownAdopted, KnownOwned, Reconciling
    <2> QED
      BY <2>1, <2>2
  <1>3. ReadyInv(n) => Ready
    BY DEF ReadyInv, KnownAdopted, KnownOwned
  <1>4. NotDeleted(n) <=> machines[n] \notin {"deleting", "stripped"}
    BY DEF NotDeleted
  <1> HIDE DEF Ready
  <1>5. Spec /\ [](machines[n] \notin {"deleting", "stripped"}) => []Ready
    BY <1>1, <1>2, <1>3, <1>4, ReadinessTypeCorrect, PTL DEF Spec
  <1> QED
    BY <1>5 DEF Ready

=============================================================================
