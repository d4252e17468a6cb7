---------------------------- MODULE ManagersProofs ----------------------------
(***************************************************************************)
(* What TLAPS proves about two managers without leader election.  What is  *)
(* proved of one manager in ExternalClusterProofs says what its own steps  *)
(* do to it; what is new here is what they do to the other.                *)
(***************************************************************************)
EXTENDS Managers, TLAPS

\* The assumptions of ExternalCluster hold of either manager.
LEMMA Assumptions ==
  /\ A!NoneAssumption /\ A!NodesOfAssumption /\ A!ResyncAssumption /\ A!BoundsAssumption
  /\ B!NoneAssumption /\ B!NodesOfAssumption /\ B!ResyncAssumption /\ B!BoundsAssumption
  BY NoneAssumption, NodesOfAssumption, ResyncAssumption, BoundsAssumption
     DEF A!NoneAssumption, A!NodesOfAssumption, A!ResyncAssumption, A!BoundsAssumption,
         B!NoneAssumption, B!NodesOfAssumption, B!ResyncAssumption, B!BoundsAssumption

\* A step is one of A that leaves the caches of B alone, or the other way round.
LEMMA OneManagerSteps ==
  ASSUME Next
  PROVE  (A!Next /\ UNCHANGED managerB) \/ (B!Next /\ UNCHANGED managerA)
  BY DEF Next, A!Next, B!Next

-----------------------------------------------------------------------------
(* Types.                                                                   *)

\* What the types of both say of the shared objects is the same.
LEMMA SharedTypes ==
  /\ A!ApiTypeOK <=> B!ApiTypeOK
  /\ A!WorkloadTypeOK <=> B!WorkloadTypeOK
  <1>1. A!ApiTypeOK <=> B!ApiTypeOK
    BY DEF A!ApiTypeOK, A!ClusterObjects, A!Phases, A!EcObjects, A!Reasons, A!SecretObjects, A!NodeNames,
           B!ApiTypeOK, B!ClusterObjects, B!Phases, B!EcObjects, B!Reasons, B!SecretObjects, B!NodeNames
  <1>2. A!WorkloadTypeOK <=> B!WorkloadTypeOK
    BY DEF A!WorkloadTypeOK, A!AccessStates, A!NodeNames, B!WorkloadTypeOK, B!AccessStates, B!NodeNames
  <1> QED
    BY <1>1, <1>2

LEMMA InitTypes == Init => TypeOK
  <1>1. A!Init => A!TypeOK
    BY Assumptions, A!InitType
  <1>2. B!Init => B!TypeOK
    BY Assumptions, B!InitType
  <1> QED
    BY <1>1, <1>2 DEF Init, TypeOK

LEMMA TypesStep == TypeOK /\ [Next]_vars => TypeOK'
  <1> SUFFICES ASSUME TypeOK, [Next]_vars PROVE TypeOK'
    OBVIOUS
  <1>1. A!TypeOK /\ A!Next => A!TypeOK'
    BY Assumptions, A!TypeStep
  <1>2. B!TypeOK /\ B!Next => B!TypeOK'
    BY Assumptions, B!TypeStep
  <1>3. CASE A!Next /\ UNCHANGED managerB
    <2>1. A!TypeOK'
      BY <1>1, <1>3 DEF TypeOK
    <2>2. B!ApiTypeOK' /\ B!WorkloadTypeOK'
      BY <2>1, SharedTypes, PTL DEF A!TypeOK
    <2>3. B!CacheTypeOK'
      BY <1>3 DEF TypeOK, B!TypeOK, B!CacheTypeOK, managerB
    <2> QED
      BY <1>3, <2>1, <2>2, <2>3 DEF TypeOK, A!TypeOK, B!TypeOK, managerB
  <1>4. CASE B!Next /\ UNCHANGED managerA
    <2>1. B!TypeOK'
      BY <1>2, <1>4 DEF TypeOK
    <2>2. A!ApiTypeOK' /\ A!WorkloadTypeOK'
      BY <2>1, SharedTypes, PTL DEF B!TypeOK
    <2>3. A!CacheTypeOK'
      BY <1>4 DEF TypeOK, A!TypeOK, A!CacheTypeOK, managerA
    <2> QED
      BY <1>4, <2>1, <2>2, <2>3 DEF TypeOK, A!TypeOK, B!TypeOK, managerA
  <1>5. CASE UNCHANGED vars
    BY <1>5 DEF vars, shared, managerA, managerB, TypeOK,
         A!TypeOK, A!ApiTypeOK, A!WorkloadTypeOK, A!CacheTypeOK,
         B!TypeOK, B!ApiTypeOK, B!WorkloadTypeOK, B!CacheTypeOK
  <1> QED
    BY <1>3, <1>4, <1>5, OneManagerSteps

\* TypeOK of both managers together: neither brings the shared objects out of shape.
THEOREM ManagersTypeCorrect == Spec => []TypeOK
  BY InitTypes, TypesStep, PTL DEF Spec

-----------------------------------------------------------------------------
(* Wake-ups.                                                                *)

Wakeups == A!WakeupInv /\ B!WakeupInv

\* All that the step of another manager, or of the environment, may not do: bring
\* a Cluster back to life, or take status.ready back.
Harmless ==
  /\ \A c \in Clusters : clusters'[c].phase = "live" => clusters[c].phase = "live"
  /\ \A c \in Clusters : ecs[c].ready => ecs'[c].ready

LEMMA StepsAreHarmless == TypeOK /\ Next => Harmless
  <1>1. A!TypeOK /\ A!Next => Harmless
    BY Assumptions, A!LiveBefore, A!ReadyNeverReset DEF Harmless
  <1>2. B!TypeOK /\ B!Next => Harmless
    BY Assumptions, B!LiveBefore, B!ReadyNeverReset DEF Harmless
  <1> QED
    BY <1>1, <1>2, OneManagerSteps DEF TypeOK

\* A manager that does nothing keeps its invariant in such a step.
LEMMA OtherIsKept ==
  ASSUME TypeOK, Wakeups, Harmless
  PROVE  /\ UNCHANGED managerA => A!WakeupInv'
         /\ UNCHANGED managerB => B!WakeupInv'
  <1>1. UNCHANGED managerA => A!WakeupInv'
    BY DEF TypeOK, A!TypeOK, Wakeups, Harmless, managerA, A!WakeupInv, A!CacheLags, A!ReadyStays,
           A!ChangedIsQueued, A!NoLostWakeup, A!SeenWanted, A!Active, A!IsPaused
  <1>2. UNCHANGED managerB => B!WakeupInv'
    BY DEF TypeOK, B!TypeOK, Wakeups, Harmless, managerB, B!WakeupInv, B!CacheLags, B!ReadyStays,
           B!ChangedIsQueued, B!NoLostWakeup, B!SeenWanted, B!Active, B!IsPaused
  <1> QED
    BY <1>1, <1>2

LEMMA InitWakeups == Init => Wakeups
  <1>1. A!Init => A!WakeupInv
    BY Assumptions, A!InitWakeup
  <1>2. B!Init => B!WakeupInv
    BY Assumptions, B!InitWakeup
  <1> QED
    BY <1>1, <1>2 DEF Init, Wakeups

LEMMA WakeupsStep == TypeOK /\ Wakeups /\ [Next]_vars => Wakeups'
  <1> SUFFICES ASSUME TypeOK, Wakeups, [Next]_vars PROVE Wakeups'
    OBVIOUS
  <1>1. CASE UNCHANGED vars
    BY <1>1, OtherIsKept DEF vars, shared, Harmless, Wakeups
  <1>2. A!TypeOK /\ A!WakeupInv /\ A!Next => A!WakeupInv'
    BY Assumptions, A!WakeupInvStep
  <1>3. B!TypeOK /\ B!WakeupInv /\ B!Next => B!WakeupInv'
    BY Assumptions, B!WakeupInvStep
  <1> QED
    BY <1>1, <1>2, <1>3, OneManagerSteps, StepsAreHarmless, OtherIsKept DEF TypeOK, Wakeups

\* NoLostWakeup of both managers: that another manager works on the same objects
\* makes neither of them drop an ExternalCluster it should reconcile.
THEOREM ManagersKeepWakeups == Spec => []NoLostWakeup
  <1>1. Wakeups => NoLostWakeup
    BY DEF Wakeups, A!WakeupInv, B!WakeupInv, NoLostWakeup
  <1> QED
    BY InitWakeups, WakeupsStep, ManagersTypeCorrect, <1>1, PTL DEF Spec

-----------------------------------------------------------------------------
\* SecretNotClobbered: two managers that update the same Secret from stale caches
\* still change nothing but its owner, and only of the Secret as it is.
THEOREM ManagersKeepSecrets == Spec => SecretNotClobbered
  <1> DEFINE Step == \A c \in Clusters :
                       secrets'[c].owner = "cluster" /\ secrets[c].owner # "cluster" =>
                         secrets[c].exists /\ secrets'[c] = [secrets[c] EXCEPT !.owner = "cluster"]
  <1>1. TypeOK /\ [Next]_vars => [Step]_vars
    <2>1. A!TypeOK /\ A!Next => Step
      BY Assumptions, A!SecretStep
    <2>2. B!TypeOK /\ B!Next => Step
      BY Assumptions, B!SecretStep
    <2> QED
      BY <2>1, <2>2, OneManagerSteps DEF TypeOK
  <1> QED
    BY <1>1, ManagersTypeCorrect, PTL DEF Spec, SecretNotClobbered

-----------------------------------------------------------------------------
(* The inventory of clusters whose nodes have different names.              *)

DisjointNodes == \A c, d \in Clusters : c # d => NodesOf[c] \cap NodesOf[d] = {}

Inventory == A!InventoryInv /\ B!InventoryInv

\* What both invariants say of the shared objects, and of names, is the same.
LEMMA SharedInventory ==
  /\ A!NodeNames = B!NodeNames
  /\ DisjointNodes => A!DisjointNodes /\ B!DisjointNodes
  /\ A!OwnNodes <=> B!OwnNodes
  /\ A!NoOrphanExternalMachine <=> B!NoOrphanExternalMachine
  BY DEF A!NodeNames, B!NodeNames, DisjointNodes, A!DisjointNodes, B!DisjointNodes, A!OwnNodes, B!OwnNodes,
         A!NoOrphanExternalMachine, B!NoOrphanExternalMachine

\* What the loop of one manager relies on in the steps of the other: the objects
\* of a cluster that is live stay.
Lasting ==
  \A c \in Clusters : clusters'[c].phase = "live" =>
    /\ clusters[c].phase = "live"
    /\ \A n \in A!NodeNames :
         /\ machines[n] = c => machines'[n] = c
         /\ extMachines[n] = c => extMachines'[n] = c

LEMMA StepsAreLasting == TypeOK /\ Inventory /\ (A!Next \/ B!Next) => Lasting
  <1>1. TypeOK /\ Inventory /\ A!Next => Lasting
    BY Assumptions, A!LiveBefore, A!ObjectsStay DEF Lasting, TypeOK, Inventory, A!InventoryInv
  <1>2. TypeOK /\ Inventory /\ B!Next => Lasting
    BY Assumptions, SharedInventory, B!LiveBefore, B!ObjectsStay
       DEF Lasting, TypeOK, Inventory, B!InventoryInv
  <1> QED
    BY <1>1, <1>2

LEMMA OtherLoopIsKept ==
  ASSUME TypeOK, Inventory, Lasting
  PROVE  /\ UNCHANGED managerA => A!LoopProgress'
         /\ UNCHANGED managerB => B!LoopProgress'
  <1>1. ASSUME UNCHANGED managerA PROVE A!LoopProgress'
    <2> DEFINE r == reqA
    <2>1. r' = r
      BY <1>1 DEF managerA
    <2>2. A!LoopProgress
      BY DEF Inventory, A!InventoryInv
    <2>3. r.step # "idle" => r.key \in Clusters
      BY DEF TypeOK, A!TypeOK
    <2>4. r.listed \subseteq A!NodeNames
      BY Zenon DEF TypeOK, A!TypeOK, A!Requests
    <2> HIDE DEF r
    <2> QED
      BY <2>1, <2>2, <2>3, <2>4 DEF r, A!LoopProgress, A!LoopSteps, Lasting
  <1>2. ASSUME UNCHANGED managerB PROVE B!LoopProgress'
    <2> DEFINE r == reqB
    <2>1. r' = r
      BY <1>2 DEF managerB
    <2>2. B!LoopProgress
      BY DEF Inventory, B!InventoryInv
    <2>3. r.step # "idle" => r.key \in Clusters
      BY DEF TypeOK, B!TypeOK
    <2>4. r.listed \subseteq A!NodeNames
      BY SharedInventory, Zenon DEF TypeOK, B!TypeOK, B!Requests
    <2> HIDE DEF r
    <2> QED
      BY <2>1, <2>2, <2>3, <2>4 DEF r, B!LoopProgress, B!LoopSteps, Lasting
  <1> QED
    BY <1>1, <1>2

LEMMA InitInventories == Init => Inventory
  <1>1. A!Init => A!InventoryInv
    BY Assumptions, A!InitInventory
  <1>2. B!Init => B!InventoryInv
    BY Assumptions, B!InitInventory
  <1> QED
    BY <1>1, <1>2 DEF Init, Inventory

LEMMA InventoriesStep == DisjointNodes /\ TypeOK /\ Inventory /\ [Next]_vars => Inventory'
  <1> SUFFICES ASSUME DisjointNodes, TypeOK, Inventory, [Next]_vars PROVE Inventory'
    OBVIOUS
  <1>1. A!Next => A!InventoryInv'
    BY Assumptions, SharedInventory, A!InventoryStep DEF TypeOK, Inventory
  <1>2. B!Next => B!InventoryInv'
    BY Assumptions, SharedInventory, B!InventoryStep DEF TypeOK, Inventory
  <1>3. CASE A!Next /\ UNCHANGED managerB
    <2>1. B!OwnNodes' /\ B!NoOrphanExternalMachine'
      BY <1>1, <1>3, SharedInventory, PTL DEF A!InventoryInv
    <2> QED
      BY <1>1, <1>3, <2>1, StepsAreLasting, OtherLoopIsKept DEF Inventory, B!InventoryInv
  <1>4. CASE B!Next /\ UNCHANGED managerA
    <2>1. A!OwnNodes' /\ A!NoOrphanExternalMachine'
      BY <1>2, <1>4, SharedInventory, PTL DEF B!InventoryInv
    <2> QED
      BY <1>2, <1>4, <2>1, StepsAreLasting, OtherLoopIsKept DEF Inventory, A!InventoryInv
  <1>5. CASE UNCHANGED vars
    BY <1>5 DEF vars, shared, managerA, managerB, Inventory,
         A!InventoryInv, A!OwnNodes, A!LoopProgress, A!NoOrphanExternalMachine,
         B!InventoryInv, B!OwnNodes, B!LoopProgress, B!NoOrphanExternalMachine
  <1> QED
    BY <1>3, <1>4, <1>5, OneManagerSteps

LEMMA InventoriesAreInvariant == DisjointNodes /\ Spec => []Inventory
  <1> SUFFICES ASSUME DisjointNodes PROVE Spec => []Inventory
    OBVIOUS
  <1>1. TypeOK /\ Inventory /\ [Next]_vars => Inventory'
    BY InventoriesStep
  <1> QED
    BY InitInventories, <1>1, ManagersTypeCorrect, PTL DEF Spec

\* ReadyCoversNodes of both managers, when node names are unique: either finds
\* each node it listed covered when it is about to write ready, although half of
\* the objects may be the work of the other.
THEOREM ManagersMeanCovered == DisjointNodes /\ Spec => []ReadyCoversNodes
  <1>1. A!TypeOK /\ A!InventoryInv => A!ReadyCoversNodes
    BY Assumptions, A!CoveredByInventory
  <1>2. B!TypeOK /\ B!InventoryInv => B!ReadyCoversNodes
    BY Assumptions, B!CoveredByInventory
  <1>3. TypeOK /\ Inventory => ReadyCoversNodes
    BY <1>1, <1>2 DEF TypeOK, Inventory, ReadyCoversNodes
  <1> QED
    BY <1>3, InventoriesAreInvariant, ManagersTypeCorrect, PTL

\* NoOrphanExternalMachine, when node names are unique, with two loops at once.
THEOREM ManagersLeaveNoOrphans == DisjointNodes /\ Spec => []NoOrphanExternalMachine
  <1>1. Inventory => NoOrphanExternalMachine
    BY DEF Inventory, A!InventoryInv, NoOrphanExternalMachine
  <1> QED
    BY <1>1, InventoriesAreInvariant, PTL

\* KeepsInventory, when node names are unique: what either manager does is a step
\* of the one abstract inventory.
THEOREM ManagersKeepInventory == DisjointNodes /\ Spec => KeepsInventory
  <1> SUFFICES ASSUME DisjointNodes PROVE Spec => KeepsInventory
    OBVIOUS
  <1>1. Init => A!Inventory!Init
    BY Assumptions, A!InitKeeps DEF Init
  <1>2. TypeOK /\ Inventory /\ [Next]_vars => [A!Inventory!Next]_(A!Inventory!inventory)
    <2> SUFFICES ASSUME TypeOK, Inventory, [Next]_vars
                 PROVE  [A!Inventory!Next]_(A!Inventory!inventory)
      OBVIOUS
    <2>1. A!Next => [A!Inventory!Next]_(A!Inventory!inventory)
      BY Assumptions, SharedInventory, A!ImplementsInventory DEF TypeOK, Inventory
    <2>2. B!Next => [B!Inventory!Next]_(B!Inventory!inventory)
      BY Assumptions, SharedInventory, B!ImplementsInventory DEF TypeOK, Inventory
    <2>3. [B!Inventory!Next]_(B!Inventory!inventory) => [A!Inventory!Next]_(A!Inventory!inventory)
      BY SharedInventory DEF A!Inventory!Next, A!Inventory!inventory, A!Inventory!Register, A!Inventory!Complete,
         A!LiveClusters, B!LiveClusters, A!Inventory!End, A!Inventory!DropExternal, A!Inventory!DropMachine,
         B!Inventory!Next, B!Inventory!inventory, B!Inventory!Register, B!Inventory!Complete,
         B!Inventory!End, B!Inventory!DropExternal, B!Inventory!DropMachine
    <2>4. CASE UNCHANGED vars
      BY <2>4 DEF vars, shared, A!LiveClusters, A!Inventory!inventory
    <2> QED
      BY <2>1, <2>2, <2>3, <2>4, OneManagerSteps
  <1> QED
    BY <1>1, <1>2, InventoriesAreInvariant, ManagersTypeCorrect, PTL
       DEF Spec, KeepsInventory, A!KeepsInventory, A!Inventory!Spec

-----------------------------------------------------------------------------
(* A node that is there all along.                                          *)

\* The lists of both managers, and the objects, which they have in common.
Covered(c, n) == A!OnTheList(c, n) /\ B!OnTheList(c, n) /\ A!CoveredWhileReady(c, n)

LEMMA SharedCoverage ==
  ASSUME NEW c, NEW n
  PROVE  A!CoveredWhileReady(c, n) <=> B!CoveredWhileReady(c, n)
  BY DEF A!CoveredWhileReady, B!CoveredWhileReady

LEMMA CoveredByBoth ==
  ASSUME TypeOK, Inventory, NEW c \in Clusters, NEW n \in NodesOf[c], n \in nodes[c], Covered(c, n),
         [Next]_vars
  PROVE  Covered(c, n)'
  <1>1. CASE A!Next /\ UNCHANGED managerB
    <2>1. A!OnTheList(c, n)'
      BY <1>1, Assumptions, A!OnTheListStep DEF TypeOK, Covered
    <2>2. A!CoveredWhileReady(c, n)'
      BY <1>1, Assumptions, A!CoveredStep DEF TypeOK, Inventory, Covered
    <2>3. B!OnTheList(c, n)'
      BY <1>1 DEF Covered, managerB, B!OnTheList, B!Active, B!Looping
    <2> QED
      BY <2>1, <2>2, <2>3 DEF Covered
  <1>2. CASE B!Next /\ UNCHANGED managerA
    <2>1. B!OnTheList(c, n)'
      BY <1>2, Assumptions, B!OnTheListStep DEF TypeOK, Covered
    <2>2. B!CoveredWhileReady(c, n)'
      BY <1>2, Assumptions, SharedCoverage, B!CoveredStep DEF TypeOK, Inventory, Covered
    <2>3. A!OnTheList(c, n)'
      BY <1>2 DEF Covered, managerA, A!OnTheList, A!Active, A!Looping
    <2>4. A!CoveredWhileReady(c, n)'
      BY <2>2, SharedCoverage, PTL
    <2> QED
      BY <2>1, <2>3, <2>4 DEF Covered
  <1>3. CASE UNCHANGED vars
    BY <1>3 DEF vars, shared, managerA, managerB, Covered, A!OnTheList, A!Active, A!Looping,
         B!OnTheList, B!Active, B!Looping, A!CoveredWhileReady
  <1> QED
    BY <1>1, <1>2, <1>3, OneManagerSteps

\* NodesStayCovered, when node names are unique: a node that is there all along
\* keeps its objects while its cluster is ready and live, whichever of two
\* managers created them, wrote ready, died or started over.
THEOREM ManagersKeepCoverage == DisjointNodes /\ Spec => NodesStayCovered
  <1> SUFFICES ASSUME DisjointNodes, NEW c \in Clusters, NEW n \in NodesOf[c]
               PROVE  Spec /\ [](n \in nodes[c]) => []A!CoveredWhileReady(c, n)
    BY DEF NodesStayCovered, A!NodesStayCovered, A!CoveredWhileReady
  <1>1. Init => Covered(c, n)
    <2>1. A!Init => A!OnTheList(c, n) /\ A!CoveredWhileReady(c, n)
      BY Assumptions, A!InitCovered
    <2>2. B!Init => B!OnTheList(c, n)
      BY Assumptions, B!InitCovered
    <2> QED
      BY <2>1, <2>2 DEF Init, Covered
  <1>2. TypeOK /\ Inventory /\ n \in nodes[c] /\ Covered(c, n) /\ [Next]_vars => Covered(c, n)'
    BY CoveredByBoth
  <1>3. Covered(c, n) => A!CoveredWhileReady(c, n)
    BY DEF Covered
  <1>4. DisjointNodes /\ Spec => []Inventory
    BY InventoriesAreInvariant
  <1> QED
    BY <1>1, <1>2, <1>3, <1>4, ManagersTypeCorrect, PTL DEF Spec

\* RestsWhenDone of both managers, when node names are unique: one of them being at
\* rest is enough for the objects of a node to be there.
THEOREM ManagersRestWhenDone == DisjointNodes /\ Spec => RestsWhenDone
  <1> SUFFICES ASSUME DisjointNodes, NEW c \in Clusters, NEW n \in NodesOf[c]
               PROVE  Spec /\ [](n \in nodes[c]) =>
                        /\ [](A!AtRest(c) /\ A!Wanted(c) => machines[n] = c /\ extMachines[n] = c)
                        /\ [](B!AtRest(c) /\ B!Wanted(c) => machines[n] = c /\ extMachines[n] = c)
    BY DEF RestsWhenDone, A!RestsWhenDone, B!RestsWhenDone
  <1> DEFINE Kept == ecs[c].ready /\ clusters[c].phase = "live" => machines[n] = c /\ extMachines[n] = c
             DoneA == A!AtRest(c) /\ A!Wanted(c) => machines[n] = c /\ extMachines[n] = c
             DoneB == B!AtRest(c) /\ B!Wanted(c) => machines[n] = c /\ extMachines[n] = c
  <1>1. NodesStayCovered => ([](n \in nodes[c]) => []Kept)
    BY DEF NodesStayCovered, A!NodesStayCovered
  <1>2. NoLostWakeup /\ Kept => DoneA
    BY Assumptions, A!RestsWhenReady DEF NoLostWakeup, A!Wanted
  <1>3. NoLostWakeup /\ Kept => DoneB
    BY Assumptions, B!RestsWhenReady DEF NoLostWakeup, B!Wanted
  <1>4. DisjointNodes /\ Spec => NodesStayCovered
    BY ManagersKeepCoverage
  <1> HIDE DEF Kept, DoneA, DoneB
  <1>5. Spec /\ [](n \in nodes[c]) => []DoneA /\ []DoneB
    BY <1>1, <1>2, <1>3, <1>4, ManagersKeepWakeups, PTL
  <1> QED
    BY <1>5 DEF DoneA, DoneB

-----------------------------------------------------------------------------
(* The reconciles of either manager.                                        *)

\* What is known of the result of either manager is about its request alone.
Results == A!ResultKnown /\ B!ResultKnown

LEMMA InitResults == Init => Results
  BY Assumptions, A!InitResult, B!InitResult DEF Init, Results

LEMMA EachSteps ==
  ASSUME [Next]_vars
  PROVE  (A!Next \/ UNCHANGED reqA) /\ (B!Next \/ UNCHANGED reqB)
  BY OneManagerSteps DEF vars, managerA, managerB

LEMMA ResultsStep == TypeOK /\ Results /\ [Next]_vars => Results'
  <1> SUFFICES ASSUME TypeOK, Results, [Next]_vars PROVE Results'
    OBVIOUS
  <1>1. UNCHANGED reqA => A!ResultKnown'
    BY DEF Results, A!ResultKnown
  <1>2. UNCHANGED reqB => B!ResultKnown'
    BY DEF Results, B!ResultKnown
  <1>3. A!Next => A!ResultKnown'
    BY Assumptions, A!ResultKnownStep DEF TypeOK, Results
  <1>4. B!Next => B!ResultKnown'
    BY Assumptions, B!ResultKnownStep DEF TypeOK, Results
  <1>5. A!ResultKnown' /\ B!ResultKnown'
    BY <1>1, <1>2, <1>3, <1>4, EachSteps
  <1> QED
    BY <1>5, PTL DEF Results

\* FailsForCause of both managers: what the other one has created, patched or
\* updated before is never a cause by itself.
THEOREM ManagersFailForCause == Spec => FailsForCause
  <1> DEFINE StepA == \A c \in Clusters :
               /\ A!Active(c) /\ reqA.step # "owner" /\ reqA.result \in {"none", "ready"}
               /\ A!Worker /\ UNCHANGED faults
               /\ A!Healthy(c) /\ A!SecretSeen(c)
               => \/ A!Active(c)' /\ reqA'.result \in {"none", "ready"}
                  \/ ecs'[c].ready /\ UNCHANGED queueA
             StepB == \A c \in Clusters :
               /\ B!Active(c) /\ reqB.step # "owner" /\ reqB.result \in {"none", "ready"}
               /\ B!Worker /\ UNCHANGED faults
               /\ B!Healthy(c) /\ B!SecretSeen(c)
               => \/ B!Active(c)' /\ reqB'.result \in {"none", "ready"}
                  \/ ecs'[c].ready /\ UNCHANGED queueB
  <1>1. TypeOK /\ Wakeups /\ Results => StepA /\ StepB
    <2>1. TypeOK /\ Wakeups /\ Results => StepA
      BY Assumptions, A!WorkerFailsForCause DEF TypeOK, Wakeups, Results
    <2>2. TypeOK /\ Wakeups /\ Results => StepB
      BY Assumptions, B!WorkerFailsForCause DEF TypeOK, Wakeups, Results
    <2> QED
      BY <2>1, <2>2
  <1>2. TypeOK /\ Wakeups /\ Results => [StepA]_(A!vars) /\ [StepB]_(B!vars)
    BY <1>1
  <1> QED
    BY <1>2, InitResults, ResultsStep, InitWakeups, WakeupsStep, ManagersTypeCorrect, PTL
       DEF Spec, FailsForCause, A!FailsForCause, B!FailsForCause

-----------------------------------------------------------------------------
\* A Machine or ExternalMachine never passes from one cluster to another, even when
\* two managers create objects for nodes of the same name at once.
THEOREM ManagersNeverSteal == Spec => A!NeverStolen
  <1> DEFINE Step == \A n \in A!NodeNames :
        /\ machines'[n] # machines[n] => None \in {machines[n], machines'[n]}
        /\ extMachines'[n] # extMachines[n] => None \in {extMachines[n], extMachines'[n]}
  <1>1. TypeOK /\ [Next]_vars => [Step]_(A!vars)
    <2>1. TypeOK /\ A!Next => Step
      BY Assumptions, A!StolenStep DEF TypeOK
    <2>2. TypeOK /\ B!Next => Step
      BY Assumptions, SharedInventory, B!StolenStep DEF TypeOK
    <2>3. UNCHANGED vars => UNCHANGED A!vars
      BY DEF vars, shared, managerA, A!vars, A!api, A!workload, A!cache
    <2> QED
      BY <2>1, <2>2, <2>3, OneManagerSteps
  <1> QED
    BY <1>1, ManagersTypeCorrect, PTL DEF Spec, A!NeverStolen

=============================================================================
