---------------------------- MODULE CoverageProofs ----------------------------
(***************************************************************************)
(* What status.ready of an ExternalCluster means for the nodes from then   *)
(* on, proved for any clusters, nodes and bounds.                          *)
(***************************************************************************)
EXTENDS ReconcileProofs

-----------------------------------------------------------------------------
(* A node that is there all along.                                          *)

\* The reconcile in progress has listed its nodes and found nothing wrong since.
Looping == req.step \in LoopSteps \/ (req.step = "close" /\ req.result = "ready")

\* A reconcile of c that goes over its nodes has node n on its list.
OnTheList(c, n) == Active(c) /\ Looping => n \in req.listed

\* Both objects of node n of a cluster that is ready and live are there.
CoveredWhileReady(c, n) ==
  ecs[c].ready /\ clusters[c].phase = "live" => machines[n] = c /\ extMachines[n] = c

\* Only a Close whose reconcile went through the loop sets status.ready.
LEMMA ReadySetByClose ==
  ASSUME TypeOK, Next, NEW c \in Clusters, ~ecs[c].ready, ecs'[c].ready
  PROVE  /\ req.step = "close" /\ req.result = "ready" /\ req.key = c
         /\ UNCHANGED <<clusters, machines, extMachines>>
  <1>1. CASE UNCHANGED ecs
    BY <1>1
  <1>2. CASE Close
    <2> DEFINE wanted == WantedEc(ecs[req.key], req.result)
    <2>1. UNCHANGED ecs \/ ecs' = [ecs EXCEPT ![req.key] = wanted]
      BY <1>2 DEF Close
    <2>2. req.key \in Clusters /\ ecs[req.key] \in EcObjects
      BY <1>2 DEF Close, TypeOK, ApiTypeOK
    <2>3. req.result # "ready" => wanted.ready = ecs[req.key].ready
      BY <2>2 DEF WantedEc, EcObjects
    <2> HIDE DEF wanted
    <2>4. req.key = c /\ req.result = "ready"
      BY <2>1, <2>2, <2>3 DEF TypeOK, ApiTypeOK
    <2> QED
      BY <1>2, <2>4 DEF Close
  <1>3. ASSUME NEW d \in Clusters, SetOwner(d) \/ PauseEc(d) \/ RemoveEc(d)
        PROVE  ecs'[c].ready => ecs[c].ready
    <2>1. \E object \in EcObjects : object.ready = ecs[d].ready /\ ecs' = [ecs EXCEPT ![d] = object]
      <3> DEFINE owned == [ecs[d] EXCEPT !.owned = TRUE]
                 paused == [ecs[d] EXCEPT !.paused = ~@]
                 gone == [ecs[d] EXCEPT !.exists = FALSE]
      <3>1. /\ owned \in EcObjects /\ paused \in EcObjects /\ gone \in EcObjects
            /\ owned.ready = ecs[d].ready /\ paused.ready = ecs[d].ready /\ gone.ready = ecs[d].ready
        BY DEF TypeOK, ApiTypeOK, EcObjects
      <3>2. \/ ecs' = [ecs EXCEPT ![d] = owned]
            \/ ecs' = [ecs EXCEPT ![d] = paused]
            \/ ecs' = [ecs EXCEPT ![d] = gone]
        BY <1>3 DEF SetOwner, PauseEc, RemoveEc
      <3> HIDE DEF owned, paused, gone
      <3> QED
        BY <3>1, <3>2
    <2> QED
      BY <2>1 DEF TypeOK, ApiTypeOK
  <1> QED
    BY <1>1, <1>2, <1>3, EcSteps

\* The loop starts with all nodes the cluster has, and forgets none.
LEMMA OnTheListStep ==
  ASSUME TypeOK, Next, NEW c \in Clusters, NEW n \in nodes[c], OnTheList(c, n)
  PROVE  OnTheList(c, n)'
  <1> SUFFICES ASSUME Active(c)', Looping' PROVE n \in req'.listed
    BY DEF OnTheList
  <1>1. CASE UNCHANGED req
    BY <1>1 DEF OnTheList, Active, Looping
  <1>2. CASE ListNodes
    <2> DEFINE listed == nodes[req.key]
               next == [NextNode(listed) EXCEPT !.listed = listed]
    <2>1. NextNode(listed) \in Requests
      BY <1>2, RequestType DEF ListNodes, TypeOK, WorkloadTypeOK
    <2>2. next.key = NextNode(listed).key /\ next.listed = listed
      BY <2>1 DEF Requests
    <2>3. NextNode(listed).key = req.key
      BY KeyKept
    <2>4. req' = next
      <3>1. req' = next \/ req' = Return("NodesListFailed")
        BY <1>2 DEF ListNodes
      <3> QED
        BY <3>1, LoopRequests DEF LoopSteps, Looping
    <2> QED
      BY <2>2, <2>3, <2>4 DEF Active
  <1>3. ASSUME NEW m \in NodeNames, CreateMachine(m) PROVE n \in req'.listed
    <2>1. req' = [req EXCEPT !.step = "external", !.node = m] \/ req' = Return("error")
      BY <1>3 DEF CreateMachine
    <2>2. req'.key = req.key /\ req'.listed = req.listed
      <3>1. CASE req' = [req EXCEPT !.step = "external", !.node = m]
        BY <3>1, LoopRequests
      <3>2. CASE req' = Return("error")
        BY <3>2, LoopRequests
      <3> QED
        BY <2>1, <3>1, <3>2
    <2>3. req.step = "machine"
      BY <1>3 DEF CreateMachine
    <2> QED
      BY <2>2, <2>3 DEF OnTheList, Active, Looping, LoopSteps
  <1>4. CASE CreateExternalMachine
    <2>1. req' = NextNode(req.todo \ {req.node}) \/ req' = Return("error")
      BY <1>4 DEF CreateExternalMachine
    <2>2. req'.key = req.key /\ req'.listed = req.listed
      BY <2>1, LoopRequests
    <2>3. req.step = "external"
      BY <1>4 DEF CreateExternalMachine
    <2> QED
      BY <2>2, <2>3 DEF OnTheList, Active, Looping, LoopSteps
  <1>5. req' # Idle
    BY DEF Active, Idle
  <1> QED
    BY <1>1, <1>2, <1>3, <1>4, <1>5, LoopWorkers, OutsideRequest DEF Next, Looping

\* What is covered stays covered, and who becomes ready is covered.
LEMMA CoveredStep ==
  ASSUME TypeOK, InventoryInv, Next, NEW c \in Clusters, NEW n \in NodesOf[c],
         OnTheList(c, n), CoveredWhileReady(c, n)
  PROVE  CoveredWhileReady(c, n)'
  <1> SUFFICES ASSUME ecs'[c].ready, clusters'[c].phase = "live"
               PROVE  machines'[n] = c /\ extMachines'[n] = c
    BY DEF CoveredWhileReady
  <1>1. clusters[c].phase = "live" /\ n \in NodeNames
    BY LiveBefore, NodesAreNamed
  <1>2. CASE ecs[c].ready
    BY <1>1, <1>2, ObjectsStay DEF CoveredWhileReady, InventoryInv
  <1>3. CASE ~ecs[c].ready
    <2>1. /\ req.step = "close" /\ req.result = "ready" /\ req.key = c
          /\ UNCHANGED <<clusters, machines, extMachines>>
      BY <1>3, ReadySetByClose
    <2>2. n \in req.listed /\ req.todo = {}
      BY <2>1 DEF OnTheList, Active, Looping, InventoryInv, LoopProgress, LoopSteps
    <2>3. machines[n] = c /\ extMachines[n] = c
      BY <1>1, <2>1, <2>2 DEF InventoryInv, LoopProgress, LoopSteps
    <2> QED
      BY <2>1, <2>3
  <1> QED
    BY <1>2, <1>3

LEMMA InitCovered ==
  ASSUME Init, NEW c \in Clusters, NEW n
  PROVE  OnTheList(c, n) /\ CoveredWhileReady(c, n)
  BY DEF Init, OnTheList, Active, Idle, CoveredWhileReady, NewEc

\* NodesStayCovered: when node names are unique, a node that is there all along
\* has its Machine and its ExternalMachine as long as its cluster is ready and
\* live, whatever fails, restarts or changes in between.
THEOREM NodesAreCovered == DisjointNodes /\ Spec => NodesStayCovered
  <1> SUFFICES ASSUME DisjointNodes, NEW c \in Clusters, NEW n \in NodesOf[c]
               PROVE  Spec /\ [](n \in nodes[c]) => []CoveredWhileReady(c, n)
    BY DEF NodesStayCovered, CoveredWhileReady
  <1> DEFINE Covered == OnTheList(c, n) /\ CoveredWhileReady(c, n)
  <1>1. Init => Covered
    BY InitCovered
  <1>2. TypeOK /\ InventoryInv /\ n \in nodes[c] /\ Covered /\ [Next]_vars => Covered'
    <2> SUFFICES ASSUME TypeOK, InventoryInv, n \in nodes[c], Covered, [Next]_vars PROVE Covered'
      OBVIOUS
    <2>1. CASE Next
      BY <2>1, OnTheListStep, CoveredStep
    <2>2. CASE UNCHANGED vars
      BY <2>2 DEF vars, api, OnTheList, Active, Looping, CoveredWhileReady
    <2> QED
      BY <2>1, <2>2
  <1>3. Covered => CoveredWhileReady(c, n)
    OBVIOUS
  <1>4. DisjointNodes /\ Spec => []InventoryInv
    BY InventoryIsInvariant
  <1> QED
    BY <1>1, <1>2, <1>3, <1>4, TypeCorrect, PTL DEF Spec

\* A manager that has nothing left to do for a cluster has made it ready.
LEMMA RestsWhenReady ==
  ASSUME NoLostWakeup, NEW c \in Clusters, AtRest(c), Wanted(c)
  PROVE  ecs[c].ready
  BY DEF NoLostWakeup, SeenWanted, AtRest, Wanted

\* RestsWhenDone, when node names are unique: at rest, with the caches up to date,
\* a cluster that is neither paused nor deleted has the objects of all its nodes
\* that are there all along.
THEOREM ManagerRestsWhenDone == DisjointNodes /\ Spec => RestsWhenDone
  <1> SUFFICES ASSUME DisjointNodes, NEW c \in Clusters, NEW n \in NodesOf[c]
               PROVE  Spec /\ [](n \in nodes[c]) =>
                        [](AtRest(c) /\ Wanted(c) => machines[n] = c /\ extMachines[n] = c)
    BY DEF RestsWhenDone
  <1> DEFINE Covered == ecs[c].ready /\ clusters[c].phase = "live" => machines[n] = c /\ extMachines[n] = c
             Done == AtRest(c) /\ Wanted(c) => machines[n] = c /\ extMachines[n] = c
  <1>1. NodesStayCovered => ([](n \in nodes[c]) => []Covered)
    BY DEF NodesStayCovered
  <1>2. NoLostWakeup /\ Covered => Done
    BY RestsWhenReady DEF Wanted
  <1>3. DisjointNodes /\ Spec => NodesStayCovered
    BY NodesAreCovered
  <1> HIDE DEF Covered, Done
  <1>4. Spec /\ [](n \in nodes[c]) => []Done
    BY <1>1, <1>2, <1>3, WakeupsAreKept, PTL
  <1> QED
    BY <1>4 DEF Done

=============================================================================
