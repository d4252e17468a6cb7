---------------------------- MODULE CollisionProofs ----------------------------
(***************************************************************************)
(* What is left of the coverage of nodes when clusters have node names in  *)
(* common, proved for any clusters, nodes and bounds.  A name stands for   *)
(* one Machine and one ExternalMachine; the loops of all clusters with     *)
(* such a node have to be content with them (192-205).                     *)
(***************************************************************************)
EXTENDS CoverageProofs

\* The clusters that may have a node of this name.
HaveNode(n) == {d \in Clusters : n \in NodesOf[d]}

\* Nobody deletes one of them: its Machines would go.
AllLive(n) == \A d \in HaveNode(n) : clusters[d].phase = "live"

\* Both objects are there, of clusters with such a node.
NameCovered(n) == machines[n] \in HaveNode(n) /\ extMachines[n] \in HaveNode(n)

\* A node that is there all along has a Machine and an ExternalMachine while its
\* cluster is ready and no cluster with a node of that name is being deleted, but
\* they can be those of another cluster (196-204, AlreadyExists).
NamesStayCovered ==
  \A c \in Clusters : \A n \in NodesOf[c] :
    [](n \in nodes[c]) => [](ecs[c].ready /\ AllLive(n) => NameCovered(n))

-----------------------------------------------------------------------------
(* The inductive invariant.                                                 *)

\* What the loop has behind it is there, whoever created it.
LoopDone ==
  Looping =>
    \A n \in req.listed : AllLive(n) =>
      /\ n \notin req.todo \/ req.step = "close" => machines[n] # None /\ extMachines[n] # None
      /\ req.step = "external" /\ n = req.node => machines[n] # None

NamesInv == OwnNodes /\ LoopHasWork /\ LoopDone

\* Create leaves an object of that name, and all others as they were.
LEMMA ClaimIsThere ==
  ASSUME NEW objects, NEW n \in NodeNames, NEW c \in Clusters,
         objects \in [NodeNames -> Clusters \cup {None}]
  PROVE  /\ Claim(objects, n, c)[n] # None
         /\ \A m \in NodeNames : objects[m] # None => Claim(objects, n, c)[m] = objects[m]
  BY NoneAssumption DEF Claim

LEMMA AllLiveBefore ==
  ASSUME TypeOK, Next, NEW n, AllLive(n)'
  PROVE  AllLive(n)
  BY LiveBefore DEF AllLive, HaveNode

\* The objects of a name go only with a cluster that has such a node.
LEMMA NamedObjectsStay ==
  ASSUME TypeOK, OwnNodes, Next, NEW n \in NodeNames, AllLive(n)
  PROVE  /\ machines[n] # None => machines'[n] = machines[n]
         /\ extMachines[n] # None /\ machines[n] # None => extMachines'[n] = extMachines[n]
  <1>1. CASE UNCHANGED <<machines, extMachines>>
    BY <1>1
  <1>2. ASSUME NEW m \in NodeNames, CreateMachine(m)
        PROVE  UNCHANGED extMachines /\ (machines[n] # None => machines'[n] = machines[n])
    <2>1. machines' \in {machines, Claim(machines, m, req.key)} /\ UNCHANGED extMachines
      BY <1>2 DEF CreateMachine
    <2> QED
      BY <2>1, ClaimKeeps DEF TypeOK, ApiTypeOK
  <1>3. CreateExternalMachine =>
          UNCHANGED machines /\ (extMachines[n] # None => extMachines'[n] = extMachines[n])
    BY DEF CreateExternalMachine, Claim, TypeOK, ApiTypeOK
  <1>4. ASSUME NEW m \in NodeNames, RemoveExternalMachine(m) \/ RemoveMachine(m)
        PROVE  (machines[n] # None => machines'[n] = machines[n] /\ extMachines'[n] = extMachines[n])
    <2>1. machines[m] # None /\ clusters[machines[m]].phase = "deleting"
      BY <1>4 DEF RemoveExternalMachine, RemoveMachine, Deleting
    <2>2. m # n
      BY <2>1 DEF OwnNodes, AllLive, HaveNode, TypeOK, ApiTypeOK
    <2> QED
      BY <1>4, <2>2 DEF RemoveExternalMachine, RemoveMachine, TypeOK, ApiTypeOK
  <1> QED
    BY <1>1, <1>2, <1>3, <1>4, ObjectSteps

LEMMA LoopDoneStep ==
  ASSUME TypeOK, NamesInv, Next
  PROVE  LoopDone'
  <1> SUFFICES ASSUME Looping', NEW n \in req'.listed, AllLive(n)'
               PROVE  /\ n \notin req'.todo \/ req'.step = "close" =>
                           machines'[n] # None /\ extMachines'[n] # None
                      /\ req'.step = "external" /\ n = req'.node => machines'[n] # None
    BY DEF LoopDone
  <1> USE DEF NamesInv
  <1>1. AllLive(n)
    BY AllLiveBefore
  <1>2. n \in NodeNames =>
          /\ machines[n] # None => machines'[n] # None
          /\ machines[n] # None /\ extMachines[n] # None => extMachines'[n] # None
    BY <1>1, NamedObjectsStay
  <1>3. req.listed \subseteq NodeNames
    BY DEF TypeOK, Requests
  <1>4. CASE UNCHANGED req
    <2>1. n \in req.listed /\ n \in NodeNames /\ Looping
      BY <1>3, <1>4 DEF Looping
    <2>2. /\ n \notin req.todo \/ req.step = "close" => machines[n] # None /\ extMachines[n] # None
          /\ req.step = "external" /\ n = req.node => machines[n] # None
      BY <1>1, <2>1 DEF LoopDone
    <2> QED
      BY <1>2, <1>4, <2>1, <2>2
  <1>5. CASE ListNodes
    <2> DEFINE listed == nodes[req.key]
               next == [NextNode(listed) EXCEPT !.listed = listed]
    <2>1. NextNode(listed) \in Requests
      BY <1>5, RequestType DEF ListNodes, TypeOK, WorkloadTypeOK
    <2>2. next.step = NextNode(listed).step /\ next.todo = NextNode(listed).todo /\ next.listed = listed
      BY <2>1 DEF Requests
    <2>3. req' = next
      <3>1. req' = next \/ req' = Return("NodesListFailed")
        BY <1>5 DEF ListNodes
      <3> QED
        BY <3>1, LoopRequests DEF LoopSteps, Looping
    <2>4. listed # {} /\ req'.step = "machine" /\ req'.todo = listed /\ req'.listed = listed
      BY <2>2, <2>3, LoopRequests
    <2> QED
      BY <2>4
  <1>6. ASSUME NEW m \in NodeNames, CreateMachine(m)
        PROVE  /\ n \notin req'.todo \/ req'.step = "close" =>
                    machines'[n] # None /\ extMachines'[n] # None
               /\ req'.step = "external" /\ n = req'.node => machines'[n] # None
    <2>1. /\ machines' = Claim(machines, m, req.key) /\ req' = [req EXCEPT !.step = "external", !.node = m]
          /\ req.step = "machine"
      BY <1>6, LoopRequests DEF CreateMachine, Looping, LoopSteps
    <2>2. /\ req'.step = "external" /\ req'.node = m
          /\ req'.todo = req.todo /\ req'.listed = req.listed
      BY <2>1, LoopRequests
    <2>3. machines'[m] # None
      BY <2>1, ClaimIsThere DEF TypeOK, ApiTypeOK
    <2>4. n \notin req.todo => machines[n] # None /\ extMachines[n] # None
      BY <1>1, <2>1, <2>2 DEF LoopDone, Looping, LoopSteps
    <2>5. n \in NodeNames
      BY <1>3, <2>2
    <2>6. n \notin req.todo => machines'[n] # None /\ extMachines'[n] # None
      BY <1>2, <2>4, <2>5
    <2> QED
      BY <2>2, <2>3, <2>6
  <1>7. CASE CreateExternalMachine
    <2> DEFINE m == req.node
               left == req.todo \ {m}
    <2>1. /\ req.step = "external" /\ m \in req.todo /\ m \in NodeNames /\ req.key \in Clusters
          /\ UNCHANGED machines
      BY <1>7 DEF CreateExternalMachine, LoopHasWork, LoopSteps, TypeOK, Requests
    <2>2. extMachines' = Claim(extMachines, m, req.key) /\ req' = NextNode(left)
      BY <1>7, LoopRequests DEF CreateExternalMachine, Looping, LoopSteps
    <2>3. /\ req'.step = IF left = {} THEN "close" ELSE "machine"
          /\ req'.todo = left /\ req'.listed = req.listed
      BY <2>2, LoopRequests
    <2>4. extMachines'[m] # None
      BY <2>1, <2>2, ClaimIsThere DEF TypeOK, ApiTypeOK
    <2>5. n = m => machines[n] # None
      BY <1>1, <2>1, <2>3 DEF LoopDone, Looping, LoopSteps
    <2>6. n \notin req.todo => machines[n] # None /\ extMachines[n] # None
      BY <1>1, <2>1, <2>3 DEF LoopDone, Looping, LoopSteps
    <2> QED
      BY <1>2, <1>3, <2>1, <2>3, <2>4, <2>5, <2>6
  <1>8. req' # Idle
    BY DEF Looping, LoopSteps, Idle
  <1> QED
    BY <1>4, <1>5, <1>6, <1>7, <1>8, LoopWorkers, OutsideRequest DEF Next, Looping

LEMMA InitNames == Init => NamesInv
  BY InitInventory, InitLoop DEF NamesInv, InventoryInv, Init, LoopDone, Looping, LoopSteps, Idle

LEMMA NamesStep == TypeOK /\ NamesInv /\ [Next]_vars => NamesInv'
  <1> SUFFICES ASSUME TypeOK, NamesInv, [Next]_vars PROVE NamesInv'
    OBVIOUS
  <1>1. CASE Next
    <2>1. OwnNodes'
      BY <1>1, OwnNodesStep DEF NamesInv, LoopHasWork, LoopSteps
    <2> QED
      BY <1>1, <2>1, LoopHasWorkStep, LoopDoneStep DEF NamesInv
  <1>2. CASE UNCHANGED vars
    BY <1>2 DEF vars, api, NamesInv, OwnNodes, LoopHasWork, LoopDone, Looping, AllLive, HaveNode
  <1> QED
    BY <1>1, <1>2

LEMMA NamesAreInvariant == Spec => []NamesInv
  BY InitNames, NamesStep, TypeCorrect, PTL DEF Spec

-----------------------------------------------------------------------------
(* What it says of status.ready.                                            *)

\* Both objects of a name are there while cluster c is ready and none with such a
\* node is being deleted.
CoveredByName(c, n) == ecs[c].ready /\ AllLive(n) => machines[n] # None /\ extMachines[n] # None

LEMMA CoveredByNameStep ==
  ASSUME TypeOK, NamesInv, Next, NEW c \in Clusters, NEW n \in NodesOf[c],
         OnTheList(c, n), CoveredByName(c, n)
  PROVE  CoveredByName(c, n)'
  <1> SUFFICES ASSUME ecs'[c].ready, AllLive(n)' PROVE machines'[n] # None /\ extMachines'[n] # None
    BY DEF CoveredByName
  <1>1. AllLive(n) /\ n \in NodeNames
    BY AllLiveBefore, NodesAreNamed
  <1>2. CASE ecs[c].ready
    BY <1>1, <1>2, NamedObjectsStay DEF CoveredByName, NamesInv
  <1>3. CASE ~ecs[c].ready
    <2>1. /\ req.step = "close" /\ req.result = "ready" /\ req.key = c
          /\ UNCHANGED <<machines, extMachines>>
      BY <1>3, ReadySetByClose
    <2>2. n \in req.listed
      BY <2>1 DEF OnTheList, Active, Looping
    <2> QED
      BY <1>1, <2>1, <2>2 DEF NamesInv, LoopDone, Looping
  <1> QED
    BY <1>2, <1>3

\* NamesStayCovered: with any node names, a node that is there all along has both
\* objects while its cluster is ready, as long as no cluster with such a node is
\* deleted, and they are of clusters with such a node.
THEOREM NamesAreCovered == Spec => NamesStayCovered
  <1> SUFFICES ASSUME NEW c \in Clusters, NEW n \in NodesOf[c]
               PROVE  Spec /\ [](n \in nodes[c]) => [](ecs[c].ready /\ AllLive(n) => NameCovered(n))
    BY DEF NamesStayCovered
  <1> DEFINE Covered == OnTheList(c, n) /\ CoveredByName(c, n)
             Named == ecs[c].ready /\ AllLive(n) => NameCovered(n)
  <1>1. Init => Covered
    BY InitCovered DEF Init, NewEc, CoveredByName
  <1>2. TypeOK /\ NamesInv /\ n \in nodes[c] /\ Covered /\ [Next]_vars => Covered'
    <2> SUFFICES ASSUME TypeOK, NamesInv, n \in nodes[c], Covered, [Next]_vars PROVE Covered'
      OBVIOUS
    <2>1. CASE Next
      BY <2>1, OnTheListStep, CoveredByNameStep
    <2>2. CASE UNCHANGED vars
      BY <2>2 DEF vars, api, OnTheList, Active, Looping, CoveredByName, AllLive, HaveNode
    <2> QED
      BY <2>1, <2>2
  <1>3. TypeOK /\ NamesInv /\ Covered => Named
    <2>1. n \in NodeNames
      BY NodesAreNamed
    <2> QED
      BY <2>1 DEF TypeOK, ApiTypeOK, NamesInv, OwnNodes, CoveredByName, NameCovered, HaveNode
  <1> HIDE DEF Covered, Named
  <1>4. Spec /\ [](n \in nodes[c]) => []Named
    BY <1>1, <1>2, <1>3, NamesAreInvariant, TypeCorrect, PTL DEF Spec
  <1> QED
    BY <1>4 DEF Named

\* A collision harms only the clusters that have the name: a node whose name no
\* other cluster has keeps its own Machine and ExternalMachine, whatever the names
\* of all other nodes are.
THEOREM UniqueNamesAreCovered ==
  ASSUME NEW c \in Clusters, NEW n \in NodesOf[c], HaveNode(n) = {c}
  PROVE  Spec /\ [](n \in nodes[c]) =>
           [](ecs[c].ready /\ clusters[c].phase = "live" => machines[n] = c /\ extMachines[n] = c)
  <1> DEFINE Named == ecs[c].ready /\ AllLive(n) => NameCovered(n)
             Covered == ecs[c].ready /\ clusters[c].phase = "live" => machines[n] = c /\ extMachines[n] = c
  <1>1. NamesStayCovered => ([](n \in nodes[c]) => []Named)
    BY DEF NamesStayCovered
  <1>2. Named => Covered
    BY DEF AllLive, NameCovered
  <1> HIDE DEF Named, Covered
  <1>3. Spec /\ [](n \in nodes[c]) => []Covered
    BY <1>1, <1>2, NamesAreCovered, PTL
  <1> QED
    BY <1>3 DEF Covered

=============================================================================
