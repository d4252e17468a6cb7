------------------------ MODULE ExternalClusterProofs ------------------------
(***************************************************************************)
(* What TLAPS proves about the ExternalCluster controller, for any set of  *)
(* clusters, any node names and any bounds on changes and faults.          *)
(***************************************************************************)
EXTENDS ExternalCluster, TLAPS

-----------------------------------------------------------------------------
(* Type correctness, one lemma per group of actions.                        *)

\* The nodes of a cluster are among the node names.
LEMMA NodesAreNamed ==
  ASSUME NEW c \in Clusters
  PROVE  NodesOf[c] \subseteq NodeNames
  BY DEF NodeNames

\* The first objects are objects, and the idle worker's request is a request.
LEMMA NewObjectsType ==
  /\ [phase |-> "live", paused |-> FALSE] \in ClusterObjects
  /\ NewEc \in EcObjects
  /\ NoSecret \in SecretObjects
  /\ NewSecret \in SecretObjects
  /\ Idle \in Requests
  <1>1. NewEc \in EcObjects
    BY DEF NewEc, EcObjects
  <1>2. Idle \in Requests
    BY <1>1 DEF Idle, Requests, Steps, Results
  <1> QED
    BY <1>1, <1>2 DEF ClusterObjects, Phases, SecretObjects, NoSecret, NewSecret

LEMMA InitType == Init => TypeOK
  <1> SUFFICES ASSUME Init PROVE TypeOK
    OBVIOUS
  <1> USE DEF Init
  <1>1. clusters \in [Clusters -> ClusterObjects] /\ ecs \in [Clusters -> EcObjects]
    BY NewObjectsType
  <1>2. secrets \in [Clusters -> SecretObjects]
    BY NewObjectsType
  <1>3. access \in [Clusters -> AccessStates]
    BY DEF AccessStates
  <1>4. changes \in 0..MaxChanges /\ faults \in 0..MaxFaults
    BY BoundsAssumption
  <1>5. req \in Requests /\ req.step = "idle"
    BY NewObjectsType DEF Idle
  <1> QED
    BY <1>1, <1>2, <1>3, <1>4, <1>5 DEF TypeOK, ApiTypeOK, WorkloadTypeOK, CacheTypeOK

\* What Return, NextNode and Finish make of a request is a request again.
LEMMA RequestType ==
  ASSUME TypeOK
  PROVE  /\ Idle \in Requests
         /\ \A r \in Results : Return(r) \in Requests
         /\ \A left \in SUBSET NodeNames : NextNode(left) \in Requests
         /\ \A s \in Steps : [req EXCEPT !.step = s] \in Requests
         /\ \A s \in Steps : \A n \in NodeNames : [req EXCEPT !.step = s, !.node = n] \in Requests
         /\ \A c \in Clusters : [Idle EXCEPT !.step = "owner", !.key = c, !.before = seenEcs[c]] \in Requests
  <1> USE DEF TypeOK, CacheTypeOK, Requests, Steps, Results, Reasons
  <1>1. Idle \in Requests
    BY DEF Idle, EcObjects, NewEc
  <1>2. \A r \in Results : Return(r) \in Requests
    BY DEF Return
  <1>3. \A left \in SUBSET NodeNames : NextNode(left) \in Requests
    BY <1>2 DEF NextNode
  <1>4. \A s \in Steps : [req EXCEPT !.step = s] \in Requests
    OBVIOUS
  <1>5. \A s \in Steps : \A n \in NodeNames : [req EXCEPT !.step = s, !.node = n] \in Requests
    OBVIOUS
  <1>6. \A c \in Clusters : [Idle EXCEPT !.step = "owner", !.key = c, !.before = seenEcs[c]] \in Requests
    BY <1>1 DEF Idle
  <1> QED BY <1>1, <1>2, <1>3, <1>4, <1>5, <1>6

\* The four parts of TypeOK stay when their variables do.
LEMMA KeepTypes ==
  /\ ApiTypeOK /\ UNCHANGED api => ApiTypeOK'
  /\ WorkloadTypeOK /\ UNCHANGED workload => WorkloadTypeOK'
  /\ CacheTypeOK /\ UNCHANGED cache => CacheTypeOK'
  BY DEF ApiTypeOK, WorkloadTypeOK, CacheTypeOK, api, workload, cache

\* The key of what Return and NextNode make is the key of the request.
LEMMA KeyKept ==
  ASSUME TypeOK
  PROVE  /\ \A r : Return(r).key = req.key
         /\ \A left : NextNode(left).key = req.key
         /\ \A s : [req EXCEPT !.step = s].key = req.key
         /\ \A s, n : [req EXCEPT !.step = s, !.node = n].key = req.key
  BY DEF TypeOK, Requests, Return, NextNode

\* The budget of faults.
LEMMA FaultType ==
  ASSUME TypeOK, Fault \/ UNCHANGED faults
  PROVE  faults' \in 0..MaxFaults
  BY BoundsAssumption DEF TypeOK, Fault

LEMMA ChangeType ==
  ASSUME TypeOK, Change \/ UNCHANGED changes
  PROVE  changes' \in 0..MaxChanges
  BY BoundsAssumption DEF TypeOK, Change

LEMMA ClaimType ==
  ASSUME NEW objects \in [NodeNames -> Clusters \cup {None}], NEW n \in NodeNames, NEW c \in Clusters
  PROVE  Claim(objects, n, c) \in [NodeNames -> Clusters \cup {None}]
  BY DEF Claim

\* Steps of the worker that change no object.
LEMMA ReadStepType ==
  ASSUME TypeOK,
         \/ \E c \in Clusters : Start(c)
         \/ ReadOwner \/ Connect \/ Probe \/ ListNodes
  PROVE  TypeOK'
  <1>1. CASE \E c \in Clusters : Start(c)
    <2> PICK c \in Clusters : Start(c)
      BY <1>1
    <2>1. queue' \subseteq Clusters
      BY DEF Start, TypeOK
    <2>2. req' \in Requests
      BY RequestType DEF Start
    <2>3. req'.step # "idle" => req'.key \in Clusters
      BY DEF Start, Idle
    <2> QED
      BY <2>1, <2>2, <2>3, KeepTypes DEF Start, TypeOK
  <1>2. CASE ReadOwner
    <2>1. queue' \subseteq Clusters
      BY <1>2 DEF ReadOwner, Finish, TypeOK
    <2>2. req' \in Requests
      BY <1>2, RequestType DEF ReadOwner, Finish, Steps
    <2>3. req'.step # "idle" => req'.key \in Clusters
      <3>1. req' = [req EXCEPT !.step = "secret"] \/ req' = Idle
        BY <1>2 DEF ReadOwner, Finish
      <3>2. req.key \in Clusters
        BY <1>2 DEF ReadOwner, TypeOK
      <3>3. [req EXCEPT !.step = "secret"].key = req.key
        BY DEF TypeOK, Requests
      <3>4. CASE req' = [req EXCEPT !.step = "secret"]
        BY <3>2, <3>3, <3>4, Zenon
      <3>5. CASE req' = Idle
        BY <3>5 DEF Idle
      <3> QED
        BY <3>1, <3>4, <3>5
    <2> QED
      BY <1>2, <2>1, <2>2, <2>3, KeepTypes DEF ReadOwner, TypeOK
  <1>3. CASE Connect
    <2>1. req' \in Requests
      BY <1>3, RequestType DEF Connect, Steps, Results, Reasons
    <2>2. req'.key \in Clusters
      BY <1>3, KeyKept DEF Connect, TypeOK
    <2> QED
      BY <1>3, <2>1, <2>2, KeepTypes DEF Connect, TypeOK
  <1>4. CASE Probe
    <2>1. req' \in Requests
      BY <1>4, RequestType DEF Probe, Steps, Results, Reasons
    <2>2. req'.key \in Clusters
      BY <1>4, KeyKept DEF Probe, TypeOK
    <2>3. faults' \in 0..MaxFaults
      BY <1>4, FaultType DEF Probe
    <2> QED
      BY <1>4, <2>1, <2>2, <2>3, KeepTypes DEF Probe, TypeOK
  <1>5. CASE ListNodes
    <2> DEFINE listed == nodes[req.key]
    <2>1. listed \subseteq NodeNames
      BY <1>5 DEF ListNodes, TypeOK, WorkloadTypeOK
    <2>2. [NextNode(listed) EXCEPT !.listed = listed] \in Requests
      BY <2>1, RequestType DEF Requests
    <2>3. [NextNode(listed) EXCEPT !.listed = listed].key = req.key
      BY <2>1, RequestType, KeyKept DEF Requests
    <2>4. req' \in Requests /\ req'.key = req.key
      BY <1>5, <2>2, <2>3, RequestType, KeyKept DEF ListNodes, Results, Reasons
    <2>5. faults' \in 0..MaxFaults
      BY <1>5, FaultType DEF ListNodes
    <2> QED
      BY <1>5, <2>4, <2>5, KeepTypes DEF ListNodes, TypeOK
  <1> QED
    BY <1>1, <1>2, <1>3, <1>4, <1>5

\* Steps of the worker that write to the API server.
LEMMA WriteStepType ==
  ASSUME TypeOK,
         \/ ReadSecret
         \/ \E n \in NodeNames : CreateMachine(n)
         \/ CreateExternalMachine \/ Close
  PROVE  TypeOK'
  <1>1. CASE ReadSecret
    <2>1. req' \in Requests
      BY <1>1, RequestType DEF ReadSecret, Steps, Results, Reasons
    <2>2. req'.key \in Clusters
      BY <1>1, KeyKept DEF ReadSecret, TypeOK
    <2>3. secrets' \in [Clusters -> SecretObjects]
      <3>1. [seenSecrets[req.key] EXCEPT !.owner = "cluster"] \in SecretObjects
        BY <1>1 DEF ReadSecret, TypeOK, CacheTypeOK, SecretObjects
      <3> QED
        BY <1>1, <3>1 DEF ReadSecret, TypeOK, ApiTypeOK
    <2>4. faults' \in 0..MaxFaults
      BY <1>1, FaultType DEF ReadSecret
    <2> QED
      BY <1>1, <2>1, <2>2, <2>3, <2>4, KeepTypes DEF ReadSecret, TypeOK, ApiTypeOK
  <1>2. CASE \E n \in NodeNames : CreateMachine(n)
    <2> PICK n \in NodeNames : CreateMachine(n)
      BY <1>2
    <2>1. req' \in Requests /\ req'.key = req.key
      <3>1. req' = [req EXCEPT !.step = "external", !.node = n] \/ req' = Return("error")
        BY DEF CreateMachine
      <3> QED
        BY <3>1, RequestType, KeyKept DEF Steps, Results
    <2>2. machines' \in [NodeNames -> Clusters \cup {None}]
      <3>1. req.key \in Clusters /\ machines \in [NodeNames -> Clusters \cup {None}]
        BY DEF CreateMachine, TypeOK, ApiTypeOK
      <3>2. Claim(machines, n, req.key) \in [NodeNames -> Clusters \cup {None}]
        BY <3>1, ClaimType
      <3> QED
        BY <3>1, <3>2 DEF CreateMachine
    <2>3. faults' \in 0..MaxFaults
      BY FaultType DEF CreateMachine
    <2> QED
      BY <2>1, <2>2, <2>3, KeepTypes DEF CreateMachine, TypeOK, ApiTypeOK
  <1>3. CASE CreateExternalMachine
    <2>1. req' \in Requests /\ req'.key = req.key
      <3>1. req.todo \ {req.node} \subseteq NodeNames
        BY DEF TypeOK, Requests
      <3> QED
        BY <1>3, <3>1, RequestType, KeyKept DEF CreateExternalMachine, Results
    <2>2. extMachines' \in [NodeNames -> Clusters \cup {None}]
      BY <1>3 DEF CreateExternalMachine, Claim, TypeOK, ApiTypeOK
    <2>3. faults' \in 0..MaxFaults
      BY <1>3, FaultType DEF CreateExternalMachine
    <2> QED
      BY <1>3, <2>1, <2>2, <2>3, KeepTypes DEF CreateExternalMachine, TypeOK, ApiTypeOK
  <1>4. CASE Close
    <2>1. queue' \subseteq Clusters /\ req' = Idle
      BY <1>4 DEF Close, Finish, TypeOK
    <2>2. ecs' \in [Clusters -> EcObjects]
      <3>1. WantedEc(ecs[req.key], req.result) \in EcObjects
        <4>1. ecs[req.key] \in EcObjects
          BY <1>4 DEF Close, TypeOK, ApiTypeOK
        <4> QED
          BY <4>1 DEF WantedEc, EcObjects
      <3>2. \/ ecs' = [ecs EXCEPT ![req.key] = WantedEc(ecs[req.key], req.result)]
            \/ UNCHANGED ecs
        BY <1>4 DEF Close
      <3> QED
        BY <3>1, <3>2 DEF TypeOK, ApiTypeOK
    <2>3. faults' \in 0..MaxFaults
      BY <1>4, FaultType DEF Close
    <2> QED
      BY <1>4, <2>1, <2>2, <2>3, RequestType, KeepTypes DEF Close, Idle, TypeOK, ApiTypeOK
  <1> QED
    BY <1>1, <1>2, <1>3, <1>4

\* Steps of the informers, a restart, and what happens outside the manager.
LEMMA OutsideStepType ==
  ASSUME TypeOK, Informers \/ Restart \/ Environment
  PROVE  TypeOK'
  <1>1. CASE Informers
    <2> PICK c \in Clusters : DeliverEc(c) \/ DeliverCluster(c) \/ DeliverSecret(c) \/ ResyncEc(c)
      BY <1>1 DEF Informers
    <2>1. CacheTypeOK'
      BY KeepTypes DEF DeliverEc, DeliverCluster, DeliverSecret, ResyncEc, TypeOK, ApiTypeOK, CacheTypeOK
    <2>2. queue' \subseteq Clusters
      BY DEF DeliverEc, DeliverCluster, DeliverSecret, ResyncEc, Enqueue, TypeOK
    <2> QED
      BY <2>1, <2>2, KeepTypes DEF DeliverEc, DeliverCluster, DeliverSecret, ResyncEc, TypeOK
  <1>2. CASE Restart
    <2>1. CacheTypeOK' /\ queue' \subseteq Clusters
      BY <1>2 DEF Restart, TypeOK, ApiTypeOK, CacheTypeOK
    <2>2. faults' \in 0..MaxFaults
      BY <1>2, FaultType DEF Restart
    <2> QED
      BY <1>2, <2>1, <2>2, RequestType, KeepTypes DEF Restart, Idle, TypeOK
  <1>3. CASE \E c \in Clusters : \/ SetOwner(c) \/ PauseCluster(c) \/ PauseEc(c) \/ DeleteCluster(c)
                                \/ RemoveEc(c) \/ RemoveCluster(c) \/ SetSecret(c)
    <2> PICK c \in Clusters : \/ SetOwner(c) \/ PauseCluster(c) \/ PauseEc(c) \/ DeleteCluster(c)
                              \/ RemoveEc(c) \/ RemoveCluster(c) \/ SetSecret(c)
      BY <1>3
    <2>1. clusters' \in [Clusters -> ClusterObjects]
      <3>1. \/ \E object \in ClusterObjects : clusters' = [clusters EXCEPT ![c] = object]
            \/ UNCHANGED clusters
        <4> DEFINE paused == [clusters[c] EXCEPT !.paused = ~@]
                   phase(p) == [clusters[c] EXCEPT !.phase = p]
        <4>1. paused \in ClusterObjects /\ \A p \in Phases : phase(p) \in ClusterObjects
          BY DEF TypeOK, ApiTypeOK, ClusterObjects
        <4>2. \/ clusters' = [clusters EXCEPT ![c] = paused]
              \/ clusters' = [clusters EXCEPT ![c] = phase("deleting")]
              \/ clusters' = [clusters EXCEPT ![c] = phase("gone")]
              \/ UNCHANGED clusters
          BY DEF SetOwner, PauseCluster, PauseEc, DeleteCluster, RemoveEc, RemoveCluster, SetSecret
        <4> HIDE DEF paused, phase
        <4> QED
          BY <4>1, <4>2 DEF Phases
      <3> QED
        BY <3>1 DEF TypeOK, ApiTypeOK
    <2>2. ecs' \in [Clusters -> EcObjects]
      <3>1. \/ \E object \in EcObjects : ecs' = [ecs EXCEPT ![c] = object]
            \/ UNCHANGED ecs
        <4> DEFINE owned == [ecs[c] EXCEPT !.owned = TRUE]
                   paused == [ecs[c] EXCEPT !.paused = ~@]
                   gone == [ecs[c] EXCEPT !.exists = FALSE]
        <4>1. owned \in EcObjects /\ paused \in EcObjects /\ gone \in EcObjects
          BY DEF TypeOK, ApiTypeOK, EcObjects
        <4>2. \/ ecs' = [ecs EXCEPT ![c] = owned]
              \/ ecs' = [ecs EXCEPT ![c] = paused]
              \/ ecs' = [ecs EXCEPT ![c] = gone]
              \/ UNCHANGED ecs
          BY DEF SetOwner, PauseCluster, PauseEc, DeleteCluster, RemoveEc, RemoveCluster, SetSecret
        <4> HIDE DEF owned, paused, gone
        <4> QED
          BY <4>1, <4>2
      <3> QED
        BY <3>1 DEF TypeOK, ApiTypeOK
    <2>3. secrets' \in [Clusters -> SecretObjects]
      BY NewObjectsType
      DEF SetOwner, PauseCluster, PauseEc, DeleteCluster, RemoveEc, RemoveCluster, SetSecret,
          UserSecrets, TypeOK, ApiTypeOK
    <2>4. changes' \in 0..MaxChanges
      BY ChangeType
      DEF SetOwner, PauseCluster, PauseEc, DeleteCluster, RemoveEc, RemoveCluster, SetSecret
    <2> QED
      BY <2>1, <2>2, <2>3, <2>4, KeepTypes
      DEF SetOwner, PauseCluster, PauseEc, DeleteCluster, RemoveEc, RemoveCluster, SetSecret, TypeOK, ApiTypeOK
  <1>4. CASE \E c \in Clusters : SetAccess(c) \/ NodeJoins(c) \/ NodeLeaves(c)
    <2> PICK c \in Clusters : SetAccess(c) \/ NodeJoins(c) \/ NodeLeaves(c)
      BY <1>4
    <2>1. WorkloadTypeOK'
      BY NodesAreNamed DEF SetAccess, NodeJoins, NodeLeaves, TypeOK, WorkloadTypeOK
    <2>2. changes' \in 0..MaxChanges
      BY ChangeType DEF SetAccess, NodeJoins, NodeLeaves
    <2> QED
      BY <2>1, <2>2, KeepTypes DEF SetAccess, NodeJoins, NodeLeaves, TypeOK
  <1>5. CASE \E n \in NodeNames : RemoveExternalMachine(n) \/ RemoveMachine(n)
    BY <1>5, KeepTypes DEF RemoveExternalMachine, RemoveMachine, TypeOK, ApiTypeOK
  <1> QED
    BY <1>1, <1>2, <1>3, <1>4, <1>5 DEF Environment

LEMMA TypeStep == TypeOK /\ [Next]_vars => TypeOK'
  <1> SUFFICES ASSUME TypeOK, [Next]_vars PROVE TypeOK'
    OBVIOUS
  <1>1. CASE UNCHANGED vars
    BY <1>1, KeepTypes DEF vars, TypeOK
  <1> QED
    BY <1>1, ReadStepType, WriteStepType, OutsideStepType DEF Next, Worker

\* The type invariant holds for all constants: the objects, the caches, the
\* queue and the request keep their shape through every handler.
THEOREM TypeCorrect == Spec => []TypeOK
  BY InitType, TypeStep, PTL DEF Spec

-----------------------------------------------------------------------------
(* No wake-up is lost.  The invariant speaks of the caches, so it needs what *)
(* relates them to the API server and to the request in progress.           *)

\* The cache never runs ahead: who sees a Cluster being deleted is right.
CacheLags ==
  \A c \in Clusters : clusters[c].phase = "live" => seenClusters[c].phase = "live"

\* status.ready is never reset, so whoever has seen it ready is right.
ReadyStays ==
  /\ \A c \in Clusters : seenEcs[c].ready => ecs[c].ready
  /\ req.step # "idle" /\ req.before.ready => ecs[req.key].ready

\* An ExternalCluster that changed in the cache since the worker read it is
\* queued again, unless it is now paused.
ChangedIsQueued ==
  req.step # "idle" =>
    \/ req.before = seenEcs[req.key]
    \/ seenEcs[req.key].paused
    \/ req.key \in queue

WakeupInv == CacheLags /\ ReadyStays /\ ChangedIsQueued /\ NoLostWakeup

\* Between ReadOwner and Close the worker goes on with the same key and the same
\* copy of the ExternalCluster, and changes nothing a wake-up depends on.
LEMMA MiddleStep ==
  ASSUME TypeOK,
         \/ ReadSecret \/ Connect \/ Probe \/ ListNodes
         \/ \E n \in NodeNames : CreateMachine(n)
         \/ CreateExternalMachine
  PROVE  /\ req.step # "idle" /\ req'.step # "idle"
         /\ req'.key = req.key /\ req'.before = req.before
         /\ UNCHANGED <<clusters, ecs, cache, queue>>
  <1>1. \A r : /\ Return(r).step = "close"
               /\ Return(r).key = req.key /\ Return(r).before = req.before
    BY DEF TypeOK, Requests, Return
  <1>2. \A left : /\ NextNode(left).step # "idle"
                  /\ NextNode(left).key = req.key /\ NextNode(left).before = req.before
    BY <1>1 DEF TypeOK, Requests, NextNode
  <1>3. CASE ReadSecret
    BY <1>1, <1>3 DEF ReadSecret, TypeOK, Requests
  <1>4. CASE Connect
    BY <1>1, <1>4 DEF Connect, TypeOK, Requests, api
  <1>5. CASE Probe
    BY <1>1, <1>5 DEF Probe, TypeOK, Requests, api
  <1>6. CASE ListNodes
    <2> DEFINE listed == nodes[req.key]
               next == [NextNode(listed) EXCEPT !.listed = listed]
    <2>1. NextNode(listed) \in Requests
      BY <1>6, RequestType DEF ListNodes, TypeOK, WorkloadTypeOK
    <2>2. next.step # "idle" /\ next.key = req.key /\ next.before = req.before
      BY <1>2, <2>1 DEF Requests
    <2>3. req' = next \/ req' = Return("NodesListFailed")
      BY <1>6 DEF ListNodes
    <2> HIDE DEF next
    <2> QED
      BY <1>1, <1>6, <2>2, <2>3 DEF ListNodes, api
  <1>7. CASE \E n \in NodeNames : CreateMachine(n)
    BY <1>1, <1>7 DEF CreateMachine, TypeOK, Requests
  <1>8. CASE CreateExternalMachine
    BY <1>1, <1>2, <1>8 DEF CreateExternalMachine
  <1> QED
    BY <1>3, <1>4, <1>5, <1>6, <1>7, <1>8

\* The cache never runs ahead.
LEMMA CacheLagsStep ==
  ASSUME TypeOK, CacheLags, Next
  PROVE  CacheLags'
  <1>1. CASE UNCHANGED <<clusters, seenClusters>>
    BY <1>1 DEF CacheLags
  <1>2. CASE seenClusters' = clusters /\ UNCHANGED clusters
    BY <1>2 DEF CacheLags
  <1>3. ASSUME NEW c \in Clusters, DeliverCluster(c) PROVE CacheLags'
    BY <1>3 DEF DeliverCluster, CacheLags, TypeOK, CacheTypeOK, api
  <1>4. ASSUME NEW c \in Clusters, PauseCluster(c) \/ DeleteCluster(c) \/ RemoveCluster(c)
        PROVE  CacheLags'
    <2>1. \A d \in Clusters : clusters'[d].phase = "live" => clusters[d].phase = "live"
      BY <1>4 DEF PauseCluster, DeleteCluster, RemoveCluster, TypeOK, ApiTypeOK, ClusterObjects
    <2> QED
      BY <1>4, <2>1 DEF PauseCluster, DeleteCluster, RemoveCluster, CacheLags, cache
  <1>5. Worker => UNCHANGED <<clusters, seenClusters>>
    BY DEF Worker, Start, ReadOwner, ReadSecret, Connect, Probe, ListNodes, CreateMachine,
           CreateExternalMachine, Close, api, cache
  <1>6. Informers => UNCHANGED <<clusters, seenClusters>> \/ \E c \in Clusters : DeliverCluster(c)
    BY DEF Informers, DeliverEc, DeliverSecret, ResyncEc, api, cache
  <1>7. Restart => seenClusters' = clusters /\ UNCHANGED clusters
    BY DEF Restart, api
  <1>8. Environment => \/ UNCHANGED <<clusters, seenClusters>>
                      \/ \E c \in Clusters : PauseCluster(c) \/ DeleteCluster(c) \/ RemoveCluster(c)
    BY DEF Environment, SetOwner, PauseEc, RemoveEc, SetSecret, SetAccess, NodeJoins, NodeLeaves,
           RemoveExternalMachine, RemoveMachine, api, cache
  <1> QED
    BY <1>1, <1>2, <1>3, <1>4, <1>5, <1>6, <1>7, <1>8 DEF Next

\* Who changes an ExternalCluster.
LEMMA EcSteps ==
  ASSUME Next
  PROVE  \/ UNCHANGED ecs
         \/ Close
         \/ \E c \in Clusters : SetOwner(c) \/ PauseEc(c) \/ RemoveEc(c)
  <1>1. Worker => UNCHANGED ecs \/ Close
    BY DEF Worker, Start, ReadOwner, ReadSecret, Connect, Probe, ListNodes, CreateMachine,
           CreateExternalMachine, api
  <1>2. Informers \/ Restart => UNCHANGED ecs
    BY DEF Informers, DeliverEc, DeliverCluster, DeliverSecret, ResyncEc, Restart, api
  <1>3. Environment => \/ UNCHANGED ecs
                      \/ \E c \in Clusters : SetOwner(c) \/ PauseEc(c) \/ RemoveEc(c)
    BY DEF Environment, PauseCluster, DeleteCluster, RemoveCluster, SetSecret, SetAccess, NodeJoins,
           NodeLeaves, RemoveExternalMachine, RemoveMachine, api
  <1> QED
    BY <1>1, <1>2, <1>3 DEF Next

\* No step takes status.ready back.
LEMMA ReadyNeverReset ==
  ASSUME TypeOK, Next
  PROVE  \A c \in Clusters : ecs[c].ready => ecs'[c].ready
  <1>1. CASE UNCHANGED ecs
    BY <1>1
  <1>2. CASE Close
    <2> DEFINE wanted == WantedEc(ecs[req.key], req.result)
    <2>1. ecs[req.key] \in EcObjects
      BY <1>2 DEF Close, TypeOK, ApiTypeOK
    <2>2. ecs[req.key].ready => wanted.ready
      BY <2>1 DEF WantedEc, EcObjects
    <2>3. UNCHANGED ecs \/ ecs' = [ecs EXCEPT ![req.key] = wanted]
      BY <1>2 DEF Close
    <2> HIDE DEF wanted
    <2> QED
      BY <2>2, <2>3 DEF TypeOK, ApiTypeOK
  <1>3. ASSUME NEW c \in Clusters, SetOwner(c) \/ PauseEc(c) \/ RemoveEc(c)
        PROVE  \A d \in Clusters : ecs[d].ready => ecs'[d].ready
    <2> DEFINE owned == [ecs[c] EXCEPT !.owned = TRUE]
               paused == [ecs[c] EXCEPT !.paused = ~@]
               gone == [ecs[c] EXCEPT !.exists = FALSE]
    <2>1. owned.ready = ecs[c].ready /\ paused.ready = ecs[c].ready /\ gone.ready = ecs[c].ready
      BY DEF TypeOK, ApiTypeOK, EcObjects
    <2>2. \/ ecs' = [ecs EXCEPT ![c] = owned]
          \/ ecs' = [ecs EXCEPT ![c] = paused]
          \/ ecs' = [ecs EXCEPT ![c] = gone]
      BY <1>3 DEF SetOwner, PauseEc, RemoveEc
    <2> HIDE DEF owned, paused, gone
    <2> QED
      BY <2>1, <2>2 DEF TypeOK, ApiTypeOK
  <1> QED
    BY <1>1, <1>2, <1>3, EcSteps

\* What the step of an informer, of the environment or of a restart does to the
\* request: nothing, or it is lost.
LEMMA OutsideRequest ==
  ASSUME Informers \/ Restart \/ Environment
  PROVE  UNCHANGED req \/ req' = Idle
  BY DEF Informers, DeliverEc, DeliverCluster, DeliverSecret, ResyncEc, Restart, Environment,
         SetOwner, PauseCluster, PauseEc, DeleteCluster, RemoveEc, RemoveCluster, SetSecret,
         SetAccess, NodeJoins, NodeLeaves, RemoveExternalMachine, RemoveMachine

\* Steps that change neither the cached ExternalClusters nor the queue.
LEMMA QuietOutside ==
  ASSUME Environment
  PROVE  UNCHANGED <<cache, queue, req>>
  BY DEF Environment, SetOwner, PauseCluster, PauseEc, DeleteCluster, RemoveEc, RemoveCluster,
         SetSecret, SetAccess, NodeJoins, NodeLeaves, RemoveExternalMachine, RemoveMachine

\* Who has seen status.ready is right.
LEMMA ReadyStaysStep ==
  ASSUME TypeOK, ReadyStays, Next
  PROVE  ReadyStays'
  <1>1. \A c \in Clusters : seenEcs'[c].ready => ecs'[c].ready
    <2>1. \A c \in Clusters : seenEcs'[c] = seenEcs[c] \/ seenEcs'[c] = ecs[c]
      <3>1. Worker => UNCHANGED seenEcs
        BY DEF Worker, Start, ReadOwner, ReadSecret, Connect, Probe, ListNodes, CreateMachine,
               CreateExternalMachine, Close, cache
      <3>2. Informers => \A c \in Clusters : seenEcs'[c] = seenEcs[c] \/ seenEcs'[c] = ecs[c]
        BY DEF Informers, DeliverEc, DeliverCluster, DeliverSecret, ResyncEc, cache, TypeOK, CacheTypeOK
      <3>3. Restart => seenEcs' = ecs
        BY DEF Restart
      <3>4. Environment => UNCHANGED seenEcs
        BY QuietOutside DEF cache
      <3> QED
        BY <3>1, <3>2, <3>3, <3>4 DEF Next
    <2> QED
      BY <2>1, ReadyNeverReset DEF ReadyStays
  <1>2. ASSUME req'.step # "idle", req'.before.ready PROVE ecs'[req'.key].ready
    <2>1. CASE UNCHANGED req
      BY <1>2, <2>1, ReadyNeverReset DEF ReadyStays, TypeOK
    <2>2. CASE \E c \in Clusters : Start(c)
      <3> PICK c \in Clusters : Start(c)
        BY <2>2
      <3>1. req'.key = c /\ req'.before = seenEcs[c]
        BY <1>2 DEF Start, Idle
      <3> QED
        BY <1>2, <3>1, ReadyNeverReset DEF ReadyStays
    <2>3. CASE \/ ReadSecret \/ Connect \/ Probe \/ ListNodes
               \/ \E n \in NodeNames : CreateMachine(n)
               \/ CreateExternalMachine
      BY <1>2, <2>3, MiddleStep, ReadyNeverReset DEF ReadyStays, TypeOK
    <2>4. CASE ReadOwner
      <3>1. req' = [req EXCEPT !.step = "secret"]
        BY <1>2, <2>4 DEF ReadOwner, Finish, Idle
      <3>2. req.step # "idle" /\ req'.key = req.key /\ req'.before = req.before
        BY <2>4, <3>1 DEF ReadOwner, TypeOK, Requests
      <3> QED
        BY <1>2, <3>2, ReadyNeverReset DEF ReadyStays, TypeOK
    <2>5. CASE req' = Idle
      BY <1>2, <2>5 DEF Idle
    <2>6. Close => req' = Idle
      BY DEF Close, Finish
    <2> QED
      BY <2>1, <2>2, <2>3, <2>4, <2>5, <2>6, OutsideRequest DEF Next, Worker
  <1> QED
    BY <1>1, <1>2 DEF ReadyStays

\* The informers only add to the queue, and leave the request alone.
LEMMA InformersEnqueue ==
  ASSUME Informers
  PROVE  queue \subseteq queue' /\ UNCHANGED <<api, req>>
  BY DEF Informers, DeliverEc, DeliverCluster, DeliverSecret, ResyncEc, Enqueue

\* ReadOwner either goes on with the request, or ends it.
LEMMA ReadOwnerCases ==
  ASSUME TypeOK, ReadOwner
  PROVE  \/ /\ req'.step # "idle" /\ req'.key = req.key /\ req'.before = req.before
            /\ UNCHANGED queue
         \/ /\ req' = Idle /\ queue \subseteq queue'
            /\ \/ seenClusters[req.key].phase # "live"
               \/ seenClusters[req.key].paused
               \/ req.before.paused
  <1>1. [req EXCEPT !.step = "secret"].step # "idle"
    BY DEF TypeOK, Requests
  <1>2. /\ [req EXCEPT !.step = "secret"].key = req.key
        /\ [req EXCEPT !.step = "secret"].before = req.before
    BY DEF TypeOK, Requests
  <1> QED
    BY <1>1, <1>2 DEF ReadOwner, Finish, IsPaused

\* What changed behind the worker's back is queued again.
LEMMA ChangedIsQueuedStep ==
  ASSUME TypeOK, ChangedIsQueued, Next
  PROVE  ChangedIsQueued'
  <1> SUFFICES ASSUME req'.step # "idle"
               PROVE  \/ req'.before = seenEcs'[req'.key]
                      \/ seenEcs'[req'.key].paused
                      \/ req'.key \in queue'
    BY DEF ChangedIsQueued
  <1>1. req' # Idle
    BY DEF Idle
  <1>2. CASE Worker
    <2>1. ASSUME NEW c \in Clusters, Start(c) PROVE req'.before = seenEcs'[req'.key]
      BY <2>1, <1>1 DEF Start, Idle, cache
    <2>2. CASE ReadOwner
      <3>1. req'.key = req.key /\ req'.before = req.before /\ UNCHANGED <<seenEcs, queue>>
        BY <1>1, <2>2, ReadOwnerCases DEF ReadOwner, cache
      <3> QED
        BY <2>2, <3>1 DEF ReadOwner, ChangedIsQueued
    <2>3. CASE \/ ReadSecret \/ Connect \/ Probe \/ ListNodes
               \/ \E n \in NodeNames : CreateMachine(n)
               \/ CreateExternalMachine
      BY <2>3, MiddleStep DEF ChangedIsQueued, cache
    <2>4. Close => req' = Idle
      BY DEF Close, Finish
    <2> QED
      BY <1>1, <1>2, <2>1, <2>2, <2>3, <2>4 DEF Worker
  <1>3. CASE Informers
    <2>1. UNCHANGED req /\ queue \subseteq queue' /\ req.key \in Clusters
      BY <1>3, InformersEnqueue DEF TypeOK
    <2>2. \/ seenEcs'[req.key] = seenEcs[req.key]
          \/ seenEcs'[req.key].paused
          \/ req.key \in queue'
      <3>1. ASSUME NEW c \in Clusters, DeliverEc(c) PROVE <2>2
        BY <2>1, <3>1 DEF DeliverEc, Enqueue, EcEventAccepted, TypeOK, CacheTypeOK
      <3>2. ASSUME NEW c \in Clusters, DeliverCluster(c) \/ DeliverSecret(c) \/ ResyncEc(c)
            PROVE  <2>2
        BY <3>2 DEF DeliverCluster, DeliverSecret, ResyncEc, cache
      <3> QED
        BY <1>3, <3>1, <3>2 DEF Informers
    <2> QED
      BY <2>1, <2>2 DEF ChangedIsQueued
  <1>4. CASE Environment
    BY <1>4, QuietOutside DEF ChangedIsQueued, cache
  <1>5. Restart => req' = Idle
    BY DEF Restart
  <1> QED
    BY <1>1, <1>2, <1>3, <1>4, <1>5 DEF Next

\* Every way in which Reconcile can end, and every event that is filtered out.
LEMMA NoLostWakeupStep ==
  ASSUME TypeOK, WakeupInv, Next
  PROVE  NoLostWakeup'
  <1> SUFFICES ASSUME NEW c \in Clusters, SeenWanted(c)', ~ecs'[c].ready
               PROVE  c \in queue' \/ Active(c)'
    BY DEF NoLostWakeup
  <1>1. ~ecs[c].ready
    BY ReadyNeverReset
  <1>2. SeenWanted(c) => c \in queue \/ Active(c)
    BY <1>1 DEF WakeupInv, NoLostWakeup
  <1>3. CASE Worker
    <2>1. SeenWanted(c)
      BY <1>3 DEF Worker, Start, ReadOwner, ReadSecret, Connect, Probe, ListNodes, CreateMachine,
                  CreateExternalMachine, Close, SeenWanted, cache
    <2>2. ASSUME NEW d \in Clusters, Start(d) PROVE c \in queue' \/ Active(c)'
      <3>1. CASE c = d
        BY <2>1, <2>2, <3>1 DEF Start, SeenWanted, Active, Idle
      <3>2. CASE c # d
        BY <1>2, <2>1, <2>2, <3>2 DEF Start, Active
      <3> QED
        BY <3>1, <3>2
    <2>3. CASE ReadOwner
      <3>1. CASE Active(c) /\ req' = Idle
        BY <2>1, <2>3, <3>1, ReadOwnerCases DEF WakeupInv, ChangedIsQueued, SeenWanted, Active, Idle
      <3> QED
        BY <1>2, <2>1, <2>3, <3>1, ReadOwnerCases DEF Active
    <2>4. CASE \/ ReadSecret \/ Connect \/ Probe \/ ListNodes
               \/ \E n \in NodeNames : CreateMachine(n)
               \/ CreateExternalMachine
      BY <1>2, <2>1, <2>4, MiddleStep DEF Active
    <2>5. CASE Close
      <3>1. CASE c # req.key
        BY <1>2, <2>1, <2>5, <3>1 DEF Close, Finish, Active
      <3>2. CASE c = req.key /\ req.result # "ready"
        BY <2>5, <3>2 DEF Close, Finish, Requeues
      <3>3. CASE c = req.key /\ req.result = "ready"
        <4> DEFINE dirty == WantedEc(req.before, req.result) # req.before
        <4>1. ~req.before.ready
          BY <1>1, <2>5, <3>3 DEF WakeupInv, ReadyStays, Close
        <4>2. dirty
          BY <3>3, <4>1 DEF WantedEc, TypeOK, Requests, EcObjects
        <4>3. WantedEc(ecs[c], req.result).ready
          BY <3>3 DEF WantedEc, TypeOK, ApiTypeOK, EcObjects
        <4>4. ecs' # [ecs EXCEPT ![c] = WantedEc(ecs[c], req.result)]
          BY <4>3 DEF TypeOK, ApiTypeOK
        <4> QED
          BY <2>5, <3>3, <4>2, <4>4 DEF Close, Finish, Requeues
      <3> QED
        BY <3>1, <3>2, <3>3
    <2> QED
      BY <1>3, <2>2, <2>3, <2>4, <2>5 DEF Worker
  <1>4. CASE Informers
    <2>1. queue \subseteq queue' /\ (Active(c) => Active(c)')
      BY <1>4, InformersEnqueue DEF Active
    <2>2. CASE SeenWanted(c)
      BY <1>2, <2>1, <2>2
    <2>3. ASSUME NEW d \in Clusters, DeliverEc(d), ~SeenWanted(c) PROVE c \in queue'
      BY <2>3 DEF DeliverEc, Enqueue, EcEventAccepted, SeenWanted, TypeOK, CacheTypeOK
    <2>4. ASSUME NEW d \in Clusters, DeliverCluster(d), ~SeenWanted(c) PROVE c \in queue'
      <3>1. c = d /\ clusters[c].phase = "live" /\ ~clusters[c].paused
        BY <2>4 DEF DeliverCluster, SeenWanted, TypeOK, CacheTypeOK
      <3>2. seenClusters[c].phase = "live"
        BY <3>1 DEF WakeupInv, CacheLags
      <3>3. seenClusters[c].paused
        BY <2>4, <3>1, <3>2 DEF DeliverCluster, SeenWanted
      <3> QED
        BY <2>4, <3>1, <3>3 DEF DeliverCluster, Enqueue, ClusterEventAccepted
    <2>5. ASSUME NEW d \in Clusters, DeliverSecret(d) \/ ResyncEc(d) PROVE SeenWanted(c)
      BY <2>5 DEF DeliverSecret, ResyncEc, SeenWanted, cache
    <2> QED
      BY <1>4, <2>2, <2>3, <2>4, <2>5 DEF Informers
  <1>5. CASE Restart
    BY <1>5 DEF Restart, SeenWanted, EcEventAccepted
  <1>6. CASE Environment
    BY <1>2, <1>6, QuietOutside DEF SeenWanted, Active, cache
  <1> QED
    BY <1>3, <1>4, <1>5, <1>6 DEF Next

LEMMA InitWakeup == Init => WakeupInv
  BY DEF Init, WakeupInv, CacheLags, ReadyStays, ChangedIsQueued, NoLostWakeup, NewEc, Idle

\* The invariant is inductive.
LEMMA WakeupInvStep == TypeOK /\ WakeupInv /\ [Next]_vars => WakeupInv'
  <1> SUFFICES ASSUME TypeOK, WakeupInv, [Next]_vars PROVE WakeupInv'
    OBVIOUS
  <1>1. CASE Next
    BY <1>1, CacheLagsStep, ReadyStaysStep, ChangedIsQueuedStep, NoLostWakeupStep DEF WakeupInv
  <1>2. CASE UNCHANGED vars
    BY <1>2 DEF WakeupInv, CacheLags, ReadyStays, ChangedIsQueued, NoLostWakeup, SeenWanted, Active,
                vars, api, cache
  <1> QED
    BY <1>1, <1>2

\* An ExternalCluster that the manager has to reconcile, by all it has seen, is
\* ready, queued or being reconciled, whatever fails, is late or changes.
THEOREM WakeupsAreKept == Spec => []NoLostWakeup
  <1>1. WakeupInv => NoLostWakeup
    BY DEF WakeupInv
  <1> QED
    BY InitWakeup, WakeupInvStep, TypeCorrect, <1>1, PTL DEF Spec

-----------------------------------------------------------------------------
(* The inventory of clusters whose nodes have different names.              *)

DisjointNodes == \A c, d \in Clusters : c # d => NodesOf[c] \cap NodesOf[d] = {}

\* Machines and ExternalMachines belong to a cluster that may have such a node.
OwnNodes ==
  \A n \in NodeNames :
    /\ machines[n] # None => n \in NodesOf[machines[n]]
    /\ extMachines[n] # None => n \in NodesOf[extMachines[n]]

\* Where the loop over the nodes is, and what it has done so far.
LoopSteps == {"machine", "external"}

LoopProgress ==
  LET c == req.key
      looping == req.step \in LoopSteps \/ (req.step = "close" /\ req.result = "ready")
  IN
  looping =>
    /\ req.listed \subseteq NodesOf[c]
    /\ req.step = "external" => req.node \in req.todo
    /\ req.step \in LoopSteps => req.todo \subseteq req.listed
    /\ req.step = "close" => req.todo = {}
    /\ clusters[c].phase = "live" =>
         /\ \A n \in req.listed \ req.todo : machines[n] = c /\ extMachines[n] = c
         /\ req.step = "external" => machines[req.node] = c

InventoryInv == OwnNodes /\ LoopProgress /\ NoOrphanExternalMachine

\* Claim leaves an object that exists alone.
LEMMA ClaimKeeps ==
  ASSUME NEW objects, NEW n \in NodeNames, NEW c, NEW m \in NodeNames,
         objects \in [NodeNames -> Clusters \cup {None}],
         Claim(objects, n, c)[m] # objects[m]
  PROVE  m = n /\ objects[m] = None /\ Claim(objects, n, c)[m] = c
  BY DEF Claim

\* The steps that change Machines and ExternalMachines.
LEMMA ObjectSteps ==
  ASSUME Next
  PROVE  \/ UNCHANGED <<machines, extMachines>>
         \/ \E n \in NodeNames : CreateMachine(n) \/ RemoveExternalMachine(n) \/ RemoveMachine(n)
         \/ CreateExternalMachine
  BY DEF Next, Worker, Informers, Environment, Restart, Start, ReadOwner, ReadSecret, Connect, Probe,
         ListNodes, Close, DeliverEc, DeliverCluster, DeliverSecret, ResyncEc, SetOwner, PauseCluster,
         PauseEc, DeleteCluster, RemoveEc, RemoveCluster, SetSecret, SetAccess, NodeJoins, NodeLeaves, api

\* Whatever a step changes about an object, it was not there or is not any more.
LEMMA StolenStep ==
  ASSUME TypeOK, Next, NEW m \in NodeNames
  PROVE  /\ machines'[m] # machines[m] => None \in {machines[m], machines'[m]}
         /\ extMachines'[m] # extMachines[m] => None \in {extMachines[m], extMachines'[m]}
  <1>1. CASE UNCHANGED <<machines, extMachines>>
    BY <1>1
  <1>2. ASSUME NEW n \in NodeNames, CreateMachine(n)
        PROVE  UNCHANGED extMachines /\ (machines'[m] # machines[m] => machines[m] = None)
    <2>1. machines' \in {machines, Claim(machines, n, req.key)} /\ UNCHANGED extMachines
      BY <1>2 DEF CreateMachine
    <2> QED
      BY <2>1, ClaimKeeps DEF TypeOK, ApiTypeOK
  <1>3. CreateExternalMachine =>
          UNCHANGED machines /\ (extMachines'[m] # extMachines[m] => extMachines[m] = None)
    BY DEF CreateExternalMachine, Claim, TypeOK, ApiTypeOK
  <1>4. ASSUME NEW n \in NodeNames, RemoveExternalMachine(n) \/ RemoveMachine(n)
        PROVE  /\ machines'[m] # machines[m] => machines'[m] = None
               /\ extMachines'[m] # extMachines[m] => extMachines'[m] = None
    BY <1>4 DEF RemoveExternalMachine, RemoveMachine, TypeOK, ApiTypeOK
  <1> QED
    BY <1>1, <1>2, <1>3, <1>4, ObjectSteps

\* NeverStolen: whatever changes about a Machine or an ExternalMachine, it was not
\* there before or is not there afterwards, for all clusters and node names.
THEOREM ObjectsAreNeverStolen == Spec => NeverStolen
  <1> DEFINE Step == \A n \in NodeNames :
                       /\ machines'[n] # machines[n] => None \in {machines[n], machines'[n]}
                       /\ extMachines'[n] # extMachines[n] => None \in {extMachines[n], extMachines'[n]}
  <1>1. TypeOK /\ [Next]_vars => [Step]_vars
    BY StolenStep
  <1> QED
    BY <1>1, TypeCorrect, PTL DEF Spec, NeverStolen

\* A step that makes the Cluster the owner of a Secret changes nothing else of it.
LEMMA SecretStep ==
  ASSUME TypeOK, Next, NEW c \in Clusters,
         secrets'[c].owner = "cluster", secrets[c].owner # "cluster"
  PROVE  secrets[c].exists /\ secrets'[c] = [secrets[c] EXCEPT !.owner = "cluster"]
  <1>1. CASE UNCHANGED secrets
    BY <1>1
  <1>2. CASE ReadSecret
    <2> DEFINE written == [seenSecrets[req.key] EXCEPT !.owner = "cluster"]
    <2>1. \/ UNCHANGED secrets
          \/ /\ secrets' = [secrets EXCEPT ![req.key] = written]
             /\ seenSecrets[req.key].exists /\ secrets[req.key] = seenSecrets[req.key]
      BY <1>2 DEF ReadSecret, SecretUpdateAccepted
    <2> QED
      BY <2>1 DEF TypeOK, ApiTypeOK
  <1>3. ASSUME NEW d \in Clusters, RemoveCluster(d) \/ SetSecret(d)
        PROVE  secrets'[c].owner = "cluster" => secrets[c].owner = "cluster"
    BY <1>3 DEF RemoveCluster, SetSecret, UserSecrets, NoSecret, TypeOK, ApiTypeOK
  <1>4. \/ UNCHANGED secrets
        \/ ReadSecret
        \/ \E d \in Clusters : RemoveCluster(d) \/ SetSecret(d)
    BY DEF Next, Worker, Informers, Environment, Restart, Start, ReadOwner, Connect, Probe, ListNodes,
           CreateMachine, CreateExternalMachine, Close, DeliverEc, DeliverCluster, DeliverSecret,
           ResyncEc, SetOwner, PauseCluster, PauseEc, DeleteCluster, RemoveEc, SetAccess, NodeJoins,
           NodeLeaves, RemoveExternalMachine, RemoveMachine, api
  <1> QED
    BY <1>1, <1>2, <1>3, <1>4

\* The Update of the Secret never undoes the change of a user.
THEOREM SecretsAreNotClobbered == Spec => SecretNotClobbered
  <1> DEFINE Step == \A c \in Clusters :
                       secrets'[c].owner = "cluster" /\ secrets[c].owner # "cluster" =>
                         secrets[c].exists /\ secrets'[c] = [secrets[c] EXCEPT !.owner = "cluster"]
  <1>1. TypeOK /\ [Next]_vars => [Step]_vars
    BY SecretStep
  <1> QED
    BY <1>1, TypeCorrect, PTL DEF Spec, SecretNotClobbered

\* Who changes a Cluster.
LEMMA ClusterSteps ==
  ASSUME Next
  PROVE  \/ UNCHANGED clusters
         \/ \E c \in Clusters : PauseCluster(c) \/ DeleteCluster(c) \/ RemoveCluster(c)
  BY DEF Next, Worker, Informers, Environment, Restart, Start, ReadOwner, ReadSecret, Connect, Probe,
         ListNodes, CreateMachine, CreateExternalMachine, Close, DeliverEc, DeliverCluster,
         DeliverSecret, ResyncEc, SetOwner, PauseEc, RemoveEc, SetSecret, SetAccess, NodeJoins,
         NodeLeaves, RemoveExternalMachine, RemoveMachine, api

\* A Cluster that is live was live before.
LEMMA LiveBefore ==
  ASSUME TypeOK, Next
  PROVE  \A c \in Clusters : clusters'[c].phase = "live" => clusters[c].phase = "live"
  <1>1. ASSUME NEW c \in Clusters, PauseCluster(c) \/ DeleteCluster(c) \/ RemoveCluster(c)
        PROVE  \A d \in Clusters : clusters'[d].phase = "live" => clusters[d].phase = "live"
    BY <1>1 DEF PauseCluster, DeleteCluster, RemoveCluster, TypeOK, ApiTypeOK, ClusterObjects
  <1>2. \/ UNCHANGED clusters
        \/ \E c \in Clusters : PauseCluster(c) \/ DeleteCluster(c) \/ RemoveCluster(c)
    BY ClusterSteps
  <1> QED
    BY <1>1, <1>2

\* What CreateMachine and CreateExternalMachine make of the request.
LEMMA LoopRequests ==
  ASSUME TypeOK
  PROVE  /\ \A n \in NodeNames :
              LET next == [req EXCEPT !.step = "external", !.node = n]
              IN  /\ next.step = "external" /\ next.node = n /\ next.key = req.key
                  /\ next.todo = req.todo /\ next.listed = req.listed
         /\ \A left : left # {} =>
              /\ NextNode(left).step = "machine" /\ NextNode(left).todo = left
              /\ NextNode(left).key = req.key /\ NextNode(left).listed = req.listed
         /\ \A r : /\ Return(r).step = "close" /\ Return(r).result = r /\ Return(r).todo = {}
                   /\ Return(r).key = req.key /\ Return(r).listed = req.listed
         /\ NextNode({}) = Return("ready")
  BY DEF TypeOK, Requests, NextNode, Return

\* The loop creates objects for the nodes of its own cluster only.
LEMMA OwnNodesStep ==
  ASSUME TypeOK, OwnNodes, Next,
         req.step \in LoopSteps => req.todo \subseteq NodesOf[req.key],
         req.step = "external" => req.node \in req.todo
  PROVE  OwnNodes'
  <1>1. CASE UNCHANGED <<machines, extMachines>>
    BY <1>1 DEF OwnNodes
  <1>2. ASSUME NEW n \in NodeNames, CreateMachine(n) PROVE OwnNodes'
    <2>1. n \in NodesOf[req.key]
      BY <1>2 DEF CreateMachine, LoopSteps
    <2>2. machines' \in {machines, Claim(machines, n, req.key)} /\ UNCHANGED extMachines
      BY <1>2 DEF CreateMachine
    <2> QED
      BY <2>1, <2>2, ClaimKeeps DEF OwnNodes, TypeOK, ApiTypeOK
  <1>3. CASE CreateExternalMachine
    <2>1. req.node \in NodesOf[req.key]
      BY <1>3 DEF CreateExternalMachine, LoopSteps
    <2>2. /\ extMachines' \in {extMachines, Claim(extMachines, req.node, req.key)}
          /\ UNCHANGED machines
      BY <1>3 DEF CreateExternalMachine
    <2> QED
      BY <2>1, <2>2 DEF Claim, OwnNodes, TypeOK, ApiTypeOK
  <1>4. ASSUME NEW n \in NodeNames, RemoveExternalMachine(n) \/ RemoveMachine(n) PROVE OwnNodes'
    BY <1>4 DEF RemoveExternalMachine, RemoveMachine, OwnNodes, TypeOK, ApiTypeOK
  <1> QED
    BY <1>1, <1>2, <1>3, <1>4, ObjectSteps

\* With different node names the existing object that Create runs into is one of
\* the same cluster.
LEMMA ClaimOwns ==
  ASSUME DisjointNodes, NEW objects, NEW n \in NodeNames, NEW c \in Clusters, n \in NodesOf[c],
         objects \in [NodeNames -> Clusters \cup {None}],
         objects[n] # None => n \in NodesOf[objects[n]]
  PROVE  Claim(objects, n, c)[n] = c
  BY DEF Claim, DisjointNodes

\* The steps of the worker after which the loop goes on, or is done.
LEMMA LoopWorkers ==
  ASSUME TypeOK, Worker
  PROVE  \/ ~(req'.step \in LoopSteps \/ (req'.step = "close" /\ req'.result = "ready"))
         \/ ListNodes \/ CreateExternalMachine
         \/ \E n \in NodeNames : CreateMachine(n)
  <1> DEFINE looping == req.step \in LoopSteps \/ (req.step = "close" /\ req.result = "ready")
  <1>1. ASSUME NEW d \in Clusters, Start(d) PROVE ~looping'
    <2>1. req'.step \in {"idle", "owner"}
      BY <1>1 DEF Start, Idle
    <2> QED
      BY <2>1 DEF LoopSteps
  <1>2. ReadOwner => ~looping'
    <2>1. [req EXCEPT !.step = "secret"].step = "secret" /\ Idle.step = "idle"
      BY DEF TypeOK, Requests, Idle
    <2> QED
      BY <2>1 DEF ReadOwner, Finish, LoopSteps
  <1>3. ReadSecret \/ Connect \/ Probe => ~looping'
    <2>1. /\ [req EXCEPT !.step = "connect"].step = "connect"
          /\ [req EXCEPT !.step = "probe"].step = "probe"
          /\ [req EXCEPT !.step = "list"].step = "list"
      BY DEF TypeOK, Requests
    <2>2. ReadSecret => \/ req' = [req EXCEPT !.step = "connect"]
                       \/ req' \in {Return("error"), Return("KubeconfigSecretNotFound")}
      BY DEF ReadSecret
    <2>3. Connect => \/ req' = [req EXCEPT !.step = "probe"]
                    \/ req' \in {Return("KubeconfigSecretNotFound"), Return("KubeconfigInvalid")}
      BY DEF Connect
    <2>4. Probe => \/ req' = [req EXCEPT !.step = "list"]
                  \/ req' = Return("ClusterAccessFailed")
      BY DEF Probe
    <2>5. ASSUME NEW s \in {"connect", "probe", "list"}, req'.step = s PROVE ~looping'
      BY <2>5 DEF LoopSteps
    <2>6. ASSUME NEW r \in {"error"} \cup Reasons, req' = Return(r) PROVE ~looping'
      <3>1. r # "ready" /\ req'.step = "close" /\ req'.result = r
        BY <2>6, LoopRequests DEF Reasons
      <3> QED
        BY <3>1 DEF LoopSteps
    <2> HIDE DEF looping
    <2>7. ReadSecret => ~looping'
      BY <2>1, <2>2, <2>5, <2>6 DEF Reasons
    <2>8. Connect => ~looping'
      BY <2>1, <2>3, <2>5, <2>6 DEF Reasons
    <2>9. Probe => ~looping'
      BY <2>1, <2>4, <2>5, <2>6 DEF Reasons
    <2> QED
      BY <2>7, <2>8, <2>9
  <1>4. Close => ~looping'
    <2>1. Close => req' = Idle
      BY DEF Close, Finish
    <2> QED
      BY <2>1 DEF Idle, LoopSteps
  <1> QED
    BY <1>1, <1>2, <1>3, <1>4 DEF Worker

\* The loop: what it has done stays done while the Cluster is live.
LEMMA LoopProgressStep ==
  ASSUME DisjointNodes, TypeOK, OwnNodes, LoopProgress, Next
  PROVE  LoopProgress'
  <1> DEFINE c == req.key
             looping == req.step \in LoopSteps \/ (req.step = "close" /\ req.result = "ready")
  <1>1. CASE ~looping'
    BY <1>1 DEF LoopProgress, LoopSteps
  <1>2. CASE ListNodes /\ looping'
    <2> DEFINE listed == nodes[c]
               next == [NextNode(listed) EXCEPT !.listed = listed]
    <2>1. listed \subseteq NodesOf[c] /\ NextNode(listed) \in Requests
      BY <1>2, RequestType DEF ListNodes, TypeOK, WorkloadTypeOK
    <2>2. /\ next.step = NextNode(listed).step /\ next.todo = NextNode(listed).todo
          /\ next.key = NextNode(listed).key /\ next.listed = listed
      BY <2>1 DEF Requests
    <2>3. req' = next
      <3>1. req' = next \/ req' = Return("NodesListFailed")
        BY <1>2 DEF ListNodes
      <3> QED
        BY <1>2, <3>1, LoopRequests DEF LoopSteps
    <2>4. CASE listed = {}
      <3>1. req'.step = "close" /\ req'.todo = {} /\ req'.listed = {}
        BY <2>2, <2>3, <2>4, LoopRequests
      <3> QED
        BY <3>1 DEF LoopProgress, LoopSteps
    <2>5. CASE listed # {}
      <3>1. req'.step = "machine" /\ req'.todo = listed /\ req'.listed = listed /\ req'.key = c
        BY <2>2, <2>3, <2>5, LoopRequests
      <3> QED
        BY <2>1, <3>1 DEF LoopProgress, LoopSteps
    <2> QED
      BY <2>4, <2>5
  <1>3. ASSUME NEW n \in NodeNames, CreateMachine(n), looping' PROVE LoopProgress'
    <2>1. /\ req.step = "machine" /\ n \in req.todo /\ c \in Clusters
          /\ req.todo \subseteq req.listed /\ req.listed \subseteq NodesOf[c]
      BY <1>3 DEF CreateMachine, LoopProgress, LoopSteps, TypeOK
    <2>2. machines' = Claim(machines, n, c) /\ req' = [req EXCEPT !.step = "external", !.node = n]
      BY <1>3, LoopRequests DEF CreateMachine, LoopSteps
    <2>3. UNCHANGED <<clusters, extMachines>>
      BY <1>3 DEF CreateMachine
    <2>4. machines'[n] = c
      BY <2>1, <2>2, ClaimOwns DEF OwnNodes, TypeOK, ApiTypeOK
    <2>5. clusters[c].phase = "live" =>
            \A m \in req.listed \ req.todo : machines'[m] = c /\ extMachines'[m] = c
      <3> SUFFICES ASSUME clusters[c].phase = "live", NEW m \in req.listed \ req.todo
                   PROVE  machines'[m] = c /\ extMachines'[m] = c
        OBVIOUS
      <3>1. machines[m] = c /\ extMachines[m] = c /\ m \in NodeNames
        BY <2>1 DEF LoopProgress, LoopSteps, TypeOK, Requests
      <3>2. machines[m] # None
        BY <2>1, <3>1, NoneAssumption
      <3> QED
        BY <2>2, <2>3, <3>1, <3>2, ClaimKeeps DEF TypeOK, ApiTypeOK
    <2>6. /\ req'.step = "external" /\ req'.node = n /\ req'.key = c
          /\ req'.todo = req.todo /\ req'.listed = req.listed
      BY <2>2, LoopRequests
    <2> QED
      BY <2>1, <2>3, <2>4, <2>5, <2>6 DEF LoopProgress, LoopSteps
  <1>4. CASE CreateExternalMachine /\ looping'
    <2> DEFINE n == req.node
               left == req.todo \ {n}
    <2>1. /\ req.step = "external" /\ n \in req.todo /\ c \in Clusters /\ n \in NodeNames
          /\ req.todo \subseteq req.listed /\ req.listed \subseteq NodesOf[c]
      BY <1>4 DEF CreateExternalMachine, LoopProgress, LoopSteps, TypeOK, Requests
    <2>2. extMachines' = Claim(extMachines, n, c) /\ req' = NextNode(left)
      BY <1>4, LoopRequests DEF CreateExternalMachine, LoopSteps
    <2>3. UNCHANGED <<clusters, machines>>
      BY <1>4 DEF CreateExternalMachine
    <2>4. extMachines'[n] = c
      BY <2>1, <2>2, ClaimOwns DEF OwnNodes, TypeOK, ApiTypeOK
    <2>5. clusters[c].phase = "live" =>
            \A m \in req.listed \ left : machines'[m] = c /\ extMachines'[m] = c
      <3> SUFFICES ASSUME clusters[c].phase = "live", NEW m \in req.listed \ left
                   PROVE  machines'[m] = c /\ extMachines'[m] = c
        OBVIOUS
      <3>1. CASE m = n
        BY <2>1, <2>3, <2>4, <3>1 DEF LoopProgress, LoopSteps
      <3>2. CASE m # n
        <4>1. machines[m] = c /\ extMachines[m] = c /\ m \in NodeNames
          BY <2>1, <3>2 DEF LoopProgress, LoopSteps, TypeOK, Requests
        <4>2. extMachines[m] # None
          BY <2>1, <4>1, NoneAssumption
        <4> QED
          BY <2>1, <2>2, <2>3, <4>1, <4>2, ClaimKeeps DEF TypeOK, ApiTypeOK
      <3> QED
        BY <3>1, <3>2
    <2>6. /\ req'.step = IF left = {} THEN "close" ELSE "machine"
          /\ req'.key = c /\ req'.todo = left /\ req'.listed = req.listed
      BY <2>2, LoopRequests
    <2> QED
      BY <2>1, <2>3, <2>5, <2>6 DEF LoopProgress, LoopSteps
  <1>5. CASE UNCHANGED <<req, machines, extMachines>> /\ looping'
    <2>1. c \in Clusters
      BY <1>5 DEF TypeOK, LoopSteps
    <2> QED
      BY <1>5, <2>1, LiveBefore DEF LoopProgress, LoopSteps
  <1>6. ASSUME NEW n \in NodeNames, RemoveExternalMachine(n) \/ RemoveMachine(n), looping'
        PROVE  LoopProgress'
    <2>1. UNCHANGED <<req, clusters>>
      BY <1>6 DEF RemoveExternalMachine, RemoveMachine
    <2>2. machines[n] = c => clusters[c].phase # "live"
      BY <1>6 DEF RemoveExternalMachine, RemoveMachine, Deleting
    <2>3. \A m \in NodeNames : m # n => machines'[m] = machines[m] /\ extMachines'[m] = extMachines[m]
      BY <1>6 DEF RemoveExternalMachine, RemoveMachine, TypeOK, ApiTypeOK
    <2>4. req.listed \subseteq NodeNames /\ req.todo \subseteq NodeNames
      BY DEF TypeOK, Requests
    <2> QED
      BY <1>6, <2>1, <2>2, <2>3, <2>4 DEF LoopProgress, LoopSteps
  <1>7. Worker => \/ ~looping' \/ ListNodes \/ CreateExternalMachine
                 \/ \E n \in NodeNames : CreateMachine(n)
    BY LoopWorkers
  <1>8. Informers => UNCHANGED <<req, machines, extMachines>>
    BY InformersEnqueue DEF api
  <1>9. Restart => ~looping'
    BY DEF Restart, Idle, LoopSteps
  <1>10. Environment => \/ UNCHANGED <<req, machines, extMachines>>
                       \/ \E n \in NodeNames : RemoveExternalMachine(n) \/ RemoveMachine(n)
    BY DEF Environment, SetOwner, PauseCluster, PauseEc, DeleteCluster, RemoveEc, RemoveCluster,
           SetSecret, SetAccess, NodeJoins, NodeLeaves, api
  <1> QED
    BY <1>1, <1>2, <1>3, <1>4, <1>5, <1>6, <1>7, <1>8, <1>9, <1>10 DEF Next

\* A Machine goes only after its ExternalMachine, and comes before it.
LEMMA NoOrphanStep ==
  ASSUME TypeOK, LoopProgress, NoOrphanExternalMachine, Next
  PROVE  NoOrphanExternalMachine'
  <1> SUFFICES ASSUME NEW n \in NodeNames, extMachines'[n] # None,
                      clusters'[extMachines'[n]].phase = "live"
               PROVE  machines'[n] = extMachines'[n]
    BY DEF NoOrphanExternalMachine
  <1>1. CASE UNCHANGED <<machines, extMachines>>
    <2>1. clusters[extMachines[n]].phase = "live"
      BY <1>1, LiveBefore DEF TypeOK, ApiTypeOK
    <2> QED
      BY <1>1, <2>1 DEF NoOrphanExternalMachine
  <1>2. ASSUME NEW m \in NodeNames, CreateMachine(m) PROVE machines'[n] = extMachines'[n]
    <2>1. machines' \in {machines, Claim(machines, m, req.key)} /\ UNCHANGED <<clusters, extMachines>>
      BY <1>2 DEF CreateMachine
    <2>2. machines[n] = extMachines[n] /\ machines[n] # None
      BY <2>1 DEF NoOrphanExternalMachine
    <2> QED
      BY <2>1, <2>2, ClaimKeeps DEF TypeOK, ApiTypeOK
  <1>3. CASE CreateExternalMachine
    <2>1. /\ extMachines' \in {extMachines, Claim(extMachines, req.node, req.key)}
          /\ UNCHANGED <<clusters, machines>>
      BY <1>3 DEF CreateExternalMachine
    <2>2. CASE extMachines'[n] = extMachines[n]
      BY <2>1, <2>2 DEF NoOrphanExternalMachine
    <2>3. CASE extMachines'[n] # extMachines[n]
      <3>1. n = req.node /\ extMachines'[n] = req.key
        BY <2>1, <2>3 DEF Claim, TypeOK, ApiTypeOK
      <3> QED
        BY <1>3, <2>1, <3>1 DEF CreateExternalMachine, LoopProgress, LoopSteps
    <2> QED
      BY <2>2, <2>3
  <1>4. ASSUME NEW m \in NodeNames, RemoveExternalMachine(m) \/ RemoveMachine(m)
        PROVE  machines'[n] = extMachines'[n]
    BY <1>4 DEF RemoveExternalMachine, RemoveMachine, NoOrphanExternalMachine, TypeOK, ApiTypeOK
  <1> QED
    BY <1>1, <1>2, <1>3, <1>4, ObjectSteps

LEMMA InitInventory == Init => InventoryInv
  BY DEF Init, InventoryInv, OwnNodes, LoopProgress, LoopSteps, NoOrphanExternalMachine, Idle

\* The invariant of the inventory is inductive.
LEMMA InventoryStep == DisjointNodes /\ TypeOK /\ InventoryInv /\ [Next]_vars => InventoryInv'
  <1> SUFFICES ASSUME DisjointNodes, TypeOK, InventoryInv, [Next]_vars PROVE InventoryInv'
    OBVIOUS
  <1>1. CASE Next
    <2>1. /\ req.step \in LoopSteps => req.todo \subseteq NodesOf[req.key]
          /\ req.step = "external" => req.node \in req.todo
      BY DEF InventoryInv, LoopProgress, LoopSteps
    <2> QED
      BY <1>1, <2>1, OwnNodesStep, LoopProgressStep, NoOrphanStep DEF InventoryInv
  <1>2. CASE UNCHANGED vars
    BY <1>2 DEF InventoryInv, OwnNodes, LoopProgress, NoOrphanExternalMachine, vars, api
  <1> QED
    BY <1>1, <1>2

LEMMA InventoryIsInvariant == DisjointNodes /\ Spec => []InventoryInv
  <1> SUFFICES ASSUME DisjointNodes PROVE Spec => []InventoryInv
    OBVIOUS
  <1>1. TypeOK /\ InventoryInv /\ [Next]_vars => InventoryInv'
    BY InventoryStep
  <1> QED
    BY InitInventory, <1>1, TypeCorrect, PTL DEF Spec

\* The objects of a cluster that is live after a step are still there.
LEMMA ObjectsStay ==
  ASSUME TypeOK, NoOrphanExternalMachine, Next,
         NEW n \in NodeNames, NEW c \in Clusters, clusters'[c].phase = "live"
  PROVE  /\ machines[n] = c => machines'[n] = c
         /\ extMachines[n] = c => extMachines'[n] = c
  <1> USE DEF TypeOK, ApiTypeOK
  <1>1. clusters[c].phase = "live" /\ c # None
    BY LiveBefore, NoneAssumption
  <1>2. CASE UNCHANGED <<machines, extMachines>>
    BY <1>2
  <1>3. ASSUME NEW m \in NodeNames, CreateMachine(m)
        PROVE  (machines[n] = c => machines'[n] = c) /\ UNCHANGED extMachines
    <2>1. machines' \in {machines, Claim(machines, m, req.key)} /\ UNCHANGED extMachines
      BY <1>3 DEF CreateMachine
    <2> QED
      BY <2>1, <1>1 DEF Claim
  <1>4. CASE CreateExternalMachine
    <2>1. extMachines' \in {extMachines, Claim(extMachines, req.node, req.key)} /\ UNCHANGED machines
      BY <1>4 DEF CreateExternalMachine
    <2> QED
      BY <2>1, <1>1 DEF Claim
  <1>5. ASSUME NEW m \in NodeNames, RemoveExternalMachine(m) \/ RemoveMachine(m)
        PROVE  (machines[n] = c => machines'[n] = c) /\ (extMachines[n] = c => extMachines'[n] = c)
    <2>1. extMachines[n] = c => machines[n] = c
      BY <1>1 DEF NoOrphanExternalMachine
    <2> QED
      BY <1>1, <1>5, <2>1 DEF RemoveExternalMachine, RemoveMachine, Deleting
  <1> QED
    BY <1>2, <1>3, <1>4, <1>5, ObjectSteps

LEMMA CoveredByInventory == TypeOK /\ InventoryInv => ReadyCoversNodes
  BY DEF InventoryInv, LoopProgress, LoopSteps, ReadyCoversNodes, Active, TypeOK, Requests

\* When node names are unique, status.ready is only ever written after every
\* node listed has the Machine and ExternalMachine of its own cluster.
THEOREM ReadyMeansCovered == DisjointNodes /\ Spec => []ReadyCoversNodes
  BY CoveredByInventory, InventoryIsInvariant, TypeCorrect, PTL

\* When node names are unique, no ExternalMachine of a live Cluster is without
\* its Machine.
THEOREM NoOrphans == DisjointNodes /\ Spec => []NoOrphanExternalMachine
  <1>1. InventoryInv => NoOrphanExternalMachine
    BY DEF InventoryInv
  <1> QED
    BY <1>1, InventoryIsInvariant, PTL

-----------------------------------------------------------------------------
(* The abstract inventory.                                                  *)

LEMMA InitKeeps == Init => Inventory!Init
  BY DEF Init, LiveClusters, Inventory!Init

\* Steps that leave the objects of the nodes alone: at most a cluster ends.
LEMMA EndStep ==
  ASSUME TypeOK, Next, UNCHANGED <<machines, extMachines>>
  PROVE  \/ LiveClusters' = LiveClusters
         \/ \E c \in LiveClusters : LiveClusters' = LiveClusters \ {c}
  <1> USE DEF LiveClusters, TypeOK, ApiTypeOK, ClusterObjects
  <1>1. ASSUME NEW c \in Clusters, PauseCluster(c) PROVE LiveClusters' = LiveClusters
    BY <1>1 DEF PauseCluster
  <1>2. ASSUME NEW c \in Clusters, DeleteCluster(c)
        PROVE  c \in LiveClusters /\ LiveClusters' = LiveClusters \ {c}
    BY <1>2 DEF DeleteCluster
  <1>3. ASSUME NEW c \in Clusters, RemoveCluster(c) PROVE LiveClusters' = LiveClusters
    BY <1>3 DEF RemoveCluster, Deleting
  <1>4. \/ UNCHANGED clusters
        \/ \E c \in Clusters : PauseCluster(c) \/ DeleteCluster(c) \/ RemoveCluster(c)
    BY ClusterSteps
  <1> QED
    BY <1>1, <1>2, <1>3, <1>4

\* Every other step registers, completes or drops one object, or none.
LEMMA ImplementsInventory ==
  ASSUME DisjointNodes, TypeOK, InventoryInv, Next
  PROVE  [Inventory!Next]_(Inventory!inventory)
  <1> USE DEF LiveClusters, InventoryInv, Inventory!inventory
  <1>1. CASE UNCHANGED <<machines, extMachines>>
    BY <1>1, EndStep DEF Inventory!Next, Inventory!End
  <1>2. ASSUME NEW n \in NodeNames, CreateMachine(n), ~UNCHANGED machines
        PROVE  Inventory!Next
    <2> DEFINE c == req.key
    <2>1. /\ machines[n] = None /\ machines' = [machines EXCEPT ![n] = c]
          /\ UNCHANGED <<clusters, extMachines>>
      BY <1>2 DEF CreateMachine, Claim
    <2>2. c \in Clusters /\ n \in NodesOf[c]
      BY <1>2 DEF CreateMachine, LoopProgress, LoopSteps, TypeOK
    <2>3. c \in LiveClusters => extMachines[n] = None
      <3> SUFFICES ASSUME clusters[c].phase = "live", extMachines[n] # None PROVE FALSE
        OBVIOUS
      <3>1. extMachines[n] \in Clusters /\ n \in NodesOf[extMachines[n]]
        BY DEF OwnNodes, TypeOK, ApiTypeOK
      <3>2. extMachines[n] = c
        BY <2>2, <3>1 DEF DisjointNodes
      <3> QED
        BY <2>1, <3>2 DEF NoOrphanExternalMachine
    <2> QED
      BY <2>1, <2>2, <2>3 DEF Inventory!Next, Inventory!Register
  <1>3. ASSUME CreateExternalMachine, ~UNCHANGED extMachines PROVE Inventory!Next
    <2> DEFINE n == req.node
               c == req.key
    <2>1. /\ extMachines[n] = None /\ extMachines' = [extMachines EXCEPT ![n] = c]
          /\ UNCHANGED <<clusters, machines>>
      BY <1>3 DEF CreateExternalMachine, Claim
    <2>2. c \in Clusters /\ n \in NodeNames /\ (clusters[c].phase = "live" => machines[n] = c)
      BY <1>3 DEF CreateExternalMachine, LoopProgress, LoopSteps, TypeOK, Requests
    <2> QED
      BY <2>1, <2>2 DEF Inventory!Next, Inventory!Complete
  <1>4. ASSUME NEW n \in NodeNames, RemoveExternalMachine(n) PROVE Inventory!Next
    <2>1. extMachines[n] \notin LiveClusters
      BY <1>4 DEF RemoveExternalMachine, Deleting, NoOrphanExternalMachine
    <2> QED
      BY <1>4, <2>1 DEF RemoveExternalMachine, Inventory!Next, Inventory!DropExternal
  <1>5. ASSUME NEW n \in NodeNames, RemoveMachine(n) PROVE Inventory!Next
    <2>1. machines[n] \notin LiveClusters
      BY <1>5 DEF RemoveMachine, Deleting
    <2> QED
      BY <1>5, <2>1 DEF RemoveMachine, Inventory!Next, Inventory!DropMachine
  <1>6. CreateExternalMachine => UNCHANGED machines
    BY DEF CreateExternalMachine
  <1>7. ASSUME NEW n \in NodeNames, CreateMachine(n) PROVE UNCHANGED extMachines
    BY <1>7 DEF CreateMachine
  <1> QED
    BY <1>1, <1>2, <1>3, <1>4, <1>5, <1>6, <1>7, ObjectSteps

\* When node names are unique, the controller implements the abstract inventory:
\* objects come in pairs, the Machine first, and stay while their cluster is live.
THEOREM InventoryIsKept == DisjointNodes /\ Spec => KeepsInventory
  <1> SUFFICES ASSUME DisjointNodes PROVE Spec => KeepsInventory
    OBVIOUS
  <1>1. TypeOK /\ InventoryInv /\ [Next]_vars => [Inventory!Next]_(Inventory!inventory)
    <2> SUFFICES ASSUME TypeOK, InventoryInv, [Next]_vars
                 PROVE  [Inventory!Next]_(Inventory!inventory)
      OBVIOUS
    <2>1. CASE Next
      BY <2>1, ImplementsInventory
    <2>2. CASE UNCHANGED vars
      BY <2>2 DEF vars, api, LiveClusters, Inventory!inventory
    <2> QED
      BY <2>1, <2>2
  <1>2. DisjointNodes /\ Spec => []InventoryInv
    BY InventoryIsInvariant
  <1> QED
    BY InitKeeps, <1>1, <1>2, TypeCorrect, PTL DEF Spec, KeepsInventory, Inventory!Spec

-----------------------------------------------------------------------------
(* What the abstract inventory promises.                                    *)

\* Its own invariant: the objects come in pairs while their cluster is live.
Paired ==
  /\ machines \in [NodeNames -> Clusters \cup {None}]
  /\ extMachines \in [NodeNames -> Clusters \cup {None}]
  /\ \A n \in NodeNames : extMachines[n] \in LiveClusters => machines[n] = extMachines[n]

LEMMA PairedStep ==
  ASSUME Paired, [Inventory!Next]_(Inventory!inventory)
  PROVE  Paired'
  <1> DEFINE live == LiveClusters
  <1>1. ASSUME NEW n \in NodeNames, NEW c \in Clusters, Inventory!Register(n, c) PROVE Paired'
    <2>1. live' = live /\ machines[n] = None /\ machines' = [machines EXCEPT ![n] = c] /\ UNCHANGED extMachines
      BY <1>1 DEF Inventory!Register
    <2>2. \A m \in NodeNames : extMachines[m] \in live => machines[m] = extMachines[m]
      BY DEF Paired
    <2>3. extMachines[n] \notin live
      BY <2>1, <2>2, NoneAssumption DEF LiveClusters
    <2> HIDE DEF live
    <2>4. \A m \in NodeNames : extMachines'[m] \in live' => machines'[m] = extMachines'[m]
      BY <2>1, <2>2, <2>3 DEF Paired
    <2> QED
      BY <2>1, <2>4 DEF Paired, live
  <1>2. ASSUME NEW n \in NodeNames, NEW c \in Clusters, Inventory!Complete(n, c) PROVE Paired'
    <2>1. /\ live' = live /\ UNCHANGED machines /\ extMachines' = [extMachines EXCEPT ![n] = c]
          /\ c \in live => machines[n] = c
      BY <1>2 DEF Inventory!Complete
    <2> HIDE DEF live
    <2>2. \A m \in NodeNames : extMachines'[m] \in live' => machines'[m] = extMachines'[m]
      BY <2>1 DEF Paired, live
    <2> QED
      BY <2>1, <2>2 DEF Paired, live
  <1>3. ASSUME NEW n \in NodeNames, Inventory!DropExternal(n) \/ Inventory!DropMachine(n) PROVE Paired'
    <2>1. /\ live' = live
          /\ \/ extMachines' = [extMachines EXCEPT ![n] = None] /\ UNCHANGED machines
             \/ /\ extMachines[n] = None /\ UNCHANGED extMachines
                /\ machines' = [machines EXCEPT ![n] = None]
      BY <1>3 DEF Inventory!DropExternal, Inventory!DropMachine
    <2>2. None \notin live
      BY NoneAssumption DEF LiveClusters
    <2> HIDE DEF live
    <2>3. \A m \in NodeNames : extMachines'[m] \in live' => machines'[m] = extMachines'[m]
      BY <2>1, <2>2 DEF Paired, live
    <2> QED
      BY <2>1, <2>3 DEF Paired, live
  <1>4. ASSUME NEW c \in live, Inventory!End(c) PROVE Paired'
    BY <1>4 DEF Inventory!End, Paired
  <1>5. CASE UNCHANGED Inventory!inventory
    BY <1>5 DEF Inventory!inventory, Paired
  <1> QED
    BY <1>1, <1>2, <1>3, <1>4, <1>5 DEF Inventory!Next

\* NodeInventory is not too weak to be worth implementing: whatever keeps it leaves
\* no ExternalMachine of a live Cluster without its Machine.
THEOREM InventoryMeansPairs == KeepsInventory => []NoOrphanExternalMachine
  <1>1. Inventory!Init => Paired
    BY NoneAssumption DEF Inventory!Init, Paired, LiveClusters
  <1>2. Paired => NoOrphanExternalMachine
    BY DEF Paired, NoOrphanExternalMachine, LiveClusters
  <1> QED
    BY <1>1, <1>2, PairedStep, PTL DEF KeepsInventory, Inventory!Spec

=============================================================================
