--------------------------- MODULE ReconcileProofs ---------------------------
(***************************************************************************)
(* How one reconcile of the ExternalCluster controller ends, proved for    *)
(* any clusters, nodes and bounds: after finitely many steps, and with a   *)
(* failure only if there is a cause.                                       *)
(***************************************************************************)
EXTENDS ExternalClusterProofs, FiniteSetTheorems

-----------------------------------------------------------------------------
(* It ends.                                                                 *)

\* An external cluster has finitely many nodes.
FiniteNodes == \A c \in Clusters : IsFiniteSet(NodesOf[c])

\* What the loop has left to do are nodes of its cluster, and there are some.
LoopHasWork ==
  req.step \in LoopSteps =>
    /\ req.todo \subseteq NodesOf[req.key] /\ req.todo # {}
    /\ req.step = "external" => req.node \in req.todo

\* The worker goes from one step of reconcileNormal to the next, without loop.
Advances ==
  \/ req.step = "owner" /\ req' = [req EXCEPT !.step = "secret"]
  \/ req.step = "secret" /\ req' = [req EXCEPT !.step = "connect"]
  \/ req.step = "connect" /\ req' = [req EXCEPT !.step = "probe"]
  \/ req.step = "probe" /\ req' = [req EXCEPT !.step = "list"]

\* The worker lists the nodes, or does its next call for one of them.
Loops ==
  \/ req.step = "list" /\ req' = [NextNode(nodes[req.key]) EXCEPT !.listed = nodes[req.key]]
  \/ /\ req.step = "machine"
     /\ \E n \in req.todo : req' = [req EXCEPT !.step = "external", !.node = n]
  \/ req.step = "external" /\ req' = NextNode(req.todo \ {req.node})

\* reconcileNormal fails.
Fails ==
  /\ req.step \notin {"idle", "owner", "close"}
  /\ \E r \in {"error"} \cup Reasons : req' = Return(r)

\* Reconcile is over.
Ends == req.step \in {"owner", "close"} /\ req' = Idle

\* What the worker does next, in terms of the request alone.
LEMMA WorkerCases ==
  ASSUME Worker
  PROVE  (\E c \in Clusters : Start(c)) \/ Advances \/ Loops \/ Fails \/ Ends
  <1>1. ReadOwner => Advances \/ Ends
    BY DEF ReadOwner, Finish, Advances, Ends
  <1>2. ReadSecret => Advances \/ Fails
    <2> SUFFICES ASSUME ReadSecret PROVE Advances \/ Fails
      OBVIOUS
    <2>1. /\ req.step = "secret"
          /\ \/ req' = [req EXCEPT !.step = "connect"]
             \/ req' = Return("error") \/ req' = Return("KubeconfigSecretNotFound")
      BY DEF ReadSecret
    <2> QED
      BY <2>1 DEF Advances, Fails, Reasons
  <1>3. Connect => Advances \/ Fails
    BY DEF Connect, Advances, Fails, Reasons
  <1>4. Probe => Advances \/ Fails
    BY DEF Probe, Advances, Fails, Reasons
  <1>5. ListNodes => Loops \/ Fails
    BY DEF ListNodes, Loops, Fails, Reasons
  <1>6. ASSUME NEW n \in NodeNames, CreateMachine(n) PROVE Loops \/ Fails
    BY <1>6 DEF CreateMachine, Loops, Fails
  <1>7. CreateExternalMachine => Loops \/ Fails
    BY DEF CreateExternalMachine, Loops, Fails
  <1>8. Close => Ends
    BY DEF Close, Finish, Ends
  <1> QED
    BY <1>1, <1>2, <1>3, <1>4, <1>5, <1>6, <1>7, <1>8 DEF Worker

\* The measure of a request, by the step it is at.
LEMMA StepsLeftAt ==
  ASSUME NEW r
  PROVE  /\ r.step = "idle" => StepsLeft(r) = 0
         /\ r.step = "close" => StepsLeft(r) = 1
         /\ r.step = "owner" => StepsLeft(r) = 6 + 2 * Cardinality(NodesOf[r.key])
         /\ r.step = "secret" => StepsLeft(r) = 5 + 2 * Cardinality(NodesOf[r.key])
         /\ r.step = "connect" => StepsLeft(r) = 4 + 2 * Cardinality(NodesOf[r.key])
         /\ r.step = "probe" => StepsLeft(r) = 3 + 2 * Cardinality(NodesOf[r.key])
         /\ r.step = "list" => StepsLeft(r) = 2 + 2 * Cardinality(NodesOf[r.key])
         /\ r.step = "machine" => StepsLeft(r) = 1 + 2 * Cardinality(r.todo)
         /\ r.step = "external" => StepsLeft(r) = 0 + 2 * Cardinality(r.todo)
  <1>1. Cardinality({}) = 0
    BY FS_EmptySet
  <1>2. r.step \in {"idle", "close"} =>
          StepsLeft(r) = IF r.step = "idle" THEN 0 ELSE 1
    BY <1>1 DEF StepsLeft
  <1>3. r.step = "owner" => StepsLeft(r) = 6 + 2 * Cardinality(NodesOf[r.key])
    BY DEF StepsLeft
  <1>4. r.step = "secret" => StepsLeft(r) = 5 + 2 * Cardinality(NodesOf[r.key])
    BY DEF StepsLeft
  <1>5. r.step = "connect" => StepsLeft(r) = 4 + 2 * Cardinality(NodesOf[r.key])
    BY DEF StepsLeft
  <1>6. r.step = "probe" => StepsLeft(r) = 3 + 2 * Cardinality(NodesOf[r.key])
    BY DEF StepsLeft
  <1>7. r.step = "list" => StepsLeft(r) = 2 + 2 * Cardinality(NodesOf[r.key])
    BY DEF StepsLeft
  <1>8. r.step = "machine" => StepsLeft(r) = 1 + 2 * Cardinality(r.todo)
    BY DEF StepsLeft
  <1>9. r.step = "external" => StepsLeft(r) = 0 + 2 * Cardinality(r.todo)
    BY DEF StepsLeft
  <1> QED
    BY <1>1, <1>2, <1>3, <1>4, <1>5, <1>6, <1>7, <1>8, <1>9

\* What the loop still has to do, after it listed nodes or is done with one.
LEMMA NextNodeIs ==
  ASSUME TypeOK, NEW left
  PROVE  \/ left = {} /\ NextNode(left).step = "close" /\ NextNode(left).key = req.key
         \/ /\ left # {} /\ NextNode(left).step = "machine"
            /\ NextNode(left).todo = left /\ NextNode(left).key = req.key
  BY LoopRequests

\* Listing the nodes starts with all of them.
LEMMA ListedIs ==
  ASSUME TypeOK, req.step = "list",
         req' = [NextNode(nodes[req.key]) EXCEPT !.listed = nodes[req.key]]
  PROVE  /\ nodes[req.key] \subseteq NodesOf[req.key] /\ req'.key = req.key
         /\ \/ req'.step = "close"
            \/ /\ nodes[req.key] # {} /\ req'.step = "machine"
               /\ req'.todo = nodes[req.key]
  <1>1. /\ nodes[req.key] \subseteq NodesOf[req.key]
        /\ nodes[req.key] \subseteq NodeNames
    BY DEF TypeOK, WorkloadTypeOK
  <1>2. NextNode(nodes[req.key]) \in Requests
    BY <1>1, RequestType
  <1>3. /\ req'.step = NextNode(nodes[req.key]).step
        /\ req'.todo = NextNode(nodes[req.key]).todo
        /\ req'.key = NextNode(nodes[req.key]).key
    BY <1>2 DEF Requests
  <1> QED
    BY <1>1, <1>3, NextNodeIs

\* The loop never runs out of nodes before it is over.
LEMMA LoopHasWorkStep ==
  ASSUME TypeOK, LoopHasWork, Next
  PROVE  LoopHasWork'
  <1>1. CASE UNCHANGED req
    BY <1>1 DEF LoopHasWork
  <1>2. CASE req' = Idle
    BY <1>2 DEF LoopHasWork, LoopSteps, Idle
  <1>3. ASSUME NEW c \in Clusters, Start(c) PROVE LoopHasWork'
    <2>1. req'.step \in {"idle", "owner"}
      BY <1>3 DEF Start, Idle
    <2> QED
      BY <2>1 DEF LoopHasWork, LoopSteps
  <1>4. CASE Advances
    <2>1. req'.step \notin LoopSteps
      BY <1>4 DEF Advances, LoopSteps, TypeOK, Requests
    <2> QED
      BY <2>1 DEF LoopHasWork
  <1>5. CASE Fails
    <2>1. req'.step = "close"
      BY <1>5, LoopRequests DEF Fails
    <2> QED
      BY <2>1 DEF LoopHasWork, LoopSteps
  <1>6. CASE Loops
    <2>1. CASE req.step = "list"
      BY <1>6, <2>1, ListedIs DEF Loops, LoopHasWork, LoopSteps
    <2>2. CASE req.step = "machine"
      <3>1. PICK n \in req.todo : req' = [req EXCEPT !.step = "external", !.node = n]
        BY <1>6, <2>2 DEF Loops
      <3>2. n \in NodeNames
        BY DEF TypeOK, Requests
      <3> QED
        BY <2>2, <3>1, <3>2, LoopRequests DEF LoopHasWork, LoopSteps
    <2>3. CASE req.step = "external"
      <3>1. req' = NextNode(req.todo \ {req.node})
        BY <1>6, <2>3 DEF Loops
      <3> QED
        BY <2>3, <3>1, NextNodeIs DEF LoopHasWork, LoopSteps
    <2> QED
      BY <1>6, <2>1, <2>2, <2>3 DEF Loops
  <1> QED
    BY <1>1, <1>2, <1>3, <1>4, <1>5, <1>6, WorkerCases, OutsideRequest DEF Next, Ends

\* The worker's next step, or a restart, brings the reconcile nearer to its end.
LEMMA StepsLeftStep ==
  ASSUME FiniteNodes, TypeOK, LoopHasWork, Next, req.step # "idle",
         Worker \/ req' # req
  PROVE  StepsLeft(req') < StepsLeft(req)
  <1> DEFINE all == NodesOf[req.key]
  <1>1. req.key \in Clusters /\ IsFiniteSet(all) /\ Cardinality(all) \in Nat
    BY FS_CardinalityType DEF FiniteNodes, TypeOK
  <1>2. req.step \in LoopSteps => IsFiniteSet(req.todo) /\ Cardinality(req.todo) \in Nat \ {0}
    <2> SUFFICES ASSUME req.step \in LoopSteps
                 PROVE  IsFiniteSet(req.todo) /\ Cardinality(req.todo) \in Nat \ {0}
      OBVIOUS
    <2>1. req.todo \in SUBSET all /\ req.todo # {}
      BY DEF LoopHasWork
    <2>2. IsFiniteSet(req.todo)
      BY <1>1, <2>1, FS_Subset
    <2> QED
      BY <2>1, <2>2, FS_CardinalityType, FS_EmptySet
  <1>3. req.step \in Steps
    BY DEF TypeOK, Requests
  <1>4. StepsLeft(req) \in Nat \ {0}
    BY <1>1, <1>2, <1>3, StepsLeftAt DEF Steps, LoopSteps
  <1>5. req.step \notin {"idle", "close"} => StepsLeft(req) > 1
    BY <1>1, <1>2, <1>3, StepsLeftAt DEF Steps, LoopSteps
  <1>6. CASE req' = Idle
    <2>1. req'.step = "idle"
      BY <1>6 DEF Idle
    <2> QED
      BY <1>4, <2>1, StepsLeftAt
  <1>7. CASE Fails
    <2>1. req'.step = "close"
      BY <1>7, LoopRequests DEF Fails
    <2> QED
      BY <1>5, <1>7, <2>1, StepsLeftAt DEF Fails
  <1>8. CASE Advances
    <2>1. /\ req'.key = req.key
          /\ \/ req.step = "owner" /\ req'.step = "secret"
             \/ req.step = "secret" /\ req'.step = "connect"
             \/ req.step = "connect" /\ req'.step = "probe"
             \/ req.step = "probe" /\ req'.step = "list"
      BY <1>8 DEF Advances, TypeOK, Requests
    <2> QED
      BY <1>1, <2>1, StepsLeftAt
  <1>9. CASE Loops
    <2>1. CASE req.step = "list"
      <3>1. /\ nodes[req.key] \in SUBSET all
            /\ req'.step = "close" \/ (req'.step = "machine" /\ req'.todo = nodes[req.key])
        BY <1>9, <2>1, ListedIs DEF Loops
      <3>2. IsFiniteSet(nodes[req.key]) /\ Cardinality(nodes[req.key]) <= Cardinality(all)
        BY <1>1, <3>1, FS_Subset
      <3>3. Cardinality(nodes[req.key]) \in Nat
        BY <3>2, FS_CardinalityType
      <3> QED
        BY <1>1, <1>5, <2>1, <3>1, <3>2, <3>3, StepsLeftAt
    <2>2. CASE req.step = "machine"
      <3>1. PICK n \in req.todo : req' = [req EXCEPT !.step = "external", !.node = n]
        BY <1>9, <2>2 DEF Loops
      <3>2. req'.step = "external" /\ req'.todo = req.todo
        BY <3>1, LoopRequests DEF TypeOK, Requests
      <3> QED
        BY <1>2, <2>2, <3>2, StepsLeftAt DEF LoopSteps
    <2>3. CASE req.step = "external"
      <3> DEFINE left == req.todo \ {req.node}
      <3>1. req' = NextNode(left) /\ req.node \in req.todo
        BY <1>9, <2>3 DEF Loops, LoopHasWork, LoopSteps
      <3>2. req'.step = "close" \/ (req'.step = "machine" /\ req'.todo = left)
        BY <3>1, NextNodeIs
      <3>3. Cardinality(left) = Cardinality(req.todo) - 1
        BY <1>2, <2>3, <3>1, FS_RemoveElement DEF LoopSteps
      <3>4. Cardinality(req.todo) \in Nat /\ StepsLeft(req) = 2 * Cardinality(req.todo)
        BY <1>2, <2>3, StepsLeftAt DEF LoopSteps
      <3>5. CASE req'.step = "close"
        BY <1>5, <2>3, <3>5, StepsLeftAt
      <3>6. CASE req'.step = "machine" /\ req'.todo = left
        <4>1. StepsLeft(req') = 1 + 2 * Cardinality(left)
          BY <3>6, StepsLeftAt
        <4> QED
          BY <3>3, <3>4, <4>1
      <3> QED
        BY <3>2, <3>5, <3>6
    <2> QED
      BY <1>9, <2>1, <2>2, <2>3 DEF Loops
  <1>10. ASSUME NEW c \in Clusters, Start(c) PROVE FALSE
    BY <1>10 DEF Start
  <1> QED
    BY <1>6, <1>7, <1>8, <1>9, <1>10, WorkerCases, OutsideRequest DEF Next, Ends

LEMMA InitLoop == Init => LoopHasWork
  BY DEF Init, LoopHasWork, LoopSteps, Idle

\* ReconcileEnds: each step of a reconcile, of a cluster with any finite number of
\* nodes, leaves fewer steps to its end, and no step of another actor adds any.
THEOREM ReconcilesEnd == FiniteNodes /\ Spec => ReconcileEnds
  <1> SUFFICES ASSUME FiniteNodes PROVE Spec => ReconcileEnds
    OBVIOUS
  <1> DEFINE Step == req.step # "idle" /\ (Worker \/ req' # req) => StepsLeft(req') < StepsLeft(req)
  <1>1. TypeOK /\ LoopHasWork /\ [Next]_vars => LoopHasWork'
    <2>1. CASE UNCHANGED vars
      BY <2>1 DEF vars, LoopHasWork
    <2> QED
      BY <2>1, LoopHasWorkStep
  <1>2. TypeOK /\ LoopHasWork /\ [Next]_vars => [Step]_vars
    BY StepsLeftStep
  <1> QED
    BY <1>1, <1>2, InitLoop, TypeCorrect, PTL DEF Spec, ReconcileEnds

-----------------------------------------------------------------------------
(* It fails for a cause only.                                               *)

\* reconcileNormal has decided something before Close acts on it.
ResultKnown == req.step = "close" => req.result # "none"

LEMMA ResultKnownStep ==
  ASSUME TypeOK, Next, ResultKnown
  PROVE  ResultKnown'
  <1>1. CASE UNCHANGED req
    BY <1>1 DEF ResultKnown
  <1>2. CASE req' = Idle
    BY <1>2 DEF ResultKnown, Idle
  <1>3. ASSUME NEW c \in Clusters, Start(c) PROVE ResultKnown'
    BY <1>3 DEF Start, Idle, ResultKnown
  <1>4. CASE Advances
    <2>1. req'.step # "close"
      BY <1>4 DEF Advances, TypeOK, Requests
    <2> QED
      BY <2>1 DEF ResultKnown
  <1>5. CASE Fails
    BY <1>5, LoopRequests DEF Fails, ResultKnown, Reasons
  <1>6. CASE Loops
    <2>1. \A left \in SUBSET NodeNames : NextNode(left).step = "close" => NextNode(left).result = "ready"
      BY LoopRequests
    <2>2. CASE req.step = "list"
      <3>1. nodes[req.key] \subseteq NodeNames
        BY <2>2 DEF TypeOK, WorkloadTypeOK
      <3>2. NextNode(nodes[req.key]) \in Requests
        BY <3>1, RequestType
      <3>3. /\ req'.step = NextNode(nodes[req.key]).step
            /\ req'.result = NextNode(nodes[req.key]).result
        BY <1>6, <2>2, <3>2 DEF Loops, Requests
      <3> QED
        BY <2>1, <3>1, <3>3 DEF ResultKnown
    <2>3. CASE req.step = "machine"
      <3>1. PICK n \in req.todo : req' = [req EXCEPT !.step = "external", !.node = n]
        BY <1>6, <2>3 DEF Loops
      <3>2. req'.step = "external"
        BY <3>1 DEF TypeOK, Requests
      <3> QED
        BY <3>2 DEF ResultKnown
    <2>4. CASE req.step = "external"
      <3>1. req.todo \ {req.node} \in SUBSET NodeNames
        BY DEF TypeOK, Requests
      <3> QED
        BY <1>6, <2>1, <2>4, <3>1 DEF Loops, ResultKnown
    <2> QED
      BY <1>6, <2>2, <2>3, <2>4 DEF Loops
  <1> QED
    BY <1>1, <1>2, <1>3, <1>4, <1>5, <1>6, WorkerCases, OutsideRequest DEF Next, Ends

\* No call fails in a step that leaves the budget of faults alone.
LEMMA NoFault ==
  ASSUME TypeOK, UNCHANGED faults
  PROVE  ~Fault
  BY BoundsAssumption DEF TypeOK, Fault

\* The result as it stands after the steps that do not fail.
LEMMA ResultKept ==
  ASSUME TypeOK, req.result \in {"none", "ready"}
  PROVE  /\ \A s : [req EXCEPT !.step = s].result \in {"none", "ready"}
         /\ \A left : NextNode(left).result \in {"none", "ready"}
         /\ \A left \in SUBSET NodeNames :
              [NextNode(left) EXCEPT !.listed = left].result \in {"none", "ready"}
  <1>1. \A left : NextNode(left).result \in {"none", "ready"}
    BY DEF TypeOK, Requests, NextNode, Return
  <1>2. \A left \in SUBSET NodeNames : [NextNode(left) EXCEPT !.listed = left].result = NextNode(left).result
    BY RequestType DEF Requests
  <1> QED
    BY <1>1, <1>2 DEF TypeOK, Requests

\* Before Close: each call is given what it needs, so reconcileNormal goes on.
LEMMA GoesOn ==
  ASSUME TypeOK, NEW c \in Clusters, Active(c), req.result \in {"none", "ready"},
         UNCHANGED faults, Healthy(c), SecretSeen(c),
         \/ ReadSecret \/ Connect \/ Probe \/ ListNodes
         \/ \E n \in NodeNames : CreateMachine(n)
         \/ CreateExternalMachine
  PROVE  Active(c)' /\ req'.result \in {"none", "ready"}
  <1>1. Active(c)'
    BY MiddleStep DEF Active
  <1>2. seenSecrets[c].exists /\ seenSecrets[c].value = "valid"
    BY DEF SecretSeen, Healthy, TypeOK, CacheTypeOK, ApiTypeOK, SecretObjects
  <1>3. CASE ReadSecret
    <2>1. SecretUpdateAccepted(c)
      BY <1>3 DEF ReadSecret, SecretSeen, SecretUpdateAccepted
    <2>2. req' = [req EXCEPT !.step = "connect"]
      BY <1>2, <1>3, <2>1, NoFault DEF ReadSecret, Active
    <2> QED
      BY <1>1, <2>2, ResultKept
  <1>4. CASE Connect
    BY <1>1, <1>2, <1>4, ResultKept DEF Connect, Active
  <1>5. CASE Probe
    BY <1>1, <1>5, NoFault, ResultKept DEF Probe, Active, Healthy
  <1>6. CASE ListNodes
    <2>1. nodes[c] \in SUBSET NodeNames
      BY DEF TypeOK, WorkloadTypeOK
    <2>2. req' = [NextNode(nodes[c]) EXCEPT !.listed = nodes[c]]
      BY <1>6, NoFault DEF ListNodes, Active, Healthy
    <2> QED
      BY <1>1, <2>1, <2>2, ResultKept
  <1>7. ASSUME NEW n \in NodeNames, CreateMachine(n) PROVE Active(c)' /\ req'.result \in {"none", "ready"}
    <2>1. req' = [req EXCEPT !.step = "external", !.node = n]
      BY <1>7, NoFault DEF CreateMachine
    <2>2. req'.result = req.result
      BY <2>1 DEF TypeOK, Requests
    <2> QED
      BY <1>1, <2>2
  <1>8. CASE CreateExternalMachine
    BY <1>1, <1>8, NoFault, ResultKept DEF CreateExternalMachine
  <1> QED
    BY <1>3, <1>4, <1>5, <1>6, <1>7, <1>8

\* Close: with nothing failing, ready is written or had been written before.
LEMMA ClosesReady ==
  ASSUME TypeOK, ReadyStays, ResultKnown, NEW c \in Clusters, Active(c),
         req.result \in {"none", "ready"}, UNCHANGED faults, Healthy(c), Close
  PROVE  ecs'[c].ready /\ UNCHANGED queue
  <1>1. req.key = c /\ req.result = "ready" /\ ecs[c].exists
    BY DEF Close, ResultKnown, Active, Healthy, Wanted
  <1>2. PatchAccepted(c, req.before, req.result)
    BY <1>1 DEF PatchAccepted, Reasons
  <1>3. ~Requeues(req.result, TRUE)
    BY <1>1 DEF Requeues
  <1>4. CASE WantedEc(req.before, req.result) = req.before
    <2>1. req.before.ready
      BY <1>1, <1>4 DEF WantedEc, TypeOK, Requests, EcObjects
    <2>2. ecs[c].ready
      BY <1>1, <2>1 DEF ReadyStays, Active
    <2> QED
      BY <1>3, <1>4, <2>2, NoFault DEF Close, Finish
  <1>5. CASE WantedEc(req.before, req.result) # req.before
    <2>1. /\ ecs' = [ecs EXCEPT ![c] = WantedEc(ecs[c], "ready")]
          /\ UNCHANGED queue
      BY <1>1, <1>2, <1>3, <1>5, NoFault DEF Close, Finish
    <2>2. WantedEc(ecs[c], "ready").ready
      BY DEF WantedEc, TypeOK, ApiTypeOK, EcObjects
    <2> QED
      BY <2>1, <2>2 DEF TypeOK, ApiTypeOK
  <1> QED
    BY <1>4, <1>5

LEMMA InitResult == Init => ResultKnown
  BY DEF Init, ResultKnown, Idle

\* A step of the worker that meets no fault, past the early returns.
LEMMA WorkerFailsForCause ==
  ASSUME TypeOK, WakeupInv, ResultKnown, NEW c \in Clusters,
         Active(c), req.step # "owner", req.result \in {"none", "ready"},
         Worker, UNCHANGED faults, Healthy(c), SecretSeen(c)
  PROVE  \/ Active(c)' /\ req'.result \in {"none", "ready"}
         \/ ecs'[c].ready /\ UNCHANGED queue
  <1>1. ~ReadOwner /\ ~ \E d \in Clusters : Start(d)
    BY DEF ReadOwner, Start, Active
  <1>2. Close => ecs'[c].ready /\ UNCHANGED queue
    BY ClosesReady DEF WakeupInv
  <1> QED
    BY <1>1, <1>2, GoesOn DEF Worker

\* FailsForCause: in a step without a fault, a reconcile of a cluster that is in
\* order, with its Secret in the cache, goes on or leaves the cluster ready.
THEOREM ReconcilesFailForCause == Spec => FailsForCause
  <1> DEFINE Step == \A c \in Clusters :
               /\ Active(c) /\ req.step # "owner" /\ req.result \in {"none", "ready"}
               /\ Worker /\ UNCHANGED faults
               /\ Healthy(c) /\ SecretSeen(c)
               => \/ Active(c)' /\ req'.result \in {"none", "ready"}
                  \/ ecs'[c].ready /\ UNCHANGED queue
  <1>1. TypeOK /\ ResultKnown /\ [Next]_vars => ResultKnown'
    <2>1. CASE UNCHANGED vars
      BY <2>1 DEF vars, ResultKnown
    <2> QED
      BY <2>1, ResultKnownStep
  <1>2. TypeOK /\ WakeupInv /\ ResultKnown /\ [Next]_vars => [Step]_vars
    BY WorkerFailsForCause
  <1> QED
    BY <1>1, <1>2, InitResult, InitWakeup, WakeupInvStep, TypeCorrect, PTL DEF Spec, FailsForCause

=============================================================================
