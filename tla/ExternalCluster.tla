--------------------------- MODULE ExternalCluster ---------------------------
(***************************************************************************)
(* The ExternalCluster controller: how one manager process of              *)
(* cluster-api-provider-external turns an imported ExternalCluster into    *)
(* Machine and ExternalMachine objects and reports it ready.               *)
(*                                                                         *)
(* The API server keeps the objects, the manager reads them through an     *)
(* informer cache that lags behind, a work queue holds the keys to         *)
(* reconcile, and a single worker (the controllers are built without       *)
(* MaxConcurrentReconciles, so it is 1) takes one key at a time through    *)
(* ExternalClusterReconciler.Reconcile, one API call per step.             *)
(*                                                                         *)
(* All objects live in one namespace.  A Cluster, its ExternalCluster and  *)
(* its kubeconfig Secret share the name of the Cluster, as the importer    *)
(* creates them; a Machine and an ExternalMachine carry the node's name.   *)
(***************************************************************************)
EXTENDS Naturals, FiniteSets

CONSTANTS
  Clusters,    \* names of the imported clusters
  NodesOf,     \* NodesOf[c]: the node names the external cluster c may have
  None,        \* no cluster, no node
  Resync,      \* whether --sync-period is set, so that informers resync
  MaxChanges,  \* bound: changes users and the environment make
  MaxFaults    \* bound: failed API calls and manager restarts

ASSUME NoneAssumption == None \notin Clusters
ASSUME NodesOfAssumption == \A c \in Clusters : None \notin NodesOf[c]
ASSUME ResyncAssumption == Resync \in BOOLEAN
ASSUME BoundsAssumption == MaxChanges \in Nat /\ MaxFaults \in Nat

VARIABLES
  clusters,     \* clusters[c]: the Cluster object
  ecs,          \* ecs[c]: the ExternalCluster object
  secrets,      \* secrets[c]: the Secret <c>-kubeconfig
  machines,     \* machines[n]: spec.clusterName of the Machine n, or None
  extMachines,  \* extMachines[n]: the cluster whose node gave the
                \* ExternalMachine n its providerID, or None
  nodes,        \* nodes[c]: the nodes the external cluster c has now
  access,       \* access[c]: what the API server of c lets the manager do
  seenClusters, \* the informer caches of the manager: the Clusters,
  seenEcs,      \* the ExternalClusters
  seenSecrets,  \* and the Secrets it last saw
  queue,        \* keys waiting in the work queue
  req,          \* the reconcile the worker is in
  changes,      \* changes made so far
  faults        \* faults so far

api == <<clusters, ecs, secrets, machines, extMachines>>
workload == <<nodes, access>>
cache == <<seenClusters, seenEcs, seenSecrets>>
vars == <<api, workload, cache, queue, req, changes, faults>>

NodeNames == UNION {NodesOf[c] : c \in Clusters}

-----------------------------------------------------------------------------
(* Objects.  A deleted object keeps its last content with exists = FALSE,   *)
(* which is what a delete event carries.                                    *)

\* The reasons reconcileNormal gives the Ready condition when it marks it false.
Reasons == {"KubeconfigSecretNotFound", "KubeconfigInvalid",
            "ClusterAccessFailed", "NodesListFailed"}

\* "deleting": deletionTimestamp set, finalizers of Cluster API still there.
Phases == {"live", "deleting", "gone"}

ClusterObjects == [phase : Phases, paused : BOOLEAN]

\* owned: has the ownerReference to its Cluster; paused: has the annotation;
\* ready: status.ready; cond: why the Ready condition is false ("none": absent).
EcObjects == [exists : BOOLEAN, owned : BOOLEAN, paused : BOOLEAN,
              ready : BOOLEAN, cond : Reasons \cup {"none"}]

\* value: data["value"] is missing, not a kubeconfig, or a good kubeconfig.
SecretObjects == [exists : BOOLEAN, owner : {"none", "cluster", "other"},
                  value : {"absent", "invalid", "valid"}]

NoSecret == [exists |-> FALSE, owner |-> "none", value |-> "absent"]

\* What users put there: never the controller reference of the Cluster.
UserSecrets == {s \in SecretObjects : s.exists /\ s.owner # "cluster"} \cup {NoSecret}

\* The Secret as the importer creates it, without an owner.
NewSecret == [exists |-> TRUE, owner |-> "none", value |-> "valid"]

\* "forbidden": namespaces can be listed but nodes cannot.
AccessStates == {"down", "forbidden", "up"}

\* An ExternalCluster as the importer creates it.
NewEc == [exists |-> TRUE, owned |-> FALSE, paused |-> FALSE,
          ready |-> FALSE, cond |-> "none"]

Steps == {"idle", "owner", "secret", "connect", "probe", "list",
          "machine", "external", "close"}

\* result: what reconcileNormal decided.  "error" is an error that marks no
\* condition, a reason an error that does, "ready" is the normal end.
Results == {"none", "error", "ready"} \cup Reasons

Requests == [step : Steps, key : Clusters \cup {None}, before : EcObjects,
             listed : SUBSET NodeNames, todo : SUBSET NodeNames,
             node : NodeNames \cup {None}, result : Results]

Idle == [step |-> "idle", key |-> None, before |-> NewEc, listed |-> {},
         todo |-> {}, node |-> None, result |-> "none"]

ApiTypeOK ==
  /\ clusters \in [Clusters -> ClusterObjects]
  /\ ecs \in [Clusters -> EcObjects]
  /\ secrets \in [Clusters -> SecretObjects]
  /\ machines \in [NodeNames -> Clusters \cup {None}]
  /\ extMachines \in [NodeNames -> Clusters \cup {None}]

WorkloadTypeOK ==
  /\ nodes \in [Clusters -> SUBSET NodeNames]
  /\ \A c \in Clusters : nodes[c] \subseteq NodesOf[c]
  /\ access \in [Clusters -> AccessStates]

CacheTypeOK ==
  /\ seenClusters \in [Clusters -> ClusterObjects]
  /\ seenEcs \in [Clusters -> EcObjects]
  /\ seenSecrets \in [Clusters -> SecretObjects]

TypeOK ==
  /\ ApiTypeOK
  /\ WorkloadTypeOK
  /\ CacheTypeOK
  /\ queue \subseteq Clusters
  /\ req \in Requests
  /\ req.step # "idle" => req.key \in Clusters
  /\ changes \in 0..MaxChanges
  /\ faults \in 0..MaxFaults

-----------------------------------------------------------------------------
(* Decisions of the code, each in an operator of its own.  Before some *)
(* of them stands a variant with a plausible bug ("Mutant"): no definition   *)
(* uses it, it is there to show that a property would notice that bug.       *)

\* reconcile.Result{} with an error puts the key back, without one it does not.
Finish(retry) ==
  /\ req' = Idle
  /\ queue' = IF retry THEN queue \cup {req.key} ELSE queue

\* Mutants: the error of Close is dropped, or hides that of reconcileNormal; every
\* reconcile is repeated.
RequeuesWithoutClose(result, patched) == result # "ready"
RequeuesCloseOnly(result, patched) == ~patched
RequeuesAlways(result, patched) == TRUE

\* Whether Reconcile, with the deferred Close, ends with an error.
Requeues(result, patched) == result # "ready" \/ ~patched

\* reconcileNormal returns; the deferred Close is next.
Return(result) == [req EXCEPT !.step = "close", !.result = result,
                              !.todo = {}, !.node = None]

\* Mutant: a return that slipped into the loop over the nodes.
NextNodeReturnsInLoop(left) ==
  IF left = {} \/ req.step = "external" THEN Return("ready")
  ELSE [req EXCEPT !.step = "machine", !.todo = left, !.node = None]

\* Mutant: the node that is done stays on the list.
NextNodeKeepsNode(left) ==
  IF left = {} THEN Return("ready")
  ELSE [req EXCEPT !.step = "machine", !.todo = left \cup @, !.node = None]

\* reconcileNormal goes on with the next of the nodes left, or is done.
NextNode(left) == IF left = {} THEN Return("ready")
                  ELSE [req EXCEPT !.step = "machine", !.todo = left, !.node = None]

\* Create of the object of node n, whose AlreadyExists error is ignored.
Claim(objects, n, c) == IF objects[n] = None THEN [objects EXCEPT ![n] = c]
                        ELSE objects

\* Mutant: an update without a resourceVersion.
SecretUpdateUnconditional(c) == secrets[c].exists

\* Update carries the resourceVersion of the Secret read from the cache.
SecretUpdateAccepted(c) == secrets[c] = seenSecrets[c]

\* Mutant: ready ExternalClusters are filtered out.
EcEventUnready(new) == ~new.paused /\ ~new.ready

\* Create and update events of an ExternalCluster that is not paused pass.
EcEventAccepted(new) == ~new.paused

\* Mutant: the event on which the Cluster is paused instead.
ClusterEventPaused(old, new) == ~old.paused /\ new.paused

\* An update event of a Cluster passes when it was unpaused.
ClusterEventAccepted(old, new) == old.paused /\ ~new.paused

\* Mutant: the annotation of the ExternalCluster is forgotten.
IsPausedCluster(cluster, ec) == cluster.paused

\* annotations.IsPaused of the Cluster and of the ExternalCluster as read.
IsPaused(cluster, ec) == cluster.paused \/ ec.paused

\* Mutants: any error becomes the reason; a reason is written only once.
WantedEcAnyError(ec, result) ==
  IF result = "ready" THEN [ec EXCEPT !.ready = TRUE] ELSE [ec EXCEPT !.cond = result]
WantedEcFirstReason(ec, result) ==
  IF result = "ready" THEN [ec EXCEPT !.ready = TRUE]
  ELSE IF result \in Reasons /\ ec.cond = "none" THEN [ec EXCEPT !.cond = result] ELSE ec

\* What Close writes: status.ready, or the Ready condition.
WantedEc(ec, result) ==
  IF result = "ready" THEN [ec EXCEPT !.ready = TRUE]
  ELSE IF result \in Reasons THEN [ec EXCEPT !.cond = result] ELSE ec

\* Mutant: ready, too, is patched with the resourceVersion of the cached object.
PatchAcceptedFresh(c, before, result) == ecs[c].exists /\ seenEcs[c] = ecs[c]

\* The patch of ready is a plain merge patch.  That of the condition is a
\* three-way merge onto the cached object and carries its resourceVersion.
PatchAccepted(c, before, result) ==
  /\ ecs[c].exists
  /\ result \in Reasons =>
       seenEcs[c] = ecs[c] /\ seenEcs[c].cond \in {before.cond, result}

Fault == faults < MaxFaults /\ faults' = faults + 1

-----------------------------------------------------------------------------
(* The worker.                                                              *)

\* Take a key and read the ExternalCluster from the cache.  If it does not
\* exist, or has no owner yet, the reconcile is over.
Start(c) ==
  /\ req.step = "idle"
  /\ c \in queue
  /\ queue' = queue \ {c}
  /\ req' = IF seenEcs[c].exists /\ seenEcs[c].owned
            THEN [Idle EXCEPT !.step = "owner", !.key = c, !.before = seenEcs[c]]
            ELSE Idle
  /\ UNCHANGED <<api, workload, cache, changes, faults>>

\* Read the owner Cluster from the cache.  Not found is an error that Close
\* does not follow; a paused or deleting Cluster is left alone.
ReadOwner ==
  LET cluster == seenClusters[req.key] IN
  /\ req.step = "owner"
  /\ IF cluster.phase = "live" /\ ~IsPaused(cluster, req.before)
     THEN req' = [req EXCEPT !.step = "secret"] /\ UNCHANGED queue
     ELSE Finish(cluster.phase = "gone")
  /\ UNCHANGED <<api, workload, cache, changes, faults>>

\* Read the kubeconfig Secret from the cache and make the Cluster its
\* controller if it has no owner.
ReadSecret ==
  LET c == req.key
      secret == seenSecrets[c]
      unowned == secret.owner = "none"
      Write == secrets' = [secrets EXCEPT ![c] = [secret EXCEPT !.owner = "cluster"]]
  IN
  /\ req.step = "secret"
  /\ \/ /\ ~secret.exists
        /\ req' = Return("KubeconfigSecretNotFound")
        /\ UNCHANGED <<secrets, faults>>
     \/ /\ secret.exists /\ secret.value = "absent"
        /\ req' = Return("error")
        /\ UNCHANGED <<secrets, faults>>
     \/ /\ secret.exists /\ secret.value # "absent"
        /\ IF unowned THEN SecretUpdateAccepted(c) /\ Write ELSE UNCHANGED secrets
        /\ req' = [req EXCEPT !.step = "connect"]
        /\ UNCHANGED faults
     \/ /\ secret.exists /\ secret.value # "absent" /\ unowned
        /\ ~SecretUpdateAccepted(c)
        /\ req' = Return("error")
        /\ UNCHANGED <<secrets, faults>>
     \/ /\ secret.exists /\ secret.value # "absent" /\ unowned
        /\ Fault
        /\ \/ SecretUpdateAccepted(c) /\ Write
           \/ UNCHANGED secrets
        /\ req' = Return("error")
  /\ UNCHANGED <<clusters, ecs, machines, extMachines, workload, cache, queue, changes>>

\* kubeconfig.FromSecret reads the Secret again; build a client from it.
Connect ==
  LET secret == seenSecrets[req.key] IN
  /\ req.step = "connect"
  /\ req' = IF ~secret.exists \/ secret.value = "absent"
            THEN Return("KubeconfigSecretNotFound")
            ELSE IF secret.value = "invalid" THEN Return("KubeconfigInvalid")
            ELSE [req EXCEPT !.step = "probe"]
  /\ UNCHANGED <<api, workload, cache, queue, changes, faults>>

\* List the namespaces of the external cluster.
Probe ==
  /\ req.step = "probe"
  /\ \/ /\ access[req.key] # "down"
        /\ req' = [req EXCEPT !.step = "list"]
        /\ UNCHANGED faults
     \/ /\ access[req.key] = "down"
        /\ req' = Return("ClusterAccessFailed")
        /\ UNCHANGED faults
     \/ Fault /\ req' = Return("ClusterAccessFailed")
  /\ UNCHANGED <<api, workload, cache, queue, changes>>

\* List its nodes.
ListNodes ==
  LET listed == nodes[req.key] IN
  /\ req.step = "list"
  /\ \/ /\ access[req.key] = "up"
        /\ req' = [NextNode(listed) EXCEPT !.listed = listed]
        /\ UNCHANGED faults
     \/ /\ access[req.key] # "up"
        /\ req' = Return("NodesListFailed")
        /\ UNCHANGED faults
     \/ Fault /\ req' = Return("NodesListFailed")
  /\ UNCHANGED <<api, workload, cache, queue, changes>>

\* Mutant: any error of the first Create is ignored, not only AlreadyExists.
CreateMachineIgnoringErrors(n) ==
  /\ req.step = "machine"
  /\ n \in req.todo
  /\ \/ machines' = Claim(machines, n, req.key) /\ UNCHANGED faults
     \/ Fault /\ UNCHANGED machines
  /\ req' = [req EXCEPT !.step = "external", !.node = n]
  /\ UNCHANGED <<clusters, ecs, secrets, extMachines, workload, cache, queue, changes>>

\* Mutant: a Machine that exists is taken to have its ExternalMachine.
CreateMachineSkipping(n) ==
  /\ req.step = "machine"
  /\ n \in req.todo
  /\ machines' = Claim(machines, n, req.key)
  /\ req' = IF machines[n] = None THEN [req EXCEPT !.step = "external", !.node = n]
            ELSE NextNode(req.todo \ {n})
  /\ UNCHANGED <<clusters, ecs, secrets, extMachines, workload, cache, queue, changes, faults>>

\* Mutant: AlreadyExists is an error like any other.
CreateMachineOnce(n) ==
  /\ req.step = "machine"
  /\ n \in req.todo
  /\ \/ /\ machines[n] = None
        /\ machines' = [machines EXCEPT ![n] = req.key]
        /\ req' = [req EXCEPT !.step = "external", !.node = n]
     \/ /\ machines[n] # None
        /\ req' = Return("error")
        /\ UNCHANGED machines
  /\ UNCHANGED <<clusters, ecs, secrets, extMachines, workload, cache, queue, changes, faults>>

\* Create the Machine of a node.  A failed call may still have taken effect.
CreateMachine(n) ==
  LET created == Claim(machines, n, req.key) IN
  /\ req.step = "machine"
  /\ n \in req.todo
  /\ \/ /\ machines' = created
        /\ req' = [req EXCEPT !.step = "external", !.node = n]
        /\ UNCHANGED faults
     \/ /\ Fault
        /\ machines' \in {machines, created}
        /\ req' = Return("error")
  /\ UNCHANGED <<clusters, ecs, secrets, extMachines, workload, cache, queue, changes>>

\* Create its ExternalMachine and go on with the next node.
CreateExternalMachine ==
  LET created == Claim(extMachines, req.node, req.key) IN
  /\ req.step = "external"
  /\ \/ /\ extMachines' = created
        /\ req' = NextNode(req.todo \ {req.node})
        /\ UNCHANGED faults
     \/ /\ Fault
        /\ extMachines' \in {extMachines, created}
        /\ req' = Return("error")
  /\ UNCHANGED <<clusters, ecs, secrets, machines, workload, cache, queue, changes>>

\* The deferred Close patches what the reconcile changed, if anything, and
\* the key goes back to the queue when the reconcile or the patch failed.
Close ==
  LET c == req.key
      dirty == WantedEc(req.before, req.result) # req.before
      accepted == PatchAccepted(c, req.before, req.result)
      Write == ecs' = [ecs EXCEPT ![c] = WantedEc(@, req.result)]
  IN
  /\ req.step = "close"
  /\ \/ /\ ~dirty
        /\ Finish(Requeues(req.result, TRUE))
        /\ UNCHANGED <<ecs, faults>>
     \/ /\ dirty /\ accepted
        /\ Write
        /\ Finish(Requeues(req.result, TRUE))
        /\ UNCHANGED faults
     \/ /\ dirty /\ ~accepted
        /\ Finish(Requeues(req.result, FALSE))
        /\ UNCHANGED <<ecs, faults>>
     \/ /\ dirty /\ Fault
        /\ (accepted /\ Write) \/ UNCHANGED ecs
        /\ Finish(Requeues(req.result, FALSE))
  /\ UNCHANGED <<clusters, secrets, machines, extMachines, workload, cache, changes>>

-----------------------------------------------------------------------------
(* The manager's informers.  A watch may deliver several changes as one.    *)

Enqueue(c, wanted) == queue' = IF wanted THEN queue \cup {c} ELSE queue

DeliverEc(c) ==
  /\ seenEcs[c] # ecs[c]
  /\ seenEcs' = [seenEcs EXCEPT ![c] = ecs[c]]
  /\ Enqueue(c, EcEventAccepted(ecs[c]))
  /\ UNCHANGED <<api, workload, seenClusters, seenSecrets, req, changes, faults>>

DeliverCluster(c) ==
  /\ seenClusters[c] # clusters[c]
  /\ seenClusters' = [seenClusters EXCEPT ![c] = clusters[c]]
  /\ Enqueue(c, /\ clusters[c].phase # "gone"
                /\ ClusterEventAccepted(seenClusters[c], clusters[c]))
  /\ UNCHANGED <<api, workload, seenEcs, seenSecrets, req, changes, faults>>

\* No controller watches Secrets: only the cache changes.
DeliverSecret(c) ==
  /\ seenSecrets[c] # secrets[c]
  /\ seenSecrets' = [seenSecrets EXCEPT ![c] = secrets[c]]
  /\ UNCHANGED <<api, workload, seenClusters, seenEcs, queue, req, changes, faults>>

\* Every --sync-period the informer repeats an update event per cached object.
ResyncEc(c) ==
  /\ Resync
  /\ c \notin queue
  /\ seenEcs[c].exists
  /\ EcEventAccepted(seenEcs[c])
  /\ queue' = queue \cup {c}
  /\ UNCHANGED <<api, workload, cache, req, changes, faults>>

\* The manager dies and starts again: the reconcile is lost where it was, the
\* caches are filled anew, and a create event per object passes the predicates.
Restart ==
  /\ Fault
  /\ seenClusters' = clusters
  /\ seenEcs' = ecs
  /\ seenSecrets' = secrets
  /\ queue' = {c \in Clusters :
                 \/ ecs[c].exists /\ EcEventAccepted(ecs[c])
                 \/ clusters[c].phase # "gone" /\ ~clusters[c].paused}
  /\ req' = Idle
  /\ UNCHANGED <<api, workload, changes>>

-----------------------------------------------------------------------------
(* Cluster API, users and the external clusters.                            *)

Change == changes < MaxChanges /\ changes' = changes + 1

\* Cluster API makes the Cluster the owner of its ExternalCluster.
SetOwner(c) ==
  /\ clusters[c].phase = "live" /\ ~IsPaused(clusters[c], ecs[c])
  /\ ecs[c].exists /\ ~ecs[c].owned
  /\ ecs' = [ecs EXCEPT ![c].owned = TRUE]
  /\ UNCHANGED <<clusters, secrets, machines, extMachines, workload, cache,
                 queue, req, changes, faults>>

PauseCluster(c) ==
  /\ Change
  /\ clusters[c].phase # "gone"
  /\ clusters' = [clusters EXCEPT ![c].paused = ~@]
  /\ UNCHANGED <<ecs, secrets, machines, extMachines, workload, cache, queue, req, faults>>

PauseEc(c) ==
  /\ Change
  /\ ecs[c].exists
  /\ ecs' = [ecs EXCEPT ![c].paused = ~@]
  /\ UNCHANGED <<clusters, secrets, machines, extMachines, workload, cache, queue, req, faults>>

DeleteCluster(c) ==
  /\ Change
  /\ clusters[c].phase = "live"
  /\ clusters' = [clusters EXCEPT ![c].phase = "deleting"]
  /\ UNCHANGED <<ecs, secrets, machines, extMachines, workload, cache, queue, req, faults>>

\* Cluster API takes a deleting Cluster apart: of each of its Machines the
\* ExternalMachine first, then the ExternalCluster, then the Cluster, whose
\* Secret the garbage collector removes.
Deleting(c) == clusters[c].phase = "deleting" /\ ~clusters[c].paused

RemoveExternalMachine(n) ==
  /\ machines[n] # None /\ Deleting(machines[n])
  /\ extMachines[n] # None
  /\ extMachines' = [extMachines EXCEPT ![n] = None]
  /\ UNCHANGED <<clusters, ecs, secrets, machines, workload, cache, queue, req, changes, faults>>

RemoveMachine(n) ==
  /\ machines[n] # None /\ Deleting(machines[n])
  /\ extMachines[n] = None
  /\ machines' = [machines EXCEPT ![n] = None]
  /\ UNCHANGED <<clusters, ecs, secrets, extMachines, workload, cache, queue, req, changes, faults>>

RemoveEc(c) ==
  /\ Deleting(c)
  /\ \A n \in NodeNames : machines[n] # c
  /\ ecs[c].exists
  /\ ecs' = [ecs EXCEPT ![c].exists = FALSE]
  /\ UNCHANGED <<clusters, secrets, machines, extMachines, workload, cache, queue, req, changes, faults>>

RemoveCluster(c) ==
  /\ Deleting(c)
  /\ ~ecs[c].exists
  /\ clusters' = [clusters EXCEPT ![c].phase = "gone"]
  /\ secrets' = IF secrets[c].owner = "cluster" THEN [secrets EXCEPT ![c] = NoSecret] ELSE secrets
  /\ UNCHANGED <<ecs, machines, extMachines, workload, cache, queue, req, changes, faults>>

SetSecret(c) ==
  /\ Change
  /\ \E s \in UserSecrets \ {secrets[c]} : secrets' = [secrets EXCEPT ![c] = s]
  /\ UNCHANGED <<clusters, ecs, machines, extMachines, workload, cache, queue, req, faults>>

SetAccess(c) ==
  /\ Change
  /\ \E a \in AccessStates \ {access[c]} : access' = [access EXCEPT ![c] = a]
  /\ UNCHANGED <<api, nodes, cache, queue, req, faults>>

NodeJoins(c) ==
  /\ Change
  /\ \E n \in NodesOf[c] \ nodes[c] : nodes' = [nodes EXCEPT ![c] = @ \cup {n}]
  /\ UNCHANGED <<api, access, cache, queue, req, faults>>

NodeLeaves(c) ==
  /\ Change
  /\ \E n \in nodes[c] : nodes' = [nodes EXCEPT ![c] = @ \ {n}]
  /\ UNCHANGED <<api, access, cache, queue, req, faults>>

-----------------------------------------------------------------------------
\* The importer has created the Clusters and ExternalClusters, and the Secrets
\* too or not yet; the manager's caches are filled and every create event passed.
Init ==
  /\ clusters = [c \in Clusters |-> [phase |-> "live", paused |-> FALSE]]
  /\ ecs = [c \in Clusters |-> NewEc]
  /\ secrets \in [Clusters -> {NoSecret, NewSecret}]
  /\ machines = [n \in NodeNames |-> None]
  /\ extMachines = [n \in NodeNames |-> None]
  /\ nodes \in [Clusters -> SUBSET NodeNames]
  /\ \A c \in Clusters : nodes[c] \subseteq NodesOf[c]
  /\ access = [c \in Clusters |-> "up"]
  /\ seenClusters = clusters
  /\ seenEcs = ecs
  /\ seenSecrets = secrets
  /\ queue = Clusters
  /\ req = Idle
  /\ changes = 0
  /\ faults = 0

Worker ==
  \/ \E c \in Clusters : Start(c)
  \/ ReadOwner
  \/ ReadSecret
  \/ Connect
  \/ Probe
  \/ ListNodes
  \/ \E n \in NodeNames : CreateMachine(n)
  \/ CreateExternalMachine
  \/ Close

Informers ==
  \E c \in Clusters : DeliverEc(c) \/ DeliverCluster(c) \/ DeliverSecret(c) \/ ResyncEc(c)

Environment ==
  \/ \E c \in Clusters :
       \/ SetOwner(c) \/ PauseCluster(c) \/ PauseEc(c)
       \/ DeleteCluster(c) \/ RemoveEc(c) \/ RemoveCluster(c)
       \/ SetSecret(c) \/ SetAccess(c) \/ NodeJoins(c) \/ NodeLeaves(c)
  \/ \E n \in NodeNames : RemoveExternalMachine(n) \/ RemoveMachine(n)

Next == Worker \/ Informers \/ Restart \/ Environment

\* The work queue is first in, first out, so no key waits for ever; the worker
\* goes on with what it started, watches deliver, and informers resync.  Nobody
\* else has to do anything.
Fairness ==
  /\ \A c \in Clusters : SF_vars(Start(c))
  /\ WF_vars(req.step # "idle" /\ Worker)
  /\ \A c \in Clusters : /\ WF_vars(DeliverEc(c))
                         /\ WF_vars(DeliverCluster(c))
                         /\ WF_vars(DeliverSecret(c))
                         /\ WF_vars(ResyncEc(c))

Spec == Init /\ [][Next]_vars /\ Fairness

-----------------------------------------------------------------------------
(* Properties.                                                              *)

Active(c) == req.step # "idle" /\ req.key = c

\* By what the manager has seen, Reconcile would go beyond its early returns.
SeenWanted(c) ==
  /\ seenEcs[c].exists /\ seenEcs[c].owned /\ ~seenEcs[c].paused
  /\ seenClusters[c].phase = "live" /\ ~seenClusters[c].paused

\* No wake-up is lost: an ExternalCluster that the manager has to reconcile by
\* all it has seen is ready, queued or being reconciled.  It is at stake where
\* Reconcile ends without an error (lines 82-102), in what the two watches let
\* through (51-66), and in the error of Close (115-120).
NoLostWakeup ==
  \A c \in Clusters : SeenWanted(c) => ecs[c].ready \/ c \in queue \/ Active(c)

\* The Update that makes the Cluster the controller of its Secret (149-160)
\* writes back a cached copy: it never undoes a newer change of a user, and
\* never takes the Secret of another owner.
SecretNotClobbered ==
  [][\A c \in Clusters :
       secrets'[c].owner = "cluster" /\ secrets[c].owner # "cluster" =>
         secrets[c].exists /\ secrets'[c] = [secrets[c] EXCEPT !.owner = "cluster"]]_vars

\* A Machine or ExternalMachine never passes from one cluster to another, even
\* when nodes of two clusters have the same name: Create leaves what exists
\* alone (196-204), and an object is only ever removed.
NeverStolen ==
  [][\A n \in NodeNames :
       /\ machines'[n] # machines[n] => None \in {machines[n], machines'[n]}
       /\ extMachines'[n] # extMachines[n] => None \in {extMachines[n], extMachines'[n]}]_vars

\* The inventory is complete when status.ready is written (192-209): each node
\* listed has a Machine and an ExternalMachine of this very cluster, unless the
\* cluster is already being deleted.
ReadyCoversNodes ==
  \A c \in Clusters :
    (Active(c) /\ req.step = "close" /\ req.result = "ready" /\ clusters[c].phase = "live") =>
      \A n \in req.listed : machines[n] = c /\ extMachines[n] = c

\* An ExternalMachine comes after its Machine (197-204) and goes before it, so
\* one without a Machine can only be left over from a cluster being deleted.
NoOrphanExternalMachine ==
  \A n \in NodeNames :
    extMachines[n] # None /\ clusters[extMachines[n]].phase = "live" => machines[n] = extMachines[n]

\* What ready promises lasts (192-209): a node that is there all along, from
\* before the first reconcile, keeps both objects as long as its cluster is ready
\* and not being deleted, through every later reconcile, failure and restart.
NodesStayCovered ==
  \A c \in Clusters : \A n \in NodesOf[c] :
    [](n \in nodes[c]) =>
      [](ecs[c].ready /\ clusters[c].phase = "live" => machines[n] = c /\ extMachines[n] = c)

-----------------------------------------------------------------------------
(* The abstract specification: what becomes of the objects of the nodes.    *)

LiveClusters == {c \in Clusters : clusters[c].phase = "live"}

Inventory == INSTANCE NodeInventory
  WITH Names <- NodeNames,
       live <- LiveClusters,
       machineOf <- machines,
       externalOf <- extMachines

\* Whatever fails in the loop over the nodes (192-205), and however its in-flight
\* calls meet the removal of the cluster, the controller keeps the inventory.
KeepsInventory == Inventory!Spec

-----------------------------------------------------------------------------
(* Liveness.                                                                *)

\* What Reconcile needs to go beyond its early returns, as the API server has it.
Wanted(c) ==
  /\ ecs[c].exists /\ ecs[c].owned /\ ~ecs[c].paused
  /\ clusters[c].phase = "live" /\ ~clusters[c].paused

Healthy(c) ==
  Wanted(c) /\ secrets[c].exists /\ secrets[c].value = "valid" /\ access[c] = "up"

\* What is wrong with the Secret or the external cluster, in the order in
\* which reconcileNormal finds out.
Trouble(c) ==
  IF ~secrets[c].exists THEN "KubeconfigSecretNotFound"
  ELSE IF secrets[c].value = "absent" THEN "error"
  ELSE IF secrets[c].value = "invalid" THEN "KubeconfigInvalid"
  ELSE IF access[c] = "down" THEN "ClusterAccessFailed"
  ELSE IF access[c] = "forbidden" THEN "NodesListFailed" ELSE "none"

\* How many more steps the reconcile r can take: two for each node that is left
\* or, before they are listed, that the cluster may have.
StepsLeft(r) ==
  LET after == [idle |-> 0, owner |-> 6, secret |-> 5, connect |-> 4, probe |-> 3,
                list |-> 2, machine |-> 1, external |-> 0, close |-> 1]
      left == IF r.step \in {"idle", "close"} THEN {}
              ELSE IF r.step \in {"machine", "external"} THEN r.todo
              ELSE NodesOf[r.key]
  IN after[r.step] + 2 * Cardinality(left)

\* No reconcile goes on for ever (77-211): each of its steps, whatever the other
\* actors do in between, and a restart all the more, brings it nearer to its end.
ReconcileEnds ==
  [][req.step # "idle" /\ (Worker \/ req' # req) => StepsLeft(req') < StepsLeft(req)]_vars

\* The cache has the Secret as it is.  Only its owner may be newer once the
\* reconcile has set it.
SecretSeen(c) ==
  /\ [seenSecrets[c] EXCEPT !.owner = secrets[c].owner] = secrets[c]
  /\ req.step = "secret" => seenSecrets[c] = secrets[c]

\* A reconcile past its early returns fails for a cause only (134-209): something is
\* wrong with the cluster, a call fails, or the Secret is stale in the cache.  That
\* the ExternalCluster is stale there does not keep ready from being written, and
\* when it has been written before the end is no failure either.
FailsForCause ==
  [][\A c \in Clusters :
       /\ Active(c) /\ req.step # "owner" /\ req.result \in {"none", "ready"}
       /\ Worker /\ UNCHANGED faults
       /\ Healthy(c) /\ SecretSeen(c)
       => \/ Active(c)' /\ req'.result \in {"none", "ready"}
          \/ ecs'[c].ready /\ UNCHANGED queue]_vars

\* Without any resync, an ExternalCluster becomes ready once everything it
\* needs stays in order, whatever failed or was late before (77-127).
EventuallyReady == \A c \in Clusters : <>[]Healthy(c) => <>ecs[c].ready

\* The controller comes to rest: its own patches do not keep it busy for ever,
\* when nothing is wrong and no resync wakes it (115-120, 208-210).
ComesToRest ==
  \A c \in Clusters : <>[]Healthy(c) => <>[](c \notin queue /\ ~Active(c))

\* Nothing will make the manager reconcile c: its caches have caught up, and
\* neither the queue nor the worker has c.
AtRest(c) ==
  /\ seenEcs[c] = ecs[c] /\ seenClusters[c] = clusters[c]
  /\ c \notin queue /\ ~Active(c)

\* The controller rests only when it is done (82-127, 192-209): a node that is there
\* all along has its objects whenever no reconcile of its cluster is due any more,
\* unless the cluster is paused, has no owner or is being deleted.
RestsWhenDone ==
  \A c \in Clusters : \A n \in NodesOf[c] :
    [](n \in nodes[c]) =>
      [](AtRest(c) /\ Wanted(c) => machines[n] = c /\ extMachines[n] = c)

\* With resyncs, each node of a cluster in order gets its two objects, those
\* that join after the cluster became ready too (192-205).
NodesGetMachines ==
  \A c \in Clusters : \A n \in NodesOf[c] :
    <>[](Healthy(c) /\ n \in nodes[c]) => <>[](machines[n] # None /\ extMachines[n] # None)

\* With resyncs, what keeps going wrong ends up as the reason of the Ready
\* condition and stays there, although the cluster was ready before (136-190)
\* and although a patch can conflict with the cache.
TroubleReported ==
  \A c \in Clusters : \A r \in Reasons :
    <>[](Wanted(c) /\ Trouble(c) = r) => <>[](ecs[c].cond = r)

\* A paused Cluster or ExternalCluster is in the end left alone (99-102).
PausedIsLeftAlone ==
  \A c \in Clusters :
    <>[](clusters[c].paused \/ ecs[c].paused) =>
      <>[](Active(c) => req.step = "owner")

-----------------------------------------------------------------------------
(* What the repository says of the controller and the code does not do.     *)

\* "ExternalClusterStatus defines the observed state of ExternalCluster"
\* (externalcluster_types.go:33): an external cluster that is out of reach for
\* good does not stay "ready for External instances" (69), and once all is well
\* for good, no condition, "current service state" (49), reports a failure.  The
\* code never sets status.ready back (208-209) and has no MarkTrue.
StatusIsCurrent ==
  \A c \in Clusters :
    /\ <>[](Wanted(c) /\ access[c] = "down") => <>[]~ecs[c].ready
    /\ <>[]Healthy(c) => <>[](ecs[c].cond = "none")

\* "ClusterFinalizer allows ReconcileExternalCluster to clean up External
\* resources associated with ExternalCluster before removing it" (33-34): none of
\* its Machines is left when it is gone.  The finalizer is never added (131-132).
CleanedUpBeforeRemoval ==
  \A c \in Clusters : ~ecs[c].exists => \A n \in NodeNames : machines[n] # c

=============================================================================
