# Verification of cluster-api-provider-external

TLA+ models of the provider, TLC configurations that check them on small
instances, and theorems that TLAPS proves for every value of the constants.
File and line references are to `src/`.

Run TLC with `tlc -workers 2 -config ExternalCluster_inventory.cfg MCExternalCluster.tla`
and so on, and TLAPS with `tlapm ExternalClusterProofs.tla`.

## 1. The system

The provider lets Cluster API (CAPI) show clusters that it did not create.
`cape import` writes four objects per external cluster into a management
cluster; `cape run` is a controller manager that reads the nodes of each
external cluster and reflects them as Machine and ExternalMachine objects.
All communication goes through the API server of the management cluster.

| Part | State it keeps | Operations | Interacts through |
| --- | --- | --- | --- |
| Importer (`pkg/cape/import.go`) | none; position in two loops | create Cluster, ExternalCluster, ExternalControlPlane, Secret; list qbert clusters, fetch kubeconfigs | Create calls; errors returned, logged or turned into a panic |
| Import command (`pkg/cmd/import.go`) | options | Complete, Validate, Run, which takes the host and port from the kubeconfig | calls the importer |
| Manager (`pkg/cmd/run.go`) | informer caches, work queues, leader lease | start three controllers, resync every 10 minutes, elect a leader if asked to | watches |
| ExternalCluster controller (`controllers/externalcluster_controller.go`, `pkg/scope/cluster.go`) | `status.ready`, `status.conditions`, owner of the Secret, Machines, ExternalMachines | Reconcile, reconcileNormal, reconcileDelete (empty), Close | cached reads, API writes, calls to the external cluster |
| ExternalControlPlane controller (`controllers/externalcontrolplane_controller.go`, `pkg/scope/controlplane.go`) | `status.ready`, `status.initialized` | Reconcile, reconcileNormal, reconcileDelete (empty), Close | cached reads of itself and the Cluster, one patch |
| ExternalMachine controller (`controllers/externalmachine_controller.go`, `pkg/scope/machine.go`) | `status.ready` | the same | cached reads of itself, its Machine and the Cluster, one patch |
| Around it (external) | owner references, deletion, garbage collection, nodes, access | CAPI, users, external clusters | objects and events |

What is hard: reads come from a cache that lags behind writes, and from several
informers without an order between them; Reconcile often ends with neither an
error nor a requeue and trusts a later event, which a predicate may drop; every
call of the loop over the nodes can fail, or fail and yet take effect; the
process can die between any two calls; CAPI takes a cluster, or users a Machine,
apart while a reconcile is in flight; two clusters may have nodes of the same
name; two managers may be active, as no leader is elected unless
`--leader-elect` is given; several imports may run at once and none can be
undone or repeated.

What makes the parts correct:

* Importer: a name belongs to one import, from its Cluster on; success means
  complete; runs never start over, and end.
* Import command: what is registered is where the API server is (not modelled, see
  section 5).
* ExternalCluster: no wake-up lost; complete inventory when ready; objects come
  in pairs and stay, so that what was reported lasts; no object stolen; no user's
  change to the Secret undone; a reconcile ends, and fails for a cause only;
  healthy becomes ready; lasting trouble is reported; paused is left alone; the
  controller rests, and only when it is done.
* ExternalControlPlane: no wake-up lost; what has its owner and an API server that
  serves becomes ready by events alone, and nothing else does; paused is left alone.
* ExternalMachine: it is not ready before its Machine is adopted; every node ends
  up with an adopted Machine and a ready ExternalMachine, and by which events;
  paused is left alone.
* Manager: two active managers do no harm to any of this.

## 2. The modules

| Module | Content |
| --- | --- |
| `NodeInventory` | abstract specification of what becomes of the objects of nodes |
| `ExternalCluster` | the ExternalCluster controller with its caches, queue and environment, and the refinement mapping to `NodeInventory` |
| `MCExternalCluster` | its instances for TLC |
| `ExternalClusterProofs` | its theorems on types, wake-ups, the Secret and the inventory, the refinement among them |
| `ReconcileProofs` | how a reconcile ends: after finitely many steps, and with a failure only for a cause |
| `CoverageProofs` | that the objects of a node that is there all along stay, and that a manager rests only when it is done |
| `CollisionProofs` | what of this is left when clusters have node names in common |
| `Managers` | two managers on the same objects: two instances of `ExternalCluster` |
| `MCManagers` | its instance for TLC |
| `ManagersProofs` | its theorems |
| `OwnerCluster` | what the two other controllers share: the Cluster, its cached copy, faults |
| `ExternalControlPlane` | the ExternalControlPlane controller |
| `ExternalMachine` | the ExternalMachine controller, the loop that creates its objects, and CAPI's machine controller |
| `Readiness` | the two composed in one manager |
| `MCReadiness` | its instances for TLC |
| `ReadinessProofs` | its theorems |
| `NameClaim` | abstract specification of importing |
| `ClusterImport` | `cape import`, with the refinement mapping to `NameClaim` |
| `MCClusterImport` | its instances for TLC |
| `ClusterImportProofs` | its theorems, the refinement among them |

### ExternalCluster

One manager process, one namespace, one worker: the controllers are built
without `MaxConcurrentReconciles`, so at most one key is reconciled at a time.

`clusters`, `ecs`, `secrets`, `machines`, `extMachines` are the API server;
`nodes` and `access` the external clusters; `seenClusters`, `seenEcs`,
`seenSecrets` the informer caches, `queue` the work queue; `req` the local
variables of the reconcile in progress: `step` is the next call, `before` the
ExternalCluster as it was read (the patch helper's copy), `listed` and `todo`
the nodes, `result` what reconcileNormal decided.

| Action | Code |
| --- | --- |
| `Start` | take a key; Get of the ExternalCluster, owner missing (77-97) |
| `ReadOwner` | GetOwnerCluster, paused, scope, reconcileDelete (90-126) |
| `ReadSecret` | Get of the Secret, its value, owner and Update (134-160) |
| `Connect` | FromSecret, which reads the Secret again, and the client (162-176) |
| `Probe`, `ListNodes` | Namespaces().List (179), Nodes().List (186) |
| `CreateMachine`, `CreateExternalMachine` | the loop (193-205), and `ready` (209) |
| `Close` | the deferred Close and the result (115-120; `scope/cluster.go:78-80`) |
| `DeliverEc`, `DeliverCluster`, `DeliverSecret` | watches, with the predicates of 51-66 |
| `ResyncEc` | `--sync-period` (`run.go:79,142`) |
| `Restart` | the manager dies and starts again (`run.go:107-188`) |
| `SetOwner` ... `NodeLeaves` | CAPI, users, external clusters (external code) |

A call is one step. A write that fails may have taken effect, and `Fault`
counts failures and restarts. How an object is written back matters and is
modelled: the Update of the Secret carries the resourceVersion of the cached
copy (`SecretUpdateAccepted`), the patch of `status.ready` is a plain merge
patch, and the patch of a condition is CAPI's three-way merge onto the cached
object with its resourceVersion, and so can conflict (`PatchAccepted`); that
CAPI tries it a few times before it gives up is the same as trying it later.

Abstractions, each deliberate:

* A resourceVersion is the content: a copy is current when it equals the
  object. An object that changes and changes back would be refused by the real
  server and is accepted here, which only writes the same content again.
* A watch delivers the newest state; several changes may arrive as one. An
  event for each change in between is left out, except that the informer may
  deliver at any point, so every sequence of single deliveries is there too.
* The queue is a set: client-go's work queue drops duplicates and holds back a
  key that is in progress, and with one worker the order is left open.
  Back-off and rate limiting are left out, they are only delays.
* Two failures with the same reason give the same condition. Message and
  transition time can differ in the code, which makes it patch once more.
* The nodes are taken in any order. Versions and addresses of nodes, which no
  reconcile updates once a Machine is there, are left out.
* CAPI deletes of each Machine the ExternalMachine first, and the
  ExternalCluster when no Machine is left, as its controllers do. Users who
  delete single Machines are in `ExternalMachine`.

Under the mapping to `NodeInventory` a cluster is live while its Cluster is not
being deleted. Create of a Machine registers it, Create of an ExternalMachine
completes it, CAPI drops both, and everything else stutters. Only an in-flight
reconcile of a cluster that has ended may register beside an ExternalMachine or
complete without a Machine.

### Managers

Each manager has caches, a queue and a worker of its own and is an instance of
`ExternalCluster`; the API server and the external clusters are common. A step
is one of a manager, or of the world around, which belongs to neither. Leader
election would only take behaviours away: a manager that waits for the lease
(`run.go:133-142`) does nothing, and one that takes over starts with fresh
caches, as after `Restart`. The instances are of `CoverageProofs`, so that
`ManagersProofs` can cite the lemmas about one manager of either.

### ExternalControlPlane and ExternalMachine

Both controllers read their object, its owners and the paused annotation, and
then mark the object ready unconditionally. `cp` and `exts` are the objects,
`cpReq` and `extReq` the reconciles in progress, as in `ExternalCluster`.
`serving` says whether the API server of the external cluster receives requests;
no action of the controller reads it, as no line of its code looks at it.

| Action | Code (`externalcontrolplane_controller.go`) |
| --- | --- |
| `CpStart` | take the key; Get of the object, owner missing (68-85) |
| `CpOwner` | the Cluster, paused, scope, reconcileDelete (77-114) |
| `CpClose` | reconcileNormal and the deferred Close (103-124; `scope/controlplane.go`) |
| `DeliverCp`, `CpClusterEvent` | the two watches, their predicates, the mapping (36-62, 131-145) |
| `ResyncCp`, `CpRestart` | `run.go:142`, `run.go:107-188` |
| `OwnCp`, `PauseCp`, `RemoveCp`, `RemoveCluster` | CAPI and users (external) |
| `SetServing` | the external cluster (external) |

| Action | Code (`externalmachine_controller.go`) |
| --- | --- |
| `ExtStart` | take a key; Get of the object, owner missing (55-76) |
| `ExtMachine` | GetOwnerMachine, its owner Cluster missing (68-86) |
| `ExtCluster` | the Cluster, paused, scope, reconcileDelete (78-111) |
| `ExtClose` | reconcileNormal and the deferred Close (103-131; `scope/machine.go`) |
| `DeliverExt`, `DeliverMachine` | the two watches and their predicates (28-48) |
| `ResyncExt`, `ExtRestart` | `run.go:142`, `run.go:107-188` |
| `StartLoop`, `LoopMachine`, `LoopExternal` | `externalcluster_controller.go:192-205` |
| `AdoptMachine` ... `RemoveMachine`, `PauseExt` | CAPI's machine controller and users (external) |

Abstractions beside those of `ExternalCluster`:

* The Cluster is deleted, paused and infrastructure-ready on its own account:
  `InfrastructureReady` may come at any time, whatever the ExternalCluster is.
* CAPI's machine controller patches the owner of the ExternalMachine before the
  Machine that it has adopted is persisted. Either order is in the model.
* An ExternalMachine that was removed and created again with the same content
  delivers no event, which only takes wake-ups away. What a delete event
  carries is not modelled: the reconcile it causes finds nothing.
* "stripped" is a Machine whose ExternalMachine CAPI has seen to be gone, and
  that keeps its finalizer for one more step, in which the loop may create the
  ExternalMachine anew.
* A deleted Machine that was never adopted is treated like one that was, when its
  Cluster is gone; nothing depends on the difference.
* CAPI's webhook fills in the namespaces of references, so the mapping from
  Clusters to control planes (131-145) finds the object.

### ClusterImport

`runs[r]` is an invocation: `StartSingle` and `StartQbert` are Run up to the
importer, `NextQbertCluster` one iteration of the loop over qbert clusters
(111-122), `Create` one iteration of the loop over the four resources (77-83),
`Kill` the end of the process at any point, `CleanUp` a user who removes what
is left. `objects[m][k]` says for each name and resource which invocation
created it for which external cluster. `Create` fails when the object exists,
or for another reason, in which case it may have taken effect. `CleanUp` waits
until no invocation is at that name: nothing in the code protects an import
against a clean-up in the middle, and no property claims that it does. It also
removes all four objects: `OneImport`, `NoGaps`, `ClaimIsExclusive` and
`ClaimsNames` hold for complete clean-ups only. A user who deletes just the
Cluster, or lets CAPI do it, can leave the Secret behind; the next import of the
name then creates three objects beside it and stops at the fourth.

`NameClaim` has an owner per name and whether it is complete. Under the mapping
the Cluster object is the claim, and a name is complete when all four objects
are of the same invocation and external cluster as that Cluster.

Of the command (`cmd/import.go`) the model has the outcome of Validate and Run,
which start an import, give up or panic. Which flag was wrong is one outcome; it
includes that `--qbert` without `--kubeconfig` passes Validate (75) and fails in
Run (103). The host and port are left out.

## 3. What TLC checks

Passing runs:

| Run | Instance | Properties |
| --- | --- | --- |
| `inventory` | 1 cluster, 0 to 2 nodes, resync, 2 changes, 1 fault | `TypeOK`, `NoLostWakeup`, `ReadyCoversNodes`, `NoOrphanExternalMachine`, `SecretNotClobbered`, `KeepsInventory`, `ReconcileEnds`, `FailsForCause` |
| `wakeups` | 1 cluster, 0 or 1 node, no resync, 2 changes, 1 fault | `RestsWhenDone`, `EventuallyReady`, `ComesToRest`, `PausedIsLeftAlone` |
| `resync` | 1 cluster, 0 or 1 node, resync, 1 change, 2 faults | `NodesStayCovered`, `NodesGetMachines`, `TroubleReported` |
| `managers` | 2 managers, 1 cluster, 0 or 1 node, 1 change or fault | `NoLostWakeup`, `ReadyCoversNodes`, `NoOrphanExternalMachine`, `SecretNotClobbered`, `KeepsInventory`, `NodesStayCovered`, `FailsForCause` |
| `readiness` | 1 control plane, 3 changes and 2 faults; or 1 node, 2 changes or faults; resync | `TypeOK`, `CpNoLostWakeup`, `ReadyMeansAdopted`, `CpEventuallyReady`, `NodesBecomeReady`, `PausedIsLeftAlone` |
| `imports` | 2 single imports and one from qbert, 3 clusters, 2 names, 1 fault | `TypeOK`, `OneImport`, `NoGaps`, `ClaimIsExclusive`, `SuccessMeansImported`, `RunAdvances`, `ClaimsNames`, `EveryRunEnds` |

What they say:

* `NoLostWakeup`: Reconcile has five ends without an error. None of them, nor a
  failed Close, nor an unfavourable order of the two informers, nor a second
  manager, loses an ExternalCluster that the manager should reconcile by all it
  has seen.
* `ReadyCoversNodes`: failures in the middle of the loop, objects left from
  before, restarts and another manager's loop never make a cluster ready with a
  node uncovered, as long as node names do not collide.
* `KeepsInventory`: the controller, and two of them together, implement
  `NodeInventory`: each Create and each removal is a step that the abstract
  inventory allows at that moment. `NoOrphanExternalMachine` is what a reader
  of the objects sees of it.
* `NodesStayCovered`: what ready says of a node that is there all along stays true,
  through later reconciles that fail half-way, restarts and a second manager.
* `ReconcileEnds`: every step of a reconcile brings its end nearer. That the
  controller is not woken again and again is `ComesToRest`. `FailsForCause`: a reconcile of a cluster in order
  succeeds unless a call fails or the Secret is stale in the cache; objects left
  by earlier reconciles or by another manager, a stale ExternalCluster, or ready
  having been written by somebody else are no reason to fail.
* `RestsWhenDone`: when the caches have caught up and neither queue nor worker has
  the key, there is nothing left to do for a node that is there all along.
* `SecretNotClobbered`: with a stale cache the Update is refused, so that a
  user's replacement or another owner survives.
* `EventuallyReady`: without any resync, events and retries are enough for an
  ExternalCluster whose surroundings stay in order to become ready, also when
  the Secret comes last, which no watch reports: the missing Secret is an
  error, so the key is retried. `ComesToRest`: the events its own patches
  cause do not keep the controller busy.
* `TroubleReported`: with resyncs a lasting problem ends up as the reason of
  the condition although the patch can conflict and the cluster was ready
  before. `NodesGetMachines`: so do late nodes get their Machines.
* `CpNoLostWakeup`, `CpEventuallyReady`: the two predicates for updates of a
  Cluster are alternatives (51), so unpausing alone wakes the control plane; its
  owner reference is an event of its own. Between them nothing is lost. Whether a
  control plane should be ready is another matter: `CpEventuallyReady` is about
  those whose API server serves, the others are the subject of run `serving`.
* `ReadyMeansAdopted`: although owners are read from caches that lag, and the patch
  goes to whatever has the name, ready is not written before both owners are set,
  as long as the Machine is not deleted.
* `NodesBecomeReady`: whatever order the owners are set in, and although a user
  deletes a Machine while the loop goes over it, each node is complete in the
  end. This needs resyncs, for the loop to create again what was deleted, and for
  the ExternalMachine to notice its Machine's owner (run `requeue`).
* `OneImport`, `NoGaps`, `SuccessMeansImported`, `ClaimsNames`: creating the
  Cluster first and stopping at the first error is a lock on the name.
  `ClaimIsExclusive`: whoever has it meets no object of that name any more, so
  only the first Create can find that its object exists.
* `RunAdvances`: neither a failure nor another invocation makes an import, or the
  loop over the qbert clusters, go through anything twice.

Runs that TLC finds violated, each a statement of the repository:

| Run | Statement | What happens |
| --- | --- | --- |
| `collision` | "Syncing external machines with the nodes" (controller 192) | node names collide, AlreadyExists is ignored, ready is set |
| `status` | "defines the observed state" (types 33) | ready is never reset, a condition marked false stays |
| `removal` | the finalizer comment (controller 33-34) | an in-flight reconcile creates Machines after the removal |
| `requeue` | "OwnerCluster is not set yet. Requeuing..." (machine controller 83) | nothing is requeued, and no event of a Machine passes the predicate (42) |
| `unfetched` | "Not registering it." (`import.go:115`) | it is registered with an empty kubeconfig |
| `serving` | "Ready denotes that the ExternalControlPlane API Server is ready to receive requests." (control plane types 23-24) | it is set, and `initialized` with it, without a look at the API server |

None of the passing properties contradicts them: `ReadyCoversNodes` and
`KeepsInventory` hold without a collision, `EventuallyReady` does not say that
ready is ever false again, `NodesBecomeReady` is with resyncs, and
`CpEventuallyReady` asks for an API server that serves.

**Bounds.** `MaxChanges` limits what users and external clusters do (pausing,
deletion, new Secrets, access, nodes, an API server that serves or not), not what CAPI, the manager or the
informers do; `MaxFaults` limits failed calls, restarts and killed invocations;
`MaxTrouble` limits both together. The hazards of this code take one or two
changes and one or two faults, together with an unfavourable order of the steps,
which is not bounded: a stale Secret takes one change, a conflicting patch a
change while the reconcile is in flight, an interrupted loop one fault, a
deletion during a reconcile one change, a pause that ends two. Two nodes let the
loop stop at its first, middle and last call; two clusters are needed only where
they compete (`collision`). The nodes do not interact in `ExternalMachine`
beyond sharing the worker, so one is enough there. Neither of the two
controllers of `Readiness` reads or writes the objects of the other, so the
initial states of `readiness` have either a control plane and no node, or a node
and a control plane of another kind; `infra` and `serving` matter to the control
plane only, so they are set in the latter. `CpReadyMeansServing` asks for
little, an API server that never serves at all: the statement is not refuted by
one that stops after it was looked at. Three invocations are one more than it takes for two to
meet at a name. The safety properties are proved without these bounds (section
4). Symmetry is used in `inventory` only, whose properties are all safety. That
changes run out does not weaken the liveness properties: they are conditions on
what holds from some point on.

**Fairness.** The work queue is first in, first out, hence strong fairness of
`Start` and `ExtStart` per key: while the worker is busy with other keys it is
disabled, but no key is passed over for ever. The worker goes on with what it
has started (weak fairness, its calls have time-outs); watches deliver; with
`Resync` so does the resync of each object. The control plane may be resynced,
but its properties do not count on it. Restart, faults and users have no
fairness. In `ExternalCluster` CAPI has none either. `ExternalMachine` is about
what CAPI and the controller achieve together, so CAPI's machine controller
adopts, deletes and removes (weak fairness); noticing that an ExternalMachine is
gone has strong fairness, since the loop may create it again in between. The
loop of the ExternalCluster controller goes on once it was started, and is
started again when there are resyncs, which is what `NodesGetMachines` rests on.
In `ClusterImport` an invocation that was started goes on; nobody has to start
one or to clean up.

**Deadlock.** Checking is off: in `ClusterImport` all invocations come to an end,
and in the other modules a manager with nothing to do waits for events.
`EveryRunEnds`, `EventuallyReady`, `CpEventuallyReady` and `NodesBecomeReady`
exclude the stops that would be wrong.

**Mutants.** Each property has a variant of one definition (the operators named
"Mutant") with a plausible bug, under which TLC finds the property violated.

## 4. What TLAPS proves

For any sets of clusters and nodes, any bounds, any number of invocations.

| Theorem | States |
| --- | --- |
| `TypeCorrect`, `ReadinessTypeCorrect`, `ImportTypeCorrect` | the type invariants |
| `WakeupsAreKept` | `NoLostWakeup` |
| `ObjectsAreNeverStolen` | `NeverStolen`: no object passes from one cluster to another, even if node names collide |
| `SecretsAreNotClobbered` | `SecretNotClobbered` |
| `ReadyMeansCovered`, `NoOrphans` | `ReadyCoversNodes`, `NoOrphanExternalMachine`, if node names do not collide |
| `NodesAreCovered`, `ManagerRestsWhenDone` | `NodesStayCovered`, `RestsWhenDone`, if node names do not collide |
| `NamesAreCovered`, `UniqueNamesAreCovered` | what is left of it with any names: each node's name has both objects, and a node whose own name is unique has its own |
| `ReconcilesEnd`, `ReconcilesFailForCause` | `ReconcileEnds`, for clusters of finitely many nodes, and `FailsForCause` |
| `InventoryIsKept` | `KeepsInventory`: `ExternalCluster` implements `NodeInventory`, if node names do not collide |
| `InventoryMeansPairs` | `KeepsInventory` implies `NoOrphanExternalMachine`: the abstract specification is not too weak |
| `ManagersKeepWakeups`, `ManagersKeepSecrets` | `NoLostWakeup`, `SecretNotClobbered` of two managers |
| `ManagersMeanCovered`, `ManagersLeaveNoOrphans`, `ManagersKeepInventory` | `ReadyCoversNodes`, `NoOrphanExternalMachine`, `KeepsInventory` of two managers, if node names do not collide |
| `ManagersKeepCoverage`, `ManagersRestWhenDone` | `NodesStayCovered`, `RestsWhenDone` of two managers, if node names do not collide |
| `ManagersFailForCause`, `ManagersNeverSteal` | `FailsForCause`, `NeverStolen` of two managers |
| `ControlPlaneWakeupsAreKept` | `CpNoLostWakeup` |
| `ReadyAfterAdoption` | `ReadyMeansAdopted` |
| `NamesAreNotMixed`, `ResourcesInOrder`, `SuccessIsImported` | `OneImport`, `NoGaps`, `SuccessMeansImported` |
| `ClaimsAreExclusive`, `RunsAdvance` | `ClaimIsExclusive`, and `RunAdvances` if there are finitely many external clusters |
| `ImportsClaimNames` | `ClaimsNames`: `ClusterImport` implements `NameClaim` |

The assumptions are those named in the modules: `None` is none of the values it
stands next to, `NodesOf` and `NameOf` have the right types, bounds are natural
numbers. Some theorems have hypotheses of their own. `DisjointNodes` (no two
clusters have a node name in common) is one of those about whose the objects of a
node are, and run `collision` shows that it is needed; `NamesAreCovered` does
without it. `FiniteNodes` and the finiteness of `Sources` are there for the two
measures, which count nodes and clusters.

`WakeupsAreKept` uses the inductive invariant `WakeupInv`. `NoLostWakeup` is not
inductive by itself: a reconcile may end at one of its early returns by what it
read some steps ago. `CacheLags` (a Cluster that is live is live in the cache),
`ReadyStays` (an ExternalCluster that was seen ready is ready) and
`ChangedIsQueued` (if the cached ExternalCluster is no longer the one the worker
has read, its key is queued again or it is paused) say why it may.
`ControlPlaneWakeupsAreKept` goes the same way, with parts of the same names for
the control plane.

`ReadyMeansCovered`, `NoOrphans` and `InventoryIsKept` use `InventoryInv`:
`OwnNodes` (with disjoint names an object can only be of the cluster that has the
node), `LoopProgress` (each listed node that is not in `todo` any more has its
objects, unless the cluster is being deleted) and `NoOrphanExternalMachine`. The
refinement needs all three: when a live cluster creates a Machine, an
ExternalMachine that is there already could only be its own, and then it would
be an orphan.

`InventoryMeansPairs` is about the abstract specification alone: no step of
`NodeInventory` that a live cluster takes leaves an ExternalMachine unpaired, and
a cluster never becomes live again.

`ReconcilesEnd` is a proof by a measure: `StepsLeft` bounds the steps of a request
by its position and the nodes still to do. Its lemma `LoopHasWork` (the loop runs
only over nodes of its cluster, and only while there are some) makes each step
decrease it; that no step of another actor touches a request is part of it.
`ReconcilesFailForCause` takes `ReadyStays` of `WakeupInv`, for the patch that
finds ready already written, and `ResultKnown` (what reconcileNormal decides, and
when), and goes through the ways in which each step can fail.

`NodesAreCovered` has the node's presence as an assumption on the whole behaviour,
so its invariant is per node: `OnTheList` (a loop that is past listing has the
node on its list) and `CoveredWhileReady`. Ready is only set by a Close, when by
`LoopProgress` each listed node has its objects, and these stay by the inventory
invariant. `ManagerRestsWhenDone` adds `WakeupsAreKept`: at rest with caches up to
date, an ExternalCluster to reconcile is ready. `NamesAreCovered` replaces the
inventory invariant by `NamesInv`, in which it does not matter whose the objects
are, only that nobody who has such a node is deleted; `UniqueNamesAreCovered`
follows.

The theorems of two managers reuse those of one through the instances `A` and
`B`: a step of one manager keeps its own invariant by the lemma about one manager.
What it does to the other is new: it is `Harmless` (no Cluster comes back to
life, ready is not taken back), which keeps the wake-ups of a manager that does
nothing, and `Lasting` (the objects of a live cluster stay), which keeps the
progress of its loop. What either invariant says of the shared objects is the
same. What is known of the result of a reconcile (`ResultKnown`) is about its own request,
which the other manager cannot touch; that ready may have been written by the other
is what `ReadyStays` of either `WakeupInv` is for.

`ReadyAfterAdoption` uses `ReadyInv`, per node: whatever the caches, the worker or
`status.ready` have of an owner is true of the objects. It is inductive because
owners stay until the Machine is deleted, which the property excludes.

The import theorems use `ImportInv`: `SameImport` (an object is there only
with those before it, from the same import) and `Progress` (what an import in
progress has created so far is there and its own). The refinement follows from
it: creating the Cluster is a claim, the Secret completes it, the two creates
in between and all other steps stutter, `CleanUp` releases. `ClaimsAreExclusive`
adds `Behind`: what an invocation has created is of external clusters that are
off its list, and of the current one only what comes before its next resource,
so the object it would meet could not even be its own. `RunsAdvance` is a measure
again, `CallsLeft`, of the calls for the clusters on the list and the current one.

Only model-checked: the liveness properties (TLAPS proves no liveness under
fairness and no ENABLED). No definition is recursive, so there is nothing to
prove by induction over data.

## 5. What is not modelled

* Logging, the command tree, generated code, CRDs and roles, metrics, probes,
  the profiler and the errors of the manager's set-up (`run.go:107-182`), which
  end the process before a controller runs.
* The host and port of the endpoint and the flags of the import command one by
  one: strings and numbers that are passed on, and that no controller reads. The
  port deserves a unit test: it is taken from the URL only if that has more than
  two parts between colons (`cmd/import.go:111`), and `host:port`, what is left of
  `https://host:8443` after line 108, has two, so it is registered with 6443.
* `status.addresses` and the conditions of an ExternalMachine, and
  `failureReason` and `failureMessage` of all kinds: no controller writes them.
* Versions and addresses of Machines, which are written once, at creation.
* A clean-up in the middle of an import: see `CleanUp`.
* The behaviour of CAPI 1.1 and controller-runtime 0.11, which is not part of the
  repository, is modelled from how the code uses it and marked external in
  `PROJECT.json`.

The objects that an import creates one by one reach the manager in `ExternalCluster`
as initial states with or without the Secret, and as a Secret that comes later; a
manager that sees a Cluster before its ExternalCluster has nothing to reconcile
yet, so the two models are not composed. Two active managers are composed for the
ExternalCluster controller only: the patches of the two other controllers write
the same constant value whoever writes them.
