--------------------------- MODULE ExternalMachine ---------------------------
(***************************************************************************)
(* The ExternalMachine controller, together with the two others that work  *)
(* on the same objects: the loop of the ExternalCluster controller, which  *)
(* creates a Machine and an ExternalMachine per node, and Cluster API,     *)
(* which sets their owners and removes the two of a deleted Machine.       *)
(***************************************************************************)
EXTENDS OwnerCluster

CONSTANTS Nodes, None   \* the nodes the external cluster may have; no node
ASSUME NoNodeAssumption == None \notin Nodes

VARIABLES
  machines,      \* machines[n]: the Machine of node n
  exts,          \* exts[n]: its ExternalMachine
  seenMachines,  \* the manager's caches of both
  seenExts,
  extQueue,      \* keys of ExternalMachines in the work queue
  extReq,        \* the reconcile the worker is in
  nodes,         \* the nodes the external cluster has, which stay the same here
  loop           \* the loop over them in the ExternalCluster controller

extVars == <<machines, exts, seenMachines, seenExts, extQueue, extReq, nodes, loop>>

\* "adopted": has the ownerReference to the Cluster; "deleting": its finalizer
\* is still there; "stripped": and Cluster API has seen no ExternalMachine.
MachineObjects == {"none", "new", "adopted", "deleting", "stripped"}

\* owned: has the ownerReference to the Machine; ready: status.ready.
ExtObjects == [exists : BOOLEAN, owned : BOOLEAN, paused : BOOLEAN, ready : BOOLEAN]

NoExt == [exists |-> FALSE, owned |-> FALSE, paused |-> FALSE, ready |-> FALSE]
NewExt == [NoExt EXCEPT !.exists = TRUE]

ExtIdle == [step |-> "idle", node |-> None, before |-> NoExt]
LoopIdle == [todo |-> {}, node |-> None]

ExtTypeOK ==
  /\ machines \in [Nodes -> MachineObjects]
  /\ exts \in [Nodes -> ExtObjects]
  /\ seenMachines \in [Nodes -> MachineObjects]
  /\ seenExts \in [Nodes -> ExtObjects]
  /\ extQueue \subseteq Nodes
  /\ extReq \in [step : {"idle", "machine", "cluster", "close"},
                 node : Nodes \cup {None}, before : ExtObjects]
  /\ extReq.step # "idle" => extReq.node \in Nodes
  /\ nodes \subseteq Nodes
  /\ loop \in [todo : SUBSET Nodes, node : Nodes \cup {None}]

ExtInit ==
  /\ machines = [n \in Nodes |-> "none"]
  /\ exts = [n \in Nodes |-> NoExt]
  /\ seenMachines = machines
  /\ seenExts = exts
  /\ extQueue = {}
  /\ extReq = ExtIdle
  /\ nodes \in SUBSET Nodes
  /\ loop = LoopIdle

-----------------------------------------------------------------------------
(* The ExternalMachine controller.                                          *)

\* Mutant: the request is reset before its key is put back.
ExtFinishResetFirst(retry) ==
  /\ extReq' = ExtIdle
  /\ extQueue' = IF retry THEN extQueue \cup {ExtIdle.node} ELSE extQueue

\* Reconcile ends, with an error or without.
ExtFinish(retry) ==
  /\ extReq' = ExtIdle
  /\ extQueue' = IF retry THEN extQueue \cup {extReq.node} ELSE extQueue

\* Events of an ExternalMachine pass unless it is paused.
ExtEventAccepted(new) == ~new.paused

\* ClusterUnpaused expects a Cluster: no event of a Machine ever passes.
MachineEventAccepted(old, new) == FALSE

\* Take a key and read the object.  Without it or its owner it is over.
ExtStart(n) ==
  /\ extReq.step = "idle"
  /\ n \in extQueue
  /\ extQueue' = extQueue \ {n}
  /\ extReq' = IF seenExts[n].exists /\ seenExts[n].owned
               THEN [step |-> "machine", node |-> n, before |-> seenExts[n]] ELSE ExtIdle
  /\ UNCHANGED <<clusterVars, machines, exts, seenMachines, seenExts, nodes, loop>>

\* Mutant: the owner of the Machine is not waited for.
ExtMachineUnadopted ==
  LET machine == seenMachines[extReq.node] IN
  /\ extReq.step = "machine"
  /\ IF machine # "none" THEN extReq' = [extReq EXCEPT !.step = "cluster"] /\ UNCHANGED extQueue
     ELSE ExtFinish(TRUE)
  /\ UNCHANGED <<clusterVars, machines, exts, seenMachines, seenExts, nodes, loop>>

\* Read the Machine.  Not found is an error; one without an owner is left alone.
\* So is a deleted one, unless its Cluster is not found.
ExtMachine ==
  LET machine == seenMachines[extReq.node] IN
  /\ extReq.step = "machine"
  /\ IF machine = "adopted" THEN extReq' = [extReq EXCEPT !.step = "cluster"] /\ UNCHANGED extQueue
     ELSE ExtFinish(machine = "none" \/ (machine # "new" /\ seenCluster.phase = "gone"))
  /\ UNCHANGED <<clusterVars, machines, exts, seenMachines, seenExts, nodes, loop>>

\* Read the Cluster.  Not found is an error.
ExtCluster ==
  /\ extReq.step = "cluster"
  /\ IF seenCluster.phase # "gone" /\ ~IsPaused(seenCluster, extReq.before)
     THEN extReq' = [extReq EXCEPT !.step = "close"] /\ UNCHANGED extQueue
     ELSE ExtFinish(seenCluster.phase = "gone")
  /\ UNCHANGED <<clusterVars, machines, exts, seenMachines, seenExts, nodes, loop>>

\* The deferred Close patches whatever now has the name.
ExtClose ==
  LET n == extReq.node
      dirty == ~extReq.before.ready
      patched == IF exts[n].exists THEN [exts EXCEPT ![n].ready = TRUE] ELSE exts
  IN
  /\ extReq.step = "close"
  /\ \/ /\ exts' = IF dirty THEN patched ELSE exts
        /\ ExtFinish(dirty /\ ~exts[n].exists)
        /\ UNCHANGED faults
     \/ /\ dirty /\ Fault
        /\ exts' \in {exts, patched}
        /\ ExtFinish(TRUE)
  /\ UNCHANGED <<cluster, seenCluster, changes, machines, seenMachines, seenExts, nodes, loop>>

ExtStep == ExtMachine \/ ExtCluster \/ ExtClose

DeliverExt(n) ==
  /\ seenExts[n] # exts[n]
  /\ seenExts' = [seenExts EXCEPT ![n] = exts[n]]
  /\ extQueue' = IF ExtEventAccepted(exts[n]) THEN extQueue \cup {n} ELSE extQueue
  /\ UNCHANGED <<clusterVars, machines, exts, seenMachines, extReq, nodes, loop>>

DeliverMachine(n) ==
  /\ seenMachines[n] # machines[n]
  /\ seenMachines' = [seenMachines EXCEPT ![n] = machines[n]]
  /\ extQueue' = IF MachineEventAccepted(seenMachines[n], machines[n])
                 THEN extQueue \cup {n} ELSE extQueue
  /\ UNCHANGED <<clusterVars, machines, exts, seenExts, extReq, nodes, loop>>

ResyncExt(n) ==
  /\ Resync /\ n \notin extQueue
  /\ seenExts[n].exists /\ ExtEventAccepted(seenExts[n])
  /\ extQueue' = extQueue \cup {n}
  /\ UNCHANGED <<clusterVars, machines, exts, seenMachines, seenExts, extReq, nodes, loop>>

ExtRestart ==
  /\ seenMachines' = machines
  /\ seenExts' = exts
  /\ extQueue' = {n \in Nodes : exts[n].exists /\ ExtEventAccepted(exts[n])}
  /\ extReq' = ExtIdle
  /\ loop' = LoopIdle
  /\ UNCHANGED <<machines, exts, nodes>>

-----------------------------------------------------------------------------
(* The loop over the nodes.                                                 *)

\* The ExternalCluster controller goes through the nodes again.
StartLoop ==
  /\ loop = LoopIdle /\ nodes # {}
  /\ seenCluster.phase = "live" /\ ~seenCluster.paused
  /\ loop' = [loop EXCEPT !.todo = nodes]
  /\ UNCHANGED <<clusterVars, machines, exts, seenMachines, seenExts, extQueue, extReq, nodes>>

\* Mutant: the loop goes on to the next node when the Machine exists.
LoopMachineSkipping(n) ==
  /\ loop.node = None /\ n \in loop.todo
  /\ machines' = [machines EXCEPT ![n] = IF @ = "none" THEN "new" ELSE @]
  /\ loop' = IF machines[n] = "none" THEN [loop EXCEPT !.node = n]
             ELSE [loop EXCEPT !.todo = @ \ {n}]
  /\ UNCHANGED <<clusterVars, exts, seenMachines, seenExts, extQueue, extReq, nodes>>

\* Create the Machine of node n; that it exists is ignored.  Any other error
\* ends the loop, and the Machine may have been created none the less.
LoopMachine(n) ==
  LET created == [machines EXCEPT ![n] = IF @ = "none" THEN "new" ELSE @] IN
  /\ loop.node = None /\ n \in loop.todo
  /\ \/ machines' = created /\ loop' = [loop EXCEPT !.node = n] /\ UNCHANGED faults
     \/ Fault /\ machines' \in {machines, created} /\ loop' = LoopIdle
  /\ UNCHANGED <<cluster, seenCluster, changes, exts, seenMachines, seenExts, extQueue, extReq, nodes>>

\* Create its ExternalMachine likewise.
LoopExternal ==
  LET n == loop.node
      created == IF exts[n].exists THEN exts ELSE [exts EXCEPT ![n] = NewExt]
  IN
  /\ n # None
  /\ \/ exts' = created /\ loop' = [todo |-> loop.todo \ {n}, node |-> None] /\ UNCHANGED faults
     \/ Fault /\ exts' \in {exts, created} /\ loop' = LoopIdle
  /\ UNCHANGED <<cluster, seenCluster, changes, machines, seenMachines, seenExts, extQueue, extReq, nodes>>

-----------------------------------------------------------------------------
(* Cluster API and users.                                                   *)

\* The machine controller makes the Cluster the owner of the Machine,
AdoptMachine(n) ==
  /\ machines[n] = "new" /\ ~cluster.paused
  /\ machines' = [machines EXCEPT ![n] = "adopted"]
  /\ UNCHANGED <<clusterVars, exts, seenMachines, seenExts, extQueue, extReq, nodes, loop>>

\* and the Machine that of the ExternalMachine, before or after that.
OwnExt(n) ==
  /\ machines[n] \in {"new", "adopted"} /\ ~IsPaused(cluster, exts[n])
  /\ exts[n].exists /\ ~exts[n].owned
  /\ exts' = [exts EXCEPT ![n].owned = TRUE]
  /\ UNCHANGED <<clusterVars, machines, seenMachines, seenExts, extQueue, extReq, nodes, loop>>

\* A user deletes a Machine, or Cluster API each of a deleting Cluster.
DeleteMachine(n) ==
  /\ machines[n] \in {"new", "adopted"}
  /\ Change \/ (Deleting /\ UNCHANGED changes)
  /\ machines' = [machines EXCEPT ![n] = "deleting"]
  /\ UNCHANGED <<cluster, seenCluster, faults, exts, seenMachines, seenExts, extQueue, extReq, nodes, loop>>

\* Then the machine controller deletes the ExternalMachine,
DeleteExt(n) ==
  /\ machines[n] = "deleting" /\ ~cluster.paused
  /\ exts[n].exists
  /\ exts' = [exts EXCEPT ![n] = NoExt]
  /\ UNCHANGED <<clusterVars, machines, seenMachines, seenExts, extQueue, extReq, nodes, loop>>

\* finds that it is gone,
StripMachine(n) ==
  /\ machines[n] = "deleting" /\ ~cluster.paused
  /\ ~exts[n].exists
  /\ machines' = [machines EXCEPT ![n] = "stripped"]
  /\ UNCHANGED <<clusterVars, exts, seenMachines, seenExts, extQueue, extReq, nodes, loop>>

\* and removes the finalizer of the Machine.
RemoveMachine(n) ==
  /\ machines[n] = "stripped"
  /\ machines' = [machines EXCEPT ![n] = "none"]
  /\ UNCHANGED <<clusterVars, exts, seenMachines, seenExts, extQueue, extReq, nodes, loop>>

PauseExt(n) ==
  /\ Change
  /\ exts[n].exists
  /\ exts' = [exts EXCEPT ![n].paused = ~@]
  /\ UNCHANGED <<cluster, seenCluster, faults, machines, seenMachines, seenExts, extQueue, extReq, nodes, loop>>

=============================================================================
