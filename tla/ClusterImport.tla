---------------------------- MODULE ClusterImport ----------------------------
(***************************************************************************)
(* `cape import`: registering external clusters in the management cluster. *)
(*                                                                         *)
(* Every invocation is a process of its own.  Without --qbert it imports   *)
(* the one cluster its --kubeconfig is for; with --qbert it lists the      *)
(* clusters of the Platform9 control plane, fetches the kubeconfig of each *)
(* and imports one after the other.  An import creates four objects of the *)
(* same name with four calls and stops at the first error: Cluster,        *)
(* ExternalCluster, ExternalControlPlane and the Secret <name>-kubeconfig. *)
(* Nothing is ever updated or undone.                                      *)
(***************************************************************************)
EXTENDS Naturals, FiniteSets

CONSTANTS
  Runs,       \* invocations of `cape import`
  Qbert,      \* those with --qbert
  Sources,    \* the external clusters
  Names,      \* names in the management cluster
  NameOf,     \* NameOf[s]: the name the external cluster s is imported as
  None,       \* no object, no external cluster
  MaxFaults   \* bound: failed API calls, and invocations that are killed

ASSUME QbertAssumption == Qbert \subseteq Runs
ASSUME NameOfAssumption == NameOf \in [Sources -> Names]
ASSUME NoneAssumption ==
  /\ None \notin Sources
  /\ None \notin Runs \X Sources
  /\ None \notin [run : Runs, source : Sources, empty : BOOLEAN]
ASSUME FaultsAssumption == MaxFaults \in Nat

VARIABLES
  objects,   \* objects[m][k]: the k-th of the four objects named m, or None
  runs,      \* runs[r]: where the invocation r is
  faults     \* faults so far

vars == <<objects, runs, faults>>

\* The four resources in the order of the slice.
Kinds == 1..4
Cluster == 1
Secret == 4

\* An object knows who created it and the external cluster it stands for;
\* a Secret may hold an empty kubeconfig.
Objects == [run : Runs, source : Sources, empty : BOOLEAN]

\* todo: qbert clusters still to import; fetched: whether there is a kubeconfig
\* of source; next: the next resource to create.  An invocation that is killed
\* has "failed".
RunStates == [pc : {"new", "loop", "create", "done", "failed"}, todo : SUBSET Sources,
              source : Sources \cup {None}, fetched : BOOLEAN, next : Kinds]

NotStarted == [pc |-> "new", todo |-> {}, source |-> None, fetched |-> FALSE, next |-> Cluster]

TypeOK ==
  /\ objects \in [Names -> [Kinds -> Objects \cup {None}]]
  /\ runs \in [Runs -> RunStates]
  /\ \A r \in Runs : runs[r].pc = "create" => runs[r].source \in Sources
  /\ faults \in 0..MaxFaults

-----------------------------------------------------------------------------
(* Pieces of the actions.  A "Mutant" is a variant with a plausible bug that *)
(* no definition uses: it shows that a property would notice that bug.      *)

Fault == faults < MaxFaults /\ faults' = faults + 1

Set(r, state) == runs' = [runs EXCEPT ![r] = state]

\* The call of ImportClusterResources for the external cluster s.
Import(r, s, fetched, todo) ==
  Set(r, [pc |-> "create", todo |-> todo, source |-> s, fetched |-> fetched, next |-> Cluster])

\* Mutant: what could not be imported stays on the list of clusters to import.
RetryForever(r, ok) ==
  [runs[r] EXCEPT !.pc = IF r \in Qbert THEN "loop" ELSE IF ok THEN "done" ELSE "failed",
                  !.todo = IF ok THEN @ ELSE @ \cup {runs[r].source}]

\* ImportClusterResources returns.  Run panics on its error, whereas the loop
\* over the qbert clusters logs it and takes the next.
Returned(r, ok) ==
  [runs[r] EXCEPT !.pc = IF r \in Qbert THEN "loop" ELSE IF ok THEN "done" ELSE "failed"]

\* Mutants: the error of the last Create is lost; the loop goes on after an
\* error; the loop runs over the end of the slice.
AfterCreateIgnoringLast(r, ok) ==
  IF runs[r].next = Secret THEN Returned(r, TRUE)
  ELSE IF ~ok THEN Returned(r, FALSE)
  ELSE [runs[r] EXCEPT !.next = @ + 1]
AfterCreateContinuing(r, ok) ==
  IF runs[r].next = Secret THEN Returned(r, ok) ELSE [runs[r] EXCEPT !.next = @ + 1]
AfterCreateTooFar(r, ok) ==
  IF ~ok \/ runs[r].next > Secret THEN Returned(r, ok) ELSE [runs[r] EXCEPT !.next = @ + 1]

\* One Create of the loop over the resources has returned.
AfterCreate(r, ok) ==
  IF ~ok THEN Returned(r, FALSE)
  ELSE IF runs[r].next = Secret THEN Returned(r, TRUE)
  ELSE [runs[r] EXCEPT !.next = @ + 1]

-----------------------------------------------------------------------------
(* An invocation.                                                           *)

\* Run of a single import: the flags and kubeconfigs are fine, or it gives up.
StartSingle(r) ==
  /\ r \notin Qbert
  /\ runs[r].pc = "new"
  /\ \/ \E s \in Sources : Import(r, s, TRUE, {})
     \/ Set(r, [runs[r] EXCEPT !.pc = "failed"])
  /\ UNCHANGED <<objects, faults>>

\* ImportClustersFromQbert: authenticate and list the clusters, or panic.
StartQbert(r) ==
  /\ r \in Qbert
  /\ runs[r].pc = "new"
  /\ \/ Set(r, [runs[r] EXCEPT !.pc = "loop", !.todo = Sources])
     \/ Set(r, [runs[r] EXCEPT !.pc = "failed"])
  /\ UNCHANGED <<objects, faults>>

\* The next qbert cluster, with its kubeconfig or, when that cannot be fetched,
\* without; or the end of the loop, which is always a success.
NextQbertCluster(r) ==
  LET todo == runs[r].todo IN
  /\ r \in Qbert
  /\ runs[r].pc = "loop"
  /\ \/ /\ \E s \in todo : Import(r, s, TRUE, todo \ {s})
        /\ UNCHANGED faults
     \/ /\ \E s \in todo : Import(r, s, FALSE, todo \ {s})
        /\ Fault
     \/ /\ todo = {}
        /\ Set(r, [runs[r] EXCEPT !.pc = "done"])
        /\ UNCHANGED faults
  /\ UNCHANGED objects

\* Mutants: AlreadyExists is not an error, to let an import be repeated; an
\* object that exists is replaced.
CreateOrContinue(r) ==
  LET s == runs[r].source
      k == runs[r].next
      m == NameOf[s]
      object == [run |-> r, source |-> s, empty |-> k = Secret /\ ~runs[r].fetched]
      Write == objects' = [objects EXCEPT ![m][k] = object]
  IN
  /\ runs[r].pc = "create"
  /\ \/ /\ IF objects[m][k] = None THEN Write ELSE UNCHANGED objects
        /\ Set(r, AfterCreate(r, TRUE))
        /\ UNCHANGED faults
     \/ /\ Fault
        /\ UNCHANGED objects
        /\ Set(r, AfterCreate(r, FALSE))

CreateOrUpdate(r) ==
  LET s == runs[r].source
      k == runs[r].next
      object == [run |-> r, source |-> s, empty |-> k = Secret /\ ~runs[r].fetched]
  IN
  /\ runs[r].pc = "create"
  /\ objects' = [objects EXCEPT ![NameOf[s]][k] = object]
  /\ Set(r, AfterCreate(r, TRUE))
  /\ UNCHANGED faults

\* Mutant: Create waits until there is no object of that name.
CreateWaiting(r) ==
  LET s == runs[r].source
      k == runs[r].next
      object == [run |-> r, source |-> s, empty |-> k = Secret /\ ~runs[r].fetched]
      Write == objects[NameOf[s]][k] = None /\ objects' = [objects EXCEPT ![NameOf[s]][k] = object]
  IN
  /\ runs[r].pc = "create"
  /\ \/ Write /\ Set(r, AfterCreate(r, TRUE)) /\ UNCHANGED faults
     \/ Fault /\ (Write \/ UNCHANGED objects) /\ Set(r, AfterCreate(r, FALSE))

\* Create of the next resource.  It fails if there is one of that name already,
\* or for another reason, in which case it may have taken effect none the less.
Create(r) ==
  LET s == runs[r].source
      k == runs[r].next
      m == NameOf[s]
      object == [run |-> r, source |-> s, empty |-> k = Secret /\ ~runs[r].fetched]
      Write == objects[m][k] = None /\ objects' = [objects EXCEPT ![m][k] = object]
  IN
  /\ runs[r].pc = "create"
  /\ \/ /\ Write
        /\ Set(r, AfterCreate(r, TRUE))
        /\ UNCHANGED faults
     \/ /\ objects[m][k] # None
        /\ Set(r, AfterCreate(r, FALSE))
        /\ UNCHANGED <<objects, faults>>
     \/ /\ Fault
        /\ Write \/ UNCHANGED objects
        /\ Set(r, AfterCreate(r, FALSE))

\* The process is killed between two calls.
Kill(r) ==
  /\ Fault
  /\ runs[r].pc \in {"loop", "create"}
  /\ Set(r, [runs[r] EXCEPT !.pc = "failed"])
  /\ UNCHANGED objects

\* A user removes all that an import has left, once no invocation is at that name.
\* A Secret that outlives its Cluster would stop the next import of the name.
CleanUp(m) ==
  /\ objects[m][Cluster] # None
  /\ \A r \in Runs : runs[r].pc = "create" => NameOf[runs[r].source] # m
  /\ objects' = [objects EXCEPT ![m] = [k \in Kinds |-> None]]
  /\ UNCHANGED <<runs, faults>>

-----------------------------------------------------------------------------
Init ==
  /\ objects = [m \in Names |-> [k \in Kinds |-> None]]
  /\ runs = [r \in Runs |-> NotStarted]
  /\ faults = 0

Step(r) == StartSingle(r) \/ StartQbert(r) \/ NextQbertCluster(r) \/ Create(r)

Next ==
  \/ \E r \in Runs : Step(r) \/ Kill(r)
  \/ \E m \in Names : CleanUp(m)

\* An invocation that was started goes on.
Fairness == \A r \in Runs : WF_vars(runs[r].pc # "new" /\ Step(r))

Spec == Init /\ [][Next]_vars /\ Fairness

-----------------------------------------------------------------------------
(* Properties.                                                              *)

\* The objects of one name always stand for one external cluster and come from
\* one invocation, however many run at once, fail half-way, or import clusters
\* of the same name: creating the Cluster first (27-46) and stopping at the
\* first error (79-82) is all the locking there is.
OneImport ==
  \A m \in Names : \A j, k \in Kinds :
    objects[m][j] # None /\ objects[m][k] # None =>
      objects[m][j].run = objects[m][k].run /\ objects[m][j].source = objects[m][k].source

\* Whoever creates the Cluster has the name for itself: however many invocations
\* want it, and although one that failed may have left anything behind, only the
\* first Create of an import can find that its object exists (27-83).
ClaimIsExclusive ==
  \A r \in Runs : runs[r].pc = "create" /\ runs[r].next # Cluster =>
    objects[NameOf[runs[r].source]][runs[r].next] = None

\* Objects appear in the order of the slice, so a controller that finds a
\* kubeconfig Secret also finds the objects it belongs to (27-84).
NoGaps ==
  \A m \in Names : \A k \in Kinds :
    objects[m][k] # None => \A j \in 1..k : objects[m][j] # None

\* The import of one cluster reports success (cmd/import.go:134-139) only when all
\* four objects are there and are its own.
SuccessMeansImported ==
  [][\A r \in Runs \ Qbert :
       runs[r].pc # "done" /\ runs'[r].pc = "done" =>
         \A k \in Kinds : LET object == objects'[NameOf[runs[r].source]][k]
                          IN  object # None /\ object.run = r]_vars

\* How many more calls an invocation can make: five for each qbert cluster that
\* is left, with the one for its kubeconfig, and what is left of the current one.
CallsLeft(run) ==
  5 * Cardinality(run.todo) + (CASE run.pc = "loop" -> 1
                                 [] run.pc = "create" -> Secret + 2 - run.next
                                 [] OTHER -> 0)

\* An invocation never starts over (77-84, 111-123): whatever fails and whatever
\* the others do, each of its steps, or its end, leaves it fewer calls to make.
RunAdvances ==
  [][\A r \in Runs : runs[r].pc # "new" /\ (Step(r) \/ runs'[r] # runs[r]) =>
       CallsLeft(runs'[r]) < CallsLeft(runs[r])]_vars

\* An invocation that was started comes to an end (77-84, 111-123).
EveryRunEnds ==
  \A r \in Runs : runs[r].pc # "new" ~> runs[r].pc \in {"done", "failed"}

-----------------------------------------------------------------------------
(* The abstract specification: the Cluster object is the claim of a name.    *)

OwnerOf(m) == IF objects[m][Cluster] = None THEN None
              ELSE <<objects[m][Cluster].run, objects[m][Cluster].source>>

IsComplete(m) == \A k \in Kinds :
  /\ objects[m][k] # None
  /\ <<objects[m][k].run, objects[m][k].source>> = OwnerOf(m)

Claims == INSTANCE NameClaim
  WITH Imports <- Runs \X Sources,
       owner <- [m \in Names |-> OwnerOf(m)],
       complete <- [m \in Names |-> IsComplete(m)]

\* Importing implements the claiming of names.
ClaimsNames == Claims!Spec

-----------------------------------------------------------------------------
(* What the repository says of importing and the code does not do.          *)

\* "could not fetch kubeconfig for %s cluster. Not registering it."
\* (import.go:115): nothing is created for such a cluster.  The code goes on.
NotRegisteredWithoutKubeconfig ==
  \A r \in Runs : runs[r].pc = "create" /\ ~runs[r].fetched =>
    \A k \in Kinds : LET object == objects[NameOf[runs[r].source]][k]
                     IN  object = None \/ object.run # r \/ object.source # runs[r].source

=============================================================================
