------------------------- MODULE ClusterImportProofs -------------------------
(***************************************************************************)
(* What TLAPS proves about `cape import`, for any number of invocations,   *)
(* external clusters and names, however many clusters have the same name.  *)
(***************************************************************************)
EXTENDS ClusterImport, FiniteSetTheorems, TLAPS

-----------------------------------------------------------------------------
(* Type correctness.                                                        *)

LEMMA FaultType ==
  ASSUME TypeOK, Fault \/ UNCHANGED faults
  PROVE  faults' \in 0..MaxFaults
  BY FaultsAssumption DEF TypeOK, Fault

\* What a run becomes when a call returns.
LEMMA ReturnType ==
  ASSUME TypeOK, NEW r \in Runs, NEW ok \in BOOLEAN
  PROVE  /\ Returned(r, ok) \in RunStates
         /\ Returned(r, ok).pc \in {"loop", "done", "failed"}
  BY DEF Returned, TypeOK, RunStates

LEMMA AfterCreateType ==
  ASSUME TypeOK, NEW r \in Runs, runs[r].pc = "create", NEW ok \in BOOLEAN
  PROVE  /\ AfterCreate(r, ok) \in RunStates
         /\ AfterCreate(r, ok).pc = "create" => AfterCreate(r, ok).source \in Sources
  <1>1. CASE ~ok \/ runs[r].next = Secret
    BY <1>1, ReturnType DEF AfterCreate
  <1>2. CASE ok /\ runs[r].next # Secret
    <2>1. runs[r] \in RunStates /\ runs[r].next + 1 \in Kinds
      BY <1>2 DEF TypeOK, RunStates, Kinds, Secret
    <2>2. AfterCreate(r, ok) = [runs[r] EXCEPT !.next = @ + 1]
      BY <1>2 DEF AfterCreate
    <2> QED
      BY <2>1, <2>2 DEF TypeOK, RunStates
  <1> QED
    BY <1>1, <1>2

\* A run that moves to a state of the right shape keeps the invariant.
LEMMA SetType ==
  ASSUME TypeOK, NEW r \in Runs, NEW state \in RunStates, Set(r, state),
         state.pc = "create" => state.source \in Sources
  PROVE  /\ runs' \in [Runs -> RunStates]
         /\ \A q \in Runs : runs'[q].pc = "create" => runs'[q].source \in Sources
  BY DEF Set, TypeOK

LEMMA ImportType ==
  ASSUME TypeOK, NEW s \in Sources, NEW fetched \in BOOLEAN, NEW todo \in SUBSET Sources
  PROVE  [pc |-> "create", todo |-> todo, source |-> s, fetched |-> fetched, next |-> Cluster] \in RunStates
  BY DEF RunStates, Kinds, Cluster

LEMMA TypeStep == TypeOK /\ [Next]_vars => TypeOK'
  <1> SUFFICES ASSUME TypeOK, [Next]_vars PROVE TypeOK'
    OBVIOUS
  <1>1. ASSUME NEW r \in Runs, StartSingle(r) PROVE TypeOK'
    <2>1. PICK state \in RunStates :
            Set(r, state) /\ (state.pc = "create" => state.source \in Sources)
      <3>1. CASE \E s \in Sources : Import(r, s, TRUE, {})
        <4>1. PICK s \in Sources : Import(r, s, TRUE, {})
          BY <3>1
        <4>2. {} \in SUBSET Sources
          OBVIOUS
        <4> QED
          BY <4>1, <4>2, ImportType DEF Import
      <3>2. CASE Set(r, [runs[r] EXCEPT !.pc = "failed"])
        <4>1. /\ [runs[r] EXCEPT !.pc = "failed"] \in RunStates
              /\ [runs[r] EXCEPT !.pc = "failed"].pc # "create"
          BY DEF TypeOK, RunStates
        <4> QED
          BY <3>2, <4>1
      <3> QED
        BY <1>1, <3>1, <3>2 DEF StartSingle
    <2> QED
      BY <1>1, <2>1, SetType DEF StartSingle, TypeOK
  <1>2. ASSUME NEW r \in Runs, StartQbert(r) PROVE TypeOK'
    <2>1. PICK state \in RunStates :
            Set(r, state) /\ (state.pc = "create" => state.source \in Sources)
      <3>1. /\ [runs[r] EXCEPT !.pc = "loop", !.todo = Sources] \in RunStates
            /\ [runs[r] EXCEPT !.pc = "loop", !.todo = Sources].pc # "create"
        BY DEF TypeOK, RunStates
      <3>2. /\ [runs[r] EXCEPT !.pc = "failed"] \in RunStates
            /\ [runs[r] EXCEPT !.pc = "failed"].pc # "create"
        BY DEF TypeOK, RunStates
      <3> QED
        BY <1>2, <3>1, <3>2 DEF StartQbert
    <2> QED
      BY <1>2, <2>1, SetType DEF StartQbert, TypeOK
  <1>3. ASSUME NEW r \in Runs, NextQbertCluster(r) PROVE TypeOK'
    <2>1. PICK state \in RunStates :
            Set(r, state) /\ (state.pc = "create" => state.source \in Sources)
      <3>1. ASSUME NEW s \in Sources, NEW fetched \in BOOLEAN,
                   Import(r, s, fetched, runs[r].todo \ {s})
            PROVE  \E state \in RunStates :
                     Set(r, state) /\ (state.pc = "create" => state.source \in Sources)
        <4>1. runs[r].todo \ {s} \in SUBSET Sources
          BY DEF TypeOK, RunStates
        <4> QED
          BY <3>1, <4>1, ImportType DEF Import
      <3>2. CASE Set(r, [runs[r] EXCEPT !.pc = "done"])
        <4>1. /\ [runs[r] EXCEPT !.pc = "done"] \in RunStates
              /\ [runs[r] EXCEPT !.pc = "done"].pc # "create"
          BY DEF TypeOK, RunStates
        <4> QED
          BY <3>2, <4>1
      <3>3. runs[r].todo \subseteq Sources
        BY DEF TypeOK, RunStates
      <3> QED
        BY <1>3, <3>1, <3>2, <3>3 DEF NextQbertCluster
    <2>2. faults' \in 0..MaxFaults
      BY <1>3, FaultType DEF NextQbertCluster
    <2> QED
      BY <1>3, <2>1, <2>2, SetType DEF NextQbertCluster, TypeOK
  <1>4. ASSUME NEW r \in Runs, Create(r) PROVE TypeOK'
    <2> DEFINE s == runs[r].source
               k == runs[r].next
               object == [run |-> r, source |-> s, empty |-> k = Secret /\ ~runs[r].fetched]
    <2>1. s \in Sources /\ k \in Kinds /\ object \in Objects
      BY <1>4 DEF Create, TypeOK, RunStates, Objects
    <2>2. objects' = [objects EXCEPT ![NameOf[s]][k] = object] \/ UNCHANGED objects
      BY <1>4 DEF Create
    <2>3. objects' \in [Names -> [Kinds -> Objects \cup {None}]]
      BY <2>1, <2>2, NameOfAssumption DEF TypeOK
    <2>4. PICK ok \in BOOLEAN : Set(r, AfterCreate(r, ok))
      BY <1>4 DEF Create
    <2>5. /\ runs' \in [Runs -> RunStates]
          /\ \A q \in Runs : runs'[q].pc = "create" => runs'[q].source \in Sources
      BY <1>4, <2>4, AfterCreateType, SetType DEF Create
    <2>6. faults' \in 0..MaxFaults
      BY <1>4, FaultType DEF Create
    <2> QED
      BY <2>3, <2>5, <2>6 DEF TypeOK
  <1>5. ASSUME NEW r \in Runs, Kill(r) PROVE TypeOK'
    <2>1. [runs[r] EXCEPT !.pc = "failed"] \in RunStates /\ [runs[r] EXCEPT !.pc = "failed"].pc # "create"
      BY DEF TypeOK, RunStates
    <2> QED
      BY <1>5, <2>1, SetType, FaultType DEF Kill, TypeOK
  <1>6. ASSUME NEW m \in Names, CleanUp(m) PROVE TypeOK'
    BY <1>6 DEF CleanUp, TypeOK
  <1>7. CASE UNCHANGED vars
    BY <1>7 DEF vars, TypeOK
  <1> QED
    BY <1>1, <1>2, <1>3, <1>4, <1>5, <1>6, <1>7 DEF Next, Step

\* The type invariant holds for all constants: in particular no run goes past
\* the last of the four resources.
THEOREM ImportTypeCorrect == Spec => []TypeOK
  <1>1. Init => TypeOK
    BY FaultsAssumption DEF Init, TypeOK, NotStarted, RunStates, Kinds, Cluster
  <1> QED
    BY <1>1, TypeStep, PTL DEF Spec

-----------------------------------------------------------------------------
(* One import per name.                                                     *)

\* An object is there only if those before it in the slice are, of the same
\* import.
SameImport ==
  \A m \in Names : \A k \in Kinds :
    objects[m][k] # None =>
      \A j \in 1..k : /\ objects[m][j] # None
                     /\ objects[m][j].run = objects[m][k].run
                     /\ objects[m][j].source = objects[m][k].source

\* What an import in progress has created so far is there and is its own.
Progress ==
  \A r \in Runs : runs[r].pc = "create" =>
    \A j \in Kinds : j < runs[r].next =>
      LET object == objects[NameOf[runs[r].source]][j]
      IN  object # None /\ object.run = r /\ object.source = runs[r].source

ImportInv == SameImport /\ Progress

\* After a Create the run is still at it only if the call has succeeded.
LEMMA StillCreating ==
  ASSUME TypeOK, NEW r \in Runs, runs[r].pc = "create", NEW ok \in BOOLEAN,
         AfterCreate(r, ok).pc = "create"
  PROVE  /\ ok
         /\ AfterCreate(r, ok).next = runs[r].next + 1
         /\ AfterCreate(r, ok).source = runs[r].source
  <1>1. ok /\ runs[r].next # Secret
    BY ReturnType DEF AfterCreate
  <1> QED
    BY <1>1 DEF AfterCreate, TypeOK, RunStates

\* The two ways in which Create can end.
LEMMA CreateCases ==
  ASSUME TypeOK, NEW r \in Runs, Create(r)
  PROVE  LET s == runs[r].source
             k == runs[r].next
             m == NameOf[s]
             object == [run |-> r, source |-> s, empty |-> k = Secret /\ ~runs[r].fetched]
         IN  /\ s \in Sources /\ k \in Kinds /\ m \in Names /\ runs[r].pc = "create"
             /\ \/ objects[m][k] = None /\ objects' = [objects EXCEPT ![m][k] = object]
                \/ UNCHANGED objects /\ Set(r, AfterCreate(r, FALSE))
             /\ Set(r, AfterCreate(r, TRUE)) \/ Set(r, AfterCreate(r, FALSE))
  BY NameOfAssumption DEF Create, TypeOK, RunStates

\* Writing one object leaves the others alone.
LEMMA PutObject ==
  ASSUME TypeOK, NEW m \in Names, NEW k \in Kinds, NEW o, objects' = [objects EXCEPT ![m][k] = o]
  PROVE  \A n \in Names : \A j \in Kinds :
           objects'[n][j] = IF n = m /\ j = k THEN o ELSE objects[n][j]
  BY DEF TypeOK

\* Create keeps the invariant.
LEMMA CreateKeepsImport ==
  ASSUME TypeOK, ImportInv, NEW r \in Runs, Create(r)
  PROVE  ImportInv'
  <1> DEFINE s == runs[r].source
             k == runs[r].next
             m == NameOf[s]
             object == [run |-> r, source |-> s, empty |-> k = Secret /\ ~runs[r].fetched]
             written == objects[m][k] = None /\ objects' = [objects EXCEPT ![m][k] = object]
  <1>1. s \in Sources /\ k \in Kinds /\ m \in Names /\ runs[r].pc = "create"
    BY CreateCases
  <1>2. written \/ (UNCHANGED objects /\ Set(r, AfterCreate(r, FALSE)))
    BY CreateCases
  <1>3. object.run = r /\ object.source = s /\ object # None
    <2>1. object \in Objects
      BY <1>1 DEF Objects
    <2> QED
      BY <2>1, NoneAssumption DEF Objects
  <1>4. \A n \in Names : \A j \in Kinds :
          \/ objects'[n][j] = objects[n][j]
          \/ n = m /\ j = k /\ objects[n][j] = None /\ objects'[n][j] = object
    <2>1. CASE written
      BY <1>1, <2>1, PutObject
    <2>2. CASE UNCHANGED objects
      BY <2>2
    <2> QED
      BY <1>2, <2>1, <2>2
  <1>5. \A j \in Kinds : j < k =>
          objects[m][j] # None /\ objects[m][j].run = r /\ objects[m][j].source = s
    BY <1>1 DEF ImportInv, Progress
  <1>6. SameImport'
    <2> SUFFICES ASSUME NEW n \in Names, NEW i \in Kinds, objects'[n][i] # None, NEW j \in 1..i
                 PROVE  /\ objects'[n][j] # None
                        /\ objects'[n][j].run = objects'[n][i].run
                        /\ objects'[n][j].source = objects'[n][i].source
      BY DEF SameImport
    <2>1. j \in Kinds /\ j <= i
      BY DEF Kinds
    <2>2. CASE objects[n][i] # None
      <3>1. /\ objects[n][j] # None
            /\ objects[n][j].run = objects[n][i].run
            /\ objects[n][j].source = objects[n][i].source
        BY <2>2 DEF ImportInv, SameImport
      <3> QED
        BY <1>4, <2>1, <2>2, <3>1
    <2>3. CASE objects[n][i] = None
      <3>1. n = m /\ i = k /\ objects'[n][i] = object
        BY <1>4, <2>3
      <3>2. CASE j = k
        BY <1>3, <3>1, <3>2
      <3>3. CASE j # k
        <4>1. j < k
          BY <2>1, <3>1, <3>3 DEF Kinds
        <4> QED
          BY <1>3, <1>4, <1>5, <2>1, <3>1, <4>1
      <3> QED
        BY <3>2, <3>3
    <2> QED
      BY <2>2, <2>3
  <1>7. Progress'
    <2> SUFFICES ASSUME NEW q \in Runs, runs'[q].pc = "create", NEW j \in Kinds, j < runs'[q].next
                 PROVE  LET o == objects'[NameOf[runs'[q].source]][j]
                        IN  o # None /\ o.run = q /\ o.source = runs'[q].source
      BY DEF Progress
    <2>1. CASE q # r
      <3>1. runs'[q] = runs[q]
        BY <2>1, CreateCases DEF Set, TypeOK
      <3>2. runs[q].source \in Sources /\ NameOf[runs[q].source] \in Names
        BY <3>1, NameOfAssumption DEF TypeOK
      <3>3. LET o == objects[NameOf[runs[q].source]][j]
            IN  o # None /\ o.run = q /\ o.source = runs[q].source
        BY <3>1 DEF ImportInv, Progress
      <3> QED
        BY <1>4, <3>1, <3>2, <3>3
    <2>2. CASE q = r
      <3>1. PICK ok \in BOOLEAN : Set(r, AfterCreate(r, ok))
        BY CreateCases
      <3>2. runs'[r] = AfterCreate(r, ok)
        BY <3>1 DEF Set, TypeOK
      <3>3. ok /\ runs'[r].next = k + 1 /\ runs'[r].source = s
        BY <1>1, <2>2, <3>2, StillCreating
      <3>4. written
        <4>1. CASE Set(r, AfterCreate(r, FALSE))
          <5>1. runs'[r] = AfterCreate(r, FALSE)
            BY <4>1 DEF Set, TypeOK
          <5> QED
            BY <1>1, <2>2, <5>1, StillCreating
        <4> QED
          BY <1>2, <4>1
      <3>5. CASE j = k
        BY <1>1, <1>3, <2>2, <3>3, <3>4, <3>5 DEF TypeOK
      <3>6. CASE j # k
        <4>1. j < k
          BY <1>1, <2>2, <3>3, <3>6 DEF Kinds
        <4> QED
          BY <1>1, <1>4, <1>5, <2>2, <3>3, <4>1
      <3> QED
        BY <3>5, <3>6
    <2> QED
      BY <2>1, <2>2
  <1> QED
    BY <1>6, <1>7 DEF ImportInv

LEMMA ImportInvStep == TypeOK /\ ImportInv /\ [Next]_vars => ImportInv'
  <1> SUFFICES ASSUME TypeOK, ImportInv, [Next]_vars PROVE ImportInv'
    OBVIOUS
  <1>1. ASSUME NEW r \in Runs, Create(r) PROVE ImportInv'
    BY <1>1, CreateKeepsImport
  <1>2. ASSUME NEW r \in Runs, StartSingle(r) \/ StartQbert(r) \/ NextQbertCluster(r) \/ Kill(r)
        PROVE  ImportInv'
    <2>1. UNCHANGED objects
      BY <1>2 DEF StartSingle, StartQbert, NextQbertCluster, Kill
    <2>2. runs'[r].pc = "create" => runs'[r].next = Cluster
      <3>1. runs[r] \in RunStates
        BY DEF TypeOK
      <3>2. /\ [runs[r] EXCEPT !.pc = "failed"].pc # "create"
            /\ [runs[r] EXCEPT !.pc = "done"].pc # "create"
            /\ [runs[r] EXCEPT !.pc = "loop", !.todo = Sources].pc # "create"
        BY <3>1 DEF RunStates
      <3>3. ASSUME NEW s \in Sources, NEW fetched, NEW todo, Import(r, s, fetched, todo)
            PROVE  runs'[r].next = Cluster
        BY <3>3 DEF Import, Set, TypeOK
      <3>4. ASSUME NEW state, Set(r, state), state.pc # "create" PROVE runs'[r].pc # "create"
        BY <3>4 DEF Set, TypeOK
      <3>5. CASE StartSingle(r)
        BY <3>2, <3>3, <3>4, <3>5 DEF StartSingle
      <3>6. CASE StartQbert(r)
        BY <3>2, <3>4, <3>6 DEF StartQbert
      <3>7. CASE NextQbertCluster(r)
        <4>1. runs[r].todo \subseteq Sources
          BY <3>1 DEF RunStates
        <4> QED
          BY <3>2, <3>3, <3>4, <3>7, <4>1 DEF NextQbertCluster
      <3>8. CASE Kill(r)
        BY <3>2, <3>4, <3>8 DEF Kill
      <3> QED
        BY <1>2, <3>5, <3>6, <3>7, <3>8
    <2>3. \A q \in Runs : q # r => runs'[q] = runs[q]
      BY <1>2 DEF StartSingle, StartQbert, NextQbertCluster, Kill, Import, Set, TypeOK
    <2>4. SameImport'
      BY <2>1 DEF ImportInv, SameImport
    <2>5. Progress'
      BY <2>1, <2>2, <2>3 DEF ImportInv, Progress, Cluster, Kinds
    <2> QED
      BY <2>4, <2>5 DEF ImportInv
  <1>3. ASSUME NEW m \in Names, CleanUp(m) PROVE ImportInv'
    <2>1. \A n \in Names : \A k \in Kinds : objects'[n][k] = IF n = m THEN None ELSE objects[n][k]
      BY <1>3 DEF CleanUp, TypeOK
    <2>2. SameImport'
      BY <2>1 DEF ImportInv, SameImport, Kinds
    <2>3. Progress'
      BY <1>3, <2>1, NameOfAssumption DEF CleanUp, ImportInv, Progress, TypeOK
    <2> QED
      BY <2>2, <2>3 DEF ImportInv
  <1>4. CASE UNCHANGED vars
    BY <1>4 DEF vars, ImportInv, SameImport, Progress
  <1> QED
    BY <1>1, <1>2, <1>3, <1>4 DEF Next, Step

LEMMA ImportIsInvariant == Spec => []ImportInv
  <1>1. Init => ImportInv
    BY DEF Init, ImportInv, SameImport, Progress, NotStarted
  <1> QED
    BY <1>1, ImportInvStep, ImportTypeCorrect, PTL DEF Spec

\* The objects of a name always come from one invocation and stand for one
\* external cluster, for any number of invocations and any clash of names.
THEOREM NamesAreNotMixed == Spec => []OneImport
  <1>1. ImportInv => OneImport
    <2> SUFFICES ASSUME ImportInv, NEW m \in Names, NEW j \in Kinds, NEW k \in Kinds,
                        objects[m][j] # None, objects[m][k] # None
                 PROVE  objects[m][j].run = objects[m][k].run /\ objects[m][j].source = objects[m][k].source
      BY DEF OneImport
    <2>1. j \in 1..k \/ k \in 1..j
      BY DEF Kinds
    <2> QED
      BY <2>1 DEF ImportInv, SameImport
  <1> QED
    BY <1>1, ImportIsInvariant, PTL

\* Nothing is there without what comes before it in the slice.
THEOREM ResourcesInOrder == Spec => []NoGaps
  <1>1. ImportInv => NoGaps
    BY DEF ImportInv, SameImport, NoGaps
  <1> QED
    BY <1>1, ImportIsInvariant, PTL

\* What an invocation has created is behind it: not of the external clusters on
\* its list, and of the current one only what comes before the next resource.
IsBehind(k, object, run) ==
  /\ run.pc # "new"
  /\ object.source \notin run.todo
  /\ run.pc = "create" /\ run.source = object.source => k < run.next

Behind ==
  /\ \A r \in Runs : runs[r].pc = "create" => runs[r].source \notin runs[r].todo
  /\ \A m \in Names : \A k \in Kinds :
       objects[m][k] # None => IsBehind(k, objects[m][k], runs[objects[m][k].run])

\* No invocation goes backwards, so it leaves behind what was behind it.
LEMMA StaysBehind ==
  ASSUME TypeOK, Behind, NEW r \in Runs, NEW state \in RunStates, Set(r, state),
         state.pc # "new",
         state.pc = "create" => state.source \notin state.todo,
         runs[r].pc = "new" \/ state.todo \subseteq runs[r].todo,
         state.pc = "create" /\ runs[r].pc # "new" =>
           \/ state.source \in runs[r].todo
           \/ runs[r].pc = "create" /\ state.source = runs[r].source /\ state.next >= runs[r].next
  PROVE  /\ \A q \in Runs : runs'[q].pc = "create" => runs'[q].source \notin runs'[q].todo
         /\ \A m \in Names : \A k \in Kinds :
              objects[m][k] # None => IsBehind(k, objects[m][k], runs'[objects[m][k].run])
  <1>1. runs'[r] = state /\ \A q \in Runs : q # r => runs'[q] = runs[q]
    BY DEF Set, TypeOK
  <1>2. \A q \in Runs : runs'[q].pc = "create" => runs'[q].source \notin runs'[q].todo
    BY <1>1 DEF Behind
  <1>3. ASSUME NEW m \in Names, NEW k \in Kinds, objects[m][k] # None
        PROVE  IsBehind(k, objects[m][k], runs'[objects[m][k].run])
    <2> DEFINE q == objects[m][k].run
    <2>1. q \in Runs /\ IsBehind(k, objects[m][k], runs[q])
      BY <1>3 DEF TypeOK, Objects, Behind
    <2>2. k \in Nat /\ state.next \in Nat /\ runs[r].next \in Nat
      BY DEF TypeOK, RunStates, Kinds
    <2> QED
      BY <1>1, <2>1, <2>2 DEF IsBehind
  <1> QED
    BY <1>2, <1>3

LEMMA CreateStaysBehind ==
  ASSUME TypeOK, Behind, NEW r \in Runs, Create(r)
  PROVE  Behind'
  <1> DEFINE s == runs[r].source
             k == runs[r].next
             m == NameOf[s]
             object == [run |-> r, source |-> s, empty |-> k = Secret /\ ~runs[r].fetched]
  <1>1. s \in Sources /\ k \in Kinds /\ m \in Names /\ runs[r].pc = "create" /\ s \notin runs[r].todo
    BY CreateCases DEF Behind
  <1>2. PICK ok \in BOOLEAN : Set(r, AfterCreate(r, ok))
    BY CreateCases
  <1>3. /\ AfterCreate(r, ok) \in RunStates
        /\ AfterCreate(r, ok).pc # "new"
        /\ AfterCreate(r, ok).todo = runs[r].todo
        /\ AfterCreate(r, ok).pc = "create" => AfterCreate(r, ok).source = s /\ AfterCreate(r, ok).next = k + 1
    BY <1>1 DEF AfterCreate, Returned, TypeOK, RunStates, Kinds, Secret
  <1>4. runs'[r] = AfterCreate(r, ok)
    BY <1>2 DEF Set, TypeOK
  <1>5. k \in Nat /\ k + 1 >= k
    BY <1>1 DEF Kinds
  <1>6. /\ \A q \in Runs : runs'[q].pc = "create" => runs'[q].source \notin runs'[q].todo
        /\ \A n \in Names : \A j \in Kinds :
             objects[n][j] # None => IsBehind(j, objects[n][j], runs'[objects[n][j].run])
    BY <1>1, <1>2, <1>3, <1>5, StaysBehind
  <1>7. CASE UNCHANGED objects
    BY <1>6, <1>7 DEF Behind
  <1>8. CASE objects' = [objects EXCEPT ![m][k] = object]
    <2>1. object.run = r /\ object.source = s
      OBVIOUS
    <2>2. IsBehind(k, object, runs'[r])
      BY <1>1, <1>3, <1>4, <1>5, <2>1 DEF IsBehind
    <2> HIDE DEF object
    <2>3. \A n \in Names : \A j \in Kinds :
            objects'[n][j] = IF n = m /\ j = k THEN object ELSE objects[n][j]
      BY <1>1, <1>8 DEF TypeOK
    <2> QED
      BY <1>6, <2>1, <2>2, <2>3 DEF Behind
  <1> QED
    BY <1>7, <1>8, CreateCases

LEMMA BehindStep == TypeOK /\ Behind /\ [Next]_vars => Behind'
  <1> SUFFICES ASSUME TypeOK, Behind, [Next]_vars PROVE Behind'
    OBVIOUS
  <1>1. ASSUME NEW r \in Runs, Create(r) PROVE Behind'
    BY <1>1, CreateStaysBehind
  <1>2. ASSUME NEW r \in Runs, StartSingle(r) \/ StartQbert(r) \/ NextQbertCluster(r) \/ Kill(r)
        PROVE  Behind'
    <2>1. UNCHANGED objects
      BY <1>2 DEF StartSingle, StartQbert, NextQbertCluster, Kill
    <2>2. runs[r] \in RunStates
      BY DEF TypeOK
    <2>3. ASSUME NEW pc \in {"loop", "done", "failed"}, Set(r, [runs[r] EXCEPT !.pc = pc])
          PROVE  Behind'
      BY <2>1, <2>2, <2>3, StaysBehind DEF RunStates, Behind
    <2>4. ASSUME NEW s \in Sources, NEW fetched \in BOOLEAN, NEW todo \in SUBSET Sources,
                 Import(r, s, fetched, todo), s \notin todo,
                 runs[r].pc = "new" \/ (s \in runs[r].todo /\ todo \subseteq runs[r].todo)
          PROVE  Behind'
      <3> DEFINE state == [pc |-> "create", todo |-> todo, source |-> s, fetched |-> fetched,
                           next |-> Cluster]
      <3>1. state \in RunStates
        BY DEF RunStates, Kinds, Cluster
      <3> QED
        BY <2>1, <2>4, <3>1, StaysBehind DEF Import, Behind
    <2>5. CASE StartSingle(r)
      <3>1. ASSUME NEW s \in Sources, Import(r, s, TRUE, {}) PROVE Behind'
        <4>1. TRUE \in BOOLEAN /\ {} \in SUBSET Sources /\ s \notin {} /\ runs[r].pc = "new"
          BY <2>5 DEF StartSingle
        <4> QED
          BY <2>4, <3>1, <4>1
      <3> QED
        BY <2>3, <2>5, <3>1 DEF StartSingle
    <2>6. CASE StartQbert(r)
      <3>1. CASE Set(r, [runs[r] EXCEPT !.pc = "loop", !.todo = Sources])
        BY <2>1, <2>2, <2>6, <3>1, StaysBehind DEF StartQbert, RunStates, Behind
      <3> QED
        BY <2>3, <2>6, <3>1 DEF StartQbert
    <2>7. CASE NextQbertCluster(r)
      <3>1. runs[r].todo \subseteq Sources
        BY <2>2 DEF RunStates
      <3> QED
        BY <2>3, <2>4, <2>7, <3>1 DEF NextQbertCluster
    <2>8. CASE Kill(r)
      BY <2>3, <2>8 DEF Kill
    <2> QED
      BY <1>2, <2>5, <2>6, <2>7, <2>8
  <1>3. ASSUME NEW m \in Names, CleanUp(m) PROVE Behind'
    <2>1. \A n \in Names : \A k \in Kinds : objects'[n][k] \in {None, objects[n][k]}
      BY <1>3 DEF CleanUp, TypeOK
    <2> QED
      BY <1>3, <2>1 DEF CleanUp, Behind
  <1>4. CASE UNCHANGED vars
    BY <1>4 DEF vars, Behind
  <1> QED
    BY <1>1, <1>2, <1>3, <1>4 DEF Next, Step

\* Nobody comes between an import and a name whose Cluster it has created: what it
\* is about to create is not there, for any number of invocations and any names.
THEOREM ClaimsAreExclusive == Spec => []ClaimIsExclusive
  <1>1. Init => Behind
    BY DEF Init, Behind, NotStarted
  <1>2. TypeOK /\ ImportInv /\ Behind => ClaimIsExclusive
    <2> SUFFICES ASSUME TypeOK, ImportInv, Behind, NEW r \in Runs,
                        runs[r].pc = "create", runs[r].next # Cluster,
                        objects[NameOf[runs[r].source]][runs[r].next] # None
                 PROVE  FALSE
      BY DEF ClaimIsExclusive
    <2> DEFINE name == objects[NameOf[runs[r].source]]
               next == runs[r].next
    <2>1. NameOf[runs[r].source] \in Names /\ next \in Kinds /\ Cluster \in 1..next /\ Cluster < next
      BY NameOfAssumption DEF TypeOK, RunStates, Kinds, Cluster
    <2>2. name[Cluster].run = r /\ name[Cluster].source = runs[r].source
      BY <2>1 DEF ImportInv, Progress, Kinds, Cluster
    <2>3. name[next].run = r /\ name[next].source = runs[r].source
      BY <2>1, <2>2 DEF ImportInv, SameImport
    <2>4. next < next
      BY <2>1, <2>3 DEF Behind, IsBehind
    <2> QED
      BY <2>1, <2>4 DEF Kinds
  <1> QED
    BY <1>1, <1>2, BehindStep, ImportIsInvariant, ImportTypeCorrect, PTL DEF Spec

\* The last Create succeeds only when the other three have, so a single import
\* reports success only when the four objects are its own.
THEOREM SuccessIsImported == Spec => SuccessMeansImported
  <1> DEFINE Goal(r) == \A k \in Kinds : LET object == objects'[NameOf[runs[r].source]][k]
                                         IN  object # None /\ object.run = r
             Succeeds == \A r \in Runs \ Qbert :
                           runs[r].pc # "done" /\ runs'[r].pc = "done" => Goal(r)
  <1>1. TypeOK /\ ImportInv /\ [Next]_vars => [Succeeds]_vars
    <2> SUFFICES ASSUME TypeOK, ImportInv, Next, NEW r \in Runs, r \notin Qbert,
                        runs[r].pc # "done", runs'[r].pc = "done"
                 PROVE  Goal(r)
      OBVIOUS
    <2>1. Create(r)
      <3>1. PICK q \in Runs : Step(q) \/ Kill(q)
        BY DEF Next, CleanUp
      <3>2. q = r
        BY <3>1 DEF Step, StartSingle, StartQbert, NextQbertCluster, Create, Kill, Import, Set, TypeOK
      <3>3. /\ [runs[r] EXCEPT !.pc = "failed"] \in RunStates
            /\ [runs[r] EXCEPT !.pc = "failed"].pc = "failed"
        BY DEF TypeOK, RunStates
      <3>4. ~Kill(r)
        BY <3>3 DEF Kill, Set, TypeOK
      <3>5. ~StartSingle(r)
        <4>1. ASSUME NEW s, Import(r, s, TRUE, {}) PROVE runs'[r].pc = "create"
          BY <4>1 DEF Import, Set, TypeOK
        <4>2. Set(r, [runs[r] EXCEPT !.pc = "failed"]) => runs'[r].pc = "failed"
          BY <3>3 DEF Set, TypeOK
        <4> QED
          BY <4>1, <4>2 DEF StartSingle
      <3> QED
        BY <3>1, <3>2, <3>4, <3>5 DEF Step, StartQbert, NextQbertCluster
    <2> DEFINE s == runs[r].source
               k == runs[r].next
               m == NameOf[s]
               object == [run |-> r, source |-> s, empty |-> k = Secret /\ ~runs[r].fetched]
    <2>2. s \in Sources /\ k \in Kinds /\ m \in Names /\ runs[r].pc = "create" /\ runs[r] \in RunStates
      BY <2>1, CreateCases DEF TypeOK
    <2>3. AfterCreate(r, FALSE).pc = "failed"
      BY <2>2 DEF AfterCreate, Returned, RunStates
    <2>4. runs'[r] # AfterCreate(r, FALSE)
      BY <2>3
    <2>5. ~Set(r, AfterCreate(r, FALSE))
      BY <2>4 DEF Set, TypeOK
    <2>6. objects' = [objects EXCEPT ![m][k] = object] /\ Set(r, AfterCreate(r, TRUE))
      BY <2>1, <2>5, CreateCases
    <2>7. k = Secret
      <3>1. runs'[r] = AfterCreate(r, TRUE)
        BY <2>6 DEF Set, TypeOK
      <3>2. k # Secret => AfterCreate(r, TRUE).pc = "create"
        BY <2>2 DEF AfterCreate, RunStates
      <3> QED
        BY <3>1, <3>2
    <2>8. object \in Objects /\ object.run = r
      BY <2>2 DEF Objects
    <2>9. ASSUME NEW j \in Kinds PROVE objects'[m][j] # None /\ objects'[m][j].run = r
      <3> HIDE DEF object
      <3>1. CASE j = k
        <4>1. objects'[m][j] = object
          BY <2>2, <2>6, <3>1 DEF TypeOK
        <4> QED
          BY <2>8, <4>1, NoneAssumption DEF Objects
      <3>2. CASE j # k
        <4>1. j < k
          BY <2>7, <3>2 DEF Kinds, Secret
        <4>2. objects'[m][j] = objects[m][j]
          BY <2>2, <2>6, <3>2, PutObject
        <4> QED
          BY <2>2, <4>1, <4>2 DEF ImportInv, Progress
      <3> QED
        BY <3>1, <3>2
    <2> QED
      BY <2>9
  <1> QED
    BY <1>1, ImportTypeCorrect, ImportIsInvariant, PTL DEF Spec, SuccessMeansImported

-----------------------------------------------------------------------------
(* Every invocation makes finitely many calls.                              *)

\* Without kubeconfigs and errors: how many calls a run can still make.
LEMMA CallsLeftAt ==
  ASSUME NEW run \in RunStates, IsFiniteSet(Sources)
  PROVE  /\ Cardinality(run.todo) \in Nat
         /\ run.pc = "loop" => CallsLeft(run) = 5 * Cardinality(run.todo) + 1
         /\ run.pc = "create" => CallsLeft(run) = 5 * Cardinality(run.todo) + 6 - run.next
         /\ run.pc \in {"done", "failed"} => CallsLeft(run) = 5 * Cardinality(run.todo)
  <1>1. Cardinality(run.todo) \in Nat
    BY FS_Subset, FS_CardinalityType DEF RunStates
  <1>2. run.next \in Nat
    BY DEF RunStates, Kinds
  <1> QED
    BY <1>1, <1>2 DEF CallsLeft, Secret

\* A run that is at a call has calls to make.
LEMMA ReturnedAdvances ==
  ASSUME IsFiniteSet(Sources), TypeOK, NEW r \in Runs, runs[r].pc = "create", NEW ok \in BOOLEAN
  PROVE  CallsLeft(Returned(r, ok)) < CallsLeft(runs[r])
  <1>1. runs[r] \in RunStates /\ Returned(r, ok) \in RunStates
    BY ReturnType DEF TypeOK
  <1>2. Returned(r, ok).todo = runs[r].todo /\ Returned(r, ok).pc \in {"loop", "done", "failed"}
    BY <1>1, ReturnType DEF Returned, RunStates
  <1>3. runs[r].next \in 1..4
    BY <1>1 DEF RunStates, Kinds
  <1> QED
    BY <1>1, <1>2, <1>3, CallsLeftAt

LEMMA AfterCreateAdvances ==
  ASSUME IsFiniteSet(Sources), TypeOK, NEW r \in Runs, runs[r].pc = "create", NEW ok \in BOOLEAN
  PROVE  CallsLeft(AfterCreate(r, ok)) < CallsLeft(runs[r])
  <1>1. CASE ~ok \/ runs[r].next = Secret
    BY <1>1, ReturnedAdvances DEF AfterCreate
  <1>2. CASE ok /\ runs[r].next # Secret
    <2>1. runs[r] \in RunStates /\ AfterCreate(r, ok) \in RunStates
      BY AfterCreateType DEF TypeOK
    <2>2. /\ AfterCreate(r, ok).todo = runs[r].todo /\ AfterCreate(r, ok).pc = "create"
          /\ AfterCreate(r, ok).next = runs[r].next + 1 /\ runs[r].next \in 1..4
      BY <1>2, <2>1 DEF AfterCreate, RunStates, Kinds
    <2> QED
      BY <2>1, <2>2, CallsLeftAt
  <1> QED
    BY <1>1, <1>2

\* Being killed, or the end of the loop, is the end.
LEMMA StopAdvances ==
  ASSUME IsFiniteSet(Sources), TypeOK, NEW r \in Runs, runs[r].pc \in {"loop", "create"},
         NEW pc \in {"done", "failed"}
  PROVE  CallsLeft([runs[r] EXCEPT !.pc = pc]) < CallsLeft(runs[r])
  <1> DEFINE stopped == [runs[r] EXCEPT !.pc = pc]
  <1>1. runs[r] \in RunStates
    BY DEF TypeOK
  <1>2. stopped \in RunStates /\ stopped.todo = runs[r].todo /\ stopped.pc = pc
    BY <1>1 DEF RunStates
  <1>3. runs[r].next \in 1..4
    BY <1>1 DEF RunStates, Kinds
  <1>4. CallsLeft(stopped) < CallsLeft(runs[r])
    <2> HIDE DEF stopped
    <2> QED
      BY <1>1, <1>2, <1>3, CallsLeftAt
  <1> QED
    BY <1>4

\* The next qbert cluster is one of those that are left.
LEMMA NextAdvances ==
  ASSUME IsFiniteSet(Sources), TypeOK, NEW r \in Runs, runs[r].pc = "loop",
         NEW s \in runs[r].todo, NEW fetched \in BOOLEAN, Import(r, s, fetched, runs[r].todo \ {s})
  PROVE  CallsLeft(runs'[r]) < CallsLeft(runs[r])
  <1> DEFINE todo == runs[r].todo
             next == [pc |-> "create", todo |-> todo \ {s}, source |-> s, fetched |-> fetched,
                      next |-> Cluster]
  <1>1. runs[r] \in RunStates /\ todo \in SUBSET Sources /\ IsFiniteSet(todo)
    BY FS_Subset DEF TypeOK, RunStates
  <1>2. runs'[r] = next
    BY DEF Import, Set, TypeOK
  <1>3. next \in RunStates
    BY <1>1, ImportType
  <1>4. Cardinality(todo \ {s}) = Cardinality(todo) - 1
    BY <1>1, FS_RemoveElement
  <1>5. next.pc = "create" /\ next.todo = todo \ {s} /\ next.next = 1
    BY DEF Cluster
  <1>6. CallsLeft(next) = 5 * Cardinality(todo \ {s}) + 5
    <2> HIDE DEF next
    <2>1. CallsLeft(next) = 5 * Cardinality(next.todo) + 6 - next.next
      BY <1>3, <1>5, CallsLeftAt
    <2>2. Cardinality(next.todo) \in Nat
      BY <1>3, CallsLeftAt
    <2> QED
      BY <1>5, <2>1, <2>2
  <1>7. CallsLeft(runs[r]) = 5 * Cardinality(todo) + 1 /\ Cardinality(todo) \in Nat
    BY <1>1, CallsLeftAt
  <1> QED
    BY <1>2, <1>4, <1>6, <1>7

\* RunAdvances: an invocation, over any finite number of external clusters and
\* next to any number of others, never starts over.
THEOREM RunsAdvance == IsFiniteSet(Sources) /\ Spec => RunAdvances
  <1> SUFFICES ASSUME IsFiniteSet(Sources) PROVE Spec => RunAdvances
    OBVIOUS
  <1> DEFINE Advance == \A r \in Runs : runs[r].pc # "new" /\ (Step(r) \/ runs'[r] # runs[r]) =>
                                         CallsLeft(runs'[r]) < CallsLeft(runs[r])
  <1>1. TypeOK /\ [Next]_vars => [Advance]_vars
    <2> SUFFICES ASSUME TypeOK, Next, NEW r \in Runs, runs[r].pc # "new",
                        Step(r) \/ runs'[r] # runs[r]
                 PROVE  CallsLeft(runs'[r]) < CallsLeft(runs[r])
      OBVIOUS
    <2>1. ASSUME NEW q \in Runs, q # r, Step(q) \/ Kill(q) PROVE runs'[r] = runs[r]
      BY <2>1 DEF Step, Kill, StartSingle, StartQbert, NextQbertCluster, Create, Import, Set, TypeOK
    <2>2. \A m \in Names : CleanUp(m) => UNCHANGED runs
      BY DEF CleanUp
    <2>3. NextQbertCluster(r) \/ Create(r) \/ Kill(r)
      BY <2>1, <2>2 DEF Next, Step, StartSingle, StartQbert
    <2>4. CASE NextQbertCluster(r)
      <3>1. runs[r].pc = "loop"
        BY <2>4 DEF NextQbertCluster
      <3>2. CASE Set(r, [runs[r] EXCEPT !.pc = "done"])
        <4>1. runs'[r] = [runs[r] EXCEPT !.pc = "done"]
          BY <3>2 DEF Set, TypeOK
        <4> QED
          BY <3>1, <4>1, StopAdvances
      <3> QED
        BY <2>4, <3>1, <3>2, NextAdvances DEF NextQbertCluster
    <2>5. CASE Create(r)
      <3>1. PICK ok \in BOOLEAN : Set(r, AfterCreate(r, ok))
        BY <2>5, CreateCases
      <3>2. runs'[r] = AfterCreate(r, ok)
        BY <3>1 DEF Set, TypeOK
      <3> QED
        BY <2>5, <3>2, AfterCreateAdvances DEF Create
    <2>6. CASE Kill(r)
      <3>1. runs'[r] = [runs[r] EXCEPT !.pc = "failed"] /\ runs[r].pc \in {"loop", "create"}
        BY <2>6 DEF Kill, Set, TypeOK
      <3> QED
        BY <3>1, StopAdvances
    <2> QED
      BY <2>3, <2>4, <2>5, <2>6
  <1> QED
    BY <1>1, ImportTypeCorrect, PTL DEF Spec, RunAdvances

-----------------------------------------------------------------------------
(* Importing implements the claiming of names.                              *)

\* A name whose objects stay keeps its owner and stays as complete as it is.
LEMMA SameNameSameClaim ==
  ASSUME NEW m \in Names, \A k \in Kinds : objects'[m][k] = objects[m][k]
  PROVE  OwnerOf(m)' = OwnerOf(m) /\ IsComplete(m)' = IsComplete(m)
  <1>1. objects'[m][Cluster] = objects[m][Cluster]
    BY DEF Kinds, Cluster
  <1>2. OwnerOf(m)' = OwnerOf(m)
    BY <1>1 DEF OwnerOf
  <1> QED
    BY <1>2 DEF IsComplete

\* The first object claims the name, the last completes it, and the two in
\* between change nothing the abstract specification sees.
LEMMA CreateClaims ==
  ASSUME TypeOK, ImportInv, NEW r \in Runs, Create(r), ~UNCHANGED objects
  PROVE  \E m \in Names, s \in Sources, k \in Kinds :
           /\ \A n \in Names : n # m => OwnerOf(n)' = OwnerOf(n) /\ IsComplete(n)' = IsComplete(n)
           /\ k = Cluster => /\ OwnerOf(m) = None /\ OwnerOf(m)' = <<r, s>>
                             /\ IsComplete(m) = FALSE /\ IsComplete(m)' = FALSE
           /\ k # Cluster => /\ OwnerOf(m) = <<r, s>> /\ OwnerOf(m)' = <<r, s>>
                             /\ IsComplete(m) = FALSE
                             /\ IsComplete(m)' = IF k = Secret THEN TRUE ELSE FALSE
  <1>0. PICK s \in Sources, k \in Kinds, object \in Objects :
          /\ runs[r].pc = "create" /\ runs[r].source = s /\ runs[r].next = k
          /\ object.run = r /\ object.source = s
          /\ objects[NameOf[s]][k] = None
          /\ objects' = [objects EXCEPT ![NameOf[s]][k] = object]
    <2> DEFINE empty == runs[r].next = Secret /\ ~runs[r].fetched
    <2>1. runs[r].source \in Sources /\ runs[r].next \in Kinds /\ runs[r].pc = "create"
      BY CreateCases
    <2> DEFINE s == runs[r].source
               k == runs[r].next
               object == [run |-> r, source |-> s, empty |-> empty]
    <2>2. object \in Objects
      BY <2>1 DEF Objects
    <2>3. objects[NameOf[s]][k] = None /\ objects' = [objects EXCEPT ![NameOf[s]][k] = object]
      BY CreateCases
    <2>4. object.run = r /\ object.source = s
      OBVIOUS
    <2> HIDE DEF object
    <2> QED
      BY <2>1, <2>2, <2>3, <2>4
  <1>1. PICK m \in Names : m = NameOf[s]
    BY NameOfAssumption
  <1>2. \A n \in Names : \A j \in Kinds :
          objects'[n][j] = IF n = m /\ j = k THEN object ELSE objects[n][j]
    BY <1>0, <1>1 DEF TypeOK
  <1>3. object # None
    BY <1>0, NoneAssumption DEF Objects
  <1>4. \A n \in Names : n # m => OwnerOf(n)' = OwnerOf(n) /\ IsComplete(n)' = IsComplete(n)
    BY <1>2, SameNameSameClaim
  <1>5. IsComplete(m) = FALSE
    BY <1>0, <1>1 DEF IsComplete
  <1>6. \A j \in Kinds : j < k =>
          objects[m][j] # None /\ objects[m][j].run = r /\ objects[m][j].source = s
    BY <1>0, <1>1 DEF ImportInv, Progress
  <1>7. \A j \in Kinds : j > k => objects'[m][j] = None
    <2> SUFFICES ASSUME NEW j \in Kinds, j > k PROVE objects[m][j] = None
      BY <1>0, <1>1, <1>2 DEF Kinds
    <2>1. k \in 1..j
      BY DEF Kinds
    <2> QED
      BY <1>0, <1>1, <2>1 DEF ImportInv, SameImport
  <1>8. Cluster \in Kinds /\ Secret \in Kinds
    BY DEF Kinds, Cluster, Secret
  <1>9. k # Secret => IsComplete(m)' = FALSE
    <2>1. k # Secret => objects'[m][Secret] = None
      BY <1>7, <1>8 DEF Kinds, Secret
    <2> QED
      BY <1>8, <2>1 DEF IsComplete
  <1>10. ASSUME k = Cluster PROVE OwnerOf(m) = None /\ OwnerOf(m)' = <<r, s>>
    <2>1. objects[m][Cluster] = None /\ objects'[m][Cluster] = object
      BY <1>0, <1>1, <1>2, <1>8, <1>10
    <2> QED
      BY <1>0, <1>3, <2>1 DEF OwnerOf
  <1>11. ASSUME k # Cluster
         PROVE  /\ OwnerOf(m) = <<r, s>> /\ OwnerOf(m)' = <<r, s>>
                /\ k = Secret => IsComplete(m)' = TRUE
    <2>1. /\ objects[m][Cluster] # None
          /\ objects[m][Cluster].run = r /\ objects[m][Cluster].source = s
      BY <1>6, <1>8, <1>11 DEF Kinds, Cluster
    <2>2. objects'[m][Cluster] = objects[m][Cluster]
      BY <1>0, <1>1, <1>2, <1>8, <1>11
    <2>3. OwnerOf(m) = <<r, s>> /\ OwnerOf(m)' = <<r, s>>
      BY <2>1, <2>2 DEF OwnerOf
    <2>4. ASSUME k = Secret, NEW j \in Kinds
          PROVE  objects'[m][j] # None /\ <<objects'[m][j].run, objects'[m][j].source>> = <<r, s>>
      <3>1. CASE j = k
        BY <1>0, <1>1, <1>2, <1>3, <3>1
      <3>2. CASE j # k
        <4>1. j < k /\ objects'[m][j] = objects[m][j]
          BY <1>0, <1>1, <1>2, <2>4, <3>2 DEF Kinds, Secret
        <4> QED
          BY <1>6, <4>1
      <3> QED
        BY <3>1, <3>2
    <2> QED
      BY <2>3, <2>4 DEF IsComplete
  <1>12. k = Cluster => /\ OwnerOf(m) = None /\ OwnerOf(m)' = <<r, s>>
                        /\ IsComplete(m) = FALSE /\ IsComplete(m)' = FALSE
    BY <1>5, <1>9, <1>10 DEF Cluster, Secret
  <1>13. k # Cluster => /\ OwnerOf(m) = <<r, s>> /\ OwnerOf(m)' = <<r, s>>
                        /\ IsComplete(m) = FALSE
                        /\ IsComplete(m)' = IF k = Secret THEN TRUE ELSE FALSE
    BY <1>5, <1>9, <1>11
  <1> QED
    BY <1>4, <1>12, <1>13

\* However many invocations run, fail and are cleaned up after, they only claim
\* free names, complete what they have claimed, and release.
THEOREM ImportsClaimNames == Spec => ClaimsNames
  <1> DEFINE own == [m \in Names |-> OwnerOf(m)]
             comp == [m \in Names |-> IsComplete(m)]
  <1>1. Init => Claims!Init
    <2> SUFFICES ASSUME Init PROVE own = [m \in Names |-> None] /\ comp = [m \in Names |-> FALSE]
      BY DEF Claims!Init
    <2>1. \A m \in Names : OwnerOf(m) = None /\ IsComplete(m) = FALSE
      BY DEF Init, OwnerOf, IsComplete, Kinds, Cluster
    <2> QED
      BY <2>1
  <1>2. TypeOK /\ ImportInv /\ [Next]_vars => [Claims!Next]_(Claims!claims)
    <2> SUFFICES ASSUME TypeOK, ImportInv, [Next]_vars
                 PROVE  Claims!Next \/ (own' = own /\ comp' = comp)
      BY DEF Claims!claims
    <2>1. CASE UNCHANGED objects
      <3>1. \A m \in Names : OwnerOf(m)' = OwnerOf(m) /\ IsComplete(m)' = IsComplete(m)
        BY <2>1, SameNameSameClaim
      <3> QED
        BY <3>1
    <2>2. ASSUME NEW r \in Runs, Create(r), ~UNCHANGED objects
          PROVE  Claims!Next \/ (own' = own /\ comp' = comp)
      <3>1. PICK m \in Names, s \in Sources, k \in Kinds :
              /\ \A n \in Names : n # m => OwnerOf(n)' = OwnerOf(n) /\ IsComplete(n)' = IsComplete(n)
              /\ k = Cluster => /\ OwnerOf(m) = None /\ OwnerOf(m)' = <<r, s>>
                                /\ IsComplete(m) = FALSE /\ IsComplete(m)' = FALSE
              /\ k # Cluster => /\ OwnerOf(m) = <<r, s>> /\ OwnerOf(m)' = <<r, s>>
                                /\ IsComplete(m) = FALSE
                                /\ IsComplete(m)' = IF k = Secret THEN TRUE ELSE FALSE
        BY <2>2, CreateClaims
      <3>2. <<r, s>> \in Runs \X Sources /\ <<r, s>> # None
        BY NoneAssumption
      <3>3. CASE k = Cluster
        <4>1. own[m] = None /\ own' = [own EXCEPT ![m] = <<r, s>>]
          BY <3>1, <3>3
        <4>2. comp' = comp
          BY <3>1, <3>3
        <4> QED
          BY <3>2, <4>1, <4>2 DEF Claims!Next, Claims!Claim
      <3>4. CASE k # Cluster /\ k # Secret
        <4>1. \A n \in Names : OwnerOf(n)' = OwnerOf(n) /\ IsComplete(n)' = IsComplete(n)
          BY <3>1, <3>4
        <4> QED
          BY <4>1
      <3>5. CASE k # Cluster /\ k = Secret
        <4>1. own[m] # None /\ ~comp[m]
          BY <3>1, <3>2, <3>5
        <4>2. own' = own
          BY <3>1, <3>5
        <4>3. comp' = [comp EXCEPT ![m] = TRUE]
          BY <3>1, <3>5
        <4> QED
          BY <4>1, <4>2, <4>3 DEF Claims!Next, Claims!Complete
      <3> QED
        BY <3>3, <3>4, <3>5
    <2>3. ASSUME NEW m \in Names, CleanUp(m) PROVE Claims!Next
      <3>1. \A n \in Names : \A k \in Kinds : objects'[n][k] = IF n = m THEN None ELSE objects[n][k]
        BY <2>3 DEF CleanUp, TypeOK
      <3>2. \A n \in Names : n # m => OwnerOf(n)' = OwnerOf(n) /\ IsComplete(n)' = IsComplete(n)
        BY <3>1, SameNameSameClaim
      <3>3. OwnerOf(m)' = None /\ IsComplete(m)' = FALSE
        BY <3>1 DEF OwnerOf, IsComplete, Kinds, Cluster
      <3>4. OwnerOf(m) # None
        <4>1. objects[m][Cluster] \in Objects
          BY <2>3 DEF CleanUp, TypeOK, Kinds, Cluster
        <4> QED
          BY <2>3, <4>1, NoneAssumption DEF CleanUp, OwnerOf, Objects
      <3>5. own[m] # None /\ own' = [own EXCEPT ![m] = None]
        BY <3>2, <3>3, <3>4
      <3>6. comp' = [comp EXCEPT ![m] = FALSE]
        BY <3>2, <3>3
      <3> QED
        BY <3>5, <3>6 DEF Claims!Next, Claims!Release
    <2>4. \/ UNCHANGED objects
          \/ \E r \in Runs : Create(r)
          \/ \E m \in Names : CleanUp(m)
      BY DEF Next, Step, StartSingle, StartQbert, NextQbertCluster, Kill, vars
    <2> QED
      BY <2>1, <2>2, <2>3, <2>4
  <1> QED
    BY <1>1, <1>2, ImportTypeCorrect, ImportIsInvariant, PTL DEF Spec, ClaimsNames, Claims!Spec

=============================================================================
