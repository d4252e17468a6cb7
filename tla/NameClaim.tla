------------------------------ MODULE NameClaim ------------------------------
(***************************************************************************)
(* What importing promises, without saying how: a name in the management   *)
(* cluster is claimed by one import at a time, only that import completes  *)
(* it, and nothing but a clean-up gives the name back.                     *)
(***************************************************************************)
CONSTANTS
  Names,    \* the names of clusters
  Imports,  \* who may claim a name
  None      \* nobody

VARIABLES
  owner,     \* owner[m]: the import that has claimed m, or None
  complete   \* complete[m]: whether that import is complete

claims == <<owner, complete>>

ClaimTypeOK ==
  /\ owner \in [Names -> Imports \cup {None}]
  /\ complete \in [Names -> BOOLEAN]

Init ==
  /\ owner = [m \in Names |-> None]
  /\ complete = [m \in Names |-> FALSE]

\* The import i takes a free name.
Claim(m, i) ==
  /\ owner[m] = None
  /\ owner' = [owner EXCEPT ![m] = i]
  /\ UNCHANGED complete

\* The import that has the name completes it.
Complete(m) ==
  /\ owner[m] # None
  /\ ~complete[m]
  /\ complete' = [complete EXCEPT ![m] = TRUE]
  /\ UNCHANGED owner

\* The name is free again.
Release(m) ==
  /\ owner[m] # None
  /\ owner' = [owner EXCEPT ![m] = None]
  /\ complete' = [complete EXCEPT ![m] = FALSE]

Next == \E m \in Names : (\E i \in Imports : Claim(m, i)) \/ Complete(m) \/ Release(m)

Spec == Init /\ [][Next]_claims

=============================================================================
