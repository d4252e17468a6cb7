----------------------------- MODULE MCReadiness -----------------------------
(***************************************************************************)
(* A small instance of Readiness for TLC.  Neither controller reads or     *)
(* writes the objects of the other, only the Cluster is common.  So there  *)
(* is either a control plane and no nodes, or nodes and a control plane of *)
(* another kind; infra and serving, which nodes do not depend on, are set  *)
(* then.                                                                   *)
(***************************************************************************)
EXTENDS Readiness

CONSTANT MaxTrouble   \* bound: changes and faults together, where there are nodes

MCInit ==
  /\ Init
  /\ IF cp.exists THEN nodes = {} ELSE cluster.infra /\ serving

MCNext ==
  /\ Next
  /\ nodes # {} => serving' /\ changes' + faults' <= MaxTrouble

MCSpec == MCInit /\ [][MCNext]_vars /\ CpFairness /\ ExtFairness /\ CapiFairness

=============================================================================
