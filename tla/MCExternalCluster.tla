-------------------------- MODULE MCExternalCluster --------------------------
(***************************************************************************)
(* Small instances of ExternalCluster for TLC: one cluster with two nodes, *)
(* and two clusters that have a node name in common.                       *)
(***************************************************************************)
EXTENDS ExternalCluster, TLC

CONSTANTS c1, c2, n1, n2

\* One cluster that may have one or two nodes.
OneNode == (c1 :> {n1})
TwoNodes == (c1 :> {n1, n2})

\* Two clusters, both with a node of the same name.
Shared == (c1 :> {n1}) @@ (c2 :> {n1})

\* Symmetry: the node names of one cluster.
Nodes12 == Permutations({n1, n2})

=============================================================================
