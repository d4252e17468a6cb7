----------------------------- MODULE MCManagers -----------------------------
(***************************************************************************)
(* A small instance of Managers for TLC: one cluster with one node.        *)
(***************************************************************************)
EXTENDS Managers, TLC

CONSTANTS c1, n1

OneNode == (c1 :> {n1})

=============================================================================
