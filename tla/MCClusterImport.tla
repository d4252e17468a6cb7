--------------------------- MODULE MCClusterImport ---------------------------
(***************************************************************************)
(* Small instances of ClusterImport for TLC: three external clusters, two  *)
(* of which have the same name.                                            *)
(***************************************************************************)
EXTENDS ClusterImport, TLC

CONSTANTS s1, s2, s3, m1, m2, r1, r2

TwoAlike == (s1 :> m1) @@ (s2 :> m1) @@ (s3 :> m2)

=============================================================================
