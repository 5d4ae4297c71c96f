----------------------------- MODULE MCDOCluster -----------------------------
(* Instances of DOCluster for TLC. *)
EXTENDS DOCluster

AllMishaps == MishapKinds
=============================================================================
