-------------------------- MODULE MCClusterNamespace --------------------------
(* A small instance of the clusternamespace controller for TLC: one cluster   *)
(* as a model value.                                                          *)
EXTENDS ClusterNamespace

CONSTANT c1
=============================================================================
