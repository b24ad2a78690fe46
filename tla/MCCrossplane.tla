----------------------------- MODULE MCCrossplane -----------------------------
(* Small instances of the Crossplane controllers for TLC. *)
EXTENDS Crossplane, TLC

CONSTANTS n1, n2, c1

=============================================================================
