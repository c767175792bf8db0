----------------------------- MODULE MCDeletion ------------------------------
(* Deletion on two nodes. *)
EXTENDS Deletion

CONSTANTS n1, n2, f1, f2
=============================================================================
