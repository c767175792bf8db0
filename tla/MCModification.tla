--------------------------- MODULE MCModification ----------------------------
(* One file that two users modify, on two or three nodes. *)
EXTENDS Modification

CONSTANTS n1, n2, n3, f1, u1, u2

NodeSymmetry == Permutations(Node)
Symmetry == NodeSymmetry \cup Permutations(User)
=============================================================================
