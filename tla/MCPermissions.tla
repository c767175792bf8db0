---------------------------- MODULE MCPermissions ----------------------------
(* Two nodes, and two files in one directory. *)
EXTENDS Permissions

CONSTANTS f1, f2, d

MCbelow == [x \in Dir |-> File]
===============================================================================
