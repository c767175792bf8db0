------------------------------ MODULE MCAddFile ------------------------------
(* Two files in two versions, put to two nodes. *)
EXTENDS AddFile
===============================================================================
