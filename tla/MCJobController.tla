--------------------------- MODULE MCJobController ----------------------------
(* A read takes one unit less than the job writes, a pipe holds as much. *)
EXTENDS JobController
===============================================================================
