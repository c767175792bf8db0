---------------------------- MODULE InteractiveJob ----------------------------
(***************************************************************************)
(* What the controller promises of an interactive job, seen from outside:   *)
(* what is put on the grid, and what the client is told to copy, comes      *)
(* after the output has been closed; closed with an exit code it is all     *)
(* that the job ever writes; and the controller stays for its client.       *)
(***************************************************************************)
EXTENDS Naturals

CONSTANT Stream

VARIABLES produced, \* how much the job has written to each stream
          ended,    \* has the job ended
          closed,   \* is its output closed: by its exit code, or by an accident
          stored,   \* has the output been put on the grid
          client,   \* where the client is
          fetched,  \* how much of each stream it has copied
          left      \* has the controller gone

vars == <<produced, ended, closed, stored, client, fetched, left>>

Init == /\ produced = [s \in Stream |-> 0] /\ ended = FALSE
        /\ closed = "no" /\ stored = FALSE /\ left = FALSE
        /\ client = "away" /\ fetched = [s \in Stream |-> 0]

(* The job writes, until it ends. *)
write(s) == /\ ~ended
            /\ produced' = [produced EXCEPT ![s] = @ + 1]
            /\ UNCHANGED <<ended, closed, stored, client, fetched, left>>

end == /\ ~ended /\ ended' = TRUE
       /\ UNCHANGED <<produced, closed, stored, client, fetched, left>>

close == /\ closed = "no"
         /\ \/ ended /\ closed' = "saved"
            \/ closed' = "died"
         /\ UNCHANGED <<produced, ended, stored, client, fetched, left>>

storeOutput == /\ closed # "no" /\ ~stored /\ stored' = TRUE
               /\ UNCHANGED <<produced, ended, closed, client, fetched, left>>

(* The client comes, and goes with all the output or without it. *)
connect == /\ client = "away" /\ ~left /\ client' = "served"
           /\ UNCHANGED <<produced, ended, closed, stored, fetched, left>>

copyOutput == /\ client = "served" /\ closed # "no" /\ client' = "done"
              /\ fetched' \in [Stream -> Nat]
              /\ \A s \in Stream : fetched'[s] <= produced[s]
              /\ closed = "saved" => fetched' = produced
              /\ UNCHANGED <<produced, ended, closed, stored, left>>

die == /\ client \in {"away", "served"} /\ client' = "dead"
       /\ UNCHANGED <<produced, ended, closed, stored, fetched, left>>

leave == /\ stored /\ client \in {"done", "dead"} /\ ~left /\ left' = TRUE
         /\ UNCHANGED <<produced, ended, closed, stored, client, fetched>>

Next == \/ end \/ close \/ storeOutput \/ connect \/ copyOutput \/ die \/ leave
        \/ \E s \in Stream : write(s)

Spec == Init /\ [][Next]_vars
===============================================================================
