----------------------------- MODULE NodeStatus -----------------------------
(***************************************************************************)
(* What the node table of the control thread promises to the rest of it:   *)
(* every status (dead, disabled, retiring) belongs to a NAME, and it stays *)
(* with that name whatever happens to the other nodes of the grid.         *)
(*                                                                         *)
(* The code keeps the statuses as lists of INDICES into an array that is   *)
(* compacted when a node is removed; NodeTable is that implementation and  *)
(* implements this module.                                                 *)
(***************************************************************************)

CONSTANT Node                   \* host names

VARIABLES known,                \* the names that are in the node table
          dead, disabled, retiring,
          saved                 \* the four files of the last completed writes

vars == <<known, dead, disabled, retiring, saved>>

StatusFiles == [table: SUBSET Node, dead: SUBSET Node,
                disabled: SUBSET Node, retiring: SUBSET Node]

TypeOK == /\ known \in SUBSET Node
          /\ dead \in SUBSET Node
          /\ disabled \in SUBSET Node
          /\ retiring \in SUBSET Node
          /\ saved \in StatusFiles

(* Reading the four files: a status whose node is not in the table is      *)
(* dropped.                                                                *)
Load == /\ known' = saved.table
        /\ dead' = saved.dead \cap saved.table
        /\ disabled' = saved.disabled \cap saved.table
        /\ retiring' = saved.retiring \cap saved.table
        /\ UNCHANGED saved

Init == /\ saved \in StatusFiles
        /\ known = saved.table
        /\ dead = saved.dead \cap saved.table
        /\ disabled = saved.disabled \cap saved.table
        /\ retiring = saved.retiring \cap saved.table

Admit(n) == /\ known' = known \cup {n}
            /\ UNCHANGED <<dead, disabled, retiring, saved>>

(* A name that was added twice is still in the table after one removal.    *)
Forget(n) == /\ n \in known
             /\ known' \in {known, known \ {n}}
             /\ dead' = dead \ {n}
             /\ disabled' = disabled \ {n}
             /\ retiring' = retiring \ {n}
             /\ UNCHANGED saved

Disable(n) == /\ n \in known
              /\ disabled' = disabled \cup {n}
              /\ UNCHANGED <<known, dead, retiring, saved>>

Enable(n) == /\ n \in known
             /\ disabled' = disabled \ {n}
             /\ UNCHANGED <<known, dead, retiring, saved>>

Retire(n) == /\ n \in known
             /\ retiring' = retiring \cup {n}
             /\ UNCHANGED <<known, dead, disabled, saved>>

Unretire(n) == /\ n \in known
               /\ retiring' = retiring \ {n}
               /\ UNCHANGED <<known, dead, disabled, saved>>

(* One round of pings; the disabled nodes are not contacted and keep what  *)
(* was last known of them.                                                 *)
Ping(answering) == /\ dead' = (dead \cap disabled)
                              \cup ((known \ disabled) \ answering)
                   /\ UNCHANGED <<known, disabled, retiring, saved>>

MarkDead(n) == /\ n \in known
               /\ dead' = dead \cup {n}
               /\ UNCHANGED <<known, disabled, retiring, saved>>

Save == /\ saved' \in {[saved EXCEPT !.table = known],
                       [saved EXCEPT !.dead = dead],
                       [saved EXCEPT !.disabled = disabled],
                       [saved EXCEPT !.retiring = retiring]}
        /\ UNCHANGED <<known, dead, disabled, retiring>>

Next == \/ \E n \in Node : \/ Admit(n) \/ Forget(n)
                           \/ Disable(n) \/ Enable(n)
                           \/ Retire(n) \/ Unretire(n)
                           \/ MarkDead(n)
        \/ \E answering \in SUBSET Node : Ping(answering)
        \/ Save
        \/ Load

Spec == Init /\ [][Next]_vars
=============================================================================
