------------------------------- MODULE Transfer -------------------------------
(***************************************************************************)
(* What the interface of a storage element promises about a transfer       *)
(* (the function pointers of struct storageElement): a handle is good from *)
(* the start of the transfer to its end; what it reports settles once and  *)
(* stays; an ended handle is never heard of again.                         *)
(***************************************************************************)
CONSTANT Id
VARIABLE status

Status == {"none", "open", "done", "failed", "closed"}

Init == status = [t \in Id |-> "none"]

becomes(t, from, to) == status[t] \in from /\ \E s \in to : status' = [status EXCEPT ![t] = s]

(* A start that fails gives no handle. *)
startTransfer(t) == becomes(t, {"none"}, {"open", "closed"})
settle(t)        == becomes(t, {"open"}, {"done", "failed"})
endTransfer(t)   == becomes(t, {"open", "done", "failed"}, {"closed"})

Next == \E t \in Id : startTransfer(t) \/ settle(t) \/ endTransfer(t)

Spec == Init /\ [][Next]_status
===============================================================================
