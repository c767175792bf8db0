------------------------------ MODULE Permissions ------------------------------
(***************************************************************************)
(* Changing permissions (background-permissions.c, the chmod message, and   *)
(* what registers locations meanwhile).  A change names a file or a         *)
(* directory.  It is noted in memory and in the file pendingpermissions,    *)
(* and carried out in the catalogue and then on the nodes that answer; it   *)
(* is not tried again on the others.                                        *)
(*                                                                         *)
(* One step is one call that leaves the process.  The listener may          *)
(* authorise messages about directories meanwhile, with the same iterator   *)
(* over the catalogue.                                                      *)
(***************************************************************************)
EXTENDS Naturals, Sequences, SequencesExt

CONSTANTS Node, File,
          Dir,        \* directories that changes name
          below,      \* the files in them
          Perm, private,   \* permissions, and those of a file that has none
          none,       \* no permissions
          MaxEvents   \* bound: requests, failures and crashes

ASSUME DirAssumption == Dir \cap File = {} /\ below \in [Dir -> SUBSET File]
ASSUME PermAssumption == private \in Perm /\ none \notin Perm \cup File
ASSUME MaxEventsAssumption == MaxEvents \in Nat

VARIABLES located,   \* the catalogue: the locations of every file
          perm,      \* the catalogue: its permissions attribute
          mode,      \* the permissions of the file on each node
          unusable,  \* nodes that are dead or disabled
          pending,   \* pendingPermissions_
          pendingpermissions,  \* the file of that name
          job,       \* what the main thread is doing
          asked,     \* history: the permissions last asked for
          crossed,   \* history: files with changes pending by different names,
          lost,      \* ... those that missed a change: by a crash, or the listener
          missed,    \* ... and replicas that a change did not get to
          events

lists == <<pending, pendingpermissions>>
history == <<asked, crossed, lost>>
vars == <<located, perm, mode, unusable, lists, job, history, missed, events>>

Entry == [name : File \cup Dir, perm : Perm]
covers(e) == IF e.name \in Dir THEN below[e.name] ELSE {e.name}
covered(f) == \E i \in DOMAIN pending : f \in covers(pending[i])

(* The calls of handlePermissionsChanges for the i-th entry; rest: files   *)
(* that its iterator will still give, todo: locations of lfn to go.        *)
Job == [step : {"idle", "attr", "chmod", "open", "write"}, i : Nat,
        lfn : File \cup {none}, rest : SUBSET File, todo : SUBSET Node]
noJob == [step |-> "idle", i |-> 0, lfn |-> none, rest |-> {}, todo |-> {}]

event == events < MaxEvents /\ events' = events + 1
goTo(step) == job' = [job EXCEPT !.step = step]
entry == pending[job.i]

Init == /\ located \in [File -> {{n} : n \in Node} \cup {Node}]
        /\ perm = [f \in File |-> private]
        /\ mode = [n \in Node |-> [f \in File |-> private]]
        /\ unusable = {}
        /\ pending = <<>> /\ pendingpermissions = <<>> /\ job = noJob
        /\ asked = [f \in File |-> private]
        /\ crossed = {} /\ lost = {} /\ missed = {} /\ events = 0

-----------------------------------------------------------------------------
(* The list *)

(* Mutant: the entry that was carried out goes. *)
removeEntry(i) == RemoveAt(pending, i)

(* The first entry of that name goes, whichever was carried out. *)
removePendingPermissions(i) ==
    LET same == {j \in DOMAIN pending : pending[j].name = pending[i].name}
    IN  RemoveAt(pending, CHOOSE j \in same : \A k \in same : j <= k)

(* The loop goes from the end of the list to its start. *)
onTo(i) ==
    job' = IF i = 0 THEN noJob
           ELSE [noJob EXCEPT !.step = "attr", !.i = i,
                              !.rest = IF pending[i].name \in Dir
                                       THEN {f \in covers(pending[i]) : located[f] # {}}
                                       ELSE covers(pending[i])]

savePendingPermissionsList ==
    /\ job.step = "write"
    /\ pendingpermissions' = pending
    /\ onTo(IF job.i = 0 THEN 0 ELSE job.i - 1)
    /\ UNCHANGED <<located, perm, mode, unusable, pending, history, missed, events>>

(* The new change is the last one that anybody asked for, for every file    *)
(* that it covers and that there is.                                        *)
handleMessageChmod(e) ==
    /\ job = noJob /\ event
    /\ pending' = Append(pending, e)
    /\ pendingpermissions' = <<>>
    /\ goTo("write")
    /\ asked' = [f \in File |-> IF f \in covers(e) /\ located[f] # {} THEN e.perm ELSE asked[f]]
    /\ crossed' = crossed \cup {f \in covers(e) : \E i \in DOMAIN pending :
                                   /\ f \in covers(pending[i])
                                   /\ pending[i].name # e.name /\ pending[i].perm # e.perm}
    /\ UNCHANGED <<located, perm, mode, unusable, lost, missed>>

-----------------------------------------------------------------------------
(* handlePermissionsChanges *)

handlePermissionsChanges ==
    /\ job = noJob /\ pending # <<>>
    /\ onTo(Len(pending))
    /\ UNCHANGED <<located, perm, mode, unusable, lists, history, missed, events>>

(* The attribute is set, and getFirstFileLocation passes over the nodes that *)
(* do not answer.                                                           *)
registerAttrWithRc(f) ==
    /\ job.step = "attr" /\ f \in job.rest
    /\ perm' = [perm EXCEPT ![f] = entry.perm]
    /\ job' = [job EXCEPT !.step = "chmod", !.lfn = f, !.rest = @ \ {f},
                          !.todo = located[f] \ unusable]
    /\ missed' = missed \cup {<<n, f>> : n \in located[f] \cap unusable}
    /\ UNCHANGED <<located, mode, unusable, lists, history, events>>

(* The attribute was removed and cannot be added: because the file has been *)
(* deleted, or by a failure.  The entry stays, and the older ones wait.     *)
registerAttrFails(f) ==
    /\ job.step = "attr" /\ f \in job.rest
    /\ IF located[f] = {} THEN UNCHANGED events ELSE event
    /\ perm' \in {perm, [perm EXCEPT ![f] = none]}
    /\ job' = noJob
    /\ UNCHANGED <<located, mode, unusable, lists, history, missed>>

chmodRemotely(n) ==
    /\ job.step = "chmod" /\ n \in job.todo
    /\ mode' = [mode EXCEPT ![n][job.lfn] = entry.perm]
    /\ missed' = missed \ {<<n, job.lfn>>}
    /\ job' = [job EXCEPT !.todo = @ \ {n}]
    /\ UNCHANGED <<located, perm, unusable, lists, history, events>>

(* Mutant: the loop over the locations ends with the first that fails. *)
chmodFailsAtOnce(n) ==
    /\ job.step = "chmod" /\ n \in job.todo /\ event
    /\ missed' = missed \cup {<<n, job.lfn>>}
    /\ job' = [job EXCEPT !.todo = {}]
    /\ UNCHANGED <<located, perm, mode, unusable, lists, history>>

(* Nobody looks at the result; the node may have done it all the same.      *)
chmodFails(n) ==
    /\ job.step = "chmod" /\ n \in job.todo /\ event
    /\ missed' = missed \cup {<<n, job.lfn>>}
    /\ mode' \in {mode, [mode EXCEPT ![n][job.lfn] = entry.perm]}
    /\ job' = [job EXCEPT !.todo = @ \ {n}]
    /\ UNCHANGED <<located, perm, unusable, lists, history>>

locationsDone ==
    /\ job.step = "chmod" /\ job.todo = {}
    /\ job' = [job EXCEPT !.step = "attr", !.lfn = none]
    /\ UNCHANGED <<located, perm, mode, unusable, lists, history, missed, events>>

(* Mutant: a change stays pending until every replica has it. *)
changeDoneEverywhere ==
    /\ job.step = "attr" /\ job.rest = {}
    /\ \A f \in covers(entry), n \in Node : <<n, f>> \notin missed
    /\ pending' = removePendingPermissions(job.i)
    /\ pendingpermissions' = <<>>
    /\ goTo("write")
    /\ UNCHANGED <<located, perm, mode, unusable, history, missed, events>>

changeDone ==
    /\ job.step = "attr" /\ job.rest = {}
    /\ pending' = removePendingPermissions(job.i)
    /\ pendingpermissions' = <<>>
    /\ goTo("write")
    /\ UNCHANGED <<located, perm, mode, unusable, history, missed, events>>

(* Authorising lockdir, unlockdir, rmdir or replcountdir begins the same     *)
(* list of files anew and takes from it: the main thread, in the middle of a *)
(* directory, gets any files of the new list that the listener leaves it.   *)
authoriseDirectory ==
    /\ job.step \in {"attr", "chmod"} /\ entry.name \in Dir /\ event
    /\ \E rest \in SUBSET {f \in covers(entry) : located[f] # {}} :
          /\ job' = [job EXCEPT !.rest = rest]
          /\ lost' = lost \cup (job.rest \ rest)
    /\ UNCHANGED <<located, perm, mode, unusable, lists, asked, crossed, missed>>

-----------------------------------------------------------------------------
(* The rest of an iteration *)

(* A file is added with the permissions that its client asks for. *)
unNewFile(f, n, p) ==
    /\ job = noJob /\ event
    /\ located[f] = {} /\ n \notin unusable
    /\ located' = [located EXCEPT ![f] = {n}]
    /\ perm' = [perm EXCEPT ![f] = p] /\ mode' = [mode EXCEPT ![n][f] = p]
    /\ asked' = [asked EXCEPT ![f] = p]
    /\ crossed' = IF covered(f) THEN crossed \cup {f} ELSE crossed \ {f}
    /\ lost' = lost \ {f} /\ missed' = missed \ {<<m, f>> : m \in Node}
    /\ UNCHANGED <<unusable, lists, job>>

(* Mutant: a file without the attribute is copied without permissions. *)
permissionsAsTheyAre(f) == perm[f]

permissionsOf(f) == IF perm[f] = none THEN private ELSE perm[f]

(* The queue has made another copy; it does not mind if this fails.         *)
putDone(f, n) ==
    /\ job = noJob
    /\ located[f] # {} /\ n \notin located[f] \cup unusable
    /\ located' = [located EXCEPT ![f] = @ \cup {n}]
    /\ \/ /\ mode' = [mode EXCEPT ![n][f] = permissionsOf(f)]
          /\ UNCHANGED <<missed, events>>
       \/ /\ event /\ mode' = [mode EXCEPT ![n][f] = private]
          /\ missed' = missed \cup {<<n, f>>}
    /\ UNCHANGED <<perm, unusable, lists, job, history>>

(* The catalogue may keep the attributes of a file without locations. *)
deleteLogicalFile(f) ==
    /\ job = noJob /\ event
    /\ located[f] # {}
    /\ located' = [located EXCEPT ![f] = {}]
    /\ perm' \in {perm, [perm EXCEPT ![f] = none]}
    /\ missed' = missed \ {<<m, f>> : m \in Node}
    /\ UNCHANGED <<mode, unusable, lists, job, history>>

setStatus(n) ==
    /\ job = noJob /\ event
    /\ unusable' = IF n \in unusable THEN unusable \ {n} ELSE unusable \cup {n}
    /\ UNCHANGED <<located, perm, mode, lists, job, history, missed>>

(* The process dies and is started again: main reads pendingpermissions.    *)
restart ==
    /\ event
    /\ pending' = pendingpermissions /\ job' = noJob
    /\ lost' = IF job.step = "write"
               THEN lost \cup UNION {covers(pending[i]) : i \in DOMAIN pending} ELSE lost
    /\ UNCHANGED <<located, perm, mode, unusable, pendingpermissions, asked, crossed, missed>>

MainThread ==
    \/ savePendingPermissionsList \/ handlePermissionsChanges
    \/ \E f \in File : registerAttrWithRc(f) \/ registerAttrFails(f)
    \/ \E n \in Node : chmodRemotely(n) \/ chmodFails(n)
    \/ locationsDone \/ changeDone

Others ==
    \/ \E e \in Entry : handleMessageChmod(e)
    \/ authoriseDirectory
    \/ \E f \in File, n \in Node, p \in Perm : unNewFile(f, n, p)
    \/ \E f \in File, n \in Node : putDone(f, n)
    \/ \E f \in File : deleteLogicalFile(f)
    \/ \E n \in Node : setStatus(n)

Next == MainThread \/ Others \/ restart

Spec == Init /\ [][Next]_vars

(* The main loop goes on. *)
FairSpec == Spec /\ WF_vars(MainThread)

-----------------------------------------------------------------------------
(* Properties *)

(* Every variable has its type. *)
TypeOK ==
    /\ located \in [File -> SUBSET Node]
    /\ perm \in [File -> Perm \cup {none}]
    /\ mode \in [Node -> [File -> Perm]]
    /\ unusable \in SUBSET Node
    /\ pending \in Seq(Entry) /\ pendingpermissions \in Seq(Entry)
    /\ job \in Job
    /\ asked \in [File -> Perm]
    /\ crossed \in SUBSET File /\ lost \in SUBSET File
    /\ missed \in SUBSET (Node \X File)
    /\ events \in 0..MaxEvents

(* When no change of a file is pending, the catalogue has the permissions   *)
(* last asked for, though the list is worked off from its newest end, the   *)
(* removal takes the oldest entry, and both are done again after a crash.   *)
(* The exceptions are changes by different names, that are not done in the  *)
(* order in which they came, and changes lost in a crash or to the listener. *)
LastChangeWins ==
    \A f \in File \ (crossed \cup lost) :
        located[f] # {} /\ ~covered(f) => perm[f] = asked[f]

(* And every replica that a change could get to has what the catalogue says. *)
ReplicasFollow ==
    \A f \in File \ lost, n \in Node :
        n \in located[f] /\ <<n, f>> \notin missed /\ ~covered(f) => mode[n][f] = perm[f]

(* No change stays pending for ever while every pending change is of a file *)
(* that there is; one of a deleted file keeps all older ones waiting.       *)
applicable(e) == e.name \in File => located[e.name] # {}

ChangesHappen ==
    \A f \in File : []<>~(covered(f) /\ \A i \in DOMAIN pending : applicable(pending[i]))
===============================================================================
