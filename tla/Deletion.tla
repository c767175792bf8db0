------------------------------ MODULE Deletion -------------------------------
(***************************************************************************)
(* Deleting files (background-delete.c, and makeFreeSpace of background.c):*)
(* the copies that the catalogue lists, the data that the storage elements *)
(* hold, and the deletes that are pending, in memory and in pendingdels.   *)
(*                                                                         *)
(* One step is one call that leaves the process, so that the process can   *)
(* die and storage elements can go down and come back between any two.     *)
(* The catalogue may refuse any call that changes or looks up a location;  *)
(* the node table stays as it is.  A file has one path on a node: data     *)
(* disks are left out.                                                     *)
(***************************************************************************)
EXTENDS Naturals, Sequences, SequencesExt

CONSTANTS Node, File,
          nobody,       \* no file or no host
          MaxEvents     \* bound: what users, storage elements and crashes do

ASSUME nobodyAssumption == nobody \notin Node \cup File
ASSUME MaxEventsAssumption == MaxEvents \in Nat

VARIABLES copies,       \* the catalogue: locations of every file
          stored,       \* the data that is on the storage elements
          up,           \* the storage elements that answer
          dead,         \* deadList_
          disabled,     \* disabledList_
          pending,      \* pendingDeletes_
          pendingdels,  \* the file of that name
          phase,        \* where the main loop is
          job,          \* what the main thread is doing in that phase
          doomed,       \* history: copies listed though a delete of them is under way
          events        \* events so far

lists == <<pending, pendingdels>>
data == <<copies, stored, doomed>>
nodes == <<up, dead, disabled>>
vars == <<copies, stored, up, dead, disabled, pending, pendingdels, phase,
          job, doomed, events>>

Items == File \X Node

(* idle; the loops of deleteLogicalFile ("next") and tryDeletesOnHost      *)
(* ("scan"), the calls inside them, and the removal of makeFreeSpace.      *)
Steps == {"idle", "next", "rm", "add", "scan", "drop", "write", "space"}

(* rest: locations left to deleteLogicalFile, or nodes left to pingNodes.  *)
Job == [step: Steps, lfn: File \cup {nobody}, host: Node \cup {nobody},
        rest: SUBSET Node, i: Nat]

noJob == [step |-> "idle", lfn |-> nobody, host |-> nobody, rest |-> {}, i |-> 0]
item == <<job.lfn, job.host>>
catalogued == {x \in Items : x[2] \in copies[x[1]]}
isPending(x) == \E i \in DOMAIN pending : pending[i] = x

event == events < MaxEvents /\ events' = events + 1
goTo(step) == job' = [job EXCEPT !.step = step]

Init == /\ copies \in [File -> {{n} : n \in Node} \cup {Node}]
        /\ stored = catalogued
        /\ up = Node /\ dead = {} /\ disabled = {}
        /\ pending = <<>> /\ pendingdels = <<>>
        /\ phase = "messages" /\ job = noJob
        /\ doomed = {} /\ events = 0

-----------------------------------------------------------------------------
(* savePendingDeleteList: fopen empties the file, fclose fills it again.   *)

fopen == pendingdels' = <<>>

savePendingDeleteList ==
    /\ job.step = "write"
    /\ pendingdels' = pending
    /\ job' = [job EXCEPT !.step = IF phase = "messages" THEN "next" ELSE "scan",
                          !.i = 1]
    /\ UNCHANGED <<pending, data, nodes, phase, events>>

-----------------------------------------------------------------------------
(* deleteLogicalFile, location by location *)

deleteLogicalFile(f) ==
    /\ phase = "messages" /\ job.step = "idle" /\ event
    /\ copies[f] # {}
    /\ job' = [noJob EXCEPT !.step = "next", !.lfn = f, !.rest = copies[f]]
    /\ UNCHANGED <<data, nodes, lists, phase>>

(* The path on a node may need the catalogue, and without one the node is  *)
(* passed over.                                                            *)
passLocation(n) ==
    /\ job.step = "next" /\ n \in job.rest /\ event
    /\ job' = [job EXCEPT !.rest = @ \ {n}]
    /\ UNCHANGED <<data, nodes, lists, phase>>

(* The answer of the catalogue is not looked at: the data is removed next, *)
(* also when the location stays listed.                                    *)
removeFileFromLocation(n) ==
    /\ job.step = "next" /\ n \in job.rest
    /\ \/ /\ copies' = [copies EXCEPT ![job.lfn] = @ \ {n}]
          /\ doomed' = doomed \ {<<job.lfn, n>>}
          /\ UNCHANGED events
       \/ event /\ doomed' = doomed \cup {<<job.lfn, n>>} /\ UNCHANGED copies
    /\ job' = [job EXCEPT !.step = "rm", !.host = n, !.rest = @ \ {n}]
    /\ UNCHANGED <<stored, nodes, lists, phase>>

rm == /\ job.step = "rm"
      /\ job.host \in up \ (dead \cup disabled)
      /\ item \in stored
      /\ stored' = stored \ {item}
      /\ goTo("next")
      /\ UNCHANGED <<copies, doomed, nodes, lists, phase, events>>

(* Mutant: a removal that fails is forgotten. *)
rmFailsUnnoticed ==
    /\ job.step = "rm"
    /\ goTo("next")
    /\ UNCHANGED <<data, nodes, lists, phase, events>>

(* The node is dead or disabled and not asked, or it reports an error.     *)
rmFails ==
    /\ job.step = "rm"
    /\ goTo("add")
    /\ UNCHANGED <<data, nodes, lists, phase, events>>

(* Mutant: host and file change places. *)
addPendingDeleteSwapped ==
    /\ job.step = "add"
    /\ pending' = Append(pending, <<job.host, job.lfn>>)
    /\ fopen
    /\ goTo("write")
    /\ UNCHANGED <<data, nodes, phase, events>>

addPendingDelete ==
    /\ job.step = "add"
    /\ pending' = Append(pending, item)
    /\ fopen
    /\ goTo("write")
    /\ UNCHANGED <<data, nodes, phase, events>>

deleteDone ==
    /\ job.step = "next" /\ job.rest = {}
    /\ job' = noJob
    /\ UNCHANGED <<data, nodes, lists, phase, events>>

-----------------------------------------------------------------------------
(* pingNodes, with tryDeletesOnHost on every node that answers *)

processMessagesDone ==
    /\ phase = "messages" /\ job.step = "idle"
    /\ phase' = "ping"
    /\ job' = [noJob EXCEPT !.rest = Node]
    /\ UNCHANGED <<data, nodes, lists, events>>

passDisabled(n) ==
    /\ phase = "ping" /\ job.step = "idle"
    /\ n \in job.rest \cap disabled
    /\ job' = [job EXCEPT !.rest = @ \ {n}]
    /\ UNCHANGED <<data, nodes, lists, phase, events>>

pingFails(n) ==
    /\ phase = "ping" /\ job.step = "idle"
    /\ n \in job.rest \ (disabled \cup up)
    /\ dead' = dead \cup {n}
    /\ job' = [job EXCEPT !.rest = @ \ {n}]
    /\ UNCHANGED <<data, up, disabled, lists, phase, events>>

(* Mutant: only a node that comes back from the dead is scanned. *)
pingWorksBack(n) ==
    /\ phase = "ping" /\ job.step = "idle"
    /\ n \in (job.rest \cap up) \ disabled
    /\ dead' = dead \ {n}
    /\ job' = [job EXCEPT !.step = IF n \in dead THEN "scan" ELSE "idle",
                          !.host = n, !.rest = @ \ {n}, !.i = 1]
    /\ UNCHANGED <<data, up, disabled, lists, phase, events>>

pingWorks(n) ==
    /\ phase = "ping" /\ job.step = "idle"
    /\ n \in (job.rest \cap up) \ disabled
    /\ dead' = dead \ {n}
    /\ job' = [job EXCEPT !.step = "scan", !.host = n, !.rest = @ \ {n}, !.i = 1]
    /\ UNCHANGED <<data, up, disabled, lists, phase, events>>

atEntry == job.step = "scan" /\ job.i \in DOMAIN pending

tryDelete ==
    /\ atEntry /\ pending[job.i][2] = job.host
    /\ job.host \in up
    /\ pending[job.i] \in stored
    /\ stored' = stored \ {pending[job.i]}
    /\ goTo("drop")
    /\ UNCHANGED <<copies, doomed, nodes, lists, phase, events>>

(* An entry of another host, or one that the storage element reports an    *)
(* error for: it is down, the data is not there, or something else.        *)
passEntry ==
    /\ atEntry
    /\ job' = [job EXCEPT !.i = @ + 1]
    /\ UNCHANGED <<data, nodes, lists, phase, events>>

(* The entry goes, and the scan starts again when the list is saved.       *)
removePendingDelete ==
    /\ job.step = "drop"
    /\ pending' = RemoveAt(pending, job.i)
    /\ fopen
    /\ goTo("write")
    /\ UNCHANGED <<data, nodes, phase, events>>

tryDeletesDone ==
    /\ job.step = "scan" /\ job.i \notin DOMAIN pending
    /\ goTo("idle")
    /\ UNCHANGED <<data, nodes, lists, phase, events>>

pingNodesDone ==
    /\ phase = "ping" /\ job.step = "idle" /\ job.rest = {}
    /\ phase' = "work"
    /\ job' = noJob
    /\ UNCHANGED <<data, nodes, lists, events>>

-----------------------------------------------------------------------------
(* The rest of an iteration *)

(* Mutant: the answer of the catalogue is not looked at here either.       *)
makeFreeSpaceUntested(f, n) ==
    /\ phase = "work" /\ job.step = "idle" /\ event
    /\ n \in copies[f] \ (dead \cup disabled)
    /\ copies[f] # {n}
    /\ job' = [noJob EXCEPT !.step = "space", !.lfn = f, !.host = n]
    /\ UNCHANGED <<data, nodes, lists, phase>>

(* makeFreeSpace lets a copy go that Placement calls safe to delete; here: *)
(* there is another one.  When the catalogue refuses, nothing happens.     *)
makeFreeSpace(f, n) ==
    /\ phase = "work" /\ job.step = "idle" /\ event
    /\ n \in copies[f] \ (dead \cup disabled)
    /\ copies[f] # {n}
    /\ copies' = [copies EXCEPT ![f] = @ \ {n}]
    /\ doomed' = doomed \ {<<f, n>>}
    /\ job' = [noJob EXCEPT !.step = "space", !.lfn = f, !.host = n]
    /\ UNCHANGED <<stored, nodes, lists, phase>>

(* A failure, or no path to remove, is not noted. *)
makeFreeSpaceRm ==
    /\ job.step = "space"
    /\ \/ job.host \in up /\ stored' = stored \ {item}
       \/ UNCHANGED stored
    /\ job' = noJob
    /\ UNCHANGED <<copies, doomed, nodes, lists, phase, events>>

(* A copy is written and registered: a new file, or a replication.         *)
registerFile(f, n) ==
    /\ phase = "work" /\ job.step = "idle" /\ event
    /\ n \in up \ (dead \cup disabled \cup copies[f])
    /\ copies' = [copies EXCEPT ![f] = @ \cup {n}]
    /\ stored' = stored \cup {<<f, n>>}
    /\ doomed' = IF isPending(<<f, n>>) THEN doomed \cup {<<f, n>>} ELSE doomed
    /\ UNCHANGED <<nodes, lists, phase, job>>

(* The catalogue refuses to list a copy that was written: it is an orphan  *)
(* from the start.                                                         *)
registerFails(f, n) ==
    /\ phase = "work" /\ job.step = "idle" /\ event
    /\ n \in up \ (dead \cup disabled \cup copies[f])
    /\ stored' = stored \cup {<<f, n>>}
    /\ UNCHANGED <<copies, doomed, nodes, lists, phase, job>>

iterationDone ==
    /\ phase = "work" /\ job.step = "idle"
    /\ phase' = "messages"
    /\ UNCHANGED <<data, nodes, lists, job, events>>

handleMessageDisable(n) ==
    /\ phase = "messages" /\ job.step = "idle" /\ event
    /\ n \notin disabled
    /\ disabled' = disabled \cup {n}
    /\ UNCHANGED <<data, up, dead, lists, phase, job>>

handleMessageEnable(n) ==
    /\ phase = "messages" /\ job.step = "idle" /\ event
    /\ n \in disabled
    /\ disabled' = disabled \ {n}
    /\ UNCHANGED <<data, up, dead, lists, phase, job>>

-----------------------------------------------------------------------------

goDown(n) == /\ event
             /\ n \in up
             /\ up' = up \ {n}
             /\ UNCHANGED <<data, dead, disabled, lists, phase, job>>

comeBack(n) == /\ event
               /\ n \notin up
               /\ up' = up \cup {n}
               /\ UNCHANGED <<data, dead, disabled, lists, phase, job>>

(* The process dies and is started again: main reads pendingdels, and the  *)
(* node lists of some earlier time.                                        *)
restart ==
    /\ event
    /\ pending' = pendingdels
    /\ dead' \in SUBSET dead /\ disabled' \in SUBSET disabled
    /\ phase' = "messages" /\ job' = noJob
    /\ UNCHANGED <<data, up, pendingdels>>

Delete == \/ \E n \in Node : passLocation(n) \/ removeFileFromLocation(n)
          \/ rm \/ rmFails \/ addPendingDelete \/ deleteDone

Ping == \/ processMessagesDone
        \/ \E n \in Node : passDisabled(n) \/ pingFails(n) \/ pingWorks(n)
        \/ tryDelete \/ passEntry \/ removePendingDelete \/ tryDeletesDone
        \/ pingNodesDone

MainThread == Delete \/ Ping \/ savePendingDeleteList \/ makeFreeSpaceRm \/ iterationDone

Users == \/ \E f \in File : deleteLogicalFile(f)
         \/ \E f \in File, n \in Node :
              makeFreeSpace(f, n) \/ registerFile(f, n) \/ registerFails(f, n)
         \/ \E n \in Node : handleMessageDisable(n) \/ handleMessageEnable(n)

World == (\E n \in Node : goDown(n) \/ comeBack(n)) \/ restart

Next == MainThread \/ Users \/ World

(* The main loop goes on; and a storage element does not fail for ever to  *)
(* remove a file that it holds.                                            *)
Fairness == /\ WF_vars(MainThread)
            /\ \A x \in Items : SF_vars(tryDelete /\ pending[job.i] = x)

Spec == Init /\ [][Next]_vars
FairSpec == Spec /\ Fairness

-----------------------------------------------------------------------------

TypeOK ==
    /\ copies \in [File -> SUBSET Node]
    /\ stored \in SUBSET Items
    /\ up \in SUBSET Node /\ dead \in SUBSET Node /\ disabled \in SUBSET Node
    /\ pending \in Seq(Items) /\ pendingdels \in Seq(Items)
    /\ phase \in {"messages", "ping", "work"}
    /\ job \in Job
    /\ doomed \in SUBSET Items
    /\ events \in 0..MaxEvents

(* A copy that the catalogue lists is on its storage element, whenever the *)
(* process dies: a mapping goes before the data does.  The exceptions are  *)
(* copies that a delete is under way of: one that the catalogue refused to *)
(* take out, and one written to a path whose delete was still pending.     *)
CatalogueBacked == catalogued \subseteq stored \cup doomed

(* Data that no catalogue entry names, that no pending delete will remove  *)
(* and that the main thread is not about to remove or to note.             *)
inHand == IF job.step \in {"rm", "add", "space"} THEN {item} ELSE {}
Orphans == {x \in stored : x \notin catalogued \cup inHand /\ ~isPending(x)}

(* Only three things leave data that nothing will delete: a copy that was  *)
(* written and not registered, a removal of makeFreeSpace that fails, and  *)
(* a death of the process while a delete is being noted.  At any other     *)
(* time pendingdels holds what is pending.                                 *)
OrphansNamed ==
    [][\/ Orphans' \subseteq Orphans \cup (stored' \ stored)
       \/ job.step = "space"
       \/ job.step \in {"rm", "add", "write"} /\ phase' = "messages" /\ job' = noJob]_vars

(* No delete stays pending for ever while its node answers and is enabled. *)
DeletesHappen ==
    \A x \in Items :
        []<>~(isPending(x) /\ x \in stored /\ x[2] \in up \ disabled)

=============================================================================
