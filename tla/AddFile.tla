-------------------------------- MODULE AddFile -------------------------------
(***************************************************************************)
(* Adding files (background-new.c, with qcdgridPutFile of client.c and the *)
(* putFile message).  A client copies a file to the inbox of a node, or of *)
(* the next one when that fails, and announces it; the control thread      *)
(* notes the announcement, in memory and in the file pendingadds, and      *)
(* takes the file out of the inbox when it scans the node.                 *)
(*                                                                         *)
(* One step is one call that leaves the process, so that clients can act   *)
(* and the process can die between any two.  A file has one path on a node *)
(* and a version stands for its content, checksum and other attributes.    *)
(***************************************************************************)
EXTENDS Naturals, Sequences, SequencesExt

CONSTANTS Node, File, Version,
          none,      \* no node, file or version
          MaxPuts,   \* bound: uploads that clients start
          MaxEvents  \* bound: failures, deletes and crashes

ASSUME noneAssumption == none \notin Node \cup File \cup Version
ASSUME BoundsAssumption == MaxPuts \in Nat /\ MaxEvents \in Nat

VARIABLES clients,   \* uploads under way, and done but not announced
          late,      \* copies that failed for the client and may still be renamed
          queue,     \* putFile messages that have been answered
          inbox,     \* the inbox of each node
          stored,    \* the data of each node outside its inbox
          location,  \* the catalogue: where the file is,
          attrs,     \* ... and its attributes
          adds,      \* pendingAdds_
          pendingadds,  \* the file of that name
          job,       \* what the main thread is doing
          asked,     \* history: versions announced, and not deleted since
          twice,     \* history: files put while an earlier put was not over,
          mixed,     \* ... and with another version or while it was copied
          doubled,   \* history: files of which a failed copy reached an inbox
          lost,      \* history: files that the control thread gave up
          puts, events

grid == <<location, attrs>>
lists == <<queue, adds, pendingadds>>
history == <<twice, mixed, doubled>>
vars == <<clients, late, queue, inbox, stored, grid, adds, pendingadds, job, asked,
          history, lost, puts, events>>

Put == [lfn : File, ver : Version]
Client == [lfn : File, ver : Version, node : Node \cup {none},  \* where it was copied,
           rest : SUBSET Node]                       \* ... or may still be
Late == [lfn : File, ver : Version, node : Node]

(* The calls of unNewFile, and the two of savePendingAddList.              *)
Steps == {"idle", "next", "rm", "chmod", "attrs", "open", "write"}
Job == [step : Steps, node : Node \cup {none}, lfn : File \cup {none}, rest : SUBSET File]
noJob == [step |-> "idle", node |-> none, lfn |-> none, rest |-> {}]

event == events < MaxEvents /\ events' = events + 1
goTo(step) == job' = [job EXCEPT !.step = step]

(* The loop of checkNodeForNewFiles goes on with the files in rest. *)
onTo(rest) == job' = IF rest = {} THEN noJob
                     ELSE [job EXCEPT !.step = "next", !.lfn = none, !.rest = rest]

Init == /\ clients = {} /\ late = {} /\ queue = <<>>
        /\ inbox = [n \in Node |-> [f \in File |-> none]]
        /\ stored = [n \in Node |-> [f \in File |-> none]]
        /\ location = [f \in File |-> none] /\ attrs = [f \in File |-> none]
        /\ adds = <<>> /\ pendingadds = <<>> /\ job = noJob
        /\ asked = [f \in File |-> {}]
        /\ twice = {} /\ mixed = {} /\ doubled = {} /\ lost = {}
        /\ puts = 0 /\ events = 0

-----------------------------------------------------------------------------
(* The list of pending adds *)

entriesOf(f) == {i \in DOMAIN adds : adds[i].lfn = f}
first(f) == CHOOSE i \in entriesOf(f) : \A j \in entriesOf(f) : i <= j

isInPendingAddsList(f) == entriesOf(f) # {}

(* Mutant: the attributes of the oldest entry, whatever its file. *)
getOldestAdd(f) == adds[1].ver

(* Mutant: the entry, not the attributes in it. *)
getPendingEntry(f) == adds[first(f)]

(* getPendingAdd and removePendingAdd take the first entry of a file. *)
getPendingAdd(f) == adds[first(f)].ver

(* Mutant: the newest entry goes, whatever its file. *)
removeNewest(f) == SubSeq(adds, 1, Len(adds) - 1)

removePendingAdd(f) == RemoveAt(adds, first(f))

(* fopen empties the file, fclose fills it again. *)
savePendingAddList ==
    /\ job.step = "write"
    /\ pendingadds' = adds
    /\ onTo(job.rest)
    /\ UNCHANGED <<clients, late, queue, inbox, stored, grid, adds, asked, history, lost, puts, events>>

-----------------------------------------------------------------------------
(* Clients: qcdgridPutFile *)

announced(f) == isInPendingAddsList(f) \/ \E i \in DOMAIN queue : queue[i].lfn = f

(* Versions of f on their way: uploaded, announced or left in an inbox. *)
underWay(f) == {c.ver : c \in {d \in clients \cup late : d.lfn = f}}
               \cup {queue[i].ver : i \in {j \in DOMAIN queue : queue[j].lfn = f}}
               \cup {adds[i].ver : i \in entriesOf(f)}
               \cup ({inbox[n][f] : n \in Node} \ {none})

copying(f) == {c \in clients : c.lfn = f /\ c.node = none}

(* The client looks whether the catalogue has the file and begins to copy   *)
(* to the first of the nodes that suit it.  Two copies under way to one     *)
(* name may give it a part of one: that is FtpTransaction's.                *)
startPut(f, v) ==
    /\ puts < MaxPuts /\ puts' = puts + 1
    /\ location[f] = none
    /\ \A c \in copying(f) : c.ver # v
    /\ clients' = clients \cup {[lfn |-> f, ver |-> v, node |-> none, rest |-> Node]}
    /\ twice' = IF underWay(f) # {} THEN twice \cup {f} ELSE twice
    /\ mixed' = IF underWay(f) \ {v} # {} \/ copying(f) # {} \/ \E x \in late : x.lfn = f
                THEN mixed \cup {f} ELSE mixed
    /\ UNCHANGED <<late, lists, inbox, stored, grid, job, asked, doubled, lost, events>>

(* The name in the inbox is flat, and a file of that name is overwritten. *)
copyToInbox(c, n) ==
    /\ c \in clients /\ n \in c.rest
    /\ inbox' = [inbox EXCEPT ![n][c.lfn] = c.ver]
    /\ clients' = (clients \ {c}) \cup {[c EXCEPT !.node = n, !.rest = {}]}
    /\ UNCHANGED <<late, lists, stored, grid, job, asked, history, lost, puts, events>>

(* The copy fails, or the rename that ends it times out and may still take *)
(* effect.  The client looks into the catalogue again and tries the next   *)
(* node; or it leaves, as there is no other or the file is in there.       *)
copyToInboxFails(c, n) ==
    /\ c \in clients /\ n \in c.rest /\ event
    /\ \/ clients' = clients \ {c}
       \/ /\ c.rest # {n} /\ location[c.lfn] = none
          /\ clients' = (clients \ {c}) \cup {[c EXCEPT !.rest = @ \ {n}]}
    /\ late' \in {late, late \cup {[lfn |-> c.lfn, ver |-> c.ver, node |-> n]}}
    /\ UNCHANGED <<lists, inbox, stored, grid, job, asked, history, lost, puts>>

renamedLate(x) ==
    /\ x \in late
    /\ inbox' = [inbox EXCEPT ![x.node][x.lfn] = x.ver]
    /\ late' = late \ {x}
    /\ doubled' = doubled \cup {x.lfn}
    /\ UNCHANGED <<clients, lists, stored, grid, job, asked, twice, mixed, lost, puts, events>>

(* The listener queues the message and answers OK. *)
putFile(c) ==
    /\ c \in clients /\ c.node # none
    /\ clients' = clients \ {c}
    /\ queue' = Append(queue, [lfn |-> c.lfn, ver |-> c.ver])
    /\ asked' = [asked EXCEPT ![c.lfn] = @ \cup {c.ver}]
    /\ UNCHANGED <<late, inbox, stored, grid, adds, pendingadds, job, history, lost, puts, events>>

-----------------------------------------------------------------------------
(* Messages *)

(* addPendingAdd does not look whether the file has an entry already. *)
handleMessagePutFile ==
    /\ job = noJob /\ queue # <<>>
    /\ adds' = Append(adds, Head(queue))
    /\ queue' = Tail(queue)
    /\ pendingadds' = <<>>
    /\ goTo("write")
    /\ UNCHANGED <<clients, late, inbox, stored, grid, asked, history, lost, puts, events>>

(* deleteLogicalFile, of which Deletion has the steps. *)
deleteLogicalFile(f) ==
    /\ job = noJob /\ event
    /\ location[f] # none
    /\ stored' = [stored EXCEPT ![location[f]][f] = none]
    /\ location' = [location EXCEPT ![f] = none] /\ attrs' = [attrs EXCEPT ![f] = none]
    /\ asked' = [asked EXCEPT ![f] = {}]
    /\ UNCHANGED <<clients, late, lists, inbox, job, history, lost, puts>>

-----------------------------------------------------------------------------
(* handleNewFiles: every node that is neither dead nor disabled is scanned *)
(* in every fifth iteration, one that a message names in the next.         *)

checkNodeForNewFiles(n) ==
    LET found == {f \in File : inbox[n][f] # none}
    IN  /\ job = noJob /\ found # {}
        /\ job' = [noJob EXCEPT !.step = "next", !.node = n, !.rest = found]
        /\ UNCHANGED <<clients, late, lists, inbox, stored, grid, asked, history, lost, puts, events>>

atFile(f) == job.step = "next" /\ f \in job.rest
isNew(f) == isInPendingAddsList(f) /\ location[f] = none

(* Mutant: a file that is not taken ends the scan. *)
passNode(f) ==
    /\ atFile(f) /\ ~isNew(f)
    /\ job' = noJob
    /\ UNCHANGED <<clients, late, lists, inbox, stored, grid, asked, history, lost, puts, events>>

(* It is not announced, or in the catalogue already: it stays in the inbox. *)
passFile(f) ==
    /\ atFile(f) /\ ~isNew(f)
    /\ onTo(job.rest \ {f})
    /\ UNCHANGED <<clients, late, lists, inbox, stored, grid, asked, history, lost, puts, events>>

copyFromInbox(f) ==
    /\ atFile(f) /\ isNew(f)
    /\ stored' = [stored EXCEPT ![job.node][f] = inbox[job.node][f]]
    /\ job' = [job EXCEPT !.step = "rm", !.lfn = f, !.rest = @ \ {f}]
    /\ UNCHANGED <<clients, late, lists, inbox, grid, asked, history, lost, puts, events>>

(* There is no disk for it, or the copy fails, perhaps after all was copied. *)
copyFails(f) ==
    /\ atFile(f) /\ isNew(f) /\ event
    /\ \/ stored' = [stored EXCEPT ![job.node][f] = inbox[job.node][f]]
       \/ UNCHANGED stored
    /\ onTo(job.rest \ {f})
    /\ UNCHANGED <<clients, late, lists, inbox, grid, asked, history, lost, puts>>

(* Whatever is in the inbox under the name is removed. *)
rm == /\ job.step = "rm"
      /\ inbox' = [inbox EXCEPT ![job.node][job.lfn] = none]
      /\ goTo("chmod")
      /\ UNCHANGED <<clients, late, lists, stored, grid, asked, history, lost, puts, events>>

(* Mutant: it does not matter whether the removal worked. *)
rmFailsUnnoticed ==
    /\ job.step = "rm" /\ event
    /\ goTo("chmod")
    /\ UNCHANGED <<clients, late, lists, inbox, stored, grid, asked, history, lost, puts>>

(* The file is left for the next scan; unless it was removed all the same. *)
rmFails ==
    /\ job.step = "rm" /\ event
    /\ \/ UNCHANGED <<inbox, lost>>
       \/ /\ inbox' = [inbox EXCEPT ![job.node][job.lfn] = none]
          /\ lost' = lost \cup {job.lfn}
    /\ onTo(job.rest)
    /\ UNCHANGED <<clients, late, lists, stored, grid, asked, history, puts>>

(* Group and permissions are set, and the location is registered. *)
registerFileWithRc ==
    /\ job.step = "chmod"
    /\ location' = [location EXCEPT ![job.lfn] = job.node]
    /\ goTo("attrs")
    /\ UNCHANGED <<clients, late, lists, inbox, stored, attrs, asked, history, lost, puts, events>>

registerFileAndAttribsWithRc ==
    /\ job.step = "attrs"
    /\ attrs' = [attrs EXCEPT ![job.lfn] = getPendingAdd(job.lfn)]
    /\ goTo("open")
    /\ UNCHANGED <<clients, late, lists, inbox, stored, location, asked, history, lost, puts, events>>

(* The node refuses the permissions: the data stays where nothing names it. *)
(* Or the catalogue refuses the location or an attribute: location and data *)
(* are removed, if that works.  The inbox no longer has the file.           *)
giveUp ==
    /\ job.step \in {"chmod", "attrs"} /\ event
    /\ lost' = lost \cup {job.lfn}
    /\ \/ UNCHANGED stored
       \/ stored' = [stored EXCEPT ![job.node][job.lfn] = none]
    /\ \/ UNCHANGED location
       \/ location' = [location EXCEPT ![job.lfn] = none]
    /\ onTo(job.rest)
    /\ UNCHANGED <<clients, late, lists, inbox, attrs, asked, history, puts>>

addDone ==
    /\ job.step = "open"
    /\ adds' = removePendingAdd(job.lfn)
    /\ pendingadds' = <<>>
    /\ goTo("write")
    /\ UNCHANGED <<clients, late, queue, inbox, stored, grid, asked, history, lost, puts, events>>

(* The process dies and is started again: main reads pendingadds.  Lost are *)
(* messages, what was not yet written back, and the file in hand.           *)
restart ==
    /\ event
    /\ adds' = pendingadds /\ queue' = <<>> /\ job' = noJob
    /\ lost' = lost \cup {queue[i].lfn : i \in DOMAIN queue}
                    \cup (IF job.step = "write" THEN {adds[i].lfn : i \in DOMAIN adds} ELSE {})
                    \cup (IF job.step \in {"chmod", "attrs"} THEN {job.lfn} ELSE {})
    /\ UNCHANGED <<clients, late, inbox, stored, grid, pendingadds, asked, history, puts>>

unNewFile == \/ \E f \in File : passFile(f) \/ copyFromInbox(f) \/ copyFails(f)
             \/ rm \/ rmFails \/ registerFileWithRc \/ registerFileAndAttribsWithRc
             \/ giveUp \/ addDone

MainThread == unNewFile \/ savePendingAddList \/ handleMessagePutFile

handleNewFiles == \E n \in Node : checkNodeForNewFiles(n)

Clients == \/ \E f \in File, v \in Version : startPut(f, v)
           \/ \E c \in clients : \/ putFile(c)
                                \/ \E n \in Node : copyToInbox(c, n) \/ copyToInboxFails(c, n)
           \/ \E x \in late : renamedLate(x)

Next == \/ MainThread \/ handleNewFiles \/ Clients \/ restart
        \/ \E f \in File : deleteLogicalFile(f)

(* The main loop goes on, and comes to each inbox again and again. *)
Fairness == WF_vars(MainThread) /\ \A n \in Node : SF_vars(checkNodeForNewFiles(n))

Spec == Init /\ [][Next]_vars
FairSpec == Spec /\ Fairness

-----------------------------------------------------------------------------
(* Properties *)

(* Every variable has its type. *)
TypeOK ==
    /\ clients \in SUBSET Client /\ late \in SUBSET Late
    /\ queue \in Seq(Put) /\ adds \in Seq(Put) /\ pendingadds \in Seq(Put)
    /\ inbox \in [Node -> [File -> Version \cup {none}]]
    /\ stored \in [Node -> [File -> Version \cup {none}]]
    /\ location \in [File -> Node \cup {none}]
    /\ attrs \in [File -> Version \cup {none}]
    /\ job \in Job
    /\ asked \in [File -> SUBSET Version]
    /\ twice \in SUBSET File /\ mixed \in SUBSET File /\ doubled \in SUBSET File
    /\ lost \in SUBSET File
    /\ puts \in 0..MaxPuts /\ events \in 0..MaxEvents

(* A file that a client has announced is in the catalogue, or can still be  *)
(* added: it is in an inbox or in hand, and there is an announcement of it. *)
(* The exceptions are files that a failure or a crash at the wrong moment   *)
(* has cost, and files put again before the first put was over.             *)
NotStranded ==
    \A f \in File \ (lost \cup twice) :
        asked[f] # {} /\ location[f] = none =>
            /\ announced(f)
            /\ \/ \E n \in Node : inbox[n][f] # none
               \/ job.step = "chmod" /\ job.lfn = f

(* The catalogue has the attributes of the data that it leads to, however   *)
(* often the same version was put and wherever the process died; unless two *)
(* versions were on their way at a time, or two copies of one.              *)
CatalogueTells ==
    \A f \in File \ (lost \cup mixed) :
        location[f] # none /\ ~(job.step = "attrs" /\ job.lfn = f) =>
            attrs[f] # none /\ stored[location[f]][f] = attrs[f]

(* A deleted file does not come back from an inbox.  The exceptions are a   *)
(* file that was put again, and one that a copy which failed for the client *)
(* has brought to a second inbox.                                           *)
DeletedStays == \A f \in File \ (twice \cup doubled) : location[f] # none => asked[f] # {}

(* No announced file is left in an inbox for ever. *)
AddsHappen == \A f \in File, n \in Node : []<>~(isNew(f) /\ inbox[n][f] # none)
===============================================================================
