------------------------------ MODULE RepQueue -------------------------------
(***************************************************************************)
(* The replication queue (repqueue.c) in the iterations of the control     *)
(* thread that fill and advance it: touch messages and checkFiles add      *)
(* entries, updateReplicationQueue polls, starts and removes them.         *)
(*                                                                         *)
(* The main thread runs every action but restart: nothing interleaves with *)
(* a step of it except the storage elements, whose answers are the choices *)
(* in the update pass.  Whatever else changes the catalogue or the nodes   *)
(* between two phases is an "event"; MaxEvents bounds the events.          *)
(***************************************************************************)
EXTENDS Placement, Sequences, SequencesExt

CONSTANTS File,         \* logical file names
          Handle,       \* handles of transfers at the storage elements
          Temp,         \* names that mkstemp can make
          none,         \* handle -1
          Counts,       \* replcount attributes that users set
          MaxQueue,     \* bound: longest queue
          MaxEvents     \* bound: changes of the nodes and of the catalogue

ASSUME noneAssumption == none \notin Handle
ASSUME CountsAssumption == Counts \subseteq STRING /\ "" \in Counts
ASSUME MaxQueueAssumption == MaxQueue \in Nat
ASSUME MaxEventsAssumption == MaxEvents \in Nat

VARIABLES table,        \* names in the node table
          status,       \* the dead, disabled and retiring nodes
          saved,        \* both, as the four node lists on disk have them
          copies,       \* the catalogue: locations of every file
          replcount,    \* the catalogue: replcount attributes
          queue,        \* replicationQueue_
          handles,      \* transfers open at the storage elements
          temps,        \* temporary files of this run of the process
          unwalked,     \* checkFiles: rest of lfnList, from lfnListPos_
          checked,      \* checkFiles: a file was counted in this iteration
          phase,        \* where the main loop is
          pos,          \* updateReplicationQueue: i + 1, or 0
          events        \* events so far

grid == <<table, saved, status, copies, replcount, events>>
walk == <<unwalked, checked>>
transfers == <<queue, handles, temps>>
vars == <<table, saved, status, copies, replcount, queue, handles, temps,
          unwalked, checked, phase, pos, events>>

Reasons == {"TOOFEWCOPIES", "REQUESTED"}
Stages == {"WAITING", "GETTING", "WAITING2", "PUTTING", "DELETEME"}
Phases == {"messages", "check", "make", "update", "purge", "stopped", "crashed"}

Entry == [reason: Reasons, numCopies: Nat, lfn: File, from: Node, to: Node,
          stage: Stages, handle: Handle \cup {none}, tmp: Temp]

replicaCount(f) == getFileReplicaCount(table, replcount[f])
numCopies(f) == getNumCopies(status, copies[f])

-----------------------------------------------------------------------------
(* addToReplicationQueue *)

(* Mutant: the destination must match for every reason. *)
isSameTransfer(e, to, f, reason) == e.lfn = f /\ e.reason = reason /\ e.to = to

isSame(e, to, f, reason) ==
    e.lfn = f /\ e.reason = reason /\ (reason = "REQUESTED" => e.to = to)

(* Place p is behind every entry with as few copies or fewer. *)
isPlace(q, nc, p) == /\ p > 1 => q[p - 1].numCopies <= nc
                     /\ \A i \in p..Len(q) : q[i].numCopies > nc

newEntry(from, to, f, reason, t) ==
    [reason |-> reason, numCopies |-> numCopies(f), lfn |-> f, from |-> from,
     to |-> to, stage |-> "WAITING", handle |-> none, tmp |-> t]

(* A waiting entry that is updated in place gets a new temporary file, and *)
(* the name of the old one is forgotten.                                   *)
addToReplicationQueue(from, to, f, reason) ==
    LET same == {i \in DOMAIN queue : isSame(queue[i], to, f, reason)}
        isFirst(i) == i \in same /\ \A j \in same : i <= j
    IN  \/ /\ same = {}
           /\ Len(queue) < MaxQueue
           /\ \E t \in Temp \ temps, p \in 1..(Len(queue) + 1) :
                /\ isPlace(queue, numCopies(f), p)
                /\ queue' = InsertAt(queue, p, newEntry(from, to, f, reason, t))
                /\ temps' = temps \cup {t}
        \/ \E i \in DOMAIN queue, t \in Temp \ temps :
             /\ isFirst(i) /\ reason = "TOOFEWCOPIES" /\ queue[i].stage = "WAITING"
             /\ queue' = [queue EXCEPT ![i] = newEntry(from, to, f, reason, t)]
             /\ temps' = temps \cup {t}
        \/ \E i \in DOMAIN queue :
             /\ isFirst(i) /\ (reason = "TOOFEWCOPIES" => queue[i].stage # "WAITING")
             /\ UNCHANGED <<queue, temps>>

-----------------------------------------------------------------------------

Init == /\ table = Node
        /\ status = [dead |-> {}, disabled |-> {}, retiring |-> {}]
        /\ saved = [table |-> table, status |-> status]
        /\ copies \in [File -> {{n} : n \in Node}]
        /\ replcount = [f \in File |-> ""]
        /\ queue = <<>> /\ handles = {} /\ temps = {}
        /\ unwalked = {} /\ checked = FALSE
        /\ phase = "messages" /\ pos = 0
        /\ events = 0

event == events < MaxEvents /\ events' = events + 1

(* handleMessageTouch and iLikeThisFile. *)
touch(f, n) ==
    /\ phase = "messages" /\ event
    /\ n \in table \ copies[f]
    /\ \E source \in fileLocations(status, copies[f]) \cap table :
         addToReplicationQueue(source, n, f, "REQUESTED")
    /\ UNCHANGED <<table, saved, status, copies, replcount, handles, walk, phase, pos>>

(* Mutant: the catalogue keeps the locations of a removed node. *)
removeNodeOnly(n) ==
    /\ phase = "messages" /\ event
    /\ n \in table
    /\ table' = table \ {n}
    /\ status' = [l \in DOMAIN status |-> status[l] \ {n}]
    /\ UNCHANGED <<saved, copies, replcount, transfers, walk, phase, pos>>

(* handleMessageRemove, with deleteEntireLocation. *)
removeNode(n) ==
    /\ phase = "messages" /\ event
    /\ n \in table
    /\ table' = table \ {n}
    /\ status' = [l \in DOMAIN status |-> status[l] \ {n}]
    /\ copies' = [f \in File |-> copies[f] \ {n}]
    /\ UNCHANGED <<saved, replcount, transfers, walk, phase, pos>>

(* removeNode of the only node may end the process (see NodeTable), before *)
(* the catalogue is touched.                                               *)
removeLastNode ==
    /\ phase = "messages" /\ event
    /\ Cardinality(table) = 1
    /\ phase' = "stopped"
    /\ UNCHANGED <<table, saved, status, copies, replcount, transfers, walk, pos>>

(* The disable, enable, retire and unretire messages. *)
setStatus(n) ==
    /\ phase = "messages" /\ event
    /\ n \in table
    /\ \E l \in {"disabled", "retiring"}, s \in {{}, {n}} :
         status' = [status EXCEPT ![l] = (@ \ {n}) \cup s]
    /\ UNCHANGED <<table, saved, copies, replcount, transfers, walk, phase, pos>>

(* deleteLogicalFile, as far as the catalogue goes: it takes nothing off   *)
(* the queue.                                                              *)
deleteLogicalFile(f) ==
    /\ phase = "messages" /\ event
    /\ copies[f] # {}
    /\ copies' = [copies EXCEPT ![f] = {}]
    /\ UNCHANGED <<table, saved, status, replcount, transfers, walk, phase, pos>>

setReplCountFile(f, c) ==
    /\ phase = "messages" /\ event
    /\ copies[f] # {}
    /\ replcount' = [replcount EXCEPT ![f] = c]
    /\ UNCHANGED <<table, saved, status, copies, transfers, walk, phase, pos>>

(* pingNodes; checkFiles then lists the files again if it is at the end of *)
(* its list.                                                               *)
pingNodes ==
    /\ phase = "messages"
    /\ table # {}
    /\ \E answering \in SUBSET table :
         status' = [status EXCEPT !.dead = (@ \cap status.disabled)
                                           \cup ((table \ status.disabled) \ answering)]
    /\ status' # status => events < MaxEvents
    /\ events' = IF status' = status THEN events ELSE events + 1
    /\ unwalked' = IF unwalked = {} THEN {f \in File : copies[f] # {}} ELSE unwalked
    /\ checked' = FALSE
    /\ phase' = "check"
    /\ UNCHANGED <<table, saved, copies, replcount, transfers, pos>>

pingNodesEmpty ==
    /\ phase = "messages"
    /\ table = {}
    /\ phase' = "stopped"
    /\ UNCHANGED <<grid, transfers, walk, pos>>

(* One file of checkFiles: a copy of it is queued. *)
walkTo(f) == /\ phase = "check"
             /\ f \in unwalked
             /\ unwalked' = unwalked \ {f}
             /\ checked' = TRUE

queueCopy(f) ==
    /\ walkTo(f)
    /\ numCopies(f) < replicaCount(f)
    /\ numCopies(f) = 0 => getNumCopiesRetiring(status, copies[f]) > 0
    /\ \E from \in fileLocations(status, copies[f]) \cap table,
          to \in mirrorNodes(status, table, copies[f]) :
         addToReplicationQueue(from, to, f, "TOOFEWCOPIES")
    /\ UNCHANGED <<grid, handles, phase, pos>>

(* None is queued: there are enough copies, or there is no usable source,  *)
(* no suitable node with the space, no size attribute, or too little       *)
(* temporary space.                                                        *)
passOver(f) ==
    /\ walkTo(f)
    /\ UNCHANGED <<grid, transfers, phase, pos>>

(* filesPerIteration_ and countPerIteration_ cut the walk short, but not   *)
(* before its first file.                                                  *)
checkFilesDone ==
    /\ phase = "check"
    /\ checked \/ unwalked = {}
    /\ phase' = "make"
    /\ UNCHANGED <<grid, transfers, walk, pos>>

(* makeFreeSpace removes a location of a file that has copies to spare. *)
makeFreeSpace(f, n) ==
    /\ phase = "make" /\ event
    /\ n \in copies[f] \cap table
    /\ numCopies(f) > replicaCount(f)
    /\ canSafelyDelete(status, table, replcount[f], copies[f], n)
    /\ copies' = [copies EXCEPT ![f] = @ \ {n}]
    /\ UNCHANGED <<table, saved, status, replcount, transfers, walk, phase, pos>>

(* unNewFile registers a file that was put on a node. *)
unNewFile(f, n) ==
    /\ phase = "make" /\ event
    /\ n \in table \ (status.dead \cup status.disabled)
    /\ copies[f] = {}
    /\ copies' = [copies EXCEPT ![f] = {n}]
    /\ UNCHANGED <<table, saved, status, replcount, transfers, walk, phase, pos>>

(* handleNewModification registers the node that a new version was put on, *)
(* and the nodes that it cannot be copied to go on the dead list.          *)
handleNewModification(f, n) ==
    /\ phase = "make" /\ event
    /\ n \in table \ (status.dead \cup status.disabled)
    /\ copies' = [copies EXCEPT ![f] = @ \cup {n}]
    /\ \E failing \in SUBSET (table \ {n}) :
         status' = [status EXCEPT !.dead = @ \cup failing]
    /\ UNCHANGED <<table, saved, replcount, transfers, walk, phase, pos>>

makeDone ==
    /\ phase = "make"
    /\ phase' = "update"
    /\ pos' = 1
    /\ UNCHANGED <<grid, transfers, walk>>

-----------------------------------------------------------------------------
(* updateReplicationQueue: the entry at pos, and the storage element that  *)
(* it is waiting for.                                                      *)

inPass == phase = "update" /\ pos \in DOMAIN queue
element(e) == IF e.stage \in {"WAITING", "GETTING"} THEN e.from ELSE e.to
isOpen(e) == e.stage \in {"GETTING", "PUTTING"}
isDue(stages) == inPass /\ queue[pos].stage \in stages /\ element(queue[pos]) \in table

(* Mutant: the transfer that the entry had is not ended. *)
settleUnended(stage, h) ==
    /\ queue' = [queue EXCEPT ![pos] = [@ EXCEPT !.stage = stage, !.handle = h]]
    /\ handles' = handles \cup ({h} \ {none})
    /\ UNCHANGED temps

settle(stage, h) ==
    /\ queue' = [queue EXCEPT ![pos] = [@ EXCEPT !.stage = stage, !.handle = h]]
    /\ handles' = (handles \ {queue[pos].handle}) \cup ({h} \ {none})
    /\ UNCHANGED temps

monitorTransfer ==
    /\ isDue({"GETTING", "PUTTING"})
    /\ pos' = pos + 1
    /\ UNCHANGED <<grid, transfers, walk, phase>>

(* digs_monitorTransfer or digs_endTransfer reports an error. *)
transferFailed ==
    /\ isDue({"GETTING", "PUTTING"})
    /\ settle("DELETEME", none)
    /\ pos' = pos + 1
    /\ UNCHANGED <<grid, walk, phase>>

(* Mutant: the put starts in the next round. *)
getDoneNextRound ==
    /\ isDue({"GETTING"})
    /\ settle("WAITING2", none)
    /\ pos' = pos + 1
    /\ UNCHANGED <<grid, walk, phase>>

(* The put of this entry starts in the same round, so pos stays. *)
getDone ==
    /\ isDue({"GETTING"})
    /\ settle("WAITING2", none)
    /\ UNCHANGED <<grid, walk, phase, pos>>

putDone ==
    /\ isDue({"PUTTING"})
    /\ settle("DELETEME", none)
    /\ copies' = [copies EXCEPT ![queue[pos].lfn] = @ \cup {queue[pos].to}]
    /\ pos' = pos + 1
    /\ UNCHANGED <<table, saved, status, replcount, events, walk, phase>>

(* Mutant: an entry whose get cannot start goes on waiting. *)
startGetOrWait ==
    /\ isDue({"WAITING"})
    /\ queue[pos].reason = "TOOFEWCOPIES"
         => numCopies(queue[pos].lfn) < replicaCount(queue[pos].lfn)
    /\ \/ \E h \in Handle \ handles : settle("GETTING", h)
       \/ UNCHANGED transfers
    /\ pos' = pos + 1
    /\ UNCHANGED <<grid, walk, phase>>

startGet ==
    /\ isDue({"WAITING"})
    /\ queue[pos].reason = "TOOFEWCOPIES"
         => numCopies(queue[pos].lfn) < replicaCount(queue[pos].lfn)
    /\ \/ \E h \in Handle \ handles : settle("GETTING", h)
       \/ settle("DELETEME", none)
    /\ pos' = pos + 1
    /\ UNCHANGED <<grid, walk, phase>>

(* Enough copies by now, or constructFilename does not know the source. *)
dropWaiting ==
    /\ inPass
    /\ queue[pos].stage = "WAITING"
    /\ \/ /\ queue[pos].reason = "TOOFEWCOPIES"
          /\ numCopies(queue[pos].lfn) >= replicaCount(queue[pos].lfn)
       \/ queue[pos].from \notin table
    /\ settle("DELETEME", none)
    /\ pos' = pos + 1
    /\ UNCHANGED <<grid, walk, phase>>

startPut ==
    /\ isDue({"WAITING2"})
    /\ \/ \E h \in Handle \ handles : settle("PUTTING", h)
       \/ settle("DELETEME", none)
    /\ pos' = pos + 1
    /\ UNCHANGED <<grid, walk, phase>>

(* getNode returned NULL, and the entry calls through it. *)
nullElement ==
    /\ inPass
    /\ queue[pos].stage \in {"GETTING", "WAITING2", "PUTTING"}
    /\ element(queue[pos]) \notin table
    /\ phase' = "crashed"
    /\ pos' = 0
    /\ UNCHANGED <<grid, transfers, walk>>

passDone ==
    /\ phase = "update"
    /\ pos \notin DOMAIN queue
    /\ phase' = "purge"
    /\ pos' = 0
    /\ UNCHANGED <<grid, transfers, walk>>

purgeOne ==
    /\ phase = "purge"
    /\ \E i \in DOMAIN queue :
         /\ queue[i].stage = "DELETEME"
         /\ \A j \in 1..(i - 1) : queue[j].stage # "DELETEME"
         /\ queue' = RemoveAt(queue, i)
         /\ temps' = temps \ {queue[i].tmp}
    /\ UNCHANGED <<grid, handles, walk, phase, pos>>

(* runChecksums disables a node with a corrupt copy. *)
runChecksums(n) ==
    /\ phase = "purge" /\ event
    /\ \A i \in DOMAIN queue : queue[i].stage # "DELETEME"
    /\ n \in table \ (status.dead \cup status.disabled)
    /\ status' = [status EXCEPT !.disabled = @ \cup {n}]
    /\ UNCHANGED <<table, saved, copies, replcount, transfers, walk, phase, pos>>

(* The rest of the iteration ends with the writes of the four lists. *)
purgeDone ==
    /\ phase = "purge"
    /\ \A i \in DOMAIN queue : queue[i].stage # "DELETEME"
    /\ saved' = [table |-> table, status |-> status]
    /\ phase' = "messages"
    /\ UNCHANGED <<table, status, copies, replcount, events, transfers, walk, pos>>

(* The process dies and is started again: the queue was only in memory.    *)
(* A death between the writes of two lists is a matter of NodeTable.       *)
restart ==
    /\ IF phase \in {"stopped", "crashed"} THEN UNCHANGED events ELSE event
    /\ table' = saved.table /\ status' = saved.status
    /\ queue' = <<>> /\ handles' = {} /\ temps' = {}
    /\ unwalked' = {} /\ checked' = FALSE
    /\ phase' = "messages" /\ pos' = 0
    /\ UNCHANGED <<saved, copies, replcount>>

Messages == \/ \E f \in File, n \in Node : touch(f, n)
            \/ \E n \in Node : removeNode(n) \/ setStatus(n)
            \/ removeLastNode
            \/ \E f \in File : deleteLogicalFile(f)
            \/ \E f \in File, c \in Counts : setReplCountFile(f, c)

Make == \E f \in File, n \in Node :
            makeFreeSpace(f, n) \/ unNewFile(f, n) \/ handleNewModification(f, n)

Pass == \/ monitorTransfer \/ transferFailed
        \/ getDone \/ putDone
        \/ startGet \/ dropWaiting \/ startPut
        \/ nullElement

Next == \/ Messages
        \/ pingNodes \/ pingNodesEmpty
        \/ \E f \in File : queueCopy(f) \/ passOver(f)
        \/ checkFilesDone
        \/ Make \/ makeDone
        \/ Pass \/ passDone
        \/ purgeOne \/ purgeDone
        \/ \E n \in Node : runChecksums(n)
        \/ restart

Spec == Init /\ [][Next]_vars

-----------------------------------------------------------------------------

TypeOK ==
    /\ table \in SUBSET Node
    /\ status \in Statuses
    /\ saved \in [table: SUBSET Node, status: Statuses]
    /\ copies \in [File -> SUBSET Node]
    /\ replcount \in [File -> Counts]
    /\ queue \in Seq(Entry)
    /\ handles \in SUBSET Handle
    /\ temps \in SUBSET Temp
    /\ unwalked \in SUBSET File
    /\ checked \in BOOLEAN
    /\ phase \in Phases
    /\ pos \in Nat
    /\ events \in 0..MaxEvents

(* repqueue.c:97 calls the queue one "in order of priority".  It stays so  *)
(* although an entry that is updated in place would keep its place: when   *)
(* checkFiles comes to a file, no entry for it is still waiting.           *)
PriorityOrder ==
    \A i, j \in DOMAIN queue : i < j => queue[i].numCopies <= queue[j].numCopies

(* One replication of a file at a time because of too few copies, and one  *)
(* to each node that it was requested on.                                  *)
OneTransferEach ==
    \A i, j \in DOMAIN queue :
        (/\ i # j
         /\ queue[i].lfn = queue[j].lfn
         /\ queue[i].reason = queue[j].reason)
            => queue[i].reason = "REQUESTED" /\ queue[i].to # queue[j].to

(* Every transfer that is open belongs to one entry that polls it, and     *)
(* every temporary file to one entry that will unlink it.                  *)
NoLeaks ==
    /\ \A i \in DOMAIN queue : queue[i].handle # none <=> isOpen(queue[i])
    /\ \A h \in handles : \E i \in DOMAIN queue : queue[i].handle = h
    /\ \A t \in temps : \E i \in DOMAIN queue : queue[i].tmp = t
    /\ \A i \in DOMAIN queue : /\ queue[i].handle \in handles \cup {none}
                              /\ queue[i].tmp \in temps
    /\ \A i, j \in DOMAIN queue :
          i # j => /\ queue[i].tmp # queue[j].tmp
                   /\ isOpen(queue[i]) => queue[i].handle # queue[j].handle

(* Whatever completes after a node was removed, the catalogue maps files   *)
(* to nodes of the table only.                                             *)
LocationsKnown == \A f \in File : copies[f] \subseteq table

(* Where entries of each stage can be when.  Nothing that waits because of *)
(* too few copies outlives the iteration that queued it.                   *)
Resting == {"GETTING", "PUTTING"}
IsPlaced(e, i) ==
    /\ phase \in {"messages", "stopped"}
         => e.stage \in Resting \/ (e.stage = "WAITING" /\ e.reason = "REQUESTED")
    /\ phase = "check"
         => \/ e.stage \in Resting
            \/ e.stage = "WAITING" /\ (e.reason = "TOOFEWCOPIES" => e.lfn \notin unwalked)
    /\ phase = "make" => e.stage \in Resting \cup {"WAITING"}
    /\ phase = "update" /\ i < pos => e.stage \in Resting \cup {"DELETEME"}
    /\ phase = "update" /\ i = pos => e.stage # "DELETEME"
    /\ phase = "update" /\ i > pos => e.stage \in Resting \cup {"WAITING"}
    /\ phase = "purge" => e.stage \in Resting \cup {"DELETEME"}
Schedule == /\ phase = "update" <=> pos > 0
            /\ \A i \in DOMAIN queue : IsPlaced(queue[i], i)

(* Freeing space, and whatever else happens between the checks and the     *)
(* queue, leaves copies of a file that can be used at as many sites as     *)
(* before or at as many as the file must have copies.                      *)
SitesKept ==
    [][phase = "make" =>
          \A f \in File :
             LET sites(locs) == Cardinality(fileSites(status, table, locs))
             IN  sites(copies'[f]) >= sites(copies[f]) \/ sites(copies'[f]) >= replicaCount(f)
      ]_vars

-----------------------------------------------------------------------------
(* What the code says of itself and does not do *)

(* updateReplicationQueue "updates all the replications in the queue":     *)
(* it does not fail on one whose storage element has left the table.       *)
NoNullElement == phase # "crashed"

=============================================================================
