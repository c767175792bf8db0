---------------------------- MODULE Modification -----------------------------
(***************************************************************************)
(* Modifying and locking files (background-modify.c, and the messages of   *)
(* background-msg.c).  A client puts a new version into the inbox of a     *)
(* node and announces it; the listener, which runs beside the main loop,   *)
(* authorises and queues the message; the main thread makes the version    *)
(* that of the catalogue and copies it over every replica, now or when the *)
(* node is back.                                                           *)
(*                                                                         *)
(* One step is one call that leaves the process, or one message.  The      *)
(* calls of the catalogue succeed, every user may write every file, files  *)
(* are not deleted and the node table stays as it is, without disabled     *)
(* nodes.  A version stands for its content, checksum and size.            *)
(***************************************************************************)
EXTENDS Naturals, Sequences, SequencesExt, FiniteSets, FiniteSetsExt

CONSTANTS Node, File, User,
          Administrator,  \* the users whose messages are not checked
          nobody,         \* no user, file or node
          MaxVersion,     \* bound: versions of files
          MaxEvents       \* bound: locks, transfers, failures and crashes

ASSUME NodeAssumption == IsFiniteSet(Node)
ASSUME nobodyAssumption == nobody \notin Node \cup File \cup User
ASSUME AdministratorAssumption == Administrator \subseteq User
ASSUME MaxAssumption == MaxVersion \in Nat \ {0} /\ MaxEvents \in Nat

VARIABLES copies,       \* the catalogue: locations of every file
          version,      \* the catalogue: md5sum and size of every file
          lockedby,     \* the catalogue: holder of the lock of every file
          content,      \* what every node stores under every file's path
          inbox,        \* what every node's inbox holds for every file
          uploads,      \* versions in an inbox that are not announced yet
          late,         \* copies that failed for the client and may still be renamed
          msgs,         \* msgListHead_
          newMods,      \* newModifications_
          pendMods,     \* pendingModifications_
          transfers,    \* replications under way
          up,           \* the storage elements that answer
          dead,         \* deadList_
          phase,        \* where the main loop is
          job,          \* what the main thread is doing in that phase
          author,       \* history: who made every version
          raced,        \* history: files with messages authorised side by side
          mixed,        \* history: files with modifications that overlapped
          events

catalogue == <<copies, version, lockedby>>
clients == <<inbox, uploads, late, author>>
mods == <<newMods, pendMods>>
nodes == <<up, dead>>
history == <<raced, mixed>>
main == <<phase, job>>
vars == <<catalogue, content, clients, msgs, mods, transfers, nodes, main, history, events>>

Version == 1..MaxVersion
nothing == 0            \* no file, or a broken one

Message == [type: {"modify", "lock", "unlock"}, lfn: File, sender: User,
            host: Node \cup {nobody}, ver: Version \cup {nothing}]
NewMod == [lfn: File, host: Node, ver: Version]
PendMod == [lfn: File, host: Node \cup {nobody}, source: Node]
Transfer == [lfn: File, to: Node, ver: Version]

Steps == {"idle", "try", "copy", "rm", "register", "fetch", "push"}
Job == [step: Steps, lfn: File \cup {nobody}, host: Node \cup {nobody},
        rest: SUBSET Node, i: Nat]
noJob == [step |-> "idle", lfn |-> nobody, host |-> nobody, rest |-> {}, i |-> 0]

idle(p) == phase = p /\ job.step = "idle"
event == events < MaxEvents /\ events' = events + 1

Init == /\ copies \in [File -> {{n} : n \in Node} \cup {Node}]
        /\ version = [f \in File |-> 1]
        /\ lockedby = [f \in File |-> nobody]
        /\ content = [f \in File |-> [n \in Node |-> IF n \in copies[f] THEN 1 ELSE nothing]]
        /\ inbox = [f \in File |-> [n \in Node |-> nothing]]
        /\ uploads = {} /\ late = {} /\ author = <<nobody>>
        /\ msgs = <<>> /\ newMods = <<>> /\ pendMods = <<>> /\ transfers = {}
        /\ up = Node /\ dead = {}
        /\ phase = "messages" /\ job = noJob
        /\ raced = {} /\ mixed = {} /\ events = 0

-----------------------------------------------------------------------------
(* What the listener asks *)

modificationsPending(f) == \/ \E i \in DOMAIN newMods : newMods[i].lfn = f
                           \/ \E i \in DOMAIN pendMods : pendMods[i].lfn = f

(* The lock; who may write a file at all is left out. *)
canDeleteFile(f, u) == lockedby[f] \in {nobody, u}

(* Mutant: the versions on their way are not looked at. *)
canModifyNow(f, u) == canDeleteFile(f, u)

canModify(f, u) == ~modificationsPending(f) /\ canDeleteFile(f, u)

(* Mutant: nor are they for a lock. *)
canLockNow(f, u) == lockedby[f] \in {nobody, u}

canLockFile(f, u) == ~modificationsPending(f) /\ lockedby[f] \in {nobody, u}

canUnlockFile(f, u) == lockedby[f] = u

permitted(m) == CASE m.type = "modify" -> canModify(m.lfn, m.sender)
                  [] m.type = "lock"   -> canLockFile(m.lfn, m.sender)
                  [] m.type = "unlock" -> canUnlockFile(m.lfn, m.sender)

(* listenCallback: a message is authorised and queued. *)
accept(m) ==
    LET forced == m.sender \in Administrator /\ ~permitted(m)
        beside(x) == x.lfn = m.lfn /\ x.sender # m.sender
    IN  /\ permitted(m) \/ forced
        /\ msgs' = Append(msgs, m)
        /\ raced' = IF forced \/ \E i \in DOMAIN msgs : beside(msgs[i])
                    THEN raced \cup {m.lfn} ELSE raced

reject(m) == /\ ~permitted(m) /\ m.sender \notin Administrator
             /\ UNCHANGED <<msgs, raced>>

-----------------------------------------------------------------------------
(* Clients *)

(* A modification of f is somewhere between its upload and its end. *)
inProgress(f) == \/ modificationsPending(f) \/ job.lfn = f
                 \/ \E x \in uploads \cup late : x.lfn = f
                 \/ \E i \in DOMAIN msgs : msgs[i].lfn = f /\ msgs[i].type = "modify"

copiesTo(f, where, v) == {[lfn |-> f, host |-> n, ver |-> v] : n \in where}

(* qcdgridModifyFile: first the upload, to the first of the nodes that     *)
(* takes it, if any does.  A copy that failed on a node before may still   *)
(* take effect there, when the rename that ends it has timed out.          *)
copyToSEInbox(u, f, failed) ==
    LET v == Len(author) + 1
    IN  /\ v <= MaxVersion
        /\ IF failed = {} THEN UNCHANGED events ELSE event
        /\ late' = late \cup copiesTo(f, failed, v)
        /\ author' = Append(author, u)
        /\ mixed' = IF inProgress(f) THEN mixed \cup {f} ELSE mixed
        /\ \/ \E n \in up \ failed :
                 /\ inbox' = [inbox EXCEPT ![f][n] = v]
                 /\ uploads' = uploads \cup copiesTo(f, {n}, v)
           \/ failed # {} /\ UNCHANGED <<inbox, uploads>>
        /\ UNCHANGED <<catalogue, content, msgs, mods, transfers, nodes, main, raced>>

renamedLate(x) ==
    /\ x.host \in up
    /\ inbox' = [inbox EXCEPT ![x.lfn][x.host] = x.ver]
    /\ late' = late \ {x}
    /\ UNCHANGED <<catalogue, content, uploads, author, msgs, mods, transfers, nodes, main,
                   history, events>>

(* ... then the message. *)
sendModify(x) ==
    LET m == [type |-> "modify", lfn |-> x.lfn, sender |-> author[x.ver],
              host |-> x.host, ver |-> x.ver]
    IN  /\ uploads' = uploads \ {x}
        /\ accept(m) \/ reject(m)
        /\ UNCHANGED <<catalogue, content, inbox, late, author, mods, transfers, nodes, main, mixed, events>>

sendLock(type, f, u) ==
    /\ event
    /\ accept([type |-> type, lfn |-> f, sender |-> u, host |-> nobody, ver |-> nothing])
    /\ UNCHANGED <<catalogue, content, clients, mods, transfers, nodes, main, mixed>>

-----------------------------------------------------------------------------
(* processMessages *)

handling(type) == /\ idle("messages")
                  /\ msgs # <<>> /\ Head(msgs).type = type
                  /\ msgs' = Tail(msgs)

(* addFileModification *)
handleMessageModify ==
    /\ handling("modify")
    /\ newMods' = Append(newMods, [lfn |-> Head(msgs).lfn, host |-> Head(msgs).host,
                                   ver |-> Head(msgs).ver])
    /\ UNCHANGED <<catalogue, content, clients, pendMods, transfers, nodes, main, history, events>>

handleMessageLock ==
    /\ handling("lock")
    /\ lockedby' = [lockedby EXCEPT ![Head(msgs).lfn] = Head(msgs).sender]
    /\ UNCHANGED <<copies, version, content, clients, mods, transfers, nodes, main, history, events>>

handleMessageUnlock ==
    /\ handling("unlock")
    /\ lockedby' = [lockedby EXCEPT ![Head(msgs).lfn] = nobody]
    /\ UNCHANGED <<copies, version, content, clients, mods, transfers, nodes, main, history, events>>

processMessagesDone ==
    /\ idle("messages")
    /\ msgs = <<>>
    /\ phase' = "ping" /\ job' = [noJob EXCEPT !.rest = Node]
    /\ UNCHANGED <<catalogue, content, clients, msgs, mods, transfers, nodes, history, events>>

-----------------------------------------------------------------------------
(* pingNodes, with tryModificationsOnHost on every node that answers *)

pingFails(n) ==
    /\ idle("ping") /\ n \in job.rest \ up
    /\ dead' = dead \cup {n}
    /\ job' = [job EXCEPT !.rest = @ \ {n}]
    /\ UNCHANGED <<catalogue, content, clients, msgs, mods, transfers, up, phase, history, events>>

(* Mutant: modifications are tried on nodes that come back only. *)
pingWorksBack(n) ==
    /\ idle("ping") /\ n \in job.rest \cap up
    /\ dead' = dead \ {n}
    /\ job' = IF n \in dead
              THEN [job EXCEPT !.step = "try", !.host = n, !.rest = @ \ {n}, !.i = 1]
              ELSE [job EXCEPT !.rest = @ \ {n}]
    /\ UNCHANGED <<catalogue, content, clients, msgs, mods, transfers, up, phase, history, events>>

pingWorks(n) ==
    /\ idle("ping") /\ n \in job.rest \cap up
    /\ dead' = dead \ {n}
    /\ job' = [job EXCEPT !.step = "try", !.host = n, !.rest = @ \ {n}, !.i = 1]
    /\ UNCHANGED <<catalogue, content, clients, msgs, mods, transfers, up, phase, history, events>>

(* A put that fails may have destroyed what was there. *)
putFails(f, n) == \/ UNCHANGED content
                  \/ n \in up /\ content' = [content EXCEPT ![f][n] = nothing]

(* Mutant: the entry that failed is dropped as well. *)
tryNextOnce ==
    /\ job.step = "try" /\ job.i \in DOMAIN pendMods
    /\ job' = [job EXCEPT !.i = @ + 1]
    /\ LET m == pendMods[job.i]
       IN  IF m.host # job.host THEN UNCHANGED <<content, pendMods>>
           ELSE /\ pendMods' = [pendMods EXCEPT ![job.i].host = nobody]
                /\ \/ /\ {m.source, m.host} \subseteq up /\ content[m.lfn][m.source] # nothing
                      /\ content' = [content EXCEPT ![m.lfn][m.host] = content[m.lfn][m.source]]
                   \/ putFails(m.lfn, m.host)
    /\ UNCHANGED <<catalogue, clients, msgs, newMods, transfers, nodes, phase, history, events>>

(* An entry of this host is carried out and marked, or its get or put fails. *)
tryNext ==
    /\ job.step = "try" /\ job.i \in DOMAIN pendMods
    /\ job' = [job EXCEPT !.i = @ + 1]
    /\ LET m == pendMods[job.i]
       IN  IF m.host # job.host THEN UNCHANGED <<content, pendMods>>
           ELSE \/ /\ {m.source, m.host} \subseteq up /\ content[m.lfn][m.source] # nothing
                   /\ content' = [content EXCEPT ![m.lfn][m.host] = content[m.lfn][m.source]]
                   /\ pendMods' = [pendMods EXCEPT ![job.i].host = nobody]
                \/ putFails(m.lfn, m.host) /\ UNCHANGED pendMods
    /\ UNCHANGED <<catalogue, clients, msgs, newMods, transfers, nodes, phase, history, events>>

(* Mutant: one marked entry a call. *)
pruneFirst(q) == LET marked == {i \in DOMAIN q : q[i].host = nobody}
                 IN  IF marked = {} THEN q ELSE RemoveAt(q, Min(marked))

(* prunePendingModList: what is not marked, in the order in which it was. *)
prune(q) == LET kept == {i \in DOMAIN q : q[i].host # nobody}
                place(j) == CHOOSE i \in kept : Cardinality(kept \cap 1..i) = j
            IN  [j \in 1..Cardinality(kept) |-> q[place(j)]]

tryModificationsDone ==
    /\ job.step = "try" /\ job.i \notin DOMAIN pendMods
    /\ pendMods' = prune(pendMods)
    /\ job' = [job EXCEPT !.step = "idle"]
    /\ UNCHANGED <<catalogue, content, clients, msgs, newMods, transfers, nodes, phase, history, events>>

pingNodesDone ==
    /\ idle("ping") /\ job.rest = {}
    /\ phase' = "work" /\ job' = noJob
    /\ UNCHANGED <<catalogue, content, clients, msgs, mods, transfers, nodes, history, events>>

-----------------------------------------------------------------------------
(* handleNewModification, for a file in an inbox *)

announced(f, n) == {i \in DOMAIN newMods : newMods[i].lfn = f /\ newMods[i].host = n}

(* The check finds the last entry of a file and node, the removal the first. *)
removeNewModification(f, n) == newMods' = RemoveAt(newMods, Min(announced(f, n)))

(* Mutant: the replicas on dead nodes are left out. *)
addPendingOfLiving(f, n) ==
    \E q \in SetToSeqs(copies[f] \ ({n} \cup dead)) :
        pendMods' = pendMods \o [i \in DOMAIN q |-> [lfn |-> f, host |-> q[i], source |-> n]]

(* In the order in which the catalogue lists them. *)
addPendingModifications(f, n) ==
    \E q \in SetToSeqs(copies[f] \ {n}) :
        pendMods' = pendMods \o [i \in DOMAIN q |-> [lfn |-> f, host |-> q[i], source |-> n]]

handleNewModification(f, n) ==
    /\ idle("work")
    /\ n \in up \ dead /\ inbox[f][n] # nothing /\ announced(f, n) # {}
    /\ LET v == newMods[Max(announced(f, n))].ver
       IN  IF v = inbox[f][n]
           THEN /\ version' = [version EXCEPT ![f] = v]
                /\ addPendingModifications(f, n)
                /\ job' = [noJob EXCEPT !.step = "copy", !.lfn = f, !.host = n]
                /\ mixed' = IF \E t \in transfers : t.lfn = f THEN mixed \cup {f} ELSE mixed
                /\ UNCHANGED newMods
           ELSE removeNewModification(f, n) /\ UNCHANGED <<version, pendMods, job, mixed>>
    /\ UNCHANGED <<copies, lockedby, content, clients, msgs, transfers, nodes, phase, raced, events>>

copyFromInbox ==
    /\ job.step = "copy" /\ job.host \in up
    /\ content' = [content EXCEPT ![job.lfn][job.host] = inbox[job.lfn][job.host]]
    /\ job' = [job EXCEPT !.step = "rm"]
    /\ UNCHANGED <<catalogue, clients, msgs, mods, transfers, nodes, phase, history, events>>

copyFromInboxFails ==
    /\ job.step = "copy"
    /\ \/ event
       \/ job.host \notin up /\ UNCHANGED events
    /\ putFails(job.lfn, job.host)
    /\ job' = noJob
    /\ UNCHANGED <<catalogue, clients, msgs, mods, transfers, nodes, phase, history>>

(* Whether that succeeds or not. *)
rm == /\ job.step = "rm"
      /\ \/ job.host \in up /\ inbox' = [inbox EXCEPT ![job.lfn][job.host] = nothing]
         \/ UNCHANGED inbox
      /\ job' = [job EXCEPT !.step = "register"]
      /\ UNCHANGED <<catalogue, content, uploads, late, author, msgs, mods, transfers, nodes, phase,
                     history, events>>

(* Mutant: the entry is removed with the registration of a new copy only. *)
registerAndRemove ==
    /\ job.step = "register"
    /\ copies' = [copies EXCEPT ![job.lfn] = @ \cup {job.host}]
    /\ IF job.host \in copies[job.lfn] THEN UNCHANGED newMods
       ELSE removeNewModification(job.lfn, job.host)
    /\ job' = [job EXCEPT !.step = "fetch"]
    /\ UNCHANGED <<version, lockedby, content, clients, msgs, pendMods, transfers, nodes, phase,
                   history, events>>

registerFileWithRc ==
    /\ job.step = "register"
    /\ copies' = [copies EXCEPT ![job.lfn] = @ \cup {job.host}]
    /\ removeNewModification(job.lfn, job.host)
    /\ job' = [job EXCEPT !.step = "fetch"]
    /\ UNCHANGED <<version, lockedby, content, clients, msgs, pendMods, transfers, nodes, phase,
                   history, events>>

copyToLocal ==
    /\ job.step = "fetch"
    /\ \/ job.host \in up /\ job' = [job EXCEPT !.step = "push", !.i = 1]
       \/ job' = noJob
    /\ UNCHANGED <<catalogue, content, clients, msgs, mods, transfers, nodes, phase, history, events>>

(* Every entry of the file gets what was fetched, whatever its source.     *)
copyFromLocal ==
    /\ job.step = "push" /\ job.i \in DOMAIN pendMods
    /\ job' = [job EXCEPT !.i = @ + 1]
    /\ LET m == pendMods[job.i]
       IN  IF m.lfn # job.lfn THEN UNCHANGED <<content, pendMods, dead>>
           ELSE \/ /\ m.host \in up
                   /\ content' = [content EXCEPT ![m.lfn][m.host] = content[m.lfn][job.host]]
                   /\ pendMods' = [pendMods EXCEPT ![job.i].host = nobody]
                   /\ UNCHANGED dead
                \/ /\ putFails(m.lfn, m.host)
                   /\ dead' = dead \cup {m.host}
                   /\ UNCHANGED pendMods
    /\ UNCHANGED <<catalogue, clients, msgs, newMods, transfers, up, phase, history, events>>

handleNewModificationDone ==
    /\ job.step = "push" /\ job.i \notin DOMAIN pendMods
    /\ pendMods' = prune(pendMods)
    /\ job' = noJob
    /\ UNCHANGED <<catalogue, content, clients, msgs, newMods, transfers, nodes, phase, history, events>>

-----------------------------------------------------------------------------
(* What else the main thread does with the copies of a file *)

(* The get of a replication is done: the version that it found is on its way. *)
getDone(f, from, to) ==
    /\ idle("work") /\ event
    /\ transfers = {}
    /\ from \in (copies[f] \cap up) \ dead /\ content[f][from] # nothing
    /\ to \in Node \ copies[f]
    /\ transfers' = {[lfn |-> f, to |-> to, ver |-> content[f][from]]}
    /\ mixed' = IF inProgress(f) THEN mixed \cup {f} ELSE mixed
    /\ UNCHANGED <<catalogue, content, clients, msgs, mods, nodes, main, raced>>

putDone(t) ==
    /\ idle("work") /\ t.to \in up
    /\ content' = [content EXCEPT ![t.lfn][t.to] = t.ver]
    /\ copies' = [copies EXCEPT ![t.lfn] = @ \cup {t.to}]
    /\ transfers' = transfers \ {t}
    /\ UNCHANGED <<version, lockedby, clients, msgs, mods, nodes, main, history, events>>

putFailed(t) ==
    /\ idle("work")
    /\ transfers' = transfers \ {t}
    /\ UNCHANGED <<catalogue, content, clients, msgs, mods, nodes, main, history, events>>

(* makeFreeSpace removes a copy that is not the last one. *)
makeFreeSpace(f, n) ==
    /\ idle("work") /\ event
    /\ n \in copies[f] \ dead /\ copies[f] # {n}
    /\ copies' = [copies EXCEPT ![f] = @ \ {n}]
    /\ putFails(f, n)
    /\ UNCHANGED <<version, lockedby, clients, msgs, mods, transfers, nodes, main, history>>

iterationDone ==
    /\ idle("work")
    /\ phase' = "messages"
    /\ UNCHANGED <<catalogue, content, clients, msgs, mods, transfers, nodes, job, history, events>>

-----------------------------------------------------------------------------

goDown(n) == /\ event
             /\ n \in up /\ up' = up \ {n}
             /\ UNCHANGED <<catalogue, content, clients, msgs, mods, transfers, dead, main, history>>

comeBack(n) == /\ event
               /\ n \notin up /\ up' = up \cup {n}
               /\ UNCHANGED <<catalogue, content, clients, msgs, mods, transfers, dead, main, history>>

(* savePendingModList ends no line, and loadPendingModList takes complete  *)
(* lines only: it finds none.                                              *)
loadPendingModList == newMods' = <<>> /\ pendMods' = <<>>

(* The process dies, with its messages and its replication queue, and is   *)
(* started again.                                                          *)
restart ==
    /\ event
    /\ loadPendingModList
    /\ msgs' = <<>> /\ transfers' = {}
    /\ dead' \in SUBSET dead
    /\ phase' = "messages" /\ job' = noJob
    /\ mixed' = mixed \cup {f \in File : inProgress(f)}
    /\ UNCHANGED <<catalogue, content, clients, up, raced>>

Clients == \/ \E u \in User, f \in File, failed \in SUBSET Node : copyToSEInbox(u, f, failed)
           \/ \E x \in late : renamedLate(x)
           \/ \E x \in uploads : sendModify(x)
           \/ \E u \in User, f \in File : sendLock("lock", f, u) \/ sendLock("unlock", f, u)

MainThread ==
    \/ handleMessageModify \/ handleMessageLock \/ handleMessageUnlock \/ processMessagesDone
    \/ \E n \in Node : pingFails(n) \/ pingWorks(n)
    \/ tryNext \/ tryModificationsDone \/ pingNodesDone
    \/ \E f \in File, n \in Node : handleNewModification(f, n)
    \/ copyFromInbox \/ copyFromInboxFails \/ rm \/ registerFileWithRc
    \/ copyToLocal \/ copyFromLocal \/ handleNewModificationDone
    \/ \E f \in File, from, to \in Node : getDone(f, from, to)
    \/ \E t \in transfers : putDone(t) \/ putFailed(t)
    \/ \E f \in File, n \in Node : makeFreeSpace(f, n)
    \/ iterationDone

World == (\E n \in Node : goDown(n) \/ comeBack(n)) \/ restart

Next == Clients \/ MainThread \/ World

Spec == Init /\ [][Next]_vars

(* The main loop goes on and looks at every inbox in every iteration; what *)
(* is tried for ever on storage elements that answer works at some time.   *)
FairSpec == /\ Spec
            /\ WF_vars(MainThread)
            /\ \A f \in File, n \in Node : SF_vars(handleNewModification(f, n))
            /\ SF_vars(tryNext /\ pendMods' # pendMods)

-----------------------------------------------------------------------------

(* Types; only a scan that has passed an entry leaves it without a host,   *)
(* on which every other reader of the list would fail.                     *)
TypeOK ==
    /\ copies \in [File -> SUBSET Node]
    /\ version \in [File -> Version]
    /\ lockedby \in [File -> User \cup {nobody}]
    /\ content \in [File -> [Node -> Version \cup {nothing}]]
    /\ inbox \in [File -> [Node -> Version \cup {nothing}]]
    /\ uploads \in SUBSET NewMod /\ late \in SUBSET NewMod
    /\ msgs \in Seq(Message)
    /\ newMods \in Seq(NewMod)
    /\ pendMods \in Seq(PendMod)
    /\ \A i \in DOMAIN pendMods :
          pendMods[i].host = nobody => job.step \in {"try", "push"} /\ i < job.i
    /\ transfers \in SUBSET Transfer
    /\ up \in SUBSET Node /\ dead \in SUBSET Node
    /\ phase \in {"messages", "ping", "work"}
    /\ job \in Job
    /\ author \in Seq(User \cup {nobody}) /\ Len(author) \in Version
    /\ raced \in SUBSET File /\ mixed \in SUBSET File
    /\ events \in 0..MaxEvents

(* When nothing is pending for a file, every copy in the catalogue is of   *)
(* the version in the catalogue: whichever step of handleNewModification   *)
(* or tryModificationsOnHost failed, how often and in which order they     *)
(* were tried again, unless two modifications, a replication or a restart  *)
(* came in between.                                                        *)
Settled ==
    \A f \in File \ mixed :
        ~modificationsPending(f) => \A n \in copies[f] : content[f][n] = version[f]

(* The version of a locked file is replaced by one of the holder's own     *)
(* only, unless messages about the file were authorised side by side.      *)
LockedByAuthor ==
    [][\A f \in File :
          version'[f] # version[f] /\ lockedby[f] # nobody /\ f \notin raced
            => author[version'[f]] = lockedby[f]]_vars

(* What is announced is in the inbox until it is done, so that it cannot   *)
(* stand in the way of locks and later modifications for ever.             *)
NotStuck ==
    \A i \in DOMAIN newMods :
        LET m == newMods[i]
        IN  \/ inbox[m.lfn][m.host] # nothing
            \/ job.step = "register" /\ job.lfn = m.lfn /\ job.host = m.host
            \/ m.lfn \in mixed

(* While all nodes answer, no file stays shut to locks and modifications:  *)
(* what is pending is carried out, unless modifications overlapped or the  *)
(* copy that was to be its source has been removed to free space.          *)
sourceLost(f) == \E i \in DOMAIN pendMods :
                    pendMods[i].lfn = f /\ content[f][pendMods[i].source] = nothing

=============================================================================
