---------------------------- MODULE FtpTransaction ----------------------------
(***************************************************************************)
(* GridFTP operations and transfers (gridftp-common.c, gridftp.c).  The    *)
(* main thread starts an operation on a handle of the Globus library and   *)
(* waits for it, or leaves it running and asks for it by number; threads   *)
(* of the library call back.  Whoever sees the operation off last frees    *)
(* its record: the main thread, or after a time-out the callback.          *)
(*                                                                         *)
(* A step is one section under the mutex of the list of transactions, with *)
(* the start of the operation that follows it.  A transfer writes the file *)
(* <path>-LOCKED block by block and endTransfer gives it its name.         *)
(***************************************************************************)
EXTENDS Naturals, FiniteSets

CONSTANTS Remote,   \* files on storage elements, the targets of puts
          Local,    \* local files, the targets of gets
          Blocks,   \* blocks of a file
          MaxId,    \* bound: transactions, ...
          MaxTransfers,  \* ... and how many of them are puts and gets
          none      \* no file, no transaction

Path == Remote \cup Local
Id == 0..MaxId - 1

(* A file holds the first n blocks that transfer "by" sent, if they are ok. *)
Data == [by : Id, n : 1..Blocks, ok : BOOLEAN]
Content == {none} \cup Data

ASSUME noneAssumption == none \notin Path \cup Id \cup Data
ASSUME PathAssumption == Remote \cap Local = {}
ASSUME MaxAssumption == MaxId \in Nat /\ MaxTransfers \in Nat /\ Blocks \in Nat \ {0}

VARIABLES next,       \* transactionId_
          trans,      \* the transactions; those in the list are "live"
          handles,    \* the transfers that a caller has started and not ended
          main,       \* the operation the main thread waits for, and why
          locked,     \* the content of <path>-LOCKED
          final,      \* the content of <path>
          told,       \* history: the transfer last reported to have succeeded
          lost,       \* history: transactions given up that nobody will free
          overlapped, \* history: paths used again while an abandoned operation ran
          unmoved     \* history: paths whose last reported get kept its temporary name

files == <<locked, final>>
history == <<told, lost, overlapped, unmoved>>
vars == <<next, trans, handles, main, locked, final, told, lost, overlapped, unmoved>>

whole(c) == c # none /\ c.n = Blocks /\ c.ok

Waits == {"call", "checksum", "mv", "rm", "rmLocked", "rmFinal"}
Transaction ==
    [op : Waits \cup {"put", "get", "none"},
     path : Path \cup {none},
     mem : {"none", "live", "freed", "leaked"},
     done : BOOLEAN, succeeded : BOOLEAN, waiting : BOOLEAN,
     running : BOOLEAN,                         \* what Globus makes of the handle
     sent : 0..Blocks,
     at : {"unopened", "locked", "final", "gone"},  \* the file being written
     seen : Content]                            \* what the checksum was of

Main == [at : {"idle"} \cup Waits, op : Id \cup {none}, t : Id \cup {none}]
idle == [at |-> "idle", op |-> none, t |-> none]

isTransfer(t) == trans[t].op \in {"put", "get"}
running(t) == trans[t].running

blank == [op |-> "none", path |-> none, mem |-> "none", done |-> FALSE, succeeded |-> FALSE,
          waiting |-> FALSE, running |-> FALSE, sent |-> 0, at |-> "unopened", seen |-> none]

Init == /\ next = 0
        /\ trans = [t \in Id |-> blank]
        /\ handles = {} /\ main = idle
        /\ locked = [p \in Path |-> none] /\ final = [p \in Path |-> none]
        /\ told = [p \in Path |-> none] /\ lost = {} /\ overlapped = {} /\ unmoved = {}

-----------------------------------------------------------------------------
(* The list of transactions *)

newFtpTransaction(op, p) ==
    [blank EXCEPT !.op = op, !.path = p, !.mem = "live", !.succeeded = op \in {"put", "get"},
                  !.waiting = TRUE, !.running = TRUE]

freed(x) == [blank EXCEPT !.op = IF x.op \in {"put", "get"} THEN x.op ELSE "none", !.mem = "freed"]

(* Globus refuses to destroy a handle in use; the memory is then leaked. *)
destroyFtpTransaction(ts, t) ==
    [ts EXCEPT ![t] = IF @.running THEN [@ EXCEPT !.mem = "leaked"] ELSE freed(@)]

(* Mutant: after a time-out the transaction is still said to be waited for. *)
waitWithoutLastCheck(t) ==
    IF trans[t].done
    THEN [ok |-> trans[t].succeeded, ts |-> destroyFtpTransaction(trans, t)]
    ELSE [ok |-> FALSE, ts |-> trans]

(* The last look of isTransactionDoneLastCheck decides who frees t.  The   *)
(* abort is a request: data and the callback may still come.               *)
waitOnFtp(t) ==
    IF trans[t].done
    THEN [ok |-> trans[t].succeeded, ts |-> destroyFtpTransaction(trans, t)]
    ELSE [ok |-> FALSE, ts |-> [trans EXCEPT ![t].waiting = FALSE]]

(* The state of a transfer that digs_monitorTransfer_globus reports. *)
digs_monitorTransfer(t) == IF ~trans[t].done THEN "open"
                           ELSE IF trans[t].succeeded THEN "done" ELSE "failed"

-----------------------------------------------------------------------------
(* Callbacks *)

(* Mutant: the callback frees the transaction whoever waits for it. *)
callbackFrees(ts, t, ok) ==
    destroyFtpTransaction([ts EXCEPT ![t].running = FALSE], t)

(* Mutant: the callback leaves every transaction to somebody else. *)
callbackKeeps(ts, t, ok) == [ts EXCEPT ![t].running = FALSE, ![t].done = TRUE, ![t].succeeded = ok]

callback(ts, t, ok) ==
    LET over == [ts EXCEPT ![t] = [@ EXCEPT !.running = FALSE, !.done = TRUE, !.succeeded = ok,
                                            !.sent = 0, !.at = "unopened"]]
    IN  IF ts[t].waiting THEN over ELSE destroyFtpTransaction(over, t)

(* A transfer that has p open follows the file when it is moved or removed. *)
moved(ts, p, from, to) ==
    [u \in Id |-> IF ts[u].path = p /\ ts[u].at = from THEN [ts[u] EXCEPT !.at = to] ELSE ts[u]]

(* p-LOCKED becomes p. *)
renamed(ts, p) == moved(moved(ts, p, "final", "gone"), p, "locked", "final")

(* Mutant: a file that is there is appended to. *)
appended(c, t, good) == [by |-> t, n |-> IF c = none THEN 1 ELSE c.n + 1, ok |-> good]

(* The content of a file after t has written a block; the first truncates it. *)
written(c, t, good) ==
    IF trans[t].sent = 0 THEN [by |-> t, n |-> 1, ok |-> good]
    ELSE [c EXCEPT !.n = IF c.by = t THEN trans[t].sent + 1 ELSE @,
                   !.ok = @ /\ c.by = t /\ good]

(* A block has been written (good: as it is in the source when that was     *)
(* checksummed), and the next one is requested; or the transfer breaks.     *)
blockDone(t, good) ==
    LET here == IF trans[t].sent = 0 THEN "locked" ELSE trans[t].at
        p    == trans[t].path
        ts   == [trans EXCEPT ![t].sent = @ + 1, ![t].at = here]
    IN  /\ trans[t].sent < Blocks
        /\ \/ trans' = ts
           \/ ts[t].sent < Blocks /\ trans' = [ts EXCEPT ![t].succeeded = FALSE]
        /\ locked' = IF here = "locked" THEN [locked EXCEPT ![p] = written(@, t, good)] ELSE locked
        /\ final' = IF here = "final" THEN [final EXCEPT ![p] = written(@, t, good)] ELSE final

(* Mutant: a failed block already settles the transfer. *)
dataCallbackSettles(t) ==
    /\ running(t) /\ isTransfer(t) /\ trans[t].succeeded
    /\ \/ \E good \in BOOLEAN : blockDone(t, good)
       \/ trans' = [trans EXCEPT ![t].succeeded = FALSE, ![t].done = TRUE] /\ UNCHANGED files
    /\ UNCHANGED <<next, handles, main, history>>

(* A block is on its way as long as nothing has failed. *)
dataCallback(t) ==
    /\ running(t) /\ isTransfer(t) /\ trans[t].succeeded
    /\ \/ \E good \in BOOLEAN : blockDone(t, good)
       \/ trans' = [trans EXCEPT ![t].succeeded = FALSE] /\ UNCHANGED files
    /\ UNCHANGED <<next, handles, main, history>>

replicateCompleteCallback(t) ==
    /\ running(t) /\ isTransfer(t)
    /\ \E ok \in BOOLEAN : /\ ok => trans[t].sent = Blocks
                           /\ trans' = callback(trans, t, ok)
    /\ UNCHANGED <<next, handles, main, files, history>>

(* The element has done what it was asked, perhaps without the answer      *)
(* reaching us, or it has not.                                             *)
completeCallback(t) ==
    LET p == trans[t].path  op == trans[t].op
    IN  /\ running(t) /\ ~isTransfer(t)
        /\ \E ok \in BOOLEAN :
             \/ /\ op = "call"
                /\ trans' = callback(trans, t, ok) /\ UNCHANGED files
             \/ /\ op = "checksum" /\ locked[p] # none
                /\ trans' = callback([trans EXCEPT ![t].seen = locked[p]], t, ok)
                /\ UNCHANGED files
             \/ /\ op = "mv" /\ locked[p] # none
                /\ trans' = renamed(callback(trans, t, ok), p)
                /\ final' = [final EXCEPT ![p] = locked[p]]
                /\ locked' = [locked EXCEPT ![p] = none]
             \/ /\ op \in {"rm", "rmLocked"} /\ locked[p] # none
                /\ trans' = moved(callback(trans, t, ok), p, "locked", "gone")
                /\ locked' = [locked EXCEPT ![p] = none] /\ UNCHANGED final
             \/ /\ op = "rmFinal" /\ final[p] # none
                /\ trans' = moved(callback(trans, t, ok), p, "final", "gone")
                /\ final' = [final EXCEPT ![p] = none] /\ UNCHANGED locked
             \/ /\ ~ok
                /\ trans' = callback(trans, t, FALSE) /\ UNCHANGED files
        /\ UNCHANGED <<next, handles, main, history>>

-----------------------------------------------------------------------------
(* Calls that wait: ls, chmod, mkdir and the like *)

(* The main thread now waits for a new transaction, for transfer t; ts has *)
(* the transactions so far.                                                *)
begin(ts, op, p, t) ==
    /\ next < MaxId
    /\ trans' = [ts EXCEPT ![next] = newFtpTransaction(op, p)]
    /\ next' = next + 1
    /\ main' = [at |-> op, op |-> next, t |-> t]

call ==
    /\ main = idle /\ begin(trans, "call", none, none)
    /\ UNCHANGED <<handles, files, history>>

callReturns ==
    /\ main.at = "call"
    /\ trans' = waitOnFtp(main.op).ts
    /\ main' = idle
    /\ UNCHANGED <<next, handles, files, history>>

-----------------------------------------------------------------------------
(* Transfers *)

(* The callers end one transfer to a path before they start another: the   *)
(* queue has one entry for a file and target, the rest wait for each.      *)
mayStart(p) == /\ main = idle /\ next < MaxId
               /\ Cardinality({t \in Id : isTransfer(t)}) < MaxTransfers
               /\ \A t \in handles : trans[t].path # p

overlaps(p) == IF \E u \in Id : running(u) /\ trans[u].path = p
               THEN overlapped \cup {p} ELSE overlapped

(* Globus refuses the put or the get. *)
startFails(op, p) ==
    /\ mayStart(p)
    /\ trans' = [trans EXCEPT ![next] = freed(newFtpTransaction(op, p))]
    /\ next' = next + 1
    /\ UNCHANGED <<handles, main, files, history>>

startTransfer(op, p) ==
    /\ mayStart(p)
    /\ trans' = [trans EXCEPT ![next] = newFtpTransaction(op, p)]
    /\ next' = next + 1
    /\ handles' = handles \cup {next}
    /\ overlapped' = overlaps(p)
    /\ UNCHANGED <<main, files, told, lost, unmoved>>

digs_startPutTransfer(p) == startTransfer("put", p)
digs_startGetTransfer(p) == startTransfer("get", p)

(* startFtpWrite cannot open the local file or send the first block: the    *)
(* put is aborted, and left in the list as waited for.                      *)
startFtpWriteFails(p) ==
    /\ mayStart(p)
    /\ trans' = [trans EXCEPT ![next] = [newFtpTransaction("put", p) EXCEPT !.succeeded = FALSE]]
    /\ next' = next + 1
    /\ lost' = lost \cup {next}
    /\ overlapped' = overlaps(p)
    /\ UNCHANGED <<handles, main, files, told, unmoved>>

(* startFtpRead fails: the get is aborted and destroyed at once. *)
startFtpReadFails(p) ==
    /\ mayStart(p)
    /\ trans' = destroyFtpTransaction(
                   [trans EXCEPT ![next] = [newFtpTransaction("get", p) EXCEPT !.succeeded = FALSE]],
                   next)
    /\ next' = next + 1
    /\ lost' = lost \cup {next}
    /\ overlapped' = overlaps(p)
    /\ UNCHANGED <<handles, main, files, told, unmoved>>

(* A transfer leaves the list at the end of digs_endTransfer_globus.  The  *)
(* callers end a transfer that has timed out as they end a settled one.    *)
ended(ts, t) == /\ trans' = destroyFtpTransaction(ts, t)
                /\ handles' = handles \ {t}
                /\ lost' = IF running(t) THEN lost \cup {t} ELSE lost
                /\ main' = idle

(* It failed, or a get does not have the checksum: nothing is removed. *)
endFailed(t) ==
    /\ main = idle /\ t \in handles
    /\ \/ ~trans[t].succeeded
       \/ trans[t].op = "get" /\ ~(whole(locked[trans[t].path]) /\ locked[trans[t].path].by = t)
    /\ ended(trans, t)
    /\ UNCHANGED <<next, files, told, overlapped, unmoved>>

(* Nobody looks whether the local file could be renamed. *)
endGet(t) ==
    LET p == trans[t].path
    IN  /\ main = idle /\ t \in handles /\ trans[t].op = "get" /\ trans[t].succeeded
        /\ whole(locked[p]) /\ locked[p].by = t
        /\ \/ /\ ended(renamed(trans, p), t)
              /\ final' = [final EXCEPT ![p] = locked[p]]
              /\ locked' = [locked EXCEPT ![p] = none]
              /\ unmoved' = unmoved \ {p}
           \/ ended(trans, t) /\ UNCHANGED files /\ unmoved' = unmoved \cup {p}
        /\ told' = [told EXCEPT ![p] = t]
        /\ UNCHANGED <<next, overlapped>>

(* Each operation on the element is preceded by a test whether the path is *)
(* a directory, which may fail, and Globus may refuse the operation.       *)
endPut(t) ==
    /\ main = idle /\ t \in handles /\ trans[t].op = "put" /\ trans[t].succeeded
    /\ \/ begin(trans, "checksum", trans[t].path, t) /\ UNCHANGED <<handles, lost>>
       \/ ended(trans, t) /\ UNCHANGED next
    /\ UNCHANGED <<files, told, overlapped, unmoved>>

(* Mutant: every checksum is taken for the right one. *)
anyChecksum(c, t) == TRUE

sameChecksum(c, t) == whole(c) /\ c.by = t

checksumReturns ==
    LET t == main.t
    IN  /\ main.at = "checksum"
        /\ LET r == waitOnFtp(main.op)
           IN  \/ /\ r.ok
                  /\ begin(r.ts, IF sameChecksum(trans[main.op].seen, t) THEN "mv" ELSE "rm",
                           trans[t].path, t)
                  /\ UNCHANGED <<handles, lost>>
               \/ ended(r.ts, t) /\ UNCHANGED next
        /\ UNCHANGED <<files, told, overlapped, unmoved>>

(* Mutant: the move is taken to have worked. *)
moveAssumed ==
    /\ main.at \in {"mv", "rm"}
    /\ ended(waitOnFtp(main.op).ts, main.t)
    /\ told' = IF main.at = "mv" THEN [told EXCEPT ![trans[main.t].path] = main.t] ELSE told
    /\ UNCHANGED <<next, files, overlapped, unmoved>>

moveReturns ==
    /\ main.at \in {"mv", "rm"}
    /\ ended(waitOnFtp(main.op).ts, main.t)
    /\ told' = IF waitOnFtp(main.op).ok /\ main.at = "mv"
               THEN [told EXCEPT ![trans[main.t].path] = main.t] ELSE told
    /\ UNCHANGED <<next, files, overlapped, unmoved>>

(* Nobody looks whether the callback has been already. *)
cancelled(t) ==
    /\ main = idle /\ t \in handles
    /\ handles' = handles \ {t}
    /\ lost' = IF trans[t].done THEN lost \cup {t} ELSE lost
    /\ told' = [told EXCEPT ![trans[t].path] = none]
    /\ UNCHANGED <<overlapped, unmoved>>

cancelGet(t) ==
    LET p == trans[t].path
    IN  /\ cancelled(t) /\ trans[t].op = "get"
        /\ trans' = moved(moved([trans EXCEPT ![t].waiting = FALSE], p, "locked", "gone"),
                         p, "final", "gone")
        /\ locked' = [locked EXCEPT ![p] = none] /\ final' = [final EXCEPT ![p] = none]
        /\ UNCHANGED <<next, main>>

(* For a put two removals follow; either may fail to start. *)
cancelPut(t) ==
    /\ cancelled(t) /\ trans[t].op = "put"
    /\ LET ts == [trans EXCEPT ![t].waiting = FALSE]
       IN  \/ begin(ts, "rmLocked", trans[t].path, none)
           \/ begin(ts, "rmFinal", trans[t].path, none)
           \/ trans' = ts /\ UNCHANGED <<next, main>>
    /\ UNCHANGED files

removalReturns ==
    /\ main.at \in {"rmLocked", "rmFinal"}
    /\ LET ts == waitOnFtp(main.op).ts
       IN  \/ main.at = "rmLocked" /\ begin(ts, "rmFinal", trans[main.op].path, none)
           \/ trans' = ts /\ main' = idle /\ UNCHANGED next
    /\ UNCHANGED <<handles, files, history>>

-----------------------------------------------------------------------------

Waiting == callReturns \/ checksumReturns \/ moveReturns \/ removalReturns

Completion(t) == replicateCompleteCallback(t) \/ completeCallback(t)

Next == \/ call \/ Waiting
        \/ \E op \in {"put", "get"}, p \in Path : startFails(op, p)
        \/ \E p \in Remote : digs_startPutTransfer(p) \/ startFtpWriteFails(p)
        \/ \E p \in Local : digs_startGetTransfer(p) \/ startFtpReadFails(p)
        \/ \E t \in Id : dataCallback(t) \/ Completion(t)
        \/ \E t \in Id : endFailed(t) \/ endGet(t) \/ endPut(t)
        \/ \E t \in Id : cancelGet(t) \/ cancelPut(t)

(* Globus calls back once for every operation, and waits have a limit. *)
Fairness == WF_vars(Waiting) /\ \A t \in Id : WF_vars(Completion(t))

Spec == Init /\ [][Next]_vars /\ Fairness

-----------------------------------------------------------------------------
(* Properties *)

(* Every variable has its type. *)
TypeOK == /\ next \in 0..MaxId
          /\ trans \in [Id -> Transaction]
          /\ handles \in SUBSET Id
          /\ main \in Main
          /\ locked \in [Path -> Content] /\ final \in [Path -> Content]
          /\ told \in [Path -> Id \cup {none}]
          /\ lost \in SUBSET Id /\ overlapped \in SUBSET Path /\ unmoved \in SUBSET Path

(* A record that a callback will still be given, that the main thread waits *)
(* for, or that a caller has a number for, has not been freed; and one that *)
(* a callback is to free is in the list.                                    *)
NoUseAfterFree ==
    \A t \in Id :
        /\ running(t) => trans[t].mem \in {"live", "leaked"}
        /\ running(t) /\ ~trans[t].waiting => trans[t].mem = "live"
        /\ t \in handles \cup {main.op, main.t} => trans[t].mem = "live"

(* Every transaction in the list has somebody who will free it: the main    *)
(* thread that waits for it, the caller that has its number, or a callback  *)
(* that is still to come.  The exceptions are the three that the code gives *)
(* up: a put whose file cannot be opened, a transfer ended before it is     *)
(* done, one cancelled after it was done.                                   *)
NoneForgotten ==
    \A t \in Id : trans[t].mem \in {"live", "leaked"} =>
        \/ t \in handles \cup {main.op, main.t} \cup lost
        \/ running(t) /\ ~trans[t].waiting

(* A file that has its own name is the whole of one transfer, unless the    *)
(* path was used again before the operations on it had ended.               *)
PublishedWhole == \A p \in Path \ overlapped : final[p] # none => whole(final[p])

(* What the caller was told is there is there, or a later version of it.    *)
(* The exceptions are a path that was used again while an abandoned         *)
(* operation on it ran, and a get that could not be given its name.         *)
ReportedThere ==
    \A p \in Path \ (overlapped \cup unmoved) : told[p] # none =>
        final[p] # none /\ whole(final[p]) /\ final[p].by >= told[p]

(* The temporary name keeps others from taking a file that is still being  *)
(* transferred (gridftp.c:1356): no file has its own name before it is      *)
(* whole.                                                                   *)
NeverPartlyPublished == \A p \in Path : final[p] # none => whole(final[p])

(* A transfer seen through its handle. *)
status == [t \in Id |-> IF ~isTransfer(t) THEN "none"
                        ELSE IF t \in handles \cup {main.t} THEN digs_monitorTransfer(t)
                        ELSE "closed"]

(* Transfers keep what the interface promises of them. *)
T == INSTANCE Transfer
ImplementsTransfer == T!Spec

(* A transaction that its caller has abandoned is freed in the end, and    *)
(* every call of the main thread returns.                                  *)
AbandonedFreed ==
    /\ \A t \in Id : (~trans[t].waiting /\ running(t)) ~> trans[t].mem = "freed"
    /\ main # idle ~> main = idle
===============================================================================
