--------------------------- MODULE Deletion_proofs ---------------------------
(***************************************************************************)
(* What deleting leaves behind, for every grid and however often the       *)
(* process dies and the catalogue refuses: every copy in the catalogue     *)
(* that no delete is under way of has its data, and data without a         *)
(* catalogue entry is left in the three ways only that OrphansNamed names. *)
(***************************************************************************)
EXTENDS Deletion, SequenceTheorems, TLAPS

(* While a location is being deleted it is out of the catalogue, or doomed *)
(* in it; while its pending entry goes, its data is gone.                  *)
JobOK ==
  /\ job.step \in {"next", "rm", "add"} => phase = "messages"
  /\ job.step \in {"scan", "drop"} => phase = "ping"
  /\ job.step = "write" => phase \in {"messages", "ping"}
  /\ (phase = "messages" /\ job.step # "idle") \/ job.step = "space" => job.lfn \in File
  /\ job.step \in {"rm", "add", "space"} => job.host \in Node /\ (item \in catalogued => item \in doomed)
  /\ job.step = "drop" => job.i \in DOMAIN pending /\ pending[job.i] \notin stored

(* The file holds what is pending, except while it is written. *)
FileOK == pendingdels = IF job.step = "write" THEN <<>> ELSE pending

(* A copy in the catalogue whose delete is pending was put there since, or  *)
(* the catalogue refused to take it out.                                    *)
PendingDoomed == \A x \in catalogued : isPending(x) => x \in doomed

IInv == TypeOK /\ JobOK /\ FileOK /\ PendingDoomed /\ CatalogueBacked

-----------------------------------------------------------------------------
(* Lists *)

(* What RemoveAt makes of a sequence. *)
LEMMA RemoveAtFacts ==
  ASSUME NEW S, NEW q \in Seq(S), NEW p \in 1..Len(q)
  PROVE  /\ RemoveAt(q, p) \in Seq(S)
         /\ Len(RemoveAt(q, p)) = Len(q) - 1
         /\ DOMAIN RemoveAt(q, p) = 1..(Len(q) - 1)
         /\ \A i \in 1..(Len(q) - 1) :
              RemoveAt(q, p)[i] = IF i < p THEN q[i] ELSE q[i + 1]
<1> DEFINE l == SubSeq(q, 1, p - 1)
           r == SubSeq(q, p + 1, Len(q))
<1>1. /\ l \in Seq(S) /\ Len(l) = p - 1
      /\ \A i \in 1..(p - 1) : l[i] = q[i]
  OBVIOUS
<1>2. /\ r \in Seq(S) /\ Len(r) = Len(q) - p
      /\ \A i \in 1..(Len(q) - p) : r[i] = q[p + i]
  OBVIOUS
<1>3. RemoveAt(q, p) = l \o r
  BY DEF RemoveAt
<1> HIDE DEF l, r
<1>4. /\ l \o r \in Seq(S)
      /\ Len(l \o r) = Len(l) + Len(r)
      /\ \A i \in 1..(Len(l) + Len(r)) :
           (l \o r)[i] = IF i <= Len(l) THEN l[i] ELSE r[i - Len(l)]
  BY <1>1, <1>2, ConcatProperties
<1>5. Len(l \o r) = Len(q) - 1 /\ DOMAIN (l \o r) = 1..(Len(q) - 1)
  BY <1>1, <1>2, <1>4
<1>6. ASSUME NEW i \in 1..(Len(q) - 1)
      PROVE  (l \o r)[i] = IF i < p THEN q[i] ELSE q[i + 1]
  <2>1. (l \o r)[i] = IF i <= Len(l) THEN l[i] ELSE r[i - Len(l)]
    BY <1>1, <1>2, <1>4
  <2>2. CASE i < p
    BY <1>1, <2>1, <2>2
  <2>3. CASE ~(i < p)
    <3>1. i - (p - 1) \in 1..(Len(q) - p) /\ p + (i - (p - 1)) = i + 1
      BY <2>3
    <3>2. (l \o r)[i] = r[i - (p - 1)]
      BY <1>1, <2>1, <2>3
    <3>3. QED BY <1>2, <2>3, <3>1, <3>2
  <2>4. QED BY <2>2, <2>3
<1>7. QED
  BY <1>3, <1>4, <1>5, <1>6

(* What is left of a sequence was in it, and all but what was removed is     *)
(* left.                                                                   *)
LEMMA RemoveAtKeeps ==
  ASSUME NEW S, NEW q \in Seq(S), NEW p \in DOMAIN q
  PROVE  /\ \A i \in DOMAIN RemoveAt(q, p) : \E j \in DOMAIN q : RemoveAt(q, p)[i] = q[j]
         /\ \A j \in DOMAIN q \ {p} : \E i \in DOMAIN RemoveAt(q, p) : RemoveAt(q, p)[i] = q[j]
<1> DEFINE r == RemoveAt(q, p)
<1>1. /\ DOMAIN q = 1..Len(q) /\ DOMAIN r = 1..(Len(q) - 1)
      /\ \A i \in 1..(Len(q) - 1) : r[i] = IF i < p THEN q[i] ELSE q[i + 1]
  BY RemoveAtFacts
<1> HIDE DEF r
<1>2. ASSUME NEW j \in DOMAIN q \ {p}
      PROVE  \E i \in DOMAIN r : r[i] = q[j]
  <2>1. CASE j < p
    <3>1. j \in DOMAIN r /\ r[j] = q[j]
      BY <1>1, <2>1
    <3>2. QED BY <3>1
  <2>2. CASE ~(j < p)
    <3>1. j - 1 \in DOMAIN r /\ ~(j - 1 < p) /\ j - 1 + 1 = j
      BY <1>1, <2>2
    <3>2. QED BY <1>1, <3>1
  <2>3. QED BY <2>1, <2>2
<1>3. QED BY <1>1, <1>2 DEF r

-----------------------------------------------------------------------------

LEMMA InitInv == Init => IInv
<1> SUFFICES ASSUME Init PROVE IInv
  OBVIOUS
<1>1. TypeOK
  <2>1. copies \in [File -> SUBSET Node]
    BY DEF Init
  <2>2. /\ stored \in SUBSET Items /\ up \in SUBSET Node /\ dead \in SUBSET Node
        /\ disabled \in SUBSET Node /\ pending \in Seq(Items) /\ pendingdels \in Seq(Items)
        /\ phase \in {"messages", "ping", "work"} /\ doomed \in SUBSET Items
    BY DEF Init, catalogued
  <2>3. job \in Job
    BY DEF Init, noJob, Job, Steps
  <2>4. events \in 0..MaxEvents
    BY MaxEventsAssumption DEF Init
  <2>5. QED BY <2>1, <2>2, <2>3, <2>4 DEF TypeOK
<1>2. JobOK /\ FileOK
  BY DEF Init, noJob, JobOK, FileOK
<1>3. PendingDoomed /\ CatalogueBacked
  BY DEF Init, PendingDoomed, CatalogueBacked, isPending
<1>4. QED
  BY <1>1, <1>2, <1>3 DEF IInv

(* An unmapped location leaves the catalogue, and a mapped one joins it. *)
LEMMA CataloguedLess ==
  ASSUME copies \in [File -> SUBSET Node], NEW f \in File, NEW n \in Node,
         copies' = [copies EXCEPT ![f] = @ \ {n}]
  PROVE  copies' \in [File -> SUBSET Node] /\ catalogued' = catalogued \ {<<f, n>>}
<1>1. \A x \in Items : x[1] \in File /\ x[2] \in Node /\ x = <<x[1], x[2]>>
  BY DEF Items
<1>2. \A g \in File : copies'[g] = IF g = f THEN copies[f] \ {n} ELSE copies[g]
  OBVIOUS
<1>3. QED
  BY <1>1, <1>2 DEF catalogued

LEMMA CataloguedMore ==
  ASSUME copies \in [File -> SUBSET Node], NEW f \in File, NEW n \in Node,
         copies' = [copies EXCEPT ![f] = @ \cup {n}]
  PROVE  copies' \in [File -> SUBSET Node] /\ catalogued' = catalogued \cup {<<f, n>>}
<1>1. \A x \in Items : x[1] \in File /\ x[2] \in Node /\ x = <<x[1], x[2]>>
  BY DEF Items
<1>2. \A g \in File : copies'[g] = IF g = f THEN copies[f] \cup {n} ELSE copies[g]
  OBVIOUS
<1>3. <<f, n>> \in Items
  BY DEF Items
<1>4. QED
  BY <1>1, <1>2, <1>3 DEF catalogued

-----------------------------------------------------------------------------
(* Steps by what they change: nothing but the job and the nodes, or more   *)

Turns == /\ UNCHANGED <<data, lists>>
         /\ \/ \E n \in Node : passDisabled(n) \/ pingFails(n) \/ pingWorks(n)
            \/ \E n \in Node : passLocation(n)
            \/ \E f \in File : deleteLogicalFile(f)
            \/ rmFails \/ deleteDone \/ processMessagesDone \/ passEntry
            \/ tryDeletesDone \/ pingNodesDone \/ iterationDone
            \/ \E n \in Node : handleMessageDisable(n) \/ handleMessageEnable(n)
            \/ \E n \in Node : goDown(n) \/ comeBack(n)

LEMMA StepKinds ==
  ASSUME Next
  PROVE  \/ Turns
         \/ savePendingDeleteList \/ addPendingDelete \/ removePendingDelete
         \/ rm \/ tryDelete \/ makeFreeSpaceRm \/ restart
         \/ \E n \in Node : removeFileFromLocation(n)
         \/ \E f \in File, n \in Node :
              makeFreeSpace(f, n) \/ registerFile(f, n) \/ registerFails(f, n)
<1>1. ASSUME \/ \E n \in Node : passDisabled(n) \/ pingFails(n) \/ pingWorks(n)
             \/ \E n \in Node : passLocation(n)
             \/ \E f \in File : deleteLogicalFile(f)
             \/ rmFails \/ deleteDone \/ processMessagesDone \/ passEntry
             \/ tryDeletesDone \/ pingNodesDone \/ iterationDone
             \/ \E n \in Node : handleMessageDisable(n) \/ handleMessageEnable(n)
             \/ \E n \in Node : goDown(n) \/ comeBack(n)
      PROVE  Turns
  BY <1>1 DEF Turns, passDisabled, pingFails, pingWorks, passLocation, deleteLogicalFile, rmFails,
     deleteDone, processMessagesDone, passEntry, tryDeletesDone, pingNodesDone,
     iterationDone, handleMessageDisable, handleMessageEnable, goDown, comeBack
<1>2. QED
  BY <1>1 DEF Next, MainThread, Users, World, Delete, Ping

(* Turning to something else keeps types and the facts about the job. *)
LEMMA TurnsInv ==
  ASSUME IInv, Turns
  PROVE  IInv'
<1>0. TypeOK /\ JobOK /\ FileOK /\ PendingDoomed /\ CatalogueBacked
  BY DEF IInv
<1>1. UNCHANGED <<copies, stored, doomed, pending, pendingdels>>
  BY DEF Turns, data, lists
<1>2. PendingDoomed' /\ CatalogueBacked'
  BY <1>0, <1>1 DEF PendingDoomed, CatalogueBacked, catalogued, isPending
<1>3. /\ up' \in SUBSET Node /\ dead' \in SUBSET Node /\ disabled' \in SUBSET Node
      /\ events' \in 0..MaxEvents
  <2>1. UNCHANGED events \/ event
    BY DEF Turns, passDisabled, pingFails, pingWorks, passLocation, deleteLogicalFile, rmFails, deleteDone,
       processMessagesDone, passEntry, tryDeletesDone, pingNodesDone, iterationDone,
       handleMessageDisable, handleMessageEnable, goDown, comeBack
  <2>2. events' \in 0..MaxEvents
    BY <1>0, <2>1, MaxEventsAssumption DEF event, TypeOK
  <2>3. \/ UNCHANGED nodes
        \/ \E n \in Node : /\ up' \in {up, up \ {n}, up \cup {n}}
                           /\ dead' \in {dead, dead \ {n}, dead \cup {n}}
                           /\ disabled' \in {disabled, disabled \ {n}, disabled \cup {n}}
    BY DEF Turns, nodes, passDisabled, pingFails, pingWorks, passLocation, deleteLogicalFile, rmFails,
       deleteDone, processMessagesDone, passEntry, tryDeletesDone, pingNodesDone,
       iterationDone, handleMessageDisable, handleMessageEnable, goDown, comeBack
  <2>4. up \in SUBSET Node /\ dead \in SUBSET Node /\ disabled \in SUBSET Node
    BY <1>0 DEF TypeOK
  <2>5. QED BY <2>2, <2>3, <2>4 DEF nodes
<1>4. /\ phase' \in {"messages", "ping", "work"}
      /\ job' \in Job /\ JobOK' /\ FileOK'
  <2>1. job \in Job /\ copies \in [File -> SUBSET Node] /\ job.rest \in SUBSET Node
        /\ job.i \in Nat /\ phase \in {"messages", "ping", "work"}
    BY <1>0 DEF TypeOK, Job
  <2>2. {"idle", "next", "rm", "add", "scan"} \subseteq Steps /\ 1 \in Nat
    BY DEF Steps
  <2>3. catalogued' = catalogued
    BY <1>1 DEF catalogued
  <2> USE DEF goTo, FileOK
  <2>4. ASSUME NEW n \in Node, passDisabled(n) \/ pingFails(n)
        PROVE  phase' = phase /\ job' \in Job /\ JobOK' /\ FileOK'
    <3>1. phase = "ping" /\ job.step = "idle" /\ phase' = phase
          /\ job' = [job EXCEPT !.rest = @ \ {n}]
      BY <2>4 DEF passDisabled, pingFails
    <3>2. job' \in Job /\ job'.step = "idle"
      BY <2>1, <3>1 DEF Job
    <3>3. QED BY <1>0, <1>1, <3>1, <3>2 DEF JobOK
  <2>5. ASSUME NEW n \in Node, pingWorks(n)
        PROVE  phase' = phase /\ job' \in Job /\ JobOK' /\ FileOK'
    <3>1. phase = "ping" /\ job.step = "idle" /\ phase' = phase
          /\ job' = [job EXCEPT !.step = "scan", !.host = n, !.rest = @ \ {n}, !.i = 1]
      BY <2>5 DEF pingWorks
    <3>2. job' \in Job /\ job'.step = "scan"
      BY <2>1, <2>2, <3>1 DEF Job
    <3>3. QED BY <1>0, <1>1, <3>1, <3>2 DEF JobOK
  <2>51. ASSUME NEW n \in Node, passLocation(n)
        PROVE  phase' = phase /\ job' \in Job /\ JobOK' /\ FileOK'
    <3>1. job.step = "next" /\ phase' = phase /\ job' = [job EXCEPT !.rest = @ \ {n}]
      BY <2>51 DEF passLocation
    <3>2. job' \in Job /\ job'.step = "next" /\ job'.lfn = job.lfn
      BY <2>1, <3>1 DEF Job
    <3>3. QED BY <1>0, <1>1, <3>1, <3>2 DEF JobOK
  <2>6. ASSUME NEW f \in File, deleteLogicalFile(f)
        PROVE  phase' = phase /\ job' \in Job /\ JobOK' /\ FileOK'
    <3>1. /\ phase = "messages" /\ job.step = "idle" /\ phase' = phase
          /\ job' = [noJob EXCEPT !.step = "next", !.lfn = f, !.rest = copies[f]]
      BY <2>6 DEF deleteLogicalFile
    <3>2. job' \in Job /\ job'.step = "next" /\ job'.lfn = f
      BY <2>1, <2>2, <3>1 DEF Job, noJob
    <3>3. QED BY <1>0, <1>1, <3>1, <3>2 DEF JobOK
  <2>7. ASSUME rmFails PROVE phase' = phase /\ job' \in Job /\ JobOK' /\ FileOK'
    <3>1. job.step = "rm" /\ phase' = phase /\ job' = [job EXCEPT !.step = "add"]
      BY <2>7 DEF rmFails
    <3>2. /\ job' \in Job /\ job'.step = "add"
          /\ job'.lfn = job.lfn /\ job'.host = job.host
      BY <2>1, <2>2, <3>1 DEF Job
    <3>3. QED BY <1>0, <1>1, <2>3, <3>1, <3>2 DEF JobOK, item
  <2>8. ASSUME noJob = job', phase' \in {"messages", "ping", "work"}, job.step # "write"
        PROVE  job' \in Job /\ JobOK' /\ FileOK'
    <3>1. job' \in Job /\ job'.step = "idle"
      BY <2>2, <2>8 DEF Job, noJob
    <3>2. QED BY <1>0, <1>1, <2>8, <3>1 DEF JobOK
  <2>9. ASSUME deleteDone \/ pingNodesDone
        PROVE  phase' \in {"messages", "ping", "work"} /\ job' \in Job /\ JobOK' /\ FileOK'
    BY <2>1, <2>8, <2>9 DEF deleteDone, pingNodesDone
  <2>10. ASSUME processMessagesDone
        PROVE  phase' = "ping" /\ job' \in Job /\ JobOK' /\ FileOK'
    <3>1. job.step = "idle" /\ phase' = "ping" /\ job' = [noJob EXCEPT !.rest = Node]
      BY <2>10 DEF processMessagesDone
    <3>2. job' \in Job /\ job'.step = "idle"
      BY <2>2, <3>1 DEF Job, noJob
    <3>3. QED BY <1>0, <1>1, <3>1, <3>2 DEF JobOK
  <2>11. ASSUME passEntry PROVE phase' = phase /\ job' \in Job /\ JobOK' /\ FileOK'
    <3>1. job.step = "scan" /\ phase' = phase /\ job' = [job EXCEPT !.i = @ + 1]
      BY <2>11 DEF passEntry, atEntry
    <3>2. job' \in Job /\ job'.step = "scan" /\ job'.lfn = job.lfn
      BY <2>1, <3>1 DEF Job
    <3>3. QED BY <1>0, <1>1, <3>1, <3>2 DEF JobOK
  <2>12. ASSUME tryDeletesDone PROVE phase' = phase /\ job' \in Job /\ JobOK' /\ FileOK'
    <3>1. job.step = "scan" /\ phase' = phase /\ job' = [job EXCEPT !.step = "idle"]
      BY <2>12 DEF tryDeletesDone
    <3>2. job' \in Job /\ job'.step = "idle"
      BY <2>1, <2>2, <3>1 DEF Job
    <3>3. QED BY <1>0, <1>1, <3>1, <3>2 DEF JobOK
  <2>13. ASSUME job' = job, job.step = "idle", phase' \in {"messages", "ping", "work"}
        PROVE  job' \in Job /\ JobOK' /\ FileOK'
    BY <1>0, <1>1, <2>1, <2>13 DEF JobOK
  <2>14. ASSUME iterationDone \/ \E n \in Node : handleMessageDisable(n) \/ handleMessageEnable(n)
        PROVE  phase' \in {"messages", "ping", "work"} /\ job' \in Job /\ JobOK' /\ FileOK'
    BY <2>1, <2>13, <2>14 DEF iterationDone, handleMessageDisable, handleMessageEnable
  <2>15. ASSUME NEW n \in Node, goDown(n) \/ comeBack(n)
        PROVE  phase' = phase /\ job' \in Job /\ JobOK' /\ FileOK'
    <3>1. UNCHANGED <<phase, job>>
      BY <2>15 DEF goDown, comeBack
    <3>2. QED BY <1>0, <1>1, <2>1, <2>3, <3>1 DEF JobOK, item
  <2>16. QED
    BY <2>1, <2>4, <2>5, <2>51, <2>6, <2>7, <2>9, <2>10, <2>11, <2>12, <2>14, <2>15 DEF Turns
<1>5. TypeOK'
  BY <1>0, <1>1, <1>3, <1>4 DEF TypeOK
<1>6. QED
  BY <1>2, <1>4, <1>5 DEF IInv

-----------------------------------------------------------------------------
(* Steps that change data or lists *)

(* The list of pending deletes is saved. *)
LEMMA SaveInv ==
  ASSUME IInv, savePendingDeleteList
  PROVE  IInv'
<1>1. TypeOK /\ JobOK /\ FileOK /\ PendingDoomed /\ CatalogueBacked
  BY DEF IInv
<1>2. /\ pendingdels' = pending /\ pending' = pending /\ phase' = phase
      /\ UNCHANGED <<copies, stored, doomed, up, dead, disabled, events>>
      /\ job' = [job EXCEPT !.step = IF phase = "messages" THEN "next" ELSE "scan", !.i = 1]
  BY DEF savePendingDeleteList, data, nodes
<1>3. /\ job' \in Job /\ job'.lfn = job.lfn
      /\ job'.step = IF phase = "messages" THEN "next" ELSE "scan"
  BY <1>1, <1>2 DEF TypeOK, Job, Steps
<1>4. TypeOK'
  BY <1>1, <1>2, <1>3 DEF TypeOK
<1>5. JobOK' /\ FileOK'
  BY <1>1, <1>2, <1>3 DEF JobOK, FileOK, savePendingDeleteList
<1>6. PendingDoomed' /\ CatalogueBacked'
  BY <1>1, <1>2 DEF PendingDoomed, CatalogueBacked, catalogued, isPending
<1>7. QED BY <1>4, <1>5, <1>6 DEF IInv

(* What is appended to the pending deletes is out of the catalogue, or     *)
(* doomed in it.                                                           *)
LEMMA AddPendingInv ==
  ASSUME IInv, addPendingDelete
  PROVE  IInv'
<1>1. TypeOK /\ JobOK /\ FileOK /\ PendingDoomed /\ CatalogueBacked
  BY DEF IInv
<1>2. /\ job.step = "add" /\ pending' = Append(pending, item) /\ pendingdels' = <<>>
      /\ UNCHANGED <<copies, stored, doomed, up, dead, disabled, events, phase>>
      /\ job' = [job EXCEPT !.step = "write"]
  BY DEF addPendingDelete, data, nodes, fopen, goTo
<1>3. /\ job' \in Job /\ job'.lfn = job.lfn /\ job'.step = "write"
  BY <1>1, <1>2 DEF TypeOK, Job, Steps
<1>4. /\ item \in Items /\ (item \in catalogued => item \in doomed)
      /\ phase = "messages" /\ job.lfn \in File
  BY <1>1, <1>2 DEF JobOK, item, Items
<1>5. /\ pending \in Seq(Items) /\ pending' \in Seq(Items)
      /\ \A x \in Items : isPending(x)' => isPending(x) \/ x = item
  BY <1>1, <1>2, <1>4 DEF TypeOK, isPending
<1>6. TypeOK'
  BY <1>1, <1>2, <1>3, <1>5 DEF TypeOK
<1>7. JobOK' /\ FileOK'
  BY <1>2, <1>3, <1>4 DEF JobOK, FileOK
<1>8. PendingDoomed' /\ CatalogueBacked'
  BY <1>1, <1>2, <1>4, <1>5 DEF PendingDoomed, CatalogueBacked, catalogued
<1>9. QED BY <1>6, <1>7, <1>8 DEF IInv

(* What leaves the pending deletes was there, and nothing else changes.    *)
LEMMA RemovePendingInv ==
  ASSUME IInv, removePendingDelete
  PROVE  IInv'
<1>1. TypeOK /\ JobOK /\ FileOK /\ PendingDoomed /\ CatalogueBacked
  BY DEF IInv
<1>2. /\ job.step = "drop" /\ pending' = RemoveAt(pending, job.i) /\ pendingdels' = <<>>
      /\ UNCHANGED <<copies, stored, doomed, up, dead, disabled, events, phase>>
      /\ job' = [job EXCEPT !.step = "write"]
  BY DEF removePendingDelete, data, nodes, fopen, goTo
<1>3. /\ job' \in Job /\ job'.lfn = job.lfn /\ job'.step = "write"
  BY <1>1, <1>2 DEF TypeOK, Job, Steps
<1>4. job.i \in DOMAIN pending /\ job.i \in 1..Len(pending) /\ pending \in Seq(Items)
  BY <1>1, <1>2 DEF JobOK, TypeOK
<1>5. pending' \in Seq(Items)
  BY <1>2, <1>4, RemoveAtFacts
<1>6. \A x \in Items : isPending(x)' => isPending(x)
  BY <1>2, <1>4, RemoveAtKeeps DEF isPending
<1>7. TypeOK'
  BY <1>1, <1>2, <1>3, <1>5 DEF TypeOK
<1>8. phase \in {"messages", "ping"} /\ (phase = "messages" => job.lfn \in File)
  BY <1>1, <1>2 DEF JobOK
<1>9. JobOK' /\ FileOK'
  BY <1>2, <1>3, <1>8 DEF JobOK, FileOK
<1>10. PendingDoomed' /\ CatalogueBacked'
  BY <1>1, <1>2, <1>6 DEF PendingDoomed, CatalogueBacked, catalogued
<1>11. QED BY <1>7, <1>9, <1>10 DEF IInv

(* Data goes whose location went before, or that a pending delete names.   *)
LEMMA RemovalInv ==
  ASSUME IInv, rm \/ tryDelete \/ makeFreeSpaceRm
  PROVE  IInv'
<1>1. TypeOK /\ JobOK /\ FileOK /\ PendingDoomed /\ CatalogueBacked
  BY DEF IInv
<1>2. UNCHANGED <<copies, doomed, up, dead, disabled, events, phase, pending, pendingdels>>
  BY DEF rm, tryDelete, makeFreeSpaceRm, data, nodes, lists
<1>3. catalogued' = catalogued /\ PendingDoomed'
  BY <1>1, <1>2 DEF PendingDoomed, catalogued, isPending
<1>4. CASE rm \/ makeFreeSpaceRm
  <2>1. /\ job.step \in {"rm", "space"}
        /\ stored' \in SUBSET stored /\ stored \ stored' \subseteq {item}
        /\ job' = [job EXCEPT !.step = "next"] \/ job' = noJob
    BY <1>4 DEF rm, makeFreeSpaceRm, goTo
  <2>2. /\ item \in catalogued => item \in doomed
        /\ job.step = "rm" => phase = "messages" /\ job.lfn \in File
    BY <1>1, <2>1 DEF JobOK
  <2>3. /\ job' \in Job
        /\ job'.step = "idle" \/ (job'.step = "next" /\ job'.lfn = job.lfn /\ job.step = "rm")
    BY <1>1, <1>4 DEF rm, makeFreeSpaceRm, goTo, TypeOK, Job, noJob, Steps
  <2>4. TypeOK'
    BY <1>1, <1>2, <2>1, <2>3 DEF TypeOK
  <2>5. JobOK' /\ FileOK'
    BY <1>1, <1>2, <2>1, <2>2, <2>3 DEF JobOK, FileOK
  <2>6. CatalogueBacked'
    BY <1>1, <1>2, <1>3, <2>1, <2>2 DEF CatalogueBacked
  <2>7. QED BY <1>3, <2>4, <2>5, <2>6 DEF IInv
<1>5. CASE tryDelete
  <2>1. /\ job.step = "scan" /\ job.i \in DOMAIN pending
        /\ stored' = stored \ {pending[job.i]}
        /\ job' = [job EXCEPT !.step = "drop"]
    BY <1>5 DEF tryDelete, atEntry, goTo
  <2>2. job' \in Job /\ job'.step = "drop" /\ job'.i = job.i /\ job'.lfn = job.lfn
    BY <1>1, <2>1 DEF TypeOK, Job, Steps
  <2>3. phase = "ping"
    BY <1>1, <2>1 DEF JobOK
  <2>4. pending[job.i] \in Items /\ isPending(pending[job.i])
    BY <1>1, <2>1 DEF TypeOK, isPending
  <2>5. pending[job.i] \in catalogued => pending[job.i] \in doomed
    BY <1>1, <2>4 DEF PendingDoomed
  <2>6. TypeOK'
    BY <1>1, <1>2, <2>1, <2>2 DEF TypeOK
  <2>7. JobOK' /\ FileOK'
    BY <1>1, <1>2, <2>1, <2>2, <2>3 DEF JobOK, FileOK
  <2>8. CatalogueBacked'
    BY <1>1, <1>2, <1>3, <2>1, <2>5 DEF CatalogueBacked
  <2>9. QED BY <1>3, <2>6, <2>7, <2>8 DEF IInv
<1>6. QED BY <1>4, <1>5

(* A restart finds in the file what was pending, or nothing.               *)
LEMMA RestartInv ==
  ASSUME IInv, restart
  PROVE  IInv'
<1>1. TypeOK /\ JobOK /\ FileOK /\ PendingDoomed /\ CatalogueBacked
  BY DEF IInv
<1>2. /\ UNCHANGED <<copies, stored, doomed, up, pendingdels>>
      /\ pending' = pendingdels /\ phase' = "messages" /\ job' = noJob
      /\ dead' \in SUBSET dead /\ disabled' \in SUBSET disabled /\ event
  BY DEF restart, data
<1>3. events' \in 0..MaxEvents
  BY <1>1, <1>2, MaxEventsAssumption DEF event, TypeOK
<1>4. job' \in Job /\ job'.step = "idle"
  BY <1>2 DEF Job, noJob, Steps
<1>5. pending' = <<>> \/ pending' = pending
  BY <1>1, <1>2 DEF FileOK
<1>6. \A x \in Items : isPending(x)' => isPending(x)
  BY <1>5 DEF isPending
<1>7. TypeOK'
  BY <1>1, <1>2, <1>3, <1>4 DEF TypeOK
<1>8. JobOK' /\ FileOK'
  BY <1>2, <1>4 DEF JobOK, FileOK
<1>9. PendingDoomed' /\ CatalogueBacked'
  BY <1>1, <1>2, <1>6 DEF PendingDoomed, CatalogueBacked, catalogued
<1>10. QED BY <1>7, <1>8, <1>9 DEF IInv

(* What the catalogue makes of a call that takes a location out: it is out, *)
(* or it is doomed, and nothing else is touched.                            *)
Unmapped(f, n) ==
  \/ copies' = [copies EXCEPT ![f] = @ \ {n}] /\ doomed' = doomed \ {<<f, n>>}
  \/ UNCHANGED copies /\ doomed' = doomed \cup {<<f, n>>}

LEMMA UnmappedFacts ==
  ASSUME copies \in [File -> SUBSET Node], doomed \in SUBSET Items,
         NEW f \in File, NEW n \in Node, Unmapped(f, n)
  PROVE  /\ copies' \in [File -> SUBSET Node] /\ doomed' \in SUBSET Items
         /\ catalogued' \in SUBSET catalogued /\ catalogued \ catalogued' \in SUBSET {<<f, n>>}
         /\ <<f, n>> \in catalogued' => <<f, n>> \in doomed'
         /\ doomed \ doomed' \in SUBSET {<<f, n>>}
<1>1. <<f, n>> \in Items
  BY DEF Items
<1>2. CASE copies' = [copies EXCEPT ![f] = @ \ {n}] /\ doomed' = doomed \ {<<f, n>>}
  <2>1. copies' \in [File -> SUBSET Node] /\ catalogued' = catalogued \ {<<f, n>>}
    BY <1>2, CataloguedLess
  <2>2. QED BY <1>2, <2>1
<1>3. CASE UNCHANGED copies /\ doomed' = doomed \cup {<<f, n>>}
  <2>1. catalogued' = catalogued
    BY <1>3 DEF catalogued
  <2>2. QED BY <1>1, <1>3, <2>1
<1>4. QED BY <1>2, <1>3 DEF Unmapped

(* A location goes or is doomed, and the next step removes its data. *)
LEMMA UnmapInv ==
  ASSUME IInv, NEW f \in File, NEW n \in Node,
         \/ removeFileFromLocation(n) /\ f = job.lfn
         \/ makeFreeSpace(f, n)
  PROVE  IInv'
<1>1. TypeOK /\ JobOK /\ FileOK /\ PendingDoomed /\ CatalogueBacked
  BY DEF IInv
<1>2. /\ Unmapped(f, n)
      /\ UNCHANGED <<stored, up, dead, disabled, phase, pending, pendingdels>>
      /\ job.step \in {"idle", "next"}
      /\ UNCHANGED events \/ event
  BY DEF removeFileFromLocation, makeFreeSpace, nodes, lists, Unmapped
<1>3. events' \in 0..MaxEvents
  BY <1>1, <1>2, MaxEventsAssumption DEF event, TypeOK
<1>4. /\ copies' \in [File -> SUBSET Node] /\ doomed' \in SUBSET Items
      /\ catalogued' \in SUBSET catalogued
      /\ <<f, n>> \in catalogued' => <<f, n>> \in doomed'
      /\ doomed \ doomed' \in SUBSET {<<f, n>>}
  BY <1>1, <1>2, UnmappedFacts DEF TypeOK
<1>5. /\ job' \in Job /\ job'.lfn = f /\ job'.host = n
      /\ \/ job'.step = "rm" /\ job.step = "next"
         \/ job'.step = "space" /\ phase = "work"
  <2>1. CASE removeFileFromLocation(n) /\ f = job.lfn
    BY <1>1, <2>1 DEF removeFileFromLocation, TypeOK, Job, Steps
  <2>2. CASE makeFreeSpace(f, n)
    BY <1>1, <2>2 DEF makeFreeSpace, noJob, Job, Steps
  <2>3. QED BY <2>1, <2>2
<1>6. item' = <<f, n>> /\ (item' \in catalogued' => item' \in doomed')
  BY <1>4, <1>5 DEF item
<1>7. TypeOK'
  BY <1>1, <1>2, <1>3, <1>4, <1>5 DEF TypeOK
<1>8. JobOK' /\ FileOK'
  BY <1>1, <1>2, <1>5, <1>6 DEF JobOK, FileOK
<1>9. \A x \in catalogued' : x \in doomed => x \in doomed'
  BY <1>4
<1>10. \A x \in catalogued' : isPending(x)' => isPending(x)
  BY <1>2 DEF isPending
<1>11. PendingDoomed' /\ CatalogueBacked'
  BY <1>1, <1>2, <1>4, <1>9, <1>10 DEF PendingDoomed, CatalogueBacked
<1>12. QED BY <1>7, <1>8, <1>11 DEF IInv

(* A copy that joins the catalogue has its data. *)
LEMMA RegisterInv ==
  ASSUME IInv, NEW f \in File, NEW n \in Node, registerFile(f, n)
  PROVE  IInv'
<1>1. TypeOK /\ JobOK /\ FileOK /\ PendingDoomed /\ CatalogueBacked
  BY DEF IInv
<1>2. /\ copies' = [copies EXCEPT ![f] = @ \cup {n}] /\ stored' = stored \cup {<<f, n>>}
      /\ doomed' = IF isPending(<<f, n>>) THEN doomed \cup {<<f, n>>} ELSE doomed
      /\ UNCHANGED <<up, dead, disabled, phase, pending, pendingdels, job>>
      /\ job.step = "idle" /\ event
  BY DEF registerFile, nodes, lists
<1>3. events' \in 0..MaxEvents
  BY <1>1, <1>2, MaxEventsAssumption DEF event, TypeOK
<1>4. copies' \in [File -> SUBSET Node] /\ catalogued' = catalogued \cup {<<f, n>>}
  BY <1>1, <1>2, CataloguedMore DEF TypeOK
<1>5. <<f, n>> \in Items
  BY DEF Items
<1>6. TypeOK'
  BY <1>1, <1>2, <1>3, <1>4, <1>5 DEF TypeOK
<1>7. JobOK' /\ FileOK'
  BY <1>1, <1>2 DEF JobOK, FileOK
<1>8. PendingDoomed' /\ CatalogueBacked'
  BY <1>1, <1>2, <1>4 DEF PendingDoomed, CatalogueBacked, isPending
<1>9. QED BY <1>6, <1>7, <1>8 DEF IInv

(* A copy that was written and not registered has no say in the catalogue. *)
LEMMA UnregisteredInv ==
  ASSUME IInv, NEW f \in File, NEW n \in Node, registerFails(f, n)
  PROVE  IInv'
<1>1. TypeOK /\ JobOK /\ FileOK /\ PendingDoomed /\ CatalogueBacked
  BY DEF IInv
<1>2. /\ stored' = stored \cup {<<f, n>>}
      /\ UNCHANGED <<copies, doomed, up, dead, disabled, phase, pending, pendingdels, job>>
      /\ job.step = "idle" /\ event
  BY DEF registerFails, nodes, lists
<1>3. events' \in 0..MaxEvents /\ <<f, n>> \in Items
  BY <1>1, <1>2, MaxEventsAssumption DEF event, TypeOK, Items
<1>4. TypeOK'
  BY <1>1, <1>2, <1>3 DEF TypeOK
<1>5. JobOK' /\ FileOK'
  BY <1>1, <1>2 DEF JobOK, FileOK
<1>6. PendingDoomed' /\ CatalogueBacked'
  BY <1>1, <1>2 DEF PendingDoomed, CatalogueBacked, catalogued, isPending
<1>7. QED BY <1>4, <1>5, <1>6 DEF IInv

LEMMA NextInv ==
  ASSUME IInv, [Next]_vars
  PROVE  IInv'
<1>1. CASE Next
  <2>1. ASSUME NEW n \in Node, removeFileFromLocation(n) PROVE IInv'
    <3>1. job.lfn \in File
      BY <2>1 DEF removeFileFromLocation, IInv, JobOK
    <3>2. QED BY <2>1, <3>1, UnmapInv
  <2>2. QED
    BY <1>1, <2>1, StepKinds, TurnsInv, SaveInv, AddPendingInv, RemovePendingInv,
       RemovalInv, RestartInv, UnmapInv, RegisterInv, UnregisteredInv
<1>2. CASE UNCHANGED vars
  BY <1>2 DEF vars, IInv, TypeOK, JobOK, FileOK, PendingDoomed, CatalogueBacked,
     catalogued, item, isPending
<1>3. QED BY <1>1, <1>2

LEMMA Invariance == Spec => []IInv
BY InitInv, NextInv, PTL DEF Spec

(* Whatever users, storage elements, crashes and the catalogue do, a       *)
(* location in the catalogue has its data, but for one that the catalogue  *)
(* refused to take out when it was deleted, and a path whose delete was    *)
(* pending when it was registered again (deleteLogicalFile, makeFreeSpace, *)
(* tryDeletesOnHost).                                                      *)
THEOREM Backed == Spec => [](TypeOK /\ CatalogueBacked)
<1>1. IInv => TypeOK /\ CatalogueBacked
  BY DEF IInv
<1>2. QED BY <1>1, Invariance, PTL

-----------------------------------------------------------------------------
(* Nothing is forgotten: when data leaves the catalogue, the main thread   *)
(* has it in hand, and when it leaves the hand, it is pending or gone.     *)

Excused == \/ job.step = "space"
           \/ job.step \in {"rm", "add", "write"} /\ phase' = "messages" /\ job' = noJob

LEMMA OrphansShrink ==
  ASSUME stored' \in SUBSET stored, catalogued' = catalogued,
         inHand \in SUBSET inHand', \A x \in stored : isPending(x) => isPending(x)'
  PROVE  Orphans' \subseteq Orphans
BY DEF Orphans

LEMMA TurnsOrphans ==
  ASSUME Turns
  PROVE  Orphans' \subseteq Orphans
<1>1. UNCHANGED <<copies, stored, pending>>
  BY DEF Turns, data, lists
<1>2. inHand \in SUBSET inHand'
  <2>1. \/ job.step \in {"idle", "next", "scan"}
        \/ job' = job
        \/ rmFails
    BY DEF Turns, passDisabled, pingFails, pingWorks, passLocation, deleteLogicalFile, deleteDone,
       processMessagesDone, passEntry, atEntry, tryDeletesDone, pingNodesDone,
       iterationDone, handleMessageDisable, handleMessageEnable, goDown, comeBack
  <2>2. CASE job.step \in {"idle", "next", "scan"}
    BY <2>2 DEF inHand
  <2>3. CASE job' = job
    BY <2>3 DEF inHand, item
  <2>4. CASE rmFails
    <3>1. job' = [job EXCEPT !.step = "add"]
      BY <2>4 DEF rmFails, goTo
    <3>2. job'.lfn = job.lfn /\ job'.host = job.host
      BY <3>1
    <3>3. inHand \in SUBSET {item} /\ item' = item
      BY <3>2 DEF inHand, item
    <3>4. job'.step = "add" \/ inHand = {}
      BY <2>4, <3>1 DEF rmFails, inHand
    <3>5. QED BY <3>3, <3>4 DEF inHand
  <2>5. QED BY <2>1, <2>2, <2>3, <2>4
<1>3. QED
  BY <1>1, <1>2, OrphansShrink DEF catalogued, isPending

LEMMA ListOrphans ==
  ASSUME IInv, savePendingDeleteList \/ addPendingDelete \/ removePendingDelete
  PROVE  Orphans' \subseteq Orphans
<1>1. pending \in Seq(Items) /\ UNCHANGED <<copies, stored>>
  BY DEF IInv, TypeOK, savePendingDeleteList, addPendingDelete, removePendingDelete, data
<1>2. catalogued' = catalogued
  BY <1>1 DEF catalogued
<1>3. CASE savePendingDeleteList
  <2>1. inHand = {} /\ pending' = pending
    BY <1>3 DEF savePendingDeleteList, inHand
  <2>2. QED BY <1>1, <1>2, <2>1, OrphansShrink DEF isPending
<1>4. CASE addPendingDelete
  <2>1. pending' = Append(pending, item) /\ inHand \in SUBSET {item}
    BY <1>4 DEF addPendingDelete, inHand
  <2>2. item \in Items
    BY <1>4 DEF IInv, JobOK, addPendingDelete, item, Items
  <2>3. DOMAIN pending' = 1..(Len(pending) + 1) /\ pending'[Len(pending) + 1] = item
        /\ \A j \in DOMAIN pending : pending'[j] = pending[j]
    BY <1>1, <2>1, <2>2
  <2>4. \A x \in stored : isPending(x) \/ x = item => isPending(x)'
    BY <1>1, <2>3 DEF isPending
  <2>5. QED BY <1>1, <1>2, <2>1, <2>4 DEF Orphans
<1>5. CASE removePendingDelete
  <2>1. /\ inHand = {} /\ pending' = RemoveAt(pending, job.i)
        /\ job.i \in DOMAIN pending /\ pending[job.i] \notin stored
    BY <1>5 DEF removePendingDelete, inHand, IInv, JobOK
  <2>2. ASSUME NEW x \in stored, isPending(x) PROVE isPending(x)'
    <3>1. PICK j \in DOMAIN pending : pending[j] = x
      BY <2>2 DEF isPending
    <3>2. j # job.i
      BY <2>1, <3>1
    <3>3. QED BY <1>1, <2>1, <3>1, <3>2, RemoveAtKeeps DEF isPending
  <2>3. QED BY <1>1, <1>2, <2>1, <2>2, OrphansShrink
<1>6. QED BY <1>3, <1>4, <1>5

LEMMA DataOrphans ==
  ASSUME IInv, NEW f \in File, NEW n \in Node,
         \/ rm \/ tryDelete
         \/ removeFileFromLocation(n) /\ f = job.lfn
         \/ makeFreeSpace(f, n) \/ registerFile(f, n) \/ registerFails(f, n)
  PROVE  Orphans' \subseteq Orphans \cup (stored' \ stored)
<1>1. TypeOK /\ pending' = pending
  BY DEF IInv, rm, tryDelete, removeFileFromLocation, makeFreeSpace, registerFile,
     registerFails, lists
<1>2. \A x \in Items : isPending(x)' = isPending(x)
  BY <1>1 DEF isPending
<1>3. stored \in SUBSET Items /\ copies \in [File -> SUBSET Node]
  BY <1>1 DEF TypeOK
<1>4. CASE rm \/ tryDelete
  <2>1. UNCHANGED copies /\ inHand \in SUBSET (stored \ stored') /\ stored' \in SUBSET stored
    BY <1>4 DEF rm, tryDelete, atEntry, inHand
  <2>2. QED BY <1>2, <1>3, <2>1 DEF Orphans, catalogued
<1>5. CASE (removeFileFromLocation(n) /\ f = job.lfn) \/ makeFreeSpace(f, n)
  <2>1. UNCHANGED stored /\ inHand = {} /\ Unmapped(f, n)
    BY <1>5 DEF removeFileFromLocation, makeFreeSpace, inHand, Unmapped
  <2>2. job'.step \in {"rm", "space"} /\ item' = <<f, n>>
    BY <1>1, <1>5 DEF removeFileFromLocation, makeFreeSpace, item, noJob, TypeOK, Job
  <2>3. inHand' = {<<f, n>>} /\ catalogued \ catalogued' \in SUBSET {<<f, n>>}
    BY <1>1, <2>1, <2>2, UnmappedFacts DEF inHand, TypeOK
  <2>4. QED BY <1>2, <1>3, <2>1, <2>3 DEF Orphans
<1>6. CASE registerFile(f, n)
  <2>1. /\ inHand = {} /\ stored' = stored \cup {<<f, n>>}
        /\ copies' = [copies EXCEPT ![f] = @ \cup {n}]
    BY <1>6 DEF registerFile, inHand
  <2>2. catalogued' = catalogued \cup {<<f, n>>}
    BY <1>3, <2>1, CataloguedMore
  <2>3. QED BY <1>2, <1>3, <2>1, <2>2 DEF Orphans
<1>7. CASE registerFails(f, n)
  <2>1. inHand = {} /\ UNCHANGED copies
    BY <1>7 DEF registerFails, inHand
  <2>2. QED BY <1>2, <1>3, <2>1 DEF Orphans, catalogued
<1>8. QED BY <1>4, <1>5, <1>6, <1>7

LEMMA RestartOrphans ==
  ASSUME IInv, restart
  PROVE  Orphans' \subseteq Orphans \/ Excused
<1>1. /\ UNCHANGED <<copies, stored>> /\ pending' = pendingdels
      /\ phase' = "messages" /\ job' = noJob
  BY DEF restart, data
<1>2. SUFFICES ASSUME ~Excused PROVE Orphans' \subseteq Orphans
  OBVIOUS
<1>3. job.step \notin {"rm", "add", "write", "space"}
  BY <1>1, <1>2 DEF Excused
<1>4. inHand = {} /\ pending' = pending
  BY <1>1, <1>3 DEF inHand, IInv, FileOK
<1>5. QED BY <1>1, <1>4, OrphansShrink DEF isPending, catalogued

(* Data is left to itself in three ways only: a copy that was written and  *)
(* not registered, a removal of makeFreeSpace that fails, and a death of   *)
(* the process while it notes a delete or writes the list of them          *)
(* (deleteLogicalFile, savePendingDeleteList).                             *)
THEOREM NothingForgotten == Spec => OrphansNamed
<1>1. ASSUME IInv, [Next]_vars PROVE [Orphans' \subseteq Orphans \cup (stored' \ stored) \/ Excused]_vars
  <2>1. CASE UNCHANGED vars
    BY <2>1
  <2>2. CASE Next
    <3>1. ASSUME NEW n \in Node, removeFileFromLocation(n) PROVE Orphans' \subseteq Orphans \cup (stored' \ stored)
      <4>1. job.lfn \in File
        BY <1>1, <3>1 DEF removeFileFromLocation, IInv, JobOK
      <4>2. QED BY <1>1, <3>1, <4>1, DataOrphans
    <3>2. ASSUME rm \/ tryDelete PROVE Orphans' \subseteq Orphans \cup (stored' \ stored)
      <4>1. \E f \in File, n \in Node : TRUE
        <5>1. stored # {} /\ stored \in SUBSET Items
          BY <1>1, <3>2 DEF rm, tryDelete, IInv, TypeOK
        <5>2. QED BY <5>1 DEF Items
      <4>2. QED BY <1>1, <3>2, <4>1, DataOrphans
    <3>3. makeFreeSpaceRm => Excused
      BY DEF makeFreeSpaceRm, Excused
    <3>4. QED
      BY <1>1, <2>2, <3>1, <3>2, <3>3, StepKinds, TurnsOrphans, ListOrphans,
         DataOrphans, RestartOrphans
  <2>3. QED BY <1>1, <2>1, <2>2
<1>2. [Orphans' \subseteq Orphans \cup (stored' \ stored) \/ Excused]_vars
        <=> [\/ Orphans' \subseteq Orphans \cup (stored' \ stored)
             \/ job.step = "space"
             \/ job.step \in {"rm", "add", "write"} /\ phase' = "messages" /\ job' = noJob]_vars
  BY DEF Excused
<1>3. QED
  BY <1>1, <1>2, Invariance, PTL DEF Spec, OrphansNamed
=============================================================================
