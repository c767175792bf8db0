--------------------------- MODULE RepQueue_proofs ---------------------------
(***************************************************************************)
(* The replication queue stays in order of priority, replicates a file     *)
(* once, and leaks no transfer and no temporary file, for every grid.      *)
(***************************************************************************)
EXTENDS RepQueue, SequenceTheorems, FiniteSetTheorems, TLAPS

-----------------------------------------------------------------------------
(* Sequences *)

(* What InsertAt makes of a sequence. *)
LEMMA InsertAtFacts ==
  ASSUME NEW S, NEW q \in Seq(S), NEW e \in S, NEW p \in 1..(Len(q) + 1)
  PROVE  /\ InsertAt(q, p, e) \in Seq(S)
         /\ Len(InsertAt(q, p, e)) = Len(q) + 1
         /\ DOMAIN InsertAt(q, p, e) = 1..(Len(q) + 1)
         /\ InsertAt(q, p, e)[p] = e
         /\ \A i \in 1..(Len(q) + 1) : i < p => InsertAt(q, p, e)[i] = q[i]
         /\ \A i \in 1..(Len(q) + 1) : i > p => InsertAt(q, p, e)[i] = q[i - 1]
<1> DEFINE l == SubSeq(q, 1, p - 1)
           r == SubSeq(q, p, Len(q))
<1>1. /\ l \in Seq(S) /\ Len(l) = p - 1
      /\ \A i \in 1..(p - 1) : l[i] = q[i]
  OBVIOUS
<1>2. /\ r \in Seq(S) /\ Len(r) = Len(q) - p + 1
      /\ \A i \in 1..(Len(q) - p + 1) : r[i] = q[p + i - 1]
  OBVIOUS
<1>3. InsertAt(q, p, e) = (l \o <<e>>) \o r
  BY DEF InsertAt
<1> HIDE DEF l, r
<1>4. /\ l \o <<e>> \in Seq(S) /\ Len(l \o <<e>>) = p
      /\ \A i \in 1..p : (l \o <<e>>)[i] = IF i < p THEN q[i] ELSE e
  BY <1>1
<1> DEFINE m == l \o <<e>>
<1>5. m \in Seq(S) /\ Len(m) = p /\ \A i \in 1..p : m[i] = IF i < p THEN q[i] ELSE e
  BY <1>4
<1>6. InsertAt(q, p, e) = m \o r
  BY <1>3
<1> HIDE DEF m
<1>7. /\ m \o r \in Seq(S)
      /\ Len(m \o r) = Len(m) + Len(r)
      /\ \A i \in 1..(Len(m) + Len(r)) :
           (m \o r)[i] = IF i <= Len(m) THEN m[i] ELSE r[i - Len(m)]
  BY <1>2, <1>5, ConcatProperties
<1>8. QED
  BY <1>2, <1>5, <1>6, <1>7

(* The places around an inserted element, one at a time. *)
LEMMA InsertAtValue ==
  ASSUME NEW S, NEW q \in Seq(S), NEW e \in S, NEW p \in 1..(Len(q) + 1),
         NEW i \in 1..(Len(q) + 1)
  PROVE  /\ i < p => InsertAt(q, p, e)[i] = q[i]
         /\ i > p => InsertAt(q, p, e)[i] = q[i - 1]
<1>1. \A j \in 1..(Len(q) + 1) : j < p => InsertAt(q, p, e)[j] = q[j]
  BY InsertAtFacts
<1>2. \A j \in 1..(Len(q) + 1) : j > p => InsertAt(q, p, e)[j] = q[j - 1]
  BY InsertAtFacts
<1>3. QED BY <1>1, <1>2

(* What RemoveAt makes of a sequence. *)
LEMMA RemoveAtFacts ==
  ASSUME NEW S, NEW q \in Seq(S), NEW p \in 1..Len(q)
  PROVE  /\ RemoveAt(q, p) \in Seq(S)
         /\ Len(RemoveAt(q, p)) = Len(q) - 1
         /\ DOMAIN RemoveAt(q, p) = 1..(Len(q) - 1)
         /\ \A i \in 1..(Len(q) - 1) :
              RemoveAt(q, p)[i] = IF i < p THEN q[i] ELSE q[i + 1]
<1> DEFINE l == SubSeq(q, 1, p - 1)
           r == SubSeq(q, p + 1, Len(q))
<1>1. /\ l \in Seq(S) /\ Len(l) = p - 1
      /\ \A i \in 1..(p - 1) : l[i] = q[i]
  OBVIOUS
<1>2. /\ r \in Seq(S) /\ Len(r) = Len(q) - p
      /\ \A i \in 1..(Len(q) - p) : r[i] = q[p + i]
  OBVIOUS
<1>3. RemoveAt(q, p) = l \o r
  BY DEF RemoveAt
<1> HIDE DEF l, r
<1>4. /\ l \o r \in Seq(S)
      /\ Len(l \o r) = Len(l) + Len(r)
      /\ \A i \in 1..(Len(l) + Len(r)) :
           (l \o r)[i] = IF i <= Len(l) THEN l[i] ELSE r[i - Len(l)]
  BY <1>1, <1>2, ConcatProperties
<1>5. Len(l \o r) = Len(q) - 1 /\ DOMAIN (l \o r) = 1..(Len(q) - 1)
  BY <1>1, <1>2, <1>4
<1>6. ASSUME NEW i \in 1..(Len(q) - 1)
      PROVE  (l \o r)[i] = IF i < p THEN q[i] ELSE q[i + 1]
  <2>1. (l \o r)[i] = IF i <= Len(l) THEN l[i] ELSE r[i - Len(l)]
    BY <1>1, <1>2, <1>4
  <2>2. CASE i < p
    BY <1>1, <2>1, <2>2
  <2>3. CASE ~(i < p)
    <3>1. i - (p - 1) \in 1..(Len(q) - p) /\ p + (i - (p - 1)) = i + 1
      BY <2>3
    <3>2. (l \o r)[i] = r[i - (p - 1)]
      BY <1>1, <2>1, <2>3
    <3>3. QED BY <1>2, <2>3, <3>1, <3>2
  <2>4. QED BY <2>2, <2>3
<1>7. QED
  BY <1>3, <1>4, <1>5, <1>6

-----------------------------------------------------------------------------
(* Counts *)

LEMMA CopiesNat ==
  ASSUME NEW s, NEW locs \in SUBSET Node
  PROVE  getNumCopies(s, locs) \in Nat
<1>1. IsFiniteSet(locs \ (s.dead \cup s.retiring))
  BY NodeAssumption, FS_Subset
<1>2. QED
  BY <1>1, FS_CardinalityType DEF getNumCopies

-----------------------------------------------------------------------------
(* What a step may do to the queue *)

Inserts ==
  \E e \in Entry, p \in 1..(Len(queue) + 1) :
    /\ isPlace(queue, e.numCopies, p)
    /\ queue' = InsertAt(queue, p, e)
    /\ e.stage = "WAITING" /\ e.handle = none /\ e.tmp \notin temps
    /\ \A i \in DOMAIN queue : ~isSame(queue[i], e.to, e.lfn, e.reason)
    /\ handles' = handles /\ temps' = temps \cup {e.tmp}
    /\ phase' = phase /\ pos' = pos
    /\ \/ phase = "messages" /\ e.reason = "REQUESTED" /\ unwalked' = unwalked
       \/ phase = "check" /\ unwalked' = unwalked \ {e.lfn}

Settles ==
  \E stage \in Stages, h \in (Handle \ handles) \cup {none} :
    /\ inPass
    /\ h # none <=> stage \in Resting
    /\ settle(stage, h)
    /\ phase' = phase
    /\ \/ stage \in Resting \cup {"DELETEME"} /\ pos' = pos + 1
       \/ stage = "WAITING2" /\ pos' = pos

Removes ==
  \E i \in DOMAIN queue :
    /\ phase = "purge" /\ queue[i].stage = "DELETEME"
    /\ queue' = RemoveAt(queue, i)
    /\ handles' = handles /\ temps' = temps \ {queue[i].tmp}
    /\ phase' = phase /\ pos' = pos

Clears ==
  /\ queue' = <<>> /\ handles' = {} /\ temps' = {}
  /\ phase' = "messages" /\ pos' = 0

(* Steps that leave the transfers alone stay where they are or go on. *)
Idles == /\ UNCHANGED transfers /\ phase' = phase /\ pos' = pos
         /\ unwalked' \subseteq unwalked

Advances == /\ UNCHANGED transfers
            /\ \/ monitorTransfer \/ nullElement \/ passDone \/ purgeDone
               \/ makeDone \/ checkFilesDone \/ pingNodes \/ pingNodesEmpty
               \/ removeLastNode

IInv == /\ TypeOK /\ table \subseteq saved.table
        /\ LocationsKnown
        /\ PriorityOrder /\ OneTransferEach /\ NoLeaks /\ Schedule

(* checkFiles never finds a waiting entry to update in place, so adding to *)
(* the queue inserts an entry or does nothing.                             *)
LEMMA AddInserts ==
  ASSUME IInv, NEW from \in Node, NEW to \in Node, NEW f \in File,
         NEW reason \in Reasons,
         addToReplicationQueue(from, to, f, reason),
         handles' = handles, phase' = phase, pos' = pos,
         \/ phase = "messages" /\ reason = "REQUESTED" /\ unwalked' = unwalked
         \/ phase = "check" /\ unwalked' = unwalked \ {f} /\ f \in unwalked
  PROVE  Inserts \/ UNCHANGED transfers
<1> USE DEF Reasons
<1>1. queue \in Seq(Entry) /\ numCopies(f) \in Nat
  BY CopiesNat DEF IInv, TypeOK, numCopies
<1> DEFINE same == {i \in DOMAIN queue : isSame(queue[i], to, f, reason)}
<1>2. CASE same = {}
  <2>1. PICK t \in Temp \ temps, p \in 1..(Len(queue) + 1) :
          /\ isPlace(queue, numCopies(f), p)
          /\ queue' = InsertAt(queue, p, newEntry(from, to, f, reason, t))
          /\ temps' = temps \cup {t}
    BY <1>2 DEF addToReplicationQueue
  <2> DEFINE e == newEntry(from, to, f, reason, t)
  <2>2. /\ e \in Entry /\ e.numCopies = numCopies(f) /\ e.to = to /\ e.lfn = f
        /\ e.reason = reason /\ e.stage = "WAITING" /\ e.handle = none /\ e.tmp = t
    BY <1>1 DEF newEntry, Entry, Stages
  <2>3. \A i \in DOMAIN queue : ~isSame(queue[i], to, f, reason)
    BY <1>2
  <2>4. queue' = InsertAt(queue, p, e)
    BY <2>1
  <2> HIDE DEF e
  <2>5. QED
    BY <2>1, <2>2, <2>3, <2>4 DEF Inserts
<1>3. CASE same # {}
  <2>1. \A i \in same : ~(reason = "TOOFEWCOPIES" /\ queue[i].stage = "WAITING")
    BY <1>1 DEF IInv, Schedule, IsPlaced, isSame, Resting
  <2>2. UNCHANGED <<queue, temps>>
    BY <1>3, <2>1 DEF addToReplicationQueue
  <2>3. QED
    BY <2>2 DEF transfers
<1>4. QED
  BY <1>2, <1>3

LEMMA StepKinds ==
  ASSUME IInv, [Next]_vars
  PROVE  Inserts \/ Settles \/ Removes \/ Clears \/ Idles \/ Advances
<1>0. /\ queue \in Seq(Entry) /\ handles \subseteq Handle /\ none \notin Handle
      /\ table \in SUBSET Node /\ copies \in [File -> SUBSET Node]
      /\ status \in Statuses
  BY noneAssumption DEF IInv, TypeOK
<1>1. ASSUME NEW f \in File, NEW n \in Node, touch(f, n)
      PROVE  Inserts \/ Idles
  <2>1. PICK source \in fileLocations(status, copies[f]) \cap table :
          addToReplicationQueue(source, n, f, "REQUESTED")
    BY <1>1 DEF touch
  <2>2. /\ handles' = handles /\ phase' = phase /\ pos' = pos
        /\ phase = "messages" /\ unwalked' = unwalked
    BY <1>1 DEF touch, walk
  <2>3. source \in Node /\ "REQUESTED" \in Reasons
    BY <1>0 DEF Reasons
  <2>4. QED
    BY <2>1, <2>2, <2>3, AddInserts DEF Idles
<1>2. ASSUME NEW f \in File, queueCopy(f)
      PROVE  Inserts \/ Idles
  <2>1. PICK from \in fileLocations(status, copies[f]) \cap table,
             to \in mirrorNodes(status, table, copies[f]) :
          addToReplicationQueue(from, to, f, "TOOFEWCOPIES")
    BY <1>2 DEF queueCopy
  <2>2. /\ handles' = handles /\ phase' = phase /\ pos' = pos
        /\ phase = "check" /\ unwalked' = unwalked \ {f} /\ f \in unwalked
    BY <1>2 DEF queueCopy, walkTo
  <2>3. from \in Node /\ to \in Node /\ "TOOFEWCOPIES" \in Reasons
    BY <1>0 DEF Reasons, mirrorNodes
  <2>4. QED
    BY <2>1, <2>2, <2>3, AddInserts DEF Idles
<1>3. CASE transferFailed \/ dropWaiting
  <2>1. inPass /\ settle("DELETEME", none) /\ phase' = phase /\ pos' = pos + 1
    BY <1>3 DEF transferFailed, dropWaiting, isDue
  <2>2. QED
    BY <2>1 DEF Settles, Stages, Resting
<1>4. CASE getDone
  <2>1. inPass /\ settle("WAITING2", none) /\ phase' = phase /\ pos' = pos
    BY <1>4 DEF getDone, isDue
  <2>2. QED
    BY <2>1 DEF Settles, Stages, Resting
<1>5. CASE putDone
  <2>1. inPass /\ settle("DELETEME", none) /\ phase' = phase /\ pos' = pos + 1
    BY <1>5 DEF putDone, isDue
  <2>2. QED
    BY <2>1 DEF Settles, Stages, Resting
<1>6. CASE startGet
  <2>1. /\ inPass /\ phase' = phase /\ pos' = pos + 1
        /\ \/ \E h \in Handle \ handles : settle("GETTING", h)
           \/ settle("DELETEME", none)
    BY <1>6 DEF startGet, isDue
  <2>2. QED
    BY <1>0, <2>1 DEF Settles, Stages, Resting
<1>7. CASE startPut
  <2>1. /\ inPass /\ phase' = phase /\ pos' = pos + 1
        /\ \/ \E h \in Handle \ handles : settle("PUTTING", h)
           \/ settle("DELETEME", none)
    BY <1>7 DEF startPut, isDue
  <2>2. QED
    BY <1>0, <2>1 DEF Settles, Stages, Resting
<1>8. CASE purgeOne
  BY <1>8 DEF purgeOne, Removes
<1>9. CASE restart
  BY <1>9 DEF restart, Clears
<1>10. CASE \/ monitorTransfer \/ nullElement \/ passDone \/ purgeDone
            \/ makeDone \/ checkFilesDone \/ pingNodes \/ pingNodesEmpty
            \/ removeLastNode
  BY <1>10 DEF removeLastNode, monitorTransfer, nullElement, passDone, purgeDone, makeDone,
               checkFilesDone, pingNodes, pingNodesEmpty, transfers, Advances
<1>11. ASSUME NEW f \in File, deleteLogicalFile(f) \/ passOver(f)
       PROVE  Idles
  BY <1>11 DEF deleteLogicalFile, passOver, walkTo, transfers, walk, Idles
<1>12. ASSUME NEW n \in Node, removeNode(n) \/ setStatus(n) \/ runChecksums(n)
       PROVE  Idles
  BY <1>12 DEF removeNode, setStatus, runChecksums, transfers, walk, Idles
<1>13. ASSUME NEW f \in File, NEW c \in Counts, setReplCountFile(f, c)
       PROVE  Idles
  BY <1>13 DEF setReplCountFile, transfers, walk, Idles
<1>14. ASSUME NEW f \in File, NEW n \in Node,
              makeFreeSpace(f, n) \/ unNewFile(f, n) \/ handleNewModification(f, n)
       PROVE  Idles
  BY <1>14 DEF makeFreeSpace, unNewFile, handleNewModification, transfers, walk, Idles
<1>15. CASE Messages
  BY <1>1, <1>10, <1>11, <1>12, <1>13, <1>15 DEF Messages
<1>16. CASE Make
  BY <1>14, <1>16 DEF Make
<1>17. CASE Pass
  BY <1>3, <1>4, <1>5, <1>6, <1>7, <1>10, <1>17 DEF Pass
<1>18. CASE \E f \in File : queueCopy(f) \/ passOver(f)
  BY <1>2, <1>11, <1>18
<1>19. CASE UNCHANGED vars
  BY <1>19 DEF vars, transfers, Idles
<1>20. QED
  BY <1>8, <1>9, <1>10, <1>12, <1>15, <1>16, <1>17, <1>18, <1>19 DEF Next

(* What Settles and Removes do to every place of the queue. *)
LEMMA SettleFacts ==
  ASSUME queue \in Seq(Entry), inPass, NEW stage \in Stages,
         NEW h \in Handle \cup {none}, settle(stage, h)
  PROVE  /\ queue' \in Seq(Entry) /\ Len(queue') = Len(queue)
         /\ pos \in 1..Len(queue)
         /\ \A i \in 1..Len(queue) :
              /\ queue'[i].numCopies = queue[i].numCopies
              /\ queue'[i].lfn = queue[i].lfn
              /\ queue'[i].reason = queue[i].reason
              /\ queue'[i].to = queue[i].to
              /\ queue'[i].tmp = queue[i].tmp
              /\ i # pos => queue'[i] = queue[i]
         /\ queue'[pos].stage = stage /\ queue'[pos].handle = h
<1>1. pos \in 1..Len(queue) /\ queue[pos] \in Entry
  BY DEF inPass
<1> DEFINE e == [queue[pos] EXCEPT !.stage = stage, !.handle = h]
<1>2. /\ e \in Entry /\ e.stage = stage /\ e.handle = h
      /\ e.numCopies = queue[pos].numCopies /\ e.lfn = queue[pos].lfn
      /\ e.reason = queue[pos].reason /\ e.to = queue[pos].to /\ e.tmp = queue[pos].tmp
  BY <1>1 DEF Entry
<1>3. queue' = [queue EXCEPT ![pos] = e]
  BY DEF settle
<1> HIDE DEF e
<1>4. /\ queue' \in Seq(Entry) /\ Len(queue') = Len(queue)
      /\ \A i \in 1..Len(queue) : queue'[i] = IF i = pos THEN e ELSE queue[i]
  BY <1>1, <1>2, <1>3
<1>5. QED
  BY <1>1, <1>2, <1>4

LEMMA InsertPlaces ==
  ASSUME queue \in Seq(Entry), NEW e \in Entry, NEW p \in 1..(Len(queue) + 1),
         queue' = InsertAt(queue, p, e)
  PROVE  /\ queue' \in Seq(Entry)
         /\ DOMAIN queue = 1..Len(queue) /\ DOMAIN queue' = 1..(Len(queue) + 1)
         /\ \A i \in 1..(Len(queue) + 1) : i < p => queue'[i] = queue[i]
         /\ queue'[p] = e
         /\ \A i \in 1..(Len(queue) + 1) : i > p => queue'[i] = queue[i - 1]
<1> DEFINE q == InsertAt(queue, p, e)
<1>1. q \in Seq(Entry) /\ Len(q) = Len(queue) + 1
  BY InsertAtFacts
<1>2. q[p] = e
  BY InsertAtFacts
<1>3. \A i \in 1..(Len(queue) + 1) : i < p => q[i] = queue[i]
  BY InsertAtValue
<1>4. \A i \in 1..(Len(queue) + 1) : i > p => q[i] = queue[i - 1]
  BY InsertAtValue
<1>5. queue' = q
  OBVIOUS
<1> HIDE DEF q
<1>6. QED
  BY <1>1, <1>2, <1>3, <1>4, <1>5

LEMMA RemovePlaces ==
  ASSUME queue \in Seq(Entry), NEW p \in DOMAIN queue, queue' = RemoveAt(queue, p)
  PROVE  /\ queue' \in Seq(Entry)
         /\ DOMAIN queue = 1..Len(queue) /\ DOMAIN queue' = 1..(Len(queue) - 1)
         /\ \A i \in 1..(Len(queue) - 1) : i < p => queue'[i] = queue[i]
         /\ \A i \in 1..(Len(queue) - 1) : i >= p => queue'[i] = queue[i + 1]
<1> DEFINE q == RemoveAt(queue, p)
<1>1. p \in 1..Len(queue)
  OBVIOUS
<1>2. /\ q \in Seq(Entry) /\ DOMAIN q = 1..(Len(queue) - 1)
      /\ \A i \in 1..(Len(queue) - 1) : q[i] = IF i < p THEN queue[i] ELSE queue[i + 1]
  BY <1>1, RemoveAtFacts
<1>3. queue' = q
  OBVIOUS
<1> HIDE DEF q
<1>4. QED
  BY <1>1, <1>2, <1>3

LEMMA QueueType ==
  ASSUME IInv, Inserts \/ Settles \/ Removes \/ Clears \/ UNCHANGED transfers
  PROVE  queue' \in Seq(Entry) /\ handles' \in SUBSET Handle /\ temps' \in SUBSET Temp
<1>0. queue \in Seq(Entry) /\ handles \in SUBSET Handle /\ temps \in SUBSET Temp
  BY DEF IInv, TypeOK
<1>1. CASE Inserts
  <2>1. PICK e \in Entry, p \in 1..(Len(queue) + 1) :
          queue' = InsertAt(queue, p, e) /\ handles' = handles /\ temps' = temps \cup {e.tmp}
    BY <1>1 DEF Inserts
  <2>2. e.tmp \in Temp
    BY DEF Entry
  <2>3. QED
    BY <1>0, <2>1, <2>2, InsertAtFacts
<1>2. CASE Settles
  <2>1. PICK stage \in Stages, h \in (Handle \ handles) \cup {none} :
          inPass /\ settle(stage, h)
    BY <1>2 DEF Settles
  <2>2. queue' \in Seq(Entry)
    BY <1>0, <2>1, SettleFacts
  <2>3. QED
    BY <1>0, <2>1, <2>2 DEF settle
<1>3. CASE Removes
  <2>1. PICK i \in DOMAIN queue :
          /\ queue' = RemoveAt(queue, i)
          /\ handles' = handles /\ temps' = temps \ {queue[i].tmp}
    BY <1>3 DEF Removes
  <2>2. i \in 1..Len(queue)
    BY <1>0
  <2>3. QED
    BY <1>0, <2>1, <2>2, RemoveAtFacts
<1>4. CASE Clears
  BY <1>4 DEF Clears
<1>5. CASE UNCHANGED transfers
  BY <1>0, <1>5 DEF transfers
<1>6. QED
  BY <1>1, <1>2, <1>3, <1>4, <1>5

(* An entry that is inserted is behind all that have as few copies. *)
LEMMA OrderStep ==
  ASSUME IInv, Inserts \/ Settles \/ Removes \/ Clears \/ UNCHANGED transfers
  PROVE  PriorityOrder'
<1> queue \in Seq(Entry) /\ PriorityOrder
  BY DEF IInv, TypeOK
<1>0. /\ queue \in Seq(Entry) /\ PriorityOrder
      /\ \A i \in 1..Len(queue) : queue[i].numCopies \in Nat
  <2>1. \A i \in 1..Len(queue) : queue[i] \in Entry
    OBVIOUS
  <2>2. QED
    BY <2>1 DEF Entry
<1>1. CASE Inserts
  <2>1. PICK e \in Entry, p \in 1..(Len(queue) + 1) :
          isPlace(queue, e.numCopies, p) /\ queue' = InsertAt(queue, p, e)
    BY <1>1 DEF Inserts
  <2>2. e.numCopies \in Nat
    BY DEF Entry
  <2>3. /\ DOMAIN queue' = 1..(Len(queue) + 1)
        /\ \A i \in 1..(Len(queue) + 1) : i < p => queue'[i] = queue[i]
        /\ queue'[p] = e
        /\ \A i \in 1..(Len(queue) + 1) : i > p => queue'[i] = queue[i - 1]
    BY <1>0, <2>1, InsertPlaces
  <2>4. ASSUME NEW i \in 1..Len(queue), i < p
        PROVE  queue[i].numCopies <= e.numCopies
    <3>1. p - 1 \in 1..Len(queue) /\ i <= p - 1 /\ p > 1
      BY <1>0, <2>4
    <3>2. queue[p - 1].numCopies <= e.numCopies
      BY <2>1, <3>1 DEF isPlace
    <3>3. queue[i].numCopies <= queue[p - 1].numCopies
      BY <1>0, <3>1 DEF PriorityOrder
    <3>4. QED
      BY <1>0, <2>2, <3>1, <3>2, <3>3
  <2>5. ASSUME NEW i \in 1..Len(queue), p <= i
        PROVE  e.numCopies <= queue[i].numCopies
    BY <1>0, <2>1, <2>2, <2>5 DEF isPlace
  <2>6. ASSUME NEW i \in 1..(Len(queue) + 1), NEW j \in 1..(Len(queue) + 1), i < j
        PROVE  queue'[i].numCopies <= queue'[j].numCopies
    <3>1. CASE j < p
      BY <1>0, <2>3, <2>6, <3>1 DEF PriorityOrder
    <3>2. CASE j = p
      BY <1>0, <2>3, <2>4, <2>6, <3>2
    <3>3. CASE i = p
      BY <1>0, <2>3, <2>5, <2>6, <3>3
    <3>4. CASE i < p /\ j > p
      <4>1. i \in 1..Len(queue) /\ j - 1 \in 1..Len(queue) /\ p <= j - 1
        BY <1>0, <2>6, <3>4
      <4>2. queue[i].numCopies <= e.numCopies /\ e.numCopies <= queue[j - 1].numCopies
        BY <2>4, <2>5, <3>4, <4>1
      <4>3. queue'[i] = queue[i] /\ queue'[j] = queue[j - 1]
        BY <2>3, <3>4
      <4>4. QED
        BY <1>0, <2>2, <4>1, <4>2, <4>3
    <3>5. CASE i > p
      <4>1. i - 1 \in 1..Len(queue) /\ j - 1 \in 1..Len(queue) /\ i - 1 < j - 1 /\ j > p
        BY <1>0, <2>6, <3>5
      <4>2. queue'[i] = queue[i - 1] /\ queue'[j] = queue[j - 1]
        BY <2>3, <3>5, <4>1
      <4>3. QED
        BY <1>0, <4>1, <4>2 DEF PriorityOrder
    <3>6. QED
      BY <1>0, <2>6, <3>1, <3>2, <3>3, <3>4, <3>5
  <2>7. QED
    BY <2>3, <2>6 DEF PriorityOrder
<1>2. CASE Settles
  <2>1. PICK stage \in Stages, h \in (Handle \ handles) \cup {none} :
          inPass /\ settle(stage, h)
    BY <1>2 DEF Settles
  <2>2. /\ DOMAIN queue' = DOMAIN queue
        /\ \A i \in DOMAIN queue : queue'[i].numCopies = queue[i].numCopies
    BY <1>0, <2>1, SettleFacts DEF IInv, TypeOK
  <2>3. QED
    BY <1>0, <2>2 DEF PriorityOrder
<1>3. CASE Removes
  <2>1. PICK p \in DOMAIN queue : queue' = RemoveAt(queue, p)
    BY <1>3 DEF Removes
  <2>2. /\ DOMAIN queue' = 1..(Len(queue) - 1) /\ p \in 1..Len(queue)
        /\ \A i \in 1..(Len(queue) - 1) : i < p => queue'[i] = queue[i]
        /\ \A i \in 1..(Len(queue) - 1) : i >= p => queue'[i] = queue[i + 1]
    BY <1>0, <2>1, RemovePlaces
  <2>3. ASSUME NEW i \in 1..(Len(queue) - 1), NEW j \in 1..(Len(queue) - 1), i < j
        PROVE  queue'[i].numCopies <= queue'[j].numCopies
    <3>1. PICK k \in 1..Len(queue) : queue'[i] = queue[k] /\ k = IF i < p THEN i ELSE i + 1
      BY <1>0, <2>2
    <3>2. PICK l \in 1..Len(queue) : queue'[j] = queue[l] /\ l = IF j < p THEN j ELSE j + 1
      BY <1>0, <2>2
    <3>3. k < l
      BY <2>2, <2>3, <3>1, <3>2
    <3>4. QED
      BY <1>0, <3>1, <3>2, <3>3 DEF PriorityOrder
  <2>4. QED
    BY <2>2, <2>3 DEF PriorityOrder
<1>4. CASE Clears
  BY <1>4 DEF Clears, PriorityOrder
<1>5. CASE UNCHANGED transfers
  BY <1>0, <1>5 DEF transfers, PriorityOrder
<1>6. QED
  BY <1>1, <1>2, <1>3, <1>4, <1>5

(* An entry is only inserted if it is the same transfer as none before. *)
LEMMA OneStep ==
  ASSUME IInv, Inserts \/ Settles \/ Removes \/ Clears \/ UNCHANGED transfers
  PROVE  OneTransferEach'
<1>0. queue \in Seq(Entry) /\ DOMAIN queue = 1..Len(queue) /\ OneTransferEach
  BY DEF IInv, TypeOK
<1>1. CASE Inserts
  <2>1. PICK e \in Entry, p \in 1..(Len(queue) + 1) :
          /\ queue' = InsertAt(queue, p, e)
          /\ \A i \in DOMAIN queue : ~isSame(queue[i], e.to, e.lfn, e.reason)
    BY <1>1 DEF Inserts
  <2>2. /\ DOMAIN queue' = 1..(Len(queue) + 1)
        /\ \A i \in 1..(Len(queue) + 1) : i < p => queue'[i] = queue[i]
        /\ queue'[p] = e
        /\ \A i \in 1..(Len(queue) + 1) : i > p => queue'[i] = queue[i - 1]
    BY <1>0, <2>1, InsertPlaces
  <2>3. e.reason \in Reasons /\ \A i \in DOMAIN queue : queue[i].reason \in Reasons
    <3>1. \A i \in DOMAIN queue : queue[i] \in Entry
      BY <1>0
    <3>2. QED
      BY <3>1 DEF Entry
  <2> DEFINE old(i) == IF i < p THEN i ELSE i - 1
  <2>4. ASSUME NEW i \in DOMAIN queue', i # p
        PROVE  old(i) \in DOMAIN queue /\ queue'[i] = queue[old(i)]
    BY <1>0, <2>2, <2>4
  <2>5. ASSUME NEW i \in DOMAIN queue', NEW j \in DOMAIN queue', i # j, i # p, j # p
        PROVE  old(i) # old(j)
    BY <2>2, <2>5
  <2> HIDE DEF old
  <2>6. SUFFICES ASSUME NEW i \in DOMAIN queue', NEW j \in DOMAIN queue', i # j,
                        queue'[i].lfn = queue'[j].lfn, queue'[i].reason = queue'[j].reason
                 PROVE  queue'[i].reason = "REQUESTED" /\ queue'[i].to # queue'[j].to
    BY DEF OneTransferEach
  <2>7. CASE i # p /\ j # p
    <3>1. /\ old(i) \in DOMAIN queue /\ old(j) \in DOMAIN queue /\ old(i) # old(j)
          /\ queue'[i] = queue[old(i)] /\ queue'[j] = queue[old(j)]
      BY <2>4, <2>5, <2>6, <2>7
    <3>2. QED
      BY <1>0, <2>6, <3>1 DEF OneTransferEach
  <2>8. CASE i = p /\ j # p
    <3>1. old(j) \in DOMAIN queue /\ queue'[j] = queue[old(j)] /\ queue'[i] = e
      BY <2>2, <2>4, <2>8
    <3>2. QED
      BY <2>1, <2>3, <2>6, <3>1 DEF isSame, Reasons
  <2>9. CASE i # p /\ j = p
    <3>1. old(i) \in DOMAIN queue /\ queue'[i] = queue[old(i)] /\ queue'[j] = e
      BY <2>2, <2>4, <2>9
    <3>2. QED
      BY <2>1, <2>3, <2>6, <3>1 DEF isSame, Reasons
  <2>10. QED
    BY <2>6, <2>7, <2>8, <2>9
<1>2. CASE Settles
  <2>1. PICK stage \in Stages, h \in (Handle \ handles) \cup {none} :
          inPass /\ settle(stage, h)
    BY <1>2 DEF Settles
  <2>2. /\ DOMAIN queue' = DOMAIN queue
        /\ \A i \in DOMAIN queue : /\ queue'[i].lfn = queue[i].lfn
                                   /\ queue'[i].reason = queue[i].reason
                                   /\ queue'[i].to = queue[i].to
    BY <1>0, <2>1, SettleFacts
  <2>3. QED
    BY <1>0, <2>2 DEF OneTransferEach
<1>3. CASE Removes
  <2>1. PICK p \in DOMAIN queue : queue' = RemoveAt(queue, p)
    BY <1>3 DEF Removes
  <2>2. /\ DOMAIN queue' = 1..(Len(queue) - 1) /\ p \in 1..Len(queue)
        /\ \A i \in 1..(Len(queue) - 1) : i < p => queue'[i] = queue[i]
        /\ \A i \in 1..(Len(queue) - 1) : i >= p => queue'[i] = queue[i + 1]
    BY <1>0, <2>1, RemovePlaces
  <2> DEFINE old(i) == IF i < p THEN i ELSE i + 1
  <2>3. \A i \in DOMAIN queue' : old(i) \in DOMAIN queue /\ queue'[i] = queue[old(i)]
    BY <1>0, <2>2
  <2>4. \A i, j \in DOMAIN queue' : i # j => old(i) # old(j)
    BY <2>2
  <2> HIDE DEF old
  <2>5. QED
    BY <1>0, <2>3, <2>4 DEF OneTransferEach
<1>4. CASE Clears
  BY <1>4 DEF Clears, OneTransferEach
<1>5. CASE UNCHANGED transfers
  BY <1>0, <1>5 DEF transfers, OneTransferEach
<1>6. QED
  BY <1>1, <1>2, <1>3, <1>4, <1>5

(* A new entry has a temporary file of its own and no transfer; settling   *)
(* an entry ends the transfer it had; a removed one has ended its own.     *)
LEMMA LeakStep ==
  ASSUME IInv, Inserts \/ Settles \/ Removes \/ Clears \/ UNCHANGED transfers
  PROVE  NoLeaks'
<1>0. queue \in Seq(Entry) /\ DOMAIN queue = 1..Len(queue) /\ none \notin Handle
  BY noneAssumption DEF IInv, TypeOK
<1>a. /\ \A i \in DOMAIN queue : queue[i].handle # none <=> isOpen(queue[i])
      /\ \A h \in handles : \E i \in DOMAIN queue : queue[i].handle = h
      /\ \A t \in temps : \E i \in DOMAIN queue : queue[i].tmp = t
      /\ \A i \in DOMAIN queue : queue[i].handle \in handles \cup {none}
      /\ \A i \in DOMAIN queue : queue[i].tmp \in temps
      /\ \A i, j \in DOMAIN queue : i # j => queue[i].tmp # queue[j].tmp
      /\ \A i, j \in DOMAIN queue :
           i # j /\ isOpen(queue[i]) => queue[i].handle # queue[j].handle
  BY DEF IInv, NoLeaks
<1>1. CASE Inserts
  <2>1. PICK e \in Entry, p \in 1..(Len(queue) + 1) :
          /\ queue' = InsertAt(queue, p, e)
          /\ e.stage = "WAITING" /\ e.handle = none /\ e.tmp \notin temps
          /\ handles' = handles /\ temps' = temps \cup {e.tmp}
    BY <1>1 DEF Inserts
  <2>2. /\ DOMAIN queue' = 1..(Len(queue) + 1)
        /\ \A i \in 1..(Len(queue) + 1) : i < p => queue'[i] = queue[i]
        /\ queue'[p] = e
        /\ \A i \in 1..(Len(queue) + 1) : i > p => queue'[i] = queue[i - 1]
    BY <1>0, <2>1, InsertPlaces
  <2>3. ~isOpen(e)
    BY <2>1 DEF isOpen
  <2> DEFINE old(i) == IF i < p THEN i ELSE i - 1
             new(i) == IF i < p THEN i ELSE i + 1
  <2>4. \A i \in DOMAIN queue' : i # p => old(i) \in DOMAIN queue /\ queue'[i] = queue[old(i)]
    BY <1>0, <2>2
  <2>5. \A i, j \in DOMAIN queue' : i # j /\ i # p /\ j # p => old(i) # old(j)
    BY <2>2
  <2>6. \A i \in DOMAIN queue : new(i) \in DOMAIN queue' /\ queue'[new(i)] = queue[i]
    BY <1>0, <2>2
  <2>7. p \in DOMAIN queue'
    BY <2>2
  <2> HIDE DEF old, new
  <2>8. \A i \in DOMAIN queue' : queue'[i].handle # none <=> isOpen(queue'[i])
    BY <1>a, <2>1, <2>2, <2>3, <2>4
  <2>9. \A h \in handles' : \E i \in DOMAIN queue' : queue'[i].handle = h
    BY <1>a, <2>1, <2>6
  <2>10. \A t \in temps' : \E i \in DOMAIN queue' : queue'[i].tmp = t
    BY <1>a, <2>1, <2>2, <2>6, <2>7
  <2>11. \A i \in DOMAIN queue' : queue'[i].handle \in handles' \cup {none}
    BY <1>a, <2>1, <2>2, <2>4
  <2>12. \A i \in DOMAIN queue' : queue'[i].tmp \in temps'
    BY <1>a, <2>1, <2>2, <2>4
  <2>13. \A i, j \in DOMAIN queue' : i # j => queue'[i].tmp # queue'[j].tmp
    BY <1>a, <2>1, <2>2, <2>4, <2>5
  <2>14. \A i, j \in DOMAIN queue' :
           i # j /\ isOpen(queue'[i]) => queue'[i].handle # queue'[j].handle
    BY <1>a, <2>1, <2>2, <2>3, <2>4, <2>5
  <2>15. QED
    BY <2>8, <2>9, <2>10, <2>11, <2>12, <2>13, <2>14 DEF NoLeaks, isOpen
<1>2. CASE Settles
  <2>1. PICK stage \in Stages, h \in (Handle \ handles) \cup {none} :
          inPass /\ settle(stage, h) /\ (h # none <=> stage \in Resting)
    BY <1>2 DEF Settles
  <2>2. /\ pos \in DOMAIN queue /\ DOMAIN queue' = DOMAIN queue
        /\ \A i \in DOMAIN queue : queue'[i].tmp = queue[i].tmp
        /\ \A i \in DOMAIN queue : i # pos => queue'[i] = queue[i]
        /\ queue'[pos].stage = stage /\ queue'[pos].handle = h
    BY <1>0, <2>1, SettleFacts
  <2>3. /\ handles' = (handles \ {queue[pos].handle}) \cup ({h} \ {none})
        /\ temps' = temps
    BY <2>1 DEF settle
  <2>4. isOpen(queue'[pos]) <=> h # none
    BY <2>1, <2>2 DEF isOpen, Resting
  <2>5. \A i \in DOMAIN queue : i # pos => /\ queue[i].handle # h \/ h = none
                                           /\ queue[i].handle = queue[pos].handle
                                                => queue[i].handle = none
    BY <1>a, <2>2
  <2>6. \A i \in DOMAIN queue' : queue'[i].handle # none <=> isOpen(queue'[i])
    BY <1>a, <2>2, <2>4
  <2>7. \A g \in handles' : \E i \in DOMAIN queue' : queue'[i].handle = g
    BY <1>a, <2>2, <2>3
  <2>8. \A i \in DOMAIN queue' : queue'[i].handle \in handles' \cup {none}
    BY <1>a, <2>2, <2>3, <2>5
  <2>9. \A i, j \in DOMAIN queue' :
          i # j /\ isOpen(queue'[i]) => queue'[i].handle # queue'[j].handle
    BY <1>a, <2>2, <2>4, <2>5, <2>6
  <2>10. /\ \A i \in DOMAIN queue' : queue'[i].tmp \in temps'
         /\ \A t \in temps' : \E i \in DOMAIN queue' : queue'[i].tmp = t
    BY <1>a, <2>2, <2>3
  <2>11. \A i, j \in DOMAIN queue' : i # j => queue'[i].tmp # queue'[j].tmp
    BY <1>a, <2>2
  <2>12. QED
    BY <2>6, <2>7, <2>8, <2>9, <2>10, <2>11 DEF NoLeaks, isOpen
<1>3. CASE Removes
  <2>1. PICK p \in DOMAIN queue :
          /\ queue[p].stage = "DELETEME" /\ queue' = RemoveAt(queue, p)
          /\ handles' = handles /\ temps' = temps \ {queue[p].tmp}
    BY <1>3 DEF Removes
  <2>2. /\ DOMAIN queue' = 1..(Len(queue) - 1) /\ p \in 1..Len(queue)
        /\ \A i \in 1..(Len(queue) - 1) : i < p => queue'[i] = queue[i]
        /\ \A i \in 1..(Len(queue) - 1) : i >= p => queue'[i] = queue[i + 1]
    BY <1>0, <2>1, RemovePlaces
  <2>3. queue[p].handle = none
    BY <1>a, <2>1 DEF isOpen
  <2> DEFINE old(i) == IF i < p THEN i ELSE i + 1
             new(i) == IF i < p THEN i ELSE i - 1
  <2>4. \A i \in DOMAIN queue' : /\ old(i) \in DOMAIN queue /\ old(i) # p
                                 /\ queue'[i] = queue[old(i)]
    BY <1>0, <2>2
  <2>5. \A i, j \in DOMAIN queue' : i # j => old(i) # old(j)
    BY <2>2
  <2>6. \A i \in DOMAIN queue :
          i # p => new(i) \in DOMAIN queue' /\ queue'[new(i)] = queue[i]
    BY <1>0, <2>2
  <2> HIDE DEF old, new
  <2>7. \A i \in DOMAIN queue' : queue'[i].handle # none <=> isOpen(queue'[i])
    BY <1>a, <2>4
  <2>8. \A h \in handles' : \E i \in DOMAIN queue' : queue'[i].handle = h
    <3>1. none \notin handles
      BY <1>0 DEF IInv, TypeOK
    <3>2. QED
      BY <1>a, <2>1, <2>3, <2>6, <3>1
  <2>9. \A t \in temps' : \E i \in DOMAIN queue' : queue'[i].tmp = t
    BY <1>a, <2>1, <2>6
  <2>10. \A i \in DOMAIN queue' : queue'[i].handle \in handles' \cup {none}
    BY <1>a, <2>1, <2>4
  <2>11. \A i \in DOMAIN queue' : queue'[i].tmp \in temps'
    BY <1>a, <2>1, <2>4
  <2>12. \A i, j \in DOMAIN queue' : i # j => queue'[i].tmp # queue'[j].tmp
    BY <1>a, <2>4, <2>5
  <2>13. \A i, j \in DOMAIN queue' :
           i # j /\ isOpen(queue'[i]) => queue'[i].handle # queue'[j].handle
    BY <1>a, <2>4, <2>5
  <2>14. QED
    BY <2>7, <2>8, <2>9, <2>10, <2>11, <2>12, <2>13 DEF NoLeaks, isOpen
<1>4. CASE Clears
  BY <1>4 DEF Clears, NoLeaks
<1>5. CASE UNCHANGED transfers
  BY <1>a, <1>5 DEF transfers, NoLeaks, isOpen
<1>6. QED
  BY <1>1, <1>2, <1>3, <1>4, <1>5

(* The catalogue, the node table and the main loop. *)
GridInv == /\ table \in SUBSET Node /\ status \in Statuses
           /\ saved \in [table: SUBSET Node, status: Statuses]
           /\ copies \in [File -> SUBSET Node] /\ replcount \in [File -> Counts]
           /\ unwalked \in SUBSET File /\ checked \in BOOLEAN
           /\ phase \in Phases /\ pos \in Nat /\ events \in 0..MaxEvents
           /\ LocationsKnown /\ table \subseteq saved.table

LEMMA GridStep ==
  ASSUME IInv, [Next]_vars
  PROVE  GridInv'
<1>0. GridInv /\ queue \in Seq(Entry)
  BY DEF IInv, TypeOK, GridInv
<1> USE MaxEventsAssumption DEF Phases
<1>1. ASSUME NEW f \in File, NEW n \in Node, touch(f, n)
      PROVE  GridInv'
  BY <1>0, <1>1 DEF touch, event, walk, GridInv, LocationsKnown
<1>2. ASSUME NEW n \in Node, removeNode(n) \/ setStatus(n) \/ runChecksums(n)
      PROVE  GridInv'
  <2>1. CASE removeNode(n)
    BY <1>0, <2>1 DEF removeNode, event, walk, GridInv, LocationsKnown, Statuses
  <2>2. CASE setStatus(n)
    <3>1. status' \in Statuses
      BY <1>0, <2>2 DEF setStatus, GridInv, Statuses
    <3>2. /\ events' \in 0..MaxEvents
          /\ UNCHANGED <<table, saved, copies, replcount, unwalked, checked, phase, pos>>
      BY <1>0, <2>2 DEF setStatus, event, walk, GridInv
    <3>3. QED
      BY <1>0, <3>1, <3>2 DEF GridInv, LocationsKnown
  <2>3. CASE runChecksums(n)
    <3>1. status' \in Statuses
      BY <1>0, <2>3 DEF runChecksums, GridInv, Statuses
    <3>2. /\ events' \in 0..MaxEvents
          /\ UNCHANGED <<table, saved, copies, replcount, unwalked, checked, phase, pos>>
      BY <1>0, <2>3 DEF runChecksums, event, walk, GridInv
    <3>3. QED
      BY <1>0, <3>1, <3>2 DEF GridInv, LocationsKnown
  <2>4. QED
    BY <1>2, <2>1, <2>2, <2>3
<1>3. ASSUME NEW f \in File, deleteLogicalFile(f)
      PROVE  GridInv'
  BY <1>0, <1>3 DEF deleteLogicalFile, event, walk, GridInv, LocationsKnown
<1>4. ASSUME NEW f \in File, NEW c \in Counts, setReplCountFile(f, c)
      PROVE  GridInv'
  BY <1>0, <1>4 DEF setReplCountFile, event, walk, GridInv, LocationsKnown
<1>5. CASE pingNodes
  <2>1. status' \in Statuses
    <3>1. PICK dead \in SUBSET Node : status' = [status EXCEPT !.dead = dead]
      BY <1>0, <1>5 DEF pingNodes, GridInv, Statuses
    <3>2. QED
      BY <1>0, <3>1 DEF GridInv, Statuses
  <2>2. /\ events' \in 0..MaxEvents /\ unwalked' \in SUBSET File
        /\ checked' = FALSE /\ phase' = "check"
    BY <1>0, <1>5 DEF pingNodes, GridInv
  <2>3. UNCHANGED <<table, saved, copies, replcount, pos>>
    BY <1>5 DEF pingNodes
  <2>4. QED
    BY <1>0, <2>1, <2>2, <2>3 DEF GridInv, LocationsKnown
<1>6. CASE pingNodesEmpty \/ removeLastNode
  BY <1>0, <1>6 DEF pingNodesEmpty, removeLastNode, event, grid, walk, GridInv, LocationsKnown
<1>7. ASSUME NEW f \in File, queueCopy(f) \/ passOver(f)
      PROVE  GridInv'
  BY <1>0, <1>7 DEF queueCopy, passOver, walkTo, grid, GridInv, LocationsKnown
<1>8. ASSUME NEW f \in File, NEW n \in Node,
             makeFreeSpace(f, n) \/ unNewFile(f, n) \/ handleNewModification(f, n)
      PROVE  GridInv'
  BY <1>0, <1>8 DEF makeFreeSpace, unNewFile, handleNewModification, Statuses, event, walk, GridInv, LocationsKnown
<1>9. CASE checkFilesDone \/ makeDone \/ passDone
  BY <1>0, <1>9 DEF checkFilesDone, makeDone, passDone, grid, walk, GridInv, LocationsKnown
<1>10. CASE monitorTransfer \/ transferFailed \/ getDone \/ startGet \/ dropWaiting
            \/ startPut \/ nullElement
  BY <1>0, <1>10 DEF monitorTransfer, transferFailed, getDone, startGet, dropWaiting,
     startPut, nullElement, grid, walk, GridInv, LocationsKnown
<1>11. CASE putDone
  <2>1. queue[pos] \in Entry /\ queue[pos].stage = "PUTTING"
    BY <1>0, <1>11 DEF putDone, isDue, inPass
  <2>2. queue[pos].lfn \in File /\ queue[pos].to \in table
    BY <1>11, <2>1 DEF putDone, isDue, element, Entry
  <2>3. QED
    BY <1>0, <1>11, <2>2 DEF putDone, walk, GridInv, LocationsKnown
<1>12. CASE purgeOne \/ purgeDone
  BY <1>0, <1>12 DEF purgeOne, purgeDone, grid, walk, GridInv, LocationsKnown
<1>13. CASE restart
  <2>1. events' \in 0..MaxEvents
    BY <1>0, <1>13 DEF restart, event, GridInv
  <2>2. /\ table' = saved.table /\ status' = saved.status
        /\ unwalked' = {} /\ checked' = FALSE /\ phase' = "messages" /\ pos' = 0
        /\ UNCHANGED <<saved, copies, replcount>>
    BY <1>13 DEF restart
  <2>3. QED
    BY <1>0, <2>1, <2>2 DEF GridInv, LocationsKnown
<1>14. CASE UNCHANGED vars
  BY <1>0, <1>14 DEF vars, GridInv, LocationsKnown
<1>15. QED
  BY <1>1, <1>2, <1>3, <1>4, <1>5, <1>6, <1>7, <1>8, <1>9, <1>10, <1>11, <1>12,
     <1>13, <1>14 DEF Next, Messages, Make, Pass

(* The main loop takes every entry from stage to stage in time. *)
LEMMA ScheduleStep ==
  ASSUME IInv, Inserts \/ Settles \/ Removes \/ Clears \/ Idles \/ Advances
  PROVE  Schedule'
<1>0. /\ queue \in Seq(Entry) /\ DOMAIN queue = 1..Len(queue)
      /\ phase \in Phases /\ pos \in Nat
      /\ \A i \in DOMAIN queue : queue[i] \in Entry
  BY DEF IInv, TypeOK
<1>a. phase = "update" <=> pos > 0
  BY DEF IInv, Schedule
<1>b. \A i \in DOMAIN queue : queue[i].stage \in Stages /\ queue[i].reason \in Reasons
  BY <1>0 DEF Entry
<1>c. \A i \in DOMAIN queue : IsPlaced(queue[i], i)
  BY DEF IInv, Schedule
<1>d. ASSUME (phase = "update" <=> pos > 0)',
             \A i \in DOMAIN queue' : IsPlaced(queue[i], i)'
      PROVE  Schedule'
  BY <1>d DEF Schedule
<1> USE DEF IsPlaced
<1>1. CASE Inserts
  <2>1. PICK e \in Entry, p \in 1..(Len(queue) + 1) :
          /\ queue' = InsertAt(queue, p, e) /\ e.stage = "WAITING"
          /\ phase' = phase /\ pos' = pos
          /\ \/ phase = "messages" /\ e.reason = "REQUESTED" /\ unwalked' = unwalked
             \/ phase = "check" /\ unwalked' = unwalked \ {e.lfn}
    BY <1>1 DEF Inserts
  <2>2. /\ DOMAIN queue' = 1..(Len(queue) + 1)
        /\ \A i \in 1..(Len(queue) + 1) : i < p => queue'[i] = queue[i]
        /\ queue'[p] = e
        /\ \A i \in 1..(Len(queue) + 1) : i > p => queue'[i] = queue[i - 1]
    BY <1>0, <2>1, InsertPlaces
  <2>3. \A i \in DOMAIN queue' : queue'[i] = e \/ \E j \in DOMAIN queue : queue'[i] = queue[j]
    BY <1>0, <2>2
  <2>4. \A i \in DOMAIN queue' : IsPlaced(queue[i], i)'
    BY <1>c, <2>1, <2>3
  <2>5. QED
    BY <1>0, <1>a, <1>d, <2>1, <2>2, <2>4
<1>2. CASE Settles
  <2>1. PICK stage \in Stages, h \in (Handle \ handles) \cup {none} :
          /\ inPass /\ settle(stage, h) /\ phase' = phase
          /\ \/ stage \in Resting \cup {"DELETEME"} /\ pos' = pos + 1
             \/ stage = "WAITING2" /\ pos' = pos
    BY <1>2 DEF Settles
  <2>2. /\ pos \in DOMAIN queue /\ DOMAIN queue' = DOMAIN queue
        /\ \A i \in DOMAIN queue : i # pos => queue'[i] = queue[i]
        /\ queue'[pos].stage = stage
    BY <1>0, <2>1, SettleFacts
  <2>3. phase = "update" /\ pos > 0
    BY <1>a, <2>1 DEF inPass
  <2>4. \A i \in DOMAIN queue' : IsPlaced(queue[i], i)'
    BY <1>0, <1>c, <2>1, <2>2, <2>3 DEF Resting
  <2>5. QED
    BY <1>0, <1>d, <2>1, <2>2, <2>3, <2>4
<1>3. CASE Removes
  <2>1. PICK p \in DOMAIN queue :
          phase = "purge" /\ queue' = RemoveAt(queue, p) /\ phase' = phase /\ pos' = pos
    BY <1>3 DEF Removes
  <2>2. /\ DOMAIN queue' = 1..(Len(queue) - 1) /\ p \in 1..Len(queue)
        /\ \A i \in 1..(Len(queue) - 1) : i < p => queue'[i] = queue[i]
        /\ \A i \in 1..(Len(queue) - 1) : i >= p => queue'[i] = queue[i + 1]
    BY <1>0, <2>1, RemovePlaces
  <2>3. \A i \in DOMAIN queue' : \E j \in DOMAIN queue : queue'[i] = queue[j]
    BY <1>0, <2>2
  <2>4. \A i \in DOMAIN queue' : IsPlaced(queue[i], i)'
    BY <1>c, <2>1, <2>3
  <2>5. QED
    BY <1>0, <1>a, <1>d, <2>1, <2>2, <2>4
<1>4. CASE Clears
  BY <1>4, <1>d DEF Clears
<1>5. CASE Idles
  <2>1. \A i \in DOMAIN queue' : IsPlaced(queue[i], i)'
    BY <1>c, <1>5 DEF Idles, transfers
  <2>2. QED
    BY <1>0, <1>a, <1>d, <1>5, <2>1 DEF Idles, transfers
<1>6. CASE Advances
  <2>0. queue' = queue
    BY <1>6 DEF Advances, transfers
  <2>1. CASE monitorTransfer
    <3>1. /\ phase' = "update" /\ phase = "update" /\ pos' = pos + 1 /\ pos \in DOMAIN queue
          /\ queue[pos].stage \in Resting
      BY <2>1 DEF monitorTransfer, isDue, inPass, Resting
    <3>2. \A i \in DOMAIN queue' : IsPlaced(queue[i], i)'
      BY <1>0, <1>c, <2>0, <3>1 DEF Resting
    <3>3. QED
      BY <1>0, <1>d, <2>0, <3>1, <3>2
  <2>2. CASE nullElement
    BY <1>0, <1>d, <2>0, <2>2 DEF nullElement
  <2>3. CASE passDone
    <3>1. /\ phase = "update" /\ phase' = "purge" /\ pos' = 0 /\ pos \notin DOMAIN queue
      BY <2>3 DEF passDone
    <3>2. \A i \in DOMAIN queue : i < pos
      BY <1>0, <1>a, <3>1
    <3>3. \A i \in DOMAIN queue' : IsPlaced(queue[i], i)'
      BY <1>0, <1>c, <2>0, <3>1, <3>2
    <3>4. QED
      BY <1>0, <1>d, <2>0, <3>1, <3>3
  <2>4. CASE purgeDone
    <3>1. /\ phase = "purge" /\ phase' = "messages" /\ pos' = pos
          /\ \A i \in DOMAIN queue : queue[i].stage # "DELETEME"
      BY <2>4 DEF purgeDone
    <3>2. \A i \in DOMAIN queue' : IsPlaced(queue[i], i)'
      BY <1>0, <1>c, <2>0, <3>1
    <3>3. QED
      BY <1>0, <1>a, <1>d, <2>0, <3>1, <3>2
  <2>5. CASE makeDone
    <3>1. phase = "make" /\ phase' = "update" /\ pos' = 1
      BY <2>5 DEF makeDone
    <3>2. \A i \in DOMAIN queue' : IsPlaced(queue[i], i)'
      BY <1>0, <1>c, <2>0, <3>1 DEF Resting
    <3>3. QED
      BY <1>0, <1>d, <2>0, <3>1, <3>2
  <2>6. CASE checkFilesDone
    <3>1. phase = "check" /\ phase' = "make" /\ pos' = pos
      BY <2>6 DEF checkFilesDone
    <3>2. \A i \in DOMAIN queue' : IsPlaced(queue[i], i)'
      BY <1>0, <1>c, <2>0, <3>1
    <3>3. QED
      BY <1>0, <1>a, <1>d, <2>0, <3>1, <3>2
  <2>7. CASE pingNodes
    <3>1. phase = "messages" /\ phase' = "check" /\ pos' = pos
      BY <2>7 DEF pingNodes
    <3>2. \A i \in DOMAIN queue' : IsPlaced(queue[i], i)'
      BY <1>0, <1>c, <2>0, <3>1
    <3>3. QED
      BY <1>0, <1>a, <1>d, <2>0, <3>1, <3>2
  <2>8. CASE pingNodesEmpty \/ removeLastNode
    <3>1. phase = "messages" /\ phase' = "stopped" /\ pos' = pos
      BY <2>8 DEF pingNodesEmpty, removeLastNode
    <3>2. \A i \in DOMAIN queue' : IsPlaced(queue[i], i)'
      BY <1>0, <1>c, <2>0, <3>1
    <3>3. QED
      BY <1>0, <1>a, <1>d, <2>0, <3>1, <3>2
  <2>9. QED
    BY <1>6, <2>1, <2>2, <2>3, <2>4, <2>5, <2>6, <2>7, <2>8 DEF Advances
<1>7. QED
  BY <1>1, <1>2, <1>3, <1>4, <1>5, <1>6

-----------------------------------------------------------------------------
(* The theorems *)

LEMMA InitInv == Init => IInv
<1> SUFFICES ASSUME Init PROVE IInv
  OBVIOUS
<1>0. /\ queue = <<>> /\ handles = {} /\ temps = {} /\ unwalked = {}
      /\ checked = FALSE /\ phase = "messages" /\ pos = 0 /\ events = 0
  BY DEF Init
<1>1. TypeOK
  <2>1. copies \in [File -> SUBSET Node]
    <3>1. {{n} : n \in Node} \subseteq SUBSET Node
      OBVIOUS
    <3>2. QED
      BY <3>1 DEF Init
  <2>2. replcount \in [File -> Counts]
    BY CountsAssumption DEF Init
  <2>3. status \in Statuses
    BY DEF Init, Statuses
  <2>4. table \in SUBSET Node /\ saved \in [table: SUBSET Node, status: Statuses]
    BY <2>3 DEF Init
  <2>5. queue \in Seq(Entry)
    BY <1>0
  <2>6. checked \in BOOLEAN /\ phase \in Phases
    BY <1>0 DEF Phases
  <2>7. pos = 0 /\ events = 0
    BY <1>0
  <2>8. pos \in Nat /\ events \in 0..MaxEvents
    BY <2>7, MaxEventsAssumption
  <2>9. handles \in SUBSET Handle /\ temps \in SUBSET Temp /\ unwalked \in SUBSET File
    BY <1>0
  <2>10. QED
    BY <2>1, <2>2, <2>3, <2>4, <2>5, <2>6, <2>8, <2>9 DEF TypeOK
<1>2. LocationsKnown /\ table \subseteq saved.table
  BY <1>1 DEF Init, TypeOK, LocationsKnown
<1>3. DOMAIN queue = {} /\ handles = {} /\ temps = {} /\ phase = "messages" /\ pos = 0
  BY <1>0
<1>4. PriorityOrder /\ OneTransferEach /\ NoLeaks /\ Schedule
  BY <1>3 DEF PriorityOrder, OneTransferEach, NoLeaks, Schedule
<1>5. QED
  BY <1>1, <1>2, <1>4 DEF IInv

LEMMA NextInv == IInv /\ [Next]_vars => IInv'
<1> SUFFICES ASSUME IInv, [Next]_vars PROVE IInv'
  OBVIOUS
<1>1. Inserts \/ Settles \/ Removes \/ Clears \/ Idles \/ Advances
  BY StepKinds
<1>2. Inserts \/ Settles \/ Removes \/ Clears \/ UNCHANGED transfers
  BY <1>1 DEF Idles, Advances
<1>3. GridInv'
  BY GridStep
<1>4. queue' \in Seq(Entry) /\ handles' \in SUBSET Handle /\ temps' \in SUBSET Temp
  BY <1>2, QueueType
<1>5. TypeOK' /\ (table \subseteq saved.table)' /\ LocationsKnown'
  BY <1>3, <1>4 DEF GridInv, TypeOK
<1>6. PriorityOrder' /\ OneTransferEach' /\ NoLeaks'
  BY <1>2, OrderStep, OneStep, LeakStep
<1>7. Schedule'
  BY <1>1, ScheduleStep
<1>8. QED
  BY <1>5, <1>6, <1>7 DEF IInv

LEMMA InvHolds == Spec => []IInv
<1>1. Init => IInv
  BY InitInv
<1>2. IInv /\ [Next]_vars => IInv'
  BY NextInv
<1>3. QED
  BY <1>1, <1>2, PTL DEF Spec

(* Every queue, catalogue and node list of a run is of its type. *)
THEOREM TypeCorrect == Spec => []TypeOK
<1>1. IInv => TypeOK
  BY DEF IInv
<1>2. QED
  BY <1>1, InvHolds, PTL

(* The queue of repqueue.c:97 is always in order of priority, and holds    *)
(* no file twice because of too few copies.                                *)
THEOREM QueueOrdered == Spec => [](PriorityOrder /\ OneTransferEach)
<1>1. IInv => PriorityOrder /\ OneTransferEach
  BY DEF IInv
<1>2. QED
  BY <1>1, InvHolds, PTL

(* No transfer and no temporary file is ever without the entry that ends   *)
(* or unlinks it.                                                          *)
THEOREM NothingLeaks == Spec => []NoLeaks
<1>1. IInv => NoLeaks
  BY DEF IInv
<1>2. QED
  BY <1>1, InvHolds, PTL

(* What the catalogue holds is on nodes of the table, and the stages keep  *)
(* to the phases of the main loop.                                         *)
THEOREM KeepsSchedule == Spec => [](LocationsKnown /\ Schedule)
<1>1. IInv => LocationsKnown /\ Schedule
  BY DEF IInv
<1>2. QED
  BY <1>1, InvHolds, PTL

-----------------------------------------------------------------------------
(* Where the copies are: freeing space *)

(* The sites of finitely many nodes are finitely many. *)
LEMMA SitesFinite ==
  ASSUME NEW ns \in SUBSET Node
  PROVE  IsFiniteSet(sitesOf(ns))
<1> DEFINE site == [n \in ns |-> siteOf[n]]
<1>1. IsFiniteSet(ns)
  BY NodeAssumption, FS_Subset
<1>2. site \in Surjection(ns, sitesOf(ns))
  BY DEF sitesOf, Surjection
<1>3. QED
  BY <1>1, <1>2, FS_Surjection

(* Listed copies are nodes, and more locations list more of them. *)
LEMMA ListedGrow ==
  ASSUME NEW s, NEW t, NEW locs \in SUBSET Node, NEW more \in SUBSET Node,
         locs \subseteq more
  PROVE  /\ listedCopies(s, t, locs) \in SUBSET Node
         /\ listedCopies(s, t, locs) \subseteq listedCopies(s, t, more)
         /\ fileSites(s, t, locs) \subseteq fileSites(s, t, more)
BY DEF listedCopies, fileLocations, fileSites, sitesOf

(* A new location takes no site away. *)
LEMMA GrowKeepsSites ==
  ASSUME NEW s, NEW t, NEW locs \in SUBSET Node, NEW more \in SUBSET Node,
         locs \subseteq more
  PROVE  Cardinality(fileSites(s, t, more)) >= Cardinality(fileSites(s, t, locs))
<1>1. IsFiniteSet(fileSites(s, t, more)) /\ IsFiniteSet(fileSites(s, t, locs))
  BY ListedGrow, SitesFinite DEF fileSites
<1>2. QED
  BY <1>1, ListedGrow, FS_Subset, FS_CardinalityType

(* A location that canSafelyDelete lets go is not the last one of its site *)
(* or its site is not among the last that the file needs.                  *)
LEMMA SafeDeletion ==
  ASSUME NEW s, NEW t, NEW rc, NEW locs \in SUBSET Node, NEW n \in locs \cap t,
         getFileReplicaCount(t, rc) \in Nat,
         canSafelyDelete(s, t, rc, locs, n)
  PROVE  LET sites(l) == Cardinality(fileSites(s, t, l))
         IN  \/ sites(locs \ {n}) >= sites(locs)
             \/ sites(locs \ {n}) >= getFileReplicaCount(t, rc)
<1> DEFINE listed == listedCopies(s, t, locs)
           rest == listedCopies(s, t, locs \ {n})
           home == {m \in listed : siteOf[m] = siteOf[n]}
<1>1. listed \in SUBSET Node /\ rest = listed \ {n}
  BY DEF listedCopies, fileLocations
<1>2. IsFiniteSet(home) /\ IsFiniteSet(sitesOf(listed)) /\ IsFiniteSet(sitesOf(rest))
  <2>1. home \in SUBSET Node /\ rest \in SUBSET Node
    BY <1>1
  <2>2. QED BY <1>1, <2>1, NodeAssumption, FS_Subset, SitesFinite
<1>3. CASE copiesAtSite(s, t, locs, siteOf[n]) > 1
  <2>1. Cardinality(home) > 1
    BY <1>3 DEF copiesAtSite
  <2>2. PICK m \in home : m # n
    <3>1. SUFFICES ASSUME home \subseteq {n} PROVE FALSE
      OBVIOUS
    <3>2. Cardinality(home) <= 1
      <4> HIDE DEF home
      <4>1. IsFiniteSet({n}) /\ Cardinality({n}) = 1
        BY FS_Singleton
      <4>2. Cardinality(home) <= Cardinality({n})
        BY <3>1, <4>1, FS_Subset
      <4>3. QED BY <4>1, <4>2
    <3>3. QED BY <1>2, <2>1, <3>2, FS_CardinalityType
  <2>3. sitesOf(rest) = sitesOf(listed)
    BY <1>1, <2>2 DEF sitesOf
  <2>4. QED
    BY <1>2, <2>3, FS_CardinalityType DEF fileSites
<1>4. CASE Cardinality(fileSites(s, t, locs)) > getFileReplicaCount(t, rc)
  <2>1. sitesOf(listed) \ {siteOf[n]} \subseteq sitesOf(rest)
    BY <1>1 DEF sitesOf
  <2>2. /\ Cardinality(sitesOf(listed) \ {siteOf[n]}) <= Cardinality(sitesOf(rest))
        /\ Cardinality(sitesOf(rest)) \in Nat /\ Cardinality(sitesOf(listed)) \in Nat
    BY <1>2, <2>1, FS_Subset, FS_CardinalityType
  <2>3. Cardinality(sitesOf(listed) \ {siteOf[n]}) \in
           {Cardinality(sitesOf(listed)), Cardinality(sitesOf(listed)) - 1}
    BY <1>2, FS_RemoveElement
  <2>4. QED
    BY <1>4, <2>2, <2>3 DEF fileSites
<1>5. QED
  BY <1>3, <1>4 DEF canSafelyDelete

LEMMA StepKeepsSites ==
  ASSUME TypeOK, Next, phase = "make", NEW f \in File
  PROVE  LET sites(locs) == Cardinality(fileSites(status, table, locs))
         IN  sites(copies'[f]) >= sites(copies[f]) \/ sites(copies'[f]) >= replicaCount(f)
<1>0. /\ copies \in [File -> SUBSET Node] /\ table \in SUBSET Node
      /\ getFileReplicaCount(table, replcount[f]) \in Nat
  <2>1. IsFiniteSet(table)
    BY NodeAssumption, FS_Subset DEF TypeOK
  <2>2. QED
    BY <2>1, copiesRequiredAssumption, FS_CardinalityType DEF TypeOK, getFileReplicaCount
<1>1. ASSUME copies[f] \subseteq copies'[f], copies'[f] \in SUBSET Node
      PROVE  Cardinality(fileSites(status, table, copies'[f]))
                >= Cardinality(fileSites(status, table, copies[f]))
  BY <1>0, <1>1, GrowKeepsSites
<1>2. ASSUME NEW g \in File, NEW n \in Node, makeFreeSpace(g, n)
      PROVE  LET sites(locs) == Cardinality(fileSites(status, table, locs))
             IN  sites(copies'[f]) >= sites(copies[f]) \/ sites(copies'[f]) >= replicaCount(f)
  <2>1. CASE f = g
    <3>1. /\ copies'[f] = copies[f] \ {n} /\ n \in copies[f] \cap table
          /\ canSafelyDelete(status, table, replcount[f], copies[f], n)
      BY <1>0, <1>2, <2>1 DEF makeFreeSpace
    <3>2. QED
      BY <1>0, <3>1, SafeDeletion DEF replicaCount
  <2>2. CASE f # g
    <3>1. copies'[f] = copies[f]
      BY <1>0, <1>2, <2>2 DEF makeFreeSpace
    <3>2. QED BY <1>0, <1>1, <3>1
  <2>3. QED BY <2>1, <2>2
<1>3. ASSUME NEW g \in File, NEW n \in Node, unNewFile(g, n) \/ handleNewModification(g, n)
      PROVE  copies[f] \subseteq copies'[f] /\ copies'[f] \in SUBSET Node
  BY <1>0, <1>3 DEF unNewFile, handleNewModification
<1>4. CASE makeDone \/ restart
  <2>1. copies' = copies
    BY <1>4 DEF makeDone, restart, grid
  <2>2. QED BY <1>0, <1>1, <2>1
<1>5. makeDone \/ restart \/ Make
  BY DEF Next, Messages, Pass, touch, removeNode, setStatus, removeLastNode, deleteLogicalFile,
         setReplCountFile, pingNodes, pingNodesEmpty, queueCopy, passOver, walkTo,
         checkFilesDone, monitorTransfer, transferFailed, getDone, putDone, startGet,
         dropWaiting, startPut, nullElement, isDue, inPass, passDone, purgeOne, purgeDone,
         runChecksums
<1>6. QED
  BY <1>1, <1>2, <1>3, <1>4, <1>5 DEF Make

(* makeFreeSpace, with the numbers of buildSiteLists, never costs a file a *)
(* site that it needs (canSafelyDelete, background.c).                     *)
THEOREM FreeingKeepsSites == Spec => SitesKept
<1>1. TypeOK /\ [Next]_vars =>
        [phase = "make" =>
          \A f \in File :
             LET sites(locs) == Cardinality(fileSites(status, table, locs))
             IN  sites(copies'[f]) >= sites(copies[f]) \/ sites(copies'[f]) >= replicaCount(f)
        ]_vars
  BY StepKeepsSites
<1>2. QED
  BY <1>1, TypeCorrect, PTL DEF Spec, SitesKept
=============================================================================
