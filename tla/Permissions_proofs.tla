-------------------------- MODULE Permissions_proofs --------------------------
(***************************************************************************)
(* Changes of permissions, for any nodes, files and directories: the        *)
(* catalogue ends with what was last asked for, and the replicas with what  *)
(* the catalogue says.                                                      *)
(***************************************************************************)
EXTENDS Permissions, SequenceTheorems, FiniteSetTheorems, WellFoundedInduction, TLAPS

(* The changes of f in a list q. *)
covering(q, f) == {i \in DOMAIN q : f \in covers(q[i])}

(* Those that come by different names want the same. *)
Agree(q, f) == \A i, j \in covering(q, f) : q[i].name # q[j].name => q[i].perm = q[j].perm

(* The newest wants p. *)
NewestIs(q, f, p) ==
  \A i \in covering(q, f) : (\A j \in covering(q, f) : j <= i) => q[i].perm = p

busy == job.step \in {"attr", "chmod"}

(* Though removals take the oldest entry of a name, the entry in hand is    *)
(* always the last one of the list.                                         *)
JobOK ==
  /\ busy => /\ job.i \in DOMAIN pending /\ job.i = Len(pending)
             /\ job.rest \subseteq covers(entry)
  /\ job.step = "chmod" => job.lfn \in covers(entry)
  /\ job.step = "write" => job.i \in {0, Len(pending) + 1} /\ pendingpermissions = <<>>
  /\ job.step # "write" => pendingpermissions = pending

Agreed == \A f \in File \ crossed : Agree(pending, f)

Asked == \A f \in File \ (crossed \cup lost) : located[f] # {} => NewestIs(pending, f, asked[f])

(* What the entry in hand has been carried out for. *)
Applied ==
  busy => \A f \in covers(entry) \ (job.rest \cup lost) :
     located[f] # {} =>
        /\ perm[f] = entry.perm
        /\ \A n \in located[f] :
             \/ <<n, f>> \in missed \/ mode[n][f] = entry.perm
             \/ job.step = "chmod" /\ f = job.lfn /\ n \in job.todo

(* A file of which no change is pending. *)
Done ==
  \A f \in File \ lost :
     located[f] # {} /\ covering(pending, f) = {} =>
        /\ perm[f] # none
        /\ f \notin crossed => perm[f] = asked[f]
        /\ \A n \in located[f] : <<n, f>> \in missed \/ mode[n][f] = perm[f]

IInv == TypeOK /\ JobOK /\ Agreed /\ Asked /\ Applied /\ Done

-----------------------------------------------------------------------------
(* Sequences *)

(* What RemoveAt makes of a sequence. *)
LEMMA RemoveAtFacts ==
  ASSUME NEW S, NEW q \in Seq(S), NEW p \in 1..Len(q)
  PROVE  /\ RemoveAt(q, p) \in Seq(S)
         /\ Len(RemoveAt(q, p)) = Len(q) - 1
         /\ DOMAIN RemoveAt(q, p) = 1..(Len(q) - 1)
         /\ \A i \in 1..(Len(q) - 1) :
              RemoveAt(q, p)[i] = IF i < p THEN q[i] ELSE q[i + 1]
<1> DEFINE l == SubSeq(q, 1, p - 1)
           r == SubSeq(q, p + 1, Len(q))
<1>1. /\ l \in Seq(S) /\ Len(l) = p - 1
      /\ \A i \in 1..(p - 1) : l[i] = q[i]
  OBVIOUS
<1>2. /\ r \in Seq(S) /\ Len(r) = Len(q) - p
      /\ \A i \in 1..(Len(q) - p) : r[i] = q[p + i]
  OBVIOUS
<1>3. RemoveAt(q, p) = l \o r
  BY DEF RemoveAt
<1> HIDE DEF l, r
<1>4. /\ l \o r \in Seq(S)
      /\ Len(l \o r) = Len(l) + Len(r)
      /\ \A i \in 1..(Len(l) + Len(r)) :
           (l \o r)[i] = IF i <= Len(l) THEN l[i] ELSE r[i - Len(l)]
  BY <1>1, <1>2, ConcatProperties
<1>5. Len(l \o r) = Len(q) - 1 /\ DOMAIN (l \o r) = 1..(Len(q) - 1)
  BY <1>1, <1>2, <1>4
<1>6. ASSUME NEW i \in 1..(Len(q) - 1)
      PROVE  (l \o r)[i] = IF i < p THEN q[i] ELSE q[i + 1]
  <2>1. (l \o r)[i] = IF i <= Len(l) THEN l[i] ELSE r[i - Len(l)]
    BY <1>1, <1>2, <1>4
  <2>2. CASE i < p
    BY <1>1, <2>1, <2>2
  <2>3. CASE ~(i < p)
    <3>1. i - (p - 1) \in 1..(Len(q) - p) /\ p + (i - (p - 1)) = i + 1
      BY <2>3
    <3>2. (l \o r)[i] = r[i - (p - 1)]
      BY <1>1, <2>1, <2>3
    <3>3. QED BY <1>2, <2>3, <3>1, <3>2
  <2>4. QED BY <2>2, <2>3
<1>7. QED
  BY <1>3, <1>4, <1>5, <1>6

(* A non-empty set of naturals has a least element: the intervals 0..x are  *)
(* well founded under inclusion.                                           *)
LEMMA LeastNat ==
  ASSUME NEW T \in SUBSET Nat, T # {}
  PROVE  \E x \in T : \A y \in T : x <= y
<1> DEFINE F == {0..x : x \in T}
<1>1. F \subseteq FiniteSubsetsOf(Nat) /\ F # {}
  <2>1. \A x \in T : 0..x \in SUBSET Nat /\ IsFiniteSet(0..x)
    BY FS_Interval
  <2>2. QED BY <2>1 DEF FiniteSubsetsOf
<1> HIDE DEF F
<1>2. PICK I \in F : \A J \in F : <<J, I>> \notin StrictSubsetOrdering(Nat)
  BY <1>1, FS_StrictSubsetOrderingWellFounded, WFMin
<1>3. PICK x \in T : I = 0..x
  BY DEF F
<1>4. ASSUME NEW y \in T, y < x PROVE FALSE
  <2>1. 0..y \in F /\ 0..x \in SUBSET Nat /\ 0..y \subseteq 0..x /\ x \in 0..x /\ x \notin 0..y
    BY <1>4 DEF F
  <2>2. <<0..y, 0..x>> \in StrictSubsetOrdering(Nat)
    BY <2>1 DEF StrictSubsetOrdering
  <2>3. QED BY <1>2, <1>3, <2>1, <2>2
<1>5. QED BY <1>4

-----------------------------------------------------------------------------
(* The list *)

LEMMA EntryFacts ==
  ASSUME NEW e \in Entry
  PROVE  /\ e.name \in File \cup Dir /\ e.perm \in Perm /\ e.perm # none
         /\ covers(e) \subseteq File
         /\ \A x \in Entry : x.name = e.name => covers(x) = covers(e)
BY DirAssumption, PermAssumption DEF Entry, covers

(* What the removal of a finished change leaves of the list. *)
Removed(q) ==
  LET same == {j \in DOMAIN q : q[j].name = q[Len(q)].name}
  IN  RemoveAt(q, CHOOSE j \in same : \A k \in same : j <= k)

LEMMA RemovedFacts ==
  ASSUME NEW q \in Seq(Entry), q # <<>>
  PROVE  \E k \in 1..Len(q) :
            /\ Removed(q) = RemoveAt(q, k)
            /\ q[k].name = q[Len(q)].name
            /\ \A j \in 1..Len(q) : q[j].name = q[Len(q)].name => k <= j
<1> DEFINE same == {j \in DOMAIN q : q[j].name = q[Len(q)].name}
           k == CHOOSE j \in same : \A l \in same : j <= l
<1>1. same \subseteq Nat /\ Len(q) \in same /\ DOMAIN q = 1..Len(q)
  OBVIOUS
<1>2. \E j \in same : \A l \in same : j <= l
  BY <1>1, LeastNat
<1>3. k \in same /\ \A l \in same : k <= l
  BY <1>2
<1>4. Removed(q) = RemoveAt(q, k)
  BY DEF Removed
<1> HIDE DEF k
<1>5. QED BY <1>1, <1>3, <1>4

(* If the newest change of f is the last of the list, it is what is removed *)
(* or it stays the last; in any case what is left wants the same.           *)
LEMMA RemovalKeeps ==
  ASSUME NEW q \in Seq(Entry), q # <<>>, NEW f
  PROVE  /\ Removed(q) \in Seq(Entry)
         /\ Len(Removed(q)) = Len(q) - 1
         /\ Agree(q, f) => Agree(Removed(q), f)
         /\ covering(Removed(q), f) = {} /\ covering(q, f) # {} => f \in covers(q[Len(q)])
         /\ Agree(q, f) => \A p : NewestIs(q, f, p) => NewestIs(Removed(q), f, p)
<1> DEFINE n == Len(q)
           r == Removed(q)
<1>1. n \in Nat \ {0} /\ DOMAIN q = 1..n /\ \A i \in 1..n : q[i] \in Entry
  OBVIOUS
<1>2. PICK k \in 1..n : /\ r = RemoveAt(q, k) /\ q[k].name = q[n].name
                        /\ \A j \in 1..n : q[j].name = q[n].name => k <= j
  BY RemovedFacts
<1> HIDE DEF r
<1>3. /\ r \in Seq(Entry) /\ Len(r) = n - 1 /\ DOMAIN r = 1..(n - 1)
      /\ \A i \in 1..(n - 1) : r[i] = IF i < k THEN q[i] ELSE q[i + 1]
  <2> DEFINE x == RemoveAt(q, k)
  <2>1. /\ x \in Seq(Entry) /\ Len(x) = n - 1 /\ DOMAIN x = 1..(n - 1)
        /\ \A i \in 1..(n - 1) : x[i] = IF i < k THEN q[i] ELSE q[i + 1]
    BY RemoveAtFacts
  <2> HIDE DEF x
  <2>2. r = x
    BY <1>2 DEF x
  <2>3. QED BY <2>1, <2>2
<1> HIDE DEF n
(* Where an element of the shorter list was, and where one of the longer is. *)
<1> DEFINE old(i) == IF i < k THEN i ELSE i + 1
           new(j) == IF j < k THEN j ELSE j - 1
<1>4. ASSUME NEW i \in 1..(n - 1) PROVE old(i) \in 1..n /\ old(i) # k /\ r[i] = q[old(i)]
  BY <1>1, <1>2, <1>3
<1>5. ASSUME NEW j \in 1..n, j # k PROVE new(j) \in 1..(n - 1) /\ r[new(j)] = q[j]
  <2>1. CASE j < k
    BY <1>1, <1>2, <1>3, <2>1
  <2>2. CASE j > k
    <3>1. j - 1 \in 1..(n - 1) /\ ~(j - 1 < k) /\ j - 1 + 1 = j
      BY <1>1, <2>2
    <3>2. QED BY <1>3, <2>2, <3>1
  <2>3. QED BY <1>1, <1>5, <2>1, <2>2
<1>6. ASSUME NEW i \in 1..(n - 1), NEW j \in 1..n, j # k, new(j) <= i PROVE j <= old(i)
  BY <1>1, <1>6
<1>7. covering(q, f) = {i \in 1..n : f \in covers(q[i])}
      /\ covering(r, f) = {i \in 1..(n - 1) : f \in covers(r[i])}
  BY <1>1, <1>3 DEF covering
<1>8. f \in covers(q[k]) <=> f \in covers(q[n])
  BY <1>1, <1>2, EntryFacts
<1>9. ASSUME Agree(q, f) PROVE Agree(r, f)
  <2>1. \A i \in covering(r, f) : old(i) \in covering(q, f) /\ r[i] = q[old(i)]
    BY <1>4, <1>7
  <2> HIDE DEF old
  <2>2. QED BY <1>9, <2>1 DEF Agree
<1>10. ASSUME covering(r, f) = {}, NEW i \in covering(q, f) PROVE f \in covers(q[n])
  <2>1. i = k
    <3> HIDE DEF new
    <3>1. QED BY <1>5, <1>7, <1>10
  <2>2. QED BY <1>7, <1>8, <2>1
<1>11. ASSUME Agree(q, f), NEW p, NewestIs(q, f, p), NEW i \in covering(r, f),
              \A j \in covering(r, f) : j <= i
       PROVE  r[i].perm = p
  <2>1. i \in 1..(n - 1) /\ old(i) \in covering(q, f) /\ r[i] = q[old(i)] /\ old(i) # k
    BY <1>4, <1>7
  <2>2. ASSUME NEW j \in covering(q, f), j # k PROVE j <= old(i)
    <3>1. j \in 1..n /\ new(j) \in covering(r, f)
      BY <1>5, <1>7, <2>2
    <3>2. new(j) <= i
      BY <1>11, <3>1
    <3>3. QED BY <1>6, <2>1, <2>2, <3>1, <3>2
  <2> HIDE DEF old, new
  <2>3. CASE f \notin covers(q[n])
    <3>1. \A j \in covering(q, f) : j <= old(i)
      BY <1>7, <1>8, <2>2, <2>3
    <3>2. QED BY <1>11, <2>1, <3>1 DEF NewestIs
  <2>4. CASE f \in covers(q[n])
    <3>1. n \in covering(q, f) /\ \A j \in covering(q, f) : j <= n
      BY <1>1, <1>7, <2>4
    <3>2. q[n].perm = p
      BY <1>11, <3>1 DEF NewestIs
    <3>3. CASE k = n
      <4>1. q[old(i)].name # q[n].name
        <5>1. old(i) \in 1..n /\ (old(i) < n)
          BY <1>1, <1>7, <2>1, <3>3
        <5>2. ~(k <= old(i))
          BY <1>1, <3>3, <5>1
        <5>3. QED BY <1>2, <5>1, <5>2
      <4>2. QED BY <1>11, <2>1, <3>1, <3>2, <4>1 DEF Agree
    <3>4. CASE k # n
      <4>1. n <= old(i)
        BY <2>2, <3>1, <3>4
      <4>2. old(i) = n
        BY <1>1, <1>7, <2>1, <4>1
      <4>3. QED BY <2>1, <3>2, <4>2
    <3>5. QED BY <3>3, <3>4
  <2>5. QED BY <2>3, <2>4
<1>12. /\ Agree(q, f) => \A p : NewestIs(q, f, p) => NewestIs(r, f, p)
  BY <1>11 DEF NewestIs
<1>13. QED BY <1>3, <1>9, <1>10, <1>12 DEF n, r

(* What a new change adds. *)
LEMMA AppendCovers ==
  ASSUME NEW q \in Seq(Entry), NEW e \in Entry, NEW f
  PROVE  LET r == Append(q, e) IN
         /\ r \in Seq(Entry) /\ r # <<>>
         /\ covering(r, f) = covering(q, f) \cup (IF f \in covers(e) THEN {Len(q) + 1} ELSE {})
         /\ \A i \in covering(q, f) : r[i] = q[i] /\ i \in 1..Len(q)
         /\ r[Len(q) + 1] = e
<1> DEFINE r == Append(q, e)
<1>1. /\ r \in Seq(Entry) /\ Len(r) = Len(q) + 1 /\ DOMAIN r = 1..(Len(q) + 1)
      /\ \A i \in 1..Len(q) : r[i] = q[i]
      /\ r[Len(q) + 1] = e /\ DOMAIN q = 1..Len(q) /\ Len(q) \in Nat
  OBVIOUS
<1> HIDE DEF r
<1>2. covering(r, f) = covering(q, f) \cup (IF f \in covers(e) THEN {Len(q) + 1} ELSE {})
  BY <1>1 DEF covering
<1>3. QED BY <1>1, <1>2 DEF r, covering

LEMMA NotCovered ==
  ASSUME NEW f
  PROVE  covering(pending, f) # {} <=> covered(f)
BY DEF covering, covered

-----------------------------------------------------------------------------
(* Every action keeps the invariant *)

LEMMA InitInv == Init => IInv
<1> SUFFICES ASSUME Init PROVE IInv
  OBVIOUS
<1>1. noJob \in Job /\ noJob.step = "idle"
  BY DEF noJob, Job
<1>2. job = noJob /\ pending = <<>> /\ pendingpermissions = <<>> /\ <<>> \in Seq(Entry)
  BY DEF Init
<1>3. TypeOK
  BY <1>1, <1>2, PermAssumption, MaxEventsAssumption DEF Init, TypeOK
<1>4. JobOK /\ Applied
  BY <1>1, <1>2 DEF JobOK, Applied, busy
<1>5. \A f : covering(pending, f) = {}
  BY <1>2 DEF covering
<1>6. Agreed /\ Asked
  BY <1>5 DEF Agreed, Asked, Agree, NewestIs
<1>7. Done
  BY PermAssumption DEF Done, Init
<1>8. QED BY <1>3, <1>4, <1>6, <1>7 DEF IInv

(* What the invariant says at the beginning of a step. *)
LEMMA Now ==
  ASSUME IInv
  PROVE  /\ located \in [File -> SUBSET Node] /\ perm \in [File -> Perm \cup {none}]
         /\ mode \in [Node -> [File -> Perm]]
         /\ pending \in Seq(Entry) /\ pendingpermissions \in Seq(Entry) /\ job \in Job
         /\ asked \in [File -> Perm] /\ missed \in SUBSET (Node \X File)
         /\ job = noJob => pendingpermissions = pending
         /\ busy => /\ entry \in Entry /\ pending # <<>> /\ job.i = Len(pending)
                    /\ job.rest \subseteq covers(entry)
BY DEF IInv, TypeOK, JobOK, noJob, busy, entry

(* The main thread has nothing in hand, ... *)
LEMMA IdleNext ==
  ASSUME job' = noJob, pendingpermissions' = pending'
  PROVE  job' \in Job /\ JobOK' /\ Applied'
<1>1. job'.step = "idle" /\ noJob \in Job
  BY DEF noJob, Job
<1>2. QED BY <1>1 DEF JobOK, Applied, busy

(* ... or writes the list, ... *)
LEMMA WriteNext ==
  ASSUME IInv, job' = [job EXCEPT !.step = "write"],
         pendingpermissions' = <<>>, job.i \in {0, Len(pending') + 1}
  PROVE  job' \in Job /\ JobOK' /\ Applied'
<1>1. job' \in Job /\ job'.step = "write" /\ job'.i = job.i
  BY Now DEF Job
<1>2. QED BY <1>1 DEF JobOK, Applied, busy

(* ... or goes on to the last entry of the list. *)
LEMMA OntoNext ==
  ASSUME IInv, NEW i \in Nat, i = 0 \/ (i \in DOMAIN pending /\ i = Len(pending)), onTo(i),
         UNCHANGED <<pending, located>>, pendingpermissions' = pending
  PROVE  job' \in Job /\ JobOK' /\ Applied'
<1>1. CASE i = 0
  BY <1>1, IdleNext DEF onTo
<1>2. CASE i # 0
  <2> DEFINE rest == IF pending[i].name \in Dir
                     THEN {f \in covers(pending[i]) : located[f] # {}} ELSE covers(pending[i])
  <2>1. job' = [noJob EXCEPT !.step = "attr", !.i = i, !.rest = rest]
    BY <1>2 DEF onTo
  <2>2. pending[i] \in Entry /\ rest \subseteq covers(pending[i])
        /\ covers(pending[i]) \subseteq File
    BY <1>2, Now, EntryFacts
  <2>3. \A f \in covers(pending[i]) \ rest : located[f] = {}
    OBVIOUS
  <2> HIDE DEF rest
  <2>4. job' \in Job /\ job'.step = "attr" /\ job'.i = i /\ job'.rest = rest
    BY <2>1, <2>2 DEF noJob, Job
  <2>5. entry' = pending[i]
    BY <2>4 DEF entry
  <2>6. JobOK'
    BY <1>2, <2>2, <2>4, <2>5 DEF JobOK, busy
  <2>7. Applied'
    BY <2>3, <2>4, <2>5 DEF Applied
  <2>8. QED BY <2>4, <2>6, <2>7
<1>3. QED BY <1>1, <1>2

(* The list and what was asked for stay. *)
LEMMA ListSame ==
  ASSUME IInv, UNCHANGED <<pending, asked, crossed>>, lost \subseteq lost',
         \A f \in File : located'[f] # {} => located[f] # {}
  PROVE  Agreed' /\ Asked'
BY DEF IInv, Agreed, Asked

LEMMA SaveInv ==
  ASSUME IInv, savePendingPermissionsList \/ handlePermissionsChanges
  PROVE  IInv'
<1>1. /\ UNCHANGED <<located, perm, mode, unusable, pending, asked, crossed, lost, missed, events>>
      /\ pendingpermissions' = pending
  BY Now DEF savePendingPermissionsList, handlePermissionsChanges, history, lists
<1>2. job' \in Job /\ JobOK' /\ Applied'
  <2>1. CASE handlePermissionsChanges
    <3>1. onTo(Len(pending)) /\ Len(pending) \in Nat /\ Len(pending) \in DOMAIN pending
      BY <2>1, Now DEF handlePermissionsChanges
    <3>2. QED BY <1>1, <3>1, OntoNext
  <2>2. CASE savePendingPermissionsList
    <3> DEFINE i == IF job.i = 0 THEN 0 ELSE job.i - 1
    <3>1. job.i \in {0, Len(pending) + 1} /\ Len(pending) \in Nat
      BY <2>2, Now DEF savePendingPermissionsList, IInv, JobOK
    <3>2. onTo(i)
      BY <2>2 DEF savePendingPermissionsList
    <3>3. i \in Nat /\ (i = 0 \/ (i \in DOMAIN pending /\ i = Len(pending)))
      BY <3>1, Now
    <3> HIDE DEF i
    <3>4. QED BY <1>1, <3>2, <3>3, OntoNext
  <2>3. QED BY <2>1, <2>2
<1>3. TypeOK'
  BY <1>1, <1>2 DEF IInv, TypeOK
<1>4. Agreed' /\ Asked'
  BY <1>1, ListSame
<1>5. Done'
  BY <1>1 DEF IInv, Done
<1>6. QED BY <1>2, <1>3, <1>4, <1>5 DEF IInv

LEMMA ChmodInv ==
  ASSUME IInv, NEW e \in Entry, handleMessageChmod(e)
  PROVE  IInv'
<1>0. /\ job = noJob /\ pending' = Append(pending, e) /\ pendingpermissions' = <<>>
      /\ job' = [job EXCEPT !.step = "write"] /\ events < MaxEvents /\ events' = events + 1
      /\ UNCHANGED <<located, perm, mode, unusable, lost, missed>>
      /\ asked' = [f \in File |-> IF f \in covers(e) /\ located[f] # {} THEN e.perm ELSE asked[f]]
      /\ crossed' = crossed \cup {f \in covers(e) : \E i \in DOMAIN pending :
                                   /\ f \in covers(pending[i])
                                   /\ pending[i].name # e.name /\ pending[i].perm # e.perm}
  BY DEF handleMessageChmod, event, goTo
<1>1. e.perm \in Perm /\ covers(e) \subseteq File
  BY EntryFacts
<1>2. pending \in Seq(Entry) /\ pending' \in Seq(Entry) /\ <<>> \in Seq(Entry)
  BY <1>0, Now, AppendCovers
<1>3. job' \in Job /\ JobOK' /\ Applied'
  <2>1. job.i = 0
    BY <1>0 DEF noJob
  <2>2. QED BY <1>0, <2>1, WriteNext
<1>4. TypeOK'
  <2>1. asked' \in [File -> Perm] /\ crossed' \in SUBSET File
    BY <1>0, <1>1, Now DEF IInv, TypeOK
  <2>2. events' \in 0..MaxEvents
    BY <1>0, MaxEventsAssumption DEF IInv, TypeOK
  <2>3. QED BY <1>0, <1>2, <1>3, <2>1, <2>2 DEF IInv, TypeOK
<1> DEFINE n == Len(pending) + 1
<1>5. ASSUME NEW f
      PROVE  /\ covering(pending', f) = covering(pending, f)
                                          \cup (IF f \in covers(e) THEN {n} ELSE {})
             /\ \A i \in covering(pending, f) : pending'[i] = pending[i] /\ i \in 1..Len(pending)
             /\ pending'[n] = e
  BY <1>0, <1>2, AppendCovers
<1>6. n \in Nat /\ \A i \in 1..Len(pending) : i < n
  BY <1>2
<1> HIDE DEF n
<1>7. Agreed'
  <2>1. SUFFICES ASSUME NEW f \in File \ crossed' PROVE Agree(pending', f)
    BY DEF Agreed
  <2>2. Agree(pending, f)
    BY <1>0 DEF IInv, Agreed
  <2>3. f \in covers(e) => \A i \in covering(pending, f) : pending[i].name # e.name
                                                            => pending[i].perm = e.perm
    BY <1>0, <2>1 DEF covering
  <2>4. QED BY <1>5, <2>2, <2>3 DEF Agree
<1>8. Asked'
  <2>1. SUFFICES ASSUME NEW f \in File \ (crossed' \cup lost'), located'[f] # {},
                        NEW i \in covering(pending', f),
                        \A j \in covering(pending', f) : j <= i
                 PROVE  pending'[i].perm = asked'[f]
    BY DEF Asked, NewestIs
  <2>2. CASE f \in covers(e)
    <3>1. n \in covering(pending', f) /\ n <= i
      BY <1>5, <2>1, <2>2
    <3>2. i = n
      <4>1. i \in covering(pending, f) \/ i = n
        BY <1>5, <2>1
      <4>2. i \in covering(pending, f) => i \in 1..Len(pending) /\ i < n
        BY <1>5, <1>6
      <4>3. i \in 1..Len(pending) => ~(i < n /\ n <= i)
        BY <1>2, <1>6
      <4>4. QED BY <3>1, <4>1, <4>2, <4>3
    <3>3. asked'[f] = e.perm
      BY <1>0, <2>1, <2>2
    <3>4. QED BY <1>5, <3>2, <3>3
  <2>3. CASE f \notin covers(e)
    <3>1. covering(pending', f) = covering(pending, f) /\ asked'[f] = asked[f]
      BY <1>0, <1>5, <2>1, <2>3
    <3>2. NewestIs(pending, f, asked[f])
      BY <1>0, <2>1 DEF IInv, Asked
    <3>3. QED BY <1>5, <2>1, <3>1, <3>2 DEF NewestIs
  <2>4. QED BY <2>2, <2>3
<1>9. Done'
  <2>1. SUFFICES ASSUME NEW f \in File \ lost', located'[f] # {}, covering(pending', f) = {}
                 PROVE  /\ perm'[f] # none
                        /\ f \notin crossed' => perm'[f] = asked'[f]
                        /\ \A m \in located'[f] : <<m, f>> \in missed' \/ mode'[m][f] = perm'[f]
    BY DEF Done
  <2>2. covering(pending, f) = {} /\ f \notin covers(e)
    BY <1>5, <2>1
  <2>3. asked'[f] = asked[f] /\ (f \notin crossed' => f \notin crossed)
    BY <1>0, <2>1, <2>2
  <2>4. QED BY <1>0, <2>1, <2>2, <2>3 DEF IInv, Done
<1>10. QED BY <1>3, <1>4, <1>7, <1>8, <1>9 DEF IInv

(* Steps that leave the list and what was asked for alone. *)
LEMMA KeptType ==
  ASSUME IInv, UNCHANGED <<located, unusable, lists, asked, crossed>>, job' \in Job,
         perm' \in [File -> Perm \cup {none}], mode' \in [Node -> [File -> Perm]],
         lost' \in SUBSET File, missed' \in SUBSET (Node \X File), UNCHANGED events \/ event
  PROVE  TypeOK'
<1>1. events' \in 0..MaxEvents
  BY MaxEventsAssumption DEF IInv, TypeOK, event
<1>2. QED BY <1>1 DEF IInv, TypeOK, lists

LEMMA AttrInv ==
  ASSUME IInv, NEW f \in File, registerAttrWithRc(f)
  PROVE  IInv'
<1>0. /\ job.step = "attr" /\ f \in job.rest
      /\ perm' = [perm EXCEPT ![f] = entry.perm]
      /\ job' = [job EXCEPT !.step = "chmod", !.lfn = f, !.rest = @ \ {f},
                            !.todo = located[f] \ unusable]
      /\ missed' = missed \cup {<<n, f>> : n \in located[f] \cap unusable}
      /\ UNCHANGED <<located, mode, unusable, pending, pendingpermissions, asked, crossed, lost,
                     events>>
  BY DEF registerAttrWithRc, lists, history
<1>1. /\ entry \in Entry /\ job.i = Len(pending) /\ job.i \in DOMAIN pending
      /\ job.rest \subseteq covers(entry) /\ f \in covers(entry) /\ pendingpermissions = pending
      /\ located[f] \in SUBSET Node /\ job \in Job
  BY <1>0, Now DEF busy, IInv, JobOK
<1>2. /\ job'.step = "chmod" /\ job'.lfn = f /\ job'.rest = job.rest \ {f}
      /\ job'.todo = located[f] \ unusable /\ job'.i = job.i /\ job' \in Job
  BY <1>0, <1>1 DEF Job
<1>3. entry' = entry /\ entry.perm \in Perm /\ entry.perm # none
  BY <1>0, <1>1, <1>2, EntryFacts DEF entry
<1>4. TypeOK'
  <2>1. perm' \in [File -> Perm \cup {none}] /\ missed' \in SUBSET (Node \X File)
    BY <1>0, <1>1, <1>3, Now
  <2>2. QED BY <1>0, <1>2, <2>1, KeptType DEF lists, IInv, TypeOK
<1>5. JobOK'
  BY <1>0, <1>1, <1>2, <1>3 DEF JobOK, busy
<1>6. Agreed' /\ Asked'
  BY <1>0, ListSame
<1>7. Applied'
  <2>1. SUFFICES ASSUME NEW g \in covers(entry) \ (job'.rest \cup lost), located[g] # {}
                 PROVE  /\ perm'[g] = entry.perm
                        /\ \A n \in located[g] :
                             \/ <<n, g>> \in missed' \/ mode[n][g] = entry.perm
                             \/ g = f /\ n \in job'.todo
    BY <1>0, <1>2, <1>3 DEF Applied
  <2>2. g \in File /\ perm \in [File -> Perm \cup {none}]
    BY <1>1, Now, EntryFacts
  <2>3. CASE g = f
    BY <1>0, <1>2, <2>2, <2>3
  <2>4. CASE g # f
    <3>1. /\ perm[g] = entry.perm
          /\ \A n \in located[g] : <<n, g>> \in missed \/ mode[n][g] = entry.perm
      BY <1>0, <1>2, <2>1, <2>4 DEF IInv, Applied, busy
    <3>2. QED BY <1>0, <2>2, <2>4, <3>1
  <2>5. QED BY <2>3, <2>4
<1>8. Done'
  <2>1. SUFFICES ASSUME NEW g \in File \ lost, located[g] # {}, covering(pending, g) = {}
                 PROVE  /\ perm'[g] # none
                        /\ g \notin crossed => perm'[g] = asked[g]
                        /\ \A n \in located[g] : <<n, g>> \in missed' \/ mode[n][g] = perm'[g]
    BY <1>0 DEF Done
  <2>2. g # f
    BY <1>1, <2>1 DEF covering, entry
  <2>3. perm'[g] = perm[g] /\ missed \subseteq missed'
    BY <1>0, <2>2, Now
  <2>4. QED BY <2>1, <2>3 DEF IInv, Done
<1>9. QED BY <1>4, <1>5, <1>6, <1>7, <1>8 DEF IInv

LEMMA AttrFailsInv ==
  ASSUME IInv, NEW f \in File, registerAttrFails(f)
  PROVE  IInv'
<1>0. /\ job.step = "attr" /\ f \in job.rest /\ (UNCHANGED events \/ event)
      /\ perm' \in {perm, [perm EXCEPT ![f] = none]} /\ job' = noJob
      /\ UNCHANGED <<located, mode, unusable, pending, pendingpermissions, asked, crossed, lost,
                     missed>>
  BY DEF registerAttrFails, lists, history
<1>1. /\ job.i \in DOMAIN pending /\ f \in covers(entry) /\ pendingpermissions = pending
  BY <1>0 DEF IInv, JobOK, busy
<1>2. perm' \in [File -> Perm \cup {none}] /\ \A g \in File : g # f => perm'[g] = perm[g]
  BY <1>0, Now
<1>3. job' \in Job /\ JobOK' /\ Applied'
  BY <1>0, <1>1, IdleNext
<1>4. TypeOK'
  BY <1>0, <1>2, <1>3, KeptType DEF lists, IInv, TypeOK
<1>5. Agreed' /\ Asked'
  BY <1>0, ListSame
<1>6. Done'
  <2>1. f \notin File \/ covering(pending, f) # {}
    BY <1>1 DEF covering, entry
  <2>2. QED BY <1>0, <1>2, <2>1 DEF IInv, Done
<1>7. QED BY <1>3, <1>4, <1>5, <1>6 DEF IInv

(* A node has the change, or has missed it. *)
LEMMA NodeInv ==
  ASSUME IInv, NEW n \in Node, chmodRemotely(n) \/ chmodFails(n)
  PROVE  IInv'
<1>0. /\ job.step = "chmod" /\ n \in job.todo /\ (UNCHANGED events \/ event)
      /\ job' = [job EXCEPT !.todo = @ \ {n}]
      /\ UNCHANGED <<located, perm, unusable, pending, pendingpermissions, asked, crossed, lost>>
      /\ \/ /\ mode' = [mode EXCEPT ![n][job.lfn] = entry.perm]
            /\ missed' = missed \ {<<n, job.lfn>>}
         \/ /\ mode' \in {mode, [mode EXCEPT ![n][job.lfn] = entry.perm]}
            /\ missed' = missed \cup {<<n, job.lfn>>}
  BY DEF chmodRemotely, chmodFails, lists, history
<1>1. /\ entry \in Entry /\ job.i = Len(pending) /\ job.i \in DOMAIN pending
      /\ job.rest \subseteq covers(entry) /\ job.lfn \in covers(entry) /\ job \in Job
      /\ pendingpermissions = pending
  BY <1>0, Now DEF busy, IInv, JobOK
<1>2. /\ job'.step = "chmod" /\ job'.lfn = job.lfn /\ job'.rest = job.rest
      /\ job'.todo = job.todo \ {n} /\ job'.i = job.i /\ job' \in Job
  BY <1>0, <1>1 DEF Job
<1>3. entry' = entry /\ entry.perm \in Perm /\ job.lfn \in File
  BY <1>0, <1>1, <1>2, EntryFacts DEF entry
<1>4. /\ mode' \in [Node -> [File -> Perm]] /\ missed' \in SUBSET (Node \X File)
      /\ \A m \in Node, g \in File : m # n \/ g # job.lfn =>
           mode'[m][g] = mode[m][g] /\ (<<m, g>> \in missed <=> <<m, g>> \in missed')
      /\ <<n, job.lfn>> \in missed' \/ mode'[n][job.lfn] = entry.perm
  <2> DEFINE l == job.lfn
             p == entry.perm
             new == [mode EXCEPT ![n][l] = p]
  <2>1. mode \in [Node -> [File -> Perm]] /\ missed \in SUBSET (Node \X File)
        /\ l \in File /\ p \in Perm
    BY <1>3, Now
  <2>2. /\ mode' \in {mode, new}
        /\ \/ mode' = new /\ missed' = missed \ {<<n, l>>}
           \/ missed' = missed \cup {<<n, l>>}
    BY <1>0
  <2> HIDE DEF l, p
  <2>3. /\ new \in [Node -> [File -> Perm]] /\ new[n][l] = p
        /\ \A m \in Node, g \in File : m # n \/ g # l => new[m][g] = mode[m][g]
    BY <2>1
  <2> HIDE DEF new
  <2>4. missed' \in SUBSET (Node \X File)
    BY <2>1, <2>2
  <2>5. \A m \in Node, g \in File : m # n \/ g # l => (<<m, g>> \in missed <=> <<m, g>> \in missed')
    BY <2>2
  <2>6. <<n, l>> \in missed' \/ mode'[n][l] = p
    BY <2>2, <2>3
  <2>7. \A m \in Node, g \in File : m # n \/ g # l => mode'[m][g] = mode[m][g]
    BY <2>2, <2>3
  <2>8. mode' \in [Node -> [File -> Perm]]
    BY <2>1, <2>2, <2>3
  <2>9. QED BY <2>4, <2>5, <2>6, <2>7, <2>8 DEF l, p
<1>5. TypeOK'
  BY <1>0, <1>2, <1>4, KeptType DEF lists, IInv, TypeOK
<1>6. JobOK'
  BY <1>0, <1>1, <1>2, <1>3 DEF JobOK, busy
<1>7. Agreed' /\ Asked'
  BY <1>0, ListSame
<1>8. Applied'
  <2>1. SUFFICES ASSUME NEW g \in covers(entry) \ (job.rest \cup lost), located[g] # {}
                 PROVE  /\ perm[g] = entry.perm
                        /\ \A m \in located[g] :
                             \/ <<m, g>> \in missed' \/ mode'[m][g] = entry.perm
                             \/ g = job.lfn /\ m \in job'.todo
    BY <1>0, <1>2, <1>3 DEF Applied
  <2>2. g \in File /\ located[g] \in SUBSET Node
    BY <1>1, Now, EntryFacts
  <2>3. /\ perm[g] = entry.perm
        /\ \A m \in located[g] : \/ <<m, g>> \in missed \/ mode[m][g] = entry.perm
                                 \/ g = job.lfn /\ m \in job.todo
    BY <1>0, <2>1 DEF IInv, Applied, busy
  <2>4. QED BY <1>2, <1>4, <2>2, <2>3
<1>9. Done'
  <2>1. covering(pending, job.lfn) # {}
    BY <1>1 DEF covering, entry
  <2>2. \A g \in File : located[g] \in SUBSET Node
    BY Now
  <2>3. QED BY <1>0, <1>4, <2>1, <2>2 DEF IInv, Done
<1>10. QED BY <1>5, <1>6, <1>7, <1>8, <1>9 DEF IInv

LEMMA LocationsInv ==
  ASSUME IInv, locationsDone
  PROVE  IInv'
<1>0. /\ job.step = "chmod" /\ job.todo = {}
      /\ job' = [job EXCEPT !.step = "attr", !.lfn = none]
      /\ UNCHANGED <<located, perm, mode, unusable, pending, pendingpermissions, asked, crossed,
                     lost, missed, events>>
  BY DEF locationsDone, lists, history
<1>1. /\ job.i = Len(pending) /\ job.i \in DOMAIN pending /\ job.rest \subseteq covers(entry)
      /\ job \in Job /\ pendingpermissions = pending
  BY <1>0, Now DEF busy, IInv, JobOK
<1>2. job'.step = "attr" /\ job'.rest = job.rest /\ job'.i = job.i /\ job' \in Job
  BY <1>0, <1>1 DEF Job
<1>3. entry' = entry
  BY <1>0, <1>2 DEF entry
<1>4. TypeOK'
  BY <1>0, <1>2 DEF IInv, TypeOK
<1>5. JobOK'
  BY <1>0, <1>1, <1>2, <1>3 DEF JobOK, busy
<1>6. Agreed' /\ Asked'
  BY <1>0, ListSame
<1>7. Applied'
  BY <1>0, <1>2, <1>3 DEF IInv, Applied, busy
<1>8. Done'
  BY <1>0 DEF IInv, Done
<1>9. QED BY <1>4, <1>5, <1>6, <1>7, <1>8 DEF IInv

LEMMA AuthoriseInv ==
  ASSUME IInv, authoriseDirectory
  PROVE  IInv'
<1>1. PICK rest \in SUBSET {f \in covers(entry) : located[f] # {}} :
         job' = [job EXCEPT !.rest = rest] /\ lost' = lost \cup (job.rest \ rest)
  BY DEF authoriseDirectory
<1>0. /\ busy /\ event
      /\ UNCHANGED <<located, perm, mode, unusable, pending, pendingpermissions, asked, crossed,
                     missed>>
  BY DEF authoriseDirectory, lists, busy
<1>2. /\ job.i = Len(pending) /\ job.i \in DOMAIN pending /\ entry \in Entry /\ job \in Job
      /\ job.step = "chmod" => job.lfn \in covers(entry)
      /\ pendingpermissions = pending /\ job.rest \subseteq covers(entry)
  BY <1>0, Now DEF busy, IInv, JobOK
<1>3. covers(entry) \subseteq File
  BY <1>2, EntryFacts
<1>4. /\ job'.step = job.step /\ job'.rest = rest /\ job'.i = job.i /\ job'.lfn = job.lfn
      /\ job'.todo = job.todo /\ job' \in Job /\ lost' \in SUBSET File
  <2>1. rest \in SUBSET File
    BY <1>3
  <2>2. lost' \in SUBSET File
    BY <1>1, <1>2, <1>3 DEF IInv, TypeOK
  <2>3. QED BY <1>1, <1>2, <2>1, <2>2 DEF Job
<1>5. entry' = entry
  BY <1>0, <1>4 DEF entry
<1>6. TypeOK'
  BY <1>0, <1>4, KeptType DEF lists, IInv, TypeOK
<1>7. JobOK'
  BY <1>0, <1>2, <1>4, <1>5 DEF JobOK, busy
<1>8. Agreed' /\ Asked'
  BY <1>0, <1>1, ListSame
<1>9. Applied'
  <2>1. \A f : f \notin rest \cup lost' => f \notin job.rest \cup lost
    BY <1>1
  <2>2. QED BY <1>0, <1>4, <1>5, <2>1 DEF IInv, Applied, busy
<1>10. Done'
  BY <1>0, <1>1 DEF IInv, Done
<1>11. QED BY <1>6, <1>7, <1>8, <1>9, <1>10 DEF IInv

(* A change is done: the catalogue has it for every file that it covers.    *)
LEMMA ChangeDoneInv ==
  ASSUME IInv, changeDone
  PROVE  IInv'
<1>0. /\ job.step = "attr" /\ job.rest = {} /\ pending' = removePendingPermissions(job.i)
      /\ pendingpermissions' = <<>> /\ job' = [job EXCEPT !.step = "write"]
      /\ UNCHANGED <<located, perm, mode, unusable, asked, crossed, lost, missed, events>>
  BY DEF changeDone, history, goTo
<1>1. /\ pending \in Seq(Entry) /\ pending # <<>> /\ job.i = Len(pending) /\ entry \in Entry
      /\ job \in Job
  BY <1>0, Now DEF busy
<1>2. pending' = Removed(pending) /\ entry = pending[Len(pending)]
  BY <1>0, <1>1 DEF removePendingPermissions, Removed, entry
<1>3. pending' \in Seq(Entry) /\ Len(pending') = Len(pending) - 1 /\ Len(pending) \in Nat
  BY <1>1, <1>2, RemovalKeeps
<1>4. ASSUME NEW f
      PROVE  /\ Agree(pending, f) => Agree(pending', f)
             /\ covering(pending', f) = {} /\ covering(pending, f) # {} => f \in covers(entry)
             /\ Agree(pending, f) => \A p : NewestIs(pending, f, p) => NewestIs(pending', f, p)
  BY <1>1, <1>2, RemovalKeeps
<1>5. job' \in Job /\ JobOK' /\ Applied'
  BY <1>0, <1>1, <1>3, WriteNext
<1>6. TypeOK'
  BY <1>0, <1>3, <1>5 DEF IInv, TypeOK
<1>7. Agreed'
  BY <1>0, <1>4 DEF IInv, Agreed
<1>8. Asked'
  BY <1>0, <1>4 DEF IInv, Agreed, Asked
<1>9. Done'
  <2>1. SUFFICES ASSUME NEW f \in File \ lost, located[f] # {}, covering(pending', f) = {}
                 PROVE  /\ perm[f] # none
                        /\ f \notin crossed => perm[f] = asked[f]
                        /\ \A m \in located[f] : <<m, f>> \in missed \/ mode[m][f] = perm[f]
    BY <1>0 DEF Done
  <2>2. CASE covering(pending, f) = {}
    BY <2>1, <2>2 DEF IInv, Done
  <2>3. CASE covering(pending, f) # {}
    <3>1. f \in covers(entry) /\ entry.perm # none
      BY <1>1, <1>4, <2>1, <2>3, EntryFacts
    <3>2. /\ perm[f] = entry.perm
          /\ \A m \in located[f] : <<m, f>> \in missed \/ mode[m][f] = entry.perm
      BY <1>0, <2>1, <3>1 DEF IInv, Applied, busy
    <3>3. f \notin crossed => entry.perm = asked[f]
      <4>1. /\ Len(pending) \in covering(pending, f)
            /\ \A j \in covering(pending, f) : j <= Len(pending)
        BY <1>1, <1>2, <1>3, <3>1 DEF covering
      <4>2. f \notin crossed => NewestIs(pending, f, asked[f])
        BY <2>1 DEF IInv, Asked
      <4>3. QED BY <1>2, <4>1, <4>2 DEF NewestIs
    <3>4. QED BY <3>1, <3>2, <3>3
  <2>4. QED BY <2>2, <2>3
<1>10. QED BY <1>5, <1>6, <1>7, <1>8, <1>9 DEF IInv

-----------------------------------------------------------------------------
(* What happens between changes *)

LEMMA BetweenNext ==
  ASSUME IInv, job = noJob, UNCHANGED <<job, pending, pendingpermissions>>
  PROVE  job' \in Job /\ JobOK' /\ Applied'
BY Now, IdleNext

LEMMA UnNewFileInv ==
  ASSUME IInv, NEW f \in File, NEW n \in Node, NEW p \in Perm, unNewFile(f, n, p)
  PROVE  IInv'
<1>0. /\ job = noJob /\ event /\ located[f] = {}
      /\ located' = [located EXCEPT ![f] = {n}]
      /\ perm' = [perm EXCEPT ![f] = p] /\ mode' = [mode EXCEPT ![n][f] = p]
      /\ asked' = [asked EXCEPT ![f] = p]
      /\ crossed' = IF covering(pending, f) # {} THEN crossed \cup {f} ELSE crossed \ {f}
      /\ lost' = lost \ {f} /\ missed' = missed \ {<<m, f>> : m \in Node}
      /\ UNCHANGED <<unusable, pending, pendingpermissions, job>>
  BY NotCovered DEF unNewFile, lists
<1>1. job' \in Job /\ JobOK' /\ Applied'
  BY <1>0, BetweenNext
<1>2. /\ located \in [File -> SUBSET Node] /\ perm \in [File -> Perm \cup {none}]
      /\ mode \in [Node -> [File -> Perm]] /\ asked \in [File -> Perm]
  BY Now
<1>3. /\ located'[f] = {n} /\ perm'[f] = p /\ mode'[n][f] = p /\ asked'[f] = p
      /\ \A g \in File \ {f} : /\ located'[g] = located[g] /\ perm'[g] = perm[g]
                               /\ asked'[g] = asked[g]
                               /\ \A m \in Node : mode'[m][g] = mode[m][g]
  BY <1>0, <1>2
<1>4. /\ \A g \in File \ {f} : g \in lost' <=> g \in lost
      /\ \A g \in File \ {f} : g \in crossed' <=> g \in crossed
      /\ \A g \in File \ {f}, m \in Node : <<m, g>> \in missed' <=> <<m, g>> \in missed
  BY <1>0
<1>5. TypeOK'
  <2>1. /\ located' \in [File -> SUBSET Node] /\ perm' \in [File -> Perm \cup {none}]
        /\ mode' \in [Node -> [File -> Perm]] /\ asked' \in [File -> Perm]
    BY <1>0, <1>2
  <2>2. /\ crossed' \in SUBSET File /\ lost' \in SUBSET File /\ missed' \in SUBSET (Node \X File)
    BY <1>0 DEF IInv, TypeOK
  <2>3. events' \in 0..MaxEvents
    BY <1>0, MaxEventsAssumption DEF IInv, TypeOK, event
  <2>4. QED BY <1>0, <1>1, <2>1, <2>2, <2>3 DEF IInv, TypeOK
<1>6. Agreed'
  <2>1. SUFFICES ASSUME NEW g \in File \ crossed' PROVE Agree(pending, g)
    BY <1>0 DEF Agreed
  <2>2. CASE g = f
    <3>1. covering(pending, f) = {}
      BY <1>0, <2>1, <2>2
    <3>2. QED BY <2>2, <3>1 DEF Agree
  <2>3. QED BY <1>4, <2>1, <2>2 DEF IInv, Agreed
<1>7. Asked'
  <2>1. SUFFICES ASSUME NEW g \in File \ (crossed' \cup lost'), located'[g] # {}
                 PROVE  NewestIs(pending, g, asked'[g])
    BY <1>0 DEF Asked
  <2>2. CASE g = f
    <3>1. covering(pending, f) = {}
      BY <1>0, <2>1, <2>2
    <3>2. QED BY <2>2, <3>1 DEF NewestIs
  <2>3. QED BY <1>3, <1>4, <2>1, <2>2 DEF IInv, Asked
<1>8. Done'
  <2>1. SUFFICES ASSUME NEW g \in File \ lost', located'[g] # {}, covering(pending, g) = {}
                 PROVE  /\ perm'[g] # none
                        /\ g \notin crossed' => perm'[g] = asked'[g]
                        /\ \A m \in located'[g] : <<m, g>> \in missed' \/ mode'[m][g] = perm'[g]
    BY <1>0 DEF Done
  <2>2. CASE g = f
    BY <1>3, <2>2, PermAssumption
  <2>3. CASE g # f
    <3>1. g \in File \ lost /\ located[g] # {} /\ located[g] \in SUBSET Node
      BY <1>2, <1>3, <1>4, <2>1, <2>3
    <3>2. /\ perm[g] # none
          /\ g \notin crossed => perm[g] = asked[g]
          /\ \A m \in located[g] : <<m, g>> \in missed \/ mode[m][g] = perm[g]
      BY <2>1, <3>1 DEF IInv, Done
    <3>3. QED BY <1>3, <1>4, <2>1, <2>3, <3>1, <3>2
  <2>4. QED BY <2>2, <2>3
<1>9. QED BY <1>1, <1>5, <1>6, <1>7, <1>8 DEF IInv

LEMMA PutDoneInv ==
  ASSUME IInv, NEW f \in File, NEW n \in Node, putDone(f, n)
  PROVE  IInv'
<1>0. /\ job = noJob /\ located[f] # {} /\ (UNCHANGED events \/ event)
      /\ located' = [located EXCEPT ![f] = @ \cup {n}]
      /\ \/ mode' = [mode EXCEPT ![n][f] = permissionsOf(f)] /\ UNCHANGED missed
         \/ mode' = [mode EXCEPT ![n][f] = private] /\ missed' = missed \cup {<<n, f>>}
      /\ UNCHANGED <<perm, unusable, pending, pendingpermissions, job, asked, crossed, lost>>
  BY DEF putDone, lists, history
<1>1. job' \in Job /\ JobOK' /\ Applied'
  BY <1>0, BetweenNext
<1>2. /\ located \in [File -> SUBSET Node] /\ perm \in [File -> Perm \cup {none}]
      /\ mode \in [Node -> [File -> Perm]]
      /\ permissionsOf(f) \in Perm /\ (perm[f] # none => permissionsOf(f) = perm[f])
  BY Now, PermAssumption DEF permissionsOf
<1>3. /\ located' \in [File -> SUBSET Node] /\ mode' \in [Node -> [File -> Perm]]
      /\ located'[f] = located[f] \cup {n}
      /\ \A g \in File \ {f} : located'[g] = located[g]
      /\ \A m \in Node, g \in File : m # n \/ g # f => mode'[m][g] = mode[m][g]
  BY <1>0, <1>2, PermAssumption
<1>4. missed \subseteq missed' /\ (<<n, f>> \in missed' \/ mode'[n][f] = permissionsOf(f))
  BY <1>0, <1>2
<1>5. TypeOK'
  <2>1. events' \in 0..MaxEvents
    BY <1>0, MaxEventsAssumption DEF IInv, TypeOK, event
  <2>2. missed' \in SUBSET (Node \X File)
    BY <1>0, Now
  <2>3. QED BY <1>0, <1>1, <1>3, <2>1, <2>2 DEF IInv, TypeOK
<1>6. Agreed' /\ Asked'
  BY <1>0, <1>3, ListSame
<1>7. Done'
  <2>1. SUFFICES ASSUME NEW g \in File \ lost, located'[g] # {}, covering(pending, g) = {}
                 PROVE  /\ perm[g] # none
                        /\ g \notin crossed => perm[g] = asked[g]
                        /\ \A m \in located'[g] : <<m, g>> \in missed' \/ mode'[m][g] = perm[g]
    BY <1>0 DEF Done
  <2>2. located[g] # {}
    BY <1>0, <1>3, <2>1
  <2>3. /\ perm[g] # none
        /\ g \notin crossed => perm[g] = asked[g]
        /\ \A m \in located[g] : <<m, g>> \in missed \/ mode[m][g] = perm[g]
    BY <2>1, <2>2 DEF IInv, Done
  <2>4. \A m \in located'[g] : <<m, g>> \in missed' \/ mode'[m][g] = perm[g]
    <3>1. SUFFICES ASSUME NEW m \in located'[g]
                   PROVE  <<m, g>> \in missed' \/ mode'[m][g] = perm[g]
      OBVIOUS
    <3>2. CASE g = f /\ m = n
      BY <1>2, <1>4, <2>3, <3>2
    <3>3. CASE g # f \/ m # n
      <4>1. m \in Node /\ m \in located[g]
        BY <1>2, <1>3, <3>1, <3>3
      <4>2. mode'[m][g] = mode[m][g]
        BY <1>3, <3>3, <4>1
      <4>3. QED BY <1>4, <2>3, <4>1, <4>2
    <3>4. QED BY <3>2, <3>3
  <2>5. QED BY <2>3, <2>4
<1>8. QED BY <1>1, <1>5, <1>6, <1>7 DEF IInv

LEMMA DeleteInv ==
  ASSUME IInv, NEW f \in File, deleteLogicalFile(f)
  PROVE  IInv'
<1>0. /\ job = noJob /\ event
      /\ located' = [located EXCEPT ![f] = {}]
      /\ perm' \in {perm, [perm EXCEPT ![f] = none]}
      /\ missed' = missed \ {<<m, f>> : m \in Node}
      /\ UNCHANGED <<mode, unusable, pending, pendingpermissions, job, asked, crossed, lost>>
  BY DEF deleteLogicalFile, lists, history
<1>1. job' \in Job /\ JobOK' /\ Applied'
  BY <1>0, BetweenNext
<1>2. located \in [File -> SUBSET Node] /\ perm \in [File -> Perm \cup {none}]
  BY Now
<1>3. /\ located' \in [File -> SUBSET Node] /\ perm' \in [File -> Perm \cup {none}]
      /\ located'[f] = {}
      /\ \A g \in File \ {f} : located'[g] = located[g] /\ perm'[g] = perm[g]
      /\ \A g \in File \ {f}, m \in Node : <<m, g>> \in missed' <=> <<m, g>> \in missed
  BY <1>0, <1>2
<1>4. TypeOK'
  <2>1. events' \in 0..MaxEvents
    BY <1>0, MaxEventsAssumption DEF IInv, TypeOK, event
  <2>2. missed' \in SUBSET (Node \X File)
    BY <1>0, Now
  <2>3. QED BY <1>0, <1>1, <1>3, <2>1, <2>2 DEF IInv, TypeOK
<1>5. Agreed' /\ Asked'
  BY <1>0, <1>3, ListSame
<1>6. Done'
  <2>1. SUFFICES ASSUME NEW g \in File \ lost, located'[g] # {}, covering(pending, g) = {}
                 PROVE  /\ perm'[g] # none
                        /\ g \notin crossed => perm'[g] = asked[g]
                        /\ \A m \in located'[g] : <<m, g>> \in missed' \/ mode[m][g] = perm'[g]
    BY <1>0 DEF Done
  <2>2. g # f /\ located[g] # {} /\ located[g] \in SUBSET Node
    BY <1>2, <1>3, <2>1
  <2>3. /\ perm[g] # none
        /\ g \notin crossed => perm[g] = asked[g]
        /\ \A m \in located[g] : <<m, g>> \in missed \/ mode[m][g] = perm[g]
    BY <2>1, <2>2 DEF IInv, Done
  <2>4. QED BY <1>3, <2>1, <2>2, <2>3
<1>7. QED BY <1>1, <1>4, <1>5, <1>6 DEF IInv

LEMMA StatusInv ==
  ASSUME IInv, NEW n \in Node, setStatus(n)
  PROVE  IInv'
<1>0. /\ job = noJob /\ event
      /\ unusable' = IF n \in unusable THEN unusable \ {n} ELSE unusable \cup {n}
      /\ UNCHANGED <<located, perm, mode, pending, pendingpermissions, job, asked, crossed, lost,
                     missed>>
  BY DEF setStatus, lists, history
<1>1. job' \in Job /\ JobOK' /\ Applied'
  BY <1>0, BetweenNext
<1>2. TypeOK'
  <2>1. events' \in 0..MaxEvents
    BY <1>0, MaxEventsAssumption DEF IInv, TypeOK, event
  <2>2. unusable' \in SUBSET Node
    BY <1>0 DEF IInv, TypeOK
  <2>3. QED BY <1>0, <1>1, <2>1, <2>2 DEF IInv, TypeOK
<1>3. Agreed' /\ Asked'
  BY <1>0, ListSame
<1>4. Done'
  BY <1>0 DEF IInv, Done
<1>5. QED BY <1>1, <1>2, <1>3, <1>4 DEF IInv

(* The list that is read is the one in memory, or empty. *)
LEMMA RestartInv ==
  ASSUME IInv, restart
  PROVE  IInv'
<1>0. /\ event /\ pending' = pendingpermissions /\ job' = noJob
      /\ lost' = IF job.step = "write"
                 THEN lost \cup UNION {covers(pending[i]) : i \in DOMAIN pending} ELSE lost
      /\ UNCHANGED <<located, perm, mode, unusable, pendingpermissions, asked, crossed, missed>>
  BY DEF restart
<1>1. job' \in Job /\ JobOK' /\ Applied'
  BY <1>0, IdleNext
<1>2. /\ pending' = pending /\ lost' = lost
      \/ /\ pending' = <<>> /\ lost \subseteq lost'
         /\ \A f : f \notin lost' => covering(pending, f) = {}
  BY <1>0 DEF IInv, JobOK, covering
<1>3. TypeOK'
  <2>1. events' \in 0..MaxEvents
    BY <1>0, MaxEventsAssumption DEF IInv, TypeOK, event
  <2>2. lost' \in SUBSET File
    <3>1. \A i \in DOMAIN pending : covers(pending[i]) \subseteq File
      BY Now, EntryFacts
    <3>2. QED BY <1>0, <3>1 DEF IInv, TypeOK
  <2>3. QED BY <1>0, <1>1, <2>1, <2>2 DEF IInv, TypeOK
<1>4. \A f : pending' = <<>> => covering(pending', f) = {}
  BY DEF covering
<1>5. Agreed'
  BY <1>0, <1>2, <1>4 DEF IInv, Agreed, Agree
<1>6. Asked'
  BY <1>0, <1>2, <1>4 DEF IInv, Asked, NewestIs
<1>7. Done'
  BY <1>0, <1>2 DEF IInv, Done
<1>8. QED BY <1>1, <1>3, <1>5, <1>6, <1>7 DEF IInv

LEMMA StepInv ==
  ASSUME IInv, [Next]_vars
  PROVE  IInv'
<1>1. CASE UNCHANGED vars
  <2>1. /\ UNCHANGED <<located, perm, mode, unusable, pending, pendingpermissions, job>>
        /\ UNCHANGED <<asked, crossed, lost, missed, events>>
    BY <1>1 DEF vars, lists, history
  <2>2. TypeOK'
    BY <2>1 DEF IInv, TypeOK
  <2>3. JobOK' /\ Applied'
    BY <2>1 DEF IInv, JobOK, Applied, busy, entry
  <2>4. Agreed' /\ Asked'
    BY <2>1, ListSame
  <2>5. Done'
    BY <2>1 DEF IInv, Done
  <2>6. QED BY <2>2, <2>3, <2>4, <2>5 DEF IInv
<1>2. CASE MainThread
  BY <1>2, SaveInv, AttrInv, AttrFailsInv, NodeInv, LocationsInv, ChangeDoneInv DEF MainThread
<1>3. CASE Others
  BY <1>3, ChmodInv, AuthoriseInv, UnNewFileInv, PutDoneInv, DeleteInv, StatusInv DEF Others
<1>4. CASE restart
  BY <1>4, RestartInv
<1>5. QED BY <1>1, <1>2, <1>3, <1>4 DEF Next

LEMMA Invariance == Spec => []IInv
<1>1. Init => IInv
  BY InitInv
<1>2. IInv /\ [Next]_vars => IInv'
  BY StepInv
<1>3. QED BY <1>1, <1>2, PTL DEF Spec

(* Every variable has its type, in every reachable state. *)
THEOREM TypeCorrect == Spec => []TypeOK
<1>1. IInv => TypeOK
  BY DEF IInv
<1>2. QED BY <1>1, Invariance, PTL

(* handlePermissionsChanges leaves the catalogue with the permissions last  *)
(* asked for, whichever entries removePendingPermissions takes and wherever *)
(* it is interrupted, for changes by one name that were not lost.           *)
THEOREM CatalogueFollows == Spec => []LastChangeWins
<1>1. IInv => LastChangeWins
  BY NotCovered DEF IInv, Done, LastChangeWins
<1>2. QED BY <1>1, Invariance, PTL

(* Every replica that could be reached has the permissions of the           *)
(* catalogue, whether it was there before the change or copied since.       *)
THEOREM NodesFollow == Spec => []ReplicasFollow
<1>1. IInv => ReplicasFollow
  <2>1. SUFFICES ASSUME IInv, NEW f \in File \ lost, NEW n \in Node, n \in located[f],
                        <<n, f>> \notin missed, ~covered(f)
                 PROVE  mode[n][f] = perm[f]
    BY DEF ReplicasFollow
  <2>2. covering(pending, f) = {}
    BY <2>1, NotCovered
  <2>3. QED BY <2>1, <2>2 DEF IInv, Done
<1>2. QED BY <1>1, Invariance, PTL
===============================================================================
