---------------------------- MODULE AddFile_proofs ----------------------------
(***************************************************************************)
(* Adding files, for any nodes, files, versions, failures and crashes:      *)
(* nothing that was announced is stranded, nothing that was deleted comes   *)
(* back, and the catalogue tells what is stored.                            *)
(***************************************************************************)
EXTENDS AddFile, SequenceTheorems, FiniteSetTheorems, WellFoundedInduction, TLAPS

(* The versions of f that a list of announcements names; f is there once.   *)
vers(q, f) == {q[i].ver : i \in {j \in DOMAIN q : q[j].lfn = f}}
once(q, f) == \A i, j \in DOMAIN q : q[i].lfn = f /\ q[j].lfn = f => i = j

adding == job.step \in {"rm", "chmod", "attrs", "open"}
inHand(f) == adding /\ job.lfn = f

(* What the main thread goes by. *)
JobOK ==
  /\ pendingadds = IF job.step = "write" THEN <<>> ELSE adds
  /\ \A f \in job.rest : inbox[job.node][f] # none
  /\ job.rest # {} => job.node \in Node
  /\ adding => /\ job.node \in Node /\ job.lfn \in File \ job.rest
               /\ vers(adds, job.lfn) # {}
               /\ location[job.lfn] = IF job.step \in {"rm", "chmod"} THEN none ELSE job.node

empty(f) == \A n \in Node : inbox[n][f] = none

(* Of f, which is not put while an earlier put is not over, at most one     *)
(* client, message or announcement is there.                               *)
OneAtATime(f) ==
  /\ once(adds, f) /\ once(queue, f)
  /\ vers(queue, f) # {} => vers(adds, f) = {}
  /\ \A c \in clients : c.lfn = f =>
       /\ vers(queue, f) = {} /\ vers(adds, f) = {} /\ location[f] = none
       /\ \A d \in clients : d.lfn = f => d = c
       /\ c.node # none => c.rest = {} /\ inbox[c.node][f] # none

(* Unless a copy that failed was renamed later, f itself is in one place    *)
(* too; though its announcement may outlive it if the process dies.         *)
InOnePlace(f) ==
  /\ vers(queue, f) # {} => asked[f] # {}
  /\ \A c \in clients : c.lfn = f /\ c.node = none => empty(f)
  /\ \A m, n \in Node : inbox[m][f] # none /\ inbox[n][f] # none => m = n
  /\ location[f] # none => empty(f) /\ vers(queue, f) = {} /\ asked[f] # {}
  /\ ~empty(f) => asked[f] # {} \/ \E c \in clients : c.lfn = f
  /\ inHand(f) => /\ asked[f] # {}
                  /\ job.step # "rm" => empty(f)
                  /\ job.step = "rm" => inbox[job.node][f] # none

Placed(f) == /\ f \notin twice => OneAtATime(f)
             /\ f \notin twice \cup doubled => InOnePlace(f)

(* What was announced is still announced, and is there. *)
Kept(f) ==
  asked[f] # {} /\ location[f] = none =>
     /\ vers(adds, f) # {} \/ vers(queue, f) # {}
     /\ ~empty(f) \/ (job.step = "chmod" /\ job.lfn = f)

(* All that is on its way of f is one version. *)
OneVersion(f) ==
  \E v :
    /\ vers(adds, f) \subseteq {v} /\ vers(queue, f) \subseteq {v}
    /\ \A c \in clients \cup late : c.lfn = f => c.ver = v
    /\ \A n \in Node : inbox[n][f] \in {v, none}
    /\ inHand(f) => stored[job.node][f] = v

(* The catalogue tells what is stored. *)
Told(f) ==
  location[f] # none /\ ~(job.step = "attrs" /\ job.lfn = f) =>
     attrs[f] # none /\ stored[location[f]][f] = attrs[f]

FileOK(f) == /\ Placed(f)
             /\ f \notin lost \cup twice => Kept(f)
             /\ f \notin mixed => OneVersion(f)
             /\ f \notin lost \cup mixed => Told(f)

IInv == TypeOK /\ JobOK /\ \A f \in File : FileOK(f)

-----------------------------------------------------------------------------
(* Lists *)

(* What RemoveAt makes of a sequence. *)
LEMMA RemoveAtFacts ==
  ASSUME NEW S, NEW q \in Seq(S), NEW p \in 1..Len(q)
  PROVE  /\ RemoveAt(q, p) \in Seq(S)
         /\ Len(RemoveAt(q, p)) = Len(q) - 1
         /\ DOMAIN RemoveAt(q, p) = 1..(Len(q) - 1)
         /\ \A i \in 1..(Len(q) - 1) :
              RemoveAt(q, p)[i] = IF i < p THEN q[i] ELSE q[i + 1]
<1> DEFINE l == SubSeq(q, 1, p - 1)
           r == SubSeq(q, p + 1, Len(q))
<1>1. /\ l \in Seq(S) /\ Len(l) = p - 1
      /\ \A i \in 1..(p - 1) : l[i] = q[i]
  OBVIOUS
<1>2. /\ r \in Seq(S) /\ Len(r) = Len(q) - p
      /\ \A i \in 1..(Len(q) - p) : r[i] = q[p + i]
  OBVIOUS
<1>3. RemoveAt(q, p) = l \o r
  BY DEF RemoveAt
<1> HIDE DEF l, r
<1>4. /\ l \o r \in Seq(S)
      /\ Len(l \o r) = Len(l) + Len(r)
      /\ \A i \in 1..(Len(l) + Len(r)) :
           (l \o r)[i] = IF i <= Len(l) THEN l[i] ELSE r[i - Len(l)]
  BY <1>1, <1>2, ConcatProperties
<1>5. Len(l \o r) = Len(q) - 1 /\ DOMAIN (l \o r) = 1..(Len(q) - 1)
  BY <1>1, <1>2, <1>4
<1>6. ASSUME NEW i \in 1..(Len(q) - 1)
      PROVE  (l \o r)[i] = IF i < p THEN q[i] ELSE q[i + 1]
  <2>1. (l \o r)[i] = IF i <= Len(l) THEN l[i] ELSE r[i - Len(l)]
    BY <1>1, <1>2, <1>4
  <2>2. CASE i < p
    BY <1>1, <2>1, <2>2
  <2>3. CASE ~(i < p)
    <3>1. i - (p - 1) \in 1..(Len(q) - p) /\ p + (i - (p - 1)) = i + 1
      BY <2>3
    <3>2. (l \o r)[i] = r[i - (p - 1)]
      BY <1>1, <2>1, <2>3
    <3>3. QED BY <1>2, <2>3, <3>1, <3>2
  <2>4. QED BY <2>2, <2>3
<1>7. QED
  BY <1>3, <1>4, <1>5, <1>6

(* What is left of a sequence was in it, and all but what was removed is     *)
(* left.                                                                   *)
LEMMA RemoveAtKeeps ==
  ASSUME NEW S, NEW q \in Seq(S), NEW p \in DOMAIN q
  PROVE  /\ \A i \in DOMAIN RemoveAt(q, p) : \E j \in DOMAIN q : RemoveAt(q, p)[i] = q[j]
         /\ \A j \in DOMAIN q \ {p} : \E i \in DOMAIN RemoveAt(q, p) : RemoveAt(q, p)[i] = q[j]
<1> DEFINE r == RemoveAt(q, p)
<1>1. /\ DOMAIN q = 1..Len(q) /\ DOMAIN r = 1..(Len(q) - 1)
      /\ \A i \in 1..(Len(q) - 1) : r[i] = IF i < p THEN q[i] ELSE q[i + 1]
  BY RemoveAtFacts
<1> HIDE DEF r
<1>2. ASSUME NEW j \in DOMAIN q \ {p}
      PROVE  \E i \in DOMAIN r : r[i] = q[j]
  <2>1. CASE j < p
    <3>1. j \in DOMAIN r /\ r[j] = q[j]
      BY <1>1, <2>1
    <3>2. QED BY <3>1
  <2>2. CASE ~(j < p)
    <3>1. j - 1 \in DOMAIN r /\ ~(j - 1 < p) /\ j - 1 + 1 = j
      BY <1>1, <2>2
    <3>2. QED BY <1>1, <3>1
  <2>3. QED BY <2>1, <2>2
<1>3. QED BY <1>1, <1>2 DEF r

(* A non-empty set of naturals has a least element: the intervals 0..x are  *)
(* well founded under inclusion.                                           *)
LEMMA LeastNat ==
  ASSUME NEW T \in SUBSET Nat, T # {}
  PROVE  \E x \in T : \A y \in T : x <= y
<1> DEFINE F == {0..x : x \in T}
<1>1. F \subseteq FiniteSubsetsOf(Nat) /\ F # {}
  <2>1. \A x \in T : 0..x \in SUBSET Nat /\ IsFiniteSet(0..x)
    BY FS_Interval
  <2>2. QED BY <2>1 DEF FiniteSubsetsOf
<1> HIDE DEF F
<1>2. PICK I \in F : \A J \in F : <<J, I>> \notin StrictSubsetOrdering(Nat)
  BY <1>1, FS_StrictSubsetOrderingWellFounded, WFMin
<1>3. PICK x \in T : I = 0..x
  BY DEF F
<1>4. ASSUME NEW y \in T, y < x PROVE FALSE
  <2>1. 0..y \in F /\ 0..x \in SUBSET Nat /\ 0..y \subseteq 0..x /\ x \in 0..x /\ x \notin 0..y
    BY <1>4 DEF F
  <2>2. <<0..y, 0..x>> \in StrictSubsetOrdering(Nat)
    BY <2>1 DEF StrictSubsetOrdering
  <2>3. QED BY <1>2, <1>3, <2>1, <2>2
<1>5. QED BY <1>4

-----------------------------------------------------------------------------
(* The lists *)

LEMMA AppendVers ==
  ASSUME NEW q \in Seq(Put), NEW e \in Put, NEW f
  PROVE  LET r == Append(q, e) IN
         /\ r \in Seq(Put)
         /\ vers(r, f) = vers(q, f) \cup (IF e.lfn = f THEN {e.ver} ELSE {})
         /\ once(q, f) /\ (e.lfn = f => vers(q, f) = {}) => once(r, f)
<1> DEFINE r == Append(q, e)
<1>1. /\ r \in Seq(Put) /\ DOMAIN r = 1..(Len(q) + 1) /\ DOMAIN q = 1..Len(q)
      /\ \A i \in 1..Len(q) : r[i] = q[i]
      /\ r[Len(q) + 1] = e /\ Len(q) \in Nat
  OBVIOUS
<1> HIDE DEF r
<1>2. vers(r, f) = vers(q, f) \cup (IF e.lfn = f THEN {e.ver} ELSE {})
  BY <1>1 DEF vers
<1>3. ASSUME once(q, f), e.lfn = f => vers(q, f) = {} PROVE once(r, f)
  <2>1. SUFFICES ASSUME NEW i \in 1..(Len(q) + 1), NEW j \in 1..(Len(q) + 1),
                        r[i].lfn = f, r[j].lfn = f
                 PROVE  i = j
    BY <1>1 DEF once
  <2>2. CASE e.lfn = f
    <3>1. \A k \in 1..Len(q) : q[k].lfn # f
      BY <1>1, <1>3, <2>2 DEF vers
    <3>2. QED BY <1>1, <2>1, <3>1
  <2>3. CASE e.lfn # f
    BY <1>1, <1>3, <2>1, <2>3 DEF once
  <2>4. QED BY <2>2, <2>3
<1>4. QED BY <1>1, <1>2, <1>3 DEF r

LEMMA TailVers ==
  ASSUME NEW q \in Seq(Put), q # <<>>, NEW f
  PROVE  /\ Tail(q) \in Seq(Put) /\ Head(q) \in Put
         /\ vers(q, f) = vers(Tail(q), f) \cup (IF Head(q).lfn = f THEN {Head(q).ver} ELSE {})
         /\ once(q, f) => /\ once(Tail(q), f)
                          /\ Head(q).lfn = f => vers(Tail(q), f) = {}
<1> DEFINE r == Tail(q)
           n == Len(q)
<1>1. /\ r \in Seq(Put) /\ DOMAIN r = 1..(n - 1) /\ DOMAIN q = 1..n
      /\ n \in Nat /\ 1 <= n
      /\ \A i \in 1..(n - 1) : r[i] = q[i + 1]
      /\ Head(q) = q[1] /\ Head(q) \in Put
  OBVIOUS
<1> HIDE DEF r, n
<1>2. vers(q, f) = vers(r, f) \cup (IF q[1].lfn = f THEN {q[1].ver} ELSE {})
  <2>1. ASSUME NEW i \in 1..n, i # 1 PROVE i - 1 \in 1..(n - 1) /\ r[i - 1] = q[i]
    BY <1>1, <2>1
  <2>2. ASSUME NEW i \in 1..(n - 1) PROVE i + 1 \in 1..n /\ r[i] = q[i + 1]
    BY <1>1
  <2>3. 1 \in 1..n
    BY <1>1
  <2>4. ASSUME NEW x \in vers(q, f)
        PROVE  x \in vers(r, f) \cup (IF q[1].lfn = f THEN {q[1].ver} ELSE {})
    <3>1. PICK i \in 1..n : q[i].lfn = f /\ x = q[i].ver
      BY <1>1 DEF vers
    <3>2. CASE i = 1
      BY <3>1, <3>2
    <3>3. CASE i # 1
      <4>1. i - 1 \in DOMAIN r /\ r[i - 1] = q[i]
        BY <1>1, <2>1, <3>3
      <4>2. QED BY <3>1, <4>1 DEF vers
    <3>4. QED BY <3>2, <3>3
  <2>5. ASSUME NEW x \in vers(r, f) PROVE x \in vers(q, f)
    <3>1. PICK i \in 1..(n - 1) : r[i].lfn = f /\ x = r[i].ver
      BY <1>1 DEF vers
    <3>2. i + 1 \in DOMAIN q /\ q[i + 1].lfn = f /\ x = q[i + 1].ver
      BY <1>1, <2>2, <3>1
    <3>3. QED BY <3>2 DEF vers
  <2>6. q[1].lfn = f => q[1].ver \in vers(q, f)
    BY <1>1, <2>3 DEF vers
  <2>7. QED BY <2>4, <2>5, <2>6
<1>3. ASSUME once(q, f) PROVE once(r, f)
  <2>1. SUFFICES ASSUME NEW i \in 1..(n - 1), NEW j \in 1..(n - 1), r[i].lfn = f, r[j].lfn = f
                 PROVE  i = j
    BY <1>1 DEF once
  <2>2. /\ i + 1 \in DOMAIN q /\ j + 1 \in DOMAIN q
        /\ q[i + 1].lfn = f /\ q[j + 1].lfn = f
    BY <1>1, <2>1
  <2>3. i + 1 = j + 1
    BY <1>3, <2>2 DEF once
  <2>4. QED BY <2>3
<1>4. ASSUME once(q, f), q[1].lfn = f PROVE vers(r, f) = {}
  <2>1. ASSUME NEW i \in 1..(n - 1), r[i].lfn = f PROVE FALSE
    <3>1. i + 1 \in DOMAIN q /\ 1 \in DOMAIN q /\ q[i + 1].lfn = f /\ i + 1 # 1
      BY <1>1, <2>1
    <3>2. QED BY <1>4, <3>1 DEF once
  <2>2. QED BY <1>1, <2>1 DEF vers
<1>5. QED BY <1>1, <1>2, <1>3, <1>4 DEF r

LEMMA PutFacts ==
  ASSUME NEW q \in Seq(Put), NEW i \in DOMAIN q
  PROVE  q[i].lfn \in File /\ q[i].ver \in Version
<1>1. q[i] \in Put
  OBVIOUS
<1>2. QED BY <1>1 DEF Put

LEMMA EntriesVers ==
  ASSUME NEW f
  PROVE  isInPendingAddsList(f) <=> vers(adds, f) # {}
BY DEF isInPendingAddsList, entriesOf, vers

(* The entry that is taken for f names f. *)
LEMMA FirstFacts ==
  ASSUME adds \in Seq(Put), NEW f, vers(adds, f) # {}
  PROVE  /\ first(f) \in 1..Len(adds) /\ adds[first(f)].lfn = f
         /\ getPendingAdd(f) \in vers(adds, f)
<1>1. entriesOf(f) # {} /\ entriesOf(f) \subseteq Nat
  BY DEF vers, entriesOf
<1>2. \E i \in entriesOf(f) : \A j \in entriesOf(f) : i <= j
  BY <1>1, LeastNat
<1>3. first(f) \in entriesOf(f)
  BY <1>2 DEF first
<1>4. QED BY <1>3 DEF entriesOf, vers, getPendingAdd

(* Its removal leaves the other files alone. *)
LEMMA RemoveVers ==
  ASSUME NEW q \in Seq(Put), NEW k \in 1..Len(q), NEW f
  PROVE  LET r == RemoveAt(q, k) IN
         /\ r \in Seq(Put)
         /\ vers(r, f) \subseteq vers(q, f)
         /\ q[k].lfn # f => vers(r, f) = vers(q, f)
         /\ once(q, f) => once(r, f)
<1> DEFINE r == RemoveAt(q, k)
           n == Len(q)
<1>1. /\ r \in Seq(Put) /\ DOMAIN r = 1..(n - 1) /\ DOMAIN q = 1..n /\ n \in Nat
      /\ \A i \in 1..(n - 1) : r[i] = IF i < k THEN q[i] ELSE q[i + 1]
  BY RemoveAtFacts
<1> k \in DOMAIN q
  OBVIOUS
<1> HIDE DEF r, n
<1>2. ASSUME NEW i \in DOMAIN r PROVE \E j \in DOMAIN q : r[i] = q[j]
  BY RemoveAtKeeps DEF r
<1>3. ASSUME NEW j \in DOMAIN q, j # k PROVE \E i \in DOMAIN r : r[i] = q[j]
  BY <1>3, RemoveAtKeeps DEF r
<1>4. vers(r, f) \subseteq vers(q, f)
  BY <1>2 DEF vers
<1>5. ASSUME q[k].lfn # f PROVE vers(q, f) \subseteq vers(r, f)
  BY <1>3, <1>5 DEF vers
<1>6. ASSUME once(q, f) PROVE once(r, f)
  <2>1. SUFFICES ASSUME NEW i \in 1..(n - 1), NEW j \in 1..(n - 1), r[i].lfn = f, r[j].lfn = f
                 PROVE  i = j
    BY <1>1 DEF once
  <2> DEFINE old(x) == IF x < k THEN x ELSE x + 1
  <2>2. /\ old(i) \in DOMAIN q /\ r[i] = q[old(i)]
        /\ old(j) \in DOMAIN q /\ r[j] = q[old(j)]
    BY <1>1
  <2>3. old(i) = old(j) => i = j
    BY <1>1
  <2> HIDE DEF old
  <2>4. QED BY <1>6, <2>1, <2>2, <2>3 DEF once
<1>7. QED BY <1>1, <1>4, <1>5, <1>6 DEF r

-----------------------------------------------------------------------------
(* What a step leaves alone *)

(* The step does not concern f. *)
Same(f) ==
  /\ vers(adds', f) = vers(adds, f) /\ (once(adds, f) => once(adds', f))
  /\ vers(queue', f) = vers(queue, f) /\ (once(queue, f) => once(queue', f))
  /\ \A c : c.lfn = f => /\ c \in clients' <=> c \in clients
                         /\ c \in late' => c \in late
  /\ \A n \in Node : inbox'[n][f] = inbox[n][f] /\ stored'[n][f] = stored[n][f]
  /\ location'[f] = location[f] /\ attrs'[f] = attrs[f] /\ asked'[f] = asked[f]
  /\ f \in twice <=> f \in twice'
  /\ f \in mixed <=> f \in mixed'
  /\ f \in doubled => f \in doubled'
  /\ f \in lost => f \in lost'
  /\ inHand(f)' <=> inHand(f)
  /\ inHand(f) => job'.step = job.step /\ job'.node = job.node

LEMMA SameFile ==
  ASSUME IInv, NEW f \in File, Same(f)
  PROVE  FileOK(f)'
<1>1. FileOK(f)
  BY DEF IInv
<1>2. empty(f)' <=> empty(f)
  BY DEF Same, empty
<1>3. \A s \in {"rm", "chmod", "attrs", "open"} :
         job'.step = s /\ job'.lfn = f <=> job.step = s /\ job.lfn = f
  BY DEF Same, inHand, adding
<1>4. f \notin twice' => OneAtATime(f)'
  <2>1. SUFFICES ASSUME f \notin twice' PROVE OneAtATime(f)'
    OBVIOUS
  <2>2. OneAtATime(f)
    BY <1>1, <2>1 DEF FileOK, Placed, Same
  <2>3. /\ once(adds', f) /\ once(queue', f)
        /\ vers(queue', f) # {} => vers(adds', f) = {}
    BY <2>2 DEF OneAtATime, Same
  <2>4. \A c \in clients' : c.lfn = f =>
          /\ vers(queue', f) = {} /\ vers(adds', f) = {} /\ location'[f] = none
          /\ \A d \in clients' : d.lfn = f => d = c
          /\ c.node # none => c.rest = {} /\ inbox'[c.node][f] # none
    <3>1. SUFFICES ASSUME NEW c \in clients', c.lfn = f
                   PROVE  /\ vers(queue', f) = {} /\ vers(adds', f) = {} /\ location'[f] = none
                          /\ \A d \in clients' : d.lfn = f => d = c
                          /\ c.node # none => c.rest = {} /\ inbox'[c.node][f] # none
      OBVIOUS
    <3>2. c \in clients /\ c.node \in Node \cup {none}
      BY <3>1 DEF Same, IInv, TypeOK, Client
    <3>3. QED BY <2>2, <3>1, <3>2 DEF OneAtATime, Same
  <2>5. QED BY <2>3, <2>4 DEF OneAtATime
<1>5. f \notin twice' \cup doubled' => InOnePlace(f)'
  <2>1. SUFFICES ASSUME f \notin twice' \cup doubled' PROVE InOnePlace(f)'
    OBVIOUS
  <2>2. InOnePlace(f)
    BY <1>1, <2>1 DEF FileOK, Placed, Same
  <2>3. inHand(f) => job.node \in Node
    BY DEF IInv, JobOK, inHand
  <2>4. /\ vers(queue', f) # {} => asked'[f] # {}
        /\ \A c \in clients' : c.lfn = f /\ c.node = none => empty(f)'
        /\ \A m, n \in Node : inbox'[m][f] # none /\ inbox'[n][f] # none => m = n
        /\ location'[f] # none => empty(f)' /\ vers(queue', f) = {} /\ asked'[f] # {}
        /\ ~empty(f)' => asked'[f] # {} \/ \E c \in clients' : c.lfn = f
    BY <1>2, <2>2 DEF InOnePlace, Same
  <2>5. inHand(f)' => /\ asked'[f] # {}
                      /\ job'.step # "rm" => empty(f)'
                      /\ job'.step = "rm" => inbox'[job'.node][f] # none
    BY <1>2, <2>2, <2>3 DEF InOnePlace, Same
  <2>6. QED BY <2>4, <2>5 DEF InOnePlace
<1>6. f \notin lost' \cup twice' => Kept(f)'
  BY <1>1, <1>2, <1>3 DEF FileOK, Same, Kept
<1>7. f \notin mixed' => OneVersion(f)'
  <2>1. SUFFICES ASSUME f \notin mixed' PROVE OneVersion(f)'
    OBVIOUS
  <2>2. inHand(f) => job.node \in Node
    BY DEF IInv, JobOK, inHand
  <2>3. PICK v :
          /\ vers(adds, f) \subseteq {v} /\ vers(queue, f) \subseteq {v}
          /\ \A c \in clients \cup late : c.lfn = f => c.ver = v
          /\ \A n \in Node : inbox[n][f] \in {v, none}
          /\ inHand(f) => stored[job.node][f] = v
    BY <1>1, <2>1 DEF FileOK, Same, OneVersion
  <2>4. /\ vers(adds', f) \subseteq {v} /\ vers(queue', f) \subseteq {v}
        /\ \A c \in clients' \cup late' : c.lfn = f => c.ver = v
        /\ \A n \in Node : inbox'[n][f] \in {v, none}
        /\ inHand(f)' => stored'[job'.node][f] = v
    BY <2>2, <2>3 DEF Same
  <2>5. QED BY <2>4 DEF OneVersion
<1>8. f \notin lost' \cup mixed' => Told(f)'
  <2>1. location[f] \in Node \cup {none}
    BY DEF IInv, TypeOK
  <2>2. QED BY <1>1, <1>3, <2>1 DEF FileOK, Same, Told
<1>9. QED BY <1>4, <1>5, <1>6, <1>7, <1>8 DEF FileOK, Placed

(* What the invariant says at the beginning of a step. *)
LEMMA Now ==
  ASSUME IInv
  PROVE  /\ adds \in Seq(Put) /\ queue \in Seq(Put) /\ pendingadds \in Seq(Put)
         /\ clients \in SUBSET Client /\ late \in SUBSET Late
         /\ inbox \in [Node -> [File -> Version \cup {none}]]
         /\ stored \in [Node -> [File -> Version \cup {none}]]
         /\ location \in [File -> Node \cup {none}] /\ attrs \in [File -> Version \cup {none}]
         /\ asked \in [File -> SUBSET Version] /\ job \in Job
         /\ job.step # "write" => pendingadds = adds
         /\ adding => /\ job.node \in Node /\ job.lfn \in File \ job.rest
                      /\ vers(adds, job.lfn) # {}
BY DEF IInv, TypeOK, JobOK

LEMMA Counters ==
  ASSUME IInv, UNCHANGED <<puts, events>> \/ (event /\ UNCHANGED puts)
  PROVE  puts' \in 0..MaxPuts /\ events' \in 0..MaxEvents
BY BoundsAssumption DEF IInv, TypeOK, event

(* The main thread goes on with the files in r, ... *)
LEMMA OntoNext ==
  ASSUME IInv, job.step # "idle", NEW r, r \subseteq job.rest, onTo(r),
         pendingadds' = adds', \A g \in r : inbox'[job.node][g] # none
  PROVE  job' \in Job /\ JobOK' /\ ~adding'
<1>1. job \in Job /\ job.rest \subseteq File
  BY Now DEF Job
<1>2. CASE r = {}
  <2>1. job' = noJob
    BY <1>2 DEF onTo
  <2>2. job' \in Job /\ job'.step = "idle" /\ job'.rest = {}
    BY <2>1 DEF noJob, Job, Steps
  <2>3. QED BY <2>2 DEF JobOK, adding
<1>3. CASE r # {}
  <2>1. job' = [job EXCEPT !.step = "next", !.lfn = none, !.rest = r]
    BY <1>3 DEF onTo
  <2>2. job' \in Job /\ job'.step = "next" /\ job'.rest = r /\ job'.node = job.node
    BY <1>1, <2>1 DEF Job, Steps
  <2>3. job.node \in Node
    BY <1>3 DEF IInv, JobOK
  <2>4. QED BY <2>2, <2>3 DEF JobOK, adding
<1>4. QED BY <1>2, <1>3

(* ... or does the next thing with the file in hand, ... *)
LEMMA HandNext ==
  ASSUME IInv, adding, NEW s \in {"chmod", "attrs", "open"}, goTo(s),
         UNCHANGED <<adds, pendingadds>>, \A g \in job.rest : inbox'[job.node][g] # none,
         location'[job.lfn] = IF s = "chmod" THEN none ELSE job.node
  PROVE  /\ job' \in Job /\ JobOK' /\ adding'
         /\ job'.step = s /\ job'.lfn = job.lfn /\ job'.node = job.node
<1>1. /\ job' \in Job /\ job'.step = s /\ job'.lfn = job.lfn
      /\ job'.node = job.node /\ job'.rest = job.rest
  BY Now DEF goTo, Job, Steps
<1>2. /\ job.node \in Node /\ job.lfn \in File \ job.rest /\ vers(adds, job.lfn) # {}
      /\ pendingadds = adds
  BY Now DEF adding
<1>3. adding' /\ (job'.step \in {"rm", "chmod"} <=> s = "chmod") /\ job'.step # "write"
  BY <1>1 DEF adding
<1>4. JobOK'
  BY <1>1, <1>2, <1>3 DEF JobOK
<1>5. QED BY <1>1, <1>3, <1>4

(* ... or writes the list. *)
LEMMA WriteNext ==
  ASSUME IInv, goTo("write"), pendingadds' = <<>>, UNCHANGED inbox, job = noJob \/ adding
  PROVE  job' \in Job /\ JobOK' /\ ~adding'
<1>1. job' \in Job /\ job'.step = "write" /\ job'.node = job.node /\ job'.rest = job.rest
  BY Now DEF goTo, Job, Steps
<1>2. job.rest # {} => job.node \in Node
  BY DEF IInv, JobOK, noJob
<1>3. \A g \in job.rest : inbox[job.node][g] # none
  BY DEF IInv, JobOK
<1>4. QED BY <1>1, <1>2, <1>3 DEF JobOK, adding

(* Nothing but what the main thread has in hand changes. *)
Quiet == UNCHANGED <<clients, late, queue, inbox, stored, location, attrs, adds, asked, twice,
                     mixed, doubled>>

LEMMA QuietSame ==
  ASSUME Quiet, NEW f, f \in lost => f \in lost', inHand(f)' <=> inHand(f),
         inHand(f) => job'.step = job.step /\ job'.node = job.node
  PROVE  Same(f)
BY DEF Quiet, Same

-----------------------------------------------------------------------------
(* Every action keeps the invariant *)

LEMMA InitInv == Init => IInv
<1> SUFFICES ASSUME Init PROVE IInv
  OBVIOUS
<1>1. /\ job = noJob /\ noJob \in Job /\ noJob.step = "idle" /\ noJob.rest = {}
      /\ adds = <<>> /\ pendingadds = <<>> /\ queue = <<>> /\ <<>> \in Seq(Put)
  BY DEF Init, noJob, Job, Steps
<1>2. TypeOK
  BY <1>1, BoundsAssumption DEF Init, TypeOK, grid, history
<1>3. ~adding /\ JobOK
  BY <1>1 DEF adding, JobOK
<1>4. ASSUME NEW f \in File PROVE FileOK(f)
  <2>1. vers(adds, f) = {} /\ vers(queue, f) = {} /\ once(adds, f) /\ once(queue, f)
    BY <1>1 DEF vers, once
  <2>2. /\ clients = {} /\ late = {} /\ empty(f) /\ location[f] = none /\ asked[f] = {} /\ ~inHand(f)
        /\ \A n \in Node : inbox[n][f] = none
    BY <1>3 DEF Init, empty, inHand
  <2>3. Placed(f)
    BY <2>1, <2>2 DEF Placed, OneAtATime, InOnePlace
  <2>4. Kept(f) /\ Told(f)
    BY <2>2 DEF Kept, Told
  <2>5. OneVersion(f)
    BY <2>1, <2>2 DEF OneVersion
  <2>6. QED BY <2>3, <2>4, <2>5 DEF FileOK
<1>5. QED BY <1>2, <1>3, <1>4 DEF IInv

LEMMA SaveInv ==
  ASSUME IInv, savePendingAddList
  PROVE  IInv'
<1>0. /\ job.step = "write" /\ pendingadds' = adds /\ onTo(job.rest)
      /\ UNCHANGED <<clients, late, queue, inbox, stored, location, attrs, adds, asked, twice,
                     mixed, doubled, lost, puts, events>>
  BY DEF savePendingAddList, grid, history
<1>1. job' \in Job /\ JobOK' /\ ~adding'
  <2>1. \A g \in job.rest : inbox'[job.node][g] # none
    BY <1>0 DEF IInv, JobOK
  <2>2. QED BY <1>0, <2>1, OntoNext
<1>2. TypeOK'
  BY <1>0, <1>1 DEF IInv, TypeOK
<1>3. ASSUME NEW f \in File PROVE FileOK(f)'
  <2>1. Quiet /\ ~inHand(f)' /\ ~inHand(f)
    BY <1>0, <1>1 DEF Quiet, inHand, adding
  <2>2. Same(f)
    BY <1>0, <2>1, QuietSame
  <2>3. QED BY <2>2, SameFile
<1>4. QED BY <1>1, <1>2, <1>3 DEF IInv

LEMMA StartPutInv ==
  ASSUME IInv, NEW f \in File, NEW v \in Version, startPut(f, v)
  PROVE  IInv'
<1> DEFINE c == [lfn |-> f, ver |-> v, node |-> none, rest |-> Node]
<1>0. /\ puts < MaxPuts /\ puts' = puts + 1 /\ location[f] = none
      /\ clients' = clients \cup {c}
      /\ twice' = IF underWay(f) # {} THEN twice \cup {f} ELSE twice
      /\ mixed' \in {mixed, mixed \cup {f}}
      /\ underWay(f) \ {v} # {} => f \in mixed'
      /\ UNCHANGED <<late, queue, adds, pendingadds, inbox, stored, location, attrs, job, asked,
                     doubled,
                     lost, events>>
  BY DEF startPut, grid, lists
<1>1. c \in Client /\ c.lfn = f /\ c.ver = v /\ c.node = none
  BY DEF Client
<1> HIDE DEF c
<1>2. TypeOK'
  <2>1. clients' \in SUBSET Client /\ twice' \in SUBSET File /\ mixed' \in SUBSET File
    BY <1>0, <1>1 DEF IInv, TypeOK
  <2>2. puts' \in 0..MaxPuts
    BY <1>0, BoundsAssumption DEF IInv, TypeOK
  <2>3. QED BY <1>0, <2>1, <2>2 DEF IInv, TypeOK
<1>3. JobOK'
  BY <1>0 DEF IInv, JobOK, adding
<1>4. ASSUME NEW g \in File, g # f PROVE FileOK(g)'
  <2>1. inHand(g)' <=> inHand(g)
    BY <1>0 DEF inHand, adding
  <2>2. \A d : d.lfn = g => (d \in clients' <=> d \in clients)
    BY <1>0, <1>1, <1>4
  <2>3. Same(g)
    BY <1>0, <1>4, <2>1, <2>2 DEF Same
  <2>4. QED BY <2>3, SameFile
<1>5. FileOK(f)'
  <2>1. FileOK(f)
    BY DEF IInv
  <2>2. /\ \A d \in clients \cup late : d.lfn = f => d.ver \in underWay(f)
        /\ vers(queue, f) \subseteq underWay(f) /\ vers(adds, f) \subseteq underWay(f)
        /\ \A n \in Node : inbox[n][f] \in underWay(f) \cup {none}
    BY DEF underWay, vers, entriesOf
  <2>3. inHand(f) => vers(adds, f) # {}
    BY Now DEF inHand
  <2>4. /\ empty(f)' <=> empty(f)
        /\ inHand(f)' <=> inHand(f)
    BY <1>0 DEF empty, inHand, adding
  <2>5. Placed(f)'
    <3>1. SUFFICES ASSUME f \notin twice'
                   PROVE  OneAtATime(f)' /\ (f \notin doubled => InOnePlace(f)')
      BY <1>0 DEF Placed
    <3>2. /\ underWay(f) = {} /\ OneAtATime(f)
          /\ f \notin doubled => InOnePlace(f)
      BY <1>0, <2>1, <3>1 DEF FileOK, Placed
    <3>3. /\ \A d \in clients : d.lfn # f
          /\ vers(queue, f) = {} /\ vers(adds, f) = {} /\ empty(f) /\ ~inHand(f)
          /\ \A n \in Node : inbox[n][f] = none
      BY <2>2, <2>3, <3>2 DEF empty
    <3>4. QED BY <1>0, <1>1, <2>4, <3>2, <3>3 DEF OneAtATime, InOnePlace
  <2>6. f \notin lost' \cup twice' => Kept(f)'
    <3>1. twice \subseteq twice'
      BY <1>0
    <3>2. QED BY <1>0, <2>1, <2>4, <3>1 DEF FileOK, Kept
  <2>7. f \notin mixed' => OneVersion(f)'
    <3>1. SUFFICES ASSUME f \notin mixed' PROVE OneVersion(f)'
      OBVIOUS
    <3>2. underWay(f) \subseteq {v} /\ OneVersion(f)
      BY <1>0, <2>1, <3>1 DEF FileOK
    <3>3. PICK w : vers(adds, f) \subseteq {w} /\ (inHand(f) => stored[job.node][f] = w)
      BY <3>2 DEF OneVersion
    <3>4. inHand(f) => stored[job.node][f] = v
      BY <2>2, <2>3, <3>2, <3>3
    <3>5. /\ vers(adds', f) \subseteq {v} /\ vers(queue', f) \subseteq {v}
          /\ \A d \in clients' \cup late' : d.lfn = f => d.ver = v
          /\ \A n \in Node : inbox'[n][f] \in {v, none}
          /\ inHand(f)' => stored'[job'.node][f] = v
      BY <1>0, <1>1, <2>2, <2>4, <3>2, <3>4
    <3>6. QED BY <3>5 DEF OneVersion
  <2>8. f \notin lost' \cup mixed' => Told(f)'
    BY <1>0 DEF Told
  <2>9. QED BY <2>5, <2>6, <2>7, <2>8 DEF FileOK
<1>6. QED BY <1>2, <1>3, <1>4, <1>5 DEF IInv

LEMMA CopyToInboxInv ==
  ASSUME IInv, NEW c \in clients, NEW n \in Node, copyToInbox(c, n)
  PROVE  IInv'
<1> DEFINE d == [c EXCEPT !.node = n, !.rest = {}]
           f == c.lfn
<1>0. /\ n \in c.rest /\ inbox' = [inbox EXCEPT ![n][f] = c.ver]
      /\ clients' = (clients \ {c}) \cup {d}
      /\ UNCHANGED <<late, queue, adds, pendingadds, stored, location, attrs, job, asked, twice,
                     mixed, doubled, lost, puts, events>>
  BY DEF copyToInbox, grid, lists, history
<1>1. /\ c \in Client /\ f \in File /\ c.ver \in Version /\ c.ver # none /\ n # none
  BY Now, noneAssumption DEF Client
<1>2. d \in Client /\ d.lfn = f /\ d.ver = c.ver /\ d.node = n /\ d.rest = {}
  BY <1>1 DEF Client
<1> HIDE DEF d, f
<1>3. /\ inbox' \in [Node -> [File -> Version \cup {none}]]
      /\ inbox'[n][f] = c.ver
      /\ \A m \in Node, g \in File : m # n \/ g # f => inbox'[m][g] = inbox[m][g]
  BY <1>0, <1>1, Now
<1>4. TypeOK'
  BY <1>0, <1>2, <1>3 DEF IInv, TypeOK
<1>5. JobOK'
  <2>1. \A g \in job.rest : g \in File
    BY Now DEF Job
  <2>2. \A g \in job.rest : inbox'[job.node][g] # none
    <3>1. SUFFICES ASSUME NEW g \in job.rest PROVE inbox'[job.node][g] # none
      OBVIOUS
    <3>2. inbox[job.node][g] # none /\ job.node \in Node /\ g \in File
      BY <2>1 DEF IInv, JobOK
    <3>3. QED BY <1>1, <1>3, <3>2
  <2>3. QED BY <1>0, <2>2 DEF IInv, JobOK, adding
<1>6. ASSUME NEW g \in File, g # f PROVE FileOK(g)'
  <2>1. inHand(g)' <=> inHand(g)
    BY <1>0 DEF inHand, adding
  <2>2. \A e : e.lfn = g => (e \in clients' <=> e \in clients)
    BY <1>0, <1>2, <1>6 DEF f
  <2>3. Same(g)
    BY <1>0, <1>3, <1>6, <2>1, <2>2 DEF Same
  <2>4. QED BY <2>3, SameFile
<1>7. FileOK(f)'
  <2>1. FileOK(f)
    BY <1>1 DEF IInv
  <2>2. ~empty(f)'
    BY <1>1, <1>3 DEF empty
  <2>3. inHand(f)' <=> inHand(f)
    BY <1>0 DEF inHand, adding
  <2>4. Placed(f)'
    <3>1. SUFFICES ASSUME f \notin twice'
                   PROVE  OneAtATime(f)' /\ (f \notin doubled => InOnePlace(f)')
      BY <1>0 DEF Placed
    <3>2. OneAtATime(f)
      BY <1>0, <2>1, <3>1 DEF FileOK, Placed
    <3>3. /\ vers(queue, f) = {} /\ vers(adds, f) = {} /\ location[f] = none /\ c.node = none
          /\ \A e \in clients : e.lfn = f => e = c
      BY <1>0, <3>2 DEF OneAtATime, f
    <3>4. ~inHand(f)
      BY <3>3, Now DEF inHand
    <3>5. /\ \A e \in clients' : e.lfn = f => e = d
          /\ d \in clients'
      BY <1>0, <3>3
    <3>6. \A e \in clients' : e.lfn = f =>
            /\ vers(queue', f) = {} /\ vers(adds', f) = {} /\ location'[f] = none
            /\ \A x \in clients' : x.lfn = f => x = e
            /\ e.node # none => e.rest = {} /\ inbox'[e.node][f] # none
      BY <1>0, <1>1, <1>2, <1>3, <3>3, <3>5
    <3>7. OneAtATime(f)'
      BY <1>0, <3>2, <3>6 DEF OneAtATime
    <3>8. ASSUME f \notin doubled PROVE InOnePlace(f)'
      <4>1. InOnePlace(f) /\ empty(f)
        BY <1>0, <2>1, <3>1, <3>3, <3>8 DEF FileOK, Placed, InOnePlace, f
      <4>2. \A m \in Node : m # n => inbox'[m][f] = none
        BY <1>1, <1>3, <4>1 DEF empty
      <4>3. \A e \in clients' : e.lfn = f => e.node # none
        BY <1>1, <1>2, <3>5
      <4>4. QED BY <1>0, <1>2, <2>3, <3>3, <3>4, <3>5, <4>2, <4>3 DEF InOnePlace
    <3>9. QED BY <3>7, <3>8
  <2>5. f \notin lost' \cup twice' => Kept(f)'
    BY <1>0, <2>1, <2>2 DEF FileOK, Kept
  <2>6. f \notin mixed' => OneVersion(f)'
    <3>1. SUFFICES ASSUME f \notin mixed' PROVE OneVersion(f)'
      OBVIOUS
    <3>2. PICK v :
            /\ vers(adds, f) \subseteq {v} /\ vers(queue, f) \subseteq {v}
            /\ \A e \in clients \cup late : e.lfn = f => e.ver = v
            /\ \A m \in Node : inbox[m][f] \in {v, none}
            /\ inHand(f) => stored[job.node][f] = v
      BY <1>0, <2>1, <3>1 DEF FileOK, OneVersion
    <3>3. c.ver = v
      BY <3>2 DEF f
    <3>4. /\ \A e \in clients' \cup late' : e.lfn = f => e.ver = v
          /\ \A m \in Node : inbox'[m][f] \in {v, none}
      BY <1>0, <1>1, <1>2, <1>3, <3>2, <3>3
    <3>5. QED BY <1>0, <2>3, <3>2, <3>4 DEF OneVersion
  <2>7. f \notin lost' \cup mixed' => Told(f)'
    BY <1>0, <2>1 DEF FileOK, Told
  <2>8. QED BY <2>4, <2>5, <2>6, <2>7 DEF FileOK
<1>8. QED BY <1>4, <1>5, <1>6, <1>7 DEF IInv

(* The client of a file leaves, or looks for another node; what is late of  *)
(* the file is of its version.                                             *)
LEMMA CopyFailedInv ==
  ASSUME IInv, NEW c \in clients, NEW n \in Node, copyToInboxFails(c, n)
  PROVE  IInv'
<1> DEFINE f == c.lfn
           d == [c EXCEPT !.rest = @ \ {n}]
           x == [lfn |-> f, ver |-> c.ver, node |-> n]
<1>0. /\ n \in c.rest /\ event
      /\ clients' = clients \ {c} \/ clients' = (clients \ {c}) \cup {d}
      /\ late' \in {late, late \cup {x}}
      /\ UNCHANGED <<queue, adds, pendingadds, inbox, stored, location, attrs, job, asked, twice,
                     mixed, doubled, lost, puts>>
  BY DEF copyToInboxFails, grid, lists, history
<1>1. c \in Client /\ f \in File /\ c.ver \in Version
  BY Now DEF Client
<1>2. /\ d \in Client /\ d.lfn = f /\ d.ver = c.ver /\ d.node = c.node
      /\ x \in Late /\ x.lfn = f /\ x.ver = c.ver
  BY <1>1 DEF Client, Late
<1> HIDE DEF d, f, x
<1>3. TypeOK'
  <2>1. clients' \in SUBSET Client /\ late' \in SUBSET Late
    BY <1>0, <1>2, Now
  <2>2. QED BY <1>0, <2>1, Counters DEF IInv, TypeOK
<1>4. JobOK'
  BY <1>0 DEF IInv, JobOK, adding
<1>5. ASSUME NEW g \in File, g # f PROVE FileOK(g)'
  <2>1. inHand(g)' <=> inHand(g)
    BY <1>0 DEF inHand, adding
  <2>2. \A e : e.lfn = g => (e \in clients' <=> e \in clients) /\ (e \in late' => e \in late)
    BY <1>0, <1>2, <1>5 DEF f
  <2>3. Same(g)
    BY <1>0, <2>1, <2>2 DEF Same
  <2>4. QED BY <2>3, SameFile
<1>6. FileOK(f)'
  <2>1. FileOK(f)
    BY <1>1 DEF IInv
  <2>2. /\ empty(f)' <=> empty(f)
        /\ inHand(f)' <=> inHand(f)
    BY <1>0 DEF empty, inHand, adding
  <2>3. Placed(f)'
    <3>1. SUFFICES ASSUME f \notin twice'
                   PROVE  OneAtATime(f)' /\ (f \notin doubled => InOnePlace(f)')
      BY <1>0 DEF Placed
    <3>2. OneAtATime(f) /\ (f \notin doubled => InOnePlace(f))
      BY <1>0, <2>1, <3>1 DEF FileOK, Placed
    <3>3. /\ vers(queue, f) = {} /\ vers(adds, f) = {} /\ location[f] = none /\ c.node = none
          /\ \A e \in clients : e.lfn = f => e = c
      BY <1>0, <3>2 DEF OneAtATime, f
    <3>4. ~inHand(f)
      BY <3>3, Now DEF inHand
    <3>5. \A e \in clients' : e.lfn = f => e = d /\ e.node = none
      BY <1>0, <1>2, <3>3
    <3>6. OneAtATime(f)'
      BY <1>0, <3>2, <3>3, <3>5 DEF OneAtATime
    <3>7. f \notin doubled => empty(f)
      BY <3>2, <3>3 DEF InOnePlace, f
    <3>8. QED BY <1>0, <2>2, <3>2, <3>3, <3>4, <3>6, <3>7 DEF InOnePlace
  <2>4. f \notin lost' \cup twice' => Kept(f)'
    BY <1>0, <2>1, <2>2 DEF FileOK, Kept
  <2>5. f \notin mixed' => OneVersion(f)'
    <3>1. SUFFICES ASSUME f \notin mixed' PROVE OneVersion(f)'
      OBVIOUS
    <3>2. PICK v :
            /\ vers(adds, f) \subseteq {v} /\ vers(queue, f) \subseteq {v}
            /\ \A e \in clients \cup late : e.lfn = f => e.ver = v
            /\ \A m \in Node : inbox[m][f] \in {v, none}
            /\ inHand(f) => stored[job.node][f] = v
      BY <1>0, <2>1, <3>1 DEF FileOK, OneVersion
    <3>3. c.ver = v
      BY <3>2 DEF f
    <3>4. \A e \in clients' \cup late' : e.lfn = f => e.ver = v
      BY <1>0, <1>2, <3>2, <3>3
    <3>5. QED BY <1>0, <2>2, <3>2, <3>4 DEF OneVersion
  <2>6. f \notin lost' \cup mixed' => Told(f)'
    BY <1>0, <2>1 DEF FileOK, Told
  <2>7. QED BY <2>3, <2>4, <2>5, <2>6 DEF FileOK
<1>7. QED BY <1>3, <1>4, <1>5, <1>6 DEF IInv

(* A copy that is renamed late may put the file in a second inbox. *)
LEMMA RenamedLateInv ==
  ASSUME IInv, NEW x \in late, renamedLate(x)
  PROVE  IInv'
<1> DEFINE f == x.lfn
           n == x.node
<1>0. /\ inbox' = [inbox EXCEPT ![n][f] = x.ver]
      /\ late' = late \ {x} /\ doubled' = doubled \cup {f}
      /\ UNCHANGED <<clients, queue, adds, pendingadds, stored, location, attrs, job, asked,
                     twice, mixed, lost, puts, events>>
  BY DEF renamedLate, grid, lists
<1>1. x \in Late /\ f \in File /\ n \in Node /\ x.ver \in Version /\ x.ver # none
  BY Now, noneAssumption DEF Late
<1> HIDE DEF f, n
<1>2. /\ inbox' \in [Node -> [File -> Version \cup {none}]]
      /\ inbox'[n][f] = x.ver
      /\ \A m \in Node, g \in File : m # n \/ g # f => inbox'[m][g] = inbox[m][g]
  BY <1>0, <1>1, Now
<1>3. TypeOK'
  <2>1. late' \in SUBSET Late /\ doubled' \in SUBSET File
    BY <1>0, <1>1 DEF IInv, TypeOK
  <2>2. QED BY <1>0, <1>2, <2>1 DEF IInv, TypeOK
<1>4. JobOK'
  <2>1. \A g \in job.rest : g \in File
    BY Now DEF Job
  <2>2. ASSUME NEW g \in job.rest PROVE inbox'[job.node][g] # none
    <3>1. inbox[job.node][g] # none /\ job.node \in Node /\ g \in File
      BY <2>1 DEF IInv, JobOK
    <3>2. QED BY <1>1, <1>2, <3>1
  <2>3. QED BY <1>0, <2>2 DEF IInv, JobOK, adding
<1>5. ASSUME NEW g \in File, g # f PROVE FileOK(g)'
  <2>1. inHand(g)' <=> inHand(g)
    BY <1>0 DEF inHand, adding
  <2>2. Same(g)
    BY <1>0, <1>2, <1>5, <2>1 DEF Same
  <2>3. QED BY <2>2, SameFile
<1>6. FileOK(f)'
  <2>1. FileOK(f)
    BY <1>1 DEF IInv
  <2>2. ~empty(f)'
    BY <1>1, <1>2 DEF empty
  <2>3. inHand(f)' <=> inHand(f)
    BY <1>0 DEF inHand, adding
  <2>4. Placed(f)'
    <3>1. SUFFICES ASSUME f \notin twice' PROVE OneAtATime(f)'
      BY <1>0 DEF Placed
    <3>2. OneAtATime(f)
      BY <1>0, <2>1, <3>1 DEF FileOK, Placed
    <3>3. \A c \in clients : c.lfn = f /\ c.node # none => inbox'[c.node][f] # none
      <4>1. SUFFICES ASSUME NEW c \in clients, c.lfn = f, c.node # none
                     PROVE  inbox'[c.node][f] # none
        OBVIOUS
      <4>2. c.node \in Node /\ inbox[c.node][f] # none
        BY <3>2, <4>1, Now DEF OneAtATime, Client
      <4>3. QED BY <1>1, <1>2, <4>2
    <3>4. QED BY <1>0, <3>2, <3>3 DEF OneAtATime
  <2>5. f \notin lost' \cup twice' => Kept(f)'
    BY <1>0, <2>1, <2>2 DEF FileOK, Kept
  <2>6. f \notin mixed' => OneVersion(f)'
    <3>1. SUFFICES ASSUME f \notin mixed' PROVE OneVersion(f)'
      OBVIOUS
    <3>2. PICK v :
            /\ vers(adds, f) \subseteq {v} /\ vers(queue, f) \subseteq {v}
            /\ \A e \in clients \cup late : e.lfn = f => e.ver = v
            /\ \A m \in Node : inbox[m][f] \in {v, none}
            /\ inHand(f) => stored[job.node][f] = v
      BY <1>0, <2>1, <3>1 DEF FileOK, OneVersion
    <3>3. x.ver = v
      BY <3>2 DEF f
    <3>4. \A m \in Node : inbox'[m][f] \in {v, none}
      BY <1>1, <1>2, <3>2, <3>3
    <3>5. QED BY <1>0, <2>3, <3>2, <3>4 DEF OneVersion
  <2>7. f \notin lost' \cup mixed' => Told(f)'
    BY <1>0, <2>1 DEF FileOK, Told
  <2>8. QED BY <2>4, <2>5, <2>6, <2>7 DEF FileOK
<1>7. QED BY <1>3, <1>4, <1>5, <1>6 DEF IInv

LEMMA PutFileInv ==
  ASSUME IInv, NEW c \in clients, putFile(c)
  PROVE  IInv'
<1> DEFINE e == [lfn |-> c.lfn, ver |-> c.ver]
           f == c.lfn
<1>0. /\ c.node # none /\ queue' = Append(queue, e) /\ clients' = clients \ {c}
      /\ asked' = [asked EXCEPT ![f] = @ \cup {c.ver}]
      /\ UNCHANGED <<late, adds, pendingadds, inbox, stored, location, attrs, job, twice, mixed,
                     doubled, lost, puts, events>>
  BY DEF putFile, grid, history
<1>1. c \in Client /\ f \in File /\ c.ver \in Version /\ e \in Put /\ e.lfn = f /\ e.ver = c.ver
  BY Now DEF Client, Put
<1> HIDE DEF e, f
<1>2. /\ asked' \in [File -> SUBSET Version] /\ asked'[f] # {}
      /\ \A g \in File \ {f} : asked'[g] = asked[g]
  BY <1>0, <1>1, Now
<1>3. queue \in Seq(Put)
  BY Now
<1>4. ASSUME NEW g
      PROVE  /\ queue' \in Seq(Put)
             /\ vers(queue', g) = vers(queue, g) \cup (IF f = g THEN {c.ver} ELSE {})
             /\ once(queue, g) /\ (f = g => vers(queue, g) = {}) => once(queue', g)
  BY <1>0, <1>1, <1>3, AppendVers
<1>5. TypeOK'
  BY <1>0, <1>2, <1>4 DEF IInv, TypeOK
<1>6. JobOK'
  BY <1>0 DEF IInv, JobOK, adding
<1>7. ASSUME NEW g \in File, g # f PROVE FileOK(g)'
  <2>1. inHand(g)' <=> inHand(g)
    BY <1>0 DEF inHand, adding
  <2>2. \A d : d.lfn = g => (d \in clients' <=> d \in clients)
    BY <1>0, <1>7 DEF f
  <2>3. Same(g)
    BY <1>0, <1>2, <1>4, <1>7, <2>1, <2>2 DEF Same
  <2>4. QED BY <2>3, SameFile
<1>8. FileOK(f)'
  <2>1. FileOK(f)
    BY <1>1 DEF IInv
  <2>2. /\ empty(f)' <=> empty(f)
        /\ inHand(f)' <=> inHand(f)
    BY <1>0 DEF empty, inHand, adding
  <2>3. vers(queue', f) = vers(queue, f) \cup {c.ver}
    BY <1>4
  <2>4. c.node \in Node
    BY <1>0, <1>1 DEF Client
  <2>5. Placed(f)' /\ (f \notin twice' => ~empty(f))
    <3>1. SUFFICES ASSUME f \notin twice'
                   PROVE  OneAtATime(f)' /\ ~empty(f) /\ (f \notin doubled => InOnePlace(f)')
      BY <1>0 DEF Placed
    <3>2. OneAtATime(f)
      BY <1>0, <2>1, <3>1 DEF FileOK, Placed
    <3>3. /\ vers(queue, f) = {} /\ vers(adds, f) = {} /\ location[f] = none
          /\ inbox[c.node][f] # none
          /\ \A d \in clients : d.lfn = f => d = c
      BY <1>0, <3>2 DEF OneAtATime, f
    <3>4. ~inHand(f)
      BY <3>3, Now DEF inHand
    <3>5. \A d \in clients' : d.lfn # f
      BY <1>0, <3>3
    <3>6. once(queue', f) /\ once(adds', f) /\ ~empty(f)
      BY <1>0, <1>4, <2>4, <3>2, <3>3 DEF OneAtATime, empty
    <3>7. OneAtATime(f)'
      BY <1>0, <3>3, <3>5, <3>6 DEF OneAtATime
    <3>8. ASSUME f \notin doubled PROVE InOnePlace(f)'
      <4>1. InOnePlace(f)
        BY <1>0, <2>1, <3>1, <3>8 DEF FileOK, Placed
      <4>2. QED BY <1>0, <1>2, <2>2, <3>3, <3>4, <3>5, <4>1 DEF InOnePlace
    <3>9. QED BY <3>6, <3>7, <3>8
  <2>6. f \notin lost' \cup twice' => Kept(f)'
    BY <1>0, <2>2, <2>3, <2>5 DEF Kept
  <2>7. f \notin mixed' => OneVersion(f)'
    <3>1. SUFFICES ASSUME f \notin mixed' PROVE OneVersion(f)'
      OBVIOUS
    <3>2. PICK v :
            /\ vers(adds, f) \subseteq {v} /\ vers(queue, f) \subseteq {v}
            /\ \A d \in clients \cup late : d.lfn = f => d.ver = v
            /\ \A m \in Node : inbox[m][f] \in {v, none}
            /\ inHand(f) => stored[job.node][f] = v
      BY <1>0, <2>1, <3>1 DEF FileOK, OneVersion
    <3>3. c.ver = v
      BY <3>2 DEF f
    <3>4. vers(queue', f) \subseteq {v} /\ \A d \in clients' \cup late' : d.lfn = f => d.ver = v
      BY <1>0, <2>3, <3>2, <3>3
    <3>5. QED BY <1>0, <2>2, <3>2, <3>4 DEF OneVersion
  <2>8. f \notin lost' \cup mixed' => Told(f)'
    BY <1>0, <2>1 DEF FileOK, Told
  <2>9. QED BY <2>5, <2>6, <2>7, <2>8 DEF FileOK
<1>9. QED BY <1>5, <1>6, <1>7, <1>8 DEF IInv

LEMMA HandleMessageInv ==
  ASSUME IInv, handleMessagePutFile
  PROVE  IInv'
<1> DEFINE e == Head(queue)
<1>0. /\ job = noJob /\ queue # <<>> /\ adds' = Append(adds, e) /\ queue' = Tail(queue)
      /\ pendingadds' = <<>> /\ goTo("write")
      /\ UNCHANGED <<clients, late, inbox, stored, location, attrs, asked, twice, mixed, doubled,
                     lost, puts, events>>
  BY DEF handleMessagePutFile, grid, history
<1>1. adds \in Seq(Put) /\ queue \in Seq(Put) /\ e \in Put /\ queue' \in Seq(Put)
  BY <1>0, Now
<1> HIDE DEF e
<1>2. adds' \in Seq(Put)
  BY <1>0, <1>1, AppendVers
<1>3. job' \in Job /\ JobOK' /\ ~adding'
  BY <1>0, WriteNext
<1>4. ASSUME NEW g
      PROVE  /\ vers(adds', g) = vers(adds, g) \cup (IF e.lfn = g THEN {e.ver} ELSE {})
             /\ once(adds, g) /\ (e.lfn = g => vers(adds, g) = {}) => once(adds', g)
             /\ vers(queue, g) = vers(queue', g) \cup (IF e.lfn = g THEN {e.ver} ELSE {})
             /\ once(queue, g) => /\ once(queue', g)
                                  /\ e.lfn = g => vers(queue', g) = {}
  <2>1. /\ vers(adds', g) = vers(adds, g) \cup (IF e.lfn = g THEN {e.ver} ELSE {})
        /\ once(adds, g) /\ (e.lfn = g => vers(adds, g) = {}) => once(adds', g)
    BY <1>0, <1>1, AppendVers
  <2>2. /\ vers(queue, g) = vers(queue', g) \cup (IF e.lfn = g THEN {e.ver} ELSE {})
        /\ once(queue, g) => /\ once(queue', g)
                             /\ e.lfn = g => vers(queue', g) = {}
    BY <1>0, <1>1, TailVers DEF e
  <2>3. QED BY <2>1, <2>2
<1>5. TypeOK'
  BY <1>0, <1>1, <1>2, <1>3, BoundsAssumption DEF IInv, TypeOK
<1>6. ASSUME NEW f \in File PROVE FileOK(f)'
  <2>1. FileOK(f)
    BY DEF IInv
  <2>2. /\ empty(f)' <=> empty(f)
        /\ ~inHand(f)' /\ ~inHand(f)
        /\ job'.step = "write" /\ job.step = "idle"
    BY <1>0, <1>3 DEF empty, inHand, adding, noJob, goTo
  <2>3. Placed(f)'
    <3>1. SUFFICES ASSUME f \notin twice'
                   PROVE  OneAtATime(f)' /\ (f \notin doubled => InOnePlace(f)')
      BY <1>0 DEF Placed
    <3>2. OneAtATime(f) /\ (f \notin doubled => InOnePlace(f))
      BY <1>0, <2>1, <3>1 DEF FileOK, Placed
    <3>3. /\ once(adds', f) /\ once(queue', f)
          /\ vers(queue', f) # {} => vers(adds', f) = {}
      BY <1>4, <3>2 DEF OneAtATime
    <3>4. /\ vers(queue, f) = {} => vers(queue', f) = {}
          /\ vers(queue, f) = {} /\ vers(adds, f) = {} => vers(adds', f) = {}
      BY <1>4
    <3>5. QED BY <1>0, <2>2, <3>2, <3>3, <3>4 DEF OneAtATime, InOnePlace
  <2>4. f \notin lost' \cup twice' => Kept(f)'
    <3>1. vers(adds, f) # {} \/ vers(queue, f) # {} => vers(adds', f) # {} \/ vers(queue', f) # {}
      BY <1>4
    <3>2. QED BY <1>0, <2>1, <2>2, <3>1 DEF FileOK, Kept
  <2>5. f \notin mixed' => OneVersion(f)'
    <3>1. \A v : vers(adds, f) \subseteq {v} /\ vers(queue, f) \subseteq {v}
                   => vers(adds', f) \subseteq {v} /\ vers(queue', f) \subseteq {v}
      BY <1>4
    <3>2. QED BY <1>0, <2>1, <2>2, <3>1 DEF FileOK, OneVersion
  <2>6. f \notin lost' \cup mixed' => Told(f)'
    BY <1>0, <2>1, <2>2 DEF FileOK, Told
  <2>7. QED BY <2>3, <2>4, <2>5, <2>6 DEF FileOK
<1>7. QED BY <1>3, <1>5, <1>6 DEF IInv

LEMMA DeleteInv ==
  ASSUME IInv, NEW f \in File, deleteLogicalFile(f)
  PROVE  IInv'
<1>0. /\ job = noJob /\ event /\ location[f] # none
      /\ stored' = [stored EXCEPT ![location[f]][f] = none]
      /\ location' = [location EXCEPT ![f] = none] /\ attrs' = [attrs EXCEPT ![f] = none]
      /\ asked' = [asked EXCEPT ![f] = {}]
      /\ UNCHANGED <<clients, late, queue, adds, pendingadds, inbox, job, twice, mixed, doubled,
                     lost, puts>>
  BY DEF deleteLogicalFile, lists, history
<1>1. location[f] \in Node
  BY <1>0, Now
<1>2. /\ stored' \in [Node -> [File -> Version \cup {none}]]
      /\ \A m \in Node, g \in File : g # f => stored'[m][g] = stored[m][g]
  BY <1>0, <1>1, Now
<1>3. /\ location' \in [File -> Node \cup {none}] /\ attrs' \in [File -> Version \cup {none}]
      /\ asked' \in [File -> SUBSET Version]
      /\ location'[f] = none /\ asked'[f] = {}
      /\ \A g \in File \ {f} : location'[g] = location[g] /\ attrs'[g] = attrs[g]
                               /\ asked'[g] = asked[g]
  BY <1>0, Now
<1>4. TypeOK'
  BY <1>0, <1>2, <1>3, Counters DEF IInv, TypeOK
<1>5. ~adding /\ ~adding'
  BY <1>0 DEF adding, noJob
<1>6. JobOK'
  BY <1>0, <1>5 DEF IInv, JobOK
<1>7. ASSUME NEW g \in File, g # f PROVE FileOK(g)'
  <2>1. Same(g)
    BY <1>0, <1>2, <1>3, <1>5, <1>7 DEF Same, inHand
  <2>2. QED BY <2>1, SameFile
<1>8. FileOK(f)'
  <2>1. FileOK(f)
    BY DEF IInv
  <2>2. /\ empty(f)' <=> empty(f)
        /\ ~inHand(f)' /\ ~inHand(f)
    BY <1>0, <1>5 DEF empty, inHand
  <2>3. Placed(f)'
    <3>1. SUFFICES ASSUME f \notin twice'
                   PROVE  OneAtATime(f)' /\ (f \notin doubled => InOnePlace(f)')
      BY <1>0 DEF Placed
    <3>2. OneAtATime(f) /\ (f \notin doubled => InOnePlace(f))
      BY <1>0, <2>1, <3>1 DEF FileOK, Placed
    <3>3. \A c \in clients : c.lfn # f
      BY <1>0, <3>2 DEF OneAtATime
    <3>4. f \notin doubled => empty(f) /\ vers(queue, f) = {}
      BY <1>0, <3>2 DEF InOnePlace
    <3>5. QED BY <1>0, <1>3, <2>2, <3>2, <3>3, <3>4 DEF OneAtATime, InOnePlace
  <2>4. Kept(f)' /\ Told(f)'
    BY <1>3 DEF Kept, Told
  <2>5. f \notin mixed' => OneVersion(f)'
    BY <1>0, <2>1, <2>2 DEF FileOK, OneVersion
  <2>6. QED BY <2>3, <2>4, <2>5 DEF FileOK
<1>9. QED BY <1>4, <1>6, <1>7, <1>8 DEF IInv

LEMMA ScanInv ==
  ASSUME IInv, NEW n \in Node, checkNodeForNewFiles(n)
  PROVE  IInv'
<1> DEFINE found == {f \in File : inbox[n][f] # none}
<1>0. /\ job = noJob /\ job' = [noJob EXCEPT !.step = "next", !.node = n, !.rest = found]
      /\ UNCHANGED <<clients, late, queue, adds, pendingadds, inbox, stored, location, attrs,
                     asked, twice, mixed, doubled, lost, puts, events>>
  BY DEF checkNodeForNewFiles, grid, lists, history
<1>1. found \in SUBSET File /\ \A g \in found : inbox[n][g] # none
  OBVIOUS
<1> HIDE DEF found
<1>2. job' \in Job /\ job'.step = "next" /\ job'.node = n /\ job'.rest = found
  BY <1>0, <1>1 DEF noJob, Job, Steps
<1>3. ~adding /\ ~adding' /\ job.step # "write"
  BY <1>0, <1>2 DEF adding, noJob
<1>4. JobOK'
  BY <1>0, <1>1, <1>2, <1>3, Now DEF JobOK
<1>5. TypeOK'
  BY <1>0, <1>2 DEF IInv, TypeOK
<1>6. ASSUME NEW f \in File PROVE FileOK(f)'
  <2>1. Quiet
    BY <1>0 DEF Quiet
  <2>2. Same(f)
    BY <1>0, <1>3, <2>1, QuietSame DEF inHand
  <2>3. QED BY <2>2, SameFile
<1>7. QED BY <1>4, <1>5, <1>6 DEF IInv

(* The scan reaches a file. *)
LEMMA AtFile ==
  ASSUME IInv, NEW f \in File, atFile(f)
  PROVE  /\ job.step = "next" /\ ~adding /\ job.node \in Node /\ f \in job.rest
         /\ inbox[job.node][f] # none
         /\ isNew(f) => vers(adds, f) # {} /\ location[f] = none
BY EntriesVers DEF atFile, IInv, JobOK, adding, isNew

LEMMA PassFileInv ==
  ASSUME IInv, NEW f \in File, passFile(f)
  PROVE  IInv'
<1>0. /\ atFile(f) /\ onTo(job.rest \ {f})
      /\ UNCHANGED <<clients, late, queue, adds, pendingadds, inbox, stored, location, attrs,
                     asked, twice, mixed, doubled, lost, puts, events>>
  BY DEF passFile, grid, lists, history
<1>1. job.step = "next" /\ ~adding /\ pendingadds = adds
  BY <1>0, AtFile, Now
<1>2. job' \in Job /\ JobOK' /\ ~adding'
  <2>1. \A g \in job.rest \ {f} : inbox'[job.node][g] # none
    BY <1>0 DEF IInv, JobOK
  <2>2. QED BY <1>0, <1>1, <2>1, OntoNext
<1>3. TypeOK'
  BY <1>0, <1>2 DEF IInv, TypeOK
<1>4. ASSUME NEW g \in File PROVE FileOK(g)'
  <2>1. Quiet
    BY <1>0 DEF Quiet
  <2>2. Same(g)
    BY <1>0, <1>1, <1>2, <2>1, QuietSame DEF inHand
  <2>3. QED BY <2>2, SameFile
<1>5. QED BY <1>2, <1>3, <1>4 DEF IInv

LEMMA CopyInv ==
  ASSUME IInv, NEW f \in File, copyFromInbox(f), NEW n, NEW x, n = job.node, x = inbox[n][f]
  PROVE  IInv'
<1>0. /\ atFile(f) /\ isNew(f) /\ stored' = [stored EXCEPT ![n][f] = x]
      /\ job' = [job EXCEPT !.step = "rm", !.lfn = f, !.rest = @ \ {f}]
      /\ UNCHANGED <<clients, late, queue, adds, pendingadds, inbox, location, attrs, asked,
                     twice, mixed, doubled, lost, puts, events>>
  BY DEF copyFromInbox, grid, lists, history
<1>1. /\ job.step = "next" /\ ~adding /\ n \in Node /\ f \in job.rest /\ x # none
      /\ vers(adds, f) # {} /\ location[f] = none /\ pendingadds = adds
      /\ x \in Version
  <2>1. /\ job.step = "next" /\ ~adding /\ n \in Node /\ f \in job.rest /\ x # none
        /\ vers(adds, f) # {} /\ location[f] = none
    BY <1>0, AtFile
  <2>2. QED BY <2>1, Now
<1>2. /\ job' \in Job /\ job'.step = "rm" /\ job'.lfn = f /\ job'.node = n
      /\ job'.rest = job.rest \ {f}
  BY <1>0, Now DEF Job, Steps
<1>3. /\ stored' \in [Node -> [File -> Version \cup {none}]]
      /\ stored'[n][f] = x
      /\ \A m \in Node, g \in File : m # n \/ g # f => stored'[m][g] = stored[m][g]
  BY <1>0, <1>1, Now
<1>4. adding' /\ \A g : inHand(g)' <=> g = f
  BY <1>2 DEF adding, inHand
<1>5. JobOK'
  <2>1. \A g \in job.rest : inbox[n][g] # none
    BY DEF IInv, JobOK
  <2>2. QED BY <1>0, <1>1, <1>2, <2>1 DEF JobOK, adding
<1>6. TypeOK'
  BY <1>0, <1>2, <1>3 DEF IInv, TypeOK
<1>7. ASSUME NEW g \in File, g # f PROVE FileOK(g)'
  <2>1. ~inHand(g) /\ ~inHand(g)'
    BY <1>1, <1>4, <1>7 DEF inHand
  <2>2. Same(g)
    BY <1>0, <1>3, <1>7, <2>1 DEF Same
  <2>3. QED BY <2>2, SameFile
<1>8. FileOK(f)'
  <2>1. FileOK(f)
    BY DEF IInv
  <2>2. (empty(f)' <=> empty(f)) /\ ~empty(f)
    BY <1>0, <1>1 DEF empty
  <2>3. Placed(f)'
    <3>1. SUFFICES ASSUME f \notin twice'
                   PROVE  OneAtATime(f)' /\ (f \notin doubled => InOnePlace(f)')
      BY <1>0 DEF Placed
    <3>2. OneAtATime(f) /\ (f \notin doubled => InOnePlace(f))
      BY <1>0, <2>1, <3>1 DEF FileOK, Placed
    <3>3. \A c \in clients : c.lfn # f
      BY <1>1, <3>2 DEF OneAtATime
    <3>4. f \notin doubled => asked[f] # {}
      BY <2>2, <3>2, <3>3 DEF InOnePlace
    <3>5. job'.step = "rm" /\ inbox'[job'.node][f] # none
      BY <1>0, <1>1, <1>2
    <3>6. QED BY <1>0, <2>2, <3>2, <3>3, <3>4, <3>5 DEF OneAtATime, InOnePlace
  <2>4. f \notin lost' \cup twice' => Kept(f)'
    BY <1>0, <1>1, <2>1, <2>2 DEF FileOK, Kept
  <2>5. f \notin mixed' => OneVersion(f)'
    <3>1. SUFFICES ASSUME f \notin mixed' PROVE OneVersion(f)'
      OBVIOUS
    <3>2. PICK v :
            /\ vers(adds, f) \subseteq {v} /\ vers(queue, f) \subseteq {v}
            /\ \A d \in clients \cup late : d.lfn = f => d.ver = v
            /\ \A m \in Node : inbox[m][f] \in {v, none}
      BY <1>0, <2>1, <3>1 DEF FileOK, OneVersion
    <3>3. stored'[job'.node][f] = v
      BY <1>1, <1>2, <1>3, <3>2
    <3>4. QED BY <1>0, <3>2, <3>3 DEF OneVersion
  <2>6. f \notin lost' \cup mixed' => Told(f)'
    BY <1>0, <1>1 DEF Told
  <2>7. QED BY <2>3, <2>4, <2>5, <2>6 DEF FileOK
<1>9. QED BY <1>5, <1>6, <1>7, <1>8 DEF IInv

LEMMA CopyFailsInv ==
  ASSUME IInv, NEW f \in File, copyFails(f), NEW n, n = job.node
  PROVE  IInv'
<1>0. /\ atFile(f) /\ isNew(f) /\ event
      /\ stored' = [stored EXCEPT ![n][f] = inbox[n][f]] \/ UNCHANGED stored
      /\ onTo(job.rest \ {f})
      /\ UNCHANGED <<clients, late, queue, adds, pendingadds, inbox, location, attrs, asked,
                     twice, mixed, doubled, lost, puts>>
  BY DEF copyFails, grid, lists, history
<1>1. /\ job.step = "next" /\ ~adding /\ n \in Node /\ location[f] = none /\ pendingadds = adds
      /\ inbox[n][f] \in Version \cup {none}
  <2>1. job.step = "next" /\ ~adding /\ n \in Node /\ location[f] = none
    BY <1>0, AtFile
  <2>2. QED BY <2>1, Now
<1>2. job' \in Job /\ JobOK' /\ ~adding'
  <2>1. \A g \in job.rest \ {f} : inbox'[job.node][g] # none
    BY <1>0 DEF IInv, JobOK
  <2>2. QED BY <1>0, <1>1, <2>1, OntoNext
<1>3. /\ stored' \in [Node -> [File -> Version \cup {none}]]
      /\ \A m \in Node, g \in File : g # f => stored'[m][g] = stored[m][g]
  <2>1. CASE UNCHANGED stored
    BY <2>1, Now
  <2>2. CASE stored' = [stored EXCEPT ![n][f] = inbox[n][f]]
    BY <1>1, <2>2, Now
  <2>3. QED BY <1>0, <2>1, <2>2
<1>4. TypeOK'
  BY <1>0, <1>2, <1>3, Counters DEF IInv, TypeOK
<1>5. ASSUME NEW g \in File, g # f PROVE FileOK(g)'
  <2>1. Same(g)
    BY <1>0, <1>1, <1>2, <1>3, <1>5 DEF Same, inHand
  <2>2. QED BY <2>1, SameFile
<1>6. FileOK(f)'
  <2>1. FileOK(f)
    BY DEF IInv
  <2>2. /\ empty(f)' <=> empty(f)
        /\ ~inHand(f)' /\ ~inHand(f)
    BY <1>0, <1>1, <1>2 DEF empty, inHand
  <2>3. Placed(f)'
    BY <1>0, <2>1, <2>2 DEF FileOK, Placed, OneAtATime, InOnePlace
  <2>4. f \notin lost' \cup twice' => Kept(f)'
    BY <1>0, <1>1, <2>1, <2>2 DEF FileOK, Kept
  <2>5. f \notin mixed' => OneVersion(f)'
    BY <1>0, <2>1, <2>2 DEF FileOK, OneVersion
  <2>6. f \notin lost' \cup mixed' => Told(f)'
    BY <1>0, <1>1 DEF Told
  <2>7. QED BY <2>3, <2>4, <2>5, <2>6 DEF FileOK
<1>7. QED BY <1>2, <1>4, <1>5, <1>6 DEF IInv

(* A file that is being added is removed from the inbox. *)
LEMMA InboxChange ==
  ASSUME IInv, adding, inbox' = [inbox EXCEPT ![job.node][job.lfn] = none]
  PROVE  /\ inbox' \in [Node -> [File -> Version \cup {none}]]
         /\ inbox'[job.node][job.lfn] = none
         /\ \A m \in Node, g \in File : m # job.node \/ g # job.lfn => inbox'[m][g] = inbox[m][g]
         /\ \A g \in job.rest : inbox'[job.node][g] # none
<1>1. job.node \in Node /\ job.lfn \in File \ job.rest /\ job.rest \subseteq File
  BY Now DEF Job
<1>2. /\ inbox' \in [Node -> [File -> Version \cup {none}]]
      /\ inbox'[job.node][job.lfn] = none
      /\ \A m \in Node, g \in File : m # job.node \/ g # job.lfn => inbox'[m][g] = inbox[m][g]
  BY <1>1, Now
<1>3. \A g \in job.rest : inbox[job.node][g] # none
  BY DEF IInv, JobOK
<1>4. QED BY <1>1, <1>2, <1>3

LEMMA Adding ==
  ASSUME IInv, adding, NEW f, f = job.lfn
  PROVE  /\ f \in File /\ job.node \in Node /\ FileOK(f) /\ inHand(f) /\ vers(adds, f) # {}
         /\ location[f] = IF job.step \in {"rm", "chmod"} THEN none ELSE job.node
         /\ pendingadds = adds
         /\ f \notin twice => (\A c \in clients : c.lfn # f) /\ vers(queue, f) = {}
         /\ f \notin twice \cup doubled => /\ asked[f] # {}
                                           /\ job.step # "rm" => empty(f)
                                           /\ \A n \in Node : n # job.node => inbox[n][f] = none
<1>1. /\ f \in File /\ job.node \in Node /\ vers(adds, f) # {}
      /\ location[f] = IF job.step \in {"rm", "chmod"} THEN none ELSE job.node
      /\ pendingadds = adds
  BY DEF IInv, JobOK, adding
<1>2. FileOK(f) /\ inHand(f)
  BY <1>1 DEF IInv, inHand
<1>3. f \notin twice => (\A c \in clients : c.lfn # f) /\ vers(queue, f) = {}
  BY <1>1, <1>2 DEF FileOK, Placed, OneAtATime
<1>4. ASSUME f \notin twice \cup doubled
      PROVE  /\ asked[f] # {}
             /\ job.step # "rm" => empty(f)
             /\ \A n \in Node : n # job.node => inbox[n][f] = none
  <2>1. InOnePlace(f)
    BY <1>2, <1>4 DEF FileOK, Placed
  <2>2. /\ asked[f] # {}
        /\ job.step # "rm" => empty(f)
        /\ job.step = "rm" => inbox[job.node][f] # none
    BY <1>2, <2>1 DEF InOnePlace
  <2>3. ASSUME NEW n \in Node, n # job.node, inbox[n][f] # none PROVE FALSE
    BY <1>1, <2>1, <2>2, <2>3 DEF InOnePlace, empty
  <2>4. QED BY <2>2, <2>3
<1>5. QED BY <1>1, <1>2, <1>3, <1>4

LEMMA RmInv ==
  ASSUME IInv, NEW f, NEW n, f = job.lfn, n = job.node, rm
  PROVE  IInv'
<1>0. /\ job.step = "rm" /\ inbox' = [inbox EXCEPT ![n][f] = none] /\ goTo("chmod")
      /\ UNCHANGED <<clients, late, queue, adds, pendingadds, stored, location, attrs, asked,
                     twice, mixed, doubled, lost, puts, events>>
  BY DEF rm, grid, lists, history
<1>1. adding
  BY <1>0 DEF adding
<1>2. /\ f \in File /\ n \in Node /\ FileOK(f) /\ inHand(f) /\ vers(adds, f) # {}
      /\ location[f] = none
      /\ f \notin twice => (\A c \in clients : c.lfn # f) /\ vers(queue, f) = {}
      /\ f \notin twice \cup doubled => /\ asked[f] # {}
                                        /\ \A m \in Node : m # n => inbox[m][f] = none
  BY <1>0, <1>1, Adding
<1>3. /\ inbox' \in [Node -> [File -> Version \cup {none}]]
      /\ inbox'[n][f] = none
      /\ \A m \in Node, g \in File : m # n \/ g # f => inbox'[m][g] = inbox[m][g]
      /\ \A g \in job.rest : inbox'[n][g] # none
  BY <1>0, <1>1, InboxChange
<1>4. /\ job' \in Job /\ JobOK' /\ adding'
      /\ job'.step = "chmod" /\ job'.lfn = f /\ job'.node = n
  BY <1>0, <1>1, <1>2, <1>3, HandNext
<1>5. TypeOK'
  BY <1>0, <1>3, <1>4 DEF IInv, TypeOK
<1>6. ASSUME NEW g \in File, g # f PROVE FileOK(g)'
  <2>1. ~inHand(g) /\ ~inHand(g)'
    BY <1>4, <1>6 DEF inHand
  <2>2. Same(g)
    BY <1>0, <1>3, <1>6, <2>1 DEF Same
  <2>3. QED BY <2>2, SameFile
<1>7. FileOK(f)'
  <2>1. inHand(f)'
    BY <1>4 DEF inHand
  <2>2. Placed(f)'
    <3>1. SUFFICES ASSUME f \notin twice'
                   PROVE  OneAtATime(f)' /\ (f \notin doubled => InOnePlace(f)')
      BY <1>0 DEF Placed
    <3>2. OneAtATime(f)
      BY <1>0, <1>2, <3>1 DEF FileOK, Placed
    <3>3. f \notin doubled => empty(f)' /\ \A m \in Node : inbox'[m][f] = none
      BY <1>0, <1>2, <1>3, <3>1 DEF empty
    <3>4. QED BY <1>0, <1>2, <1>4, <3>1, <3>2, <3>3 DEF OneAtATime, InOnePlace
  <2>3. f \notin lost' \cup twice' => Kept(f)'
    BY <1>0, <1>2, <1>4 DEF Kept
  <2>4. f \notin mixed' => OneVersion(f)'
    <3>1. SUFFICES ASSUME f \notin mixed' PROVE OneVersion(f)'
      OBVIOUS
    <3>2. PICK v :
            /\ vers(adds, f) \subseteq {v} /\ vers(queue, f) \subseteq {v}
            /\ \A d \in clients \cup late : d.lfn = f => d.ver = v
            /\ \A m \in Node : inbox[m][f] \in {v, none}
            /\ stored[n][f] = v
      BY <1>0, <1>2, <3>1 DEF FileOK, OneVersion
    <3>3. \A m \in Node : inbox'[m][f] \in {v, none}
      BY <1>2, <1>3, <3>2
    <3>4. QED BY <1>0, <1>4, <3>2, <3>3 DEF OneVersion
  <2>5. f \notin lost' \cup mixed' => Told(f)'
    BY <1>0, <1>2 DEF Told
  <2>6. QED BY <2>2, <2>3, <2>4, <2>5 DEF FileOK
<1>8. QED BY <1>4, <1>5, <1>6, <1>7 DEF IInv

LEMMA RmFailsInv ==
  ASSUME IInv, NEW f, NEW n, f = job.lfn, n = job.node, rmFails
  PROVE  IInv'
<1>0. /\ job.step = "rm" /\ event /\ onTo(job.rest)
      /\ \/ UNCHANGED <<inbox, lost>>
         \/ inbox' = [inbox EXCEPT ![n][f] = none] /\ lost' = lost \cup {f}
      /\ UNCHANGED <<clients, late, queue, adds, pendingadds, stored, location, attrs, asked,
                     twice, mixed, doubled, puts>>
  BY DEF rmFails, grid, lists, history
<1>1. adding
  BY <1>0 DEF adding
<1>2. /\ f \in File /\ n \in Node /\ FileOK(f) /\ inHand(f) /\ location[f] = none
      /\ pendingadds = adds
      /\ f \notin twice => (\A c \in clients : c.lfn # f) /\ vers(queue, f) = {}
      /\ f \notin twice \cup doubled => /\ asked[f] # {}
                                        /\ \A m \in Node : m # n => inbox[m][f] = none
  BY <1>0, <1>1, Adding
<1>3. /\ inbox' \in [Node -> [File -> Version \cup {none}]]
      /\ inbox'[n][f] \in {none, inbox[n][f]}
      /\ \A m \in Node, g \in File : m # n \/ g # f => inbox'[m][g] = inbox[m][g]
      /\ \A g \in job.rest : inbox'[n][g] # none
  <2>1. CASE UNCHANGED inbox
    BY <2>1, Now DEF IInv, JobOK
  <2>2. CASE inbox' = [inbox EXCEPT ![n][f] = none]
    BY <1>1, <2>2, InboxChange
  <2>3. QED BY <1>0, <2>1, <2>2
<1>4. job' \in Job /\ JobOK' /\ ~adding'
  BY <1>0, <1>2, <1>3, OntoNext
<1>5. /\ lost \subseteq lost' /\ lost' \in SUBSET File
      /\ f \in lost' \/ UNCHANGED inbox
      /\ \A g : g # f => (g \in lost' <=> g \in lost)
  BY <1>0, <1>2 DEF IInv, TypeOK
<1>6. TypeOK'
  BY <1>0, <1>3, <1>4, <1>5, Counters DEF IInv, TypeOK
<1>7. ASSUME NEW g \in File, g # f PROVE FileOK(g)'
  <2>1. ~inHand(g) /\ ~inHand(g)'
    BY <1>4, <1>7 DEF inHand
  <2>2. Same(g)
    BY <1>0, <1>3, <1>5, <1>7, <2>1 DEF Same
  <2>3. QED BY <2>2, SameFile
<1>8. FileOK(f)'
  <2>1. ~inHand(f)'
    BY <1>4 DEF inHand
  <2>2. Placed(f)'
    <3>1. SUFFICES ASSUME f \notin twice'
                   PROVE  OneAtATime(f)' /\ (f \notin doubled => InOnePlace(f)')
      BY <1>0 DEF Placed
    <3>2. OneAtATime(f)
      BY <1>0, <1>2, <3>1 DEF FileOK, Placed
    <3>3. f \notin doubled => \A m, k \in Node : inbox'[m][f] # none /\ inbox'[k][f] # none => m = k
      BY <1>0, <1>2, <1>3, <3>1
    <3>4. QED BY <1>0, <1>2, <2>1, <3>1, <3>2, <3>3 DEF OneAtATime, InOnePlace
  <2>3. f \notin lost' \cup twice' => Kept(f)'
    <3>1. SUFFICES ASSUME f \notin lost' \cup twice' PROVE Kept(f)'
      OBVIOUS
    <3>2. Kept(f) /\ (empty(f)' <=> empty(f))
      BY <1>0, <1>2, <1>5, <3>1 DEF FileOK, empty
    <3>3. QED BY <1>0, <3>2 DEF Kept
  <2>4. f \notin mixed' => OneVersion(f)'
    <3>1. SUFFICES ASSUME f \notin mixed' PROVE OneVersion(f)'
      OBVIOUS
    <3>2. PICK v :
            /\ vers(adds, f) \subseteq {v} /\ vers(queue, f) \subseteq {v}
            /\ \A d \in clients \cup late : d.lfn = f => d.ver = v
            /\ \A m \in Node : inbox[m][f] \in {v, none}
      BY <1>0, <1>2, <3>1 DEF FileOK, OneVersion
    <3>3. \A m \in Node : inbox'[m][f] \in {v, none}
      BY <1>2, <1>3, <3>2
    <3>4. QED BY <1>0, <2>1, <3>2, <3>3 DEF OneVersion
  <2>5. f \notin lost' \cup mixed' => Told(f)'
    BY <1>0, <1>2 DEF Told
  <2>6. QED BY <2>2, <2>3, <2>4, <2>5 DEF FileOK
<1>9. QED BY <1>4, <1>6, <1>7, <1>8 DEF IInv

LEMMA RegisterInv ==
  ASSUME IInv, NEW f, NEW n, f = job.lfn, n = job.node, registerFileWithRc
  PROVE  IInv'
<1>0. /\ job.step = "chmod" /\ location' = [location EXCEPT ![f] = n] /\ goTo("attrs")
      /\ UNCHANGED <<clients, late, queue, adds, pendingadds, inbox, stored, attrs, asked, twice,
                     mixed, doubled, lost, puts, events>>
  BY DEF registerFileWithRc, lists, history
<1>1. adding
  BY <1>0 DEF adding
<1>2. /\ f \in File /\ n \in Node /\ n # none /\ FileOK(f) /\ inHand(f) /\ vers(adds, f) # {}
      /\ f \notin twice => (\A c \in clients : c.lfn # f) /\ vers(queue, f) = {}
      /\ f \notin twice \cup doubled => asked[f] # {} /\ empty(f)
  BY <1>0, <1>1, Adding, noneAssumption
<1>3. /\ location' \in [File -> Node \cup {none}] /\ location'[f] = n
      /\ \A g \in File \ {f} : location'[g] = location[g]
  BY <1>0, <1>2, Now
<1>4. \A g \in job.rest : inbox[job.node][g] # none
  BY DEF IInv, JobOK
<1>5. /\ job' \in Job /\ JobOK' /\ adding'
      /\ job'.step = "attrs" /\ job'.lfn = f /\ job'.node = n
  BY <1>0, <1>1, <1>2, <1>3, <1>4, HandNext
<1>6. TypeOK'
  BY <1>0, <1>3, <1>5 DEF IInv, TypeOK
<1>7. ASSUME NEW g \in File, g # f PROVE FileOK(g)'
  <2>1. ~inHand(g) /\ ~inHand(g)'
    BY <1>5, <1>7 DEF inHand
  <2>2. Same(g)
    BY <1>0, <1>3, <1>7, <2>1 DEF Same
  <2>3. QED BY <2>2, SameFile
<1>8. FileOK(f)'
  <2>1. /\ inHand(f)'
        /\ empty(f)' <=> empty(f)
    BY <1>0, <1>5 DEF inHand, empty
  <2>2. Placed(f)'
    <3>1. SUFFICES ASSUME f \notin twice'
                   PROVE  OneAtATime(f)' /\ (f \notin doubled => InOnePlace(f)')
      BY <1>0 DEF Placed
    <3>2. OneAtATime(f) /\ (f \notin doubled => InOnePlace(f))
      BY <1>0, <1>2, <3>1 DEF FileOK, Placed
    <3>3. QED BY <1>0, <1>2, <1>5, <2>1, <3>1, <3>2 DEF OneAtATime, InOnePlace
  <2>3. Kept(f)' /\ Told(f)'
    BY <1>2, <1>3, <1>5 DEF Kept, Told
  <2>4. f \notin mixed' => OneVersion(f)'
    BY <1>0, <1>2, <1>5 DEF FileOK, OneVersion
  <2>5. QED BY <2>2, <2>3, <2>4 DEF FileOK
<1>9. QED BY <1>5, <1>6, <1>7, <1>8 DEF IInv

LEMMA AttributesInv ==
  ASSUME IInv, NEW f, NEW n, f = job.lfn, n = job.node, registerFileAndAttribsWithRc
  PROVE  IInv'
<1> DEFINE v == getPendingAdd(f)
<1>0. /\ job.step = "attrs" /\ attrs' = [attrs EXCEPT ![f] = v] /\ goTo("open")
      /\ UNCHANGED <<clients, late, queue, adds, pendingadds, inbox, stored, location, asked,
                     twice, mixed, doubled, lost, puts, events>>
  BY DEF registerFileAndAttribsWithRc, lists, history
<1>1. adding
  BY <1>0 DEF adding
<1>2. /\ f \in File /\ n \in Node /\ n # none /\ FileOK(f) /\ inHand(f) /\ vers(adds, f) # {}
      /\ location[f] = n
      /\ f \notin twice => (\A c \in clients : c.lfn # f)
      /\ f \notin twice \cup doubled => asked[f] # {} /\ empty(f)
  BY <1>0, <1>1, Adding, noneAssumption
<1>3. v \in vers(adds, f) /\ v \in Version /\ v # none
  <2>1. /\ first(f) \in 1..Len(adds) /\ v = adds[first(f)].ver
        /\ v \in vers(adds, f)
    BY <1>2, Now, FirstFacts DEF getPendingAdd
  <2>2. first(f) \in DOMAIN adds /\ adds \in Seq(Put)
    BY <2>1, Now
  <2>3. v \in Version
    BY <2>1, <2>2, PutFacts
  <2>4. QED BY <2>1, <2>3, noneAssumption
<1> HIDE DEF v
<1>4. /\ attrs' \in [File -> Version \cup {none}] /\ attrs'[f] = v
      /\ \A g \in File \ {f} : attrs'[g] = attrs[g]
  BY <1>0, <1>2, <1>3, Now
<1>5. /\ job' \in Job /\ JobOK' /\ adding'
      /\ job'.step = "open" /\ job'.lfn = f /\ job'.node = n
  <2>1. \A g \in job.rest : inbox[job.node][g] # none
    BY DEF IInv, JobOK
  <2>2. QED BY <1>0, <1>1, <1>2, <2>1, HandNext
<1>6. TypeOK'
  BY <1>0, <1>4, <1>5 DEF IInv, TypeOK
<1>7. ASSUME NEW g \in File, g # f PROVE FileOK(g)'
  <2>1. ~inHand(g) /\ ~inHand(g)'
    BY <1>5, <1>7 DEF inHand
  <2>2. Same(g)
    BY <1>0, <1>4, <1>7, <2>1 DEF Same
  <2>3. QED BY <2>2, SameFile
<1>8. FileOK(f)'
  <2>1. /\ inHand(f)'
        /\ empty(f)' <=> empty(f)
    BY <1>0, <1>5 DEF inHand, empty
  <2>2. Placed(f)'
    <3>1. SUFFICES ASSUME f \notin twice'
                   PROVE  OneAtATime(f)' /\ (f \notin doubled => InOnePlace(f)')
      BY <1>0 DEF Placed
    <3>2. OneAtATime(f) /\ (f \notin doubled => InOnePlace(f))
      BY <1>0, <1>2, <3>1 DEF FileOK, Placed
    <3>3. QED BY <1>0, <1>2, <1>5, <2>1, <3>1, <3>2 DEF OneAtATime, InOnePlace
  <2>3. Kept(f)'
    BY <1>0, <1>2 DEF Kept
  <2>4. f \notin mixed' => OneVersion(f)' /\ Told(f)'
    <3>1. SUFFICES ASSUME f \notin mixed' PROVE OneVersion(f)' /\ Told(f)'
      OBVIOUS
    <3>2. PICK w :
            /\ vers(adds, f) \subseteq {w} /\ vers(queue, f) \subseteq {w}
            /\ \A d \in clients \cup late : d.lfn = f => d.ver = w
            /\ \A m \in Node : inbox[m][f] \in {w, none}
            /\ stored[n][f] = w
      BY <1>0, <1>2, <3>1 DEF FileOK, OneVersion
    <3>3. OneVersion(f)'
      BY <1>0, <1>5, <3>2 DEF OneVersion
    <3>4. stored[n][f] = v
      BY <1>3, <3>2
    <3>5. QED BY <1>0, <1>2, <1>3, <1>4, <3>3, <3>4 DEF Told
  <2>5. QED BY <2>2, <2>3, <2>4 DEF FileOK
<1>9. QED BY <1>5, <1>6, <1>7, <1>8 DEF IInv

LEMMA GiveUpInv ==
  ASSUME IInv, NEW f, NEW n, f = job.lfn, n = job.node, giveUp
  PROVE  IInv'
<1>0. /\ job.step \in {"chmod", "attrs"} /\ event /\ lost' = lost \cup {f}
      /\ UNCHANGED stored \/ stored' = [stored EXCEPT ![n][f] = none]
      /\ UNCHANGED location \/ location' = [location EXCEPT ![f] = none]
      /\ onTo(job.rest)
      /\ UNCHANGED <<clients, late, queue, adds, pendingadds, inbox, attrs, asked, twice, mixed,
                     doubled, puts>>
  BY DEF giveUp, lists, history
<1>1. adding
  BY <1>0 DEF adding
<1>2. /\ f \in File /\ n \in Node /\ FileOK(f) /\ inHand(f) /\ pendingadds = adds
      /\ f \notin twice => (\A c \in clients : c.lfn # f) /\ vers(queue, f) = {}
      /\ f \notin twice \cup doubled => asked[f] # {} /\ empty(f)
  BY <1>0, <1>1, Adding
<1>3. /\ stored' \in [Node -> [File -> Version \cup {none}]]
      /\ \A m \in Node, g \in File : g # f => stored'[m][g] = stored[m][g]
  <2>1. CASE UNCHANGED stored
    BY <2>1, Now
  <2>2. CASE stored' = [stored EXCEPT ![n][f] = none]
    BY <1>2, <2>2, Now
  <2>3. QED BY <1>0, <2>1, <2>2
<1>4. /\ location' \in [File -> Node \cup {none}]
      /\ \A g \in File \ {f} : location'[g] = location[g]
  <2>1. CASE UNCHANGED location
    BY <2>1, Now
  <2>2. CASE location' = [location EXCEPT ![f] = none]
    BY <1>2, <2>2, Now
  <2>3. QED BY <1>0, <2>1, <2>2
<1>5. job' \in Job /\ JobOK' /\ ~adding'
  <2>1. \A g \in job.rest : inbox'[job.node][g] # none
    BY <1>0 DEF IInv, JobOK
  <2>2. QED BY <1>0, <1>2, <2>1, OntoNext
<1>6. TypeOK'
  <2>1. lost' \in SUBSET File
    BY <1>0, <1>2 DEF IInv, TypeOK
  <2>2. QED BY <1>0, <1>3, <1>4, <1>5, <2>1, Counters DEF IInv, TypeOK
<1>7. ASSUME NEW g \in File, g # f PROVE FileOK(g)'
  <2>1. ~inHand(g) /\ ~inHand(g)' /\ (g \in lost => g \in lost')
    BY <1>0, <1>5, <1>7 DEF inHand
  <2>2. Same(g)
    BY <1>0, <1>3, <1>4, <1>7, <2>1 DEF Same
  <2>3. QED BY <2>2, SameFile
<1>8. FileOK(f)'
  <2>1. /\ ~inHand(f)' /\ f \in lost'
        /\ empty(f)' <=> empty(f)
    BY <1>0, <1>5 DEF inHand, empty
  <2>2. Placed(f)'
    <3>1. SUFFICES ASSUME f \notin twice'
                   PROVE  OneAtATime(f)' /\ (f \notin doubled => InOnePlace(f)')
      BY <1>0 DEF Placed
    <3>2. OneAtATime(f) /\ (f \notin doubled => InOnePlace(f))
      BY <1>0, <1>2, <3>1 DEF FileOK, Placed
    <3>3. QED BY <1>0, <1>2, <2>1, <3>1, <3>2 DEF OneAtATime, InOnePlace
  <2>3. f \notin mixed' => OneVersion(f)'
    BY <1>0, <1>2, <2>1 DEF FileOK, OneVersion
  <2>4. QED BY <2>1, <2>2, <2>3 DEF FileOK
<1>9. QED BY <1>5, <1>6, <1>7, <1>8 DEF IInv

LEMMA AddDoneInv ==
  ASSUME IInv, NEW f, NEW n, f = job.lfn, n = job.node, addDone
  PROVE  IInv'
<1>0. /\ job.step = "open" /\ adds' = removePendingAdd(f) /\ pendingadds' = <<>> /\ goTo("write")
      /\ UNCHANGED <<clients, late, queue, inbox, stored, location, attrs, asked, twice, mixed,
                     doubled, lost, puts, events>>
  BY DEF addDone, grid, history
<1>1. adding
  BY <1>0 DEF adding
<1>2. /\ f \in File /\ n \in Node /\ n # none /\ FileOK(f) /\ inHand(f) /\ vers(adds, f) # {}
      /\ location[f] = n
      /\ f \notin twice => (\A c \in clients : c.lfn # f)
      /\ f \notin twice \cup doubled => asked[f] # {} /\ empty(f)
  BY <1>0, <1>1, Adding, noneAssumption
<1>3. PICK k \in 1..Len(adds) : adds' = RemoveAt(adds, k) /\ adds[k].lfn = f
  BY <1>0, <1>2, Now, FirstFacts DEF removePendingAdd
<1>4. ASSUME NEW g
      PROVE  /\ adds' \in Seq(Put)
             /\ vers(adds', g) \subseteq vers(adds, g)
             /\ g # f => vers(adds', g) = vers(adds, g)
             /\ once(adds, g) => once(adds', g)
  BY <1>3, Now, RemoveVers
<1>5. job' \in Job /\ JobOK' /\ ~adding' /\ job'.step = "write"
  <2>1. job'.step = "write"
    BY <1>0, Now DEF goTo, Job
  <2>2. QED BY <1>0, <1>1, <2>1, WriteNext
<1>6. TypeOK'
  <2>1. adds' \in Seq(Put) /\ <<>> \in Seq(Put)
    BY <1>4
  <2>2. QED BY <1>0, <1>5, <2>1 DEF IInv, TypeOK
<1>7. ASSUME NEW g \in File, g # f PROVE FileOK(g)'
  <2>1. ~inHand(g) /\ ~inHand(g)'
    BY <1>5, <1>7 DEF inHand
  <2>2. Same(g)
    BY <1>0, <1>4, <1>7, <2>1 DEF Same
  <2>3. QED BY <2>2, SameFile
<1>8. FileOK(f)'
  <2>1. /\ ~inHand(f)'
        /\ empty(f)' <=> empty(f)
    BY <1>0, <1>5 DEF inHand, empty
  <2>2. vers(adds, f) = {} => vers(adds', f) = {}
    BY <1>4
  <2>3. Placed(f)'
    <3>1. SUFFICES ASSUME f \notin twice'
                   PROVE  OneAtATime(f)' /\ (f \notin doubled => InOnePlace(f)')
      BY <1>0 DEF Placed
    <3>2. OneAtATime(f) /\ (f \notin doubled => InOnePlace(f))
      BY <1>0, <1>2, <3>1 DEF FileOK, Placed
    <3>3. once(adds', f)
      BY <1>4, <3>2 DEF OneAtATime
    <3>4. QED BY <1>0, <2>1, <2>2, <3>2, <3>3 DEF OneAtATime, InOnePlace
  <2>4. Kept(f)'
    BY <1>0, <1>2 DEF Kept
  <2>5. f \notin mixed' => OneVersion(f)'
    <3>1. \A v : vers(adds, f) \subseteq {v} => vers(adds', f) \subseteq {v}
      BY <1>4
    <3>2. QED BY <1>0, <1>2, <2>1, <3>1 DEF FileOK, OneVersion
  <2>6. f \notin lost' \cup mixed' => Told(f)'
    BY <1>0, <1>2, <1>5 DEF FileOK, Told
  <2>7. QED BY <2>3, <2>4, <2>5, <2>6 DEF FileOK
<1>9. QED BY <1>5, <1>6, <1>7, <1>8 DEF IInv

(* The list that is read is the one in memory, or empty. *)
LEMMA RestartInv ==
  ASSUME IInv, restart
  PROVE  IInv'
<1>0. /\ event /\ adds' = pendingadds /\ queue' = <<>> /\ job' = noJob
      /\ lost' = lost \cup {queue[i].lfn : i \in DOMAIN queue}
                      \cup (IF job.step = "write" THEN {adds[i].lfn : i \in DOMAIN adds} ELSE {})
                      \cup (IF job.step \in {"chmod", "attrs"} THEN {job.lfn} ELSE {})
      /\ UNCHANGED <<clients, late, inbox, stored, location, attrs, pendingadds, asked, twice,
                     mixed, doubled, puts>>
  BY DEF restart, grid, history
<1>1. noJob \in Job /\ noJob.step = "idle" /\ noJob.rest = {}
  BY DEF noJob, Job, Steps
<1>2. job' \in Job /\ JobOK' /\ ~adding'
  BY <1>0, <1>1 DEF JobOK, adding
<1>3. lost' \in SUBSET File /\ lost \subseteq lost'
  <2>1. /\ \A i \in DOMAIN queue : queue[i].lfn \in File
        /\ \A i \in DOMAIN adds : adds[i].lfn \in File
    BY Now, PutFacts
  <2>2. job.step \in {"chmod", "attrs"} => job.lfn \in File
    BY Now DEF adding
  <2>3. lost \in SUBSET File
    BY DEF IInv, TypeOK
  <2>4. QED BY <1>0, <2>1, <2>2, <2>3
<1>4. TypeOK'
  <2>1. queue' \in Seq(Put) /\ adds' \in Seq(Put)
    BY <1>0, Now
  <2>2. QED BY <1>0, <1>2, <1>3, <2>1, Counters DEF IInv, TypeOK
<1>5. \/ adds' = adds
      \/ /\ adds' = <<>>
         /\ \A f : f \notin lost' => vers(adds, f) = {}
  BY <1>0 DEF IInv, JobOK, vers
<1>6. \A f : f \notin lost' => /\ vers(queue, f) = {}
                              /\ ~(job.step \in {"chmod", "attrs"} /\ job.lfn = f)
  BY <1>0 DEF vers
<1>7. ASSUME NEW f
      PROVE  /\ vers(<<>>, f) = {} /\ once(<<>>, f)
             /\ vers(adds', f) \subseteq vers(adds, f)
             /\ once(adds, f) => once(adds', f)
  <2>1. vers(<<>>, f) = {} /\ once(<<>>, f)
    BY DEF vers, once
  <2>2. QED BY <1>5, <2>1
<1>8. ASSUME NEW f \in File PROVE FileOK(f)'
  <2>1. FileOK(f)
    BY DEF IInv
  <2>2. /\ empty(f)' <=> empty(f)
        /\ ~inHand(f)' /\ vers(queue', f) = {} /\ once(queue', f) /\ job'.step = "idle"
    BY <1>0, <1>1, <1>2, <1>7 DEF empty, inHand
  <2>3. Placed(f)'
    <3>1. SUFFICES ASSUME f \notin twice'
                   PROVE  OneAtATime(f)' /\ (f \notin doubled => InOnePlace(f)')
      BY <1>0 DEF Placed
    <3>2. OneAtATime(f) /\ (f \notin doubled => InOnePlace(f))
      BY <1>0, <2>1, <3>1 DEF FileOK, Placed
    <3>3. once(adds', f) /\ (vers(adds, f) = {} => vers(adds', f) = {})
      BY <1>7, <3>2 DEF OneAtATime
    <3>4. QED BY <1>0, <2>2, <3>2, <3>3 DEF OneAtATime, InOnePlace
  <2>4. f \notin lost' \cup twice' => Kept(f)'
    <3>1. SUFFICES ASSUME f \notin lost' \cup twice', asked[f] # {}, location[f] = none
                   PROVE  vers(adds', f) # {} /\ ~empty(f)
      BY <1>0, <2>2 DEF Kept
    <3>2. /\ vers(adds, f) # {} \/ vers(queue, f) # {}
          /\ ~empty(f) \/ (job.step = "chmod" /\ job.lfn = f)
      BY <1>0, <1>3, <2>1, <3>1 DEF FileOK, Kept
    <3>3. QED BY <1>5, <1>6, <3>1, <3>2
  <2>5. f \notin mixed' => OneVersion(f)'
    <3>1. \A v : vers(adds, f) \subseteq {v} => vers(adds', f) \subseteq {v}
      BY <1>7
    <3>2. QED BY <1>0, <2>1, <2>2, <3>1 DEF FileOK, OneVersion
  <2>6. f \notin lost' \cup mixed' => Told(f)'
    BY <1>0, <1>3, <1>6, <2>1 DEF FileOK, Told
  <2>7. QED BY <2>3, <2>4, <2>5, <2>6 DEF FileOK
<1>9. QED BY <1>2, <1>4, <1>8 DEF IInv

LEMMA StepInv ==
  ASSUME IInv, [Next]_vars
  PROVE  IInv'
<1>1. CASE UNCHANGED vars
  <2>1. UNCHANGED <<clients, late, queue, adds, pendingadds, inbox, stored, location, attrs, job,
                    asked, twice, mixed, doubled, lost, puts, events>>
    BY <1>1 DEF vars, grid, history
  <2>2. TypeOK'
    BY <2>1 DEF IInv, TypeOK
  <2>3. JobOK'
    BY <2>1 DEF IInv, JobOK, adding
  <2>4. ASSUME NEW f \in File PROVE FileOK(f)'
    <3>1. inHand(f)' <=> inHand(f)
      BY <2>1 DEF inHand, adding
    <3>2. Same(f)
      BY <2>1, <3>1 DEF Same
    <3>3. QED BY <3>2, SameFile
  <2>5. QED BY <2>2, <2>3, <2>4 DEF IInv
<1>2. CASE unNewFile
  <2>1. CASE \E f \in File : passFile(f) \/ copyFromInbox(f) \/ copyFails(f)
    BY <2>1, PassFileInv, CopyInv, CopyFailsInv
  <2>2. CASE rm \/ rmFails
    BY <2>2, RmInv, RmFailsInv
  <2>3. CASE registerFileWithRc \/ registerFileAndAttribsWithRc
    BY <2>3, RegisterInv, AttributesInv
  <2>4. CASE giveUp \/ addDone
    BY <2>4, GiveUpInv, AddDoneInv
  <2>5. QED BY <1>2, <2>1, <2>2, <2>3, <2>4 DEF unNewFile
<1>3. CASE savePendingAddList \/ handleMessagePutFile
  BY <1>3, SaveInv, HandleMessageInv
<1>4. CASE handleNewFiles
  BY <1>4, ScanInv DEF handleNewFiles
<1>5. CASE Clients
  BY <1>5, StartPutInv, PutFileInv, CopyToInboxInv, CopyFailedInv, RenamedLateInv DEF Clients
<1>6. CASE restart
  BY <1>6, RestartInv
<1>7. CASE \E f \in File : deleteLogicalFile(f)
  BY <1>7, DeleteInv
<1>8. QED BY <1>1, <1>2, <1>3, <1>4, <1>5, <1>6, <1>7 DEF Next, MainThread

LEMMA Invariance == Spec => []IInv
<1>1. Init => IInv
  BY InitInv
<1>2. IInv /\ [Next]_vars => IInv'
  BY StepInv
<1>3. QED BY <1>1, <1>2, PTL DEF Spec

-----------------------------------------------------------------------------
(* What follows *)

(* Every variable has its type, in every reachable state. *)
THEOREM TypeCorrect == Spec => []TypeOK
<1>1. IInv => TypeOK
  BY DEF IInv
<1>2. QED BY <1>1, Invariance, PTL

(* What a client has announced can still be added, or is in the catalogue:  *)
(* unNewFile and the calls that save the list never strand it, whichever    *)
(* step fails and wherever the process dies, but for the files in lost and  *)
(* twice, whose history variables name the steps that cost them.            *)
THEOREM NothingStranded == Spec => []NotStranded
<1>1. IInv => NotStranded
  <2>1. SUFFICES ASSUME IInv, NEW f \in File \ (lost \cup twice), asked[f] # {},
                        location[f] = none
                 PROVE  /\ announced(f)
                        /\ \/ \E n \in Node : inbox[n][f] # none
                           \/ job.step = "chmod" /\ job.lfn = f
    BY DEF NotStranded
  <2>2. Kept(f)
    BY <2>1 DEF IInv, FileOK
  <2>3. /\ vers(adds, f) # {} \/ vers(queue, f) # {}
        /\ ~empty(f) \/ (job.step = "chmod" /\ job.lfn = f)
    BY <2>1, <2>2 DEF Kept
  <2>4. vers(queue, f) # {} => \E i \in DOMAIN queue : queue[i].lfn = f
    BY DEF vers
  <2>5. announced(f)
    BY <2>3, <2>4, EntriesVers DEF announced
  <2>6. QED BY <2>3, <2>5 DEF empty
<1>2. QED BY <1>1, Invariance, PTL

(* registerFileAndAttribsWithRc gives a file the attributes of the data that *)
(* was copied, though getPendingAdd takes the first entry of several.        *)
THEOREM AttributesRight == Spec => []CatalogueTells
<1>1. IInv => CatalogueTells
  BY DEF IInv, FileOK, Told, CatalogueTells
<1>2. QED BY <1>1, Invariance, PTL

(* checkNodeForNewFiles does not bring a deleted file back, unless it was    *)
(* put again while an earlier put was not over, or a copy that failed for    *)
(* the client (copyToSEInbox) was renamed in a second inbox after all.       *)
THEOREM DeletedForGood == Spec => []DeletedStays
<1>1. IInv => DeletedStays
  BY DEF IInv, FileOK, Placed, InOnePlace, DeletedStays
<1>2. QED BY <1>1, Invariance, PTL
===============================================================================
