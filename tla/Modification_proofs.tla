------------------------- MODULE Modification_proofs -------------------------
(***************************************************************************)
(* Modifying and locking files, for any nodes, files, users, versions,     *)
(* failures and restarts: a locked file gets versions of its holder only,  *)
(* what is announced can be carried out, and what is carried out reaches   *)
(* every replica.                                                          *)
(***************************************************************************)
EXTENDS Modification, SequenceTheorems, FiniteSetTheorems, WellFoundedInduction, TLAPS

(* The elements of a list that are about f; f is there once.               *)
of(q, f) == {q[i] : i \in {j \in DOMAIN q : q[j].lfn = f}}
once(q, f) == \A i, j \in DOMAIN q : q[i].lfn = f /\ q[j].lfn = f => i = j

(* The messages that announce a version of f. *)
asks(q, f) == {i \in DOMAIN q : q[i].type = "modify" /\ q[i].lfn = f}

on(f, steps) == job.lfn = f /\ job.step \in steps

(* What the main thread goes by. *)
JobOK ==
  /\ IF job.step \in {"idle", "try"} THEN job.lfn = nobody
                                     ELSE job.lfn \in File /\ job.host \in Node
  /\ job.step = "try" => job.host \in Node
  /\ job.step \in {"copy", "rm", "register"} => announced(job.lfn, job.host) # {}

(* Every version on its way is one that its author has announced. *)
Origin ==
  /\ \A x \in uploads : x.ver \in DOMAIN author /\ author[x.ver] \in User
  /\ \A i \in DOMAIN msgs : msgs[i].type = "modify" =>
        /\ msgs[i].host \in Node /\ msgs[i].ver \in DOMAIN author
        /\ author[msgs[i].ver] = msgs[i].sender
  /\ \A i \in DOMAIN newMods : newMods[i].ver \in DOMAIN author

(* All messages and versions of f on their way are of one user, who is the *)
(* only one that may hold the lock.                                        *)
OneAuthor(f) ==
  \E s : /\ lockedby[f] \in {nobody, s}
         /\ \A m \in of(msgs, f) : m.sender = s
         /\ \A m \in of(newMods, f) : author[m.ver] = s

(* One modification of f after the other; its version is in the inbox.     *)
OneVersion(f) ==
  /\ once(newMods, f)
  /\ \A x, y \in uploads : x.lfn = f /\ y.lfn = f => x = y
  /\ \A i, j \in asks(msgs, f) : i = j
  /\ \A x \in uploads : x.lfn = f =>
        /\ inbox[f][x.host] = x.ver
        /\ asks(msgs, f) = {} /\ ~modificationsPending(f) /\ job.lfn # f
  /\ \A i \in asks(msgs, f) :
        /\ inbox[f][msgs[i].host] = msgs[i].ver
        /\ ~modificationsPending(f) /\ job.lfn # f
  /\ \A m \in of(newMods, f) :
        inbox[f][m.host] = m.ver \/ (on(f, {"register"}) /\ job.host = m.host)
  /\ on(f, {"fetch", "push"}) => of(newMods, f) = {}

(* Every copy of f is of the current version or will be: its entry names   *)
(* the one node that has, or is about to have, that version.               *)
Covered(f, n) == \E e \in of(pendMods, f) : e.host = n

Copies(f) ==
  /\ \A t \in transfers : t.lfn = f => /\ t.ver = version[f]
                                       /\ of(pendMods, f) = {} /\ job.lfn # f
  /\ \A d, e \in of(pendMods, f) : d.source = e.source
  /\ \A e \in of(pendMods, f) : e.host # e.source
  /\ \A e \in of(pendMods, f), m \in of(newMods, f) : e.source = m.host
  /\ job.lfn = f => \A e \in of(pendMods, f) : e.source = job.host
  /\ of(newMods, f) = {} \/ on(f, {"rm", "register"}) =>
        /\ \A n \in copies[f] : content[f][n] = version[f] \/ Covered(f, n)
        /\ \A e \in of(pendMods, f) : content[f][e.source] \in {version[f], nothing}
  /\ on(f, {"copy"}) => inbox[f][job.host] = version[f]
  /\ on(f, {"copy", "rm", "register"}) => \A n \in copies[f] \ {job.host} : Covered(f, n)
  /\ on(f, {"rm", "register", "fetch", "push"}) => content[f][job.host] = version[f]

IInv == /\ TypeOK /\ JobOK /\ Origin
        /\ \A f \in File : f \notin raced => OneAuthor(f)
        /\ \A f \in File : f \notin mixed => OneVersion(f) /\ Copies(f)

(* A copy of f that failed may take effect late, but on none of the nodes  *)
(* where a version of f is, or is looked for, in the inbox.                *)
Busy(f, n) ==
  \/ \E x \in uploads : x.lfn = f /\ x.host = n
  \/ \E i \in asks(msgs, f) : msgs[i].host = n
  \/ \E m \in of(newMods, f) : m.host = n
  \/ job.lfn = f /\ job.host = n

Elsewhere(f) == \A x \in late : x.lfn = f => ~Busy(f, x.host)

Inv == IInv /\ \A f \in File \ mixed : Elsewhere(f)

-----------------------------------------------------------------------------
(* Sequences and their places *)

(* What RemoveAt makes of a sequence. *)
LEMMA RemoveAtFacts ==
  ASSUME NEW S, NEW q \in Seq(S), NEW p \in 1..Len(q)
  PROVE  /\ RemoveAt(q, p) \in Seq(S)
         /\ Len(RemoveAt(q, p)) = Len(q) - 1
         /\ DOMAIN RemoveAt(q, p) = 1..(Len(q) - 1)
         /\ \A i \in 1..(Len(q) - 1) :
              RemoveAt(q, p)[i] = IF i < p THEN q[i] ELSE q[i + 1]
<1> DEFINE l == SubSeq(q, 1, p - 1)
           r == SubSeq(q, p + 1, Len(q))
<1>1. /\ l \in Seq(S) /\ Len(l) = p - 1
      /\ \A i \in 1..(p - 1) : l[i] = q[i]
  OBVIOUS
<1>2. /\ r \in Seq(S) /\ Len(r) = Len(q) - p
      /\ \A i \in 1..(Len(q) - p) : r[i] = q[p + i]
  OBVIOUS
<1>3. RemoveAt(q, p) = l \o r
  BY DEF RemoveAt
<1> HIDE DEF l, r
<1>4. /\ l \o r \in Seq(S)
      /\ Len(l \o r) = Len(l) + Len(r)
      /\ \A i \in 1..(Len(l) + Len(r)) :
           (l \o r)[i] = IF i <= Len(l) THEN l[i] ELSE r[i - Len(l)]
  BY <1>1, <1>2, ConcatProperties
<1>5. Len(l \o r) = Len(q) - 1 /\ DOMAIN (l \o r) = 1..(Len(q) - 1)
  BY <1>1, <1>2, <1>4
<1>6. ASSUME NEW i \in 1..(Len(q) - 1)
      PROVE  (l \o r)[i] = IF i < p THEN q[i] ELSE q[i + 1]
  <2>1. (l \o r)[i] = IF i <= Len(l) THEN l[i] ELSE r[i - Len(l)]
    BY <1>1, <1>2, <1>4
  <2>2. CASE i < p
    BY <1>1, <2>1, <2>2
  <2>3. CASE ~(i < p)
    <3>1. i - (p - 1) \in 1..(Len(q) - p) /\ p + (i - (p - 1)) = i + 1
      BY <2>3
    <3>2. (l \o r)[i] = r[i - (p - 1)]
      BY <1>1, <2>1, <2>3
    <3>3. QED BY <1>2, <2>3, <3>1, <3>2
  <2>4. QED BY <2>2, <2>3
<1>7. QED
  BY <1>3, <1>4, <1>5, <1>6

(* What is left of a sequence was in it, and all but what was removed is     *)
(* left.                                                                   *)
LEMMA RemoveAtKeeps ==
  ASSUME NEW S, NEW q \in Seq(S), NEW p \in DOMAIN q
  PROVE  /\ \A i \in DOMAIN RemoveAt(q, p) : \E j \in DOMAIN q : RemoveAt(q, p)[i] = q[j]
         /\ \A j \in DOMAIN q \ {p} : \E i \in DOMAIN RemoveAt(q, p) : RemoveAt(q, p)[i] = q[j]
<1> DEFINE r == RemoveAt(q, p)
<1>1. /\ DOMAIN q = 1..Len(q) /\ DOMAIN r = 1..(Len(q) - 1)
      /\ \A i \in 1..(Len(q) - 1) : r[i] = IF i < p THEN q[i] ELSE q[i + 1]
  BY RemoveAtFacts
<1> HIDE DEF r
<1>2. ASSUME NEW j \in DOMAIN q \ {p}
      PROVE  \E i \in DOMAIN r : r[i] = q[j]
  <2>1. CASE j < p
    <3>1. j \in DOMAIN r /\ r[j] = q[j]
      BY <1>1, <2>1
    <3>2. QED BY <3>1
  <2>2. CASE ~(j < p)
    <3>1. j - 1 \in DOMAIN r /\ ~(j - 1 < p) /\ j - 1 + 1 = j
      BY <1>1, <2>2
    <3>2. QED BY <1>1, <3>1
  <2>3. QED BY <2>1, <2>2
<1>3. QED BY <1>1, <1>2 DEF r

(* A non-empty set of naturals has a least element: the intervals 0..x are  *)
(* well founded under inclusion.                                           *)
LEMMA LeastNat ==
  ASSUME NEW T \in SUBSET Nat, T # {}
  PROVE  \E x \in T : \A y \in T : x <= y
<1> DEFINE F == {0..x : x \in T}
<1>1. F \subseteq FiniteSubsetsOf(Nat) /\ F # {}
  <2>1. \A x \in T : 0..x \in SUBSET Nat /\ IsFiniteSet(0..x)
    BY FS_Interval
  <2>2. QED BY <2>1 DEF FiniteSubsetsOf
<1> HIDE DEF F
<1>2. PICK I \in F : \A J \in F : <<J, I>> \notin StrictSubsetOrdering(Nat)
  BY <1>1, FS_StrictSubsetOrderingWellFounded, WFMin
<1>3. PICK x \in T : I = 0..x
  BY DEF F
<1>4. ASSUME NEW y \in T, y < x PROVE FALSE
  <2>1. 0..y \in F /\ 0..x \in SUBSET Nat /\ 0..y \subseteq 0..x /\ x \in 0..x /\ x \notin 0..y
    BY <1>4 DEF F
  <2>2. <<0..y, 0..x>> \in StrictSubsetOrdering(Nat)
    BY <2>1 DEF StrictSubsetOrdering
  <2>3. QED BY <1>2, <1>3, <2>1, <2>2
<1>5. QED BY <1>4

(* The places in K up to some place, counted: every number is reached at   *)
(* exactly one place in K.                                                 *)
LEMMA Count ==
  ASSUME NEW n \in Nat, NEW K \in SUBSET (1..n)
  PROVE  /\ Cardinality(K) \in Nat
         /\ \A j \in 1..Cardinality(K) : \E i \in K : Cardinality(K \cap 1..i) = j
         /\ \A i \in K : Cardinality(K \cap 1..i) \in 1..Cardinality(K)
         /\ \A i, k \in K : Cardinality(K \cap 1..i) = Cardinality(K \cap 1..k) => i = k
<1> DEFINE c(i) == Cardinality(K \cap 1..i)
<1>1. IsFiniteSet(K) /\ Cardinality(K) \in Nat
  <2>1. 1 \in Int /\ n \in Int
    OBVIOUS
  <2>2. IsFiniteSet(1..n)
    BY <2>1, FS_Interval
  <2>3. QED BY <2>2, FS_Subset, FS_CardinalityType
<1>2. ASSUME NEW i \in Nat
      PROVE  /\ IsFiniteSet(K \cap 1..i) /\ c(i) \in Nat /\ c(i) <= Cardinality(K)
             /\ \A S \in SUBSET (K \cap 1..i) :
                  /\ Cardinality(S) \in Nat /\ Cardinality(S) <= c(i)
                  /\ Cardinality(S) = c(i) => S = K \cap 1..i
  BY <1>1, FS_Subset, FS_CardinalityType
<1>3. c(0) = 0
  <2>1. K \cap 1..0 = {}
    OBVIOUS
  <2>2. QED BY <2>1, FS_EmptySet
<1>4. c(n) = Cardinality(K)
  <2>1. K \cap 1..n = K
    OBVIOUS
  <2>2. QED BY <2>1
<1>5. ASSUME NEW i \in Nat \ {0}
      PROVE  c(i) = IF i \in K THEN c(i - 1) + 1 ELSE c(i - 1)
  <2>1. i - 1 \in Nat /\ i \notin K \cap 1..(i - 1)
    OBVIOUS
  <2>2. K \cap 1..i = IF i \in K THEN (K \cap 1..(i - 1)) \cup {i} ELSE K \cap 1..(i - 1)
    OBVIOUS
  <2>3. QED BY <1>2, <2>1, <2>2, FS_AddElement
<1>6. ASSUME NEW j \in 1..Cardinality(K)
      PROVE  \E i \in K : c(i) = j
  <2> DEFINE T == {i \in 0..n : j <= c(i)}
  <2>1. T \in SUBSET Nat /\ n \in T
    BY <1>1, <1>4
  <2>2. PICK i \in T : \A y \in T : i <= y
    <3> HIDE DEF T
    <3> QED BY <2>1, LeastNat
  <2>3. i \in Nat \ {0} /\ i <= n /\ j <= c(i)
    <3> HIDE DEF c
    <3> QED BY <1>1, <1>3, <2>2
  <2>4. ~(j <= c(i - 1))
    <3>1. i - 1 \in 0..n /\ ~(i <= i - 1)
      BY <2>3
    <3>2. QED BY <2>2, <3>1
  <2>5. c(i - 1) \in Nat /\ c(i) \in Nat
    BY <1>2, <2>3
  <2> HIDE DEF c, T
  <2>6. i \in K /\ c(i) = j
    BY <1>1, <1>5, <2>3, <2>4, <2>5
  <2>7. QED BY <2>6
<1>7. ASSUME NEW i \in K, NEW k \in K, i < k
      PROVE  c(i) # c(k)
  <2>1. i \in Nat /\ k \in Nat
    OBVIOUS
  <2>3. \A x \in 1..i : x \in 1..k
    BY <1>7, <2>1
  <2>4. K \cap 1..i \in SUBSET (K \cap 1..k)
    BY <2>3
  <2>2. k \in K \cap 1..k /\ k \notin K \cap 1..i
    BY <1>7, <2>1
  <2>5. QED BY <1>2, <2>1, <2>2, <2>4
<1>8. ASSUME NEW i \in K
      PROVE  c(i) \in 1..Cardinality(K)
  <2>1. i \in Nat \ {0} /\ i - 1 \in Nat
    OBVIOUS
  <2>2. c(i) = c(i - 1) + 1 /\ c(i - 1) \in Nat /\ c(i) \in Nat /\ c(i) <= Cardinality(K)
    BY <1>2, <1>5, <2>1
  <2> HIDE DEF c
  <2>3. QED BY <1>1, <2>2
<1>9. \A i, k \in K : c(i) = c(k) => i = k
  <2> SUFFICES ASSUME NEW i \in K, NEW k \in K, c(i) = c(k), i # k
               PROVE  FALSE
    OBVIOUS
  <2>1. i < k \/ k < i
    OBVIOUS
  <2> HIDE DEF c
  <2>2. QED BY <1>7, <2>1
<1>10. QED BY <1>1, <1>6, <1>8, <1>9

-----------------------------------------------------------------------------
(* Lists *)

(* A set of places has a first and a last one. *)
LEMMA MinMax ==
  ASSUME NEW n \in Nat, NEW T \in SUBSET (1..n), T # {}
  PROVE  Min(T) \in T /\ Max(T) \in T
<1>1. PICK x \in T : \A y \in T : x <= y
  BY LeastNat
<1>2. Min(T) \in T
  BY <1>1 DEF Min
<1> DEFINE R == {n - y : y \in T}
<1>3. R \in SUBSET Nat /\ R # {}
  OBVIOUS
<1>4. PICK z \in R : \A y \in R : z <= y
  <2> HIDE DEF R
  <2> QED BY <1>3, LeastNat
<1>5. PICK w \in T : z = n - w
  OBVIOUS
<1>6. ASSUME NEW y \in T
      PROVE  w >= y
  <2>1. n - y \in R
    OBVIOUS
  <2>2. z <= n - y
    BY <1>4, <2>1
  <2>3. QED BY <1>5, <2>2
<1>7. Max(T) \in T
  BY <1>6 DEF Max
<1>8. QED BY <1>2, <1>7

(* One more element. *)
LEMMA AppendOf ==
  ASSUME NEW S, NEW q \in Seq(S), NEW e \in S, NEW f
  PROVE  /\ of(Append(q, e), f) = of(q, f) \cup (IF e.lfn = f THEN {e} ELSE {})
         /\ once(q, f) /\ (e.lfn = f => of(q, f) = {}) => once(Append(q, e), f)
<1> DEFINE r == Append(q, e)
<1>1. /\ DOMAIN r = 1..(Len(q) + 1) /\ DOMAIN q = 1..Len(q) /\ Len(q) \in Nat
      /\ r[Len(q) + 1] = e
      /\ \A i \in DOMAIN q : r[i] = q[i]
  OBVIOUS
<1>2. \A i \in DOMAIN r : i \in DOMAIN q \/ i = Len(q) + 1
  BY <1>1
<1>3. DOMAIN q \subseteq DOMAIN r /\ Len(q) + 1 \in DOMAIN r
  BY <1>1
<1> HIDE DEF r
<1>4. of(r, f) = of(q, f) \cup (IF e.lfn = f THEN {e} ELSE {})
  BY <1>1, <1>2, <1>3 DEF of
<1>5. ASSUME once(q, f), e.lfn = f => of(q, f) = {}
      PROVE  once(r, f)
  <2>1. e.lfn = f => \A i \in DOMAIN q : q[i].lfn # f
    BY <1>5 DEF of
  <2>2. QED BY <1>1, <1>2, <1>5, <2>1 DEF once
<1>6. QED BY <1>4, <1>5 DEF r

(* One less. *)
LEMMA RemoveOf ==
  ASSUME NEW S, NEW q \in Seq(S), NEW p \in DOMAIN q, NEW f
  PROVE  /\ of(RemoveAt(q, p), f) \subseteq of(q, f)
         /\ q[p].lfn # f => of(RemoveAt(q, p), f) = of(q, f)
         /\ once(q, f) => once(RemoveAt(q, p), f)
         /\ once(q, f) /\ q[p].lfn = f => of(RemoveAt(q, p), f) = {}
<1> DEFINE r == RemoveAt(q, p)
<1>1. p \in 1..Len(q) /\ Len(q) \in Nat /\ DOMAIN q = 1..Len(q)
  OBVIOUS
<1>2. /\ DOMAIN r = 1..(Len(q) - 1)
      /\ \A i \in 1..(Len(q) - 1) : r[i] = IF i < p THEN q[i] ELSE q[i + 1]
  BY <1>1, RemoveAtFacts
<1>3. \A i \in DOMAIN r : \E j \in DOMAIN q : r[i] = q[j] /\ j # p
  <2> SUFFICES ASSUME NEW i \in DOMAIN r
               PROVE  \E j \in DOMAIN q : r[i] = q[j] /\ j # p
    OBVIOUS
  <2> HIDE DEF r
  <2> QED BY <1>1, <1>2
<1>4. \A j \in DOMAIN q : j # p => \E i \in DOMAIN r : r[i] = q[j]
  BY RemoveAtKeeps
<1> HIDE DEF r
<1>5. of(r, f) \subseteq of(q, f)
  BY <1>3 DEF of
<1>6. q[p].lfn # f => of(r, f) = of(q, f)
  BY <1>4, <1>5 DEF of
<1>7. ASSUME once(q, f)
      PROVE  once(r, f)
  <2> SUFFICES ASSUME NEW i \in DOMAIN r, NEW j \in DOMAIN r, r[i].lfn = f, r[j].lfn = f
               PROVE  i = j
    BY DEF once
  <2> DEFINE b(k) == IF k < p THEN k ELSE k + 1
  <2>1. b(i) \in DOMAIN q /\ b(j) \in DOMAIN q /\ r[i] = q[b(i)] /\ r[j] = q[b(j)]
    BY <1>1, <1>2
  <2>2. b(i) = b(j)
    <3> HIDE DEF b
    <3> QED BY <1>7, <2>1 DEF once
  <2>3. QED BY <1>1, <1>2, <2>2
<1>8. once(q, f) /\ q[p].lfn = f => of(r, f) = {}
  BY <1>1, <1>3 DEF of, once
<1>9. QED BY <1>5, <1>6, <1>7, <1>8 DEF r

(* Two lists in one. *)
LEMMA ConcatOf ==
  ASSUME NEW S, NEW q \in Seq(S), NEW r \in Seq(S), NEW f
  PROVE  of(q \o r, f) = of(q, f) \cup of(r, f)
<1>1. /\ DOMAIN (q \o r) = 1..(Len(q) + Len(r)) /\ DOMAIN q = 1..Len(q) /\ DOMAIN r = 1..Len(r)
      /\ Len(q) \in Nat /\ Len(r) \in Nat
      /\ \A i \in DOMAIN (q \o r) : (q \o r)[i] = IF i <= Len(q) THEN q[i] ELSE r[i - Len(q)]
  BY ConcatProperties
<1> DEFINE s == q \o r
<1>0. \A i \in DOMAIN s : s[i] = IF i <= Len(q) THEN q[i] ELSE r[i - Len(q)]
  BY <1>1
<1>2. \A i \in DOMAIN s : (\E j \in DOMAIN q : s[i] = q[j]) \/ (\E j \in DOMAIN r : s[i] = r[j])
  <2> SUFFICES ASSUME NEW i \in DOMAIN s
               PROVE  (\E j \in DOMAIN q : s[i] = q[j]) \/ (\E j \in DOMAIN r : s[i] = r[j])
    OBVIOUS
  <2>1. CASE i <= Len(q)
    BY <1>1, <2>1
  <2>2. CASE ~(i <= Len(q))
    <3>1. i - Len(q) \in DOMAIN r
      BY <1>1, <2>2
    <3>2. QED BY <1>1, <2>2, <3>1
  <2>3. QED BY <2>1, <2>2
<1>3. \A j \in DOMAIN q : \E i \in DOMAIN s : s[i] = q[j]
  BY <1>1
<1>4. ASSUME NEW j \in DOMAIN r
      PROVE  \E i \in DOMAIN s : s[i] = r[j]
  <2>1. Len(q) + j \in DOMAIN s /\ ~(Len(q) + j <= Len(q)) /\ Len(q) + j - Len(q) = j
    BY <1>1
  <2>2. s[Len(q) + j] = r[j]
    <3> HIDE DEF s
    <3> QED BY <1>0, <2>1
  <2>3. QED BY <2>1, <2>2
<1> HIDE DEF s
<1>5. of(s, f) = of(q, f) \cup of(r, f)
  BY <1>2, <1>3, <1>4 DEF of
<1>6. QED BY <1>5 DEF s

(* What is left of the pending modifications: all that is not marked. *)
LEMMA PruneFacts ==
  ASSUME NEW q \in Seq(PendMod)
  PROVE  /\ prune(q) \in Seq(PendMod)
         /\ \A j \in DOMAIN prune(q) :
              prune(q)[j].host # nobody /\ \E i \in DOMAIN q : prune(q)[j] = q[i]
         /\ \A i \in DOMAIN q : q[i].host # nobody => \E j \in DOMAIN prune(q) : prune(q)[j] = q[i]
<1> DEFINE K == {i \in DOMAIN q : q[i].host # nobody}
           place(j) == CHOOSE i \in K : Cardinality(K \cap 1..i) = j
           c(i) == Cardinality(K \cap 1..i)
<1>1. prune(q) = [j \in 1..Cardinality(K) |-> q[place(j)]]
  BY DEF prune
<1>2. Len(q) \in Nat /\ K \in SUBSET (1..Len(q))
  OBVIOUS
<1>3. /\ Cardinality(K) \in Nat
      /\ \A j \in 1..Cardinality(K) : \E i \in K : c(i) = j
      /\ \A i \in K : c(i) \in 1..Cardinality(K)
      /\ \A i, k \in K : c(i) = c(k) => i = k
  <2> HIDE DEF K
  <2> QED BY <1>2, Count
<1>4. \A j \in 1..Cardinality(K) : place(j) \in K /\ c(place(j)) = j
  <2> HIDE DEF K
  <2> QED BY <1>3
<1>5. \A i \in K : i \in DOMAIN q /\ q[i].host # nobody /\ q[i] \in PendMod
  OBVIOUS
<1>6. \A i \in DOMAIN q : q[i].host # nobody => i \in K
  OBVIOUS
<1> HIDE DEF K, place, c
<1>7. prune(q) \in Seq(PendMod) /\ DOMAIN prune(q) = 1..Cardinality(K)
  <2>1. prune(q) \in [1..Cardinality(K) -> PendMod]
    BY <1>1, <1>4, <1>5
  <2>2. QED BY <1>3, <2>1
<1>8. \A j \in DOMAIN prune(q) : prune(q)[j] = q[place(j)] /\ place(j) \in K
  BY <1>1, <1>4, <1>7
<1>9. \A j \in DOMAIN prune(q) :
        prune(q)[j].host # nobody /\ \E i \in DOMAIN q : prune(q)[j] = q[i]
  BY <1>5, <1>8
<1>10. ASSUME NEW i \in DOMAIN q, q[i].host # nobody
       PROVE  \E j \in DOMAIN prune(q) : prune(q)[j] = q[i]
  <2>1. i \in K /\ c(i) \in 1..Cardinality(K)
    BY <1>3, <1>6, <1>10
  <2>2. place(c(i)) = i
    BY <1>3, <1>4, <2>1
  <2>3. QED BY <1>7, <1>8, <2>1, <2>2
<1>11. QED BY <1>7, <1>9, <1>10

LEMMA PruneOf ==
  ASSUME NEW q \in Seq(PendMod), NEW f
  PROVE  of(prune(q), f) = {e \in of(q, f) : e.host # nobody}
BY PruneFacts DEF of

(* An entry is marked: the entry, or what it has become, is still there. *)
LEMMA MarkOf ==
  ASSUME NEW q \in Seq(PendMod), NEW k \in DOMAIN q, NEW f
  PROVE  LET r == [q EXCEPT ![k].host = nobody] IN
         /\ r \in Seq(PendMod) /\ DOMAIN r = DOMAIN q
         /\ r[k].host = nobody
         /\ \A i \in DOMAIN q : r[i].lfn = q[i].lfn /\ r[i].source = q[i].source
         /\ \A i \in DOMAIN q : i # k => r[i] = q[i]
         /\ q[k].lfn # f => of(r, f) = of(q, f)
         /\ \A e \in of(r, f) : \E d \in of(q, f) : d.source = e.source /\ e.host \in {d.host, nobody}
         /\ \A e \in of(q, f) : e \in of(r, f) \/ e = q[k]
<1> DEFINE r == [q EXCEPT ![k].host = nobody]
<1>1. \A i \in DOMAIN q : q[i] \in PendMod
  OBVIOUS
<1>2. /\ DOMAIN r = DOMAIN q /\ r[k] = [q[k] EXCEPT !.host = nobody]
      /\ \A i \in DOMAIN q : i # k => r[i] = q[i]
  OBVIOUS
<1>3. /\ r[k] \in PendMod /\ r[k].host = nobody
      /\ r[k].lfn = q[k].lfn /\ r[k].source = q[k].source
  BY <1>1, <1>2 DEF PendMod
<1> HIDE DEF r
<1>4. \A i \in DOMAIN q : r[i].lfn = q[i].lfn /\ r[i].source = q[i].source
  BY <1>2, <1>3
<1>5. r \in Seq(PendMod)
  <2>1. \A i \in DOMAIN q : r[i] \in PendMod
    BY <1>1, <1>2, <1>3
  <2>2. Len(q) \in Nat /\ DOMAIN q = 1..Len(q) /\ r = [i \in DOMAIN q |-> r[i]]
    BY <1>2 DEF r
  <2>3. r \in [1..Len(q) -> PendMod]
    BY <2>1, <2>2
  <2>4. QED BY <2>2, <2>3
<1>6. q[k].lfn # f => of(r, f) = of(q, f)
  BY <1>2, <1>4 DEF of
<1>7. ASSUME NEW e \in of(r, f)
      PROVE  \E d \in of(q, f) : d.source = e.source /\ e.host \in {d.host, nobody}
  <2>1. PICK i \in DOMAIN q : e = r[i] /\ r[i].lfn = f
    BY <1>2 DEF of
  <2>2. q[i] \in of(q, f) /\ q[i].source = e.source
    BY <1>4, <2>1 DEF of
  <2>3. e.host \in {q[i].host, nobody}
    BY <1>2, <1>3, <2>1
  <2>4. QED BY <2>2, <2>3
<1>8. \A e \in of(q, f) : e \in of(r, f) \/ e = q[k]
  BY <1>2 DEF of
<1>9. QED BY <1>2, <1>3, <1>4, <1>5, <1>6, <1>7, <1>8 DEF r

(* The first message is taken. *)
LEMMA TailOf ==
  ASSUME NEW S, NEW q \in Seq(S), q # <<>>, NEW f
  PROVE  /\ Head(q) \in S /\ Tail(q) \in Seq(S)
         /\ \A i \in DOMAIN Tail(q) : i + 1 \in DOMAIN q /\ Tail(q)[i] = q[i + 1]
         /\ of(Tail(q), f) \subseteq of(q, f)
         /\ Head(q).lfn = f => Head(q) \in of(q, f)
         /\ \A i \in asks(Tail(q), f) : i + 1 \in asks(q, f)
         /\ Head(q).lfn = f /\ Head(q).type = "modify" => 1 \in asks(q, f)
         /\ 1 \in DOMAIN q /\ Head(q) = q[1]
<1> DEFINE r == Tail(q)
<1>1. /\ Head(q) \in S /\ r \in Seq(S) /\ 1 \in DOMAIN q /\ Head(q) = q[1]
      /\ DOMAIN q = 1..Len(q) /\ DOMAIN r = 1..(Len(q) - 1) /\ Len(q) \in Nat
      /\ \A i \in DOMAIN r : r[i] = q[i + 1]
  OBVIOUS
<1> HIDE DEF r
<1>2. \A i \in DOMAIN r : i + 1 \in DOMAIN q /\ r[i] = q[i + 1]
  BY <1>1
<1>3. of(r, f) \subseteq of(q, f)
  BY <1>2 DEF of
<1>4. Head(q).lfn = f => Head(q) \in of(q, f)
  BY <1>1 DEF of
<1>5. \A i \in asks(r, f) : i + 1 \in asks(q, f)
  BY <1>2 DEF asks
<1>6. Head(q).lfn = f /\ Head(q).type = "modify" => 1 \in asks(q, f)
  BY <1>1 DEF asks
<1>7. QED BY <1>1, <1>2, <1>3, <1>4, <1>5, <1>6 DEF r

(* A message is added. *)
LEMMA AppendAsks ==
  ASSUME NEW S, NEW q \in Seq(S), NEW m \in S, NEW f
  PROVE  LET r == Append(q, m) IN
         /\ r \in Seq(S) /\ DOMAIN r = DOMAIN q \cup {Len(q) + 1} /\ r[Len(q) + 1] = m
         /\ Len(q) + 1 \notin DOMAIN q
         /\ \A i \in DOMAIN q : r[i] = q[i]
         /\ asks(r, f) = asks(q, f) \cup
                         (IF m.type = "modify" /\ m.lfn = f THEN {Len(q) + 1} ELSE {})
<1> DEFINE r == Append(q, m)
<1>1. /\ r \in Seq(S) /\ DOMAIN r = DOMAIN q \cup {Len(q) + 1} /\ r[Len(q) + 1] = m
      /\ Len(q) + 1 \notin DOMAIN q
      /\ \A i \in DOMAIN q : r[i] = q[i]
  OBVIOUS
<1> HIDE DEF r
<1>2. asks(r, f) = asks(q, f) \cup
                   (IF m.type = "modify" /\ m.lfn = f THEN {Len(q) + 1} ELSE {})
  BY <1>1 DEF asks
<1>3. QED BY <1>1, <1>2 DEF r

(* What the checks of the listener say of the lists. *)
LEMMA PendingOf ==
  ASSUME NEW f
  PROVE  modificationsPending(f) <=> of(newMods, f) # {} \/ of(pendMods, f) # {}
BY DEF modificationsPending, of

-----------------------------------------------------------------------------
(* What a step leaves alone *)

LEMMA Now ==
  ASSUME IInv
  PROVE  /\ copies \in [File -> SUBSET Node] /\ version \in [File -> Version]
         /\ lockedby \in [File -> User \cup {nobody}]
         /\ content \in [File -> [Node -> Version \cup {nothing}]]
         /\ inbox \in [File -> [Node -> Version \cup {nothing}]]
         /\ uploads \in SUBSET NewMod /\ late \in SUBSET NewMod /\ msgs \in Seq(Message)
         /\ newMods \in Seq(NewMod) /\ pendMods \in Seq(PendMod)
         /\ \A i \in DOMAIN pendMods :
               pendMods[i].host = nobody => job.step \in {"try", "push"} /\ i < job.i
         /\ transfers \in SUBSET Transfer
         /\ up \in SUBSET Node /\ dead \in SUBSET Node /\ job \in Job
         /\ author \in Seq(User \cup {nobody}) /\ Len(author) \in Version
         /\ raced \in SUBSET File /\ mixed \in SUBSET File
         /\ events \in 0..MaxEvents
BY DEF IInv, TypeOK

LEMMA JobFacts ==
  ASSUME NEW j \in Job
  PROVE  /\ j.step \in Steps /\ j.lfn \in File \cup {nobody} /\ j.host \in Node \cup {nobody}
         /\ j.rest \in SUBSET Node /\ j.i \in Nat
BY DEF Job

LEMMA NoJobFacts ==
  /\ noJob \in Job /\ noJob.step = "idle" /\ noJob.lfn = nobody /\ noJob.rest = {}
  /\ nobody \notin File /\ nobody \notin Node /\ nobody \notin User
BY nobodyAssumption DEF noJob, Job, Steps

LEMMA NewFacts ==
  ASSUME NEW m \in NewMod
  PROVE  m.lfn \in File /\ m.host \in Node /\ m.ver \in Version
BY DEF NewMod

LEMMA OfNew ==
  ASSUME NEW q \in Seq(NewMod), NEW f, NEW m \in of(q, f)
  PROVE  m \in NewMod /\ m.lfn = f /\ m.host \in Node /\ m.ver \in Version
<1>1. PICK i \in DOMAIN q : m = q[i] /\ q[i].lfn = f
  BY DEF of
<1>2. m \in NewMod
  BY <1>1
<1>3. QED BY <1>1, <1>2, NewFacts

LEMMA PendFacts ==
  ASSUME NEW m \in PendMod
  PROVE  m.lfn \in File /\ m.host \in Node \cup {nobody} /\ m.source \in Node
BY DEF PendMod

LEMMA OfPend ==
  ASSUME NEW q \in Seq(PendMod), NEW f, NEW m \in of(q, f)
  PROVE  m \in PendMod /\ m.lfn = f /\ m.host \in Node \cup {nobody} /\ m.source \in Node
<1>1. PICK i \in DOMAIN q : m = q[i] /\ q[i].lfn = f
  BY DEF of
<1>2. m \in PendMod
  BY <1>1
<1>3. QED BY <1>1, <1>2, PendFacts

LEMMA MessageFacts ==
  ASSUME NEW m \in Message
  PROVE  /\ m.type \in {"modify", "lock", "unlock"} /\ m.lfn \in File /\ m.sender \in User
         /\ m.host \in Node \cup {nobody} /\ m.ver \in Version \cup {nothing}
BY DEF Message

LEMMA AuthorSame ==
  ASSUME IInv, NEW f \in File, f \notin raced, lockedby'[f] = lockedby[f],
         of(msgs', f) \subseteq of(msgs, f), of(newMods', f) \subseteq of(newMods, f),
         \A v \in DOMAIN author : author'[v] = author[v]
  PROVE  OneAuthor(f)'
<1>1. PICK s : /\ lockedby[f] \in {nobody, s}
               /\ \A m \in of(msgs, f) : m.sender = s
               /\ \A m \in of(newMods, f) : author[m.ver] = s
  BY DEF IInv, OneAuthor
<1>2. \A m \in of(newMods, f) : m.ver \in DOMAIN author
  BY DEF IInv, Origin, of
<1>3. QED BY <1>1, <1>2 DEF OneAuthor

LEMMA AuthorsSame ==
  ASSUME IInv, UNCHANGED <<lockedby, msgs, newMods, author, raced>>
  PROVE  /\ UNCHANGED uploads => Origin'
         /\ \A f \in File : (f \notin raced => OneAuthor(f))'
<1>1. UNCHANGED uploads => Origin'
  BY DEF IInv, Origin
<1>2. ASSUME NEW f \in File, f \notin raced'
      PROVE  OneAuthor(f)'
  BY <1>2, AuthorSame
<1>3. QED BY <1>1, <1>2

(* Nothing happens to f. *)
Same(f) ==
  /\ f \in mixed => f \in mixed'
  /\ UNCHANGED <<copies[f], version[f], content[f], inbox[f]>>
  /\ \A x \in uploads' : x.lfn = f => x \in uploads
  /\ \A i \in asks(msgs', f) : \E j \in asks(msgs, f) : msgs'[i] = msgs[j]
  /\ \A i, j \in asks(msgs', f) : i = j
  /\ of(newMods', f) = of(newMods, f) /\ once(newMods', f)
  /\ of(pendMods', f) = of(pendMods, f)
  /\ \A t \in transfers' : t.lfn = f => t \in transfers
  /\ IF job.lfn = f THEN UNCHANGED <<job.lfn, job.step, job.host>> ELSE job'.lfn # f

LEMMA SameFile ==
  ASSUME IInv, NEW f \in File, Same(f), f \notin mixed'
  PROVE  OneVersion(f)' /\ Copies(f)'
<1>1. f \notin mixed /\ OneVersion(f) /\ Copies(f)
  BY DEF IInv, Same
<1>2. \A s : on(f, s)' <=> on(f, s)
  BY DEF Same, on
<1>3. on(f, {"register"}) \/ on(f, {"copy", "rm", "register"}) \/ on(f, {"copy"})
      \/ on(f, {"rm", "register", "fetch", "push"}) \/ job.lfn = f => job'.host = job.host
  BY DEF Same, on
<1>4. modificationsPending(f)' <=> modificationsPending(f)
  <2>1. modificationsPending(f)' <=> of(newMods', f) # {} \/ of(pendMods', f) # {}
    BY DEF modificationsPending, of
  <2>2. QED BY <2>1, PendingOf DEF Same
<1>5. job'.lfn = f <=> job.lfn = f
  BY DEF Same
<1>6. \A n : Covered(f, n)' <=> Covered(f, n)
  BY DEF Covered, Same
<1>7. OneVersion(f)'
  BY <1>1, <1>2, <1>3, <1>4, <1>5 DEF OneVersion, Same
<1>8. Copies(f)'
  BY <1>1, <1>2, <1>3, <1>5, <1>6 DEF Copies, Same
<1>9. QED BY <1>7, <1>8

(* ... as when the lists about files stay as they are. *)
LEMMA StillSame ==
  ASSUME IInv, NEW f \in File, f \notin mixed', f \in mixed => f \in mixed',
         UNCHANGED <<msgs, newMods, uploads>>,
         UNCHANGED <<copies[f], version[f], content[f], inbox[f]>>,
         of(pendMods', f) = of(pendMods, f),
         \A t \in transfers' : t.lfn = f => t \in transfers,
         IF job.lfn = f THEN UNCHANGED <<job.lfn, job.step, job.host>> ELSE job'.lfn # f
  PROVE  OneVersion(f)' /\ Copies(f)'
<1>1. OneVersion(f)
  BY DEF IInv
<1>2. Same(f)
  BY <1>1 DEF Same, OneVersion
<1>3. QED BY <1>2, SameFile

(* Steps that leave the files and the lists about them as they are. *)
LEMMA Quiet ==
  ASSUME IInv, UNCHANGED <<catalogue, content, clients, msgs, mods, history>>,
         transfers' \subseteq transfers,
         up' \in SUBSET Node, dead' \in SUBSET Node, phase' \in {"messages", "ping", "work"},
         events' \in 0..MaxEvents, job' \in Job, JobOK',
         job' = job \/ (job.step = "idle" /\ job'.lfn = nobody)
  PROVE  IInv'
<1>1. /\ UNCHANGED <<copies, version, lockedby, content, inbox, uploads, late, author, msgs,
                     newMods, pendMods, raced, mixed>>
  BY DEF catalogue, clients, mods, history
<1>2. job.step = "idle" => job.lfn = nobody
  BY DEF IInv, JobOK
<1>3. TypeOK'
  <2>1. \A i \in DOMAIN pendMods' :
          pendMods'[i].host = nobody => job'.step \in {"try", "push"} /\ i < job'.i
    BY <1>1, Now
  <2>2. QED BY <1>1, <2>1, Now DEF TypeOK
<1>4. Origin' /\ \A f \in File : (f \notin raced => OneAuthor(f))'
  BY <1>1, AuthorsSame
<1>5. ASSUME NEW f \in File, f \notin mixed'
      PROVE  OneVersion(f)' /\ Copies(f)'
  <2>1. IF job.lfn = f THEN UNCHANGED <<job.lfn, job.step, job.host>> ELSE job'.lfn # f
    BY <1>2, NoJobFacts
  <2>2. QED BY <1>1, <1>5, <2>1, StillSame
<1>6. QED BY <1>3, <1>4, <1>5 DEF IInv

LEMMA Events ==
  ASSUME IInv, event \/ UNCHANGED events
  PROVE  events' \in 0..MaxEvents
BY MaxAssumption DEF IInv, TypeOK, event

-----------------------------------------------------------------------------
(* Every step keeps the invariant *)

LEMMA InitInv == Init => IInv
<1> SUFFICES ASSUME Init
             PROVE  IInv
  OBVIOUS
<1>1. /\ version = [f \in File |-> 1] /\ lockedby = [f \in File |-> nobody]
      /\ content = [f \in File |-> [n \in Node |-> IF n \in copies[f] THEN 1 ELSE nothing]]
      /\ inbox = [f \in File |-> [n \in Node |-> nothing]]
      /\ uploads = {} /\ late = {} /\ author = <<nobody>>
      /\ msgs = <<>> /\ newMods = <<>> /\ pendMods = <<>> /\ transfers = {}
      /\ up = Node /\ dead = {} /\ phase = "messages" /\ job = noJob
      /\ raced = {} /\ mixed = {} /\ events = 0
  BY DEF Init
<1>2. copies \in [File -> SUBSET Node]
  BY DEF Init
<1>3. DOMAIN msgs = {} /\ DOMAIN newMods = {} /\ DOMAIN pendMods = {}
  BY <1>1
<1>4. TypeOK
  <2>1. 1 \in Version /\ Len(author) = 1 /\ author \in Seq(User \cup {nobody})
    BY <1>1, MaxAssumption DEF Version
  <2>2. 0 \in 0..MaxEvents
    BY MaxAssumption
  <2>3. msgs \in Seq(Message) /\ newMods \in Seq(NewMod) /\ pendMods \in Seq(PendMod)
    BY <1>1
  <2>4. content \in [File -> [Node -> Version \cup {nothing}]]
    BY <1>1, <2>1 DEF nothing
  <2>5. inbox \in [File -> [Node -> Version \cup {nothing}]]
    BY <1>1
  <2>6. QED BY <1>1, <1>2, <1>3, <2>1, <2>2, <2>3, <2>4, <2>5, NoJobFacts DEF TypeOK
<1>5. JobOK /\ Origin
  BY <1>1, <1>3, NoJobFacts DEF JobOK, Origin
<1>6. ASSUME NEW f \in File
      PROVE  OneAuthor(f) /\ OneVersion(f) /\ Copies(f)
  <2>1. /\ of(msgs, f) = {} /\ of(newMods, f) = {} /\ of(pendMods, f) = {} /\ asks(msgs, f) = {}
        /\ once(newMods, f)
    BY <1>3 DEF of, asks, once
  <2>2. job.lfn # f
    BY <1>1, NoJobFacts
  <2>3. OneAuthor(f) /\ OneVersion(f)
    BY <1>1, <2>1, <2>2 DEF OneAuthor, OneVersion, on
  <2>4. \A n \in copies[f] : content[f][n] = version[f]
    BY <1>1, <1>2
  <2>5. QED BY <1>1, <2>1, <2>2, <2>3, <2>4 DEF Copies, on
<1>7. QED BY <1>4, <1>5, <1>6 DEF IInv

(* The main thread goes from phase to phase, and nodes come and go. *)
LEMMA PhasesInv ==
  ASSUME IInv,
         \/ processMessagesDone \/ pingNodesDone \/ iterationDone
         \/ \E n \in Node : pingFails(n) \/ pingWorks(n) \/ goDown(n) \/ comeBack(n)
         \/ \E t \in transfers : putFailed(t)
  PROVE  IInv'
<1>1. /\ UNCHANGED <<catalogue, content, clients, msgs, mods, history>>
      /\ transfers' \subseteq transfers
      /\ event \/ UNCHANGED events
  BY DEF processMessagesDone, pingNodesDone, iterationDone, pingFails, pingWorks, goDown, comeBack,
         putFailed, nodes, main
<1>2. up' \in SUBSET Node /\ dead' \in SUBSET Node
  BY Now DEF processMessagesDone, pingNodesDone, iterationDone, pingFails, pingWorks, goDown,
             comeBack, putFailed, nodes
<1>3. phase' \in {"messages", "ping", "work"}
  BY DEF IInv, TypeOK, processMessagesDone, pingNodesDone, iterationDone, pingFails, pingWorks,
         goDown, comeBack, putFailed, main
<1>4. events' \in 0..MaxEvents
  BY <1>1, Events
<1>5. \/ job' = job
      \/ job.step = "idle" /\ job' = [noJob EXCEPT !.rest = Node]
      \/ job.step = "idle" /\ job' = noJob
      \/ \E n \in Node : job.step = "idle" /\ job' = [job EXCEPT !.rest = @ \ {n}]
      \/ \E n \in Node : /\ job.step = "idle"
                         /\ job' = [job EXCEPT !.step = "try", !.host = n, !.rest = @ \ {n},
                                               !.i = 1]
  BY DEF processMessagesDone, pingNodesDone, iterationDone, pingFails, pingWorks, goDown, comeBack,
         putFailed, main, idle
<1>6. job \in Job /\ (job.step = "idle" => job.lfn = nobody)
  BY Now DEF IInv, JobOK
<1>7. /\ job' \in Job
      /\ \/ job' = job
         \/ /\ job.step = "idle" /\ job'.step \in {"idle", "try"} /\ job'.lfn = nobody
            /\ job'.step = "try" => job'.host \in Node
  <2>1. CASE job' = job
    BY <1>6, <2>1
  <2>2. CASE job' = [noJob EXCEPT !.rest = Node]
    BY <1>5, <2>2, NoJobFacts DEF Job, Steps, noJob
  <2>3. CASE job.step = "idle" /\ job' = noJob
    BY <2>3, NoJobFacts
  <2>4. ASSUME NEW n \in Node, job.step = "idle", job' = [job EXCEPT !.rest = @ \ {n}]
        PROVE  job' \in Job /\ job'.step = "idle" /\ job'.lfn = nobody
    <3>1. job.rest \ {n} \in SUBSET Node
      BY <1>6, JobFacts
    <3>2. QED BY <1>6, <2>4, <3>1 DEF Job
  <2>5. ASSUME NEW n \in Node, job.step = "idle",
               job' = [job EXCEPT !.step = "try", !.host = n, !.rest = @ \ {n}, !.i = 1]
        PROVE  job' \in Job /\ job'.step = "try" /\ job'.lfn = nobody /\ job'.host = n
    <3>1. job.rest \ {n} \in SUBSET Node
      BY <1>6, JobFacts
    <3>2. QED BY <1>6, <2>5, <3>1 DEF Job, Steps
  <2>6. QED BY <1>5, <2>1, <2>2, <2>3, <2>4, <2>5
<1>8. JobOK'
  <2>1. \A f, n : announced(f, n)' = announced(f, n)
    BY <1>1 DEF announced, mods
  <2>2. QED BY <1>7, <2>1 DEF IInv, JobOK
<1>9. QED BY <1>1, <1>2, <1>3, <1>4, <1>7, <1>8, Quiet

-----------------------------------------------------------------------------
(* Clients *)

LEMMA AcceptAuthor ==
  ASSUME IInv, NEW m \in Message, accept(m), UNCHANGED <<lockedby, newMods, author>>,
         NEW f \in File, f \notin raced'
  PROVE  OneAuthor(f)'
<1>1. msgs \in Seq(Message) /\ msgs' = Append(msgs, m)
  BY Now DEF accept
<1>2. of(msgs', f) = of(msgs, f) \cup (IF m.lfn = f THEN {m} ELSE {})
  BY <1>1, AppendOf
<1>3. f \notin raced
  BY DEF accept
<1>4. CASE m.lfn # f
  BY <1>2, <1>3, <1>4, AuthorSame
<1>5. CASE m.lfn = f
  <2>1. permitted(m) /\ \A x \in of(msgs, f) : x.sender = m.sender
    BY <1>5 DEF accept, of
  <2>2. PICK s : /\ lockedby[f] \in {nobody, s}
                 /\ \A x \in of(msgs, f) : x.sender = s
                 /\ \A x \in of(newMods, f) : author[x.ver] = s
    BY <1>3 DEF IInv, OneAuthor
  <2>3. m.sender \in User /\ m.sender # nobody /\ m.type \in {"modify", "lock", "unlock"}
    BY MessageFacts, NoJobFacts
  <2>4. /\ lockedby[f] \in {nobody, m.sender}
        /\ \A x \in of(newMods, f) : author[x.ver] = m.sender
    <3>1. CASE m.type = "modify"
      <4>1. of(newMods, f) = {} /\ lockedby[f] \in {nobody, m.sender}
        BY <1>5, <2>1, <3>1, PendingOf DEF permitted, canModify, canDeleteFile
      <4>2. QED BY <4>1
    <3>2. CASE m.type = "lock"
      <4>1. of(newMods, f) = {} /\ lockedby[f] \in {nobody, m.sender}
        BY <1>5, <2>1, <3>2, PendingOf DEF permitted, canLockFile
      <4>2. QED BY <4>1
    <3>3. CASE m.type = "unlock"
      <4>1. lockedby[f] = m.sender
        BY <1>5, <2>1, <3>3 DEF permitted, canUnlockFile
      <4>2. QED BY <2>2, <2>3, <4>1
    <3>4. QED BY <2>3, <3>1, <3>2, <3>3
  <2>5. \A x \in of(msgs', f) : x.sender = m.sender
    BY <1>2, <2>1
  <2>6. QED BY <2>4, <2>5 DEF OneAuthor
<1>6. QED BY <1>4, <1>5

(* A message that announces no version of f. *)
LEMMA AcceptAsks ==
  ASSUME IInv, NEW m \in Message, accept(m), NEW f \in File, f \notin mixed,
         m.type # "modify" \/ m.lfn # f
  PROVE  /\ \A i \in asks(msgs', f) : \E j \in asks(msgs, f) : msgs'[i] = msgs[j]
         /\ \A i, j \in asks(msgs', f) : i = j
<1>1. msgs \in Seq(Message) /\ msgs' = Append(msgs, m)
  BY Now DEF accept
<1>2. /\ asks(msgs', f) = asks(msgs, f) /\ \A i \in DOMAIN msgs : msgs'[i] = msgs[i]
  <2> DEFINE r == Append(msgs, m)
  <2>1. /\ asks(r, f) = asks(msgs, f) \cup
                         (IF m.type = "modify" /\ m.lfn = f THEN {Len(msgs) + 1} ELSE {})
        /\ \A i \in DOMAIN msgs : r[i] = msgs[i]
    BY <1>1, AppendAsks
  <2> HIDE DEF r
  <2>2. asks(r, f) = asks(msgs, f)
    BY <2>1
  <2>3. QED BY <1>1, <2>1, <2>2 DEF r
<1>3. \A i \in asks(msgs, f) : i \in DOMAIN msgs
  BY DEF asks
<1>4. \A i, j \in asks(msgs, f) : i = j
  BY DEF IInv, OneVersion
<1>5. QED BY <1>2, <1>3, <1>4

LEMMA SendLockInv ==
  ASSUME IInv, NEW u \in User, NEW f \in File, NEW type \in {"lock", "unlock"},
         sendLock(type, f, u)
  PROVE  IInv'
<1> DEFINE m == [type |-> type, lfn |-> f, sender |-> u, host |-> nobody, ver |-> nothing]
<1>1. m \in Message /\ m.type = type /\ m.lfn = f
  BY DEF Message
<1>2. accept(m) /\ event
  BY DEF sendLock
<1> HIDE DEF m
<1>3. UNCHANGED <<copies, version, lockedby, content, inbox, uploads, late, author, newMods,
                  pendMods, transfers, up, dead, phase, job, mixed>>
  BY DEF sendLock, catalogue, clients, mods, nodes, main
<1>4. /\ msgs' = Append(msgs, m) /\ msgs \in Seq(Message)
      /\ raced' \in SUBSET File /\ raced \subseteq raced'
  BY <1>1, <1>2, Now DEF accept
<1>5. TypeOK'
  <2>1. msgs' \in Seq(Message)
    BY <1>1, <1>4
  <2>2. events' \in 0..MaxEvents
    BY <1>2, Events
  <2>3. phase \in {"messages", "ping", "work"}
    BY DEF IInv, TypeOK
  <2>4. QED BY <1>3, <1>4, <2>1, <2>2, <2>3, Now DEF TypeOK
<1>6. JobOK'
  BY <1>3 DEF IInv, JobOK, announced
<1>7. Origin'
  <2>1. \A i \in DOMAIN msgs' : (i \in DOMAIN msgs /\ msgs'[i] = msgs[i]) \/ msgs'[i] = m
    BY <1>1, <1>4, AppendAsks
  <2>2. QED BY <1>1, <1>3, <2>1 DEF IInv, Origin
<1>8. ASSUME NEW g \in File, g \notin mixed'
      PROVE  OneVersion(g)' /\ Copies(g)'
  <2>1. once(newMods, g) /\ g \notin mixed
    BY <1>3, <1>8 DEF IInv, OneVersion
  <2>2. /\ \A i \in asks(msgs', g) : \E j \in asks(msgs, g) : msgs'[i] = msgs[j]
        /\ \A i, j \in asks(msgs', g) : i = j
    BY <1>1, <1>2, <2>1, AcceptAsks
  <2>3. Same(g)
    BY <1>3, <2>1, <2>2 DEF Same
  <2>4. QED BY <1>8, <2>3, SameFile
<1>9. ASSUME NEW g \in File, g \notin raced'
      PROVE  OneAuthor(g)'
  BY <1>1, <1>2, <1>3, <1>9, AcceptAuthor
<1>10. QED BY <1>5, <1>6, <1>7, <1>8, <1>9 DEF IInv

LEMMA SendModifyInv ==
  ASSUME IInv, NEW x \in uploads, sendModify(x)
  PROVE  IInv'
<1> DEFINE m == [type |-> "modify", lfn |-> x.lfn, sender |-> author[x.ver],
                 host |-> x.host, ver |-> x.ver]
<1>1. /\ x \in NewMod /\ x.lfn \in File /\ x.host \in Node /\ x.ver \in Version
      /\ x.ver \in DOMAIN author /\ author[x.ver] \in User
  BY Now, NewFacts DEF IInv, Origin
<1>2. /\ m \in Message /\ m.type = "modify" /\ m.lfn = x.lfn /\ m.host = x.host /\ m.ver = x.ver
      /\ m.sender = author[x.ver]
  BY <1>1 DEF Message
<1>3. accept(m) \/ reject(m)
  BY DEF sendModify
<1>4. /\ uploads' = uploads \ {x}
      /\ UNCHANGED <<copies, version, lockedby, content, inbox, late, author, newMods, pendMods,
                     transfers, up, dead, phase, job, mixed, events>>
  BY DEF sendModify, catalogue, mods, nodes, main
<1> HIDE DEF m
<1>5. /\ \/ accept(m) /\ msgs' = Append(msgs, m)
         \/ UNCHANGED <<msgs, raced>>
      /\ msgs \in Seq(Message) /\ raced' \in SUBSET File /\ raced \subseteq raced'
  BY <1>1, <1>2, <1>3, Now DEF accept, reject
<1>6. TypeOK'
  <2>1. msgs' \in Seq(Message)
    BY <1>2, <1>5
  <2>2. phase \in {"messages", "ping", "work"}
    BY DEF IInv, TypeOK
  <2>3. uploads' \in SUBSET NewMod
    BY <1>4, Now
  <2>4. QED BY <1>4, <1>5, <2>1, <2>2, <2>3, Now DEF TypeOK
<1>7. JobOK'
  BY <1>4 DEF IInv, JobOK, announced
<1>8. Origin'
  <2>1. \A i \in DOMAIN msgs' : (i \in DOMAIN msgs /\ msgs'[i] = msgs[i]) \/ msgs'[i] = m
    BY <1>2, <1>5, AppendAsks
  <2>2. QED BY <1>1, <1>2, <1>4, <2>1 DEF IInv, Origin
<1>9. ASSUME NEW g \in File, g \notin raced'
      PROVE  OneAuthor(g)'
  <2>1. CASE accept(m)
    BY <1>2, <1>4, <1>9, <2>1, AcceptAuthor
  <2>2. CASE UNCHANGED <<msgs, raced>>
    BY <1>4, <1>9, <2>2, AuthorSame
  <2>3. QED BY <1>5, <2>1, <2>2
<1>10. ASSUME NEW g \in File, g \notin mixed', g # x.lfn
       PROVE  OneVersion(g)' /\ Copies(g)'
  <2>1. once(newMods, g) /\ g \notin mixed /\ \A i, j \in asks(msgs, g) : i = j
    BY <1>4, <1>10 DEF IInv, OneVersion
  <2>2. /\ \A i \in asks(msgs', g) : \E j \in asks(msgs, g) : msgs'[i] = msgs[j]
        /\ \A i, j \in asks(msgs', g) : i = j
    <3>1. CASE accept(m)
      BY <1>2, <1>10, <2>1, <3>1, AcceptAsks
    <3>2. CASE UNCHANGED <<msgs, raced>>
      BY <2>1, <3>2
    <3>3. QED BY <1>5, <3>1, <3>2
  <2>3. Same(g)
    BY <1>4, <2>1, <2>2 DEF Same
  <2>4. QED BY <1>10, <2>3, SameFile
<1>11. ASSUME NEW g \in File, g \notin mixed', g = x.lfn
       PROVE  OneVersion(g)' /\ Copies(g)'
  <2>1. OneVersion(g) /\ Copies(g) /\ g \notin mixed
    BY <1>4, <1>11 DEF IInv
  <2>2. /\ asks(msgs, g) = {} /\ ~modificationsPending(g) /\ job.lfn # g
        /\ inbox[g][x.host] = x.ver
        /\ \A y \in uploads' : y.lfn # g
    BY <1>4, <1>11, <2>1 DEF OneVersion
  <2>3. \A i \in asks(msgs', g) : i = Len(msgs) + 1 /\ msgs'[i] = m
    <3>1. CASE msgs' = Append(msgs, m)
      <4> DEFINE r == Append(msgs, m)
      <4>1. /\ asks(r, g) = asks(msgs, g) \cup
                            (IF m.type = "modify" /\ m.lfn = g THEN {Len(msgs) + 1} ELSE {})
            /\ r[Len(msgs) + 1] = m
        BY <1>2, <1>5, AppendAsks
      <4> HIDE DEF r
      <4>2. \A i \in asks(r, g) : i = Len(msgs) + 1 /\ r[i] = m
        BY <2>2, <4>1
      <4>3. QED BY <3>1, <4>2 DEF r
    <3>2. CASE UNCHANGED msgs
      BY <2>2, <3>2
    <3>3. QED BY <1>5, <3>1, <3>2
  <2>4. modificationsPending(g)' <=> modificationsPending(g)
    BY <1>4 DEF modificationsPending
  <2>5. OneVersion(g)'
    BY <1>2, <1>4, <2>1, <2>2, <2>3, <2>4 DEF OneVersion, on
  <2>6. Copies(g)'
    BY <1>4, <2>1 DEF Copies, Covered, on
  <2>7. QED BY <2>5, <2>6
<1>12. QED BY <1>6, <1>7, <1>8, <1>9, <1>10, <1>11 DEF IInv

LEMMA CopyToSEInboxInv ==
  ASSUME IInv, NEW u \in User, NEW f \in File, NEW failed \in SUBSET Node,
         copyToSEInbox(u, f, failed)
  PROVE  IInv'
<1> DEFINE v == Len(author) + 1
<1>1. /\ v <= MaxVersion
      /\ event \/ UNCHANGED events
      /\ late' = late \cup copiesTo(f, failed, v)
      /\ author' = Append(author, u)
      /\ mixed' = IF inProgress(f) THEN mixed \cup {f} ELSE mixed
      /\ \/ \E n \in up \ failed : /\ inbox' = [inbox EXCEPT ![f][n] = v]
                                   /\ uploads' = uploads \cup copiesTo(f, {n}, v)
         \/ UNCHANGED <<inbox, uploads>>
      /\ UNCHANGED <<copies, version, lockedby, content, msgs, newMods, pendMods, transfers,
                     up, dead, phase, job, raced>>
  BY DEF copyToSEInbox, catalogue, mods, nodes, main
<1>2. v \in Version /\ v \notin DOMAIN author
  BY <1>1, Now, MaxAssumption DEF Version
<1>3. /\ Len(author') = v /\ v \in DOMAIN author' /\ author'[v] = u
      /\ author' \in Seq(User \cup {nobody})
      /\ \A w \in DOMAIN author : w \in DOMAIN author' /\ author'[w] = author[w]
  BY <1>1, Now
<1> HIDE DEF v
<1>4. \A where \in SUBSET Node : copiesTo(f, where, v) \in SUBSET NewMod
  BY <1>2 DEF copiesTo, NewMod
<1>5. /\ inbox' \in [File -> [Node -> Version \cup {nothing}]]
      /\ \A g \in File : g # f => inbox'[g] = inbox[g]
      /\ \/ \E n \in Node : uploads' = uploads \cup copiesTo(f, {n}, v) /\ inbox'[f][n] = v
         \/ UNCHANGED <<inbox, uploads>>
  <2>1. inbox \in [File -> [Node -> Version \cup {nothing}]] /\ up \in SUBSET Node
    BY Now
  <2>2. CASE UNCHANGED <<inbox, uploads>>
    BY <2>1, <2>2
  <2>3. ASSUME NEW n \in Node, inbox' = [inbox EXCEPT ![f][n] = v]
        PROVE  /\ inbox' \in [File -> [Node -> Version \cup {nothing}]] /\ inbox'[f][n] = v
               /\ \A g \in File : g # f => inbox'[g] = inbox[g]
    BY <1>2, <2>1, <2>3
  <2>4. QED BY <1>1, <2>1, <2>2, <2>3
<1>6. \A x \in uploads' : x \in uploads \/ (x \in NewMod /\ x.lfn = f /\ x.ver = v)
  BY <1>4, <1>5 DEF copiesTo
<1>7. TypeOK'
  <2>1. uploads' \in SUBSET NewMod /\ late' \in SUBSET NewMod /\ mixed' \in SUBSET File
    BY <1>1, <1>4, <1>6, Now
  <2>2. phase \in {"messages", "ping", "work"} /\ events' \in 0..MaxEvents
    BY <1>1, Events DEF IInv, TypeOK
  <2>3. QED BY <1>1, <1>2, <1>3, <1>5, <2>1, <2>2, Now DEF TypeOK
<1>8. JobOK'
  BY <1>1 DEF IInv, JobOK, announced
<1>9. Origin'
  BY <1>1, <1>3, <1>6 DEF IInv, Origin
<1>10. ASSUME NEW g \in File, g \notin raced'
       PROVE  OneAuthor(g)'
  BY <1>1, <1>3, <1>10, AuthorSame
<1>11. ASSUME NEW g \in File, g \notin mixed', g # f
       PROVE  OneVersion(g)' /\ Copies(g)'
  <2>1. once(newMods, g) /\ g \notin mixed /\ \A i, j \in asks(msgs, g) : i = j
    BY <1>1, <1>11 DEF IInv, OneVersion
  <2>2. Same(g)
    BY <1>1, <1>5, <1>6, <1>11, <2>1 DEF Same
  <2>3. QED BY <1>11, <2>2, SameFile
<1>12. ASSUME f \notin mixed'
       PROVE  OneVersion(f)' /\ Copies(f)'
  <2>1. ~inProgress(f) /\ f \notin mixed
    BY <1>1, <1>12
  <2>2. OneVersion(f) /\ Copies(f)
    BY <2>1 DEF IInv
  <2>3. /\ ~modificationsPending(f) /\ job.lfn # f /\ \A y \in uploads : y.lfn # f
        /\ asks(msgs, f) = {} /\ of(newMods, f) = {} /\ of(pendMods, f) = {}
    BY <2>1, PendingOf DEF inProgress, asks
  <2>4. modificationsPending(f)' <=> modificationsPending(f)
    BY <1>1 DEF modificationsPending
  <2>5. /\ \A x, y \in uploads' : x.lfn = f /\ y.lfn = f => x = y
        /\ \A x \in uploads' : x.lfn = f => inbox'[f][x.host] = x.ver
    BY <1>5, <2>3 DEF copiesTo
  <2>6. OneVersion(f)'
    BY <1>1, <2>2, <2>3, <2>4, <2>5 DEF OneVersion, on
  <2>7. Copies(f)'
    BY <1>1, <2>2, <2>3 DEF Copies, Covered, on
  <2>8. QED BY <2>6, <2>7
<1>13. QED BY <1>7, <1>8, <1>9, <1>10, <1>11, <1>12 DEF IInv

(* A copy that failed and takes effect late: nothing of the file goes by   *)
(* the inbox of that node, unless modifications overlapped.                *)
LEMMA RenamedLateInv ==
  ASSUME IInv, NEW x \in late, NEW f \in File, f = x.lfn,
         f \notin mixed => Elsewhere(f), renamedLate(x)
  PROVE  IInv'
<1>1. /\ inbox' = [inbox EXCEPT ![f][x.host] = x.ver] /\ late' = late \ {x}
      /\ UNCHANGED <<copies, version, lockedby, content, uploads, author, msgs, newMods, pendMods,
                     transfers, up, dead, phase, job, raced, mixed, events>>
  BY DEF renamedLate, catalogue, mods, nodes, main, history
<1>2. x.host \in Node /\ x.ver \in Version
  BY Now, NewFacts
<1>3. /\ inbox' \in [File -> [Node -> Version \cup {nothing}]]
      /\ \A g \in File : g # f => inbox'[g] = inbox[g]
      /\ \A n \in Node : n # x.host => inbox'[f][n] = inbox[f][n]
  <2>1. inbox \in [File -> [Node -> Version \cup {nothing}]]
    BY Now
  <2>2. QED BY <1>1, <1>2, <2>1
<1>4. TypeOK'
  <2>1. phase \in {"messages", "ping", "work"} /\ late' \in SUBSET NewMod
    BY <1>1, Now DEF IInv, TypeOK
  <2>2. QED BY <1>1, <1>3, <2>1, Now DEF TypeOK
<1>5. JobOK'
  BY <1>1 DEF IInv, JobOK, announced
<1>6. Origin' /\ \A g \in File : (g \notin raced => OneAuthor(g))'
  BY <1>1, AuthorsSame
<1>7. ASSUME NEW g \in File, g \notin mixed', g # f
      PROVE  OneVersion(g)' /\ Copies(g)'
  BY <1>1, <1>3, <1>7, StillSame
<1>8. ASSUME f \notin mixed'
      PROVE  OneVersion(f)' /\ Copies(f)'
  <2>1. OneVersion(f) /\ Copies(f) /\ ~Busy(f, x.host)
    BY <1>1, <1>8 DEF IInv, Elsewhere
  <2>2. /\ \A y \in uploads : y.lfn = f => inbox'[f][y.host] = inbox[f][y.host]
        /\ job.lfn = f => inbox'[f][job.host] = inbox[f][job.host]
    <3>1. \A y \in uploads : y.host \in Node
      BY Now, NewFacts
    <3>2. job.lfn = f => job.host \in Node
      BY NoJobFacts DEF IInv, JobOK
    <3>3. QED BY <1>3, <2>1, <3>1, <3>2 DEF Busy
  <2>3. \A i \in asks(msgs, f) : inbox'[f][msgs[i].host] = inbox[f][msgs[i].host]
    <3>1. \A i \in asks(msgs, f) : msgs[i].host \in Node
      BY DEF IInv, Origin, asks
    <3>2. QED BY <1>3, <2>1, <3>1 DEF Busy, asks
  <2>4. \A m \in of(newMods, f) : inbox'[f][m.host] = inbox[f][m.host]
    <3>1. \A m \in of(newMods, f) : m.host \in Node
      BY Now, OfNew
    <3>2. QED BY <1>3, <2>1, <3>1 DEF Busy, of
  <2>5. modificationsPending(f)' <=> modificationsPending(f)
    BY <1>1 DEF modificationsPending
  <2>6. OneVersion(f)'
    BY <1>1, <2>1, <2>2, <2>3, <2>4, <2>5 DEF OneVersion, on
  <2>7. on(f, {"copy"})' => inbox'[f][job.host] = version[f]
    BY <1>1, <2>1, <2>2 DEF Copies, on
  <2>8. Copies(f)'
    BY <1>1, <2>1, <2>7 DEF Copies, Covered, on
  <2>9. QED BY <2>6, <2>8
<1>9. QED BY <1>1, <1>4, <1>5, <1>6, <1>7, <1>8 DEF IInv

-----------------------------------------------------------------------------
(* Messages *)

(* What the first message is, and what its removal does to the rest. *)
LEMMA HeadFacts ==
  ASSUME IInv, msgs # <<>>, msgs' = Tail(msgs)
  PROVE  /\ Head(msgs) \in Message /\ msgs' \in Seq(Message) /\ Head(msgs).lfn \in File
         /\ \A i \in DOMAIN msgs' : i + 1 \in DOMAIN msgs /\ msgs'[i] = msgs[i + 1]
         /\ 1 \in DOMAIN msgs /\ Head(msgs) = msgs[1]
         /\ \A f : of(msgs', f) \subseteq of(msgs, f)
         /\ Head(msgs) \in of(msgs, Head(msgs).lfn)
         /\ Head(msgs).type = "modify" => 1 \in asks(msgs, Head(msgs).lfn)
         /\ \A f \in File \ mixed :
              /\ \A i \in asks(msgs', f) : \E j \in asks(msgs, f) : msgs'[i] = msgs[j]
              /\ \A i, j \in asks(msgs', f) : i = j
              /\ 1 \in asks(msgs, f) => asks(msgs', f) = {}
<1> DEFINE r == Tail(msgs)
<1>1. /\ msgs \in Seq(Message) /\ r = msgs'
      /\ Head(msgs) \in Message /\ r \in Seq(Message)
      /\ \A i \in DOMAIN r : i + 1 \in DOMAIN msgs /\ r[i] = msgs[i + 1]
      /\ 1 \in DOMAIN msgs /\ Head(msgs) = msgs[1]
  BY Now, TailOf
<1>2. \A f : /\ of(r, f) \subseteq of(msgs, f)
             /\ Head(msgs).lfn = f => Head(msgs) \in of(msgs, f)
             /\ \A i \in asks(r, f) : i + 1 \in asks(msgs, f)
             /\ Head(msgs).lfn = f /\ Head(msgs).type = "modify" => 1 \in asks(msgs, f)
  BY <1>1, TailOf
<1>3. \A f : \A i \in asks(r, f) : i \in DOMAIN r /\ i \in Nat \ {0}
  <2>1. DOMAIN r = 1..Len(r) /\ Len(r) \in Nat
    BY <1>1
  <2> HIDE DEF r
  <2>2. QED BY <2>1 DEF asks
<1> HIDE DEF r
<1>4. ASSUME NEW f \in File \ mixed
      PROVE  /\ \A i \in asks(r, f) : \E j \in asks(msgs, f) : r[i] = msgs[j]
             /\ \A i, j \in asks(r, f) : i = j
             /\ 1 \in asks(msgs, f) => asks(r, f) = {}
  <2>1. \A i, j \in asks(msgs, f) : i = j
    BY DEF IInv, OneVersion
  <2>2. \A i \in asks(r, f) : i + 1 \in asks(msgs, f) /\ r[i] = msgs[i + 1] /\ i \in Nat \ {0}
    BY <1>1, <1>2, <1>3
  <2>3. \A i, j \in asks(r, f) : i = j
    <3> SUFFICES ASSUME NEW i \in asks(r, f), NEW j \in asks(r, f)
                 PROVE  i = j
      OBVIOUS
    <3>1. i + 1 = j + 1 /\ i \in Nat /\ j \in Nat
      BY <2>1, <2>2
    <3>2. QED BY <3>1
  <2>4. ASSUME 1 \in asks(msgs, f), NEW i \in asks(r, f)
        PROVE  FALSE
    <3>1. i + 1 = 1 /\ i \in Nat \ {0}
      BY <2>1, <2>2, <2>4
    <3>2. QED BY <3>1
  <2>5. QED BY <2>2, <2>3, <2>4
<1>5. Head(msgs).lfn \in File
  BY <1>1, MessageFacts
<1>6. /\ \A f : of(r, f) \subseteq of(msgs, f)
      /\ Head(msgs) \in of(msgs, Head(msgs).lfn)
      /\ Head(msgs).type = "modify" => 1 \in asks(msgs, Head(msgs).lfn)
  BY <1>2
<1>7. \A f \in File \ mixed :
        /\ \A i \in asks(r, f) : \E j \in asks(msgs, f) : r[i] = msgs[j]
        /\ \A i, j \in asks(r, f) : i = j
        /\ 1 \in asks(msgs, f) => asks(r, f) = {}
  BY <1>4
<1>8. /\ \A f : of(msgs', f) \subseteq of(msgs, f)
      /\ \A f \in File \ mixed :
           /\ \A i \in asks(msgs', f) : \E j \in asks(msgs, f) : msgs'[i] = msgs[j]
           /\ \A i, j \in asks(msgs', f) : i = j
           /\ 1 \in asks(msgs, f) => asks(msgs', f) = {}
  <2>1. r = msgs'
    BY <1>1
  <2>2. QED BY ONLY <1>6, <1>7, <2>1
<1>9. /\ msgs' \in Seq(Message)
      /\ \A i \in DOMAIN msgs' : i + 1 \in DOMAIN msgs /\ msgs'[i] = msgs[i + 1]
  BY <1>1
<1>10. QED BY <1>1, <1>5, <1>6, <1>8, <1>9

LEMMA HandleModifyInv ==
  ASSUME IInv, handleMessageModify
  PROVE  IInv'
<1> DEFINE m == Head(msgs)
           e == [lfn |-> m.lfn, host |-> m.host, ver |-> m.ver]
<1>0. PICK f \in File : f = m.lfn
  BY HeadFacts DEF handleMessageModify, handling
<1>1. /\ job.step = "idle" /\ msgs # <<>> /\ m.type = "modify" /\ msgs' = Tail(msgs)
      /\ newMods' = Append(newMods, e)
      /\ UNCHANGED <<copies, version, lockedby, content, inbox, uploads, late, author, pendMods,
                     transfers, up, dead, phase, job, raced, mixed, events>>
  BY DEF handleMessageModify, handling, idle, catalogue, clients, nodes, main, history
<1>2. /\ m \in Message /\ msgs' \in Seq(Message) /\ f \in File /\ m = msgs[1]
      /\ 1 \in DOMAIN msgs /\ m \in of(msgs, f) /\ 1 \in asks(msgs, f)
      /\ \A i \in DOMAIN msgs' : i + 1 \in DOMAIN msgs /\ msgs'[i] = msgs[i + 1]
  BY <1>0, <1>1, HeadFacts
<1>3. m.host \in Node /\ m.ver \in DOMAIN author /\ author[m.ver] = m.sender
  BY <1>1, <1>2 DEF IInv, Origin
<1>4. e \in NewMod /\ e.lfn = f /\ e.host = m.host /\ e.ver = m.ver
  <2>1. m.ver \in Version
    BY <1>3, Now, MaxAssumption DEF Version
  <2>2. QED BY <1>0, <1>2, <1>3, <2>1 DEF NewMod
<1> HIDE DEF m, e
<1>5. /\ \A g : /\ of(newMods', g) = of(newMods, g) \cup (IF e.lfn = g THEN {e} ELSE {})
                /\ once(newMods, g) /\ (e.lfn = g => of(newMods, g) = {}) => once(newMods', g)
      /\ newMods' \in Seq(NewMod)
      /\ \A i \in DOMAIN newMods : i \in DOMAIN newMods' /\ newMods'[i] = newMods[i]
      /\ \A i \in DOMAIN newMods' : i \in DOMAIN newMods \/ newMods'[i] = e
  <2>1. newMods \in Seq(NewMod)
    BY Now
  <2>2. /\ newMods' \in Seq(NewMod)
        /\ \A i \in DOMAIN newMods : i \in DOMAIN newMods' /\ newMods'[i] = newMods[i]
        /\ \A i \in DOMAIN newMods' : i \in DOMAIN newMods \/ newMods'[i] = e
    BY <1>1, <1>4, <2>1
  <2>3. QED BY <1>1, <1>4, <2>1, <2>2, AppendOf
<1>6. TypeOK'
  <2>1. phase \in {"messages", "ping", "work"}
    BY DEF IInv, TypeOK
  <2>2. QED BY <1>1, <1>2, <1>5, <2>1, Now DEF TypeOK
<1>7. JobOK'
  BY <1>1 DEF IInv, JobOK
<1>8. Origin'
  <2>1. \A i \in DOMAIN newMods' : newMods'[i].ver \in DOMAIN author
    BY <1>3, <1>4, <1>5 DEF IInv, Origin
  <2>2. QED BY <1>1, <1>2, <2>1 DEF IInv, Origin
<1>9. ASSUME NEW g \in File, g \notin raced'
      PROVE  OneAuthor(g)'
  <2>1. of(msgs', g) \subseteq of(msgs, g)
    BY <1>1, HeadFacts
  <2>2. CASE g # f
    <3>1. of(newMods', g) = of(newMods, g)
      BY <1>4, <1>5, <2>2
    <3>2. QED BY <1>1, <1>9, <2>1, <3>1, AuthorSame
  <2>3. CASE g = f
    <3>1. PICK s : /\ lockedby[g] \in {nobody, s}
                   /\ \A x \in of(msgs, g) : x.sender = s
                   /\ \A x \in of(newMods, g) : author[x.ver] = s
      BY <1>1, <1>9 DEF IInv, OneAuthor
    <3>2. author[e.ver] = s
      BY <1>2, <1>3, <1>4, <2>3, <3>1
    <3>3. lockedby'[g] \in {nobody, s} /\ \A x \in of(msgs', g) : x.sender = s
      BY <1>1, <2>1, <3>1
    <3>4. \A x \in of(newMods', g) : author'[x.ver] = s
      BY <1>1, <1>5, <3>1, <3>2
    <3>5. QED BY <3>3, <3>4 DEF OneAuthor
  <2>4. QED BY <2>2, <2>3
<1>10. ASSUME NEW g \in File, g \notin mixed', g # f
       PROVE  OneVersion(g)' /\ Copies(g)'
  <2>1. once(newMods, g) /\ g \notin mixed
    BY <1>1, <1>10 DEF IInv, OneVersion
  <2>2. /\ \A i \in asks(msgs', g) : \E j \in asks(msgs, g) : msgs'[i] = msgs[j]
        /\ \A i, j \in asks(msgs', g) : i = j
    BY <1>1, <2>1, HeadFacts
  <2>3. of(newMods', g) = of(newMods, g) /\ once(newMods', g)
    BY <1>4, <1>5, <1>10, <2>1
  <2>4. Same(g)
    BY <1>1, <2>1, <2>2, <2>3 DEF Same
  <2>5. QED BY <1>10, <2>4, SameFile
<1>11. ASSUME f \notin mixed'
       PROVE  OneVersion(f)' /\ Copies(f)'
  <2>1. OneVersion(f) /\ Copies(f) /\ f \notin mixed
    BY <1>1, <1>2, <1>11 DEF IInv
  <2>2. /\ inbox[f][m.host] = m.ver /\ ~modificationsPending(f) /\ job.lfn # f
        /\ \A x \in uploads : x.lfn # f
    BY <1>2, <2>1 DEF OneVersion
  <2>3. asks(msgs', f) = {}
    BY <1>1, <1>2, <2>1, HeadFacts
  <2>4. of(newMods, f) = {} /\ of(pendMods, f) = {}
    BY <2>2, PendingOf
  <2>5. of(newMods', f) = {e} /\ once(newMods', f)
    BY <1>4, <1>5, <2>1, <2>4 DEF OneVersion
  <2>6. OneVersion(f)'
    BY <1>1, <1>4, <2>2, <2>3, <2>5 DEF OneVersion, on
  <2>7. Copies(f)'
    BY <1>1, <2>1, <2>2, <2>4, <2>5 DEF Copies, Covered, on
  <2>8. QED BY <2>6, <2>7
<1>12. QED BY <1>6, <1>7, <1>8, <1>9, <1>10, <1>11 DEF IInv

LEMMA HandleLockInv ==
  ASSUME IInv, handleMessageLock \/ handleMessageUnlock
  PROVE  IInv'
<1> DEFINE m == Head(msgs)
           f == m.lfn
<1>1. /\ job.step = "idle" /\ msgs # <<>> /\ msgs' = Tail(msgs)
      /\ lockedby' \in {[lockedby EXCEPT ![f] = m.sender], [lockedby EXCEPT ![f] = nobody]}
      /\ UNCHANGED <<copies, version, content, inbox, uploads, late, author, newMods, pendMods,
                     transfers, up, dead, phase, job, raced, mixed, events>>
  BY DEF handleMessageLock, handleMessageUnlock, handling, idle, clients, mods, nodes, main,
         history
<1>2. /\ m \in Message /\ msgs' \in Seq(Message) /\ f \in File /\ m \in of(msgs, f)
      /\ \A i \in DOMAIN msgs' : i + 1 \in DOMAIN msgs /\ msgs'[i] = msgs[i + 1]
  BY <1>1, HeadFacts
<1>3. m.sender \in User
  BY <1>2, MessageFacts
<1> HIDE DEF m
<1>4. /\ lockedby' \in [File -> User \cup {nobody}]
      /\ lockedby'[f] \in {nobody, m.sender}
      /\ \A g \in File : g # f => lockedby'[g] = lockedby[g]
  BY <1>1, <1>2, <1>3, Now
<1>5. TypeOK'
  <2>1. phase \in {"messages", "ping", "work"}
    BY DEF IInv, TypeOK
  <2>2. QED BY <1>1, <1>2, <1>4, <2>1, Now DEF TypeOK
<1>6. JobOK'
  BY <1>1 DEF IInv, JobOK
<1>7. Origin'
  BY <1>1, <1>2 DEF IInv, Origin
<1>8. ASSUME NEW g \in File, g \notin raced'
      PROVE  OneAuthor(g)'
  <2>1. of(msgs', g) \subseteq of(msgs, g)
    BY <1>1, HeadFacts
  <2>2. CASE g # f
    BY <1>1, <1>4, <1>8, <2>1, <2>2, AuthorSame
  <2>3. CASE g = f
    <3>1. PICK s : /\ lockedby[g] \in {nobody, s}
                   /\ \A x \in of(msgs, g) : x.sender = s
                   /\ \A x \in of(newMods, g) : author[x.ver] = s
      BY <1>1, <1>8 DEF IInv, OneAuthor
    <3>2. m.sender = s
      BY <1>2, <2>3, <3>1
    <3>3. lockedby'[g] \in {nobody, s} /\ \A x \in of(msgs', g) : x.sender = s
      BY <1>4, <2>1, <2>3, <3>1, <3>2
    <3>4. \A x \in of(newMods', g) : author'[x.ver] = s
      BY <1>1, <3>1
    <3>5. QED BY <3>3, <3>4 DEF OneAuthor
  <2>4. QED BY <2>2, <2>3
<1>9. ASSUME NEW g \in File, g \notin mixed'
      PROVE  OneVersion(g)' /\ Copies(g)'
  <2>1. once(newMods, g) /\ g \notin mixed
    BY <1>1, <1>9 DEF IInv, OneVersion
  <2>2. /\ \A i \in asks(msgs', g) : \E j \in asks(msgs, g) : msgs'[i] = msgs[j]
        /\ \A i, j \in asks(msgs', g) : i = j
    BY <1>1, <2>1, HeadFacts
  <2>3. Same(g)
    BY <1>1, <2>1, <2>2 DEF Same
  <2>4. QED BY <1>9, <2>3, SameFile
<1>10. QED BY <1>5, <1>6, <1>7, <1>8, <1>9 DEF IInv

-----------------------------------------------------------------------------
(* Pending modifications *)

LEMMA VersionSame ==
  ASSUME NEW f, OneVersion(f), UNCHANGED <<uploads, msgs, newMods>>, inbox'[f] = inbox[f],
         of(pendMods, f) = {} => of(pendMods', f) = {},
         job'.lfn = f => job.lfn = f,
         on(f, {"register"}) => job'.lfn = f /\ job'.step = "register" /\ job'.host = job.host,
         job'.lfn = f /\ job'.step \in {"fetch", "push"} => on(f, {"fetch", "push"})
  PROVE  OneVersion(f)'
<1>1. modificationsPending(f)' => modificationsPending(f)
  <2>1. modificationsPending(f)' <=> of(newMods', f) # {} \/ of(pendMods', f) # {}
    BY DEF modificationsPending, of
  <2>2. of(newMods', f) = of(newMods, f)
    BY DEF of
  <2>3. QED BY <2>1, <2>2, PendingOf
<1>2. on(f, {"register"}) => on(f, {"register"})' /\ job'.host = job.host
  BY DEF on
<1>3. on(f, {"fetch", "push"})' => on(f, {"fetch", "push"})
  BY DEF on
<1>4. asks(msgs, f)' = asks(msgs, f) /\ of(newMods, f)' = of(newMods, f)
  BY DEF asks, of
<1>5. QED
  BY <1>1, <1>2, <1>3, <1>4 DEF OneVersion, once

(* A put that failed, or one that worked, has to do with one copy only. *)
LEMMA PutType ==
  ASSUME IInv, NEW f \in File, NEW n \in Node, NEW c \in Version \cup {nothing},
         UNCHANGED content \/ content' = [content EXCEPT ![f][n] = c]
  PROVE  /\ content' \in [File -> [Node -> Version \cup {nothing}]]
         /\ \A g \in File : g # f => content'[g] = content[g]
         /\ \A p \in Node : p # n => content'[f][p] = content[f][p]
         /\ content'[f][n] \in {content[f][n], c}
         /\ content' # content => content'[f][n] = c
<1>1. content \in [File -> [Node -> Version \cup {nothing}]]
  BY Now
<1>2. CASE UNCHANGED content
  BY <1>1, <1>2
<1>3. CASE content' = [content EXCEPT ![f][n] = c]
  BY <1>1, <1>3
<1>4. QED BY <1>2, <1>3

(* What a put makes of the copies of f, of which one is n: when n then has *)
(* the version, its entry may be marked.                                   *)
LEMMA PutCopies ==
  ASSUME IInv, NEW f \in File, f \notin mixed, NEW k \in DOMAIN pendMods,
         pendMods[k].lfn = f, pendMods[k].host \in Node,
         \/ pendMods' = pendMods
         \/ /\ pendMods' = [pendMods EXCEPT ![k].host = nobody]
            /\ content'[f][pendMods[k].host] = content[f][pendMods[k].source]
            /\ of(newMods, f) = {} => content[f][pendMods[k].source] # nothing
         \/ /\ pendMods' = [pendMods EXCEPT ![k].host = nobody]
            /\ on(f, {"push"})
            /\ content'[f][pendMods[k].host] = content[f][job.host],
         \A p \in Node \ {pendMods[k].host} : content'[f][p] = content[f][p],
         UNCHANGED <<copies, version, inbox, uploads, late, msgs, newMods, transfers>>,
         UNCHANGED <<job.lfn, job.step, job.host>>,
         job.lfn = nobody \/ job.step = "push"
  PROVE  OneVersion(f)' /\ Copies(f)'
<1> DEFINE m == pendMods[k]
           h == m.host
<1>1. OneVersion(f) /\ Copies(f) /\ pendMods \in Seq(PendMod) /\ JobOK
  BY Now DEF IInv
<1>2. /\ m \in PendMod /\ m \in of(pendMods, f) /\ m.source \in Node /\ h \in Node
      /\ h # m.source
  <2>1. m \in PendMod /\ m \in of(pendMods, f)
    BY <1>1 DEF of
  <2>2. QED BY <1>1, <2>1, PendFacts DEF Copies
<1>3. /\ \A e \in of(pendMods', f) : \E d \in of(pendMods, f) : d.source = e.source
                                                             /\ e.host \in {d.host, nobody}
      /\ \A e \in of(pendMods, f) : e \in of(pendMods', f) \/ (e = m /\ pendMods' # pendMods)
      /\ \A e \in of(pendMods, f) : e.source = m.source
  <2>1. \A e \in of(pendMods, f) : e.source = m.source
    BY <1>1, <1>2 DEF Copies
  <2>2. CASE pendMods' = pendMods
    BY <2>1, <2>2
  <2>3. CASE pendMods' = [pendMods EXCEPT ![k].host = nobody] /\ pendMods' # pendMods
    <3> DEFINE r == [pendMods EXCEPT ![k].host = nobody]
    <3>1. /\ \A e \in of(r, f) : \E d \in of(pendMods, f) : d.source = e.source
                                                        /\ e.host \in {d.host, nobody}
          /\ \A e \in of(pendMods, f) : e \in of(r, f) \/ e = m
      BY <1>1, MarkOf
    <3>2. r = pendMods'
      BY <2>3
    <3> HIDE DEF r
    <3>3. QED BY ONLY <2>1, <2>3, <3>1, <3>2
  <2>4. QED BY <2>2, <2>3
<1> HIDE DEF m, h
<1>4. /\ \A t \in transfers : t.lfn # f
      /\ \A s : on(f, s)' <=> on(f, s)
      /\ job'.lfn = job.lfn /\ job'.step = job.step /\ job'.host = job.host
      /\ nobody \notin Node
      /\ \A s : on(f, s) => job.lfn = f /\ job.step = "push" /\ of(newMods, f) = {}
      /\ job.lfn = f => /\ of(newMods, f) = {} /\ m.source = job.host
                        /\ content[f][job.host] = version[f]
                        /\ job.host \in Node
  <2>1. \A t \in transfers : t.lfn # f
    BY <1>1, <1>2 DEF Copies
  <2>2. job.lfn = f => job.step = "push" /\ f # nobody
    BY NoJobFacts
  <2>3. job.lfn = f => /\ of(newMods, f) = {} /\ m.source = job.host
                       /\ content[f][job.host] = version[f] /\ job.host \in Node
    BY <1>1, <1>2, <2>2 DEF Copies, OneVersion, on, JobOK
  <2>4. QED BY <2>1, <2>2, <2>3, NoJobFacts DEF on
<1>5. of(newMods, f) = {} =>
        /\ \A n \in copies[f] : content[f][n] = version[f] \/ Covered(f, n)
        /\ content[f][m.source] \in {version[f], nothing}
  BY <1>1, <1>2 DEF Copies
<1>6. OneVersion(f)'
  <2>1. of(pendMods, f) # {}
    BY <1>2
  <2>2. QED BY <1>1, <1>4, <2>1, VersionSame DEF on
<1>7. \A e \in of(pendMods', f) : e.source = m.source /\ e.host # e.source
  <2>1. ASSUME NEW e \in of(pendMods', f)
        PROVE  e.source = m.source /\ e.host # e.source
    <3>1. PICK d \in of(pendMods, f) : d.source = e.source /\ e.host \in {d.host, nobody}
      BY <1>3
    <3>2. d.host # d.source /\ d.source = m.source
      BY <1>1, <1>3 DEF Copies
    <3>3. QED BY <1>2, <1>4, <3>1, <3>2
  <2>2. QED BY <2>1
<1>8. content'[f][m.source] = content[f][m.source]
  BY <1>2 DEF m, h
<1>9. of(newMods, f) = {} =>
        /\ \A n \in copies[f] : content'[f][n] = version[f] \/ Covered(f, n)'
        /\ content'[f][m.source] \in {version[f], nothing}
  <2> SUFFICES ASSUME of(newMods, f) = {}, NEW n \in copies[f]
               PROVE  content'[f][n] = version[f] \/ Covered(f, n)'
    BY <1>5, <1>8
  <2>1. n \in Node /\ (content[f][n] = version[f] \/ Covered(f, n))
    BY <1>5, Now
  <2>2. CASE n # h
    <3>1. content'[f][n] = content[f][n]
      BY <2>1, <2>2 DEF h, m
    <3>2. \A e \in of(pendMods, f) : e.host = n => e \in of(pendMods', f)
      BY <1>3, <2>2 DEF h
    <3>3. QED BY <2>1, <3>1, <3>2 DEF Covered
  <2>3. CASE n = h /\ pendMods' = pendMods
    <3>1. m \in of(pendMods', f) /\ m.host = n
      BY <1>2, <2>3 DEF h
    <3>2. QED BY <3>1 DEF Covered
  <2>4. CASE n = h /\ pendMods' # pendMods
    <3>1. \/ content'[f][h] = content[f][m.source] /\ content[f][m.source] # nothing
          \/ on(f, {"push"}) /\ content'[f][h] = content[f][job.host]
      BY <2>4 DEF h, m
    <3>2. content'[f][h] = version[f]
      BY <1>4, <1>5, <3>1
    <3>3. QED BY <2>4, <3>2
  <2>5. QED BY <2>2, <2>3, <2>4
<1>10. Copies(f)'
  <2>1. of(newMods, f)' = of(newMods, f) /\ (of(newMods, f) # {} => \A s : ~on(f, s))
    BY <1>4 DEF of
  <2>2. \A e \in of(pendMods', f), x \in of(newMods, f) : e.source = x.host
    BY <1>1, <1>2, <1>7 DEF Copies
  <2>3. job.lfn = f => content'[f][job.host] = version[f] /\ m.source = job.host
    BY <1>4, <1>8
  <2>4. /\ ~on(f, {"rm", "register"}) /\ ~on(f, {"copy"}) /\ ~on(f, {"copy", "rm", "register"})
        /\ on(f, {"rm", "register", "fetch", "push"}) => job.lfn = f
    BY <1>4 DEF on
  <2>5. QED BY <1>4, <1>7, <1>9, <2>1, <2>2, <2>3, <2>4 DEF Copies
<1>11. QED BY <1>6, <1>10

(* The entry that a scan has come to is not marked yet. *)
LEMMA ScanFacts ==
  ASSUME IInv, job.step \in {"try", "push"}, job.i \in DOMAIN pendMods,
         job' = [job EXCEPT !.i = @ + 1],
         pendMods' = pendMods \/ pendMods' = [pendMods EXCEPT ![job.i].host = nobody]
  PROVE  /\ pendMods' \in Seq(PendMod)
         /\ \A i \in DOMAIN pendMods' :
              pendMods'[i].host = nobody => job'.step \in {"try", "push"} /\ i < job'.i
         /\ \A g : pendMods[job.i].lfn # g => of(pendMods', g) = of(pendMods, g)
         /\ pendMods[job.i].host \in Node /\ pendMods[job.i].source \in Node
         /\ pendMods[job.i].lfn \in File /\ job.host \in Node
         /\ job' \in Job /\ UNCHANGED <<job.step, job.lfn, job.host>>
         /\ job.step = "try" => job.lfn = nobody
<1>1. /\ job' \in Job /\ job'.step = job.step /\ job'.lfn = job.lfn /\ job'.host = job.host
      /\ job'.i = job.i + 1 /\ job.i \in Nat
  <2>1. job \in Job
    BY Now
  <2>2. QED BY <2>1 DEF Job
<1>2. pendMods \in Seq(PendMod) /\ pendMods[job.i] \in PendMod
  BY Now
<1>3. \A i \in DOMAIN pendMods : pendMods[i].host = nobody => i < job.i
  BY Now
<1>4. pendMods[job.i].host # nobody
  BY <1>1, <1>3
<1>5. /\ pendMods[job.i].host \in Node /\ pendMods[job.i].source \in Node
      /\ pendMods[job.i].lfn \in File
  BY <1>2, <1>4, PendFacts
<1>6. job.host \in Node /\ (job.step = "try" => job.lfn = nobody)
  BY DEF IInv, JobOK
<1>7. \A i \in DOMAIN pendMods : i \in Nat
  BY <1>2
<1>8. /\ pendMods' \in Seq(PendMod) /\ DOMAIN pendMods' = DOMAIN pendMods
      /\ \A i \in DOMAIN pendMods : i # job.i => pendMods'[i] = pendMods[i]
      /\ \A g : pendMods[job.i].lfn # g => of(pendMods', g) = of(pendMods, g)
  <2>1. CASE pendMods' = pendMods
    BY <1>2, <2>1
  <2>2. CASE pendMods' = [pendMods EXCEPT ![job.i].host = nobody]
    <3> DEFINE r == [pendMods EXCEPT ![job.i].host = nobody]
    <3>1. /\ r \in Seq(PendMod) /\ DOMAIN r = DOMAIN pendMods
          /\ \A i \in DOMAIN pendMods : i # job.i => r[i] = pendMods[i]
          /\ \A g : pendMods[job.i].lfn # g => of(r, g) = of(pendMods, g)
      BY <1>2, MarkOf
    <3>2. r = pendMods'
      BY <2>2
    <3> HIDE DEF r
    <3>3. QED BY ONLY <3>1, <3>2
  <2>3. QED BY <2>1, <2>2
<1>9. \A i \in DOMAIN pendMods' :
        pendMods'[i].host = nobody => job'.step \in {"try", "push"} /\ i < job'.i
  <2> SUFFICES ASSUME NEW i \in DOMAIN pendMods', pendMods'[i].host = nobody
               PROVE  i < job.i + 1
    BY <1>1
  <2>1. i \in DOMAIN pendMods /\ (i = job.i \/ i < job.i)
    BY <1>3, <1>8
  <2>2. QED BY <1>1, <1>7, <2>1
<1>10. QED BY <1>1, <1>5, <1>6, <1>8, <1>9

LEMMA TryNextInv ==
  ASSUME IInv, tryNext
  PROVE  IInv'
<1> DEFINE m == pendMods[job.i]
<1>1. /\ job.step = "try" /\ job.i \in DOMAIN pendMods /\ job' = [job EXCEPT !.i = @ + 1]
      /\ UNCHANGED <<copies, version, lockedby, inbox, uploads, late, author, msgs, newMods,
                     transfers, up, dead, phase, raced, mixed, events>>
  BY DEF tryNext, catalogue, clients, nodes, history
<1>2. \/ m.host # job.host /\ UNCHANGED <<content, pendMods>>
      \/ /\ content[m.lfn][m.source] # nothing
         /\ content' = [content EXCEPT ![m.lfn][m.host] = content[m.lfn][m.source]]
         /\ pendMods' = [pendMods EXCEPT ![job.i].host = nobody]
      \/ putFails(m.lfn, m.host) /\ UNCHANGED pendMods
  BY DEF tryNext
<1>3. /\ pendMods' \in Seq(PendMod)
      /\ \A i \in DOMAIN pendMods' :
           pendMods'[i].host = nobody => job'.step \in {"try", "push"} /\ i < job'.i
      /\ \A g : m.lfn # g => of(pendMods', g) = of(pendMods, g)
      /\ m.host \in Node /\ m.source \in Node /\ m.lfn \in File /\ job.host \in Node
      /\ job' \in Job /\ UNCHANGED <<job.step, job.lfn, job.host>> /\ job.lfn = nobody
  BY <1>1, <1>2, ScanFacts
<1> HIDE DEF m
<1>4. PICK f \in File : f = m.lfn
  BY <1>3
<1>5. /\ content' \in [File -> [Node -> Version \cup {nothing}]]
      /\ \A g \in File : g # f => content'[g] = content[g]
      /\ \A p \in Node : p # m.host => content'[f][p] = content[f][p]
  <2>1. content[f][m.source] \in Version \cup {nothing} /\ nothing \in Version \cup {nothing}
    BY <1>3, Now
  <2>2. PICK c \in Version \cup {nothing} :
          UNCHANGED content \/ content' = [content EXCEPT ![f][m.host] = c]
    BY <1>2, <1>4, <2>1 DEF putFails
  <2>3. m.host \in Node
    BY <1>3
  <2>4. QED BY <2>2, <2>3, PutType
<1>6. /\ pendMods' # pendMods =>
           /\ content'[f][m.host] = content[f][m.source]
           /\ content[f][m.source] # nothing
      /\ \/ pendMods' = pendMods
         \/ pendMods' = [pendMods EXCEPT ![job.i].host = nobody]
  BY <1>2, <1>3, <1>4, Now
<1>7. TypeOK'
  <2>1. phase \in {"messages", "ping", "work"}
    BY DEF IInv, TypeOK
  <2>2. QED BY <1>1, <1>3, <1>5, <2>1, Now DEF TypeOK
<1>8. JobOK'
  BY <1>1, <1>3 DEF IInv, JobOK
<1>9. Origin' /\ \A g \in File : (g \notin raced => OneAuthor(g))'
  BY <1>1, AuthorsSame
<1>10. ASSUME NEW g \in File, g \notin mixed', g # f
       PROVE  OneVersion(g)' /\ Copies(g)'
  <2>1. job'.lfn # g /\ job.lfn # g
    BY <1>3, NoJobFacts
  <2>2. of(pendMods', g) = of(pendMods, g) /\ content'[g] = content[g]
    BY <1>3, <1>4, <1>5, <1>10
  <2>3. QED BY <1>1, <1>10, <2>1, <2>2, StillSame
<1>11. ASSUME f \notin mixed'
       PROVE  OneVersion(f)' /\ Copies(f)'
  <2>1. f \notin mixed
    BY <1>1, <1>11
  <2>2. pendMods[job.i].lfn = f /\ pendMods[job.i].host \in Node
    BY <1>3, <1>4 DEF m
  <2>3. \/ pendMods' = pendMods
        \/ /\ pendMods' = [pendMods EXCEPT ![job.i].host = nobody]
           /\ content'[f][pendMods[job.i].host] = content[f][pendMods[job.i].source]
           /\ of(newMods, f) = {} => content[f][pendMods[job.i].source] # nothing
    BY <1>6 DEF m
  <2>4. \A p \in Node \ {pendMods[job.i].host} : content'[f][p] = content[f][p]
    BY <1>5 DEF m
  <2>5. QED BY <1>1, <1>3, <2>1, <2>2, <2>3, <2>4, PutCopies
<1>12. QED BY <1>7, <1>8, <1>9, <1>10, <1>11 DEF IInv

LEMMA CopyFromLocalInv ==
  ASSUME IInv, copyFromLocal
  PROVE  IInv'
<1> DEFINE m == pendMods[job.i]
<1>1. /\ job.step = "push" /\ job.i \in DOMAIN pendMods /\ job' = [job EXCEPT !.i = @ + 1]
      /\ UNCHANGED <<copies, version, lockedby, inbox, uploads, late, author, msgs, newMods,
                     transfers, up, phase, raced, mixed, events>>
  BY DEF copyFromLocal, catalogue, clients, history
<1>2. \/ m.lfn # job.lfn /\ UNCHANGED <<content, pendMods, dead>>
      \/ /\ m.lfn = job.lfn
         /\ content' = [content EXCEPT ![m.lfn][m.host] = content[m.lfn][job.host]]
         /\ pendMods' = [pendMods EXCEPT ![job.i].host = nobody]
         /\ UNCHANGED dead
      \/ /\ m.lfn = job.lfn /\ putFails(m.lfn, m.host) /\ UNCHANGED pendMods
         /\ dead' = dead \cup {m.host}
  BY DEF copyFromLocal
<1>3. /\ pendMods' \in Seq(PendMod)
      /\ \A i \in DOMAIN pendMods' :
           pendMods'[i].host = nobody => job'.step \in {"try", "push"} /\ i < job'.i
      /\ \A g : m.lfn # g => of(pendMods', g) = of(pendMods, g)
      /\ m.host \in Node /\ m.source \in Node /\ m.lfn \in File /\ job.host \in Node
      /\ job' \in Job /\ UNCHANGED <<job.step, job.lfn, job.host>>
  BY <1>1, <1>2, ScanFacts
<1> HIDE DEF m
<1>4. PICK f \in File : f = m.lfn
  BY <1>3
<1>5. /\ content' \in [File -> [Node -> Version \cup {nothing}]]
      /\ \A g \in File : g # f => content'[g] = content[g]
      /\ \A p \in Node : p # m.host => content'[f][p] = content[f][p]
  <2>1. content[f][job.host] \in Version \cup {nothing} /\ nothing \in Version \cup {nothing}
    BY <1>3, Now
  <2>2. PICK c \in Version \cup {nothing} :
          UNCHANGED content \/ content' = [content EXCEPT ![f][m.host] = c]
    BY <1>2, <1>4, <2>1 DEF putFails
  <2>3. m.host \in Node
    BY <1>3
  <2>4. QED BY <2>2, <2>3, PutType
<1>6. \/ pendMods' = pendMods
      \/ /\ pendMods' = [pendMods EXCEPT ![job.i].host = nobody]
         /\ content'[f][m.host] = content[f][job.host]
         /\ job.lfn = f
  BY <1>2, <1>3, <1>4, Now
<1>7. TypeOK'
  <2>1. phase \in {"messages", "ping", "work"}
    BY DEF IInv, TypeOK
  <2>2. dead' \in SUBSET Node
    BY <1>2, <1>3, Now
  <2>3. QED BY <1>1, <1>3, <1>5, <2>1, <2>2, Now DEF TypeOK
<1>8. JobOK'
  BY <1>1, <1>3 DEF IInv, JobOK
<1>9. Origin' /\ \A g \in File : (g \notin raced => OneAuthor(g))'
  BY <1>1, AuthorsSame
<1>10. ASSUME NEW g \in File, g \notin mixed', g # f
       PROVE  OneVersion(g)' /\ Copies(g)'
  <2>1. of(pendMods', g) = of(pendMods, g) /\ content'[g] = content[g]
    BY <1>3, <1>4, <1>5, <1>10
  <2>2. IF job.lfn = g THEN UNCHANGED <<job.lfn, job.step, job.host>> ELSE job'.lfn # g
    BY <1>3
  <2>3. QED BY <1>1, <1>10, <2>1, <2>2, StillSame
<1>11. ASSUME f \notin mixed'
       PROVE  OneVersion(f)' /\ Copies(f)'
  <2>1. f \notin mixed
    BY <1>1, <1>11
  <2>2. pendMods[job.i].lfn = f /\ pendMods[job.i].host \in Node
    BY <1>3, <1>4 DEF m
  <2>3. \/ pendMods' = pendMods
        \/ /\ pendMods' = [pendMods EXCEPT ![job.i].host = nobody]
           /\ on(f, {"push"})
           /\ content'[f][pendMods[job.i].host] = content[f][job.host]
    BY <1>1, <1>6 DEF m, on
  <2>4. \A p \in Node \ {pendMods[job.i].host} : content'[f][p] = content[f][p]
    BY <1>5 DEF m
  <2>5. QED BY <1>1, <1>3, <2>1, <2>2, <2>3, <2>4, PutCopies
<1>12. QED BY <1>7, <1>8, <1>9, <1>10, <1>11 DEF IInv

(* Marked entries go; what is not marked stays. *)
LEMMA PruneInv ==
  ASSUME IInv, tryModificationsDone \/ handleNewModificationDone
  PROVE  IInv'
<1>1. /\ job.step \in {"try", "push"} /\ pendMods' = prune(pendMods)
      /\ UNCHANGED <<copies, version, lockedby, content, inbox, uploads, late, author, msgs,
                     newMods, transfers, up, dead, phase, raced, mixed, events>>
      /\ \/ job.step = "try" /\ job' = [job EXCEPT !.step = "idle"]
         \/ job' = noJob
  BY DEF tryModificationsDone, handleNewModificationDone, catalogue, clients, nodes, history
<1>2. job \in Job /\ (job.step = "try" => job.lfn = nobody)
  BY Now DEF IInv, JobOK
<1>3. job' \in Job /\ job'.step = "idle" /\ job'.lfn = nobody
  <2>1. CASE job' = noJob
    BY <2>1, NoJobFacts
  <2>2. CASE job.step = "try" /\ job' = [job EXCEPT !.step = "idle"]
    BY <1>2, <2>2 DEF Job, Steps
  <2>3. QED BY <1>1, <2>1, <2>2
<1>4. /\ pendMods' \in Seq(PendMod)
      /\ \A i \in DOMAIN pendMods' : pendMods'[i].host # nobody
      /\ \A f : of(pendMods', f) = {e \in of(pendMods, f) : e.host # nobody}
  <2> DEFINE r == prune(pendMods)
  <2>1. /\ r \in Seq(PendMod) /\ \A i \in DOMAIN r : r[i].host # nobody
        /\ \A f : of(r, f) = {e \in of(pendMods, f) : e.host # nobody}
    BY Now, PruneFacts, PruneOf
  <2>2. r = pendMods'
    BY <1>1
  <2> HIDE DEF r
  <2>3. QED BY ONLY <2>1, <2>2
<1>5. TypeOK'
  <2>1. phase \in {"messages", "ping", "work"}
    BY DEF IInv, TypeOK
  <2>2. QED BY <1>1, <1>3, <1>4, <2>1, Now DEF TypeOK
<1>6. JobOK'
  BY <1>3 DEF JobOK
<1>7. Origin' /\ \A g \in File : (g \notin raced => OneAuthor(g))'
  BY <1>1, AuthorsSame
<1>8. ASSUME NEW f \in File, f \notin mixed'
      PROVE  OneVersion(f)' /\ Copies(f)'
  <2>1. OneVersion(f) /\ Copies(f)
    BY <1>1, <1>8 DEF IInv
  <2>2. job'.lfn # f /\ \A s : ~on(f, s)'
    BY <1>3, NoJobFacts DEF on
  <2>3. of(pendMods', f) \subseteq of(pendMods, f)
    BY <1>4
  <2>4. /\ ~on(f, {"register"})
        /\ on(f, {"rm", "register"}) => FALSE
    BY <1>1 DEF on
  <2>5. OneVersion(f)'
    BY <1>1, <2>1, <2>2, <2>3, <2>4, VersionSame
  <2>6. of(newMods, f)' = of(newMods, f)
    BY <1>1 DEF of
  <2>7. \A n \in copies[f] : Covered(f, n) => Covered(f, n)'
    <3>1. \A n \in copies[f] : n # nobody
      BY NoJobFacts, Now
    <3>2. QED BY <1>4, <3>1 DEF Covered
  <2>8. Copies(f)'
    BY <1>1, <2>1, <2>2, <2>3, <2>4, <2>6, <2>7 DEF Copies
  <2>9. QED BY <2>5, <2>8
<1>9. QED BY <1>5, <1>6, <1>7, <1>8 DEF IInv

-----------------------------------------------------------------------------
(* New modifications *)

(* The main thread goes to the next step with the same file. *)
LEMMA StepFacts ==
  ASSUME IInv, job.step \in {"copy", "rm", "register", "fetch", "push"},
         NEW s \in Steps \ {"idle", "try"}, NEW i \in Nat,
         job' = [job EXCEPT !.step = s] \/ job' = [job EXCEPT !.step = s, !.i = i]
  PROVE  /\ job' \in Job /\ job'.step = s /\ job'.lfn = job.lfn /\ job'.host = job.host
         /\ job.lfn \in File /\ job.host \in Node
         /\ (s \in {"copy", "rm", "register"} => announced(job.lfn, job.host)' # {}) => JobOK'
<1>1. job \in Job
  BY Now
<1>2. /\ job' \in Job /\ job'.step = s /\ job'.lfn = job.lfn /\ job'.host = job.host
  BY <1>1 DEF Job
<1>3. job.lfn \in File /\ job.host \in Node
  BY DEF IInv, JobOK
<1>4. ASSUME s \in {"copy", "rm", "register"} => announced(job.lfn, job.host)' # {}
      PROVE  JobOK'
  BY <1>2, <1>3, <1>4 DEF JobOK, announced
<1>5. QED BY <1>2, <1>3, <1>4

LEMMA CopyToLocalInv ==
  ASSUME IInv, copyToLocal
  PROVE  IInv'
<1>1. /\ job.step = "fetch"
      /\ UNCHANGED <<copies, version, lockedby, content, inbox, uploads, late, author, msgs,
                     newMods, pendMods, transfers, up, dead, phase, raced, mixed, events>>
      /\ job' = [job EXCEPT !.step = "push", !.i = 1] \/ job' = noJob
  BY DEF copyToLocal, catalogue, clients, mods, nodes, history
<1>2. /\ job' \in Job /\ JobOK'
      /\ \/ job'.step = "push" /\ job'.lfn = job.lfn /\ job'.host = job.host
         \/ job'.step = "idle" /\ job'.lfn = nobody
  <2>1. CASE job' = noJob
    BY <2>1, NoJobFacts DEF JobOK
  <2>2. CASE job' = [job EXCEPT !.step = "push", !.i = 1]
    BY <1>1, <2>2, StepFacts DEF Steps
  <2>3. QED BY <1>1, <2>1, <2>2
<1>3. TypeOK'
  <2>1. phase \in {"messages", "ping", "work"}
    BY DEF IInv, TypeOK
  <2>2. \A i \in DOMAIN pendMods : pendMods[i].host # nobody
    BY <1>1, Now
  <2>3. QED BY <1>1, <1>2, <2>1, <2>2, Now DEF TypeOK
<1>4. Origin' /\ \A g \in File : (g \notin raced => OneAuthor(g))'
  BY <1>1, AuthorsSame
<1>5. ASSUME NEW f \in File, f \notin mixed'
      PROVE  OneVersion(f)' /\ Copies(f)'
  <2>1. OneVersion(f) /\ Copies(f)
    BY <1>1, <1>5 DEF IInv
  <2>2. /\ job'.lfn = f => on(f, {"fetch", "push"}) /\ job.lfn = f /\ job'.host = job.host
                           /\ job'.step = "push"
        /\ ~on(f, {"register"}) /\ ~on(f, {"rm", "register"})
    BY <1>1, <1>2, NoJobFacts DEF on
  <2>3. OneVersion(f)'
    BY <1>1, <2>1, <2>2, VersionSame
  <2>4. /\ on(f, {"rm", "register", "fetch", "push"})' =>
             on(f, {"rm", "register", "fetch", "push"}) /\ job'.host = job.host
        /\ ~on(f, {"rm", "register"})' /\ ~on(f, {"copy"})'
        /\ ~on(f, {"copy", "rm", "register"})'
    BY <1>1, <2>2 DEF on
  <2>5. of(newMods, f)' = of(newMods, f) /\ of(pendMods, f)' = of(pendMods, f)
        /\ \A n : Covered(f, n)' <=> Covered(f, n)
    BY <1>1 DEF of, Covered
  <2>6. Copies(f)'
    BY <1>1, <2>1, <2>2, <2>4, <2>5 DEF Copies
  <2>7. QED BY <2>3, <2>6
<1>6. QED BY <1>2, <1>3, <1>4, <1>5 DEF IInv

(* The file in hand: nothing else is under way that could touch it. *)
LEMMA InHand ==
  ASSUME IInv, NEW f \in File, f \notin mixed, job.lfn = f,
         job.step \in {"copy", "rm", "register"}
  PROVE  /\ \A m \in of(newMods, f) : m.host = job.host
         /\ of(newMods, f) # {}
         /\ \A x \in uploads : x.lfn # f
         /\ asks(msgs, f) = {}
         /\ \A t \in transfers : t.lfn # f
<1>1. OneVersion(f) /\ Copies(f)
  BY DEF IInv
<1>2. PICK i \in DOMAIN newMods : newMods[i].lfn = f /\ newMods[i].host = job.host
  BY DEF IInv, JobOK, announced
<1>3. newMods[i] \in of(newMods, f)
  BY <1>2 DEF of
<1>4. \A m \in of(newMods, f) : m = newMods[i]
  BY <1>1, <1>2 DEF of, OneVersion, once
<1>5. QED BY <1>1, <1>2, <1>3, <1>4 DEF OneVersion, Copies

LEMMA CopyFromInboxInv ==
  ASSUME IInv, NEW f \in File, job.lfn = f, copyFromInbox
  PROVE  IInv'
<1>1. /\ job.step = "copy" /\ job' = [job EXCEPT !.step = "rm"]
      /\ content' = [content EXCEPT ![f][job.host] = inbox[f][job.host]]
      /\ UNCHANGED <<copies, version, lockedby, inbox, uploads, late, author, msgs, newMods,
                     pendMods, transfers, up, dead, phase, raced, mixed, events>>
  BY DEF copyFromInbox, catalogue, clients, mods, nodes, history
<1>2. /\ job' \in Job /\ JobOK' /\ job'.step = "rm" /\ job'.lfn = f /\ job'.host = job.host
      /\ job.host \in Node
  <2>1. announced(job.lfn, job.host)' # {}
    <3>1. announced(job.lfn, job.host) # {}
      BY <1>1 DEF IInv, JobOK
    <3>2. job'.lfn = job.lfn /\ job'.host = job.host
      BY <1>1, StepFacts DEF Steps
    <3>3. QED BY <1>1, <3>1, <3>2 DEF announced
  <2>2. QED BY <1>1, <2>1, StepFacts DEF Steps
<1>3. /\ content' \in [File -> [Node -> Version \cup {nothing}]]
      /\ content'[f][job.host] = inbox[f][job.host]
      /\ \A g \in File : g # f => content'[g] = content[g]
      /\ \A n \in Node : n # job.host => content'[f][n] = content[f][n]
  <2>1. inbox[f][job.host] \in Version \cup {nothing} /\ content \in [File -> [Node -> Version \cup {nothing}]]
    BY <1>2, Now
  <2>2. QED BY <1>1, <1>2, <2>1
<1>4. TypeOK'
  <2>1. phase \in {"messages", "ping", "work"}
    BY DEF IInv, TypeOK
  <2>2. \A i \in DOMAIN pendMods : pendMods[i].host # nobody
    BY <1>1, Now
  <2>3. QED BY <1>1, <1>2, <1>3, <2>1, <2>2, Now DEF TypeOK
<1>5. Origin' /\ \A g \in File : (g \notin raced => OneAuthor(g))'
  BY <1>1, AuthorsSame
<1>6. ASSUME NEW g \in File, g \notin mixed', g # f
      PROVE  OneVersion(g)' /\ Copies(g)'
  <2>1. job'.lfn # g /\ job.lfn # g /\ content'[g] = content[g]
    BY <1>2, <1>3, <1>6
  <2>2. QED BY <1>1, <1>6, <2>1, StillSame
<1>7. ASSUME f \notin mixed'
      PROVE  OneVersion(f)' /\ Copies(f)'
  <2>1. OneVersion(f) /\ Copies(f) /\ f \notin mixed
    BY <1>1, <1>7 DEF IInv
  <2>2. ~on(f, {"register"}) /\ on(f, {"copy"}) /\ on(f, {"copy", "rm", "register"})
    BY <1>1 DEF on
  <2>3. OneVersion(f)'
    BY <1>1, <1>2, <2>1, <2>2, VersionSame
  <2>4. /\ of(newMods, f)' = of(newMods, f) /\ of(pendMods, f)' = of(pendMods, f)
        /\ \A n : Covered(f, n)' <=> Covered(f, n)
        /\ ~on(f, {"copy"})'
    BY <1>1, <1>2 DEF of, Covered, on
  <2>5. content'[f][job.host] = version[f]
    BY <1>3, <2>1, <2>2 DEF Copies
  <2>6. \A e \in of(pendMods, f) : e.source = job.host
    BY <2>1 DEF Copies
  <2>7. \A n \in copies[f] : n = job.host \/ Covered(f, n)
    BY <2>1, <2>2 DEF Copies
  <2>8. \A t \in transfers : t.lfn # f
    BY <1>1, <2>1, InHand
  <2>9. Copies(f)'
    BY <1>1, <1>2, <2>1, <2>4, <2>5, <2>6, <2>7, <2>8 DEF Copies
  <2>10. QED BY <2>3, <2>9
<1>8. QED BY <1>2, <1>4, <1>5, <1>6, <1>7 DEF IInv

LEMMA CopyFromInboxFailsInv ==
  ASSUME IInv, NEW f \in File, job.lfn = f, copyFromInboxFails
  PROVE  IInv'
<1>1. /\ job.step = "copy" /\ job' = noJob /\ putFails(f, job.host)
      /\ event \/ UNCHANGED events
      /\ UNCHANGED <<copies, version, lockedby, inbox, uploads, late, author, msgs, newMods,
                     pendMods, transfers, up, dead, phase, raced, mixed>>
  BY DEF copyFromInboxFails, catalogue, clients, mods, nodes, history
<1>2. /\ job' \in Job /\ JobOK' /\ job'.step = "idle" /\ job'.lfn = nobody /\ job.host \in Node
  BY <1>1, NoJobFacts DEF IInv, JobOK
<1>3. /\ content' \in [File -> [Node -> Version \cup {nothing}]]
      /\ \A g \in File : g # f => content'[g] = content[g]
  <2>1. nothing \in Version \cup {nothing}
    OBVIOUS
  <2>2. PICK c \in Version \cup {nothing} :
          UNCHANGED content \/ content' = [content EXCEPT ![f][job.host] = c]
    BY <1>1, <2>1 DEF putFails
  <2>3. job.host \in Node
    BY <1>2
  <2>4. QED BY <2>2, <2>3, PutType
<1>4. TypeOK'
  <2>1. phase \in {"messages", "ping", "work"} /\ events' \in 0..MaxEvents
    BY <1>1, Events DEF IInv, TypeOK
  <2>2. \A i \in DOMAIN pendMods : pendMods[i].host # nobody
    BY <1>1, Now
  <2>3. QED BY <1>1, <1>2, <1>3, <2>1, <2>2, Now DEF TypeOK
<1>5. Origin' /\ \A g \in File : (g \notin raced => OneAuthor(g))'
  BY <1>1, AuthorsSame
<1>6. ASSUME NEW g \in File, g \notin mixed', g # f
      PROVE  OneVersion(g)' /\ Copies(g)'
  <2>1. job'.lfn # g /\ job.lfn # g /\ content'[g] = content[g]
    BY <1>2, <1>3, <1>6, NoJobFacts
  <2>2. QED BY <1>1, <1>6, <2>1, StillSame
<1>7. ASSUME f \notin mixed'
      PROVE  OneVersion(f)' /\ Copies(f)'
  <2>1. OneVersion(f) /\ Copies(f) /\ f \notin mixed
    BY <1>1, <1>7 DEF IInv
  <2>2. ~on(f, {"register"}) /\ job'.lfn # f /\ \A s : ~on(f, s)'
    BY <1>1, <1>2, NoJobFacts DEF on
  <2>3. OneVersion(f)'
    BY <1>1, <2>1, <2>2, VersionSame
  <2>4. of(newMods, f)' = of(newMods, f) /\ of(pendMods, f)' = of(pendMods, f)
    BY <1>1 DEF of
  <2>5. of(newMods, f) # {} /\ \A t \in transfers : t.lfn # f
    BY <1>1, <2>1, InHand
  <2>6. Copies(f)'
    BY <1>1, <2>1, <2>2, <2>4, <2>5 DEF Copies
  <2>7. QED BY <2>3, <2>6
<1>8. QED BY <1>2, <1>4, <1>5, <1>6, <1>7 DEF IInv

LEMMA RmInv ==
  ASSUME IInv, NEW f \in File, job.lfn = f, rm
  PROVE  IInv'
<1>1. /\ job.step = "rm" /\ job' = [job EXCEPT !.step = "register"]
      /\ \/ inbox' = [inbox EXCEPT ![f][job.host] = nothing]
         \/ UNCHANGED inbox
      /\ UNCHANGED <<copies, version, lockedby, content, uploads, late, author, msgs, newMods,
                     pendMods, transfers, up, dead, phase, raced, mixed, events>>
  BY DEF rm, catalogue, mods, nodes, history
<1>2. /\ job' \in Job /\ JobOK' /\ job'.step = "register" /\ job'.lfn = f
      /\ job'.host = job.host /\ job.host \in Node
  <2>1. announced(job.lfn, job.host)' # {}
    <3>1. announced(job.lfn, job.host) # {}
      BY <1>1 DEF IInv, JobOK
    <3>2. job'.lfn = job.lfn /\ job'.host = job.host
      BY <1>1, StepFacts DEF Steps
    <3>3. QED BY <1>1, <3>1, <3>2 DEF announced
  <2>2. QED BY <1>1, <2>1, StepFacts DEF Steps
<1>3. /\ inbox' \in [File -> [Node -> Version \cup {nothing}]]
      /\ \A g \in File : g # f => inbox'[g] = inbox[g]
  <2>1. inbox \in [File -> [Node -> Version \cup {nothing}]]
    BY Now
  <2>2. QED BY <1>1, <1>2, <2>1
<1>4. TypeOK'
  <2>1. phase \in {"messages", "ping", "work"}
    BY DEF IInv, TypeOK
  <2>2. \A i \in DOMAIN pendMods : pendMods[i].host # nobody
    BY <1>1, Now
  <2>3. QED BY <1>1, <1>2, <1>3, <2>1, <2>2, Now DEF TypeOK
<1>5. Origin' /\ \A g \in File : (g \notin raced => OneAuthor(g))'
  BY <1>1, AuthorsSame
<1>6. ASSUME NEW g \in File, g \notin mixed', g # f
      PROVE  OneVersion(g)' /\ Copies(g)'
  <2>1. job'.lfn # g /\ job.lfn # g /\ inbox'[g] = inbox[g]
    BY <1>2, <1>3, <1>6
  <2>2. QED BY <1>1, <1>6, <2>1, StillSame
<1>7. ASSUME f \notin mixed'
      PROVE  OneVersion(f)' /\ Copies(f)'
  <2>1. OneVersion(f) /\ Copies(f) /\ f \notin mixed
    BY <1>1, <1>7 DEF IInv
  <2>2. /\ \A m \in of(newMods, f) : m.host = job.host
        /\ of(newMods, f) # {} /\ \A x \in uploads : x.lfn # f
        /\ asks(msgs, f) = {} /\ \A t \in transfers : t.lfn # f
    BY <1>1, <2>1, InHand
  <2>3. /\ on(f, {"register"})' /\ ~on(f, {"fetch", "push"})' /\ ~on(f, {"copy"})'
        /\ on(f, {"rm", "register"}) /\ on(f, {"rm", "register", "fetch", "push"})
        /\ on(f, {"copy", "rm", "register"})
    BY <1>1, <1>2 DEF on
  <2>4. /\ of(newMods, f)' = of(newMods, f) /\ of(pendMods, f)' = of(pendMods, f)
        /\ asks(msgs, f)' = asks(msgs, f)
        /\ \A n : Covered(f, n)' <=> Covered(f, n)
    BY <1>1 DEF of, Covered, asks
  <2>5. OneVersion(f)'
    BY <1>1, <1>2, <2>1, <2>2, <2>3, <2>4 DEF OneVersion, once
  <2>6. Copies(f)'
    BY <1>1, <1>2, <2>1, <2>2, <2>3, <2>4 DEF Copies
  <2>7. QED BY <2>5, <2>6
<1>8. QED BY <1>2, <1>4, <1>5, <1>6, <1>7 DEF IInv

(* The first entry of a file and a node is removed. *)
LEMMA RemoveNew ==
  ASSUME IInv, NEW f \in File, NEW n \in Node, announced(f, n) # {}, removeNewModification(f, n)
  PROVE  /\ newMods' \in Seq(NewMod)
         /\ \A g : /\ of(newMods', g) \subseteq of(newMods, g)
                   /\ g # f => of(newMods', g) = of(newMods, g)
                   /\ once(newMods, g) => once(newMods', g)
                   /\ g = f /\ once(newMods, g) => of(newMods', g) = {}
         /\ \A i \in DOMAIN newMods' : \E k \in DOMAIN newMods : newMods'[i] = newMods[k]
<1> DEFINE p == Min(announced(f, n))
           r == RemoveAt(newMods, p)
<1>1. newMods \in Seq(NewMod) /\ p \in DOMAIN newMods /\ newMods[p].lfn = f
  <2>1. newMods \in Seq(NewMod) /\ Len(newMods) \in Nat /\ DOMAIN newMods = 1..Len(newMods)
    BY Now
  <2>2. announced(f, n) \in SUBSET (1..Len(newMods))
    BY <2>1 DEF announced
  <2>3. p \in announced(f, n)
    BY <2>1, <2>2, MinMax
  <2>4. QED BY <2>1, <2>3 DEF announced
<1>2. r = newMods'
  BY DEF removeNewModification
<1> HIDE DEF p
<1>3. r \in Seq(NewMod) /\ \A i \in DOMAIN r : \E k \in DOMAIN newMods : r[i] = newMods[k]
  BY <1>1, RemoveAtFacts, RemoveAtKeeps
<1> HIDE DEF r
<1>4. ASSUME NEW g
      PROVE  /\ of(r, g) \subseteq of(newMods, g)
             /\ newMods[p].lfn # g => of(r, g) = of(newMods, g)
             /\ once(newMods, g) => once(r, g)
             /\ once(newMods, g) /\ newMods[p].lfn = g => of(r, g) = {}
  BY <1>1, RemoveOf DEF r
<1>5. \A g : /\ of(r, g) \subseteq of(newMods, g)
             /\ g # f => of(r, g) = of(newMods, g)
             /\ once(newMods, g) => once(r, g)
             /\ g = f /\ once(newMods, g) => of(r, g) = {}
  BY <1>1, <1>4
<1>6. QED BY ONLY <1>2, <1>3, <1>5

LEMMA RegisterInv ==
  ASSUME IInv, NEW f \in File, job.lfn = f, registerFileWithRc
  PROVE  IInv'
<1>1. /\ job.step = "register" /\ job' = [job EXCEPT !.step = "fetch"]
      /\ copies' = [copies EXCEPT ![f] = @ \cup {job.host}]
      /\ removeNewModification(f, job.host)
      /\ UNCHANGED <<version, lockedby, content, inbox, uploads, late, author, msgs, pendMods,
                     transfers, up, dead, phase, raced, mixed, events>>
  BY DEF registerFileWithRc, clients, nodes, history
<1>2. /\ job' \in Job /\ JobOK' /\ job'.step = "fetch" /\ job'.lfn = f
      /\ job'.host = job.host /\ job.host \in Node
  <2>1. "fetch" \in Steps \ {"idle", "try"} /\ 1 \in Nat
    BY DEF Steps
  <2>2. job.step = "register" /\ job' = [job EXCEPT !.step = "fetch"]
    BY <1>1
  <2>3. QED BY <2>1, <2>2, StepFacts
<1>3. announced(f, job.host) # {}
  BY <1>1 DEF IInv, JobOK
<1>4. /\ newMods' \in Seq(NewMod)
      /\ \A g : /\ of(newMods', g) \subseteq of(newMods, g)
                /\ g # f => of(newMods', g) = of(newMods, g)
                /\ once(newMods, g) => once(newMods', g)
                /\ g = f /\ once(newMods, g) => of(newMods', g) = {}
      /\ \A i \in DOMAIN newMods' : \E k \in DOMAIN newMods : newMods'[i] = newMods[k]
  BY <1>1, <1>2, <1>3, RemoveNew
<1>5. /\ copies' \in [File -> SUBSET Node] /\ copies'[f] = copies[f] \cup {job.host}
      /\ \A g \in File : g # f => copies'[g] = copies[g]
  <2>1. copies \in [File -> SUBSET Node] /\ copies[f] \cup {job.host} \in SUBSET Node
    BY <1>2, Now
  <2>2. QED BY <1>1, <2>1
<1>6. TypeOK'
  <2>1. phase \in {"messages", "ping", "work"}
    BY DEF IInv, TypeOK
  <2>2. \A i \in DOMAIN pendMods : pendMods[i].host # nobody
    BY <1>1, Now
  <2>3. QED BY <1>1, <1>2, <1>4, <1>5, <2>1, <2>2, Now DEF TypeOK
<1>7. Origin'
  <2>1. \A i \in DOMAIN newMods' : newMods'[i].ver \in DOMAIN author
    BY <1>4 DEF IInv, Origin
  <2>2. QED BY <1>1, <2>1 DEF IInv, Origin
<1>8. ASSUME NEW g \in File, g \notin raced'
      PROVE  OneAuthor(g)'
  BY <1>1, <1>4, <1>8, AuthorSame
<1>9. ASSUME NEW g \in File, g \notin mixed', g # f
      PROVE  OneVersion(g)' /\ Copies(g)'
  <2>1. once(newMods, g) /\ \A i, j \in asks(msgs, g) : i = j
    BY <1>1, <1>9 DEF IInv, OneVersion
  <2>2. of(newMods', g) = of(newMods, g) /\ once(newMods', g)
    BY <1>4, <1>9, <2>1
  <2>3. job'.lfn # g /\ job.lfn # g /\ copies'[g] = copies[g]
    BY <1>2, <1>5, <1>9
  <2>4. Same(g)
    BY <1>1, <2>1, <2>2, <2>3 DEF Same
  <2>5. QED BY <1>9, <2>4, SameFile
<1>10. ASSUME f \notin mixed'
       PROVE  OneVersion(f)' /\ Copies(f)'
  <2>1. OneVersion(f) /\ Copies(f) /\ f \notin mixed
    BY <1>1, <1>10 DEF IInv
  <2>2. /\ \A x \in uploads : x.lfn # f
        /\ asks(msgs, f) = {} /\ \A t \in transfers : t.lfn # f
    BY <1>1, <2>1, InHand
  <2>3. of(newMods', f) = {} /\ once(newMods', f)
    BY <1>4, <2>1 DEF OneVersion
  <2>4. /\ on(f, {"fetch", "push"})' /\ ~on(f, {"copy"})' /\ ~on(f, {"rm", "register"})'
        /\ ~on(f, {"copy", "rm", "register"})'
        /\ on(f, {"rm", "register"}) /\ on(f, {"rm", "register", "fetch", "push"})
    BY <1>1, <1>2 DEF on
  <2>5. /\ of(pendMods, f)' = of(pendMods, f) /\ asks(msgs, f)' = asks(msgs, f)
        /\ \A n : Covered(f, n)' <=> Covered(f, n)
        /\ of(newMods, f)' = {} /\ once(newMods, f)'
    BY <1>1, <2>3 DEF of, Covered, asks, once
  <2>6. OneVersion(f)'
    BY <1>1, <2>2, <2>5 DEF OneVersion
  <2>7. /\ content[f][job.host] = version[f]
        /\ \A n \in copies[f] : content[f][n] = version[f] \/ Covered(f, n)
        /\ \A e \in of(pendMods, f) : content[f][e.source] \in {version[f], nothing}
    BY <2>1, <2>4 DEF Copies
  <2>8. \A n \in copies'[f] : content'[f][n] = version'[f] \/ Covered(f, n)'
    BY <1>1, <1>5, <2>5, <2>7
  <2>9. Copies(f)'
    BY <1>1, <1>2, <2>1, <2>2, <2>4, <2>5, <2>7, <2>8 DEF Copies
  <2>10. QED BY <2>6, <2>9
<1>11. QED BY <1>2, <1>6, <1>7, <1>8, <1>9, <1>10 DEF IInv

(* An order of a set of nodes names every one of them. *)
LEMMA SetToSeqsFacts ==
  ASSUME NEW S \in SUBSET Node, NEW q \in SetToSeqs(S)
  PROVE  /\ Cardinality(S) \in Nat /\ q \in [1..Cardinality(S) -> S]
         /\ \A x \in S : \E i \in 1..Cardinality(S) : q[i] = x
<1> DEFINE c == Cardinality(S)
<1>1. IsFiniteSet(S) /\ c \in Nat
  BY NodeAssumption, FS_Subset, FS_CardinalityType
<1>2. q \in [1..c -> S] /\ \A i, j \in 1..c : i # j => q[i] # q[j]
  BY DEF SetToSeqs
<1> HIDE DEF c
<1>3. q \in Injection(1..c, S)
  BY <1>2 DEF Injection, IsInjective
<1>4. Cardinality(1..c) = c
  <2>1. 1 \in Int /\ c \in Int
    BY <1>1
  <2>2. QED BY <1>1, <2>1, FS_Interval
<1>5. q \in Surjection(1..c, S)
  BY <1>1, <1>3, <1>4, FS_Injection DEF c
<1>6. \A x \in S : \E i \in 1..c : q[i] = x
  BY <1>5 DEF Surjection
<1>7. QED BY <1>1, <1>2, <1>6 DEF c

(* Every other copy of f gets an entry. *)
LEMMA AddPending ==
  ASSUME IInv, NEW f \in File, NEW n \in Node, addPendingModifications(f, n),
         \A i \in DOMAIN pendMods : pendMods[i].host # nobody
  PROVE  /\ pendMods' \in Seq(PendMod)
         /\ \A i \in DOMAIN pendMods' : pendMods'[i].host # nobody
         /\ \A g : g # f => of(pendMods', g) = of(pendMods, g)
         /\ \A e \in of(pendMods', f) :
               e \in of(pendMods, f) \/ (e.source = n /\ e.host \in copies[f] \ {n})
         /\ \A x \in copies[f] \ {n} : \E e \in of(pendMods', f) : e.host = x
<1> DEFINE S == copies[f] \ {n}
<1>1. S \in SUBSET Node /\ pendMods \in Seq(PendMod)
  BY Now
<1>2. PICK q \in SetToSeqs(S) :
        pendMods' = pendMods \o [i \in DOMAIN q |-> [lfn |-> f, host |-> q[i], source |-> n]]
  BY DEF addPendingModifications
<1> DEFINE r == [i \in DOMAIN q |-> [lfn |-> f, host |-> q[i], source |-> n]]
           c == Cardinality(S)
<1> HIDE DEF S
<1>3. c \in Nat /\ q \in [1..c -> S] /\ \A x \in S : \E i \in 1..c : q[i] = x
  BY <1>1, SetToSeqsFacts
<1> HIDE DEF c
<1>4. /\ DOMAIN r = 1..c
      /\ \A i \in 1..c : r[i] \in PendMod /\ r[i].lfn = f /\ r[i].host = q[i] /\ r[i].source = n
  BY <1>1, <1>3 DEF PendMod
<1> HIDE DEF r
<1>5. r \in Seq(PendMod)
  <2>1. r = [i \in 1..c |-> r[i]]
    BY <1>3, <1>4 DEF r
  <2>2. r \in [1..c -> PendMod]
    BY <1>4, <2>1
  <2>3. QED BY <1>3, <2>2
<1>6. /\ \A g : g # f => of(r, g) = {}
      /\ \A e \in of(r, f) : e.source = n /\ e.host \in S
      /\ \A x \in S : \E e \in of(r, f) : e.host = x
  <2>1. \A i \in 1..c : r[i].host \in S /\ r[i] \in of(r, f)
    BY <1>3, <1>4 DEF of
  <2>2. \A g : \A e \in of(r, g) : \E i \in 1..c : e = r[i] /\ g = f
    BY <1>4 DEF of
  <2>3. \A x \in S : \E i \in 1..c : r[i].host = x
    BY <1>3, <1>4
  <2>4. QED BY <1>4, <2>1, <2>2, <2>3
<1>7. /\ pendMods' \in Seq(PendMod)
      /\ \A g : of(pendMods', g) = of(pendMods, g) \cup of(r, g)
  <2> DEFINE p == pendMods \o r
  <2>1. p \in Seq(PendMod) /\ \A g : of(p, g) = of(pendMods, g) \cup of(r, g)
    BY <1>1, <1>5, ConcatOf
  <2>2. p = pendMods'
    BY <1>2 DEF r
  <2> HIDE DEF p
  <2>3. QED BY ONLY <2>1, <2>2
<1>8. ASSUME NEW i \in DOMAIN pendMods'
      PROVE  pendMods'[i].host # nobody
  <2>1. pendMods'[i] \in of(pendMods', pendMods'[i].lfn)
    BY DEF of
  <2>2. CASE pendMods'[i] \in of(pendMods, pendMods'[i].lfn)
    BY <2>2 DEF of
  <2>3. CASE pendMods'[i] \in of(r, pendMods'[i].lfn)
    <3>1. pendMods'[i].host \in S
      BY <1>6, <2>3
    <3>2. QED BY <1>1, <3>1, NoJobFacts
  <2>4. QED BY <1>7, <2>1, <2>2, <2>3
<1>9. QED BY <1>6, <1>7, <1>8 DEF S

(* The announcement that is checked, and what becomes of it. *)
LEMMA Checked ==
  ASSUME IInv, NEW f \in File, NEW n \in Node, announced(f, n) # {}
  PROVE  LET v == newMods[Max(announced(f, n))].ver IN
         /\ v \in Version
         /\ f \notin mixed /\ job.step = "idle" =>
              /\ v = inbox[f][n]
              /\ of(newMods, f) # {} /\ \A m \in of(newMods, f) : m.host = n
              /\ \A x \in uploads : x.lfn # f
              /\ asks(msgs, f) = {}
<1> DEFINE k == Max(announced(f, n))
<1>1. newMods \in Seq(NewMod) /\ k \in DOMAIN newMods /\ newMods[k].lfn = f /\ newMods[k].host = n
  <2>1. newMods \in Seq(NewMod) /\ Len(newMods) \in Nat /\ DOMAIN newMods = 1..Len(newMods)
    BY Now
  <2>2. announced(f, n) \in SUBSET (1..Len(newMods))
    BY <2>1 DEF announced
  <2>3. k \in announced(f, n)
    BY <2>1, <2>2, MinMax
  <2>4. QED BY <2>1, <2>3 DEF announced
<1> HIDE DEF k
<1>2. newMods[k] \in of(newMods, f) /\ newMods[k].ver \in Version
  <2>1. newMods[k] \in NewMod
    BY <1>1
  <2>2. QED BY <1>1, <2>1, NewFacts DEF of
<1>3. ASSUME f \notin mixed, job.step = "idle"
      PROVE  /\ newMods[k].ver = inbox[f][n]
             /\ \A m \in of(newMods, f) : m.host = n
             /\ \A x \in uploads : x.lfn # f
             /\ asks(msgs, f) = {}
  <2>1. OneVersion(f)
    BY <1>3 DEF IInv
  <2>2. modificationsPending(f)
    BY <1>2, PendingOf
  <2>3. \A m \in of(newMods, f) : m = newMods[k]
    BY <1>1, <2>1 DEF OneVersion, once, of
  <2>4. newMods[k].ver = inbox[f][n]
    BY <1>1, <1>2, <1>3, <2>1 DEF OneVersion, on
  <2>5. QED BY <1>1, <2>1, <2>2, <2>3, <2>4 DEF OneVersion
<1>4. QED BY <1>2, <1>3 DEF k

LEMMA HandleNewInv ==
  ASSUME IInv, NEW f \in File, NEW n \in Node, handleNewModification(f, n)
  PROVE  IInv'
<1> DEFINE v == newMods[Max(announced(f, n))].ver
<1>1. /\ job.step = "idle" /\ announced(f, n) # {}
      /\ UNCHANGED <<copies, lockedby, content, inbox, uploads, late, author, msgs, transfers, up,
                     dead, phase, raced, events>>
      /\ \/ /\ v = inbox[f][n]
            /\ version' = [version EXCEPT ![f] = v]
            /\ addPendingModifications(f, n)
            /\ job' = [noJob EXCEPT !.step = "copy", !.lfn = f, !.host = n]
            /\ mixed' = IF \E t \in transfers : t.lfn = f THEN mixed \cup {f} ELSE mixed
            /\ UNCHANGED newMods
         \/ /\ v # inbox[f][n]
            /\ removeNewModification(f, n) /\ UNCHANGED <<version, pendMods, job, mixed>>
  BY DEF handleNewModification, idle, clients, nodes
<1>2. /\ v \in Version
      /\ f \notin mixed =>
           /\ v = inbox[f][n]
           /\ of(newMods, f) # {} /\ \A m \in of(newMods, f) : m.host = n
           /\ \A x \in uploads : x.lfn # f
           /\ asks(msgs, f) = {}
  BY <1>1, Checked
<1> HIDE DEF v
<1>3. /\ \A i \in DOMAIN pendMods : pendMods[i].host # nobody
      /\ job.lfn = nobody /\ phase \in {"messages", "ping", "work"}
  BY <1>1, Now DEF IInv, JobOK, TypeOK
<1>4. CASE v = inbox[f][n]
  <2>1. /\ version' = [version EXCEPT ![f] = v]
        /\ addPendingModifications(f, n)
        /\ job' = [noJob EXCEPT !.step = "copy", !.lfn = f, !.host = n]
        /\ mixed' = IF \E t \in transfers : t.lfn = f THEN mixed \cup {f} ELSE mixed
        /\ UNCHANGED newMods
    BY <1>1, <1>4
  <2>2. /\ pendMods' \in Seq(PendMod)
        /\ \A i \in DOMAIN pendMods' : pendMods'[i].host # nobody
        /\ \A g : g # f => of(pendMods', g) = of(pendMods, g)
        /\ \A e \in of(pendMods', f) :
              e \in of(pendMods, f) \/ (e.source = n /\ e.host \in copies[f] \ {n})
        /\ \A x \in copies[f] \ {n} : \E e \in of(pendMods', f) : e.host = x
    BY <1>3, <2>1, AddPending
  <2>3. job' \in Job /\ job'.step = "copy" /\ job'.lfn = f /\ job'.host = n
    BY <2>1 DEF noJob, Job, Steps
  <2>4. /\ version' \in [File -> Version] /\ version'[f] = v
        /\ \A g \in File : g # f => version'[g] = version[g]
    <3>1. version \in [File -> Version]
      BY Now
    <3>2. QED BY <1>2, <2>1, <3>1
  <2>5. TypeOK'
    <3>1. mixed' \in SUBSET File
      BY <2>1, Now
    <3>2. QED BY <1>1, <1>3, <2>1, <2>2, <2>3, <2>4, <3>1, Now DEF TypeOK
  <2>6. JobOK'
    BY <1>1, <2>1, <2>3 DEF JobOK, announced
  <2>7. Origin' /\ \A g \in File : (g \notin raced => OneAuthor(g))'
    BY <1>1, <2>1, AuthorsSame
  <2>8. ASSUME NEW g \in File, g \notin mixed', g # f
        PROVE  OneVersion(g)' /\ Copies(g)'
    <3>1. job'.lfn # g /\ job.lfn # g /\ version'[g] = version[g] /\ (g \in mixed => g \in mixed')
      BY <1>3, <2>1, <2>3, <2>4, <2>8, NoJobFacts
    <3>2. of(pendMods', g) = of(pendMods, g)
      BY <2>2, <2>8
    <3>3. QED BY <1>1, <2>1, <2>8, <3>1, <3>2, StillSame
  <2>9. ASSUME f \notin mixed'
        PROVE  OneVersion(f)' /\ Copies(f)'
    <3>1. f \notin mixed /\ \A t \in transfers : t.lfn # f
      BY <2>1, <2>9
    <3>2. OneVersion(f) /\ Copies(f)
      BY <3>1 DEF IInv
    <3>3. /\ on(f, {"copy"})' /\ on(f, {"copy", "rm", "register"})'
          /\ ~on(f, {"rm", "register"})' /\ ~on(f, {"rm", "register", "fetch", "push"})'
          /\ ~on(f, {"fetch", "push"})' /\ ~on(f, {"register"})
      BY <1>1, <2>3 DEF on
    <3>4. /\ of(newMods, f)' = of(newMods, f) /\ once(newMods, f)' = once(newMods, f)
          /\ asks(msgs, f)' = asks(msgs, f)
      BY <1>1, <2>1 DEF of, once, asks
    <3>5. OneVersion(f)'
      BY <1>1, <1>2, <3>1, <3>2, <3>3, <3>4 DEF OneVersion
    <3>6. \A e \in of(pendMods', f) : e.source = n /\ e.host # e.source
      BY <1>2, <2>2, <3>1, <3>2 DEF Copies
    <3>7. \A x \in copies[f] \ {n} : Covered(f, x)'
      BY <2>2 DEF Covered
    <3>8. Copies(f)'
      BY <1>1, <1>2, <1>4, <2>3, <2>4, <3>1, <3>3, <3>4, <3>6, <3>7 DEF Copies
    <3>9. QED BY <3>5, <3>8
  <2>10. QED BY <2>3, <2>5, <2>6, <2>7, <2>8, <2>9 DEF IInv
<1>5. CASE v # inbox[f][n]
  <2>1. removeNewModification(f, n) /\ UNCHANGED <<version, pendMods, job, mixed>>
    BY <1>1, <1>5
  <2>2. /\ newMods' \in Seq(NewMod)
        /\ \A g : /\ of(newMods', g) \subseteq of(newMods, g)
                  /\ g # f => of(newMods', g) = of(newMods, g)
                  /\ once(newMods, g) => once(newMods', g)
        /\ \A i \in DOMAIN newMods' : \E k \in DOMAIN newMods : newMods'[i] = newMods[k]
    BY <1>1, <2>1, RemoveNew
  <2>3. TypeOK'
    BY <1>1, <1>3, <2>1, <2>2, Now DEF TypeOK
  <2>4. JobOK'
    BY <1>1, <2>1 DEF IInv, JobOK
  <2>5. Origin'
    <3>1. \A i \in DOMAIN newMods' : newMods'[i].ver \in DOMAIN author
      BY <2>2 DEF IInv, Origin
    <3>2. QED BY <1>1, <3>1 DEF IInv, Origin
  <2>6. ASSUME NEW g \in File, g \notin raced'
        PROVE  OneAuthor(g)'
    BY <1>1, <2>2, <2>6, AuthorSame
  <2>7. ASSUME NEW g \in File, g \notin mixed'
        PROVE  OneVersion(g)' /\ Copies(g)'
    <3>1. g # f /\ g \notin mixed
      BY <1>2, <1>5, <2>1, <2>7
    <3>2. once(newMods, g) /\ \A i, j \in asks(msgs, g) : i = j
      BY <3>1 DEF IInv, OneVersion
    <3>3. of(newMods', g) = of(newMods, g) /\ once(newMods', g)
      BY <2>2, <3>1, <3>2
    <3>4. job'.lfn # g /\ job.lfn # g
      BY <1>3, <2>1, NoJobFacts
    <3>5. Same(g)
      BY <1>1, <2>1, <3>2, <3>3, <3>4 DEF Same
    <3>6. QED BY <2>7, <3>5, SameFile
  <2>8. QED BY <2>3, <2>4, <2>5, <2>6, <2>7 DEF IInv
<1>6. QED BY <1>4, <1>5

-----------------------------------------------------------------------------
(* Replication, free space and restarts *)

LEMMA GetDoneInv ==
  ASSUME IInv, NEW f \in File, NEW from \in Node, NEW to \in Node, getDone(f, from, to)
  PROVE  IInv'
<1> DEFINE t == [lfn |-> f, to |-> to, ver |-> content[f][from]]
<1>1. /\ job.step = "idle" /\ event /\ from \in copies[f] /\ content[f][from] # nothing
      /\ transfers' = {t}
      /\ mixed' = IF inProgress(f) THEN mixed \cup {f} ELSE mixed
      /\ UNCHANGED <<copies, version, lockedby, content, inbox, uploads, late, author, msgs,
                     newMods, pendMods, up, dead, phase, job, raced>>
  BY DEF getDone, idle, catalogue, clients, mods, nodes, main
<1>2. t \in Transfer /\ t.lfn = f /\ t.ver = content[f][from]
  <2>1. content[f][from] \in Version
    BY <1>1, Now
  <2>2. QED BY <2>1 DEF Transfer
<1> HIDE DEF t
<1>3. TypeOK'
  <2>1. phase \in {"messages", "ping", "work"} /\ events' \in 0..MaxEvents
    BY <1>1, Events DEF IInv, TypeOK
  <2>2. mixed' \in SUBSET File /\ transfers' \in SUBSET Transfer
    BY <1>1, <1>2, Now
  <2>3. QED BY <1>1, <2>1, <2>2, Now DEF TypeOK
<1>4. JobOK'
  BY <1>1 DEF IInv, JobOK, announced
<1>5. Origin' /\ \A g \in File : (g \notin raced => OneAuthor(g))'
  BY <1>1, AuthorsSame
<1>6. ASSUME NEW g \in File, g \notin mixed', g # f
      PROVE  OneVersion(g)' /\ Copies(g)'
  <2>1. \A x \in transfers' : x.lfn # g
    BY <1>1, <1>2, <1>6
  <2>2. of(pendMods', g) = of(pendMods, g) /\ (g \in mixed => g \in mixed')
    BY <1>1
  <2>3. QED BY <1>1, <1>6, <2>1, <2>2, StillSame
<1>7. ASSUME f \notin mixed'
      PROVE  OneVersion(f)' /\ Copies(f)'
  <2>1. f \notin mixed /\ ~inProgress(f)
    BY <1>1, <1>7
  <2>2. OneVersion(f) /\ Copies(f)
    BY <2>1 DEF IInv
  <2>3. job.lfn # f /\ of(newMods, f) = {} /\ of(pendMods, f) = {}
    BY <2>1, PendingOf DEF inProgress
  <2>4. t.ver = version[f]
    BY <1>1, <1>2, <2>2, <2>3 DEF Copies, Covered
  <2>5. OneVersion(f)'
    BY <1>1, <2>2, <2>3, VersionSame DEF on
  <2>6. /\ of(newMods, f)' = {} /\ of(pendMods, f)' = {} /\ \A s : ~on(f, s)'
        /\ \A n : ~Covered(f, n)
    BY <1>1, <2>3 DEF of, on, Covered
  <2>7. \A n \in copies[f] : content[f][n] = version[f]
    BY <2>2, <2>3, <2>6 DEF Copies
  <2>8. Copies(f)'
    BY <1>1, <1>2, <2>3, <2>4, <2>6, <2>7 DEF Copies
  <2>9. QED BY <2>5, <2>8
<1>8. QED BY <1>1, <1>3, <1>4, <1>5, <1>6, <1>7 DEF IInv

LEMMA PutDoneInv ==
  ASSUME IInv, NEW t \in transfers, NEW f \in File, f = t.lfn, putDone(t)
  PROVE  IInv'
<1>1. /\ job.step = "idle" /\ transfers' = transfers \ {t}
      /\ content' = [content EXCEPT ![f][t.to] = t.ver]
      /\ copies' = [copies EXCEPT ![f] = @ \cup {t.to}]
      /\ UNCHANGED <<version, lockedby, inbox, uploads, late, author, msgs, newMods, pendMods, up,
                     dead, phase, job, raced, mixed, events>>
  BY DEF putDone, idle, clients, mods, nodes, main, history
<1>2. t \in Transfer /\ t.to \in Node /\ t.ver \in Version
  <2>1. t \in Transfer
    BY Now
  <2>2. QED BY <2>1 DEF Transfer
<1>3. /\ content' \in [File -> [Node -> Version \cup {nothing}]]
      /\ content'[f][t.to] = t.ver
      /\ \A g \in File : g # f => content'[g] = content[g]
      /\ \A n \in Node : n # t.to => content'[f][n] = content[f][n]
  <2>1. content \in [File -> [Node -> Version \cup {nothing}]]
    BY Now
  <2>2. QED BY <1>1, <1>2, <2>1
<1>4. /\ copies' \in [File -> SUBSET Node] /\ copies'[f] = copies[f] \cup {t.to}
      /\ \A g \in File : g # f => copies'[g] = copies[g]
  <2>1. copies \in [File -> SUBSET Node] /\ copies[f] \cup {t.to} \in SUBSET Node
    BY <1>2, Now
  <2>2. QED BY <1>1, <2>1
<1>5. TypeOK'
  <2>1. phase \in {"messages", "ping", "work"}
    BY DEF IInv, TypeOK
  <2>2. transfers' \in SUBSET Transfer
    BY <1>1, Now
  <2>3. QED BY <1>1, <1>3, <1>4, <2>1, <2>2, Now DEF TypeOK
<1>6. JobOK'
  BY <1>1 DEF IInv, JobOK, announced
<1>7. Origin' /\ \A g \in File : (g \notin raced => OneAuthor(g))'
  BY <1>1, AuthorsSame
<1>8. ASSUME NEW g \in File, g \notin mixed', g # f
      PROVE  OneVersion(g)' /\ Copies(g)'
  <2>1. copies'[g] = copies[g] /\ content'[g] = content[g] /\ of(pendMods', g) = of(pendMods, g)
    BY <1>1, <1>3, <1>4, <1>8
  <2>2. \A x \in transfers' : x \in transfers
    BY <1>1
  <2>3. QED BY <1>1, <1>8, <2>1, <2>2, StillSame
<1>9. ASSUME f \notin mixed'
      PROVE  OneVersion(f)' /\ Copies(f)'
  <2>1. OneVersion(f) /\ Copies(f)
    BY <1>1, <1>9 DEF IInv
  <2>2. t.ver = version[f] /\ of(pendMods, f) = {} /\ job.lfn # f
    BY <2>1 DEF Copies
  <2>3. OneVersion(f)'
    BY <1>1, <2>1, <2>2, VersionSame DEF on
  <2>4. /\ of(newMods, f)' = of(newMods, f) /\ of(pendMods, f)' = {} /\ \A s : ~on(f, s)'
        /\ \A n : ~Covered(f, n)
    BY <1>1, <2>2 DEF of, on, Covered
  <2>5. of(newMods, f) = {} => \A n \in copies[f] : content[f][n] = version[f]
    BY <2>1, <2>4 DEF Copies
  <2>6. of(newMods, f) = {} => \A n \in copies'[f] : content'[f][n] = version[f]
    BY <1>3, <1>4, <2>2, <2>5, Now
  <2>7. \A x \in transfers' : x.lfn = f => x.ver = version[f]
    BY <1>1, <2>1 DEF Copies
  <2>8. Copies(f)'
    BY <1>1, <2>2, <2>4, <2>6, <2>7 DEF Copies, on
  <2>9. QED BY <2>3, <2>8
<1>10. QED BY <1>1, <1>5, <1>6, <1>7, <1>8, <1>9 DEF IInv

LEMMA MakeFreeSpaceInv ==
  ASSUME IInv, NEW f \in File, NEW n \in Node, makeFreeSpace(f, n)
  PROVE  IInv'
<1>1. /\ job.step = "idle" /\ event
      /\ copies' = [copies EXCEPT ![f] = @ \ {n}]
      /\ putFails(f, n)
      /\ UNCHANGED <<version, lockedby, inbox, uploads, late, author, msgs, newMods, pendMods,
                     transfers, up, dead, phase, job, raced, mixed>>
  BY DEF makeFreeSpace, idle, clients, mods, nodes, main, history
<1>2. /\ content' \in [File -> [Node -> Version \cup {nothing}]]
      /\ content'[f][n] \in {content[f][n], nothing}
      /\ \A g \in File : g # f => content'[g] = content[g]
      /\ \A p \in Node : p # n => content'[f][p] = content[f][p]
  <2>1. nothing \in Version \cup {nothing}
    OBVIOUS
  <2>2. UNCHANGED content \/ content' = [content EXCEPT ![f][n] = nothing]
    BY <1>1 DEF putFails
  <2>3. QED BY <2>1, <2>2, PutType
<1>3. /\ copies' \in [File -> SUBSET Node] /\ copies'[f] = copies[f] \ {n}
      /\ \A g \in File : g # f => copies'[g] = copies[g]
  <2>1. copies \in [File -> SUBSET Node] /\ copies[f] \ {n} \in SUBSET Node
    BY Now
  <2>2. QED BY <1>1, <2>1
<1>4. TypeOK'
  <2>1. phase \in {"messages", "ping", "work"} /\ events' \in 0..MaxEvents
    BY <1>1, Events DEF IInv, TypeOK
  <2>2. QED BY <1>1, <1>2, <1>3, <2>1, Now DEF TypeOK
<1>5. JobOK' /\ job.lfn = nobody
  BY <1>1 DEF IInv, JobOK, announced
<1>6. Origin' /\ \A g \in File : (g \notin raced => OneAuthor(g))'
  BY <1>1, AuthorsSame
<1>7. ASSUME NEW g \in File, g \notin mixed', g # f
      PROVE  OneVersion(g)' /\ Copies(g)'
  <2>1. copies'[g] = copies[g] /\ content'[g] = content[g] /\ of(pendMods', g) = of(pendMods, g)
    BY <1>1, <1>2, <1>3, <1>7
  <2>2. QED BY <1>1, <1>7, <2>1, StillSame
<1>8. ASSUME f \notin mixed'
      PROVE  OneVersion(f)' /\ Copies(f)'
  <2>1. OneVersion(f) /\ Copies(f)
    BY <1>1, <1>8 DEF IInv
  <2>2. job.lfn # f
    BY <1>5, NoJobFacts
  <2>3. OneVersion(f)'
    BY <1>1, <2>1, <2>2, VersionSame DEF on
  <2>4. /\ of(newMods, f)' = of(newMods, f) /\ of(pendMods, f)' = of(pendMods, f)
        /\ \A s : ~on(f, s)' /\ ~on(f, s)
        /\ \A p : Covered(f, p)' <=> Covered(f, p)
    BY <1>1, <2>2 DEF of, on, Covered
  <2>5. of(newMods, f) = {} =>
          /\ \A p \in copies[f] : content[f][p] = version[f] \/ Covered(f, p)
          /\ \A e \in of(pendMods, f) : content[f][e.source] \in {version[f], nothing}
    BY <2>1 DEF Copies
  <2>6. \A e \in of(pendMods, f) : e.source \in Node
    BY Now, OfPend
  <2>7. of(newMods, f) = {} =>
          /\ \A p \in copies'[f] : content'[f][p] = version[f] \/ Covered(f, p)
          /\ \A e \in of(pendMods, f) : content'[f][e.source] \in {version[f], nothing}
    <3>1. \A p \in copies'[f] : p \in copies[f] /\ p \in Node /\ p # n
      BY <1>3, Now
    <3>2. QED BY <1>2, <2>5, <2>6, <3>1
  <2>8. Copies(f)'
    BY <1>1, <2>1, <2>2, <2>4, <2>7 DEF Copies
  <2>9. QED BY <2>3, <2>8
<1>9. QED BY <1>1, <1>4, <1>5, <1>6, <1>7, <1>8 DEF IInv

LEMMA RestartInv ==
  ASSUME IInv, restart
  PROVE  IInv'
<1>1. /\ event /\ newMods' = <<>> /\ pendMods' = <<>> /\ msgs' = <<>> /\ transfers' = {}
      /\ dead' \in SUBSET dead /\ phase' = "messages" /\ job' = noJob
      /\ mixed' = mixed \cup {f \in File : inProgress(f)}
      /\ UNCHANGED <<copies, version, lockedby, content, inbox, uploads, late, author, up, raced>>
  BY DEF restart, loadPendingModList, catalogue, clients
<1>2. /\ DOMAIN newMods' = {} /\ DOMAIN pendMods' = {} /\ DOMAIN msgs' = {}
      /\ newMods' \in Seq(NewMod) /\ pendMods' \in Seq(PendMod) /\ msgs' \in Seq(Message)
  BY <1>1
<1>3. TypeOK'
  <2>1. events' \in 0..MaxEvents
    BY <1>1, Events
  <2>2. mixed' \in SUBSET File /\ dead' \in SUBSET Node
    BY <1>1, Now
  <2>3. QED BY <1>1, <1>2, <2>1, <2>2, NoJobFacts, Now DEF TypeOK
<1>4. JobOK' /\ Origin'
  BY <1>1, <1>2, NoJobFacts DEF IInv, JobOK, Origin
<1>5. \A f : /\ of(newMods', f) = {} /\ of(pendMods', f) = {} /\ of(msgs', f) = {}
             /\ asks(msgs', f) = {} /\ once(newMods', f)
  BY <1>2 DEF of, asks, once
<1>6. ASSUME NEW f \in File, f \notin raced'
      PROVE  OneAuthor(f)'
  BY <1>1, <1>5, <1>6, AuthorSame
<1>7. ASSUME NEW f \in File, f \notin mixed'
      PROVE  OneVersion(f)' /\ Copies(f)'
  <2>1. f \notin mixed /\ ~inProgress(f)
    BY <1>1, <1>7
  <2>2. OneVersion(f) /\ Copies(f)
    BY <2>1 DEF IInv
  <2>3. /\ job.lfn # f /\ of(newMods, f) = {} /\ of(pendMods, f) = {}
        /\ \A x \in uploads : x.lfn # f
    BY <2>1, PendingOf DEF inProgress
  <2>4. job'.lfn # f /\ \A s : ~on(f, s)'
    BY <1>1, NoJobFacts DEF on
  <2>5. /\ of(newMods, f)' = {} /\ of(pendMods, f)' = {} /\ asks(msgs, f)' = {}
        /\ once(newMods, f)'
    BY <1>5 DEF of, asks, once
  <2>6. OneVersion(f)'
    BY <1>1, <2>3, <2>4, <2>5 DEF OneVersion
  <2>7. \A n \in copies[f] : content[f][n] = version[f]
    BY <2>2, <2>3 DEF Copies, Covered
  <2>8. Copies(f)'
    BY <1>1, <2>4, <2>5, <2>7 DEF Copies
  <2>9. QED BY <2>6, <2>8
<1>8. QED BY <1>1, <1>3, <1>4, <1>6, <1>7 DEF IInv

-----------------------------------------------------------------------------
(* The theorems *)

LEMMA StutterInv ==
  ASSUME IInv, UNCHANGED vars
  PROVE  IInv'
<1>1. /\ UNCHANGED <<catalogue, content, clients, msgs, mods, history>>
      /\ UNCHANGED <<transfers, up, dead, phase, job, events>>
  BY DEF vars, nodes, main
<1>2. phase' \in {"messages", "ping", "work"} /\ events' \in 0..MaxEvents
  BY <1>1 DEF IInv, TypeOK
<1>3. JobOK'
  <2>1. UNCHANGED <<job, newMods>>
    BY <1>1 DEF mods
  <2>2. QED BY <2>1 DEF IInv, JobOK, announced
<1>4. up' \in SUBSET Node /\ dead' \in SUBSET Node /\ job' \in Job
  BY <1>1, Now
<1>5. QED BY <1>1, <1>2, <1>3, <1>4, Quiet

LEMMA NextInv ==
  ASSUME Inv, [Next]_vars
  PROVE  IInv'
<1> USE DEF Inv
<1>1. CASE UNCHANGED vars
  BY <1>1, StutterInv
<1>2. CASE Clients
  <2>1. CASE \E u \in User, f \in File, failed \in SUBSET Node : copyToSEInbox(u, f, failed)
    BY <2>1, CopyToSEInboxInv
  <2>2. CASE \E x \in uploads : sendModify(x)
    BY <2>2, SendModifyInv
  <2>3. CASE \E u \in User, f \in File : sendLock("lock", f, u) \/ sendLock("unlock", f, u)
    BY <2>3, SendLockInv
  <2>4. CASE \E x \in late : renamedLate(x)
    <3>1. PICK x \in late : renamedLate(x)
      BY <2>4
    <3>2. x.lfn \in File
      BY Now, NewFacts
    <3>3. QED BY <3>1, <3>2, RenamedLateInv
  <2>5. QED BY <1>2, <2>1, <2>2, <2>3, <2>4 DEF Clients
<1>3. CASE MainThread
  <2>1. CASE handleMessageModify
    BY <2>1, HandleModifyInv
  <2>2. CASE handleMessageLock \/ handleMessageUnlock
    BY <2>2, HandleLockInv
  <2>3. CASE processMessagesDone \/ pingNodesDone \/ iterationDone
    BY <2>3, PhasesInv
  <2>4. CASE \E n \in Node : pingFails(n) \/ pingWorks(n)
    BY <2>4, PhasesInv
  <2>5. CASE tryNext
    BY <2>5, TryNextInv
  <2>6. CASE tryModificationsDone \/ handleNewModificationDone
    BY <2>6, PruneInv
  <2>7. CASE \E f \in File, n \in Node : handleNewModification(f, n)
    BY <2>7, HandleNewInv
  <2>8. CASE copyFromInbox \/ copyFromInboxFails \/ rm \/ registerFileWithRc
    <3>1. job.step \in {"copy", "rm", "register"}
      BY <2>8 DEF copyFromInbox, copyFromInboxFails, rm, registerFileWithRc
    <3>2. PICK f \in File : job.lfn = f
      BY <3>1 DEF IInv, JobOK
    <3>3. QED BY <2>8, <3>2, CopyFromInboxInv, CopyFromInboxFailsInv, RmInv, RegisterInv
  <2>9. CASE copyToLocal
    BY <2>9, CopyToLocalInv
  <2>10. CASE copyFromLocal
    BY <2>10, CopyFromLocalInv
  <2>11. CASE \E f \in File, from, to \in Node : getDone(f, from, to)
    BY <2>11, GetDoneInv
  <2>12. CASE \E t \in transfers : putDone(t)
    <3>1. PICK t \in transfers : putDone(t)
      BY <2>12
    <3>2. t.lfn \in File
      BY Now DEF Transfer
    <3>3. QED BY <3>1, <3>2, PutDoneInv
  <2>13. CASE \E t \in transfers : putFailed(t)
    BY <2>13, PhasesInv
  <2>14. CASE \E f \in File, n \in Node : makeFreeSpace(f, n)
    BY <2>14, MakeFreeSpaceInv
  <2>15. QED BY <1>3, <2>1, <2>2, <2>3, <2>4, <2>5, <2>6, <2>7, <2>8, <2>9, <2>10, <2>11, <2>12,
                <2>13, <2>14 DEF MainThread
<1>4. CASE World
  <2>1. CASE \E n \in Node : goDown(n) \/ comeBack(n)
    BY <2>1, PhasesInv
  <2>2. CASE restart
    BY <2>2, RestartInv
  <2>3. QED BY <1>4, <2>1, <2>2 DEF World
<1>5. QED BY <1>1, <1>2, <1>3, <1>4 DEF Next

(* A step that takes the file to no other node, and after which no other   *)
(* copy may take effect late.                                              *)
LEMMA StillElsewhere ==
  ASSUME NEW f \in File, Elsewhere(f), late' \subseteq late, uploads' \subseteq uploads,
         \A i \in asks(msgs', f) : \E j \in asks(msgs, f) : msgs'[i] = msgs[j],
         of(newMods', f) \subseteq of(newMods, f),
         job'.lfn = f => job.lfn = f /\ job'.host = job.host
  PROVE  Elsewhere(f)'
<1>1. ASSUME NEW n, Busy(f, n)'
      PROVE  Busy(f, n)
  BY <1>1 DEF Busy
<1>2. QED BY <1>1 DEF Elsewhere

LEMMA ClientsElsewhere ==
  ASSUME Inv, Clients, NEW f \in File, f \notin mixed'
  PROVE  Elsewhere(f)'
<1> USE DEF Inv
<1>1. ASSUME NEW u \in User, NEW g \in File, NEW failed \in SUBSET Node,
             copyToSEInbox(u, g, failed)
      PROVE  Elsewhere(f)'
  <2> DEFINE v == Len(author) + 1
  <2>1. /\ late' = late \cup copiesTo(g, failed, v)
        /\ mixed' = IF inProgress(g) THEN mixed \cup {g} ELSE mixed
        /\ \/ \E n \in up \ failed : uploads' = uploads \cup copiesTo(g, {n}, v)
           \/ UNCHANGED uploads
        /\ UNCHANGED <<msgs, newMods, pendMods, job>>
    BY <1>1 DEF copyToSEInbox, mods, main
  <2> HIDE DEF v
  <2>2. Elsewhere(f)
    BY <2>1
  <2>3. CASE g # f
    <3>1. \A x \in late' : x.lfn = f => x \in late
      BY <2>1, <2>3 DEF copiesTo
    <3>2. \A x \in uploads' : x.lfn = f => x \in uploads
      BY <2>1, <2>3 DEF copiesTo
    <3>3. \A n : Busy(f, n)' => Busy(f, n)
      BY <2>1, <3>2 DEF Busy
    <3>4. QED BY <2>2, <3>1, <3>3 DEF Elsewhere
  <2>4. CASE g = f
    <3>1. ~inProgress(f)
      BY <2>1, <2>4
    <3>2. /\ of(newMods, f) = {} /\ asks(msgs, f) = {} /\ job.lfn # f
          /\ \A x \in uploads \cup late : x.lfn # f
      BY <3>1, PendingOf DEF inProgress, asks
    <3>3. \A x \in late' : x.lfn = f => x.host \in failed
      BY <2>1, <2>4, <3>2 DEF copiesTo
    <3>4. \A x \in uploads' : x.lfn = f => x.host \notin failed
      BY <2>1, <2>4, <3>2 DEF copiesTo
    <3>5. \A n : Busy(f, n)' => n \notin failed
      BY <2>1, <3>2, <3>4 DEF Busy
    <3>6. QED BY <3>3, <3>5 DEF Elsewhere
  <2>5. QED BY <2>3, <2>4
<1>2. ASSUME NEW x \in late, renamedLate(x)
      PROVE  Elsewhere(f)'
  <2>1. late' \subseteq late /\ UNCHANGED <<uploads, msgs, newMods, job, mixed>>
    BY <1>2 DEF renamedLate, mods, main, history
  <2>2. QED BY <2>1, StillElsewhere
<1>3. ASSUME NEW x \in uploads, sendModify(x)
      PROVE  Elsewhere(f)'
  <2> DEFINE m == [type |-> "modify", lfn |-> x.lfn, sender |-> author[x.ver],
                   host |-> x.host, ver |-> x.ver]
  <2>1. /\ uploads' = uploads \ {x} /\ UNCHANGED <<late, newMods, job, mixed>>
        /\ msgs' = Append(msgs, m) \/ UNCHANGED msgs
    BY <1>3 DEF sendModify, accept, reject, mods, main
  <2>2. m \in Message /\ m.lfn = x.lfn /\ m.host = x.host
    <3>1. x \in NewMod /\ author[x.ver] \in User
      BY Now DEF IInv, Origin
    <3>2. QED BY <3>1, NewFacts DEF Message
  <2> HIDE DEF m
  <2>3. \A i \in asks(msgs', f) :
          \/ \E j \in asks(msgs, f) : msgs'[i] = msgs[j]
          \/ x.lfn = f /\ msgs'[i].host = x.host
    <3>1. CASE UNCHANGED msgs
      BY <3>1
    <3>2. CASE msgs' = Append(msgs, m)
      <4>1. msgs \in Seq(Message)
        BY Now
      <4> DEFINE r == Append(msgs, m)
      <4>2. /\ asks(r, f) = asks(msgs, f) \cup
                            (IF m.type = "modify" /\ m.lfn = f THEN {Len(msgs) + 1} ELSE {})
            /\ r[Len(msgs) + 1] = m /\ \A i \in DOMAIN msgs : r[i] = msgs[i]
        BY <2>2, <4>1, AppendAsks
      <4>3. \A j \in asks(msgs, f) : j \in DOMAIN msgs
        BY DEF asks
      <4> HIDE DEF r
      <4>4. \A i \in asks(r, f) :
              \/ \E j \in asks(msgs, f) : r[i] = msgs[j]
              \/ x.lfn = f /\ r[i].host = x.host
        BY <2>2, <4>2, <4>3
      <4>5. QED BY <3>2, <4>4 DEF r
    <3>3. QED BY <2>1, <3>1, <3>2
  <2>4. \A n : Busy(f, n)' => Busy(f, n)
    BY <2>1, <2>3 DEF Busy
  <2>5. QED BY <2>1, <2>4 DEF Elsewhere
<1>4. ASSUME NEW u \in User, NEW g \in File, NEW type \in {"lock", "unlock"},
             sendLock(type, g, u)
      PROVE  Elsewhere(f)'
  <2> DEFINE m == [type |-> type, lfn |-> g, sender |-> u, host |-> nobody, ver |-> nothing]
  <2>1. m \in Message /\ m.type = type
    BY DEF Message
  <2>2. accept(m) /\ UNCHANGED <<late, uploads, newMods, job, mixed>>
    BY <1>4 DEF sendLock, clients, mods, main
  <2> HIDE DEF m
  <2>3. \A i \in asks(msgs', f) : \E j \in asks(msgs, f) : msgs'[i] = msgs[j]
    BY <2>1, <2>2, AcceptAsks
  <2>4. QED BY <2>2, <2>3, StillElsewhere
<1>5. QED BY <1>1, <1>2, <1>3, <1>4 DEF Clients

LEMMA MessagesElsewhere ==
  ASSUME Inv, handleMessageModify \/ handleMessageLock \/ handleMessageUnlock,
         NEW f \in File, f \notin mixed'
  PROVE  Elsewhere(f)'
<1> USE DEF Inv
<1>1. /\ msgs # <<>> /\ msgs' = Tail(msgs)
      /\ UNCHANGED <<late, uploads, job, mixed>>
      /\ \/ UNCHANGED newMods
         \/ /\ Head(msgs).type = "modify"
            /\ newMods' = Append(newMods, [lfn |-> Head(msgs).lfn, host |-> Head(msgs).host,
                                           ver |-> Head(msgs).ver])
  BY DEF handleMessageModify, handleMessageLock, handleMessageUnlock, handling, clients, mods,
         main, history
<1>2. \A i \in asks(msgs', f) : \E j \in asks(msgs, f) : msgs'[i] = msgs[j]
  BY <1>1, HeadFacts
<1>3. CASE UNCHANGED newMods
  BY <1>1, <1>2, <1>3, StillElsewhere
<1>4. CASE ~UNCHANGED newMods
  <2> DEFINE m == Head(msgs)
             e == [lfn |-> m.lfn, host |-> m.host, ver |-> m.ver]
  <2>1. /\ m.type = "modify" /\ m = msgs[1] /\ 1 \in DOMAIN msgs /\ 1 \in asks(msgs, m.lfn)
        /\ m.lfn \in File
    BY <1>1, <1>4, HeadFacts
  <2>2. e \in NewMod /\ e.lfn = m.lfn /\ e.host = m.host
    <3>1. m.host \in Node /\ m.ver \in DOMAIN author
      BY <2>1 DEF IInv, Origin
    <3>2. m.ver \in Version
      BY <3>1, Now, MaxAssumption DEF Version
    <3>3. QED BY <2>1, <3>1, <3>2 DEF NewMod
  <2>3. newMods \in Seq(NewMod) /\ newMods' = Append(newMods, e)
    BY <1>1, <1>4, Now
  <2> HIDE DEF m, e
  <2>4. of(newMods', f) = of(newMods, f) \cup (IF e.lfn = f THEN {e} ELSE {})
    BY <2>2, <2>3, AppendOf
  <2>5. \A n : Busy(f, n)' => Busy(f, n)
    BY <1>1, <1>2, <2>1, <2>2, <2>4 DEF Busy
  <2>6. QED BY <1>1, <2>5 DEF Elsewhere
<1>5. QED BY <1>3, <1>4

LEMMA MainElsewhere ==
  ASSUME Inv, MainThread, NEW f \in File, f \notin mixed'
  PROVE  Elsewhere(f)'
<1> USE DEF Inv
<1>1. CASE handleMessageModify \/ handleMessageLock \/ handleMessageUnlock
  BY <1>1, MessagesElsewhere
<1>2. ASSUME UNCHANGED <<late, uploads, msgs, newMods, mixed>>,
             job'.lfn = nobody \/ UNCHANGED <<job.lfn, job.host>>
      PROVE  Elsewhere(f)'
  BY <1>2, NoJobFacts, StillElsewhere
<1>3. CASE \/ processMessagesDone \/ pingNodesDone \/ iterationDone
           \/ \E n \in Node : pingFails(n) \/ pingWorks(n)
           \/ tryNext \/ tryModificationsDone
  <2>1. UNCHANGED <<late, uploads, msgs, newMods, mixed>>
    BY <1>3 DEF processMessagesDone, pingNodesDone, iterationDone, pingFails, pingWorks, tryNext,
                tryModificationsDone, clients, mods, history
  <2>2. job.lfn = nobody
    BY <1>3 DEF processMessagesDone, pingNodesDone, iterationDone, pingFails, pingWorks, tryNext,
                tryModificationsDone, idle, IInv, JobOK
  <2>3. job'.lfn = nobody
    <3>1. job \in Job /\ noJob \in Job /\ noJob.lfn = nobody
      BY Now, NoJobFacts
    <3>2. QED BY <1>3, <2>2, <3>1 DEF processMessagesDone, pingNodesDone, iterationDone, pingFails,
                pingWorks, tryNext, tryModificationsDone, Job, main
  <2>4. QED BY <1>2, <2>1, <2>3
<1>4. CASE \/ copyFromInbox \/ copyFromInboxFails \/ rm
           \/ copyToLocal \/ copyFromLocal \/ handleNewModificationDone
  <2>1. UNCHANGED <<late, uploads, msgs, newMods, mixed>>
    BY <1>4 DEF copyFromInbox, copyFromInboxFails, rm, copyToLocal, copyFromLocal,
                handleNewModificationDone, clients, mods, history
  <2>2. job'.lfn = nobody \/ UNCHANGED <<job.lfn, job.host>>
    <3>1. job \in Job /\ noJob.lfn = nobody
      BY Now, NoJobFacts
    <3>2. QED BY <1>4, <3>1 DEF copyFromInbox, copyFromInboxFails, rm, copyToLocal, copyFromLocal,
                handleNewModificationDone, Job
  <2>3. QED BY <1>2, <2>1, <2>2
<1>5. CASE registerFileWithRc
  <2>1. /\ UNCHANGED <<late, uploads, msgs, mixed>> /\ removeNewModification(job.lfn, job.host)
        /\ job.step = "register" /\ job' = [job EXCEPT !.step = "fetch"]
    BY <1>5 DEF registerFileWithRc, clients, history
  <2>2. job.lfn \in File /\ job.host \in Node /\ announced(job.lfn, job.host) # {}
    BY <2>1 DEF IInv, JobOK
  <2>3. of(newMods', f) \subseteq of(newMods, f)
    BY <2>1, <2>2, RemoveNew
  <2>4. UNCHANGED <<job.lfn, job.host>>
    BY <2>1, Now DEF Job
  <2>5. QED BY <2>1, <2>3, <2>4, StillElsewhere
<1>6. ASSUME NEW g \in File, NEW n \in Node, handleNewModification(g, n)
      PROVE  Elsewhere(f)'
  <2>1. /\ UNCHANGED <<late, uploads, msgs>> /\ announced(g, n) # {} /\ f \notin mixed
        /\ \/ UNCHANGED newMods /\ job' = [noJob EXCEPT !.step = "copy", !.lfn = g, !.host = n]
           \/ removeNewModification(g, n) /\ UNCHANGED job
    BY <1>6 DEF handleNewModification, clients
  <2>2. CASE removeNewModification(g, n) /\ UNCHANGED job
    <3>1. of(newMods', f) \subseteq of(newMods, f)
      BY <2>1, <2>2, RemoveNew
    <3>2. QED BY <2>1, <2>2, <3>1, StillElsewhere
  <2>3. CASE UNCHANGED newMods /\ job' = [noJob EXCEPT !.step = "copy", !.lfn = g, !.host = n]
    <3>1. job'.lfn = g /\ job'.host = n
      BY <2>3 DEF noJob
    <3>2. g = f => \E m \in of(newMods, f) : m.host = n
      BY <2>1 DEF announced, of
    <3>3. \A k : Busy(f, k)' => Busy(f, k)
      BY <2>1, <2>3, <3>1, <3>2 DEF Busy
    <3>4. QED BY <2>1, <3>3 DEF Elsewhere
  <2>4. QED BY <2>1, <2>2, <2>3
<1>7. CASE \/ \E g \in File, from, to \in Node : getDone(g, from, to)
           \/ \E t \in transfers : putDone(t) \/ putFailed(t)
           \/ \E g \in File, n \in Node : makeFreeSpace(g, n)
  <2>1. UNCHANGED <<late, uploads, msgs, newMods, job>> /\ f \notin mixed
    BY <1>7 DEF getDone, putDone, putFailed, makeFreeSpace, clients, mods, main, history
  <2>2. QED BY <2>1, StillElsewhere
<1>8. QED BY <1>1, <1>3, <1>4, <1>5, <1>6, <1>7 DEF MainThread

LEMMA ElsewhereInv ==
  ASSUME Inv, [Next]_vars, NEW f \in File, f \notin mixed'
  PROVE  Elsewhere(f)'
<1> USE DEF Inv
<1>1. CASE UNCHANGED vars \/ \E n \in Node : goDown(n) \/ comeBack(n)
  <2>1. UNCHANGED <<late, uploads, msgs, newMods, job, mixed>>
    BY <1>1 DEF vars, goDown, comeBack, clients, mods, main, history
  <2>2. QED BY <2>1, StillElsewhere
<1>2. CASE restart
  <2>1. /\ newMods' = <<>> /\ msgs' = <<>> /\ job' = noJob /\ f \notin mixed
        /\ UNCHANGED <<late, uploads>>
    BY <1>2 DEF restart, loadPendingModList, clients
  <2>2. asks(msgs', f) = {} /\ of(newMods', f) = {} /\ job'.lfn # f
    BY <2>1, NoJobFacts DEF asks, of
  <2>3. QED BY <2>1, <2>2, StillElsewhere
<1>3. QED BY <1>1, <1>2, ClientsElsewhere, MainElsewhere DEF Next, World

(* Of every file whose modifications did not overlap, what is announced is *)
(* in the inbox, where no copy that failed before can replace it, and what *)
(* is carried out is recorded; of every file whose messages were not       *)
(* authorised side by side, all that is on its way is of one user (the     *)
(* whole invariant of background-modify.c).                                *)
THEOREM Invariance == Spec => []Inv
<1>1. Init => Inv
  <2>1. Init => late = {}
    BY DEF Init
  <2>2. QED BY <2>1, InitInv DEF Inv, Elsewhere
<1>2. Inv /\ [Next]_vars => Inv'
  BY NextInv, ElsewhereInv DEF Inv
<1>3. QED BY <1>1, <1>2, PTL DEF Spec

(* All variables stay in their types, and an entry of the list of pending  *)
(* modifications is without a host only while the scan that marked it runs.*)
THEOREM TypeCorrect == Spec => []TypeOK
<1>1. Inv => TypeOK
  BY DEF Inv, IInv
<1>2. QED BY <1>1, Invariance, PTL

(* When nothing is pending for a file, every copy in the catalogue is of   *)
(* the version in the catalogue (handleNewModification and                 *)
(* tryModificationsOnHost, whatever fails and is tried again).             *)
THEOREM ReplicasAgree == Spec => []Settled
<1>1. Inv => Settled
  <2>1. SUFFICES ASSUME IInv, NEW f \in File \ mixed, ~modificationsPending(f), NEW n \in copies[f]
                 PROVE  content[f][n] = version[f]
    BY DEF Settled, Inv
  <2>2. of(newMods, f) = {} /\ of(pendMods, f) = {}
    BY <2>1, PendingOf
  <2>3. Copies(f)
    BY <2>1 DEF IInv
  <2>4. QED BY <2>1, <2>2, <2>3 DEF Copies, Covered
<1>2. QED BY <1>1, Invariance, PTL

(* What is announced is in the inbox until it is done (addFileModification *)
(* and removeNewModification).                                             *)
THEOREM NothingStuck == Spec => []NotStuck
<1>1. Inv => NotStuck
  <2>1. SUFFICES ASSUME IInv, NEW i \in DOMAIN newMods, newMods[i].lfn \notin mixed
                 PROVE  \/ inbox[newMods[i].lfn][newMods[i].host] # nothing
                        \/ /\ job.step = "register" /\ job.lfn = newMods[i].lfn
                           /\ job.host = newMods[i].host
    BY DEF NotStuck, Inv
  <2>2. PICK m \in NewMod : m = newMods[i]
    BY <2>1, Now
  <2>3. m.lfn \in File /\ m.ver # nothing
    BY NewFacts DEF Version, nothing
  <2>4. m \in of(newMods, m.lfn)
    BY <2>2 DEF of
  <2>5. OneVersion(m.lfn)
    BY <2>1, <2>2, <2>3 DEF IInv
  <2>6. inbox[m.lfn][m.host] = m.ver \/ (on(m.lfn, {"register"}) /\ job.host = m.host)
    BY <2>4, <2>5 DEF OneVersion
  <2>7. QED BY <2>2, <2>3, <2>6 DEF on
<1>2. QED BY <1>1, Invariance, PTL

(* The catalogue gets a version from handleNewModification only. *)
LEMMA VersionFrom ==
  ASSUME [Next]_vars, version' # version
  PROVE  \E f \in File, n \in Node : handleNewModification(f, n)
<1>1. CASE UNCHANGED vars
  BY <1>1 DEF vars, catalogue
<1>2. CASE Clients
  <2>1. UNCHANGED version
    BY <1>2 DEF Clients, copyToSEInbox, renamedLate, sendModify, sendLock, catalogue
  <2>2. QED BY <2>1
<1>3. CASE World
  <2>1. UNCHANGED version
    BY <1>3 DEF World, goDown, comeBack, restart, catalogue
  <2>2. QED BY <2>1
<1>4. CASE MainThread
  <2>1. CASE handleMessageModify \/ handleMessageLock \/ handleMessageUnlock \/ processMessagesDone
    BY <2>1 DEF handleMessageModify, handleMessageLock, handleMessageUnlock, processMessagesDone,
                catalogue
  <2>2. CASE \/ \E n \in Node : pingFails(n) \/ pingWorks(n)
             \/ tryNext \/ tryModificationsDone \/ pingNodesDone \/ iterationDone
    BY <2>2 DEF pingFails, pingWorks, tryNext, tryModificationsDone, pingNodesDone, iterationDone,
                catalogue
  <2>3. CASE copyFromInbox \/ copyFromInboxFails \/ rm \/ registerFileWithRc
    BY <2>3 DEF copyFromInbox, copyFromInboxFails, rm, registerFileWithRc, catalogue
  <2>4. CASE copyToLocal \/ copyFromLocal \/ handleNewModificationDone
    BY <2>4 DEF copyToLocal, copyFromLocal, handleNewModificationDone, catalogue
  <2>5. CASE \/ \E f \in File, from, to \in Node : getDone(f, from, to)
             \/ \E t \in transfers : putDone(t) \/ putFailed(t)
             \/ \E f \in File, n \in Node : makeFreeSpace(f, n)
    BY <2>5 DEF getDone, putDone, putFailed, makeFreeSpace, catalogue
  <2>6. QED BY <1>4, <2>1, <2>2, <2>3, <2>4, <2>5 DEF MainThread
<1>5. QED BY <1>1, <1>2, <1>3, <1>4 DEF Next

(* A locked file gets versions of its holder only, unless messages about   *)
(* it were authorised side by side: canModify and canLockFile look at the  *)
(* lists of modifications while the main thread works on them.             *)
THEOREM HolderOnly == Spec => LockedByAuthor
<1>1. ASSUME IInv, [Next]_vars, NEW f \in File, version'[f] # version[f], lockedby[f] # nobody,
             f \notin raced
      PROVE  author[version'[f]] = lockedby[f]
  <2>1. PICK g \in File, n \in Node : handleNewModification(g, n)
    BY <1>1, VersionFrom
  <2>2. PICK k : k = Max(announced(g, n))
    OBVIOUS
  <2>3. version' = [version EXCEPT ![g] = newMods[k].ver] /\ announced(g, n) # {}
    BY <1>1, <2>1, <2>2 DEF handleNewModification
  <2>4. g = f /\ version'[f] = newMods[k].ver
    <3>1. version \in [File -> Version]
      BY <1>1, Now
    <3>2. QED BY <1>1, <2>3, <3>1
  <2>5. k \in DOMAIN newMods /\ newMods[k].lfn = f
    <3>1. newMods \in Seq(NewMod) /\ Len(newMods) \in Nat /\ DOMAIN newMods = 1..Len(newMods)
      BY <1>1, Now
    <3>2. announced(g, n) \in SUBSET (1..Len(newMods))
      BY <3>1 DEF announced
    <3>3. k \in announced(g, n)
      BY <2>2, <2>3, <3>1, <3>2, MinMax
    <3>4. QED BY <2>4, <3>3 DEF announced
  <2>6. newMods[k] \in of(newMods, f)
    BY <2>5 DEF of
  <2>7. OneAuthor(f)
    BY <1>1 DEF IInv
  <2>8. QED BY <1>1, <2>4, <2>6, <2>7 DEF OneAuthor
<1>2. Inv /\ [Next]_vars =>
        [\A f \in File :
            version'[f] # version[f] /\ lockedby[f] # nobody /\ f \notin raced
              => author[version'[f]] = lockedby[f]]_vars
  BY <1>1 DEF Inv
<1>3. QED BY <1>2, Invariance, PTL DEF Spec, LockedByAuthor
===============================================================================
