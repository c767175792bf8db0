-------------------------- MODULE NodeTable_proofs --------------------------
(***************************************************************************)
(* Proofs about NodeTable: its type invariant, that every status list      *)
(* holds only indices that nodeIndexFromName finds, and that the index     *)
(* lists implement the statuses by name of NodeStatus.  The invariant      *)
(* ListsIndexable is what the refinement rests on: were a listed index     *)
(* not the first of its name, removing a node could move a status from     *)
(* one name to another.                                                    *)
(***************************************************************************)
EXTENDS NodeTable, FiniteSetTheorems, WellFoundedInduction, TLAPS

-----------------------------------------------------------------------------
(* Numbers *)

(* A non-empty set of naturals has a least element: the intervals 0..x are  *)
(* well founded under inclusion.                                           *)
LEMMA LeastNat ==
  ASSUME NEW T \in SUBSET Nat, T # {}
  PROVE  \E x \in T : \A y \in T : x <= y
<1> DEFINE F == {0..x : x \in T}
<1>1. F \subseteq FiniteSubsetsOf(Nat) /\ F # {}
  <2>1. \A x \in T : 0..x \in SUBSET Nat /\ IsFiniteSet(0..x)
    BY FS_Interval
  <2>2. QED BY <2>1 DEF FiniteSubsetsOf
<1> HIDE DEF F
<1>2. PICK I \in F : \A J \in F : <<J, I>> \notin StrictSubsetOrdering(Nat)
  BY <1>1, FS_StrictSubsetOrderingWellFounded, WFMin
<1>3. PICK x \in T : I = 0..x
  BY DEF F
<1>4. ASSUME NEW y \in T, y < x PROVE FALSE
  <2>1. 0..y \in F /\ 0..x \in SUBSET Nat /\ 0..y \subseteq 0..x /\ x \in 0..x /\ x \notin 0..y
    BY <1>4 DEF F
  <2>2. <<0..y, 0..x>> \in StrictSubsetOrdering(Nat)
    BY <2>1 DEF StrictSubsetOrdering
  <2>3. QED BY <1>2, <1>3, <2>1, <2>2
<1>5. QED BY <1>4

-----------------------------------------------------------------------------
(* Looking nodes up *)

(* Two first indices of one name are the same index. *)
LEMMA FirstUnique ==
  ASSUME NEW t \in Seq(Node),
         NEW i \in FirstIndices(t), NEW j \in FirstIndices(t), t[i] = t[j]
  PROVE  i = j
BY DEF FirstIndices

(* nodeIndexFromName returns the first index of a name, or 0. *)
LEMMA IndexOrZero ==
  ASSUME NEW t \in Seq(Node), NEW n
  PROVE  \/ nodeIndexFromName(t, n) = 0
         \/ /\ nodeIndexFromName(t, n) \in FirstIndices(t)
            /\ nodeIndexFromName(t, n) > 0
            /\ t[nodeIndexFromName(t, n)] = n
BY DEF nodeIndexFromName, FirstIndices

(* nodeIndexFromName finds every name that is in the table. *)
LEMMA IndexFound ==
  ASSUME NEW t \in Seq(Node), NEW n \in Names(t, DOMAIN t)
  PROVE  /\ nodeIndexFromName(t, n) \in FirstIndices(t)
         /\ nodeIndexFromName(t, n) > 0
         /\ t[nodeIndexFromName(t, n)] = n
<1> DEFINE T == {i \in DOMAIN t : t[i] = n}
<1>1. T \in SUBSET Nat /\ T # {}
  BY DEF Names
<1>2. PICK x \in T : \A y \in T : x <= y
  BY <1>1, LeastNat
<1>3. x \in FirstIndices(t) /\ t[x] = n
  BY <1>2 DEF FirstIndices
<1>4. QED
  BY <1>3 DEF nodeIndexFromName, FirstIndices

(* A first index is what nodeIndexFromName returns for its name. *)
LEMMA IndexOfFirst ==
  ASSUME NEW t \in Seq(Node), NEW i \in FirstIndices(t)
  PROVE  nodeIndexFromName(t, t[i]) = i
<1>1. t[i] \in Names(t, DOMAIN t)
  BY DEF FirstIndices, Names
<1>2. QED
  BY <1>1, IndexFound, FirstUnique

(* removeNode on a first index k: every other first index is shifted to    *)
(* the first index of the same name.                                       *)
LEMMA CompactFirst ==
  ASSUME NEW t \in Seq(Node), NEW k \in FirstIndices(t)
  PROVE  /\ compact(t, k) \in Seq(Node)
         /\ Len(compact(t, k)) = Len(t) - 1
         /\ \A i \in FirstIndices(t) \ {k} :
               LET i2 == IF i > k THEN i - 1 ELSE i
               IN  i2 \in FirstIndices(compact(t, k)) /\ compact(t, k)[i2] = t[i]
<1>1. k \in 1..Len(t) /\ Len(t) \in Nat
  BY DEF FirstIndices
<1>2. compact(t, k) \in Seq(Node) /\ Len(compact(t, k)) = Len(t) - 1
  BY <1>1 DEF compact
<1>3. ASSUME NEW i \in FirstIndices(t) \ {k}, NEW i2,
             i2 = IF i > k THEN i - 1 ELSE i
      PROVE  i2 \in FirstIndices(compact(t, k)) /\ compact(t, k)[i2] = t[i]
  <2>1. i \in 1..Len(t) /\ \A j \in 1..(i - 1) : t[j] # t[i]
    BY DEF FirstIndices
  <2>2. i2 \in 1..(Len(t) - 1) /\ compact(t, k)[i2] = t[i]
    BY <1>1, <1>3, <2>1 DEF compact
  <2>3. \A j \in 1..(i2 - 1) : compact(t, k)[j] # t[i]
    BY <1>1, <1>3, <2>1, <2>2 DEF compact
  <2>4. QED
    BY <1>1, <1>2, <2>2, <2>3 DEF FirstIndices
<1>4. QED
  BY <1>2, <1>3

(* The "not found" index names no host. *)
LEMMA NamesOfListed ==
  ASSUME NEW t \in Seq(Node), NEW s \in SUBSET (FirstIndices(t) \cup {0})
  PROVE  Names(t, s) = {t[i] : i \in s \ {0}}
BY DEF Names, FirstIndices

(* What removeNode makes of a status list, by name: the removed name has   *)
(* left it and no other name has joined or left it.                        *)
LEMMA CompactNames ==
  ASSUME NEW t \in Seq(Node), NEW k \in FirstIndices(t),
         NEW s \in SUBSET (FirstIndices(t) \cup {0})
  PROVE  /\ updateNodeListIndices(s \ {k}, k) \subseteq FirstIndices(compact(t, k)) \cup {0}
         /\ 0 \notin s => 0 \notin updateNodeListIndices(s \ {k}, k)
         /\ Names(compact(t, k), updateNodeListIndices(s \ {k}, k)) = Names(t, s) \ {t[k]}
<1> DEFINE shift(i) == IF i > k THEN i - 1 ELSE i
           u == compact(t, k)
           moved == {shift(i) : i \in s \ {k}}
<1>1. \A i \in FirstIndices(t) \ {k} : shift(i) \in FirstIndices(u) /\ u[shift(i)] = t[i]
  BY CompactFirst
<1>2. updateNodeListIndices(s \ {k}, k) = moved
  BY DEF updateNodeListIndices
<1>3. u \in Seq(Node) /\ 0 \notin FirstIndices(u) /\ 0 \notin FirstIndices(t)
  BY CompactFirst DEF FirstIndices
<1>4. \A i \in s \ {0, k} : t[i] # t[k]
  BY FirstUnique
<1>5. shift(0) = 0 /\ k # 0
  BY DEF FirstIndices
<1> HIDE DEF shift, u
<1>6. moved \subseteq FirstIndices(u) \cup {0} /\ (0 \notin s => 0 \notin moved)
  BY <1>1, <1>3, <1>5
<1>7. Names(u, moved) = {u[i] : i \in moved \ {0}}
  BY <1>3, <1>6, NamesOfListed
<1>8. {u[i] : i \in moved \ {0}} = {t[i] : i \in s \ {0, k}}
  BY <1>1, <1>3, <1>5
<1>9. {t[i] : i \in s \ {0, k}} = Names(t, s) \ {t[k]}
  <2>1. Names(t, s) = {t[i] : i \in s \ {0}}
    BY NamesOfListed
  <2>2. QED BY <1>4, <1>5, <2>1
<1>10. QED
  BY <1>2, <1>6, <1>7, <1>8, <1>9 DEF u

(* What removeNode makes of the table, by name: no other name leaves it.   *)
LEMMA CompactKnown ==
  ASSUME NEW t \in Seq(Node), NEW k \in FirstIndices(t)
  PROVE  Names(compact(t, k), DOMAIN compact(t, k))
             \in {Names(t, DOMAIN t), Names(t, DOMAIN t) \ {t[k]}}
<1> DEFINE u == compact(t, k)
<1>1. /\ k \in 1..Len(t)
      /\ Len(t) \in Nat
      /\ DOMAIN t = 1..Len(t)
      /\ DOMAIN u = 1..(Len(t) - 1)
      /\ \A i \in DOMAIN u : u[i] = IF i < k THEN t[i] ELSE t[i + 1]
  BY DEF FirstIndices, compact
<1> HIDE DEF u
<1>2. Names(u, DOMAIN u) \subseteq Names(t, DOMAIN t)
  BY <1>1 DEF Names
<1>3. ASSUME NEW i \in DOMAIN t, i # k
      PROVE  t[i] \in Names(u, DOMAIN u)
  <2>1. CASE i < k
    <3>1. i \in DOMAIN u /\ u[i] = t[i]
      BY <1>1, <1>3, <2>1
    <3>2. QED BY <3>1 DEF Names
  <2>2. CASE i > k
    <3>1. i - 1 \in DOMAIN u /\ u[i - 1] = t[i]
      BY <1>1, <1>3, <2>2
    <3>2. QED BY <3>1 DEF Names
  <2>3. QED BY <1>1, <1>3, <2>1, <2>2
<1>4. Names(t, DOMAIN t) \ {t[k]} \subseteq Names(u, DOMAIN u)
  BY <1>3 DEF Names
<1>5. QED
  BY <1>2, <1>4 DEF u

(* Listing a known name on a status list. *)
LEMMA ListNames ==
  ASSUME NEW t \in Seq(Node), NEW s \in SUBSET (FirstIndices(t) \cup {0}),
         NEW n, nodeIndexFromName(t, n) > 0
  PROVE  /\ Names(t, s \cup {nodeIndexFromName(t, n)}) = Names(t, s) \cup {n}
         /\ n \in Names(t, DOMAIN t)
<1> DEFINE k == nodeIndexFromName(t, n)
<1>1. k \in FirstIndices(t) /\ t[k] = n
  BY IndexOrZero
<1>2. FirstIndices(t) \subseteq DOMAIN t
  BY DEF FirstIndices
<1> HIDE DEF k
<1>3. Names(t, s \cup {k}) = Names(t, s) \cup {n}
  BY <1>1, <1>2 DEF Names
<1>4. QED
  BY <1>1, <1>2, <1>3 DEF Names, k

(* Taking a known name off a status list. *)
LEMMA DelistNames ==
  ASSUME NEW t \in Seq(Node), NEW s \in SUBSET FirstIndices(t),
         NEW n, NEW k, k = nodeIndexFromName(t, n), k > 0
  PROVE  Names(t, s \ {k}) = Names(t, s) \ {n}
<1>1. k \in FirstIndices(t) /\ t[k] = n
  BY IndexOrZero
<1>2. FirstIndices(t) \subseteq DOMAIN t
  BY DEF FirstIndices
<1>3. \A i \in s : t[i] = n => i = k
  BY <1>1, FirstUnique
<1>4. QED
  BY <1>1, <1>2, <1>3 DEF Names

(* What readNodeList puts on a list is indexable, and by name it is what   *)
(* the file holds, less the names that are not in the table.               *)
LEMMA ReadNames ==
  ASSUME NEW t \in Seq(Node), NEW names \in SUBSET Node
  PROVE  /\ readNodeList(t, names) \subseteq FirstIndices(t)
         /\ Names(t, readNodeList(t, names)) = names \cap Names(t, DOMAIN t)
<1>1. \A n : nodeIndexFromName(t, n) > 0 =>
            nodeIndexFromName(t, n) \in FirstIndices(t) /\ t[nodeIndexFromName(t, n)] = n
  BY IndexOrZero
<1>2. \A n \in Names(t, DOMAIN t) : nodeIndexFromName(t, n) > 0
  BY IndexFound
<1>3. FirstIndices(t) \subseteq DOMAIN t
  BY DEF FirstIndices
<1>4. readNodeList(t, names) \subseteq FirstIndices(t)
  BY <1>1 DEF readNodeList
<1>5. Names(t, readNodeList(t, names)) = {t[i] : i \in readNodeList(t, names)}
  BY <1>3, <1>4 DEF Names
<1>6. {t[i] : i \in readNodeList(t, names)}
         = {n \in names : nodeIndexFromName(t, n) > 0}
  BY <1>1 DEF readNodeList
<1>7. {n \in names : nodeIndexFromName(t, n) > 0} = names \cap Names(t, DOMAIN t)
  <2>1. ASSUME NEW n, nodeIndexFromName(t, n) > 0
        PROVE  n \in Names(t, DOMAIN t)
    BY <2>1, <1>1, <1>3 DEF Names
  <2>2. QED BY <1>2, <2>1
<1>8. QED
  BY <1>4, <1>5, <1>6, <1>7

(* The preference list is read as a partial function to indices. *)
LEMMA ReadPrefType ==
  ASSUME NEW t \in Seq(Node)
  PROVE  /\ DOMAIN readPrefList(t) \subseteq DOMAIN PrefFile
         /\ readPrefList(t) \in [DOMAIN readPrefList(t) -> Nat]
<1>1. \A n : nodeIndexFromName(t, n) \in Nat
  BY IndexOrZero DEF FirstIndices
<1>2. QED
  BY <1>1 DEF readPrefList

(* Names in the table are hosts. *)
LEMMA NamesType ==
  ASSUME NEW t \in Seq(Node), NEW s
  PROVE  Names(t, s) \in SUBSET Node
BY DEF Names

-----------------------------------------------------------------------------
(* The invariant *)

IInv == TypeOK /\ ListsIndexable

(* Reading the files establishes the invariant. *)
LEMMA LoadedInv ==
  ASSUME NEW f \in [table: Seq(Node), dead: SUBSET Node,
                    disabled: SUBSET Node, retiring: SUBSET Node]
  PROVE  /\ f.table \in Seq(Node)
         /\ DOMAIN readPrefList(f.table) \subseteq DOMAIN PrefFile
         /\ readPrefList(f.table) \in [DOMAIN readPrefList(f.table) -> Nat]
         /\ \A names \in {f.dead, f.disabled, f.retiring} :
               readNodeList(f.table, names) \subseteq FirstIndices(f.table)
<1>1. f.table \in Seq(Node) /\ \A names \in {f.dead, f.disabled, f.retiring} : names \in SUBSET Node
  OBVIOUS
<1>2. QED
  BY <1>1, ReadPrefType, ReadNames

LEMMA FirstIndicesNat == ASSUME NEW t \in Seq(Node) PROVE FirstIndices(t) \in SUBSET Nat
BY DEF FirstIndices

LEMMA InitInv == Init => IInv
<1> SUFFICES ASSUME Init PROVE IInv
  OBVIOUS
<1>1. PICK t \in UNION {[1..k -> Node] : k \in 1..MaxTable} :
         files = [table |-> t, dead |-> {}, disabled |-> {}, retiring |-> {}]
  BY DEF Init
<1>2. t \in Seq(Node)
  BY MaxTableAssumption
<1>3. files \in [table: Seq(Node), dead: SUBSET Node,
                 disabled: SUBSET Node, retiring: SUBSET Node]
  BY <1>1, <1>2
<1>4. /\ table = files.table
      /\ pref = readPrefList(files.table)
      /\ dead = readNodeList(files.table, files.dead)
      /\ disabled = readNodeList(files.table, files.disabled)
      /\ retiring = readNodeList(files.table, files.retiring)
      /\ phase \in Phases /\ stale = {}
  BY DEF Init, IsLoaded, Phases
<1>5. ListsIndexable
  BY <1>3, <1>4, LoadedInv DEF ListsIndexable
<1>6. TypeOK
  BY <1>3, <1>4, <1>5, LoadedInv, FirstIndicesNat DEF TypeOK, ListsIndexable
<1>7. QED
  BY <1>5, <1>6 DEF IInv

(* Appending an entry keeps every first index, and no status changes name. *)
LEMMA AppendFirst ==
  ASSUME NEW t \in Seq(Node), NEW n \in Node
  PROVE  /\ Append(t, n) \in Seq(Node)
         /\ FirstIndices(t) \subseteq FirstIndices(Append(t, n))
         /\ \A s \in SUBSET (FirstIndices(t) \cup {0}) : Names(Append(t, n), s) = Names(t, s)
         /\ Names(Append(t, n), DOMAIN Append(t, n)) = Names(t, DOMAIN t) \cup {n}
<1> DEFINE u == Append(t, n)
<1>1. /\ u \in Seq(Node) /\ Len(t) \in Nat
      /\ DOMAIN t = 1..Len(t) /\ DOMAIN u = 1..(Len(t) + 1)
      /\ \A i \in DOMAIN t : u[i] = t[i]
      /\ u[Len(t) + 1] = n
  OBVIOUS
<1> HIDE DEF u
<1>2. FirstIndices(t) \subseteq FirstIndices(u)
  BY <1>1 DEF FirstIndices
<1>3. ASSUME NEW s \in SUBSET (FirstIndices(t) \cup {0})
      PROVE  Names(u, s) = Names(t, s)
  <2>1. s \subseteq DOMAIN t \cup {0} /\ 0 \notin DOMAIN u
    BY <1>1 DEF FirstIndices
  <2>2. QED BY <1>1, <2>1 DEF Names
<1>4. Names(u, DOMAIN u) = Names(t, DOMAIN t) \cup {n}
  <2>1. DOMAIN u = DOMAIN t \cup {Len(t) + 1}
    BY <1>1
  <2>2. QED BY <1>1, <2>1 DEF Names
<1>5. QED
  BY <1>1, <1>2, <1>3, <1>4 DEF u

LEMMA StepInv == IInv /\ [Next]_vars => IInv'
<1> SUFFICES ASSUME IInv, [Next]_vars PROVE IInv'
  OBVIOUS
<1> USE DEF IInv, prefs
<1>0. FirstIndices(table) \in SUBSET Nat
  BY FirstIndicesNat DEF TypeOK
<1>1. ASSUME NEW n \in Node, handleMessageAdd(n) PROVE IInv'
  BY <1>1, AppendFirst DEF handleMessageAdd, lists, TypeOK, ListsIndexable
<1>2. ASSUME NEW n \in Node, handleMessageRemove(n) PROVE IInv'
  <2> DEFINE k == nodeIndexFromName(table, n)
  <2>1. table \in Seq(Node) /\ k \in FirstIndices(table) /\ k \in Nat /\ k > 0
    BY <1>2, <1>0, IndexOrZero DEF handleMessageRemove, TypeOK
  <2> HIDE DEF k
  <2>2. table' \in Seq(Node)
    BY <1>2, <2>1, CompactFirst DEF handleMessageRemove, k
  <2>3. ListsIndexable'
    <3>1. 0 \notin FirstIndices(table)
      BY <2>1 DEF FirstIndices
    <3>2. /\ table' = compact(table, k)
          /\ dead' = updateNodeListIndices(dead \ {k}, k)
          /\ disabled' = updateNodeListIndices(disabled \ {k}, k)
          /\ retiring' = updateNodeListIndices(retiring \ {k}, k)
      BY <1>2 DEF handleMessageRemove, k
    <3>3. /\ dead \in SUBSET (FirstIndices(table) \cup {0})
          /\ disabled \in SUBSET (FirstIndices(table) \cup {0}) /\ 0 \notin disabled
          /\ retiring \in SUBSET (FirstIndices(table) \cup {0}) /\ 0 \notin retiring
      BY <3>1 DEF ListsIndexable
    <3>4. /\ dead' \subseteq FirstIndices(table') \cup {0}
          /\ disabled' \subseteq FirstIndices(table') \cup {0} /\ 0 \notin disabled'
          /\ retiring' \subseteq FirstIndices(table') \cup {0} /\ 0 \notin retiring'
      BY <2>1, <3>2, <3>3, CompactNames
    <3>5. QED
      BY <3>4 DEF ListsIndexable
  <2>4. /\ DOMAIN pref' \subseteq DOMAIN PrefFile /\ pref' \in [DOMAIN pref' -> Nat]
        /\ stale' \in SUBSET DOMAIN PrefFile
    BY <1>2, <2>1 DEF handleMessageRemove, updatePrefIndices, TypeOK, k
  <2>5. FirstIndices(table') \in SUBSET Nat
    BY <2>2, FirstIndicesNat
  <2>6. UNCHANGED <<files, phase>>
    BY <1>2 DEF handleMessageRemove
  <2>7. QED
    BY <2>2, <2>3, <2>4, <2>5, <2>6 DEF TypeOK, ListsIndexable
<1>3. ASSUME NEW n \in Node,
             \/ handleMessageDisable(n) \/ handleMessageEnable(n)
             \/ handleMessageRetire(n) \/ handleMessageUnretire(n)
             \/ checksumFailed(n)
      PROVE  IInv'
  <2>1. nodeIndexFromName(table, n) > 0 /\ UNCHANGED <<table, prefs, files, phase>>
    BY <1>3 DEF handleMessageDisable, handleMessageEnable, handleMessageRetire,
                handleMessageUnretire, checksumFailed
  <2>2. nodeIndexFromName(table, n) \in FirstIndices(table)
    BY <2>1, IndexOrZero DEF TypeOK
  <2>3. ListsIndexable'
    BY <1>3, <2>1, <2>2
    DEF handleMessageDisable, handleMessageEnable, handleMessageRetire,
        handleMessageUnretire, checksumFailed,
        addToList, removeFromList, ListsIndexable
  <2>4. QED
    BY <1>0, <2>1, <2>3 DEF TypeOK, ListsIndexable
<1>3a. ASSUME NEW n \in Node, modificationFailed(n) PROVE IInv'
  <2>1. nodeIndexFromName(table, n) \in FirstIndices(table) \cup {0}
    BY IndexOrZero DEF TypeOK
  <2>2. dead' \subseteq FirstIndices(table) \cup {0} /\ dead' \in SUBSET Nat
    BY <1>0, <1>3a, <2>1 DEF modificationFailed, addToList, ListsIndexable
  <2>3. QED
    BY <1>3a, <2>2 DEF modificationFailed, TypeOK, ListsIndexable
<1>4. ASSUME pingNodes PROVE IInv'
  <2> DEFINE pinged == {n \in Names(table, DOMAIN table) : ~isNodeDisabled(n)}
  <2>1. PICK answering \in SUBSET Node :
           dead' = (dead \ {nodeIndexFromName(table, n) : n \in pinged})
                   \cup {nodeIndexFromName(table, n) : n \in pinged \ answering}
    BY <1>4 DEF pingNodes
  <2>2. \A n \in pinged : nodeIndexFromName(table, n) \in FirstIndices(table)
    BY IndexFound DEF TypeOK
  <2>3. dead' \subseteq FirstIndices(table) \cup {0}
    BY <2>1, <2>2 DEF ListsIndexable
  <2>4. phase' \in Phases /\ UNCHANGED <<table, prefs, disabled, retiring, files>>
    BY <1>4 DEF pingNodes, Phases
  <2>5. QED
    BY <1>0, <2>3, <2>4 DEF TypeOK, ListsIndexable
<1>5. CASE removeLastNode \/ messagesDone \/ pingNodesEmpty \/ workDone
  BY <1>5 DEF removeLastNode, messagesDone, pingNodesEmpty, workDone, lists, Phases, TypeOK, ListsIndexable
<1>6. CASE writeNodeTable
  BY <1>6 DEF writeNodeTable, lists, Phases, TypeOK, ListsIndexable
<1>7. CASE writeDeadList \/ writeDisabledList \/ writeRetiringList
  BY <1>7, NamesType
  DEF writeDeadList, writeDisabledList, writeRetiringList, lists, Phases, TypeOK, ListsIndexable
<1>8. CASE restart
  <2>1. ListsIndexable' /\ table' \in Seq(Node)
        /\ DOMAIN pref' \subseteq DOMAIN PrefFile /\ pref' \in [DOMAIN pref' -> Nat]
    BY <1>8, LoadedInv DEF restart, TypeOK, ListsIndexable
  <2>2. FirstIndices(table') \in SUBSET Nat
    BY <2>1, FirstIndicesNat
  <2>3. QED
    BY <1>8, <2>1, <2>2 DEF restart, Phases, TypeOK, ListsIndexable
<1>9. CASE UNCHANGED vars
  BY <1>9 DEF vars, lists, TypeOK, ListsIndexable
<1>10. QED
  BY <1>1, <1>2, <1>3, <1>3a, <1>4, <1>5, <1>6, <1>7, <1>8, <1>9 DEF Next

(* The types, and: isNodeDead, isNodeDisabled and isNodeRetiring see every *)
(* node that is on their list, and no list holds an index outside the      *)
(* node table, after any removals and additions (node.c, updateNodeListIndices). *)
THEOREM InvariantHolds == Spec => [](TypeOK /\ ListsIndexable)
<1>1. Init => IInv
  BY InitInv
<1>2. IInv /\ [Next]_vars => IInv'
  BY StepInv
<1>3. IInv => TypeOK /\ ListsIndexable
  BY DEF IInv
<1>4. QED
  BY <1>1, <1>2, <1>3, PTL DEF Spec

-----------------------------------------------------------------------------
(* The statuses belong to names *)

LEMMA InitRefines == Init => Status!Init
<1> SUFFICES ASSUME Init PROVE Status!Init
  OBVIOUS
<1>1. TypeOK
  BY InitInv DEF IInv
<1>2. /\ dead = readNodeList(table, files.dead)
      /\ disabled = readNodeList(table, files.disabled)
      /\ retiring = readNodeList(table, files.retiring)
      /\ table = files.table
  BY DEF Init, IsLoaded
<1>3. /\ table \in Seq(Node) /\ files.dead \in SUBSET Node
      /\ files.disabled \in SUBSET Node /\ files.retiring \in SUBSET Node
  BY <1>1 DEF TypeOK
<1>4. /\ Names(table, dead) = files.dead \cap Names(table, DOMAIN table)
      /\ Names(table, disabled) = files.disabled \cap Names(table, DOMAIN table)
      /\ Names(table, retiring) = files.retiring \cap Names(table, DOMAIN table)
  BY <1>2, <1>3, ReadNames
<1>5. QED
  BY <1>2, <1>3, <1>4, NamesType DEF Status!Init, Status!StatusFiles

LEMMA StepRefines == IInv /\ [Next]_vars => [Status!Next]_(Status!vars)
<1> SUFFICES ASSUME IInv, [Next]_vars PROVE [Status!Next]_(Status!vars)
  OBVIOUS
<1>0. /\ table \in Seq(Node)
      /\ dead \in SUBSET (FirstIndices(table) \cup {0})
      /\ disabled \in SUBSET FirstIndices(table)
      /\ retiring \in SUBSET FirstIndices(table)
      /\ files \in [table: Seq(Node), dead: SUBSET Node,
                    disabled: SUBSET Node, retiring: SUBSET Node]
  BY DEF IInv, TypeOK, ListsIndexable
<1>1. ASSUME NEW n \in Node, handleMessageAdd(n) PROVE Status!Admit(n)
  BY <1>0, <1>1, AppendFirst DEF handleMessageAdd, lists, Status!Admit
<1>2. ASSUME NEW n \in Node, handleMessageRemove(n) PROVE Status!Forget(n)
  <2> DEFINE k == nodeIndexFromName(table, n)
  <2>1. k > 0
    BY <1>2 DEF handleMessageRemove
  <2>2. k \in FirstIndices(table) /\ table[k] = n
    BY <1>0, <2>1, IndexOrZero
  <2>3. n \in Names(table, DOMAIN table)
    BY <1>0, <2>1, ListNames
  <2>4. /\ table' = compact(table, k)
        /\ dead' = updateNodeListIndices(dead \ {k}, k)
        /\ disabled' = updateNodeListIndices(disabled \ {k}, k)
        /\ retiring' = updateNodeListIndices(retiring \ {k}, k)
        /\ files' = files
    BY <1>2 DEF handleMessageRemove
  <2> HIDE DEF k
  <2>5. Names(table', DOMAIN table')
           \in {Names(table, DOMAIN table), Names(table, DOMAIN table) \ {n}}
    BY <1>0, <2>2, <2>4, CompactKnown
  <2>6. /\ Names(table', dead') = Names(table, dead) \ {n}
        /\ Names(table', disabled') = Names(table, disabled) \ {n}
        /\ Names(table', retiring') = Names(table, retiring) \ {n}
    BY <1>0, <2>2, <2>4, CompactNames
  <2>7. QED
    BY <2>3, <2>4, <2>5, <2>6 DEF Status!Forget
<1>3. ASSUME NEW n \in Node, handleMessageDisable(n) \/ checksumFailed(n)
      PROVE  Status!Disable(n)
  <2>1. /\ nodeIndexFromName(table, n) > 0
        /\ disabled' = disabled \cup {nodeIndexFromName(table, n)}
        /\ UNCHANGED <<table, dead, retiring, files>>
    BY <1>3 DEF handleMessageDisable, checksumFailed, addToList
  <2>2. /\ n \in Names(table, DOMAIN table)
        /\ Names(table, disabled') = Names(table, disabled) \cup {n}
    BY <1>0, <2>1, ListNames
  <2>3. QED
    BY <2>1, <2>2 DEF Status!Disable
<1>4. ASSUME NEW n \in Node, handleMessageEnable(n)
      PROVE  Status!Enable(n)
  <2>1. /\ nodeIndexFromName(table, n) > 0
        /\ disabled' = disabled \ {nodeIndexFromName(table, n)}
        /\ UNCHANGED <<table, dead, retiring, files>>
    BY <1>4 DEF handleMessageEnable, removeFromList
  <2>2. /\ n \in Names(table, DOMAIN table)
        /\ Names(table, disabled') = Names(table, disabled) \ {n}
    <3>1. n \in Names(table, DOMAIN table)
      BY <1>0, <2>1, ListNames
    <3>2. Names(table, disabled \ {nodeIndexFromName(table, n)})
            = Names(table, disabled) \ {n}
      BY <1>0, <2>1, DelistNames
    <3>3. QED
      BY <2>1, <3>1, <3>2
  <2>3. QED
    BY <2>1, <2>2 DEF Status!Enable
<1>5. ASSUME NEW n \in Node, handleMessageRetire(n)
      PROVE  Status!Retire(n)
  <2>1. /\ nodeIndexFromName(table, n) > 0
        /\ retiring' = retiring \cup {nodeIndexFromName(table, n)}
        /\ UNCHANGED <<table, dead, disabled, files>>
    BY <1>5 DEF handleMessageRetire, addToList
  <2>2. /\ n \in Names(table, DOMAIN table)
        /\ Names(table, retiring') = Names(table, retiring) \cup {n}
    BY <1>0, <2>1, ListNames
  <2>3. QED
    BY <2>1, <2>2 DEF Status!Retire
<1>6. ASSUME NEW n \in Node, handleMessageUnretire(n)
      PROVE  Status!Unretire(n)
  <2>1. /\ nodeIndexFromName(table, n) > 0
        /\ retiring' = retiring \ {nodeIndexFromName(table, n)}
        /\ UNCHANGED <<table, dead, disabled, files>>
    BY <1>6 DEF handleMessageUnretire, removeFromList
  <2>2. /\ n \in Names(table, DOMAIN table)
        /\ Names(table, retiring') = Names(table, retiring) \ {n}
    <3>1. n \in Names(table, DOMAIN table)
      BY <1>0, <2>1, ListNames
    <3>2. Names(table, retiring \ {nodeIndexFromName(table, n)})
            = Names(table, retiring) \ {n}
      BY <1>0, <2>1, DelistNames
    <3>3. QED
      BY <2>1, <3>1, <3>2
  <2>3. QED
    BY <2>1, <2>2 DEF Status!Unretire
<1>7. ASSUME NEW n \in Node, modificationFailed(n)
      PROVE  Status!MarkDead(n) \/ UNCHANGED Status!vars
  <2>1. /\ dead' = dead \cup {nodeIndexFromName(table, n)}
        /\ UNCHANGED <<table, disabled, retiring, files>>
    BY <1>7 DEF modificationFailed, addToList
  <2>2. CASE nodeIndexFromName(table, n) > 0
    <3>1. /\ n \in Names(table, DOMAIN table)
          /\ Names(table, dead') = Names(table, dead) \cup {n}
      BY <1>0, <2>1, <2>2, ListNames
    <3>2. QED
      BY <2>1, <3>1 DEF Status!MarkDead
  <2>3. CASE nodeIndexFromName(table, n) = 0
    <3>1. Names(table, dead') = Names(table, dead)
      BY <1>0, <2>1, <2>3 DEF Names
    <3>2. QED
      BY <2>1, <3>1 DEF Status!vars
  <2>4. QED
    BY <1>0, <2>2, <2>3, IndexOrZero DEF FirstIndices
<1>8. ASSUME pingNodes PROVE \E answering \in SUBSET Node : Status!Ping(answering)
  <2> DEFINE known == Names(table, DOMAIN table)
             idx(n) == nodeIndexFromName(table, n)
             pinged == {n \in known : ~isNodeDisabled(n)}
  <2>1. PICK answering \in SUBSET Node :
           dead' = (dead \ {idx(n) : n \in pinged})
                   \cup {idx(n) : n \in pinged \ answering}
    BY <1>8 DEF pingNodes
  <2>2. UNCHANGED <<table, disabled, retiring, files>>
    BY <1>8 DEF pingNodes
  <2>3. \A n \in known : idx(n) \in FirstIndices(table) /\ table[idx(n)] = n
    BY <1>0, IndexFound
  <2>4. \A i \in FirstIndices(table) : table[i] \in known /\ idx(table[i]) = i
    <3>1. \A i \in FirstIndices(table) : idx(table[i]) = i
      BY <1>0, IndexOfFirst
    <3>2. \A i \in FirstIndices(table) : table[i] \in known
      BY DEF FirstIndices, Names
    <3>3. QED BY <3>1, <3>2
  <2>5. \A s \in SUBSET (FirstIndices(table) \cup {0}) :
           Names(table, s) = {table[i] : i \in s \ {0}}
    BY <1>0, NamesOfListed
  <2>6. pinged = known \ Names(table, disabled)
    <3>1. \A n \in known : n \in Names(table, disabled) <=> idx(n) \in disabled
      <4>0. 0 \notin disabled
        BY <1>0 DEF FirstIndices
      <4> HIDE DEF known, idx, pinged
      <4>1. Names(table, disabled) = {table[i] : i \in disabled}
        BY <1>0, <2>5, <4>0
      <4>2. QED BY <1>0, <2>3, <2>4, <4>1
    <3>2. QED
      BY <3>1 DEF isNodeDisabled, isNodeOnList
  <2>7. 0 \notin FirstIndices(table)
    BY <1>0 DEF FirstIndices
  <2> HIDE DEF known, idx, pinged
  <2>8. Names(table, dead') = (Names(table, dead) \ pinged) \cup (pinged \ answering)
    <3>1. dead' \in SUBSET (FirstIndices(table) \cup {0})
      BY <1>0, <2>1, <2>3, <2>6
    <3>2. Names(table, dead') = {table[i] : i \in dead' \ {0}}
      BY <2>5, <3>1
    <3>3. Names(table, dead) = {table[i] : i \in dead \ {0}}
      BY <1>0, <2>5
    <3>4. pinged \subseteq known
      BY <2>6
    <3>5. {table[i] : i \in dead' \ {0}}
             = ({table[i] : i \in dead \ {0}} \ pinged) \cup (pinged \ answering)
      BY <1>0, <2>1, <2>3, <2>4, <2>7, <3>4
    <3>6. QED BY <3>2, <3>3, <3>5
  <2>9. Names(table, dead) \subseteq known
    BY <1>0, <2>4, <2>5
  <2>10. (Names(table, dead) \ pinged) = Names(table, dead) \cap Names(table, disabled)
    BY <2>6, <2>9
  <2>11. Names(table, dead') = (Names(table, dead) \cap Names(table, disabled))
                 \cup ((known \ Names(table, disabled)) \ answering)
    BY <2>6, <2>8, <2>10
  <2>12. Status!Ping(answering)
    BY <2>2, <2>11 DEF Status!Ping, known
  <2>13. QED
    BY <2>12
<1>9. CASE removeLastNode \/ messagesDone \/ pingNodesEmpty \/ workDone
  BY <1>9 DEF removeLastNode, messagesDone, pingNodesEmpty, workDone, lists, Status!vars
<1>10. CASE writeNodeTable
  BY <1>0, <1>10 DEF writeNodeTable, lists, Status!Save, Status!Next
<1>11. CASE writeDeadList
  BY <1>0, <1>11 DEF writeDeadList, lists, Status!Save, Status!Next
<1>12. CASE writeDisabledList
  BY <1>0, <1>12 DEF writeDisabledList, lists, Status!Save, Status!Next
<1>13. CASE writeRetiringList
  BY <1>0, <1>13 DEF writeRetiringList, lists, Status!Save, Status!Next
<1>14. CASE restart
  BY <1>0, <1>14, ReadNames DEF restart, Status!Load, Status!Next
<1>15. CASE UNCHANGED vars
  BY <1>15 DEF vars, lists, Status!vars
<1>16. QED
  BY <1>1, <1>2, <1>3, <1>4, <1>5, <1>6, <1>7, <1>8, <1>9, <1>10, <1>11, <1>12,
     <1>13, <1>14, <1>15 DEF Next, Status!Next

(* The index lists of node.c, compacted with the table and read back from  *)
(* four files after a crash at any step, implement the statuses by name of *)
(* NodeStatus: no removal ever moves a status to another host.             *)
THEOREM ImplementsNodeStatus == Spec => StatusSpec
<1>1. Init => IInv /\ Status!Init
  BY InitInv, InitRefines
<1>2. IInv /\ [Next]_vars => IInv' /\ [Status!Next]_(Status!vars)
  BY StepInv, StepRefines
<1>3. QED
  BY <1>1, <1>2, PTL DEF Spec, StatusSpec, Status!Spec

-----------------------------------------------------------------------------
(* The preference list *)

(* Entries that are read name the host that they are read for. *)
LEMMA ReadPrefs ==
  ASSUME NEW t \in Seq(Node), NEW k \in DOMAIN readPrefList(t)
  PROVE  readPrefList(t)[k] \in FirstIndices(t) /\ t[readPrefList(t)[k]] = PrefFile[k]
<1>1. nodeIndexFromName(t, PrefFile[k]) > 0 /\ readPrefList(t)[k] = nodeIndexFromName(t, PrefFile[k])
  BY DEF readPrefList
<1>2. QED BY <1>1, IndexOrZero

LEMMA InitPrefs == Init => PreferencesFollow
<1> SUFFICES ASSUME Init, NEW k \in DOMAIN pref
             PROVE  pref[k] \in FirstIndices(table) /\ table[pref[k]] = PrefFile[k]
  BY DEF PreferencesFollow
<1>1. table \in Seq(Node) /\ pref = readPrefList(table)
  BY InitInv DEF Init, IsLoaded, IInv, TypeOK
<1>2. QED BY <1>1, ReadPrefs

LEMMA StepPrefs == IInv /\ PreferencesFollow /\ [Next]_vars => PreferencesFollow'
<1> SUFFICES ASSUME IInv, PreferencesFollow, [Next]_vars PROVE PreferencesFollow'
  OBVIOUS
<1>0. table \in Seq(Node) /\ files.table \in Seq(Node)
  BY DEF IInv, TypeOK
<1>1. ASSUME NEW n \in Node, handleMessageAdd(n) PROVE PreferencesFollow'
  <2>1. table' = Append(table, n) /\ pref' = pref /\ stale' = stale
    BY <1>1 DEF handleMessageAdd, prefs
  <2>2. FirstIndices(table) \subseteq FirstIndices(table')
    BY <1>0, <2>1, AppendFirst
  <2>3. \A i \in FirstIndices(table) : table'[i] = table[i]
    BY <1>0, <2>1 DEF FirstIndices
  <2>4. QED BY <2>1, <2>2, <2>3 DEF PreferencesFollow
<1>2. ASSUME NEW n \in Node, handleMessageRemove(n) PROVE PreferencesFollow'
  <2> DEFINE k == nodeIndexFromName(table, n)
  <2>1. k > 0 /\ table' = compact(table, k) /\ pref' = updatePrefIndices(pref, k)
        /\ stale' = stale \cup {j \in DOMAIN pref : PrefFile[j] = n}
    BY <1>2 DEF handleMessageRemove
  <2>2. k \in FirstIndices(table) /\ table[k] = n
    BY <1>0, <2>1, IndexOrZero
  <2> HIDE DEF k
  <2>3. DOMAIN pref' = DOMAIN pref
    BY <2>1 DEF updatePrefIndices
  <2>4. ASSUME NEW j \in DOMAIN pref \ stale'
        PROVE  pref'[j] \in FirstIndices(table') /\ table'[pref'[j]] = PrefFile[j]
    <3>1. pref[j] \in FirstIndices(table) \ {k} /\ table[pref[j]] = PrefFile[j]
      BY <2>1, <2>2, <2>4 DEF PreferencesFollow
    <3>2. pref'[j] = IF pref[j] > k THEN pref[j] - 1 ELSE pref[j]
      BY <2>1 DEF updatePrefIndices
    <3>3. QED BY <1>0, <2>1, <2>2, <3>1, <3>2, CompactFirst
  <2>5. QED BY <2>3, <2>4 DEF PreferencesFollow
<1>3. CASE restart
  <2>1. table' = files.table /\ pref' = readPrefList(table')
    BY <1>3 DEF restart
  <2>2. QED BY <1>0, <2>1, ReadPrefs DEF PreferencesFollow
<1>4. CASE UNCHANGED <<table, prefs>>
  BY <1>4 DEF PreferencesFollow, prefs
<1>5. QED
  BY <1>1, <1>2, <1>3, <1>4
  DEF Next, vars, handleMessageDisable, handleMessageEnable, handleMessageRetire,
      handleMessageUnretire, modificationFailed, checksumFailed, removeLastNode, messagesDone,
      pingNodes, pingNodesEmpty, workDone, writeNodeTable, writeDeadList, writeDisabledList,
      writeRetiringList

(* removeNode leaves the removed index on the preference list (node.c:1467) *)
(* but shifts the others with the table: as long as a host is not removed   *)
(* itself, its place among the preferences goes on naming it.              *)
THEOREM PreferencesStay == Spec => []PreferencesFollow
<1>1. Init => IInv /\ PreferencesFollow
  BY InitInv, InitPrefs
<1>2. IInv /\ PreferencesFollow /\ [Next]_vars => IInv' /\ PreferencesFollow'
  BY StepInv, StepPrefs
<1>3. QED BY <1>1, <1>2, PTL DEF Spec

-----------------------------------------------------------------------------
(* What the files hold *)

(* To write a list by names and read it again brings back its indices. *)
LEMMA RoundTrip ==
  ASSUME NEW t \in Seq(Node), NEW s \in SUBSET (FirstIndices(t) \cup {0})
  PROVE  readNodeList(t, Names(t, s)) = s \ {0}
<1>1. Names(t, s) = {t[i] : i \in s \ {0}}
  BY NamesOfListed
<1>2. \A i \in s \ {0} : nodeIndexFromName(t, t[i]) = i /\ i > 0
  BY IndexOfFirst DEF FirstIndices
<1>3. readNodeList(t, Names(t, s)) = {nodeIndexFromName(t, n) : n \in Names(t, s)}
  BY <1>1, <1>2 DEF readNodeList
<1>4. QED BY <1>1, <1>2, <1>3

(* What the writes of this iteration have put in the files so far. *)
Written ==
  /\ phase \in {"dead", "disabled", "retiring"} => files.table = table
  /\ phase \in {"disabled", "retiring"} => files.dead = Names(table, dead)
  /\ phase = "retiring" => files.disabled = Names(table, disabled)

LEMMA StepWritten == IInv /\ Written /\ [Next]_vars => Written'
<1> SUFFICES ASSUME IInv, Written, [Next]_vars PROVE Written'
  OBVIOUS
<1>0. files \in [table: Seq(Node), dead: SUBSET Node, disabled: SUBSET Node, retiring: SUBSET Node]
  BY DEF IInv, TypeOK
<1>1. CASE writeNodeTable
  BY <1>0, <1>1 DEF writeNodeTable, Written
<1>2. CASE writeDeadList
  BY <1>0, <1>2 DEF writeDeadList, lists, Written
<1>3. CASE writeDisabledList
  BY <1>0, <1>3 DEF writeDisabledList, lists, Written
<1>4. CASE phase' \notin {"dead", "disabled", "retiring"}
  BY <1>4 DEF Written
<1>5. CASE UNCHANGED vars
  BY <1>5 DEF Written, vars
<1>6. QED
  BY <1>1, <1>2, <1>3, <1>4, <1>5
  DEF Next, handleMessageAdd, handleMessageRemove, handleMessageDisable, handleMessageEnable,
      handleMessageRetire, handleMessageUnretire, modificationFailed, checksumFailed,
      removeLastNode, messagesDone, pingNodes, pingNodesEmpty, workDone, writeRetiringList, restart

LEMMA StepSaves == IInv /\ Written /\ [Next]_vars => [phase = "retiring" => AsSaved']_vars
<1> SUFFICES ASSUME IInv, Written, Next, phase = "retiring" PROVE AsSaved'
  OBVIOUS
<1>0. /\ table \in Seq(Node) /\ files \in [table: Seq(Node), dead: SUBSET Node,
                                         disabled: SUBSET Node, retiring: SUBSET Node]
      /\ dead \in SUBSET (FirstIndices(table) \cup {0})
      /\ disabled \in SUBSET FirstIndices(table) /\ retiring \in SUBSET FirstIndices(table)
      /\ 0 \notin FirstIndices(table)
  BY DEF IInv, TypeOK, ListsIndexable, FirstIndices
<1>1. writeRetiringList \/ restart
  BY DEF Next, handleMessageAdd, handleMessageRemove, handleMessageDisable, handleMessageEnable,
         handleMessageRetire, handleMessageUnretire, modificationFailed, checksumFailed,
         removeLastNode, messagesDone, pingNodes, pingNodesEmpty, workDone, writeNodeTable,
         writeDeadList, writeDisabledList
<1>2. CASE writeRetiringList
  <2>1. /\ UNCHANGED <<table, dead, disabled, retiring>>
        /\ files' = [files EXCEPT !.retiring = Names(table, retiring)]
    BY <1>2 DEF writeRetiringList, lists
  <2>2. /\ files'.table = table /\ files'.dead = Names(table, dead)
        /\ files'.disabled = Names(table, disabled) /\ files'.retiring = Names(table, retiring)
    BY <1>0, <2>1 DEF Written
  <2>3. /\ readNodeList(table, Names(table, dead)) = dead \ {0}
        /\ readNodeList(table, Names(table, disabled)) = disabled
        /\ readNodeList(table, Names(table, retiring)) = retiring
    <3>1. /\ disabled \in SUBSET (FirstIndices(table) \cup {0}) /\ disabled \ {0} = disabled
          /\ retiring \in SUBSET (FirstIndices(table) \cup {0}) /\ retiring \ {0} = retiring
      BY <1>0
    <3>2. QED BY <1>0, <3>1, RoundTrip
  <2>4. QED BY <2>1, <2>2, <2>3 DEF AsSaved
<1>3. CASE restart
  <2>1. /\ table' = files.table /\ files' = files
        /\ dead' = readNodeList(table', files.dead)
        /\ disabled' = readNodeList(table', files.disabled)
        /\ retiring' = readNodeList(table', files.retiring)
    BY <1>3 DEF restart
  <2>2. 0 \notin dead'
    <3>1. files.table \in Seq(Node) /\ files.dead \in SUBSET Node
      BY <1>0
    <3>2. dead' \subseteq FirstIndices(files.table)
      BY <2>1, <3>1, ReadNames
    <3>3. QED BY <3>1, <3>2 DEF FirstIndices
  <2>3. QED BY <2>1, <2>2 DEF AsSaved
<1>4. QED BY <1>1, <1>2, <1>3

(* The four files that writeNodeTable and its like replace one by one at    *)
(* the end of an iteration together hold the state of the node table: a     *)
(* restart from them brings back every index of every list, even when a     *)
(* host is in the table twice (background.c, backgroundProcess).            *)
THEOREM SavedEachIteration == Spec => IterationsSaved
<1>1. Init => IInv /\ Written
  BY InitInv DEF Init, Written
<1>2. IInv /\ Written /\ [Next]_vars => IInv' /\ Written' /\ [phase = "retiring" => AsSaved']_vars
  BY StepInv, StepWritten, StepSaves
<1>3. QED BY <1>1, <1>2, PTL DEF Spec, IterationsSaved
=============================================================================
