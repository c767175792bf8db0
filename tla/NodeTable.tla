----------------------------- MODULE NodeTable ------------------------------
(***************************************************************************)
(* The node table of the control thread (node.c) and the operations that   *)
(* change it: the administrator's messages (background-msg.c), the pings   *)
(* and the end of each iteration (background.c), checksum failures         *)
(* (verify.c) and failed modifications (background-modify.c).              *)
(*                                                                         *)
(* gridNodes_ is an array; the dead, disabled, retiring and preference     *)
(* lists hold indices into it.  TLA+ sequences start at 1, so the C index  *)
(* i is i+1 here and nodeIndexFromName's -1 is 0.  addNodeToList adds no   *)
(* index twice and nothing reads the order of the dead, disabled and       *)
(* retiring lists, so these are sets of indices.  The preference list is   *)
(* ordered: each entry is kept at the position that its name has in        *)
(* nodeprefs.conf, and positions whose name is unknown are left out.       *)
(***************************************************************************)
EXTENDS Naturals, Sequences

CONSTANTS Node,         \* host names
          PrefFile,     \* the names in nodeprefs.conf, which nothing rewrites
          MaxTable      \* bound: most entries gridNodes_ is let grow to

ASSUME PrefFileAssumption == PrefFile \in Seq(Node)
ASSUME MaxTableAssumption == MaxTable \in Nat

VARIABLES table,        \* gridNodes_: the names, in order
          pref,         \* prefList_
          stale,        \* history: its entries whose host was removed since it was read
          dead,         \* deadList_
          disabled,     \* disabledList_
          retiring,     \* retiringList_
          files,        \* mainnodelist.conf and the three list files
          phase         \* where the main loop is; "stopped" when it is not

prefs == <<pref, stale>>
vars == <<table, prefs, dead, disabled, retiring, files, phase>>
lists == <<dead, disabled, retiring>>

Phases == {"messages", "ping", "work", "table", "dead", "disabled",
           "retiring", "stopped"}

-----------------------------------------------------------------------------
(* Looking nodes up *)

Names(t, s) == {t[i] : i \in s \cap DOMAIN t}

FirstIndices(t) == {i \in DOMAIN t : \A j \in 1..(i - 1) : t[j] # t[i]}

nodeIndexFromName(t, n) ==
    IF \E i \in FirstIndices(t) : t[i] = n
    THEN CHOOSE i \in FirstIndices(t) : t[i] = n
    ELSE 0

isNodeOnList(nl, n) == nodeIndexFromName(table, n) \in nl
isNodeDisabled(n) == isNodeOnList(disabled, n)

addToList(nl, n) == nl \cup {nodeIndexFromName(table, n)}
removeFromList(nl, n) == nl \ {nodeIndexFromName(table, n)}

(* Mutant: the indices behind the removed node are not shifted. *)
unshiftedIndices(nl, k) == nl

updateNodeListIndices(nl, k) == {IF i > k THEN i - 1 ELSE i : i \in nl}
updatePrefIndices(p, k) ==
    [i \in DOMAIN p |-> IF p[i] > k THEN p[i] - 1 ELSE p[i]]

(* Mutant: the last node is moved into the gap. *)
swapLast(t, k) == [i \in 1..(Len(t) - 1) |-> IF i = k THEN t[Len(t)] ELSE t[i]]

compact(t, k) == [i \in 1..(Len(t) - 1) |-> IF i < k THEN t[i] ELSE t[i + 1]]

(* readNodeList: the names that are not in the table are dropped, and an   *)
(* index is put on the list once.                                          *)
readNodeList(t, names) ==
    {nodeIndexFromName(t, n) : n \in {m \in names : nodeIndexFromName(t, m) > 0}}

readPrefList(t) ==
    [k \in {j \in DOMAIN PrefFile :
               /\ nodeIndexFromName(t, PrefFile[j]) > 0
               /\ \A i \in 1..(j - 1) : PrefFile[i] # PrefFile[j]} |->
         nodeIndexFromName(t, PrefFile[k])]

-----------------------------------------------------------------------------

IsLoaded == /\ table = files.table
            /\ pref = readPrefList(files.table)
            /\ dead = readNodeList(files.table, files.dead)
            /\ disabled = readNodeList(files.table, files.disabled)
            /\ retiring = readNodeList(files.table, files.retiring)

(* An installed grid: a table of distinct hosts and empty status files.    *)
Init == /\ \E t \in UNION {[1..k -> Node] : k \in 1..MaxTable} :
              /\ FirstIndices(t) = DOMAIN t
              /\ files = [table |-> t, dead |-> {}, disabled |-> {}, retiring |-> {}]
        /\ IsLoaded
        /\ stale = {}
        /\ phase = "messages"

(* handleMessageAdd: no check that the name is new. *)
handleMessageAdd(n) ==
    /\ phase = "messages"
    /\ Len(table) < MaxTable
    /\ table' = Append(table, n)
    /\ UNCHANGED <<prefs, lists, files, phase>>

(* handleMessageRemove and removeNode: the name leaves the three status    *)
(* lists but not the preference list; all four have their indices shifted. *)
handleMessageRemove(n) ==
    LET k == nodeIndexFromName(table, n)
    IN  /\ phase = "messages"
        /\ k > 0
        /\ table' = compact(table, k)
        /\ pref' = updatePrefIndices(pref, k)
        /\ stale' = stale \cup {j \in DOMAIN pref : PrefFile[j] = n}
        /\ dead' = updateNodeListIndices(dead \ {k}, k)
        /\ disabled' = updateNodeListIndices(disabled \ {k}, k)
        /\ retiring' = updateNodeListIndices(retiring \ {k}, k)
        /\ UNCHANGED <<files, phase>>

(* removeNode of the only node asks realloc for no memory.  Where the C    *)
(* library answers NULL to that, errorExit reports "Out of memory" and the *)
(* process ends with nothing written; elsewhere handleMessageRemove        *)
(* goes through.                                                           *)
removeLastNode ==
    /\ phase = "messages"
    /\ Len(table) = 1
    /\ phase' = "stopped"
    /\ UNCHANGED <<table, prefs, lists, files>>

handleMessageDisable(n) ==
    /\ phase = "messages"
    /\ nodeIndexFromName(table, n) > 0
    /\ disabled' = addToList(disabled, n)
    /\ UNCHANGED <<table, prefs, dead, retiring, files, phase>>

handleMessageEnable(n) ==
    /\ phase = "messages"
    /\ nodeIndexFromName(table, n) > 0
    /\ disabled' = removeFromList(disabled, n)
    /\ UNCHANGED <<table, prefs, dead, retiring, files, phase>>

handleMessageRetire(n) ==
    /\ phase = "messages"
    /\ nodeIndexFromName(table, n) > 0
    /\ retiring' = addToList(retiring, n)
    /\ UNCHANGED <<table, prefs, dead, disabled, files, phase>>

handleMessageUnretire(n) ==
    /\ phase = "messages"
    /\ nodeIndexFromName(table, n) > 0
    /\ retiring' = removeFromList(retiring, n)
    /\ UNCHANGED <<table, prefs, dead, disabled, files, phase>>

(* processMessages returns when the queue is empty. *)
messagesDone ==
    /\ phase = "messages"
    /\ phase' = "ping"
    /\ UNCHANGED <<table, prefs, lists, files>>

(* pingNodes: a name that answers leaves the dead list, one that does not  *)
(* joins it, a disabled one is not contacted.                              *)
pingNodes ==
    /\ phase = "ping"
    /\ Len(table) > 0
    /\ \E answering \in SUBSET Node :
         LET pinged == {n \in Names(table, DOMAIN table) : ~isNodeDisabled(n)}
         IN  dead' = (dead \ {nodeIndexFromName(table, n) : n \in pinged})
                     \cup {nodeIndexFromName(table, n) : n \in pinged \ answering}
    /\ phase' = "work"
    /\ UNCHANGED <<table, prefs, disabled, retiring, files>>

(* pingNodes finds an empty table: backgroundProcess sets shouldExit_.     *)
pingNodesEmpty ==
    /\ phase = "ping"
    /\ Len(table) = 0
    /\ phase' = "stopped"
    /\ UNCHANGED <<table, prefs, lists, files>>

(* handleNewModification: a host that a modified file could not be copied  *)
(* to goes on the dead list, disabled or not.  It may have left the table  *)
(* since the modification became pending: then the index is -1 (here 0),   *)
(* which names no host and which writing and reading the file drops.       *)
modificationFailed(n) ==
    /\ phase = "work"
    /\ dead' = addToList(dead, n)
    /\ UNCHANGED <<table, prefs, disabled, retiring, files, phase>>

(* runChecksums: a node with a corrupt replica is disabled. *)
checksumFailed(n) ==
    /\ phase = "work"
    /\ nodeIndexFromName(table, n) > 0
    /\ nodeIndexFromName(table, n) \notin dead \cup disabled
    /\ disabled' = addToList(disabled, n)
    /\ UNCHANGED <<table, prefs, dead, retiring, files, phase>>

(* The disk of the control node is full, a signal arrived or the proxy is  *)
(* about to expire: the process returns from main.                         *)
workDone ==
    /\ phase = "work"
    /\ phase' \in {"table", "stopped"}
    /\ UNCHANGED <<table, prefs, lists, files>>

-----------------------------------------------------------------------------
(* The end of an iteration: each file is replaced whole, by a rename, but  *)
(* the four files are replaced one after the other.                        *)

writeNodeTable ==
    /\ phase = "table"
    /\ files' = [files EXCEPT !.table = table]
    /\ phase' = "dead"
    /\ UNCHANGED <<table, prefs, lists>>

(* Mutant: the indices are written, not the names. *)
writeDeadIndices ==
    /\ phase = "dead"
    /\ files' = [files EXCEPT !.dead = dead]
    /\ phase' = "disabled"
    /\ UNCHANGED <<table, prefs, lists>>

writeDeadList ==
    /\ phase = "dead"
    /\ files' = [files EXCEPT !.dead = Names(table, dead)]
    /\ phase' = "disabled"
    /\ UNCHANGED <<table, prefs, lists>>

writeDisabledList ==
    /\ phase = "disabled"
    /\ files' = [files EXCEPT !.disabled = Names(table, disabled)]
    /\ phase' = "retiring"
    /\ UNCHANGED <<table, prefs, lists>>

writeRetiringList ==
    /\ phase = "retiring"
    /\ files' = [files EXCEPT !.retiring = Names(table, retiring)]
    /\ phase' \in {"messages", "stopped"}
    /\ UNCHANGED <<table, prefs, lists>>

(* The process dies between any two steps and is started again:            *)
(* getNodeInfo reads the files.                                            *)
restart ==
    /\ table' = files.table
    /\ pref' = readPrefList(files.table)
    /\ stale' = {}
    /\ dead' = readNodeList(files.table, files.dead)
    /\ disabled' = readNodeList(files.table, files.disabled)
    /\ retiring' = readNodeList(files.table, files.retiring)
    /\ phase' = "messages"
    /\ UNCHANGED files

Next ==
    \/ \E n \in Node : \/ handleMessageAdd(n)
                       \/ handleMessageRemove(n)
                       \/ handleMessageDisable(n)
                       \/ handleMessageEnable(n)
                       \/ handleMessageRetire(n)
                       \/ handleMessageUnretire(n)
                       \/ modificationFailed(n)
                       \/ checksumFailed(n)
    \/ removeLastNode
    \/ messagesDone
    \/ pingNodes
    \/ pingNodesEmpty
    \/ workDone
    \/ writeNodeTable \/ writeDeadList \/ writeDisabledList \/ writeRetiringList
    \/ restart

Spec == Init /\ [][Next]_vars

-----------------------------------------------------------------------------


(* Type invariant of the table, its lists and the four files. *)
TypeOK ==
    /\ table \in Seq(Node)
    /\ DOMAIN pref \subseteq DOMAIN PrefFile
    /\ pref \in [DOMAIN pref -> Nat]
    /\ stale \in SUBSET DOMAIN PrefFile
    /\ dead \in SUBSET Nat
    /\ disabled \in SUBSET Nat
    /\ retiring \in SUBSET Nat
    /\ files \in [table: Seq(Node), dead: SUBSET Node,
                  disabled: SUBSET Node, retiring: SUBSET Node]
    /\ phase \in Phases

(* Every index on a status list is the index that nodeIndexFromName finds  *)
(* for that entry's name: isNodeDead and its like see every listed node,   *)
(* and no list points past the end of gridNodes_ - whatever is removed and *)
(* even when a name was added twice.  Only the dead list may hold, besides,*)
(* the "not found" of a host that was removed (here 0, in the code -1).    *)
ListsIndexable == /\ dead \subseteq FirstIndices(table) \cup {0}
                  /\ disabled \subseteq FirstIndices(table)
                  /\ retiring \subseteq FirstIndices(table)

(* The preference list keeps the entry of a host that was removed, which    *)
(* then names any host or none; its other entries go on naming the hosts   *)
(* they were read for, however many others are removed.                    *)
PreferencesFollow ==
    \A k \in DOMAIN pref \ stale :
        pref[k] \in FirstIndices(table) /\ table[pref[k]] = PrefFile[k]

(* The four files together hold what the lists hold: to read them brings   *)
(* every list back, less the "not found" of a removed host.                *)
AsSaved == /\ table = files.table
           /\ dead \ {0} = readNodeList(table, files.dead)
           /\ disabled = readNodeList(table, files.disabled)
           /\ retiring = readNodeList(table, files.retiring)

(* So it is at the end of each iteration: a death before the next writes    *)
(* costs what has changed since, and nothing else.                         *)
IterationsSaved == [][phase = "retiring" => AsSaved']_vars

(* The statuses belong to names: every step of the index lists is a step   *)
(* of NodeStatus on the names they point at.                               *)
Status == INSTANCE NodeStatus WITH
              known <- Names(table, DOMAIN table),
              dead <- Names(table, dead),
              disabled <- Names(table, disabled),
              retiring <- Names(table, retiring),
              saved <- [table |-> Names(files.table, DOMAIN files.table),
                        dead |-> files.dead,
                        disabled |-> files.disabled,
                        retiring |-> files.retiring]

StatusSpec == Status!Spec
=============================================================================
