------------------------------ MODULE Placement ------------------------------
(***************************************************************************)
(* Where copies are, may go and may go from: the functions of node.c,      *)
(* background.c and replica.c that read the node lists and the locations   *)
(* of a file and change nothing.                                           *)
(*                                                                         *)
(* s is the status of the nodes by name, [dead, disabled, retiring], and   *)
(* locs the set of nodes that the replica catalogue maps a file to.        *)
(***************************************************************************)
EXTENDS Naturals, FiniteSets

CONSTANTS Node,             \* host names
          Site,
          siteOf,           \* getNodeSite: the site of every node
          copiesRequired    \* copiesRequired_, from the configuration

ASSUME NodeAssumption == IsFiniteSet(Node)
ASSUME siteOfAssumption == siteOf \in [Node -> Site]
ASSUME copiesRequiredAssumption == copiesRequired \in Nat

Statuses == [dead: SUBSET Node, disabled: SUBSET Node, retiring: SUBSET Node]

(* Mutant: every unusable node of the grid is subtracted. *)
numCopiesLessUnusable(s, locs) == Cardinality(locs) - Cardinality(s.dead \cup s.retiring)

getNumCopies(s, locs) == Cardinality(locs \ (s.dead \cup s.retiring))
getNumCopiesRetiring(s, locs) == Cardinality(locs \ s.dead)

(* getFirstFileLocation and getNextFileLocation. *)
fileLocations(s, locs) == locs \ (s.dead \cup s.disabled)

isActive(s, n) == n \notin s.dead \cup s.disabled \cup s.retiring

sitesOf(ns) == {siteOf[n] : n \in ns}

(* rc is the file's replcount attribute, a string, "" if it has none.  The *)
(* test reads !strcmp(rc, "(null)"), and atoi("(null)") is 0.              *)
getFileReplicaCount(table, rc) ==
    LET count == IF rc = "(null)" THEN 0 ELSE copiesRequired
    IN  IF count > Cardinality(table) THEN Cardinality(table) ELSE count

(* getSuitableNodeForMirror returns one of these, the one with most free   *)
(* space, if any has enough.                                               *)
mirrorNodes(s, table, locs) ==
    {n \in table : /\ isActive(s, n)
                   /\ siteOf[n] \notin sitesOf(fileLocations(s, locs) \cap table)}

(* buildSiteLists: fileSites_, and copiesAtSites_ of the node's own site. *)
listedCopies(s, table, locs) ==
    {n \in fileLocations(s, locs) \cap table : isActive(s, n)}
fileSites(s, table, locs) == sitesOf(listedCopies(s, table, locs))
copiesAtSite(s, table, locs, site) ==
    Cardinality({n \in listedCopies(s, table, locs) : siteOf[n] = site})

(* Mutant: a site may lose its last copy when exactly enough sites remain. *)
deletesLastSite(s, table, rc, locs, n) ==
    /\ isActive(s, n)
    /\ \/ Cardinality(fileSites(s, table, locs)) >= getFileReplicaCount(table, rc)
       \/ copiesAtSite(s, table, locs, siteOf[n]) > 1

canSafelyDelete(s, table, rc, locs, n) ==
    /\ isActive(s, n)
    /\ \/ Cardinality(fileSites(s, table, locs)) > getFileReplicaCount(table, rc)
       \/ copiesAtSite(s, table, locs, siteOf[n]) > 1
=============================================================================
