----------------------------- MODULE MCRepQueue ------------------------------
(* RepQueue on small grids in which every node is a site of its own, and   *)
(* on one in which two nodes share a site.                                 *)
EXTENDS RepQueue

CONSTANTS n1, n2, n3, f1, f2, h1, h2, t1, t2, t3

SharedSite == [n \in Node |-> IF n = n3 THEN n3 ELSE n1]
OwnSites == [n \in Node |-> n]
Symmetry == Permutations(Node) \cup Permutations(File)
            \cup Permutations(Handle) \cup Permutations(Temp)
SiteSymmetry == Permutations({n1, n2})
                \cup Permutations(Handle) \cup Permutations(Temp)
=============================================================================
