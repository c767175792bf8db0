---------------------------- MODULE MCNodeTable -----------------------------
(* NodeTable on two hosts, with room for a duplicate entry: tables such as *)
(* <<a, b, a>>, in which a removal shifts indices under every list.  There *)
(* are no preferences: with none, nothing tells the hosts apart, and states *)
(* are checked up to their exchange.  What PreferencesFollow says of the    *)
(* preference list is proved for every file of preferences.                *)
EXTENDS NodeTable, TLC

CONSTANTS a, b

NoPrefs == <<>>

Exchange == Permutations({a, b})
=============================================================================
