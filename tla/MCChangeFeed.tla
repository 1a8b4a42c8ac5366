---------------------------- MODULE MCChangeFeed ----------------------------
(* Instances of ChangeFeed for TLC: everything happens, or only what the    *)
(* code recovers from by itself.                                           *)
EXTENDS ChangeFeed, TLC

AllEvents == {"send", "older", "network", "fault", "expiry"}
Failing   == {"fault", "send"}

Symmetry == Permutations(Writers) \cup Permutations(Clients)
=============================================================================
