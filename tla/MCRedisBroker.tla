--------------------------- MODULE MCRedisBroker ---------------------------
(* An instance of RedisBroker for TLC: three polls of one process.         *)
EXTENDS RedisBroker, TLC

CONSTANTS p1, q1, q2, q3

OneProc    == {p1}
ThreePolls == {q1, q2, q3}

HomesOneProc == [q \in ThreePolls |-> p1]
=============================================================================
