------------------------------- MODULE MCRooms -------------------------------
EXTENDS Rooms, TLC

CONSTANTS e1, e2, r1, ann, bob, cat, sly, i1, i2, i3, i4

MCEvents == {e1, e2}
MCRooms == {r1}
MCClients == {ann, bob, cat, sly}
MCChatIds == {i1, i2, i3, i4}

\* ann and bob meet in a room of e1; cat asks for the parent chat of e2, and
\* so does sly, whose token is of e1.
MCClaims == [c \in MCClients |-> IF c = cat THEN e2 ELSE e1]
MCAsks == [c \in MCClients |->
    IF c \in {ann, bob} THEN [event |-> e1, room |-> r1]
                        ELSE [event |-> e2, room |-> Parent]]

\* No action tells the ids apart.
IdSymmetry == Permutations(MCChatIds)
=============================================================================
