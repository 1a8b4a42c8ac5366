------------------------------ MODULE RoomLogs ------------------------------
(***************************************************************************)
(* What the services promise of chats, without ids, counter rows and the   *)
(* statements of a join: a room of an event is founded once, below the     *)
(* event's parent chat; it is one log, however many widgets come at the    *)
(* same time; and who is in it, with a token of its event, speaks at the   *)
(* end of the log, where each message gets the next number.                *)
(***************************************************************************)
EXTENDS Naturals

CONSTANTS
    Clients,
    Rows,   \* the rooms of the events
    Parent, \* the room that is the parent chat of an event
    Claims, \* the event of each client's token
    Asks    \* the room each client wants

VARIABLES
    founded, \* the rooms there are
    inside,  \* the clients that are in their room
    length,  \* the number of messages of each room
    said     \* the messages of each room: number and author

vars == <<founded, inside, length, said>>

Init ==
    /\ founded = {} /\ inside = {}
    /\ length = [r \in Rows |-> 0]
    /\ said = [r \in Rows |-> {}]

Found(r) ==
    /\ r \notin founded
    /\ r.room # Parent => [event |-> r.event, room |-> Parent] \in founded
    /\ founded' = founded \cup {r}
    /\ UNCHANGED <<inside, length, said>>

Enter(c) ==
    /\ c \notin inside /\ Asks[c] \in founded
    /\ inside' = inside \cup {c}
    /\ UNCHANGED <<founded, length, said>>

Leave(c) ==
    /\ c \in inside
    /\ inside' = inside \ {c}
    /\ UNCHANGED <<founded, length, said>>

Say(c) ==
    LET r == Asks[c]
        n == length[r] + 1
    IN  /\ c \in inside /\ r.event = Claims[c]
        /\ length' = [length EXCEPT ![r] = n]
        /\ said' = [said EXCEPT ![r] = @ \cup {[seq |-> n, by |-> c]}]
        /\ UNCHANGED <<founded, inside>>

Next ==
    \/ \E r \in Rows : Found(r)
    \/ \E c \in Clients : Enter(c) \/ Leave(c) \/ Say(c)

Spec == Init /\ [][Next]_vars
=============================================================================
