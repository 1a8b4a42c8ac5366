-------------------------------- MODULE Rooms --------------------------------
(***************************************************************************)
(* How events get their parent chat, rooms their child chats and chats     *)
(* their sequence counters.  CreateEvent of the admin service makes three  *)
(* inserts without a transaction; the join of the chat service makes four  *)
(* statements, any number of joins at once; a message takes its number     *)
(* from the counter its chat has by then.                                  *)
(***************************************************************************)
EXTENDS Naturals

CONSTANTS
    Events, Rooms, Clients,
    Parent,     \* the room of a widget configured without a roomId
    ChatIds,    \* ids of chats, a bound
    None,
    Claims,     \* the event of each client's token
    Asks,       \* the chat each client wants: an event and a room
    MaxSeq,     \* bound: messages of a chat
    MaxFaults   \* bound: statements that fail

ChatRows == [event : Events, room : Rooms \cup {Parent}]

ASSUME RoomsAssumption ==
    /\ Parent \notin Rooms
    /\ None \notin Nat /\ None \notin ChatRows /\ None \notin ChatIds
    /\ Claims \in [Clients -> Events]
    /\ Asks \in [Clients -> ChatRows]
    /\ MaxSeq \in Nat /\ MaxFaults \in Nat

VARIABLES
    creation,  \* CreateEvent, by event: the step it has reached
    chat,      \* Postgres, chats
    counter,   \* Postgres, chat_seqs
    messages,  \* Postgres, messages: chat, seq and author
    join,      \* by client: the step its join has reached
    at,        \* by client: the chat it was given
    swallowed, \* by client: InitChatSeq failed in its join
    faults

vars == <<creation, chat, counter, messages, join, at, swallowed, faults>>
rows == <<chat, counter, messages>>
clientVars == <<join, at, swallowed>>

IdsOf(r) == {i \in ChatIds : chat[i] = r}
ParentOf(e) == [event |-> e, room |-> Parent]
SeqsOf(i) == {m.seq : m \in {n \in messages : n.chat = i}}

Init ==
    /\ creation = [e \in Events |-> "none"]
    /\ chat = [i \in ChatIds |-> None]
    /\ counter = [i \in ChatIds |-> None]
    /\ messages = {}
    /\ join = [c \in Clients |-> "away"]
    /\ at = [c \in Clients |-> None]
    /\ swallowed = [c \in Clients |-> FALSE]
    /\ faults = 0

Fault == faults < MaxFaults /\ faults' = faults + 1

-----------------------------------------------------------------------------
(* EventService.CreateEvent.                                               *)

CreationAt(e, from, to) ==
    creation[e] = from /\ creation' = [creation EXCEPT ![e] = to]

InsertEvent(e) ==
    /\ CreationAt(e, "none", "parent")
    /\ UNCHANGED <<rows, clientVars, faults>>

CreateParent(e) ==
    /\ CreationAt(e, "parent", "seq")
    /\ \E i \in IdsOf(None) : chat' = [chat EXCEPT ![i] = ParentOf(e)]
    /\ UNCHANGED <<counter, messages, clientVars, faults>>

\* The insert that a row of the chat already there refuses.
InitChatSeq(i) ==
    /\ counter[i] = None
    /\ counter' = [counter EXCEPT ![i] = 0]

InitParentSeq(e) ==
    /\ CreationAt(e, "seq", "created")
    /\ \E i \in IdsOf(ParentOf(e)) : InitChatSeq(i)
    /\ UNCHANGED <<chat, messages, clientVars, faults>>

\* A statement fails: the admin gets a 500 and never sees the secret, but
\* the rows inserted so far stay.  RotateSecret gives the event a new secret,
\* so that its clients come all the same.
CreateEventFails(e) ==
    /\ Fault
    /\ creation[e] \in {"parent", "seq"}
    /\ creation' = [creation EXCEPT ![e] = "failed"]
    /\ UNCHANGED <<rows, clientVars>>

CreateStep ==
    \E e \in Events : \/ InsertEvent(e) \/ CreateParent(e)
                      \/ InitParentSeq(e) \/ CreateEventFails(e)

-----------------------------------------------------------------------------
(* useChat of the widget and the requests it makes.                        *)

JoinAt(c, from, to) == join[c] = from /\ join' = [join EXCEPT ![c] = to]

\* The widget is mounted with a token of an event that exists.  JoinRoom
\* refuses an event that is not the token's; ListChats asks for no token.
Mount(c) ==
    /\ creation[Claims[c]] # "none"
    /\ \/ Asks[c].room = Parent /\ JoinAt(c, "away", "list")
       \/ /\ Asks[c].room # Parent
          /\ Asks[c].event = Claims[c]
          /\ JoinAt(c, "away", "parent")
       \/ /\ Asks[c].room # Parent
          /\ Asks[c].event # Claims[c]
          /\ JoinAt(c, "away", "failed")
    /\ UNCHANGED <<creation, rows, at, swallowed, faults>>

\* GetParentByEventID, for ListChats, which then reads the children.
ListChats(c) ==
    /\ \/ \E i \in IdsOf(ParentOf(Asks[c].event)) :
            /\ JoinAt(c, "list", "open")
            /\ at' = [at EXCEPT ![c] = i]
       \/ /\ IdsOf(ParentOf(Asks[c].event)) = {}
          /\ JoinAt(c, "list", "failed")
          /\ UNCHANGED at
    /\ UNCHANGED <<creation, rows, swallowed, faults>>

\* The same, for GetOrCreateChildChat.
GetParent(c) ==
    /\ IF IdsOf(ParentOf(Asks[c].event)) # {} THEN JoinAt(c, "parent", "upsert")
                                              ELSE JoinAt(c, "parent", "failed")
    /\ UNCHANGED <<creation, rows, at, swallowed, faults>>

\* Mutant of Upsert: a chat that is there is returned at once.
UpsertOrReturn(c) ==
    /\ \/ \E i \in IdsOf(Asks[c]) :
            /\ JoinAt(c, "upsert", "open")
            /\ at' = [at EXCEPT ![c] = i]
            /\ UNCHANGED chat
       \/ /\ IdsOf(Asks[c]) = {}
          /\ JoinAt(c, "upsert", "select")
          /\ \E i \in IdsOf(None) : chat' = [chat EXCEPT ![i] = Asks[c]]
          /\ UNCHANGED at
    /\ UNCHANGED <<creation, counter, messages, swallowed, faults>>

\* Mutant of Upsert: the insert without ON CONFLICT and its index.
InsertAlways(c) ==
    /\ JoinAt(c, "upsert", "select")
    /\ \E i \in IdsOf(None) : chat' = [chat EXCEPT ![i] = Asks[c]]
    /\ UNCHANGED <<creation, counter, messages, at, swallowed, faults>>

\* INSERT .. ON CONFLICT (event_id, external_room_id) DO UPDATE.
Upsert(c) ==
    /\ JoinAt(c, "upsert", "select")
    /\ \/ IdsOf(Asks[c]) # {} /\ UNCHANGED chat
       \/ /\ IdsOf(Asks[c]) = {}
          /\ \E i \in IdsOf(None) : chat' = [chat EXCEPT ![i] = Asks[c]]
    /\ UNCHANGED <<creation, counter, messages, at, swallowed, faults>>

Select(c) ==
    /\ JoinAt(c, "select", "seq")
    /\ \E i \in IdsOf(Asks[c]) : at' = [at EXCEPT ![c] = i]
    /\ UNCHANGED <<creation, rows, swallowed, faults>>

\* Mutant of InitSeq: the insert made idempotent the wrong way,
\* ON CONFLICT DO UPDATE SET last_seq = 0.
ResetSeq(c) ==
    /\ JoinAt(c, "seq", "open")
    /\ counter' = [counter EXCEPT ![at[c]] = 0]
    /\ UNCHANGED <<creation, chat, messages, at, swallowed, faults>>

\* The duplicate key that another join, or an earlier one, causes is ignored.
InitSeq(c) ==
    /\ JoinAt(c, "seq", "open")
    /\ \/ InitChatSeq(at[c])
       \/ counter[at[c]] # None /\ UNCHANGED counter
    /\ UNCHANGED <<creation, chat, messages, at, swallowed, faults>>

\* Any other error of InitChatSeq is ignored too.
InitSeqFails(c) ==
    /\ Fault
    /\ JoinAt(c, "seq", "open")
    /\ swallowed' = [swallowed EXCEPT ![c] = TRUE]
    /\ UNCHANGED <<creation, rows, at>>

\* One of the statements before it fails: 404 or 500, an error in the widget.
JoinFails(c) ==
    /\ Fault
    /\ join[c] \in {"list", "parent", "upsert", "select"}
    /\ join' = [join EXCEPT ![c] = "failed"]
    /\ UNCHANGED <<creation, rows, at, swallowed>>

Leave(c) ==
    /\ join[c] \in {"open", "failed"}
    /\ join' = [join EXCEPT ![c] = "away"]
    /\ at' = [at EXCEPT ![c] = None]
    /\ swallowed' = [swallowed EXCEPT ![c] = FALSE]
    /\ UNCHANGED <<creation, rows, faults>>

\* Mutant of Owns: EventOwnership missing from the route.
OwnsAny(c) == at[c] # None

\* EventOwnership: the chat is of the token's event.
Owns(c) == at[c] # None /\ chat[at[c]].event = Claims[c]

\* The statement that takes a number and inserts; without a row in chat_seqs
\* it inserts nothing and the sender gets an error.
Send(c) ==
    /\ join[c] = "open" /\ Owns(c)
    /\ counter[at[c]] # None /\ counter[at[c]] < MaxSeq
    /\ counter' = [counter EXCEPT ![at[c]] = @ + 1]
    /\ messages' = messages \cup
         {[chat |-> at[c], seq |-> counter[at[c]] + 1, by |-> c]}
    /\ UNCHANGED <<creation, chat, clientVars, faults>>

JoinStep ==
    \E c \in Clients : \/ Mount(c) \/ ListChats(c)
                       \/ GetParent(c) \/ Upsert(c) \/ Select(c)
                       \/ InitSeq(c) \/ InitSeqFails(c) \/ JoinFails(c)
                       \/ Leave(c) \/ Send(c)

Next == CreateStep \/ JoinStep

Spec == Init /\ [][Next]_vars

-----------------------------------------------------------------------------
\* Every variable has its type.
TypeOK ==
    /\ creation \in [Events -> {"none", "parent", "seq", "created", "failed"}]
    /\ chat \in [ChatIds -> ChatRows \cup {None}]
    /\ counter \in [ChatIds -> Nat \cup {None}]
    /\ messages \subseteq [chat : ChatIds, seq : Nat, by : Clients]
    /\ join \in [Clients -> {"away", "list", "parent", "upsert", "select",
                             "seq", "open", "failed"}]
    /\ at \in [Clients -> ChatIds \cup {None}]
    /\ swallowed \in [Clients -> BOOLEAN]
    /\ faults \in Nat

\* Two widgets that open the same room of the same event at the same time
\* talk in the same chat: the upsert and the select of several joins mix, and
\* only the partial unique index keeps the room one (GetOrCreateChild).
SameRoomSameChat ==
    \A c, d \in Clients :
        join[c] = "open" /\ join[d] = "open" /\ Asks[c] = Asks[d] => at[c] = at[d]

\* The numbers of a chat's messages are 1 to the counter, whatever joins,
\* and with them InitChatSeq, came in between: polling by seq, paging by seq
\* and last_seq all rest on it.
SeqsAreDense ==
    \A i \in ChatIds : SeqsOf(i) = IF counter[i] = None THEN {} ELSE 1..counter[i]

\* A widget that has opened its chat can send: the chat has its counter even
\* when another join inserted the chat and has not made the counter yet.
\* The exceptions are the two places where an error goes unnoticed: an
\* InitChatSeq of the same join, and a CreateEvent that is not complete.
OpenCanSend ==
    \A c \in Clients :
        join[c] = "open" /\ ~swallowed[c]
                /\ (Asks[c].room = Parent => creation[Asks[c].event] = "created")
            => counter[at[c]] # None

\* Nobody writes into an event other than that of his token, though
\* ListChats hands out the chats of any event.
EventIsolation ==
    \A m \in messages : chat[m.chat] # None /\ chat[m.chat].event = Claims[m.by]

-----------------------------------------------------------------------------
\* The number of the last message of a room, if there is one.
LastOf(r) ==
    LET counted == {i \in IdsOf(r) : counter[i] # None}
    IN  IF counted = {} THEN 0 ELSE counter[CHOOSE i \in counted : TRUE]

SaidIn(r) ==
    {[seq |-> m.seq, by |-> m.by] : m \in {n \in messages : chat[n.chat] = r}}

Logs == INSTANCE RoomLogs WITH
    Rows    <- ChatRows,
    founded <- {r \in ChatRows : IdsOf(r) # {}},
    inside  <- {c \in Clients : join[c] = "open"},
    length  <- [r \in ChatRows |-> LastOf(r)],
    said    <- [r \in ChatRows |-> SaidIn(r)]

\* The rows, the counters and the joins of several statements come to the
\* same as rooms that are founded at once, entered at once and spoken in at
\* the end of one log each, by nobody from another event.
RefinesRoomLogs == Logs!Spec
=============================================================================
