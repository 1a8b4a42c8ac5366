----------------------------- MODULE RoomsProofs -----------------------------
(***************************************************************************)
(* The properties of Rooms hold for any numbers of events, rooms, clients  *)
(* and messages.  OpenCanSend is not inductive: that the counter is there  *)
(* when a join ends rests on the chat it was given being the one chat of   *)
(* its room, and for the parent on the order of CreateEvent's inserts.     *)
(* From the same invariant, every step is one of RoomLogs or none.         *)
(***************************************************************************)
EXTENDS Rooms, TLAPS

\* A room, or an event's parent, has one chat, and the parent is not there
\* before its insert.
Unique ==
    /\ \A i, j \in ChatIds : chat[i] = chat[j] /\ chat[i] # None => i = j
    /\ \A e \in Events : creation[e] \in {"none", "parent"} => IdsOf(ParentOf(e)) = {}

\* A client that was given a chat was given the one it asked for.
Given ==
    \A c \in Clients :
        /\ at[c] # None => chat[at[c]] = Asks[c]
        /\ join[c] \in {"seq", "open"} => at[c] # None
        /\ join[c] \in {"parent", "upsert", "select", "seq"} => Asks[c].room # Parent
        /\ join[c] = "list" => Asks[c].room = Parent

\* The parent of an event whose creation went through has its counter.
ParentCounts ==
    \A e \in Events : creation[e] = "created" =>
        \A i \in IdsOf(ParentOf(e)) : counter[i] # None

\* A room's chat has its counter once a join of it has ended without error.
JoinCounts ==
    \A c \in Clients :
        join[c] = "open" /\ ~swallowed[c] /\ Asks[c].room # Parent => counter[at[c]] # None

IInv == Unique /\ Given /\ ParentCounts /\ JoinCounts /\ SeqsAreDense /\ EventIsolation

-----------------------------------------------------------------------------
\* The initial values have their types.
LEMMA TypeInit == Init => TypeOK
  BY DEF Init, TypeOK

\* A step of CreateEvent keeps the types.
LEMMA TypeCreate == ASSUME TypeOK, CreateStep PROVE TypeOK'
  <1>1. PICK e \in Events : \/ InsertEvent(e) \/ CreateParent(e)
                            \/ InitParentSeq(e) \/ CreateEventFails(e)
    BY DEF CreateStep
  <1>2. CASE InsertEvent(e)
    BY <1>2 DEF TypeOK, InsertEvent, CreationAt, rows, clientVars
  <1>3. CASE CreateParent(e)
    <2>1. ParentOf(e) \in ChatRows
      BY DEF ParentOf, ChatRows
    <2> QED
      BY <1>3, <2>1 DEF TypeOK, CreateParent, CreationAt, clientVars
  <1>4. CASE InitParentSeq(e)
    BY <1>4 DEF TypeOK, InitParentSeq, InitChatSeq, CreationAt, clientVars, IdsOf
  <1>5. CASE CreateEventFails(e)
    BY <1>5 DEF TypeOK, CreateEventFails, Fault, rows, clientVars
  <1> QED
    BY <1>1, <1>2, <1>3, <1>4, <1>5

\* A step of a client keeps the types.
LEMMA TypeJoin == ASSUME TypeOK, JoinStep PROVE TypeOK'
  <1> USE RoomsAssumption
  <1>1. PICK c \in Clients :
          \/ Mount(c) \/ ListChats(c) \/ GetParent(c) \/ Upsert(c) \/ Select(c)
          \/ InitSeq(c) \/ InitSeqFails(c) \/ JoinFails(c) \/ Leave(c) \/ Send(c)
    BY DEF JoinStep
  <1>2. CASE Mount(c)
    BY <1>2 DEF TypeOK, Mount, JoinAt, rows
  <1>3. CASE ListChats(c)
    BY <1>3 DEF TypeOK, ListChats, JoinAt, rows, IdsOf
  <1>4. CASE GetParent(c)
    BY <1>4 DEF TypeOK, GetParent, JoinAt, rows
  <1>5. CASE Upsert(c)
    BY <1>5 DEF TypeOK, Upsert, JoinAt, IdsOf
  <1>6. CASE Select(c)
    BY <1>6 DEF TypeOK, Select, JoinAt, rows, IdsOf
  <1>7. CASE InitSeq(c)
    BY <1>7 DEF TypeOK, InitSeq, InitChatSeq, JoinAt
  <1>8. CASE InitSeqFails(c)
    BY <1>8 DEF TypeOK, InitSeqFails, Fault, JoinAt, rows
  <1>9. CASE JoinFails(c)
    BY <1>9 DEF TypeOK, JoinFails, Fault, rows
  <1>10. CASE Leave(c)
    BY <1>10 DEF TypeOK, Leave, rows
  <1>11. CASE Send(c)
    <2>1. at[c] \in ChatIds /\ counter[at[c]] + 1 \in Nat
      BY <1>11 DEF TypeOK, Send, Owns
    <2> QED
      BY <1>11, <2>1 DEF TypeOK, Send, clientVars
  <1> QED
    BY <1>1, <1>2, <1>3, <1>4, <1>5, <1>6, <1>7, <1>8, <1>9, <1>10, <1>11

\* TypeOK is an invariant: every row, counter and step is one the code knows.
THEOREM RoomTypes == Spec => []TypeOK
  <1>1. TypeOK /\ [Next]_vars => TypeOK'
    <2>1. CASE UNCHANGED vars
      BY <2>1 DEF vars, TypeOK
    <2> QED
      BY <2>1, TypeCreate, TypeJoin DEF Next
  <1> QED
    BY TypeInit, <1>1, PTL DEF Spec

-----------------------------------------------------------------------------
\* An empty database satisfies the invariant.
LEMMA IInvInit == Init => IInv
  <1> SUFFICES ASSUME Init PROVE IInv
    OBVIOUS
  <1> USE RoomsAssumption DEF Init
  <1>1. \A e \in Events : ParentOf(e) \in ChatRows
    BY DEF ParentOf, ChatRows
  <1>2. Unique
    BY <1>1 DEF Unique, IdsOf
  <1>3. Given /\ ParentCounts /\ JoinCounts
    BY DEF Given, ParentCounts, JoinCounts
  <1>4. SeqsAreDense /\ EventIsolation
    BY DEF SeqsAreDense, EventIsolation, SeqsOf
  <1> QED
    BY <1>2, <1>3, <1>4 DEF IInv

\* A chat inserted for a row that has none leaves the invariant as it was,
\* for a room; for a parent, when the event's creation has got that far.
LEMMA NewChat ==
    ASSUME TypeOK, IInv, NEW r \in ChatRows, NEW i \in ChatIds,
           chat[i] = None, IdsOf(r) = {},
           chat' = [chat EXCEPT ![i] = r]
    PROVE  /\ \A j, k \in ChatIds : chat'[j] = chat'[k] /\ chat'[j] # None => j = k
           /\ \A j \in ChatIds : chat[j] # None => chat'[j] = chat[j]
           /\ \A j \in ChatIds : chat'[j] # chat[j] => j = i /\ chat'[j] = r
  BY RoomsAssumption DEF IInv, Unique, TypeOK, IdsOf

\* A chat gets its counter: nothing is lost by it.
LEMMA NewCounter ==
    ASSUME TypeOK, IInv, NEW i \in ChatIds, InitChatSeq(i), UNCHANGED messages
    PROVE  /\ SeqsAreDense'
           /\ \A j \in ChatIds : counter[j] # None => counter'[j] # None
           /\ counter'[i] # None
  <1> USE RoomsAssumption DEF InitChatSeq, TypeOK
  <1>1. SeqsOf(i) = {} /\ counter'[i] = 0 /\ 1..0 = {}
    BY DEF IInv, SeqsAreDense
  <1>2. \A j \in ChatIds : SeqsOf(j)' = SeqsOf(j)
    BY DEF SeqsOf
  <1>3. SeqsAreDense'
    <2> SUFFICES ASSUME NEW j \in ChatIds
                 PROVE  SeqsOf(j)' = IF counter'[j] = None THEN {} ELSE 1..counter'[j]
      BY DEF SeqsAreDense
    <2>1. CASE j = i
      BY <2>1, <1>1, <1>2
    <2>2. CASE j # i
      BY <2>2, <1>2 DEF IInv, SeqsAreDense
    <2> QED
      BY <2>1, <2>2
  <1> QED
    BY <1>1, <1>3

\* A step of CreateEvent keeps the invariant.
LEMMA IInvCreate == ASSUME TypeOK, IInv, CreateStep PROVE IInv'
  <1> USE RoomsAssumption
  <1>1. PICK e \in Events : \/ InsertEvent(e) \/ CreateParent(e)
                            \/ InitParentSeq(e) \/ CreateEventFails(e)
    BY DEF CreateStep
  <1>p. \A f \in Events : ParentOf(f) \in ChatRows /\ (ParentOf(f) = ParentOf(e) => f = e)
    BY DEF ParentOf, ChatRows
  <1>2. CASE InsertEvent(e) \/ CreateEventFails(e)
    <2>1. /\ UNCHANGED <<rows, clientVars>>
          /\ \A f \in Events :
               /\ creation'[f] \in {"none", "parent"} => creation[f] \in {"none", "parent"}
               /\ creation'[f] = "created" => creation[f] = "created"
      BY <1>2 DEF InsertEvent, CreateEventFails, CreationAt, TypeOK
    <2>2. UNCHANGED <<chat, counter, messages, join, at, swallowed>>
      BY <2>1 DEF rows, clientVars
    <2>3. Unique' /\ ParentCounts'
      BY <2>1, <2>2 DEF IInv, Unique, ParentCounts, IdsOf, ParentOf
    <2>4. Given' /\ JoinCounts'
      BY <2>2 DEF IInv, Given, JoinCounts
    <2>5. SeqsAreDense' /\ EventIsolation'
      BY <2>2 DEF IInv, SeqsAreDense, EventIsolation, SeqsOf
    <2> QED
      BY <2>3, <2>4, <2>5 DEF IInv
  <1>3. CASE CreateParent(e)
    <2>1. PICK i \in ChatIds : chat[i] = None /\ chat' = [chat EXCEPT ![i] = ParentOf(e)]
      BY <1>3 DEF CreateParent, IdsOf
    <2>2. creation[e] = "parent" /\ creation' = [creation EXCEPT ![e] = "seq"]
          /\ UNCHANGED <<counter, messages, clientVars>>
      BY <1>3 DEF CreateParent, CreationAt
    <2>3. IdsOf(ParentOf(e)) = {}
      BY <2>2 DEF IInv, Unique
    <2>4. /\ \A j, k \in ChatIds : chat'[j] = chat'[k] /\ chat'[j] # None => j = k
          /\ \A j \in ChatIds : chat[j] # None => chat'[j] = chat[j]
          /\ \A j \in ChatIds : chat'[j] # chat[j] => j = i /\ chat'[j] = ParentOf(e)
      BY <2>1, <2>3, <1>p, NewChat
    <2>5. \A f \in Events \ {e} : IdsOf(ParentOf(f))' = IdsOf(ParentOf(f)) /\ creation'[f] = creation[f]
      BY <2>1, <2>2, <2>4, <1>p DEF IdsOf, TypeOK, ParentOf
    <2>6. Unique'
      BY <2>2, <2>4, <2>5 DEF IInv, Unique, TypeOK, ParentOf
    <2>7. ParentCounts'
      BY <2>2, <2>5 DEF IInv, ParentCounts, TypeOK, ParentOf
    <2>8. Given' /\ JoinCounts'
      BY <2>2, <2>4 DEF IInv, Given, JoinCounts, clientVars, TypeOK, ChatRows
    <2>9. SeqsAreDense' /\ EventIsolation'
      BY <2>2, <2>4 DEF IInv, SeqsAreDense, EventIsolation, SeqsOf, TypeOK
    <2> QED
      BY <2>6, <2>7, <2>8, <2>9 DEF IInv
  <1>4. CASE InitParentSeq(e)
    <2>1. PICK i \in IdsOf(ParentOf(e)) : InitChatSeq(i)
      BY <1>4 DEF InitParentSeq
    <2>2. creation' = [creation EXCEPT ![e] = "created"] /\ UNCHANGED <<chat, messages, clientVars>>
          /\ creation[e] = "seq"
      BY <1>4 DEF InitParentSeq, CreationAt
    <2>3. i \in ChatIds /\ chat[i] = ParentOf(e)
      BY <2>1 DEF IdsOf
    <2>4. /\ SeqsAreDense'
          /\ \A j \in ChatIds : counter[j] # None => counter'[j] # None
          /\ counter'[i] # None
      BY <2>1, <2>2, <2>3, NewCounter
    <2>5. IdsOf(ParentOf(e)) = {i}
      BY <2>3, <1>p DEF IInv, Unique, IdsOf
    <2>6. Unique'
      BY <2>2 DEF IInv, Unique, TypeOK, IdsOf, ParentOf
    <2>7. ParentCounts'
      <3> SUFFICES ASSUME NEW f \in Events, creation'[f] = "created", NEW j \in IdsOf(ParentOf(f))
                   PROVE  counter'[j] # None
        BY <2>2 DEF ParentCounts, IdsOf, ParentOf
      <3>1. CASE f = e
        BY <3>1, <2>4, <2>5
      <3>2. CASE f # e
        BY <3>2, <2>2, <2>4 DEF IInv, ParentCounts, TypeOK, IdsOf
      <3> QED
        BY <3>1, <3>2
    <2>8. Given' /\ JoinCounts'
      BY <2>2, <2>4 DEF IInv, Given, JoinCounts, clientVars, TypeOK
    <2>9. EventIsolation'
      BY <2>2 DEF IInv, EventIsolation
    <2> QED
      BY <2>4, <2>6, <2>7, <2>8, <2>9 DEF IInv
  <1> QED
    BY <1>1, <1>2, <1>3, <1>4

\* A step of a client keeps the invariant; most of them leave the tables alone.
LEMMA IInvJoin == ASSUME TypeOK, IInv, JoinStep PROVE IInv'
  <1> USE RoomsAssumption
  <1>1. PICK c \in Clients :
          \/ Mount(c) \/ ListChats(c) \/ GetParent(c) \/ Upsert(c) \/ Select(c)
          \/ InitSeq(c) \/ InitSeqFails(c) \/ JoinFails(c) \/ Leave(c) \/ Send(c)
    BY DEF JoinStep
  <1>r. Asks[c] \in ChatRows /\ Asks[c].room \in Rooms \cup {Parent}
    BY DEF ChatRows
  <1>2. ASSUME UNCHANGED <<creation, rows>>, Given', JoinCounts' PROVE IInv'
    <2>1. Unique' /\ ParentCounts'
      BY <1>2 DEF IInv, Unique, ParentCounts, IdsOf, ParentOf, rows
    <2>2. SeqsAreDense' /\ EventIsolation'
      BY <1>2 DEF IInv, SeqsAreDense, EventIsolation, SeqsOf, rows
    <2> QED
      BY <1>2, <2>1, <2>2 DEF IInv
  <1>3. CASE Mount(c) \/ GetParent(c) \/ JoinFails(c) \/ Leave(c) \/ InitSeqFails(c)
    <2>1. Given' /\ JoinCounts'
      BY <1>3 DEF IInv, Given, JoinCounts, Mount, GetParent, JoinFails, Leave, InitSeqFails,
                  JoinAt, rows, TypeOK
    <2> QED
      BY <1>2, <1>3, <2>1 DEF Mount, GetParent, JoinFails, Leave, InitSeqFails
  <1>4. CASE ListChats(c) \/ Select(c)
    <2>1. Given' /\ JoinCounts'
      <3>1. ASSUME NEW i \in ChatIds, chat[i] = Asks[c], at' = [at EXCEPT ![c] = i],
                   JoinAt(c, "list", "open") \/ JoinAt(c, "select", "seq")
            PROVE  Given' /\ JoinCounts'
        BY <1>4, <3>1 DEF IInv, Given, JoinCounts, JoinAt, ListChats, Select, rows, TypeOK
      <3>2. CASE ListChats(c) /\ join'[c] = "open"
        <4>1. Asks[c] = ParentOf(Asks[c].event)
          BY <3>2, <1>r DEF ListChats, JoinAt, IInv, Given, ParentOf, ChatRows, TypeOK
        <4> QED
          BY <3>1, <3>2, <4>1 DEF ListChats, JoinAt, IdsOf, TypeOK
      <3>3. CASE ListChats(c) /\ join'[c] # "open"
        BY <3>3 DEF IInv, Given, JoinCounts, JoinAt, ListChats, rows, TypeOK
      <3>4. CASE Select(c)
        BY <3>1, <3>4 DEF Select, IdsOf
      <3> QED
        BY <1>4, <3>2, <3>3, <3>4
    <2> QED
      BY <1>2, <1>4, <2>1 DEF ListChats, Select
  <1>5. CASE Upsert(c) /\ UNCHANGED chat
    <2>1. Given' /\ JoinCounts'
      BY <1>5 DEF IInv, Given, JoinCounts, Upsert, JoinAt, TypeOK
    <2> QED
      BY <1>2, <1>5, <2>1 DEF Upsert, rows
  <1>6. CASE Upsert(c) /\ ~UNCHANGED chat
    <2>1. /\ IdsOf(Asks[c]) = {} /\ Asks[c].room # Parent
          /\ UNCHANGED <<creation, counter, messages, at, swallowed>>
          /\ JoinAt(c, "upsert", "select")
      BY <1>6 DEF Upsert, JoinAt, IInv, Given
    <2>2. PICK i \in ChatIds : chat[i] = None /\ chat' = [chat EXCEPT ![i] = Asks[c]]
      BY <1>6 DEF Upsert, IdsOf
    <2>3. /\ \A j, k \in ChatIds : chat'[j] = chat'[k] /\ chat'[j] # None => j = k
          /\ \A j \in ChatIds : chat[j] # None => chat'[j] = chat[j]
          /\ \A j \in ChatIds : chat'[j] # chat[j] => j = i /\ chat'[j] = Asks[c]
      BY <2>1, <2>2, <1>r, NewChat
    <2>4. \A f \in Events : ParentOf(f) # Asks[c]
      BY <2>1 DEF ParentOf
    <2>5. \A f \in Events : IdsOf(ParentOf(f))' = IdsOf(ParentOf(f))
      <3> SUFFICES ASSUME NEW f \in Events, NEW j \in ChatIds
                   PROVE  chat'[j] = ParentOf(f) <=> chat[j] = ParentOf(f)
        BY DEF IdsOf, ParentOf
      <3>1. ParentOf(f) # None
        BY DEF ParentOf, ChatRows
      <3> QED
        BY <3>1, <2>3, <2>4
    <2>6. Unique' /\ ParentCounts'
      BY <2>1, <2>3, <2>5 DEF IInv, Unique, ParentCounts, ParentOf
    <2>7. Given' /\ JoinCounts'
      BY <2>1, <2>3 DEF IInv, Given, JoinCounts, JoinAt, TypeOK, ChatRows
    <2>8. SeqsAreDense' /\ EventIsolation'
      BY <2>1, <2>3 DEF IInv, SeqsAreDense, EventIsolation, SeqsOf, TypeOK
    <2> QED
      BY <2>6, <2>7, <2>8 DEF IInv
  <1>7. CASE InitSeq(c)
    <2>1. /\ at[c] \in ChatIds /\ JoinAt(c, "seq", "open")
          /\ UNCHANGED <<creation, chat, messages, at, swallowed>>
          /\ InitChatSeq(at[c]) \/ (counter[at[c]] # None /\ UNCHANGED counter)
      BY <1>7 DEF InitSeq, JoinAt, IInv, Given, TypeOK
    <2>2. /\ SeqsAreDense'
          /\ \A j \in ChatIds : counter[j] # None => counter'[j] # None
          /\ counter'[at[c]] # None
      <3>1. CASE InitChatSeq(at[c])
        BY <2>1, <3>1, NewCounter
      <3>2. CASE counter[at[c]] # None /\ UNCHANGED counter
        BY <2>1, <3>2 DEF IInv, SeqsAreDense, SeqsOf
      <3> QED
        BY <2>1, <3>1, <3>2
    <2>3. Unique' /\ EventIsolation'
      BY <2>1 DEF IInv, Unique, EventIsolation, IdsOf, ParentOf
    <2>4. Given'
      BY <2>1 DEF IInv, Given, JoinAt, TypeOK
    <2>5. JoinCounts'
      BY <2>1, <2>2 DEF IInv, Given, JoinCounts, JoinAt, TypeOK
    <2>6. ParentCounts'
      BY <2>1, <2>2 DEF IInv, ParentCounts, IdsOf, ParentOf
    <2> QED
      BY <2>2, <2>3, <2>4, <2>5, <2>6 DEF IInv
  <1>8. CASE Send(c)
    <2> DEFINE i == at[c]
               n == counter[i] + 1
               m == [chat |-> i, seq |-> n, by |-> c]
    <2>1. /\ i \in ChatIds /\ counter[i] \in Nat /\ chat[i].event = Claims[c]
          /\ counter' = [counter EXCEPT ![i] = n] /\ messages' = messages \cup {m}
          /\ UNCHANGED <<creation, chat, join, at, swallowed>>
      BY <1>8 DEF Send, Owns, TypeOK, clientVars
    <2>2. chat[i] # None
      BY <2>1, <1>8, <1>r DEF IInv, Given, Send
    <2>3. EventIsolation'
      BY <2>1, <2>2 DEF IInv, EventIsolation
    <2>4. SeqsAreDense'
      <3> SUFFICES ASSUME NEW j \in ChatIds
                   PROVE  SeqsOf(j)' = IF counter'[j] = None THEN {} ELSE 1..counter'[j]
        BY DEF SeqsAreDense
      <3>1. CASE j = i
        <4>1. SeqsOf(j)' = SeqsOf(j) \cup {n}
          <5>1. {q \in messages' : q.chat = j} = {q \in messages : q.chat = j} \cup {m}
            BY <3>1, <2>1
          <5>2. m.seq = n
            OBVIOUS
          <5> HIDE DEF m
          <5> QED
            BY <5>1, <5>2 DEF SeqsOf
        <4>2. SeqsOf(j) = 1..counter[i]
          BY <3>1, <2>1 DEF IInv, SeqsAreDense
        <4>3. counter'[j] = n /\ n \in Nat /\ 1..n = (1..counter[i]) \cup {n}
          BY <3>1, <2>1 DEF TypeOK
        <4>4. n # None
          BY <4>3
        <4> QED
          BY <4>1, <4>2, <4>3, <4>4
      <3>2. CASE j # i
        <4>1. SeqsOf(j)' = SeqsOf(j)
          BY <3>2, <2>1 DEF SeqsOf
        <4> QED
          BY <3>2, <4>1, <2>1 DEF IInv, SeqsAreDense, TypeOK
      <3> QED
        BY <3>1, <3>2
    <2>5. \A j \in ChatIds : counter[j] # None => counter'[j] # None
      BY <2>1 DEF TypeOK
    <2>6. Unique' /\ Given'
      BY <2>1 DEF IInv, Unique, Given, IdsOf, ParentOf
    <2>7. ParentCounts'
      BY <2>1, <2>5 DEF IInv, ParentCounts, IdsOf, ParentOf
    <2>8. JoinCounts'
      BY <2>1, <2>5 DEF IInv, JoinCounts, Given, TypeOK
    <2> QED
      BY <2>3, <2>4, <2>6, <2>7, <2>8 DEF IInv
  <1> QED
    BY <1>1, <1>3, <1>4, <1>5, <1>6, <1>7, <1>8

\* The invariant holds in every reachable state.
LEMMA RoomsInvariant == Spec => [](TypeOK /\ IInv)
  <1>1. TypeOK /\ IInv /\ [Next]_vars => IInv'
    <2>1. CASE UNCHANGED vars
      BY <2>1 DEF vars, IInv, Unique, Given, ParentCounts, JoinCounts, SeqsAreDense,
                  EventIsolation, IdsOf, SeqsOf, ParentOf
    <2> QED
      BY <2>1, IInvCreate, IInvJoin DEF Next
  <1> QED
    BY RoomTypes, IInvInit, <1>1, PTL DEF Spec

\* SameRoomSameChat: however the joins of a room interleave, they end in one chat.
THEOREM RoomsAreOne == Spec => []SameRoomSameChat
  <1>1. TypeOK /\ IInv => SameRoomSameChat
    BY RoomsAssumption DEF SameRoomSameChat, IInv, Unique, Given, TypeOK
  <1> QED
    BY <1>1, RoomsInvariant, PTL

\* SeqsAreDense: the numbers of a chat are 1 to its counter.
THEOREM NumbersAreDense == Spec => []SeqsAreDense
  <1>1. IInv => SeqsAreDense
    BY DEF IInv
  <1> QED
    BY <1>1, RoomsInvariant, PTL

\* OpenCanSend: a chat opened without an error has its counter.
THEOREM OpenChatsCount == Spec => []OpenCanSend
  <1>1. TypeOK /\ IInv => OpenCanSend
    <2> SUFFICES ASSUME TypeOK, IInv, NEW c \in Clients, join[c] = "open", ~swallowed[c],
                        Asks[c].room = Parent => creation[Asks[c].event] = "created"
                 PROVE  counter[at[c]] # None
      BY DEF OpenCanSend
    <2>1. CASE Asks[c].room = Parent
      <3>1. Asks[c] \in ChatRows /\ Asks[c] = ParentOf(Asks[c].event) /\ Asks[c].event \in Events
        BY <2>1, RoomsAssumption DEF ParentOf, ChatRows
      <3>2. at[c] \in IdsOf(ParentOf(Asks[c].event))
        BY <3>1 DEF IInv, Given, IdsOf, TypeOK
      <3> QED
        BY <2>1, <3>1, <3>2 DEF IInv, ParentCounts
    <2>2. CASE Asks[c].room # Parent
      BY <2>2 DEF IInv, JoinCounts
    <2> QED
      BY <2>1, <2>2
  <1> QED
    BY <1>1, RoomsInvariant, PTL

\* EventIsolation: nobody writes outside the event of his token.
THEOREM EventsAreIsolated == Spec => []EventIsolation
  <1>1. IInv => EventIsolation
    BY DEF IInv
  <1> QED
    BY <1>1, RoomsInvariant, PTL

-----------------------------------------------------------------------------
(* Rooms implements RoomLogs.                                              *)

\* An upsert is below a parent that is there, and counters are of chats.
Rooted ==
    /\ \A c \in Clients : join[c] = "upsert" => IdsOf(ParentOf(Asks[c].event)) # {}
    /\ \A i \in ChatIds : chat[i] = None => counter[i] = None

\* Chats are not taken away, and get a counter only when they are there.
LEMMA ChatsStay ==
    ASSUME TypeOK, IInv, [Next]_vars
    PROVE  /\ \A i \in ChatIds : chat[i] # None => chat'[i] = chat[i]
           /\ \A i \in ChatIds : counter'[i] # counter[i] => chat[i] # None
  <1>1. CASE UNCHANGED vars
    BY <1>1 DEF vars
  <1>2. CASE CreateStep
    <2>1. PICK e \in Events : \/ InsertEvent(e) \/ CreateParent(e)
                              \/ InitParentSeq(e) \/ CreateEventFails(e)
      BY <1>2 DEF CreateStep
    <2>2. ParentOf(e) # None
      BY RoomsAssumption DEF ParentOf, ChatRows
    <2> QED
      BY <2>1, <2>2 DEF InsertEvent, CreateParent, InitParentSeq, CreateEventFails,
                        InitChatSeq, IdsOf, rows, TypeOK
  <1>3. CASE JoinStep
    <2>1. PICK c \in Clients :
            \/ Mount(c) \/ ListChats(c) \/ GetParent(c) \/ Upsert(c) \/ Select(c)
            \/ InitSeq(c) \/ InitSeqFails(c) \/ JoinFails(c) \/ Leave(c) \/ Send(c)
      BY <1>3 DEF JoinStep
    <2>2. Asks[c] # None /\ (at[c] # None => at[c] \in ChatIds /\ chat[at[c]] # None)
      BY RoomsAssumption DEF TypeOK, IInv, Given
    <2>3. CASE Upsert(c)
      BY <2>3 DEF Upsert, IdsOf, TypeOK
    <2>4. CASE InitSeq(c)
      BY <2>2, <2>4 DEF InitSeq, InitChatSeq, JoinAt, TypeOK, IInv, Given
    <2>5. CASE Send(c)
      BY <2>2, <2>5 DEF Send, Owns, TypeOK
    <2> QED
      BY <2>1, <2>3, <2>4, <2>5
      DEF Mount, ListChats, GetParent, Select, InitSeqFails, JoinFails, Leave, rows
  <1> QED
    BY <1>1, <1>2, <1>3 DEF Next

\* Rooted is kept by every step.
LEMMA RootedStep ==
    ASSUME TypeOK, IInv, Rooted, [Next]_vars
    PROVE  Rooted'
  <1>1. \A r \in ChatRows : IdsOf(r) # {} => IdsOf(r)' # {}
    BY ChatsStay, RoomsAssumption DEF IdsOf
  <1>2. ASSUME NEW c \in Clients, join'[c] = "upsert"
        PROVE  join[c] = "upsert" \/ IdsOf(ParentOf(Asks[c].event)) # {}
    BY <1>2 DEF Next, vars, CreateStep, JoinStep, InsertEvent, CreateParent, InitParentSeq,
                CreateEventFails, Mount, ListChats, GetParent, Upsert, Select, InitSeq,
                InitSeqFails, JoinFails, Leave, Send, JoinAt, clientVars, TypeOK
  <1>3. \A c \in Clients : ParentOf(Asks[c].event) \in ChatRows
    BY RoomsAssumption DEF ParentOf, ChatRows
  <1>4. \A c \in Clients : ParentOf(Asks[c].event)' = ParentOf(Asks[c].event)
    BY DEF ParentOf
  <1>5. \A c \in Clients : join'[c] = "upsert" => IdsOf(ParentOf(Asks[c].event))' # {}
    BY <1>1, <1>2, <1>3, <1>4 DEF Rooted
  <1>6. \A i \in ChatIds : chat'[i] = None => counter'[i] = None
    BY ChatsStay DEF Rooted
  <1> QED
    BY <1>5, <1>6 DEF Rooted

\* The length of a room is the counter of its one chat.
LEMMA LastIs ==
    TypeOK /\ IInv =>
        \A r \in ChatRows :
            /\ IdsOf(r) = {} => LastOf(r) = 0
            /\ \A i \in IdsOf(r) : LastOf(r) = IF counter[i] = None THEN 0 ELSE counter[i]
  <1> SUFFICES ASSUME TypeOK, IInv, NEW r \in ChatRows
               PROVE  /\ IdsOf(r) = {} => LastOf(r) = 0
                      /\ \A i \in IdsOf(r) :
                            LastOf(r) = IF counter[i] = None THEN 0 ELSE counter[i]
    OBVIOUS
  <1> DEFINE counted == {i \in IdsOf(r) : counter[i] # None}
  <1>1. IdsOf(r) = {} => counted = {}
    OBVIOUS
  <1>2. \A i \in IdsOf(r) : counted = IF counter[i] = None THEN {} ELSE {i}
    BY RoomsAssumption DEF IInv, Unique, IdsOf
  <1>3. LastOf(r) = IF counted = {} THEN 0 ELSE counter[CHOOSE i \in counted : TRUE]
    BY DEF LastOf
  <1> HIDE DEF counted
  <1> QED
    BY <1>1, <1>2, <1>3

\* The same, after a step.
LEMMA LastIsNext ==
    (TypeOK /\ IInv)' =>
        (\A r \in ChatRows :
            /\ IdsOf(r) = {} => LastOf(r) = 0
            /\ \A i \in IdsOf(r) : LastOf(r) = IF counter[i] = None THEN 0 ELSE counter[i])'
  BY LastIs, PTL

\* Steps that leave the messages alone, insert no chat and give no number.
LEMMA LogsAlone ==
    ASSUME TypeOK, TypeOK', IInv, IInv', UNCHANGED <<chat, messages>>,
           \A i \in ChatIds : counter'[i] # counter[i] => counter[i] = None /\ counter'[i] = 0
    PROVE  /\ {r \in ChatRows : IdsOf(r) # {}}' = {r \in ChatRows : IdsOf(r) # {}}
           /\ [r \in ChatRows |-> LastOf(r)]' = [r \in ChatRows |-> LastOf(r)]
           /\ [r \in ChatRows |-> SaidIn(r)]' = [r \in ChatRows |-> SaidIn(r)]
  <1>1. \A r : IdsOf(r)' = IdsOf(r) /\ SaidIn(r)' = SaidIn(r)
    BY DEF IdsOf, SaidIn
  <1>2. ASSUME NEW r \in ChatRows PROVE LastOf(r)' = LastOf(r)
    <2>1. CASE IdsOf(r) = {}
      BY <1>1, <2>1, LastIs, LastIsNext
    <2>2. CASE IdsOf(r) # {}
      <3>1. PICK i \in IdsOf(r) : TRUE
        BY <2>2
      <3>2. i \in ChatIds
        BY <3>1 DEF IdsOf
      <3>3. LastOf(r) = IF counter[i] = None THEN 0 ELSE counter[i]
        BY <3>1, LastIs
      <3>4. LastOf(r)' = IF counter'[i] = None THEN 0 ELSE counter'[i]
        BY <1>1, <3>1, LastIsNext
      <3> QED
        BY <3>2, <3>3, <3>4, RoomsAssumption
    <2> QED
      BY <2>1, <2>2
  <1> QED
    BY <1>1, <1>2

\* The insert of a chat founds its room.
LEMMA LogsFound ==
    ASSUME TypeOK, TypeOK', IInv, IInv', Rooted,
           NEW r \in ChatRows, NEW i \in ChatIds,
           chat[i] = None, IdsOf(r) = {}, chat' = [chat EXCEPT ![i] = r],
           r.room # Parent => IdsOf(ParentOf(r.event)) # {},
           UNCHANGED <<counter, messages>>, \A c \in Clients : join'[c] = "open" <=> join[c] = "open"
    PROVE  Logs!Found(r)
  <1>1. /\ \A j \in ChatIds : chat[j] # None => chat'[j] = chat[j]
        /\ \A j \in ChatIds : chat'[j] # chat[j] => j = i /\ chat'[j] = r
    BY NewChat
  <1>2. chat'[i] = r /\ r # None
    BY RoomsAssumption DEF TypeOK
  <1>3. \A q \in ChatRows \ {r} : IdsOf(q)' = IdsOf(q)
    BY <1>1, <1>2, RoomsAssumption DEF IdsOf
  <1>4. IdsOf(r)' = {i}
    BY <1>1, <1>2 DEF IdsOf
  <1>5. \A q \in ChatRows : SaidIn(q)' = SaidIn(q)
    <2>1. \A m \in messages : chat'[m.chat] = chat[m.chat]
      BY <1>1 DEF IInv, EventIsolation, TypeOK
    <2> QED
      BY <2>1 DEF SaidIn
  <1>6. \A q \in ChatRows : LastOf(q)' = LastOf(q)
    <2>1. LastOf(r) = 0 /\ LastOf(r)' = 0
      BY <1>4, LastIs, LastIsNext DEF Rooted
    <2>2. ASSUME NEW q \in ChatRows \ {r} PROVE LastOf(q)' = LastOf(q)
      <3>1. CASE IdsOf(q) = {}
        BY <1>3, <3>1, LastIs, LastIsNext
      <3>2. CASE IdsOf(q) # {}
        BY <1>3, <3>2, LastIs, LastIsNext
      <3> QED
        BY <3>1, <3>2
    <2> QED
      BY <2>1, <2>2
  <1>7. r.room # Parent => [event |-> r.event, room |-> Parent] \in {q \in ChatRows : IdsOf(q) # {}}
    BY DEF ParentOf, ChatRows
  <1>8. {q \in ChatRows : IdsOf(q) # {}}' = {q \in ChatRows : IdsOf(q) # {}} \cup {r}
    BY <1>3, <1>4
  <1>9. {c \in Clients : join[c] = "open"}' = {c \in Clients : join[c] = "open"}
    OBVIOUS
  <1> QED
    BY <1>5, <1>6, <1>7, <1>8, <1>9 DEF Logs!Found

\* A message comes at the end of the log of the room its author is in.
LEMMA LogsSay ==
    ASSUME TypeOK, TypeOK', IInv, IInv', NEW c \in Clients, Send(c)
    PROVE  Logs!Say(c)
  <1> DEFINE i == at[c]
             r == Asks[c]
             n == counter[i] + 1
             m == [chat |-> i, seq |-> n, by |-> c]
  <1>1. /\ i \in ChatIds /\ counter[i] \in Nat /\ chat[i].event = Claims[c]
        /\ counter' = [counter EXCEPT ![i] = n] /\ messages' = messages \cup {m}
        /\ join[c] = "open" /\ UNCHANGED <<chat, join>>
    BY DEF Send, Owns, TypeOK, clientVars
  <1>2. r \in ChatRows /\ chat[i] = r /\ r # None
    BY <1>1, RoomsAssumption DEF IInv, Given, TypeOK
  <1>3. \A q : IdsOf(q)' = IdsOf(q)
    BY <1>1 DEF IdsOf
  <1>4. IdsOf(r) = {i}
    BY <1>1, <1>2 DEF IInv, Unique, IdsOf
  <1>5. LastOf(r) = counter[i] /\ LastOf(r)' = n
    <2>1. counter[i] # None /\ n # None /\ counter'[i] = n
      BY <1>1, RoomsAssumption DEF TypeOK
    <2> QED
      BY <1>2, <1>3, <1>4, <2>1, LastIs, LastIsNext
  <1>6. ASSUME NEW q \in ChatRows \ {r} PROVE LastOf(q)' = LastOf(q)
    <2>1. \A j \in IdsOf(q) : j \in ChatIds /\ j # i
      BY <1>2, <1>6 DEF IdsOf
    <2>2. \A j \in IdsOf(q) : counter'[j] = counter[j]
      BY <1>1, <2>1 DEF TypeOK
    <2>3. CASE IdsOf(q) = {}
      BY <1>3, <2>3, LastIs, LastIsNext
    <2>4. CASE IdsOf(q) # {}
      BY <1>3, <2>2, <2>4, LastIs, LastIsNext
    <2> QED
      BY <2>3, <2>4
  <1>7. SaidIn(r)' = SaidIn(r) \cup {[seq |-> n, by |-> c]}
    <2>1. m.chat = i /\ m.seq = n /\ m.by = c
      OBVIOUS
    <2> HIDE DEF m
    <2>2. {k \in messages : chat[k.chat] = r}' = {k \in messages : chat[k.chat] = r} \cup {m}
      BY <1>1, <1>2, <2>1
    <2> QED
      BY <2>1, <2>2 DEF SaidIn
  <1>8. \A q \in ChatRows \ {r} : SaidIn(q)' = SaidIn(q)
    <2>1. m.chat = i
      OBVIOUS
    <2> HIDE DEF m
    <2> QED
      BY <1>1, <1>2, <2>1 DEF SaidIn
  <1> DEFINE len == [q \in ChatRows |-> LastOf(q)]
             log == [q \in ChatRows |-> SaidIn(q)]
  <1>9. /\ len[r] + 1 = n
        /\ len' = [len EXCEPT ![r] = n]
        /\ log' = [log EXCEPT ![r] = @ \cup {[seq |-> n, by |-> c]}]
    <2>1. len' = [q \in ChatRows |-> LastOf(q)'] /\ log' = [q \in ChatRows |-> SaidIn(q)']
      OBVIOUS
    <2> HIDE DEF m
    <2> QED
      BY <1>1, <1>2, <1>5, <1>6, <1>7, <1>8, <2>1
  <1>10. /\ {q \in ChatRows : IdsOf(q) # {}}' = {q \in ChatRows : IdsOf(q) # {}}
         /\ {d \in Clients : join[d] = "open"}' = {d \in Clients : join[d] = "open"}
    BY <1>1, <1>3
  <1>11. c \in {d \in Clients : join[d] = "open"} /\ r.event = Claims[c]
    BY <1>1, <1>2
  <1> QED
    BY <1>9, <1>10, <1>11 DEF Logs!Say

\* Every step of CreateEvent or a widget is one of RoomLogs, or a stutter.
LEMMA LogsStep ==
    ASSUME TypeOK, TypeOK', IInv, IInv', Rooted, [Next]_vars
    PROVE  [Logs!Next]_Logs!vars
  <1> DEFINE found == {r \in ChatRows : IdsOf(r) # {}}
             in == {c \in Clients : join[c] = "open"}
             len == [r \in ChatRows |-> LastOf(r)]
             log == [r \in ChatRows |-> SaidIn(r)]
  <1>a. ASSUME UNCHANGED <<chat, messages>>,
               \A i \in ChatIds : counter'[i] # counter[i] => counter[i] = None /\ counter'[i] = 0
        PROVE  found' = found /\ len' = len /\ log' = log
    BY <1>a, LogsAlone
  <1>b. Logs!vars = <<found, in, len, log>>
    BY DEF Logs!vars
  <1>1. CASE UNCHANGED vars
    <2>1. in' = in /\ UNCHANGED <<chat, counter, messages>>
      BY <1>1 DEF vars
    <2> QED
      BY <1>a, <1>b, <2>1 DEF Logs!vars
  <1>2. CASE CreateStep
    <2>1. PICK e \in Events : \/ InsertEvent(e) \/ CreateParent(e)
                              \/ InitParentSeq(e) \/ CreateEventFails(e)
      BY <1>2 DEF CreateStep
    <2>2. CASE CreateParent(e)
      <3>1. PICK i \in ChatIds : chat[i] = None /\ chat' = [chat EXCEPT ![i] = ParentOf(e)]
        BY <2>2 DEF CreateParent, IdsOf
      <3>2. IdsOf(ParentOf(e)) = {} /\ ParentOf(e) \in ChatRows /\ ParentOf(e).room = Parent
        BY <2>2 DEF CreateParent, CreationAt, IInv, Unique, ParentOf, ChatRows
      <3>3. UNCHANGED <<counter, messages, join>>
        BY <2>2 DEF CreateParent, clientVars
      <3>4. Logs!Found(ParentOf(e))
        BY <3>1, <3>2, <3>3, LogsFound
      <3> QED
        BY <3>2, <3>4 DEF Logs!Next
    <2>3. CASE ~CreateParent(e)
      <3>1. /\ UNCHANGED <<chat, messages, join>>
            /\ \A i \in ChatIds : counter'[i] # counter[i] => counter[i] = None /\ counter'[i] = 0
        BY <2>1, <2>3 DEF InsertEvent, InitParentSeq, CreateEventFails, InitChatSeq,
                          IdsOf, rows, clientVars, TypeOK
      <3>2. in' = in
        BY <3>1
      <3> QED
        BY <1>a, <1>b, <3>1, <3>2 DEF Logs!vars
    <2> QED
      BY <2>2, <2>3
  <1>3. CASE JoinStep
    <2>1. PICK c \in Clients :
            \/ Mount(c) \/ ListChats(c) \/ GetParent(c) \/ Upsert(c) \/ Select(c)
            \/ InitSeq(c) \/ InitSeqFails(c) \/ JoinFails(c) \/ Leave(c) \/ Send(c)
      BY <1>3 DEF JoinStep
    <2>2. Asks[c] \in ChatRows
      BY RoomsAssumption
    <2>3. CASE Send(c)
      BY <2>3, LogsSay DEF Logs!Next
    <2>4. CASE Upsert(c) /\ ~UNCHANGED chat
      <3>1. IdsOf(Asks[c]) = {} /\ JoinAt(c, "upsert", "select") /\ UNCHANGED <<counter, messages>>
        BY <2>4 DEF Upsert
      <3>2. PICK i \in ChatIds : chat[i] = None /\ chat' = [chat EXCEPT ![i] = Asks[c]]
        BY <2>4 DEF Upsert, IdsOf
      <3>3. IdsOf(ParentOf(Asks[c].event)) # {}
        BY <3>1 DEF JoinAt, Rooted
      <3>4. \A d \in Clients : join'[d] = "open" <=> join[d] = "open"
        BY <3>1 DEF JoinAt, TypeOK
      <3>5. Logs!Found(Asks[c])
        BY <2>2, <3>1, <3>2, <3>3, <3>4, LogsFound
      <3> QED
        BY <2>2, <3>5 DEF Logs!Next
    <2>5. CASE /\ UNCHANGED <<chat, messages>>
               /\ \A i \in ChatIds : counter'[i] # counter[i] => counter[i] = None /\ counter'[i] = 0
               /\ \A d \in Clients \ {c} : join'[d] = join[d]
               /\ ~(join[c] # "open" /\ join'[c] = "open" /\ IdsOf(Asks[c]) = {})
      <3>1. found' = found /\ len' = len /\ log' = log
        BY <1>a, <2>5
      <3>2. CASE join[c] = "open" <=> join'[c] = "open"
        <4>1. in' = in
          BY <2>5, <3>2
        <4> QED
          BY <1>b, <3>1, <4>1 DEF Logs!vars
      <3>3. CASE join[c] # "open" /\ join'[c] = "open"
        <4>1. c \notin in /\ in' = in \cup {c} /\ Asks[c] \in found
          BY <2>2, <2>5, <3>3
        <4>2. Logs!Enter(c)
          BY <3>1, <4>1 DEF Logs!Enter
        <4> QED
          BY <4>2 DEF Logs!Next
      <3>4. CASE join[c] = "open" /\ join'[c] # "open"
        <4>1. c \in in /\ in' = in \ {c}
          BY <2>5, <3>4
        <4>2. Logs!Leave(c)
          BY <3>1, <4>1 DEF Logs!Leave
        <4> QED
          BY <4>2 DEF Logs!Next
      <3> QED
        BY <3>2, <3>3, <3>4
    <2>6. CASE InitSeq(c) \/ InitSeqFails(c)
      <3>1. join[c] = "seq" /\ at[c] \in ChatIds /\ chat[at[c]] = Asks[c]
        BY <2>6 DEF InitSeq, InitSeqFails, JoinAt, IInv, Given, TypeOK
      <3>2. IdsOf(Asks[c]) # {}
        BY <3>1 DEF IdsOf
      <3>3. /\ UNCHANGED <<chat, messages>>
            /\ \A i \in ChatIds : counter'[i] # counter[i] => counter[i] = None /\ counter'[i] = 0
            /\ \A d \in Clients \ {c} : join'[d] = join[d]
        BY <2>6, <3>1 DEF InitSeq, InitSeqFails, InitChatSeq, JoinAt, rows, TypeOK
      <3> QED
        BY <2>5, <3>2, <3>3
    <2>7. CASE ListChats(c)
      <3>1. Asks[c] = ParentOf(Asks[c].event)
        BY <2>7, <2>2 DEF ListChats, JoinAt, IInv, Given, ParentOf, ChatRows
      <3>2. /\ UNCHANGED <<chat, counter, messages>>
            /\ \A d \in Clients \ {c} : join'[d] = join[d]
            /\ join'[c] = "open" => IdsOf(Asks[c]) # {}
        BY <2>7, <3>1 DEF ListChats, JoinAt, rows, TypeOK
      <3> QED
        BY <2>5, <3>2
    <2>8. CASE \/ Mount(c) \/ GetParent(c) \/ Select(c) \/ JoinFails(c) \/ Leave(c)
               \/ (Upsert(c) /\ UNCHANGED chat)
      <3>1. /\ UNCHANGED <<chat, counter, messages>>
            /\ \A d \in Clients \ {c} : join'[d] = join[d]
            /\ join'[c] # "open"
        BY <2>8 DEF Mount, GetParent, Select, JoinFails, Leave, Upsert, JoinAt, rows, TypeOK
      <3> QED
        BY <2>5, <3>1
    <2> QED
      BY <2>1, <2>3, <2>4, <2>6, <2>7, <2>8
  <1> QED
    BY <1>1, <1>2, <1>3 DEF Next

\* RefinesRoomLogs: Rooms implements RoomLogs, for any number of concurrent
\* creations, joins and senders.
THEOREM RoomsImplementLogs == Spec => RefinesRoomLogs
  <1>1. Init => Logs!Init
    <2> SUFFICES ASSUME Init PROVE Logs!Init
      OBVIOUS
    <2>1. \A r \in ChatRows : IdsOf(r) = {}
      BY RoomsAssumption DEF Init, IdsOf
    <2>2. \A r \in ChatRows : LastOf(r) = 0
      BY <2>1 DEF LastOf
    <2>3. \A r \in ChatRows : SaidIn(r) = {}
      BY DEF Init, SaidIn
    <2>4. {c \in Clients : join[c] = "open"} = {}
      BY DEF Init
    <2> QED
      BY <2>1, <2>2, <2>3, <2>4 DEF Logs!Init
  <1>2. Init => Rooted
    BY DEF Init, Rooted
  <1>3. Spec => []Rooted
    BY <1>2, RoomsInvariant, RootedStep, PTL DEF Spec
  <1> QED
    BY <1>1, <1>3, RoomsInvariant, LogsStep, PTL DEF Spec, RefinesRoomLogs, Logs!Spec
=============================================================================
