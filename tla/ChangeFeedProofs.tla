-------------------------- MODULE ChangeFeedProofs --------------------------
(***************************************************************************)
(* What ChangeFeed promises of a window holds for any writers, clients,    *)
(* page sizes and bounds, whatever fails, expires or overlaps: a message   *)
(* leaves a window only because it was deleted, and one that a poll        *)
(* brought does not come back.  The second rests on three facts nobody     *)
(* writes down: polls leave no gap above the initial load, an older page   *)
(* is below that load, and so no older page holds what a poll brought.     *)
(* Without failed requests and expiry, and with writers that number and    *)
(* log one after the other, a window has also applied what its cursors     *)
(* have passed: the second half of this module.                            *)
(***************************************************************************)
EXTENDS ChangeFeed, TLAPS, WellFoundedInduction

\* A deletion is numbered, logged and read after its row was marked.
LogsTrue ==
    /\ \A w \in Writers : wpc[w] \in {"incrDelete", "logDelete"} => wmsg[w] \in deleted
    /\ \A m \in Msgs : deleteLog[m] # 0 => m \in deleted
    /\ \A c \in Clients : newDeletes[c] \subseteq deleted

\* A window that is not open has nothing.
Unopened ==
    \A c \in Clients : ~opened[c] =>
        /\ win[c] = Nothing /\ older[c] = Nothing
        /\ seen[c] = {} /\ loaded[c] = {} /\ cursor[c] = 0
        /\ hpc[c] = "none"

\* Cursors and windows know of nothing that is not stored.
Stored ==
    \A c \in Clients :
        /\ cursor[c] <= posted
        /\ seen[c] \cup loaded[c] \cup Has(page[c]) \subseteq 1..posted

\* What a poll has passed: its cursor, now or before a step back.
Passed(c) == {m \in Msgs : m <= cursor[c] \/ \E n \in seen[c] : m <= n}

\* Above the initial load the polls have passed nothing that is there
\* without bringing it.
NoGap ==
    \A c \in Clients : \A m \in Passed(c) :
        m <= posted /\ (\A n \in loaded[c] : n < m) => m \in seen[c] \cup deleted

\* A page of a poll is whole from the cursor to its last message.
PageWhole ==
    \A c \in Clients :
        /\ hpc[c] = "none" => page[c] = Nothing
        /\ \A m \in Has(page[c]), n \in Msgs :
              cursor[c] < n /\ n <= m => n \in Has(page[c]) \cup deleted

Below(c, m) == \E n \in loaded[c] : m < n

\* A window shows what it opened with, what polls brought, and what is older.
WinKnown ==
    \A c \in Clients : \A m \in Has(win[c]) : m \in loaded[c] \cup seen[c] \/ Below(c, m)

\* A page of older messages is older than the initial load.
OlderBelow == \A c \in Clients : \A m \in Has(older[c]) : Below(c, m)

IInv ==
    /\ LogsTrue /\ Unopened /\ Stored /\ NoGap /\ PageWhole
    /\ WinKnown /\ OlderBelow /\ OnlyDeletedVanish

-----------------------------------------------------------------------------
(* Types.                                                                  *)

\* A query returns the texts of the messages it selects, and no others.
LEMMA RowsOf ==
    ASSUME TypeOK, NEW S \in SUBSET Msgs
    PROVE  /\ Rows(S) \in [Msgs -> Texts \cup {None}] /\ Has(Rows(S)) = S
           /\ Nothing \in [Msgs -> Texts \cup {None}] /\ Has(Nothing) = {}
  BY ChangeAssumption DEF TypeOK, TypeDatabase, Rows, Has, Nothing, Texts

\* A merged window has texts only, and shows what it showed, less what was
\* deleted, and what is fresh.
LEMMA MergedOf ==
    ASSUME TypeOK, NEW c \in Clients
    PROVE  /\ Merged(c) \in [Msgs -> Texts \cup {None}]
           /\ Has(Merged(c)) = (Has(win[c]) \ newDeletes[c]) \cup Fresh(c)
           /\ Fresh(c) \subseteq Has(page[c]) /\ Fresh(c) \cap seen[c] = {}
           /\ Has(page[c]) \subseteq Msgs
  <1> USE ChangeAssumption DEF TypeOK, TypeHandler, TypeClient
  <1>1. ASSUME NEW m \in Msgs, NEW old \in Texts PROVE LastEdit(c, m, old) \in Texts
    BY <1>1 DEF LastEdit, EditsOf, Edits
  <1>2. \A m \in Has(win[c]) : win[c][m] \in Texts
    BY DEF Has
  <1>3. \A m \in Fresh(c) : m \in Msgs /\ page[c][m] \in Texts
    BY DEF Fresh, Has
  <1>4. None \notin Texts /\ Has(win[c]) \subseteq Msgs
    BY DEF Texts, Has
  <1>5. \A m \in Msgs : Merged(c)[m] =
            IF m \in Has(win[c]) \ newDeletes[c] THEN LastEdit(c, m, win[c][m])
            ELSE IF m \in Fresh(c) THEN page[c][m] ELSE None
    BY DEF Merged
  <1>6. Merged(c) \in [Msgs -> Texts \cup {None}]
    BY <1>1, <1>2, <1>3 DEF Merged
  <1>7. Has(Merged(c)) = (Has(win[c]) \ newDeletes[c]) \cup Fresh(c)
    BY <1>1, <1>2, <1>3, <1>4, <1>5 DEF Has
  <1> QED
    BY <1>6, <1>7 DEF Fresh, Has

\* The initial values have their types.
LEMMA TypeInit == Init => TypeOK
  BY ChangeAssumption
  DEF Init, TypeOK, TypeDatabase, TypeRedis, TypeWriter, TypeHandler, TypeClient,
      Msgs, Texts, Nothing

\* Variables that do not change keep their types.
LEMMA TypeKept ==
    /\ TypeDatabase /\ UNCHANGED database => TypeDatabase'
    /\ TypeRedis /\ UNCHANGED redis => TypeRedis'
    /\ TypeWriter /\ UNCHANGED writer => TypeWriter'
    /\ TypeHandler /\ UNCHANGED handler => TypeHandler'
    /\ TypeClient /\ UNCHANGED client => TypeClient'
  BY DEF TypeDatabase, TypeRedis, TypeWriter, TypeHandler, TypeClient,
         database, redis, writer, handler, client

\* A step of DELETE or PATCH, or its end, keeps the types.
LEMMA TypeRequest ==
    ASSUME TypeOK, NEW w \in Writers, DeleteRequest(w) \/ EditRequest(w) \/ WriterStops(w)
    PROVE  TypeOK'
  <1> USE ChangeAssumption, TypeKept DEF TypeOK
  <1>1. ASSUME NEW m \in 1..posted, SoftDelete(w, m) PROVE TypeOK'
    <2>1. TypeDatabase'
      BY <1>1 DEF SoftDelete, TypeDatabase
    <2>2. TypeWriter'
      BY <1>1 DEF SoftDelete, WriterAt, TypeDatabase, TypeWriter, Msgs
    <2> QED
      BY <1>1, <2>1, <2>2 DEF SoftDelete
  <1>2. CASE IncrDelete(w)
    <2>1. TypeRedis' /\ TypeWriter'
      BY <1>2 DEF IncrDelete, WriterAt, TypeRedis, TypeWriter
    <2> QED
      BY <1>2, <2>1 DEF IncrDelete
  <1>3. CASE LogDelete(w)
    <2>1. TypeRedis' /\ TypeWriter'
      BY <1>3 DEF LogDelete, WriterAt, TypeRedis, TypeWriter
    <2> QED
      BY <1>3, <2>1 DEF LogDelete
  <1>4. ASSUME NEW m \in 1..posted, UpdateText(w, m) PROVE TypeOK'
    <2>1. TypeDatabase'
      <3>1. edits + 1 \in Texts
        BY <1>4 DEF UpdateText, TypeDatabase, Texts
      <3> QED
        BY <1>4, <3>1 DEF UpdateText, TypeDatabase
    <2>2. TypeWriter'
      BY <1>4 DEF UpdateText, WriterAt, TypeDatabase, TypeWriter, Msgs
    <2> QED
      BY <1>4, <2>1, <2>2 DEF UpdateText
  <1>5. CASE Reload(w)
    <2>1. TypeWriter'
      BY <1>5 DEF Reload, WriterAt, TypeDatabase, TypeWriter
    <2> QED
      BY <1>5, <2>1 DEF Reload
  <1>6. CASE IncrEdit(w)
    <2>1. TypeRedis' /\ TypeWriter'
      BY <1>6 DEF IncrEdit, WriterAt, TypeRedis, TypeWriter
    <2> QED
      BY <1>6, <2>1 DEF IncrEdit
  <1>7. CASE LogEdit(w)
    <2>1. TypeRedis' /\ TypeWriter'
      BY <1>7 DEF LogEdit, WriterAt, TypeRedis, TypeWriter, Edits
    <2> QED
      BY <1>7, <2>1 DEF LogEdit
  <1>8. CASE WriterStops(w)
    <2>1. TypeWriter'
      BY <1>8 DEF WriterStops, TypeWriter
    <2> QED
      BY <1>8, <2>1 DEF WriterStops, Event
  <1> QED
    BY <1>1, <1>2, <1>3, <1>4, <1>5, <1>6, <1>7, <1>8
    DEF DeleteRequest, EditRequest, FinishDelete, FinishEdit

\* So do a message sent and keys that expire.
LEMMA TypeServer == ASSUME TypeOK, Send \/ DeleteKeysExpire \/ EditKeysExpire PROVE TypeOK'
  <1> USE ChangeAssumption, TypeKept DEF TypeOK, Event
  <1>1. CASE Send
    <2>1. TypeDatabase'
      BY <1>1 DEF Send, TypeDatabase
    <2> QED
      BY <1>1, <2>1 DEF Send
  <1>2. CASE DeleteKeysExpire \/ EditKeysExpire
    <2>1. TypeRedis'
      BY <1>2 DEF DeleteKeysExpire, EditKeysExpire, TypeRedis
    <2> QED
      BY <1>2, <2>1 DEF DeleteKeysExpire, EditKeysExpire
  <1> QED
    BY <1>1, <1>2

\* Nothing selects a message that is not stored.
LEMMA VisibleMsgs == ASSUME TypeOK PROVE Visible \subseteq Msgs /\ Visible \subseteq Nat
  BY ChangeAssumption DEF TypeOK, TypeDatabase, Visible, Msgs

\* A step of a window or of its poll keeps the types.
LEMMA TypeWindow ==
    ASSUME TypeOK, NEW c \in Clients,
           PollStep(c) \/ LogReadFails(c) \/ NetworkError(c) \/ OlderRequest(c) \/ OlderMerge(c)
    PROVE  TypeOK'
  <1> USE TypeKept DEF TypeOK
  <1>1. CASE LoadWindow(c)
    <2> DEFINE latest == {m \in Visible : Cardinality({n \in Visible : m < n}) < InitPage}
    <2>1. latest \in SUBSET Msgs /\ latest \subseteq Nat
      BY VisibleMsgs
    <2>2. /\ win' = [win EXCEPT ![c] = Rows(latest)]
          /\ loaded' = [loaded EXCEPT ![c] = latest]
          /\ \E b \in latest \cup {0} : cursor' = [cursor EXCEPT ![c] = b]
          /\ opened' = [opened EXCEPT ![c] = TRUE]
          /\ UNCHANGED <<seen, delCursor, editCursor, older>>
      BY <1>1 DEF LoadWindow
    <2>3. Rows(latest) \in [Msgs -> Texts \cup {None}]
      BY <2>1, RowsOf
    <2> HIDE DEF latest
    <2>4. TypeClient'
      BY <2>1, <2>2, <2>3 DEF TypeClient
    <2> QED
      BY <1>1, <2>4 DEF LoadWindow
  <1>2. CASE PollStart(c)
    <2>1. TypeHandler'
      BY <1>2 DEF PollStart, HandlerAt, TypeHandler
    <2> QED
      BY <1>2, <2>1 DEF PollStart
  <1>3. CASE ReadMessages(c)
    <2>1. {m \in Visible : m > cursor[c]} \in SUBSET Msgs
      BY VisibleMsgs
    <2>2. TypeHandler'
      BY <1>3, <2>1, RowsOf DEF ReadMessages, HandlerAt, TypeHandler
    <2> QED
      BY <1>3, <2>2 DEF ReadMessages
  <1>4. CASE ReadDeletes(c)
    <2>1. TypeHandler'
      BY <1>4 DEF ReadDeletes, HandlerAt, DeletesSince, IsMax, TypeHandler, TypeRedis
    <2> QED
      BY <1>4, <2>1 DEF ReadDeletes
  <1>5. CASE ReadEdits(c)
    <2>1. TypeHandler'
      BY <1>5 DEF ReadEdits, HandlerAt, TypeHandler, TypeRedis
    <2> QED
      BY <1>5, <2>1 DEF ReadEdits
  <1>6. ASSUME RequestEnds(c) PROVE TypeHandler'
    <2>1. Nothing \in [Msgs -> Texts \cup {None}]
      BY RowsOf
    <2> QED
      BY <1>6, <2>1 DEF RequestEnds, TypeHandler
  <1>7. CASE Receive(c)
    <2>1. Fresh(c) \subseteq Msgs /\ Fresh(c) \subseteq Nat
      <3>1. Msgs \subseteq Nat
        BY DEF Msgs
      <3>2. Fresh(c) \subseteq Msgs
        BY MergedOf
      <3> QED
        BY <3>1, <3>2
    <2>2. TypeClient'
      BY <1>7, <2>1, MergedOf DEF Receive, TypeClient, TypeHandler, IsMax, Edits
    <2> QED
      BY <1>6, <1>7, <2>2 DEF Receive
  <1>8. CASE NetworkError(c)
    <2>1. TypeClient'
      BY <1>8 DEF NetworkError, TypeClient
    <2> QED
      BY <1>6, <1>8, <2>1, ChangeAssumption DEF NetworkError, Event
  <1>9. CASE OlderRequest(c)
    <2>1. PICK n \in MayBeFirst(c) :
             older' = [older EXCEPT ![c] = Rows({m \in Visible : m < n})]
      BY <1>9 DEF OlderRequest
    <2>2. {m \in Visible : m < n} \in SUBSET Msgs
      BY VisibleMsgs
    <2>3. TypeClient'
      BY <1>9, <2>1, <2>2, RowsOf DEF OlderRequest, TypeClient
    <2> QED
      BY <1>9, <2>3, ChangeAssumption DEF OlderRequest, Event
  <1>10. CASE OlderMerge(c)
    <2>1. Nothing \in [Msgs -> Texts \cup {None}]
      BY RowsOf
    <2>2. TypeClient'
      BY <1>10, <2>1 DEF OlderMerge, TypeClient
    <2> QED
      BY <1>10, <2>2 DEF OlderMerge
  <1>11. CASE LogReadFails(c)
    <2>1. TypeHandler'
      BY <1>11 DEF LogReadFails, HandlerAt, TypeHandler
    <2> QED
      BY <1>11, <2>1, ChangeAssumption DEF LogReadFails, Event
  <1> QED
    BY <1>1, <1>2, <1>3, <1>4, <1>5, <1>7, <1>8, <1>9, <1>10, <1>11 DEF PollStep

\* So TypeOK is preserved.
LEMMA TypeStep == TypeOK /\ [Next]_vars => TypeOK'
  <1>1. ASSUME TypeOK, UNCHANGED vars PROVE TypeOK'
    BY <1>1, TypeKept DEF TypeOK, vars
  <1> QED
    BY <1>1, TypeRequest, TypeServer, TypeWindow DEF Next

\* TypeOK: rows, logs, answers and windows are what the code takes them for.
THEOREM ChangeTypes == Spec => []TypeOK
  BY TypeInit, TypeStep, PTL DEF Spec

-----------------------------------------------------------------------------
(* The invariant.                                                          *)

\* Before any window opens there is nothing to say.
LEMMA IInvInit == Init => IInv
  <1> SUFFICES ASSUME Init PROVE IInv
    OBVIOUS
  <1> USE ChangeAssumption DEF Init
  <1>1. \A c \in Clients : Has(page[c]) = {} /\ Has(win[c]) = {} /\ Has(older[c]) = {}
    BY DEF Has, Nothing
  <1>2. LogsTrue /\ Unopened
    BY DEF LogsTrue, Unopened
  <1>3. Stored /\ NoGap
    BY <1>1 DEF Stored, NoGap, Passed, Msgs
  <1>4. PageWhole /\ WinKnown /\ OlderBelow /\ OnlyDeletedVanish
    BY <1>1 DEF PageWhole, WinKnown, OlderBelow, OnlyDeletedVanish
  <1> QED
    BY <1>2, <1>3, <1>4 DEF IInv

\* While no window and no poll moves, messages sent and rows marked keep
\* every part but LogsTrue.
LEMMA ServerKeeps ==
    ASSUME TypeOK, TypeOK', IInv, UNCHANGED <<handler, client>>,
           posted <= posted', deleted \subseteq deleted'
    PROVE  /\ Unopened' /\ Stored' /\ NoGap' /\ PageWhole'
           /\ WinKnown' /\ OlderBelow' /\ OnlyDeletedVanish'
  <1> USE DEF IInv, handler, client
  <1>1. posted \in Nat /\ posted' \in Nat /\ \A c \in Clients : cursor[c] \in Nat
    BY ChangeAssumption DEF TypeOK, TypeDatabase, TypeClient
  <1>2. Unopened'
    BY DEF Unopened
  <1>3. Stored'
    BY <1>1 DEF Stored, Has
  <1>4. NoGap'
    <2> SUFFICES ASSUME NEW c \in Clients, NEW m \in Passed(c),
                        \A n \in loaded[c] : n < m
                 PROVE  m \in seen[c] \cup deleted
      BY DEF NoGap, Passed
    <2>1. m <= posted
      BY <1>1 DEF Passed, Stored, Msgs
    <2> QED
      BY <2>1 DEF NoGap
  <1>5. PageWhole'
    BY DEF PageWhole, Has
  <1>6. WinKnown' /\ OlderBelow' /\ OnlyDeletedVanish'
    BY DEF WinKnown, OlderBelow, OnlyDeletedVanish, Below, Has
  <1> QED
    BY <1>2, <1>3, <1>4, <1>5, <1>6

\* DELETE, PATCH, SendMessage and the expiry of the keys.
LEMMA ServerStep ==
    ASSUME TypeOK, TypeOK', IInv,
           \/ Send \/ DeleteKeysExpire \/ EditKeysExpire
           \/ \E w \in Writers : DeleteRequest(w) \/ EditRequest(w) \/ WriterStops(w)
    PROVE  IInv'
  <1> USE DEF LogsTrue
  <1>0. posted \in Nat /\ LogsTrue
    BY ChangeAssumption DEF TypeOK, TypeDatabase, IInv
  <1>1. CASE Send
    BY <1>0, <1>1, ServerKeeps DEF Send, IInv, redis, writer, handler
  <1>2. CASE DeleteKeysExpire \/ EditKeysExpire
    BY <1>0, <1>2, ServerKeeps
    DEF DeleteKeysExpire, EditKeysExpire, IInv, database, writer, handler
  <1>3. ASSUME NEW w \in Writers, DeleteRequest(w) PROVE IInv'
    <2>1. ASSUME NEW m \in 1..posted, SoftDelete(w, m) PROVE IInv'
      <3>1. LogsTrue'
        BY <1>0, <2>1 DEF SoftDelete, WriterAt, TypeOK, TypeWriter, redis, handler
      <3> QED
        BY <1>0, <2>1, <3>1, ServerKeeps DEF SoftDelete, IInv
    <2>2. CASE IncrDelete(w)
      <3>1. LogsTrue'
        BY <1>0, <2>2 DEF IncrDelete, WriterAt, TypeOK, TypeWriter, database, handler
      <3> QED
        BY <1>0, <2>2, <3>1, ServerKeeps DEF IncrDelete, IInv, database
    <2>3. CASE LogDelete(w)
      <3>1. LogsTrue'
        BY <1>0, <2>3
        DEF LogDelete, WriterAt, TypeOK, TypeWriter, TypeRedis, database, handler
      <3> QED
        BY <1>0, <2>3, <3>1, ServerKeeps DEF LogDelete, IInv, database
    <2> QED
      BY <1>3, <2>1, <2>2, <2>3 DEF DeleteRequest, FinishDelete
  <1>4. ASSUME NEW w \in Writers, EditRequest(w) PROVE IInv'
    <2>1. ASSUME NEW m \in 1..posted, UpdateText(w, m) PROVE IInv'
      <3>1. LogsTrue'
        BY <1>0, <2>1 DEF UpdateText, WriterAt, TypeOK, TypeWriter, redis, handler
      <3> QED
        BY <1>0, <2>1, <3>1, ServerKeeps DEF UpdateText, IInv
    <2>2. CASE Reload(w)
      <3>1. LogsTrue'
        BY <1>0, <2>2 DEF Reload, WriterAt, TypeOK, TypeWriter, database, redis, handler
      <3> QED
        BY <1>0, <2>2, <3>1, ServerKeeps DEF Reload, IInv, database
    <2>3. CASE IncrEdit(w)
      <3>1. LogsTrue'
        BY <1>0, <2>3 DEF IncrEdit, WriterAt, TypeOK, TypeWriter, database, handler
      <3> QED
        BY <1>0, <2>3, <3>1, ServerKeeps DEF IncrEdit, IInv, database
    <2>4. CASE LogEdit(w)
      <3>1. LogsTrue'
        BY <1>0, <2>4 DEF LogEdit, WriterAt, TypeOK, TypeWriter, database, handler
      <3> QED
        BY <1>0, <2>4, <3>1, ServerKeeps DEF LogEdit, IInv, database
    <2> QED
      BY <1>4, <2>1, <2>2, <2>3, <2>4 DEF EditRequest, FinishEdit
  <1>5. ASSUME NEW w \in Writers, WriterStops(w) PROVE IInv'
    <2>1. LogsTrue'
      BY <1>0, <1>5 DEF WriterStops, TypeOK, TypeWriter, database, redis, handler
    <2> QED
      BY <1>0, <1>5, <2>1, ServerKeeps DEF WriterStops, IInv, database
  <1> QED
    BY <1>1, <1>2, <1>3, <1>4, <1>5

\* The steps of the handler: only the answer changes.
LEMMA HandlerStep ==
    ASSUME TypeOK, TypeOK', IInv, NEW c \in Clients,
           PollStart(c) \/ ReadMessages(c) \/ ReadDeletes(c) \/ ReadEdits(c) \/ LogReadFails(c)
    PROVE  IInv'
  <1> USE DEF IInv
  <1>0. UNCHANGED <<database, redis, writer, client>>
    BY DEF PollStart, ReadMessages, ReadDeletes, ReadEdits, LogReadFails
  <1>1. NoGap' /\ WinKnown' /\ OlderBelow' /\ OnlyDeletedVanish'
    BY <1>0 DEF NoGap, Passed, WinKnown, OlderBelow, OnlyDeletedVanish, Below, Has,
                database, client
  <1>2. Unopened'
    BY <1>0 DEF Unopened, PollStart, ReadMessages, ReadDeletes, ReadEdits, LogReadFails,
                HandlerAt, TypeOK, TypeHandler, client
  <1>3. CASE PollStart(c) \/ ReadEdits(c) \/ LogReadFails(c)
    <2>1. LogsTrue' /\ Stored'
      BY <1>0, <1>3 DEF LogsTrue, Stored, Has, PollStart, ReadEdits, LogReadFails,
                        database, redis, writer, client
    <2>2. PageWhole'
      BY <1>0, <1>3 DEF PageWhole, Has, PollStart, ReadEdits, LogReadFails, HandlerAt,
                        TypeOK, TypeHandler, database, client
    <2> QED
      BY <1>1, <1>2, <2>1, <2>2
  <1>4. CASE ReadMessages(c)
    <2> DEFINE S == {m \in Visible : m > cursor[c]}
    <2>1. S \in SUBSET Msgs /\ cursor[c] \in Nat /\ Msgs \subseteq Nat
      <3>1. S \in SUBSET Msgs
        BY VisibleMsgs
      <3>2. cursor[c] \in Nat
        BY DEF TypeOK, TypeClient
      <3> QED
        BY <3>1, <3>2, ChangeAssumption DEF Msgs
    <2>2. Has(page'[c]) = S \/ page'[c] = Nothing
      <3>1. page'[c] = Rows(S) \/ page'[c] = Nothing
        BY <1>4 DEF ReadMessages, TypeOK, TypeHandler
      <3>2. Has(Rows(S)) = S
        BY <2>1, RowsOf
      <3> QED
        BY <3>1, <3>2 DEF Has
    <2>3. Has(Nothing) = {} /\ \A d \in Clients : d # c => page'[d] = page[d]
      BY <1>4, RowsOf DEF ReadMessages, TypeOK, TypeHandler
    <2>4. LogsTrue'
      BY <1>0, <1>4 DEF LogsTrue, ReadMessages, database, redis, writer
    <2>5. Stored'
      <3>1. S \subseteq 1..posted
        BY DEF Visible
      <3> QED
        BY <1>0, <2>2, <2>3, <3>1 DEF Stored, Has, database, client
    <2>6. PageWhole'
      <3>1. \A m \in S, n \in Msgs : cursor[c] < n /\ n <= m => n \in S \cup deleted
        BY <2>1 DEF Visible, TypeOK, TypeDatabase, Msgs
      <3>2. hpc'[c] # "none" /\ \A d \in Clients : d # c => hpc'[d] = hpc[d]
        BY <1>4 DEF ReadMessages, HandlerAt, TypeOK, TypeHandler
      <3>3. \A d \in Clients : d # c => Has(page[d])' = Has(page[d])
        BY <2>3 DEF Has
      <3>4. Has(page[c])' = S \/ Has(page[c])' = {}
        BY <2>2, <2>3 DEF Has
      <3> HIDE DEF S
      <3> QED
        BY <1>0, <2>3, <3>1, <3>2, <3>3, <3>4 DEF PageWhole, database, client
    <2> QED
      BY <1>1, <1>2, <2>4, <2>5, <2>6
  <1>5. CASE ReadDeletes(c)
    <2>1. DeletesSince(c) \subseteq deleted
      BY DEF DeletesSince, LogsTrue, TypeOK, TypeClient, TypeRedis
    <2>2. LogsTrue'
      BY <1>0, <1>5, <2>1 DEF LogsTrue, ReadDeletes, TypeOK, TypeHandler, database,
                              redis, writer
    <2>3. Stored'
      BY <1>0, <1>5 DEF Stored, Has, ReadDeletes, database, client
    <2>4. PageWhole'
      BY <1>0, <1>5 DEF PageWhole, Has, ReadDeletes, HandlerAt, TypeOK, TypeHandler,
                        database, client
    <2> QED
      BY <1>1, <1>2, <2>2, <2>3, <2>4
  <1> QED
    BY <1>3, <1>4, <1>5

\* The initial load: every message it leaves out is older or deleted.
LEMMA LoadStep ==
    ASSUME TypeOK, TypeOK', IInv, NEW c \in Clients, LoadWindow(c)
    PROVE  IInv'
  <1> DEFINE latest == {m \in Visible : Cardinality({n \in Visible : m < n}) < InitPage}
  <1>1. PICK b \in latest \cup {0} :
          /\ IsMax(b, latest \cup {0}) /\ ~opened[c]
          /\ win' = [win EXCEPT ![c] = Rows(latest)]
          /\ loaded' = [loaded EXCEPT ![c] = latest]
          /\ cursor' = [cursor EXCEPT ![c] = b]
          /\ opened' = [opened EXCEPT ![c] = TRUE]
          /\ UNCHANGED <<database, redis, writer, handler, seen, older>>
    BY DEF LoadWindow
  <1>2. latest \in SUBSET Msgs /\ latest \subseteq 1..posted
    BY VisibleMsgs DEF Visible
  <1>3. Has(Rows(latest)) = latest /\ Has(Nothing) = {}
    BY <1>2, RowsOf
  <1> HIDE DEF latest
  <1>4. /\ win'[c] = Rows(latest) /\ loaded'[c] = latest /\ cursor'[c] = b /\ opened'[c]
        /\ \A d \in Clients \ {c} : /\ win'[d] = win[d] /\ loaded'[d] = loaded[d]
                                    /\ cursor'[d] = cursor[d] /\ opened'[d] = opened[d]
    BY <1>1 DEF TypeOK, TypeClient
  <1>5. seen[c] = {} /\ older[c] = Nothing /\ hpc[c] = "none" /\ page[c] = Nothing
    BY <1>1 DEF IInv, Unopened, PageWhole
  <1>6. posted \in Nat /\ b \in Nat /\ (b \in latest \/ b = 0)
    BY <1>1, <1>2, ChangeAssumption DEF TypeOK, TypeDatabase, Msgs
  <1> USE DEF IInv, database, redis, writer, handler
  <1>7. LogsTrue' /\ Unopened'
    BY <1>1, <1>4 DEF LogsTrue, Unopened
  <1>8. Stored'
    <2>1. b <= posted
      BY <1>2, <1>6
    <2>2. Has(page[c])' = {} /\ \A d \in Clients : Has(page[d])' = Has(page[d])
      BY <1>1, <1>3, <1>5 DEF Has
    <2> QED
      BY <1>1, <1>2, <1>4, <1>5, <2>1, <2>2 DEF Stored
  <1>9. NoGap'
    <2> SUFFICES ASSUME NEW d \in Clients, NEW m \in Msgs, m \in Passed(d)',
                        m <= posted, \A n \in loaded'[d] : n < m
                 PROVE  m \in seen[d] \cup deleted
      BY <1>1 DEF NoGap, Passed
    <2>1. CASE d = c
      <3>1. m <= b /\ m >= 1 /\ b # 0
        BY <1>1, <1>4, <1>5, <1>6, <2>1 DEF Passed, Msgs
      <3>2. b < m
        BY <1>4, <1>6, <2>1, <3>1
      <3> QED
        BY <1>6, <3>1, <3>2 DEF Msgs
    <2>2. CASE d # c
      BY <1>1, <1>4, <2>2 DEF NoGap, Passed
    <2> QED
      BY <2>1, <2>2
  <1>10. PageWhole'
    BY <1>1, <1>3, <1>4, <1>5 DEF PageWhole, Has
  <1>11. WinKnown' /\ OlderBelow' /\ OnlyDeletedVanish'
    BY <1>1, <1>3, <1>4, <1>5 DEF WinKnown, OlderBelow, OnlyDeletedVanish, Below, Has
  <1> QED
    BY <1>7, <1>8, <1>9, <1>10, <1>11

\* An answer is merged: whatever the cursors pass is in the window or gone.
LEMMA ReceiveStep ==
    ASSUME TypeOK, TypeOK', IInv, NEW c \in Clients, Receive(c)
    PROVE  IInv'
  <1>1. PICK b \in Fresh(c) \cup {cursor[c]} :
          /\ IsMax(b, Fresh(c) \cup {cursor[c]})
          /\ hpc[c] = "answer" /\ hpc' = [hpc EXCEPT ![c] = "none"]
          /\ page' = [page EXCEPT ![c] = Nothing]
          /\ newDeletes' = [newDeletes EXCEPT ![c] = {}]
          /\ win' = [win EXCEPT ![c] = Merged(c)]
          /\ seen' = [seen EXCEPT ![c] = @ \cup Fresh(c)]
          /\ cursor' = [cursor EXCEPT ![c] = b]
          /\ UNCHANGED <<database, redis, writer, opened, loaded, older>>
    BY DEF Receive, RequestEnds
  <1>2. /\ Has(Merged(c)) = (Has(win[c]) \ newDeletes[c]) \cup Fresh(c)
        /\ Fresh(c) \subseteq Has(page[c]) /\ Has(page[c]) \subseteq Msgs
        /\ Has(page[c]) \ Fresh(c) \subseteq seen[c] /\ Has(Nothing) = {}
    BY MergedOf, RowsOf DEF Fresh
  <1>3. /\ win'[c] = Merged(c) /\ seen'[c] = seen[c] \cup Fresh(c) /\ cursor'[c] = b
        /\ page'[c] = Nothing /\ newDeletes'[c] = {} /\ hpc'[c] = "none"
        /\ \A d \in Clients \ {c} :
              /\ win'[d] = win[d] /\ seen'[d] = seen[d] /\ cursor'[d] = cursor[d]
              /\ page'[d] = page[d] /\ newDeletes'[d] = newDeletes[d] /\ hpc'[d] = hpc[d]
    BY <1>1 DEF TypeOK, TypeClient, TypeHandler
  <1>4. opened[c]
    BY <1>1 DEF IInv, Unopened
  <1>5. cursor[c] \in Nat /\ posted \in Nat /\ Msgs \subseteq Nat
    BY ChangeAssumption DEF TypeOK, TypeClient, TypeDatabase, Msgs
  <1> USE DEF IInv, database, redis, writer
  <1>6. LogsTrue' /\ Unopened'
    BY <1>1, <1>3, <1>4 DEF LogsTrue, Unopened
  <1>7. Stored'
    <2>1. Has(page[c])' = {} /\ \A d \in Clients \ {c} : Has(page[d])' = Has(page[d])
      BY <1>2, <1>3 DEF Has
    <2> QED
      BY <1>1, <1>2, <1>3, <1>5, <2>1 DEF Stored
  <1>8. NoGap'
    <2> SUFFICES ASSUME NEW d \in Clients, NEW m \in Msgs, m \in Passed(d)',
                        m <= posted, \A n \in loaded[d] : n < m
                 PROVE  m \in seen'[d] \cup deleted
      BY <1>1 DEF NoGap, Passed
    <2>1. CASE d = c /\ m \notin Passed(c)
      <3>1. PICK k \in Fresh(c) : m <= k
        BY <1>1, <1>3, <2>1 DEF Passed
      <3>2. cursor[c] < m
        BY <1>5, <2>1 DEF Passed
      <3> QED
        BY <1>2, <1>3, <2>1, <3>1, <3>2 DEF PageWhole
    <2>2. CASE d # c \/ m \in Passed(c)
      BY <1>1, <1>3, <2>2 DEF NoGap, Passed
    <2> QED
      BY <2>1, <2>2
  <1>9. PageWhole'
    BY <1>1, <1>2, <1>3 DEF PageWhole, Has
  <1>10. Has(win[c])' = (Has(win[c]) \ newDeletes[c]) \cup Fresh(c)
         /\ \A d \in Clients \ {c} : Has(win[d])' = Has(win[d])
    BY <1>2, <1>3 DEF Has
  <1>11. WinKnown' /\ OlderBelow'
    BY <1>1, <1>3, <1>10 DEF WinKnown, OlderBelow, Below, Has
  <1>12. OnlyDeletedVanish'
    BY <1>1, <1>3, <1>10 DEF OnlyDeletedVanish, LogsTrue
  <1> QED
    BY <1>6, <1>7, <1>8, <1>9, <1>11, <1>12

\* A failed poll: the cursor steps back, what it had passed stays passed.
LEMMA ErrorStep ==
    ASSUME TypeOK, TypeOK', IInv, NEW c \in Clients, NetworkError(c)
    PROVE  IInv'
  <1>1. /\ hpc[c] # "none" /\ hpc' = [hpc EXCEPT ![c] = "none"]
        /\ page' = [page EXCEPT ![c] = Nothing]
        /\ newDeletes' = [newDeletes EXCEPT ![c] = {}]
        /\ cursor' = [cursor EXCEPT ![c] = IF @ > 0 THEN @ - 1 ELSE 0]
        /\ UNCHANGED <<database, redis, writer, opened, win, loaded, seen, older>>
    BY DEF NetworkError, RequestEnds
  <1>2. Has(Nothing) = {}
    BY RowsOf
  <1>3. /\ page'[c] = Nothing /\ newDeletes'[c] = {} /\ hpc'[c] = "none" /\ opened[c]
        /\ \A d \in Clients \ {c} :
              /\ cursor'[d] = cursor[d] /\ page'[d] = page[d]
              /\ newDeletes'[d] = newDeletes[d] /\ hpc'[d] = hpc[d]
    BY <1>1 DEF TypeOK, TypeClient, TypeHandler, IInv, Unopened
  <1>4. /\ \A d \in Clients : cursor'[d] \in Nat /\ cursor[d] \in Nat /\ cursor'[d] <= cursor[d]
        /\ posted \in Nat /\ Msgs \subseteq Nat
    BY <1>1, ChangeAssumption DEF TypeOK, TypeClient, TypeDatabase, Msgs
  <1> USE DEF IInv, database, redis, writer
  <1>5. LogsTrue' /\ Unopened'
    BY <1>1, <1>3 DEF LogsTrue, Unopened
  <1>6. Has(page[c])' = {} /\ \A d \in Clients \ {c} : Has(page[d])' = Has(page[d])
    BY <1>2, <1>3 DEF Has
  <1>7. Stored'
    BY <1>1, <1>4, <1>6 DEF Stored
  <1>8. NoGap'
    <2>1. \A d \in Clients : Passed(d)' \subseteq Passed(d)
      <3> SUFFICES ASSUME NEW d \in Clients, NEW m \in Msgs, m <= cursor'[d]
                   PROVE  m <= cursor[d]
        BY <1>1 DEF Passed
      <3> QED
        BY <1>4
    <2> QED
      BY <1>1, <2>1 DEF NoGap
  <1>9. PageWhole'
    BY <1>1, <1>3, <1>6 DEF PageWhole
  <1>10. WinKnown' /\ OlderBelow' /\ OnlyDeletedVanish'
    BY <1>1 DEF WinKnown, OlderBelow, OnlyDeletedVanish, Below, Has
  <1> QED
    BY <1>5, <1>7, <1>8, <1>9, <1>10

\* Scrolling up: what comes is older than the initial load.
LEMMA OlderStep ==
    ASSUME TypeOK, TypeOK', IInv, NEW c \in Clients, OlderRequest(c) \/ OlderMerge(c)
    PROVE  IInv'
  <1> USE DEF IInv, database, redis, writer, handler
  <1>1. UNCHANGED <<database, redis, writer, handler, opened, loaded, seen, cursor>>
    BY DEF OlderRequest, OlderMerge
  <1>2. Has(Nothing) = {} /\ loaded[c] \cup seen[c] \subseteq Nat /\ Msgs \subseteq Nat
    <2>1. Has(Nothing) = {}
      BY RowsOf
    <2>2. Msgs \subseteq Nat /\ loaded[c] \cup seen[c] \subseteq Msgs
      BY ChangeAssumption DEF TypeOK, TypeClient, Msgs
    <2> QED
      BY <2>1, <2>2
  <1>3. LogsTrue' /\ Stored' /\ NoGap' /\ PageWhole'
    BY <1>1 DEF LogsTrue, Stored, NoGap, Passed, PageWhole, Has
  <1>4. CASE OlderRequest(c)
    <2>0. PICK w \in MayBeFirst(c) :
             older' = [older EXCEPT ![c] = Rows({m \in Visible : m < w})]
      BY <1>4 DEF OlderRequest
    <2> DEFINE S == {m \in Visible : m < w}
    <2>1. /\ w \in Has(win[c]) /\ older' = [older EXCEPT ![c] = Rows(S)]
          /\ UNCHANGED win
      BY <1>4, <2>0 DEF OlderRequest, MayBeFirst
    <2>2. S \in SUBSET Msgs
      BY VisibleMsgs
    <2>3. \A m \in S : Below(c, m)
      <3> SUFFICES ASSUME NEW m \in S, ~Below(c, m) PROVE FALSE
        OBVIOUS
      <3>1. m < w
        OBVIOUS
      <3>2. m \in Msgs /\ m \notin deleted /\ m <= posted /\ w \in Msgs
        BY <2>1, <2>2 DEF Visible, Has
      <3>3. m \notin loaded[c] \cup seen[c]
        <4>1. m \notin Has(win[c])
          BY <3>1 DEF MayBeFirst, Below
        <4> QED
          BY <3>2, <4>1 DEF OnlyDeletedVanish
      <3>4. \A n \in loaded[c] : n < m
        <4> SUFFICES ASSUME NEW n \in loaded[c] PROVE n < m
          OBVIOUS
        <4>1. m \in Nat /\ n \in Nat /\ n # m /\ ~(m < n)
          BY <1>2, <3>2, <3>3 DEF Below
        <4> QED
          BY <4>1
      <3>5. w \in seen[c]
        <4> SUFFICES ASSUME w \notin seen[c] PROVE FALSE
          OBVIOUS
        <4>1. w \in loaded[c] \/ Below(c, w)
          BY <2>1 DEF WinKnown
        <4>2. PICK n \in loaded[c] : w = n \/ w < n
          BY <4>1 DEF Below
        <4>3. n < m /\ m < w /\ n \in Nat /\ m \in Nat /\ w \in Nat
          BY <1>2, <3>1, <3>2, <3>4
        <4> QED
          BY <4>2, <4>3
      <3>6. m \in Passed(c)
        <4>1. m \in Nat /\ w \in Nat /\ m < w
          BY <1>2, <3>1, <3>2
        <4>2. m <= w
          BY <4>1
        <4> QED
          BY <3>2, <3>5, <4>2 DEF Passed
      <3> QED
        BY <3>2, <3>3, <3>4, <3>6 DEF NoGap
    <2>4. Has(older[c])' = S /\ \A d \in Clients \ {c} : older'[d] = older[d]
      BY <2>1, <2>2, RowsOf DEF TypeOK, TypeClient, Has
    <2>5. Unopened'
      <3>1. opened[c]
        BY <1>2, <2>1 DEF Unopened
      <3> QED
        BY <1>1, <2>1, <2>4, <3>1 DEF Unopened
    <2> HIDE DEF S
    <2>6. OlderBelow'
      BY <1>1, <2>3, <2>4 DEF OlderBelow, Below, Has
    <2>7. WinKnown' /\ OnlyDeletedVanish'
      BY <1>1, <2>1 DEF WinKnown, OnlyDeletedVanish, Below, Has
    <2> QED
      BY <1>3, <2>5, <2>6, <2>7
  <1>5. CASE OlderMerge(c)
    <2>1. /\ older[c] # Nothing /\ older' = [older EXCEPT ![c] = Nothing]
          /\ win' = [win EXCEPT ![c] =
                [m \in Msgs |-> IF win[c][m] # None THEN win[c][m] ELSE older[c][m]]]
      BY <1>5 DEF OlderMerge
    <2>2. /\ Has(win[c])' = Has(win[c]) \cup Has(older[c]) /\ older'[c] = Nothing
          /\ \A d \in Clients \ {c} : win'[d] = win[d] /\ older'[d] = older[d]
      BY <2>1 DEF TypeOK, TypeClient, Has
    <2>3. Unopened'
      BY <1>1, <2>1, <2>2 DEF Unopened
    <2>4. WinKnown' /\ OlderBelow'
      BY <1>1, <1>2, <2>2 DEF WinKnown, OlderBelow, Below, Has
    <2>5. OnlyDeletedVanish'
      BY <1>1, <2>2 DEF OnlyDeletedVanish, Has
    <2> QED
      BY <1>3, <2>3, <2>4, <2>5
  <1> QED
    BY <1>4, <1>5

-----------------------------------------------------------------------------
\* The invariant holds in every state.
LEMMA Invariance == Spec => [](TypeOK /\ IInv)
  <1>1. Init => TypeOK /\ IInv
    BY TypeInit, IInvInit
  <1>2. TypeOK /\ IInv /\ [Next]_vars => (TypeOK /\ IInv)'
    <2> SUFFICES ASSUME TypeOK, IInv, [Next]_vars PROVE IInv'
      BY TypeStep
    <2>1. TypeOK'
      BY TypeStep
    <2>2. CASE UNCHANGED vars
      <3>1. LogsTrue'
        BY <2>2 DEF LogsTrue, IInv, vars, database, redis, writer, handler
      <3> QED
        BY <2>1, <2>2, <3>1, ServerKeeps, ChangeAssumption
        DEF IInv, vars, database, TypeOK, TypeDatabase
    <2>3. CASE Next
      BY <2>1, <2>3, ServerStep, HandlerStep, LoadStep, ReceiveStep, ErrorStep, OlderStep
      DEF Next, PollStep
    <2> QED
      BY <2>2, <2>3
  <1> QED
    BY <1>1, <1>2, PTL DEF Spec

\* OnlyDeletedVanish: windows lose nothing that was not deleted.
THEOREM WindowsKeep == Spec => []OnlyDeletedVanish
  <1>1. IInv => OnlyDeletedVanish
    BY DEF IInv
  <1> QED
    BY <1>1, Invariance, PTL

\* StaysRemoved: what a poll brought and a deletion took does not come back.
THEOREM RemovedForGood == Spec => StaysRemoved
  <1> DEFINE Stays == \A c \in Clients : \A m \in Newer(c) : win[c][m] = None => win'[c][m] = None
  <1>1. TypeOK /\ IInv /\ [Next]_vars => [Stays]_vars
    <2> SUFFICES ASSUME TypeOK, IInv, [Next]_vars,
                        NEW c \in Clients, NEW m \in Newer(c), win[c][m] = None
                 PROVE  win'[c][m] = None
      OBVIOUS
    <2>1. m \in Msgs /\ m \in seen[c] /\ opened[c]
      BY DEF Newer, TypeOK, TypeClient, IInv, Unopened
    <2>2. CASE UNCHANGED win
      BY <2>2
    <2>3. ASSUME NEW d \in Clients, LoadWindow(d) PROVE win'[c][m] = None
      BY <2>1, <2>3 DEF LoadWindow, TypeOK, TypeClient
    <2>4. ASSUME NEW d \in Clients, Receive(d) PROVE win'[c][m] = None
      <3>1. CASE d = c
        <4>1. m \notin Has(win[c]) /\ m \notin Fresh(c)
          BY <2>1 DEF Has, Fresh
        <4>2. win'[c] = Merged(c)
          BY <2>4, <3>1 DEF Receive, TypeOK, TypeClient
        <4> QED
          BY <2>1, <4>1, <4>2 DEF Merged
      <3>2. CASE d # c
        BY <2>4, <3>2 DEF Receive, TypeOK, TypeClient
      <3> QED
        BY <3>1, <3>2
    <2>5. ASSUME NEW d \in Clients, OlderMerge(d) PROVE win'[c][m] = None
      <3>1. CASE d = c
        <4>1. m \notin Has(older[c])
          BY <2>1 DEF IInv, OlderBelow, Below, Newer, TypeOK, TypeClient, Msgs
        <4> QED
          BY <2>1, <2>5, <3>1, <4>1 DEF OlderMerge, Has, TypeOK, TypeClient
      <3>2. CASE d # c
        BY <2>5, <3>2 DEF OlderMerge, TypeOK, TypeClient
      <3> QED
        BY <3>1, <3>2
    <2>6. ASSUME Next
          PROVE  \/ UNCHANGED win
                 \/ \E d \in Clients : LoadWindow(d) \/ Receive(d) \/ OlderMerge(d)
      BY <2>6
      DEF Next, PollStep, Send, DeleteKeysExpire, EditKeysExpire, DeleteRequest, EditRequest,
          FinishDelete, FinishEdit, SoftDelete, IncrDelete, LogDelete, UpdateText, Reload,
          IncrEdit, LogEdit, WriterStops, PollStart, ReadMessages, ReadDeletes, ReadEdits,
          LogReadFails, NetworkError, OlderRequest, client
    <2>7. CASE UNCHANGED vars
      BY <2>2, <2>7 DEF vars, client
    <2> QED
      BY <2>2, <2>3, <2>4, <2>5, <2>6, <2>7
  <1> QED
    BY <1>1, Invariance, PTL DEF Spec, StaysRemoved

-----------------------------------------------------------------------------
(* Cursors and logs.  With several writers PassedDeletions and PassedEdits *)
(* hold as long as the numbers of a log reach it in the order in which     *)
(* INCR gave them, no key expires and no poll is lost on its way.          *)

\* At most one DELETE is between INCR and ZADD.
DeletesInTurn ==
    \A v, w \in Writers : wpc[v] = "logDelete" /\ wpc[w] = "logDelete" => v = w

\* What the initial load brought comes neither with a poll nor with a page
\* of older messages.
LoadedApart ==
    \A c \in Clients :
        /\ \A m \in loaded[c] : m <= cursor[c]
        /\ loaded[c] \cap (Has(page[c]) \cup Has(older[c])) = {}

\* The number a DELETE is about to log is beyond the log, every answer and
\* every cursor.
DeleteNumbers ==
    /\ \A m \in Msgs : deleteLog[m] <= deleteSeq
    /\ \A c \in Clients : delCursor[c] <= deleteSeq /\ lastDelete[c] <= deleteSeq
    /\ \A w \in Writers : wpc[w] = "logDelete" =>
          /\ wseq[w] <= deleteSeq
          /\ \A m \in Msgs : deleteLog[m] < wseq[w]
          /\ \A c \in Clients : delCursor[c] < wseq[w] /\ lastDelete[c] < wseq[w]

\* An answer has every deletion between the cursor and its last number.
DeletesRead ==
    \A c \in Clients : \A m \in Msgs :
        deleteLog[m] # 0 /\ deleteLog[m] <= lastDelete[c]
            => deleteLog[m] <= delCursor[c] \/ m \in newDeletes[c]

DeletesInv == DeleteNumbers /\ DeletesRead /\ PassedDeletions

\* The steps that change neither a window, its cursors nor an answer's rows.
Aside ==
    \/ Send \/ DeleteKeysExpire \/ EditKeysExpire
    \/ \E w \in Writers : DeleteRequest(w) \/ EditRequest(w) \/ WriterStops(w)
    \/ \E c \in Clients : PollStart(c) \/ ReadDeletes(c) \/ ReadEdits(c) \/ LogReadFails(c)
    \/ UNCHANGED vars

\* What such steps leave alone.
LEMMA AsideKeeps == Aside => UNCHANGED <<page, client>>
  BY DEF Aside, Send, DeleteKeysExpire, EditKeysExpire, DeleteRequest, EditRequest,
         FinishDelete, FinishEdit, SoftDelete, IncrDelete, LogDelete, UpdateText, Reload,
         IncrEdit, LogEdit, WriterStops, PollStart, ReadDeletes, ReadEdits, LogReadFails, handler,
         vars

\* Polls go on from the newest message loaded, older pages end before what
\* is shown of the load: LoadedApart is preserved.
LEMMA ApartStep ==
    ASSUME TypeOK, TypeOK', IInv, LoadedApart, [Next]_vars, "network" \notin Events
    PROVE  LoadedApart'
  <1> USE DEF LoadedApart, client
  <1>0. Has(Nothing) = {} /\ Msgs \subseteq Nat
    <2>1. Has(Nothing) = {}
      BY RowsOf
    <2> QED
      BY <2>1, ChangeAssumption DEF Msgs
  <1>1. CASE Aside
    BY <1>1, AsideKeeps DEF Has
  <1>2. ASSUME NEW c \in Clients, LoadWindow(c) PROVE LoadedApart'
    <2> DEFINE latest == {m \in Visible : Cardinality({n \in Visible : m < n}) < InitPage}
    <2>1. PICK b \in latest \cup {0} :
            /\ IsMax(b, latest \cup {0}) /\ ~opened[c]
            /\ loaded' = [loaded EXCEPT ![c] = latest]
            /\ cursor' = [cursor EXCEPT ![c] = b]
            /\ UNCHANGED <<page, older>>
      BY <1>2 DEF LoadWindow, handler
    <2> HIDE DEF latest
    <2>2. page[c] = Nothing /\ older[c] = Nothing
      BY <2>1 DEF IInv, Unopened, PageWhole
    <2> QED
      BY <1>0, <2>1, <2>2 DEF IsMax, TypeOK, TypeClient, Has
  <1>3. ASSUME NEW c \in Clients, ReadMessages(c) PROVE LoadedApart'
    <2> DEFINE S == {m \in Visible : m > cursor[c]}
    <2>1. S \in SUBSET Msgs
      BY VisibleMsgs
    <2>2. loaded[c] \cap S = {}
      <3> SUFFICES ASSUME NEW m \in loaded[c], m \in S PROVE FALSE
        OBVIOUS
      <3>1. m \in Nat /\ cursor[c] \in Nat
        BY <1>0 DEF TypeOK, TypeClient
      <3>2. m > cursor[c] /\ m <= cursor[c]
        OBVIOUS
      <3> QED
        BY <3>1, <3>2
    <2>3. Has(Rows(S)) = S
      BY <2>1, RowsOf
    <2>4. /\ page'[c] = Rows(S) \/ page'[c] = Nothing
          /\ \A d \in Clients \ {c} : page'[d] = page[d]
          /\ UNCHANGED client
      BY <1>3 DEF ReadMessages, TypeOK, TypeHandler
    <2> HIDE DEF S
    <2> QED
      BY <1>0, <2>2, <2>3, <2>4 DEF Has
  <1>4. ASSUME NEW c \in Clients, Receive(c) PROVE LoadedApart'
    <2>1. PICK b \in Fresh(c) \cup {cursor[c]} :
            /\ IsMax(b, Fresh(c) \cup {cursor[c]})
            /\ page' = [page EXCEPT ![c] = Nothing]
            /\ cursor' = [cursor EXCEPT ![c] = b]
            /\ UNCHANGED <<loaded, older>>
      BY <1>4 DEF Receive, RequestEnds
    <2>2. cursor'[c] \in Nat /\ cursor[c] <= cursor'[c]
      BY <2>1 DEF IsMax, TypeOK, TypeClient
    <2>3. \A m \in loaded[c] : m \in Nat /\ m <= cursor[c] /\ cursor[c] \in Nat
      BY <1>0 DEF TypeOK, TypeClient
    <2>4. \A m \in loaded[c] : m <= cursor'[c]
      BY <2>2, <2>3
    <2>5. \A d \in Clients \ {c} : cursor'[d] = cursor[d] /\ page'[d] = page[d]
      BY <2>1 DEF TypeOK, TypeClient, TypeHandler
    <2>6. page'[c] = Nothing
      BY <2>1 DEF TypeOK, TypeHandler
    <2> QED
      BY <1>0, <2>1, <2>4, <2>5, <2>6 DEF Has
  <1>5. ASSUME NEW c \in Clients, OlderRequest(c) PROVE LoadedApart'
    <2>1. PICK w \in MayBeFirst(c) :
            older' = [older EXCEPT ![c] = Rows({m \in Visible : m < w})]
      BY <1>5 DEF OlderRequest
    <2> DEFINE S == {m \in Visible : m < w}
    <2>2. S \in SUBSET Msgs
      BY VisibleMsgs
    <2>3. loaded[c] \cap S = {}
      <3> SUFFICES ASSUME NEW m \in loaded[c], m \in S PROVE FALSE
        OBVIOUS
      <3>1. m \in Has(win[c]) /\ m < w
        BY DEF IInv, OnlyDeletedVanish, Visible
      <3> QED
        BY <3>1 DEF MayBeFirst
    <2>4. Has(older'[c]) = S /\ \A d \in Clients \ {c} : older'[d] = older[d]
      BY <2>1, <2>2, RowsOf DEF TypeOK, TypeClient
    <2> HIDE DEF S
    <2> QED
      BY <1>5, <2>3, <2>4 DEF OlderRequest, handler, Has
  <1>6. ASSUME NEW c \in Clients, OlderMerge(c) PROVE LoadedApart'
    <2>1. older'[c] = Nothing /\ \A d \in Clients \ {c} : older'[d] = older[d]
      BY <1>6 DEF OlderMerge, TypeOK, TypeClient
    <2> QED
      BY <1>0, <1>6, <2>1 DEF OlderMerge, handler, Has
  <1> QED
    BY <1>1, <1>2, <1>3, <1>4, <1>5, <1>6 DEF Next, PollStep, Aside, NetworkError, Event

\* The largest of naturals that a bound limits.
LEMMA LargestOf ==
    ASSUME NEW S \in SUBSET Nat, S # {}, NEW b \in Nat, \A n \in S : n <= b
    PROVE  \E m \in S : IsMax(m, S)
  <1> DEFINE T == {b - n : n \in S}
  <1>1. T \subseteq Nat /\ T # {}
    <2>1. \A n \in S : n \in Nat /\ n <= b
      OBVIOUS
    <2>2. \A n \in S : b - n \in Nat
      BY <2>1
    <2> QED
      BY <2>2
  <1> HIDE DEF T
  <1>2. PICK x \in T : \A y \in T : ~(<<y, x>> \in OpToRel(<, Nat))
    BY <1>1, NatLessThanWellFounded, WFMin
  <1>3. \A y \in T : ~(y < x)
    BY <1>1, <1>2 DEF OpToRel
  <1>4. PICK m \in S : x = b - m
    BY DEF T
  <1>5. ASSUME NEW n \in S PROVE n <= m
    <2>1. b - n \in T
      BY DEF T
    <2>2. n \in Nat /\ m \in Nat /\ ~(b - n < b - m)
      BY <1>3, <1>4, <2>1
    <2> QED
      BY <2>2
  <1> QED
    BY <1>5 DEF IsMax

-----------------------------------------------------------------------------
(* The delete log.                                                         *)

\* At the beginning nothing is loaded, logged or under way.
LEMMA DeletesInit == Init => LoadedApart /\ DeletesInv
  BY RowsOf, ChangeAssumption
  DEF Init, LoadedApart, DeletesInv, DeleteNumbers, DeletesRead, PassedDeletions, Has, Nothing

\* The types that the delete log needs.
LEMMA DeleteTypes ==
    ASSUME TypeOK
    PROVE  /\ deleteSeq \in Nat /\ deleteLog \in [Msgs -> Nat]
           /\ wseq \in [Writers -> Nat] /\ lastDelete \in [Clients -> Nat]
           /\ delCursor \in [Clients -> Nat] /\ newDeletes \in [Clients -> SUBSET Msgs]
           /\ wpc \in [Writers -> {"idle", "incrDelete", "logDelete", "reload", "incrEdit", "logEdit"}]
           /\ \A w \in Writers : wpc[w] # "idle" => wmsg[w] \in Msgs
           /\ \A c \in Clients : loaded[c] \subseteq Msgs
  BY DEF TypeOK, TypeRedis, TypeWriter, TypeHandler, TypeClient

\* No window changes, and no DELETE comes from INCR or goes to ZADD.
LEMMA DeletesKept ==
    ASSUME DeletesInv,
           UNCHANGED <<deleteSeq, deleteLog, lastDelete, newDeletes, delCursor, loaded, win>>,
           \A w \in Writers : wpc'[w] = "logDelete" =>
               wpc[w] = "logDelete" /\ wseq'[w] = wseq[w]
    PROVE  DeletesInv'
  BY DEF DeletesInv, DeleteNumbers, DeletesRead, PassedDeletions

\* INCR and ZADD of a DELETE.
LEMMA DeletesLogged ==
    ASSUME TypeOK, DeletesInTurn, DeletesInv, NEW w \in Writers, IncrDelete(w) \/ LogDelete(w)
    PROVE  DeletesInv'
  <1> USE DeleteTypes
  <1>1. CASE IncrDelete(w)
    <2>1. /\ deleteSeq' = deleteSeq + 1 /\ wseq' = [wseq EXCEPT ![w] = deleteSeq + 1]
          /\ wpc' = [wpc EXCEPT ![w] = "logDelete"]
          /\ UNCHANGED <<deleteLog, lastDelete, newDeletes, delCursor, loaded, win>>
      BY <1>1 DEF IncrDelete, WriterAt, handler, client
    <2>2. wseq'[w] = deleteSeq + 1
          /\ \A v \in Writers \ {w} : wseq'[v] = wseq[v] /\ wpc'[v] = wpc[v]
      BY <2>1
    <2>3. DeleteNumbers'
      BY <2>1, <2>2 DEF DeletesInv, DeleteNumbers
    <2> QED
      BY <2>1, <2>3 DEF DeletesInv, DeletesRead, PassedDeletions
  <1>2. CASE LogDelete(w)
    <2>1. /\ wpc[w] = "logDelete" /\ wpc' = [wpc EXCEPT ![w] = "idle"]
          /\ deleteLog' = [deleteLog EXCEPT ![wmsg[w]] = wseq[w]]
          /\ UNCHANGED <<deleteSeq, wseq, lastDelete, newDeletes, delCursor, loaded, win>>
      BY <1>2 DEF LogDelete, WriterAt, handler, client
    <2>2. \A m \in Msgs : deleteLog'[m] = deleteLog[m] \/ deleteLog'[m] = wseq[w]
      BY <2>1
    <2>3. \A v \in Writers : wpc'[v] # "logDelete"
      BY <2>1 DEF DeletesInTurn
    <2>4. wseq[w] <= deleteSeq /\ \A c \in Clients : delCursor[c] < wseq[w] /\ lastDelete[c] < wseq[w]
      BY <2>1 DEF DeletesInv, DeleteNumbers
    <2>5. DeleteNumbers'
      BY <2>1, <2>2, <2>3, <2>4 DEF DeletesInv, DeleteNumbers
    <2>6. \A c \in Clients : ~(wseq[w] <= delCursor[c]) /\ ~(wseq[w] <= lastDelete[c])
      BY <2>4
    <2>7. DeletesRead' /\ PassedDeletions'
      BY <2>1, <2>2, <2>6 DEF DeletesInv, DeletesRead, PassedDeletions
    <2> QED
      BY <2>5, <2>7 DEF DeletesInv
  <1> QED
    BY <1>1, <1>2

\* The answer is a snapshot of the log.
LEMMA DeletesSnapshot ==
    ASSUME TypeOK, DeletesInv, NEW c \in Clients, ReadDeletes(c)
    PROVE  DeletesInv'
  <1> USE DeleteTypes
  <1>1. PICK q \in {deleteLog[m] : m \in DeletesSince(c)} \cup {0} :
          /\ IsMax(q, {deleteLog[m] : m \in DeletesSince(c)} \cup {0})
          /\ lastDelete' = [lastDelete EXCEPT ![c] = q]
          /\ newDeletes' = [newDeletes EXCEPT ![c] = DeletesSince(c)]
          /\ UNCHANGED <<deleteSeq, deleteLog, delCursor, loaded, win, wpc, wseq>>
    BY DEF ReadDeletes, redis, client, writer
  <1>2. DeletesSince(c) \subseteq Msgs
    BY DEF DeletesSince
  <1>3. q = 0 \/ \E m \in Msgs : q = deleteLog[m]
    BY <1>1, <1>2
  <1>4. /\ lastDelete'[c] = q /\ newDeletes'[c] = DeletesSince(c)
        /\ \A d \in Clients \ {c} : lastDelete'[d] = lastDelete[d] /\ newDeletes'[d] = newDeletes[d]
    BY <1>1, <1>2
  <1>5. DeleteNumbers'
    <2>1. q <= deleteSeq /\ \A w \in Writers : wpc[w] = "logDelete" => q < wseq[w]
      <3>1. CASE q = 0
        <4>1. \A w \in Writers : wpc[w] = "logDelete" => delCursor[c] < wseq[w]
          BY DEF DeletesInv, DeleteNumbers
        <4> QED
          BY <3>1, <4>1
      <3>2. CASE \E m \in Msgs : q = deleteLog[m]
        BY <3>2 DEF DeletesInv, DeleteNumbers
      <3> QED
        BY <1>3, <3>1, <3>2
    <2> QED
      BY <1>1, <1>4, <2>1 DEF DeletesInv, DeleteNumbers
  <1>6. DeletesRead'
    <2>1. \A m \in Msgs : deleteLog[m] <= delCursor[c] \/ m \in DeletesSince(c)
      BY DEF DeletesSince
    <2> QED
      BY <1>1, <1>4, <2>1 DEF DeletesInv, DeletesRead
  <1>7. PassedDeletions'
    BY <1>1 DEF DeletesInv, PassedDeletions
  <1> QED
    BY <1>5, <1>6, <1>7 DEF DeletesInv

\* A message shown after an answer was shown before, and its deletion is
\* not in the answer; or it is not of the initial load.
LEMMA LoadedMerged ==
    ASSUME TypeOK, LoadedApart, NEW c \in Clients, NEW m \in loaded[c]
    PROVE  Merged(c)[m] = IF m \in Has(win[c]) \ newDeletes[c]
                          THEN LastEdit(c, m, win[c][m]) ELSE None
  <1>1. m \in Msgs /\ m \notin Fresh(c)
    BY DEF LoadedApart, Fresh, TypeOK, TypeClient
  <1> QED
    BY <1>1 DEF Merged

\* The steps that change a window.
LEMMA DeletesShown ==
    ASSUME TypeOK, IInv, LoadedApart, DeletesInv, NEW c \in Clients,
           LoadWindow(c) \/ Receive(c) \/ OlderMerge(c)
    PROVE  DeletesInv'
  <1> USE DeleteTypes
  <1>0. \A d \in Clients : \A m \in loaded[d] : m \in Msgs
    OBVIOUS
  <1>1. CASE LoadWindow(c)
    <2> DEFINE latest == {m \in Visible : Cardinality({n \in Visible : m < n}) < InitPage}
    <2>1. /\ win' = [win EXCEPT ![c] = Rows(latest)]
          /\ loaded' = [loaded EXCEPT ![c] = latest]
          /\ UNCHANGED <<deleteSeq, deleteLog, lastDelete, newDeletes, delCursor, wpc, wseq>>
      BY <1>1 DEF LoadWindow, redis, handler, writer
    <2>2. \A m \in latest : m \in Msgs /\ deleteLog[m] = 0
      BY VisibleMsgs DEF IInv, LogsTrue, Visible
    <2> HIDE DEF latest
    <2>3. PassedDeletions'
      <3>1. /\ loaded'[c] = latest
            /\ \A d \in Clients \ {c} : loaded'[d] = loaded[d] /\ win'[d] = win[d]
        BY <2>1 DEF TypeOK, TypeClient
      <3> QED
        BY <2>1, <2>2, <3>1 DEF DeletesInv, PassedDeletions
    <2> QED
      BY <2>1, <2>3 DEF DeletesInv, DeleteNumbers, DeletesRead
  <1>2. CASE Receive(c)
    <2>1. /\ win' = [win EXCEPT ![c] = Merged(c)]
          /\ lastDelete' = [lastDelete EXCEPT ![c] = 0]
          /\ newDeletes' = [newDeletes EXCEPT ![c] = {}]
          /\ delCursor' = [delCursor EXCEPT ![c] = IF lastDelete[c] > @ THEN lastDelete[c] ELSE @]
          /\ UNCHANGED <<deleteSeq, deleteLog, loaded, wpc, wseq>>
      BY <1>2 DEF Receive, RequestEnds, redis, writer
    <2>2. /\ lastDelete'[c] = 0 /\ win'[c] = Merged(c)
          /\ delCursor'[c] = IF lastDelete[c] > delCursor[c] THEN lastDelete[c] ELSE delCursor[c]
          /\ \A d \in Clients \ {c} :
                /\ lastDelete'[d] = lastDelete[d] /\ newDeletes'[d] = newDeletes[d]
                /\ delCursor'[d] = delCursor[d] /\ win'[d] = win[d]
      BY <2>1 DEF TypeOK, TypeClient
    <2>3. DeleteNumbers'
      BY <2>1, <2>2 DEF DeletesInv, DeleteNumbers
    <2>4. DeletesRead'
      <3>1. \A m \in Msgs : ~(deleteLog[m] # 0 /\ deleteLog[m] <= lastDelete'[c])
        BY <2>2
      <3> QED
        BY <2>1, <2>2, <3>1 DEF DeletesInv, DeletesRead
    <2>5. PassedDeletions'
      <3> SUFFICES ASSUME NEW m \in loaded[c], deleteLog[m] # 0, deleteLog[m] <= delCursor'[c]
                   PROVE  Merged(c)[m] = None
        BY <2>1, <2>2 DEF DeletesInv, PassedDeletions
      <3>1. m \in Msgs /\ (deleteLog[m] <= lastDelete[c] \/ deleteLog[m] <= delCursor[c])
        BY <2>2
      <3>2. m \in newDeletes[c] \/ win[c][m] = None
        BY <3>1 DEF DeletesInv, DeletesRead, PassedDeletions
      <3> QED
        BY <3>1, <3>2, LoadedMerged DEF Has
    <2> QED
      BY <2>3, <2>4, <2>5 DEF DeletesInv
  <1>3. CASE OlderMerge(c)
    <2>1. /\ win' = [win EXCEPT ![c] =
                 [m \in Msgs |-> IF win[c][m] # None THEN win[c][m] ELSE older[c][m]]]
          /\ UNCHANGED <<deleteSeq, deleteLog, lastDelete, newDeletes, delCursor, loaded, wpc, wseq>>
      BY <1>3 DEF OlderMerge, redis, handler, writer
    <2>2. \A m \in loaded[c] : win'[c][m] = win[c][m]
      <3>1. \A m \in loaded[c] : older[c][m] = None
        BY <1>0 DEF LoadedApart, Has
      <3> QED
        BY <1>0, <2>1, <3>1 DEF TypeOK, TypeClient
    <2>3. \A d \in Clients \ {c} : win'[d] = win[d]
      BY <2>1 DEF TypeOK, TypeClient
    <2>4. DeleteNumbers' /\ DeletesRead'
      BY <2>1 DEF DeletesInv, DeleteNumbers, DeletesRead
    <2>5. PassedDeletions'
      <3> SUFFICES ASSUME NEW d \in Clients, NEW m \in loaded[d],
                          deleteLog[m] # 0, deleteLog[m] <= delCursor[d]
                   PROVE  win'[d][m] = None
        BY <2>1 DEF PassedDeletions
      <3>1. win[d][m] = None
        BY DEF DeletesInv, PassedDeletions
      <3> QED
        BY <2>2, <2>3, <3>1
    <2> QED
      BY <2>4, <2>5 DEF DeletesInv
  <1> QED
    BY <1>1, <1>2, <1>3

\* Every step, if no key expires and no poll is lost.
LEMMA DeletesStep ==
    ASSUME TypeOK, TypeOK', IInv, LoadedApart, DeletesInTurn, DeletesInv, [Next]_vars,
           "network" \notin Events, "expiry" \notin Events
    PROVE  DeletesInv'
  <1> USE DeleteTypes DEF redis, writer, handler, client
  <1>1. CASE \/ Send \/ UNCHANGED vars
             \/ \E c \in Clients : \/ PollStart(c) \/ ReadMessages(c) \/ ReadEdits(c)
                                   \/ LogReadFails(c) \/ OlderRequest(c)
    BY <1>1, DeletesKept
    DEF Send, vars, PollStart, ReadMessages, ReadEdits, LogReadFails, OlderRequest
  <1>2. ASSUME NEW w \in Writers, EditRequest(w) \/ WriterStops(w) \/ \E m \in 1..posted : SoftDelete(w, m)
        PROVE  DeletesInv'
    <2>1. UNCHANGED <<deleteSeq, deleteLog, lastDelete, newDeletes, delCursor, loaded, win>>
      BY <1>2 DEF EditRequest, FinishEdit, SoftDelete, UpdateText, Reload, IncrEdit, LogEdit, WriterStops
    <2>2. \A v \in Writers : wpc'[v] = "logDelete" => wpc[v] = "logDelete" /\ wseq'[v] = wseq[v]
      BY <1>2 DEF EditRequest, FinishEdit, SoftDelete, UpdateText, Reload, IncrEdit, LogEdit,
                  WriterStops, WriterAt
    <2> QED
      BY <2>1, <2>2, DeletesKept
  <1> QED
    BY <1>1, <1>2, DeletesLogged, DeletesSnapshot, DeletesShown
    DEF Next, PollStep, DeleteRequest, FinishDelete, NetworkError, DeleteKeysExpire,
        EditKeysExpire, Event

\* PassedDeletions, for any number of writers whose DELETEs are numbered and
\* logged one after the other.
THEOREM DeletionsPassed ==
    ASSUME "network" \notin Events, "expiry" \notin Events
    PROVE  Spec /\ []DeletesInTurn => []PassedDeletions
  <1> DEFINE Inv == LoadedApart /\ DeletesInv
  <1>1. Init => Inv
    BY DeletesInit
  <1>2. TypeOK /\ TypeOK' /\ IInv /\ DeletesInTurn /\ Inv /\ [Next]_vars => Inv'
    BY ApartStep, DeletesStep
  <1>3. Inv => PassedDeletions
    BY DEF DeletesInv
  <1> QED
    BY <1>1, <1>2, <1>3, Invariance, PTL DEF Spec

-----------------------------------------------------------------------------
(* The edit log.                                                           *)

Numbering == {"incrEdit", "logEdit"}

\* At most one PATCH is past its reload and not in the log yet.
EditsInTurn ==
    \A v, w \in Writers : wpc[v] \in Numbering /\ wpc[w] \in Numbering => v = w

\* The entries that are in the log or in an answer.
Known == editLog \cup UNION {newEdits[c] : c \in Clients}

\* Of two entries for a message the one with the greater number has the
\* later text.
EditOrder ==
    /\ \A m \in Msgs : text[m] <= edits
    /\ \A e \in Known : e.text <= text[e.msg] /\ e.seq <= editSeq
    /\ \A e, f \in Known : e.msg = f.msg /\ e.seq <= f.seq => e.text <= f.text
    /\ \A c \in Clients : editCursor[c] <= editSeq

\* The entry a PATCH is about to log has the latest text known and a number
\* beyond the log, every answer and every cursor.
EditNumbers ==
    \A w \in Writers :
        /\ wpc[w] \in Numbering =>
              /\ wtext[w] <= text[wmsg[w]]
              /\ \A e \in Known : e.msg = wmsg[w] => e.text <= wtext[w]
        /\ wpc[w] = "logEdit" =>
              /\ wseq[w] <= editSeq
              /\ \A e \in Known : e.seq < wseq[w]
              /\ \A c \in Clients : editCursor[c] < wseq[w]

\* An answer has every entry between the cursor and its last number.
EditsRead ==
    \A c \in Clients : \A f \in newEdits[c] :
        /\ editCursor[c] < f.seq
        /\ \A e \in editLog : e.seq <= f.seq => e.seq <= editCursor[c] \/ e \in newEdits[c]

EditsInv == EditOrder /\ EditNumbers /\ EditsRead /\ PassedEdits

\* At the beginning no edit is logged or under way.
LEMMA EditsInit == Init => EditsInv
  BY ChangeAssumption
  DEF Init, EditsInv, EditOrder, EditNumbers, EditsRead, PassedEdits, Known, Numbering

\* The types that the edit log needs.
LEMMA EditTypes ==
    ASSUME TypeOK
    PROVE  /\ editSeq \in Nat /\ editLog \subseteq Edits /\ Known \subseteq Edits
           /\ edits \in Nat /\ \A m \in Msgs : text[m] \in Nat
           /\ wseq \in [Writers -> Nat] /\ wtext \in [Writers -> Texts]
           /\ editCursor \in [Clients -> Nat] /\ newEdits \in [Clients -> SUBSET Edits]
           /\ wpc \in [Writers -> {"idle", "incrDelete", "logDelete", "reload", "incrEdit", "logEdit"}]
           /\ \A w \in Writers : wtext[w] \in Nat /\ (wpc[w] # "idle" => wmsg[w] \in Msgs)
           /\ \A c \in Clients : loaded[c] \subseteq Msgs
           /\ \A e \in Edits : e.msg \in Msgs /\ e.text \in Nat /\ e.seq \in Nat
  BY ChangeAssumption
  DEF TypeOK, TypeDatabase, TypeRedis, TypeWriter, TypeHandler, TypeClient, Known, Edits, Texts

\* Rows may get later texts and PATCHes may begin or stop as long as logs,
\* answers, cursors and windows stay.
LEMMA EditsKept ==
    ASSUME TypeOK, TypeOK', EditsInv,
           UNCHANGED <<editSeq, editLog, newEdits, editCursor, loaded, win>>,
           \A m \in Msgs : text[m] <= text'[m] /\ text'[m] <= edits',
           \A w \in Writers : wpc'[w] \in Numbering =>
               /\ wpc[w] = wpc'[w] /\ wmsg[w] = wmsg'[w]
               /\ wtext[w] = wtext'[w] /\ wseq[w] = wseq'[w]
    PROVE  EditsInv'
  <1>1. Known' = Known
    BY DEF Known
  <1>2. EditOrder'
    <2>1. \A e \in Known : e.text <= text'[e.msg]
      <3> SUFFICES ASSUME NEW e \in Known PROVE e.text <= text'[e.msg]
        OBVIOUS
      <3>1. e.msg \in Msgs /\ e.text \in Nat /\ text[e.msg] \in Nat
        BY EditTypes
      <3>2. text'[e.msg] \in Nat
        BY <3>1, ChangeAssumption DEF TypeOK, TypeDatabase, Texts
      <3>3. e.text <= text[e.msg] /\ text[e.msg] <= text'[e.msg]
        BY <3>1 DEF EditsInv, EditOrder
      <3> QED
        BY <3>1, <3>2, <3>3
    <2> QED
      BY <1>1, <2>1 DEF EditsInv, EditOrder
  <1>3. EditNumbers'
    <2> SUFFICES ASSUME NEW w \in Writers, wpc'[w] \in Numbering
                 PROVE  wtext[w] <= text'[wmsg[w]]
      BY <1>1 DEF EditsInv, EditNumbers, Numbering
    <2>1. wmsg[w] \in Msgs /\ wtext[w] \in Nat /\ text[wmsg[w]] \in Nat
      BY EditTypes DEF Numbering
    <2>2. text'[wmsg[w]] \in Nat
      BY <2>1, ChangeAssumption DEF TypeOK, TypeDatabase, Texts
    <2>3. wtext[w] <= text[wmsg[w]] /\ text[wmsg[w]] <= text'[wmsg[w]]
      BY <2>1 DEF EditsInv, EditNumbers
    <2> QED
      BY <2>1, <2>2, <2>3
  <1>4. EditsRead' /\ PassedEdits'
    BY DEF EditsInv, EditsRead, PassedEdits, Has
  <1> QED
    BY <1>2, <1>3, <1>4 DEF EditsInv

\* Reload, INCR and ZADD of a PATCH.
LEMMA EditsLogged ==
    ASSUME TypeOK, TypeOK', EditsInTurn, EditsInv, NEW w \in Writers, FinishEdit(w)
    PROVE  EditsInv'
  <1> USE EditTypes DEF Numbering
  <1>1. CASE Reload(w)
    <2>1. /\ wpc[w] = "reload" /\ wpc' = [wpc EXCEPT ![w] = "incrEdit"]
          /\ wtext' = [wtext EXCEPT ![w] = text[wmsg[w]]]
          /\ UNCHANGED <<text, edits, editSeq, editLog, newEdits, editCursor, loaded, win, wmsg, wseq>>
      BY <1>1 DEF Reload, WriterAt, database, redis, handler, client
    <2>2. Known' = Known
      BY <2>1 DEF Known
    <2>3. EditNumbers'
      <3>1. wtext'[w] = text[wmsg[w]] /\ text[wmsg[w]] \in Nat
        BY <2>1
      <3>2. \A v \in Writers \ {w} : wpc'[v] = wpc[v] /\ wtext'[v] = wtext[v]
        BY <2>1
      <3>3. wpc'[w] = "incrEdit" /\ \A e \in Known : e.msg = wmsg[w] => e.text <= text[wmsg[w]]
        BY <2>1 DEF EditsInv, EditOrder
      <3> QED
        BY <2>1, <2>2, <3>1, <3>2, <3>3 DEF EditsInv, EditNumbers
    <2>4. EditOrder' /\ EditsRead' /\ PassedEdits'
      BY <2>1, <2>2 DEF EditsInv, EditOrder, EditsRead, PassedEdits, Has
    <2> QED
      BY <2>3, <2>4 DEF EditsInv
  <1>2. CASE IncrEdit(w)
    <2>1. /\ wpc[w] = "incrEdit" /\ wpc' = [wpc EXCEPT ![w] = "logEdit"]
          /\ editSeq' = editSeq + 1 /\ wseq' = [wseq EXCEPT ![w] = editSeq + 1]
          /\ UNCHANGED <<text, edits, editLog, newEdits, editCursor, loaded, win, wmsg, wtext>>
      BY <1>2 DEF IncrEdit, WriterAt, database, handler, client
    <2>2. Known' = Known
      BY <2>1 DEF Known
    <2>3. \A e \in Known : e.seq \in Nat /\ e.seq <= editSeq
      BY DEF EditsInv, EditOrder
    <2>4. \A c \in Clients : editCursor[c] \in Nat /\ editCursor[c] <= editSeq
      BY DEF EditsInv, EditOrder
    <2>5. EditNumbers'
      <3>1. wseq'[w] = editSeq + 1 /\ \A v \in Writers \ {w} : wpc'[v] = wpc[v] /\ wseq'[v] = wseq[v]
        BY <2>1
      <3>2. \A v \in Writers \ {w} : wpc[v] = "logEdit" => wseq[v] <= editSeq + 1
        BY DEF EditsInv, EditNumbers
      <3>3. /\ wseq'[w] <= editSeq + 1
            /\ \A e \in Known : e.seq < wseq'[w]
            /\ \A c \in Clients : editCursor[c] < wseq'[w]
        BY <2>3, <2>4, <3>1
      <3> QED
        BY <2>1, <2>2, <3>1, <3>2, <3>3 DEF EditsInv, EditNumbers
    <2>6. EditOrder'
      BY <2>1, <2>2, <2>3, <2>4 DEF EditsInv, EditOrder
    <2>7. EditsRead' /\ PassedEdits'
      BY <2>1 DEF EditsInv, EditsRead, PassedEdits, Has
    <2> QED
      BY <2>5, <2>6, <2>7 DEF EditsInv
  <1>3. CASE LogEdit(w)
    <2> DEFINE new == [msg |-> wmsg[w], text |-> wtext[w], seq |-> wseq[w]]
    <2>1. /\ wpc[w] = "logEdit" /\ wpc' = [wpc EXCEPT ![w] = "idle"]
          /\ editLog' \subseteq editLog \cup {new}
          /\ UNCHANGED <<text, edits, editSeq, newEdits, editCursor, loaded, win>>
      BY <1>3 DEF LogEdit, WriterAt, database, handler, client
    <2>2. Known' \subseteq Known \cup {new}
      BY <2>1 DEF Known
    <2>3. /\ wtext[w] <= text[wmsg[w]] /\ wseq[w] <= editSeq
          /\ \A e \in Known : e.seq < wseq[w] /\ (e.msg = wmsg[w] => e.text <= wtext[w])
          /\ \A c \in Clients : editCursor[c] < wseq[w]
      BY <2>1 DEF EditsInv, EditNumbers
    <2>4. new.msg = wmsg[w] /\ new.text = wtext[w] /\ new.seq = wseq[w]
      OBVIOUS
    <2> HIDE DEF new
    <2>5. \A e \in Known : ~(new.seq <= e.seq)
      <3>1. \A e \in Known : e.seq \in Nat /\ wseq[w] \in Nat /\ e.seq < wseq[w]
        BY <2>3
      <3> QED
        BY <2>4, <3>1
    <2>6. EditOrder'
      <3>1. \A e, f \in Known \cup {new} : e.msg = f.msg /\ e.seq <= f.seq => e.text <= f.text
        <4>1. new.text <= new.text
          BY <2>4
        <4> QED
          BY <2>3, <2>4, <2>5, <4>1 DEF EditsInv, EditOrder
      <3>2. \A e \in Known \cup {new} : e.text <= text[e.msg] /\ e.seq <= editSeq
        BY <2>3, <2>4 DEF EditsInv, EditOrder
      <3> QED
        BY <2>1, <2>2, <3>1, <3>2 DEF EditsInv, EditOrder
    <2>7. EditNumbers'
      <3>1. \A v \in Writers : wpc'[v] \notin Numbering
        BY <2>1 DEF EditsInTurn
      <3> QED
        BY <3>1 DEF EditNumbers
    <2>8. EditsRead'
      <3>1. \A c \in Clients : \A f \in newEdits[c] : f \in Known
        BY DEF Known
      <3>2. \A c \in Clients : \A f \in newEdits[c] : ~(new.seq <= f.seq)
        BY <2>5, <3>1
      <3> QED
        BY <2>1, <3>2 DEF EditsInv, EditsRead
    <2>9. PassedEdits'
      <3>1. \A c \in Clients : ~(new.seq <= editCursor[c])
        BY <2>3, <2>4
      <3> QED
        BY <2>1, <3>1 DEF EditsInv, PassedEdits, Has
    <2> QED
      BY <2>6, <2>7, <2>8, <2>9 DEF EditsInv
  <1> QED
    BY <1>1, <1>2, <1>3 DEF FinishEdit

\* Of the entries for a message the widget shows the one with the greatest
\* number; there is one as soon as there are any.
LEMMA LastEditOf ==
    ASSUME TypeOK, EditOrder, NEW c \in Clients, NEW m \in Msgs, NEW old
    PROVE  \/ EditsOf(c, m) = {} /\ LastEdit(c, m, old) = old
           \/ \E g \in EditsOf(c, m) : /\ LastEdit(c, m, old) = g.text
                                      /\ \A f \in EditsOf(c, m) : f.seq <= g.seq
  <1> DEFINE last == {e \in EditsOf(c, m) : \A f \in EditsOf(c, m) : f.seq <= e.seq}
  <1>1. CASE EditsOf(c, m) = {}
    BY <1>1 DEF LastEdit
  <1>2. CASE EditsOf(c, m) # {}
    <2> DEFINE seqs == {e.seq : e \in EditsOf(c, m)}
    <2>1. \A e \in EditsOf(c, m) : e \in Known /\ e.seq \in Nat /\ e.seq <= editSeq
      BY EditTypes DEF EditsOf, Known, EditOrder
    <2>2. seqs \in SUBSET Nat /\ seqs # {} /\ editSeq \in Nat /\ \A n \in seqs : n <= editSeq
      BY <1>2, <2>1, EditTypes
    <2> HIDE DEF seqs
    <2>3. PICK q \in seqs : IsMax(q, seqs)
      BY <2>2, LargestOf
    <2>4. PICK g \in EditsOf(c, m) : q = g.seq
      BY DEF seqs
    <2>5. g \in last
      BY <2>3, <2>4 DEF IsMax, seqs
    <2>6. (CHOOSE e \in last : TRUE) \in last
      BY <2>5
    <2>7. LastEdit(c, m, old) = (CHOOSE e \in last : TRUE).text
      BY <2>5 DEF LastEdit
    <2> QED
      BY <2>6, <2>7
  <1> QED
    BY <1>1, <1>2

\* The answer is a snapshot of the log.
LEMMA EditsSnapshot ==
    ASSUME TypeOK, EditsInv, NEW c \in Clients, ReadEdits(c)
    PROVE  EditsInv'
  <1> DEFINE since == {e \in editLog : e.seq > editCursor[c]}
  <1>1. /\ newEdits' = [newEdits EXCEPT ![c] = since]
        /\ UNCHANGED <<text, edits, editSeq, editLog, editCursor, loaded, win, wpc, wmsg, wtext, wseq>>
    BY DEF ReadEdits, database, redis, writer, client
  <1>2. newEdits'[c] = since /\ \A d \in Clients \ {c} : newEdits'[d] = newEdits[d]
    BY <1>1, EditTypes
  <1>3. Known' \subseteq Known
    BY <1>1, <1>2 DEF Known
  <1>4. EditOrder' /\ EditNumbers' /\ PassedEdits'
    BY <1>1, <1>3 DEF EditsInv, EditOrder, EditNumbers, PassedEdits, Has
  <1>5. EditsRead'
    <2>1. \A f \in since : editCursor[c] < f.seq
      <3> SUFFICES ASSUME NEW f \in since PROVE editCursor[c] < f.seq
        OBVIOUS
      <3>1. editCursor[c] \in Nat /\ f.seq \in Nat /\ f.seq > editCursor[c]
        BY EditTypes
      <3> QED
        BY <3>1
    <2>2. \A e \in editLog : e.seq <= editCursor[c] \/ e \in since
      <3> SUFFICES ASSUME NEW e \in editLog, e \notin since PROVE e.seq <= editCursor[c]
        OBVIOUS
      <3>1. editCursor[c] \in Nat /\ e.seq \in Nat /\ ~(e.seq > editCursor[c])
        BY EditTypes
      <3> QED
        BY <3>1
    <2> HIDE DEF since
    <2> QED
      BY <1>1, <1>2, <2>1, <2>2 DEF EditsInv, EditsRead
  <1> QED
    BY <1>4, <1>5 DEF EditsInv

\* The steps that change a window.
LEMMA EditsShown ==
    ASSUME TypeOK, IInv, LoadedApart, EditsInv, NEW c \in Clients,
           LoadWindow(c) \/ Receive(c) \/ OlderMerge(c)
    PROVE  EditsInv'
  <1> USE EditTypes
  <1>1. CASE LoadWindow(c)
    <2> DEFINE latest == {m \in Visible : Cardinality({n \in Visible : m < n}) < InitPage}
    <2>1. /\ win' = [win EXCEPT ![c] = Rows(latest)]
          /\ loaded' = [loaded EXCEPT ![c] = latest]
          /\ UNCHANGED <<text, edits, editSeq, editLog, newEdits, editCursor, wpc, wmsg, wtext, wseq>>
      BY <1>1 DEF LoadWindow, database, redis, handler, writer
    <2>2. \A m \in latest : m \in Msgs /\ Rows(latest)[m] = text[m]
      BY VisibleMsgs DEF Rows
    <2> HIDE DEF latest
    <2>3. PassedEdits'
      <3> SUFFICES ASSUME NEW d \in Clients, NEW e \in editLog, e.msg \in loaded'[d],
                          e.msg \in Has(win'[d]), e.seq <= editCursor[d]
                   PROVE  win'[d][e.msg] >= e.text
        BY <2>1 DEF PassedEdits, Has
      <3>1. CASE d = c
        <4>1. win'[c] = Rows(latest) /\ loaded'[c] = latest
          BY <2>1 DEF TypeOK, TypeClient
        <4>2. win'[d][e.msg] = text[e.msg] /\ text[e.msg] \in Nat /\ e.text \in Nat
          BY <2>2, <3>1, <4>1
        <4>3. e.text <= text[e.msg]
          BY DEF EditsInv, EditOrder, Known
        <4> QED
          BY <4>2, <4>3
      <3>2. CASE d # c
        BY <2>1, <3>2 DEF EditsInv, PassedEdits, TypeOK, TypeClient
      <3> QED
        BY <3>1, <3>2
    <2>4. EditOrder' /\ EditNumbers' /\ EditsRead'
      BY <2>1 DEF EditsInv, EditOrder, EditNumbers, EditsRead, Known
    <2> QED
      BY <2>3, <2>4 DEF EditsInv
  <1>2. CASE Receive(c)
    <2>1. PICK q \in {e.seq : e \in newEdits[c]} \cup {editCursor[c]} :
            /\ editCursor' = [editCursor EXCEPT ![c] = q]
            /\ win' = [win EXCEPT ![c] = Merged(c)]
            /\ newEdits' = [newEdits EXCEPT ![c] = {}]
            /\ UNCHANGED <<text, edits, editSeq, editLog, loaded, wpc, wmsg, wtext, wseq>>
      BY <1>2 DEF Receive, RequestEnds, database, redis, writer
    <2>2. /\ editCursor'[c] = q /\ win'[c] = Merged(c) /\ newEdits'[c] = {}
          /\ \A d \in Clients \ {c} :
                editCursor'[d] = editCursor[d] /\ win'[d] = win[d] /\ newEdits'[d] = newEdits[d]
      BY <2>1 DEF TypeOK, TypeClient
    <2>3. Known' \subseteq Known
      BY <2>1, <2>2 DEF Known
    <2>4. q = editCursor[c] \/ \E f \in Known : q = f.seq
      BY <2>1 DEF Known
    <2>5. EditOrder'
      <3>1. q <= editSeq
        BY <2>4 DEF EditsInv, EditOrder
      <3> QED
        BY <2>1, <2>2, <2>3, <3>1 DEF EditsInv, EditOrder
    <2>6. EditNumbers'
      <3>1. \A w \in Writers : wpc[w] = "logEdit" => q < wseq[w]
        BY <2>4 DEF EditsInv, EditNumbers
      <3> QED
        BY <2>1, <2>2, <2>3, <3>1 DEF EditsInv, EditNumbers
    <2>7. EditsRead'
      BY <2>1, <2>2 DEF EditsInv, EditsRead
    <2>8. PassedEdits'
      <3> SUFFICES ASSUME NEW e \in editLog, e.msg \in loaded[c],
                          Merged(c)[e.msg] # None, e.seq <= q
                   PROVE  Merged(c)[e.msg] >= e.text
        BY <2>1, <2>2 DEF EditsInv, PassedEdits, Has
      <3> DEFINE m == e.msg
      <3>1. m \in Msgs /\ e.text \in Nat /\ e.seq \in Nat /\ e \in Known
        BY DEF Known
      <3>2. m \in Has(win[c]) /\ Merged(c)[m] = LastEdit(c, m, win[c][m])
        BY LoadedMerged DEF Has
      <3>3. e.seq <= editCursor[c] \/ e \in EditsOf(c, m)
        BY <2>1 DEF EditsInv, EditsRead, EditsOf
      <3>4. CASE EditsOf(c, m) = {} /\ LastEdit(c, m, win[c][m]) = win[c][m]
        BY <3>2, <3>3, <3>4 DEF EditsInv, PassedEdits
      <3>5. ASSUME NEW g \in EditsOf(c, m), LastEdit(c, m, win[c][m]) = g.text,
                   \A f \in EditsOf(c, m) : f.seq <= g.seq
            PROVE  Merged(c)[m] >= e.text
        <4>1. g \in Known /\ g \in newEdits[c] /\ g.msg = m /\ g.text \in Nat /\ g.seq \in Nat
          BY DEF EditsOf, Known
        <4>2. editCursor[c] < g.seq
          BY <4>1 DEF EditsInv, EditsRead
        <4>3. e.seq <= g.seq
          BY <3>1, <3>3, <3>5, <4>1, <4>2
        <4>4. e.text <= g.text
          BY <3>1, <4>1, <4>3 DEF EditsInv, EditOrder
        <4> QED
          BY <3>1, <3>2, <3>5, <4>1, <4>4
      <3> QED
        BY <3>1, <3>4, <3>5, LastEditOf DEF EditsInv
    <2> QED
      BY <2>5, <2>6, <2>7, <2>8 DEF EditsInv
  <1>3. CASE OlderMerge(c)
    <2>1. /\ win' = [win EXCEPT ![c] =
                 [m \in Msgs |-> IF win[c][m] # None THEN win[c][m] ELSE older[c][m]]]
          /\ UNCHANGED <<text, edits, editSeq, editLog, newEdits, editCursor, loaded,
                         wpc, wmsg, wtext, wseq>>
      BY <1>3 DEF OlderMerge, database, redis, handler, writer
    <2>2. \A d \in Clients : \A m \in loaded[d] : win'[d][m] = win[d][m]
      <3>1. \A m \in loaded[c] : m \in Msgs /\ older[c][m] = None
        BY DEF LoadedApart, Has
      <3> QED
        BY <2>1, <3>1 DEF TypeOK, TypeClient
    <2>3. PassedEdits'
      BY <2>1, <2>2 DEF EditsInv, PassedEdits, Has
    <2>4. EditOrder' /\ EditNumbers' /\ EditsRead'
      BY <2>1 DEF EditsInv, EditOrder, EditNumbers, EditsRead, Known
    <2> QED
      BY <2>3, <2>4 DEF EditsInv
  <1> QED
    BY <1>1, <1>2, <1>3

\* Every step, if no key expires and no poll is lost.
LEMMA EditsStep ==
    ASSUME TypeOK, TypeOK', IInv, LoadedApart, EditsInTurn, EditsInv, [Next]_vars,
           "network" \notin Events, "expiry" \notin Events
    PROVE  EditsInv'
  <1> USE EditTypes DEF redis, writer, handler, client, database
  <1>0. \A m \in Msgs : text[m] <= edits /\ text[m] <= text[m]
    BY DEF EditsInv, EditOrder
  <1>1. CASE \/ Send \/ UNCHANGED vars
             \/ \E c \in Clients : \/ PollStart(c) \/ ReadMessages(c) \/ ReadDeletes(c)
                                   \/ LogReadFails(c) \/ OlderRequest(c)
    BY <1>0, <1>1, EditsKept
    DEF Send, vars, PollStart, ReadMessages, ReadDeletes, LogReadFails, OlderRequest
  <1>2. ASSUME NEW w \in Writers, DeleteRequest(w) \/ WriterStops(w)
        PROVE  EditsInv'
    <2>1. UNCHANGED <<text, edits, editSeq, editLog, newEdits, editCursor, loaded, win>>
      BY <1>2 DEF DeleteRequest, FinishDelete, SoftDelete, IncrDelete, LogDelete, WriterStops
    <2>2. \A v \in Writers : wpc'[v] \in Numbering =>
             /\ wpc[v] = wpc'[v] /\ wmsg[v] = wmsg'[v]
             /\ wtext[v] = wtext'[v] /\ wseq[v] = wseq'[v]
      BY <1>2 DEF DeleteRequest, FinishDelete, SoftDelete, IncrDelete, LogDelete, WriterStops,
                  WriterAt, Numbering, TypeOK, TypeWriter
    <2> QED
      BY <1>0, <2>1, <2>2, EditsKept
  <1>3. ASSUME NEW w \in Writers, NEW m \in 1..posted, UpdateText(w, m)
        PROVE  EditsInv'
    <2>1. UNCHANGED <<editSeq, editLog, newEdits, editCursor, loaded, win>>
      BY <1>3 DEF UpdateText
    <2>2. \A v \in Writers : wpc'[v] \in Numbering =>
             /\ wpc[v] = wpc'[v] /\ wmsg[v] = wmsg'[v]
             /\ wtext[v] = wtext'[v] /\ wseq[v] = wseq'[v]
      BY <1>3 DEF UpdateText, WriterAt, Numbering, TypeOK, TypeWriter
    <2>3. \A n \in Msgs : text[n] <= text'[n] /\ text'[n] <= edits'
      <3>1. edits' = edits + 1 /\ \A n \in Msgs : text'[n] = text[n] \/ text'[n] = edits + 1
        BY <1>3 DEF UpdateText, TypeOK, TypeDatabase
      <3> QED
        BY <1>0, <3>1
    <2> QED
      BY <2>1, <2>2, <2>3, EditsKept
  <1> QED
    BY <1>1, <1>2, <1>3, EditsLogged, EditsSnapshot, EditsShown
    DEF Next, PollStep, EditRequest, NetworkError, DeleteKeysExpire, EditKeysExpire, Event

\* PassedEdits, for any number of writers whose PATCHes are reloaded,
\* numbered and logged one after the other.
THEOREM EditsPassed ==
    ASSUME "network" \notin Events, "expiry" \notin Events
    PROVE  Spec /\ []EditsInTurn => []PassedEdits
  <1> DEFINE Inv == LoadedApart /\ EditsInv
  <1>1. Init => Inv
    BY DeletesInit, EditsInit
  <1>2. TypeOK /\ TypeOK' /\ IInv /\ EditsInTurn /\ Inv /\ [Next]_vars => Inv'
    BY ApartStep, EditsStep
  <1>3. Inv => PassedEdits
    BY DEF EditsInv
  <1> QED
    BY <1>1, <1>2, <1>3, Invariance, PTL DEF Spec

\* One writer takes turns with itself: PassedDeletions and PassedEdits of
\* every instance in which at most one DELETE or PATCH is under way.
THEOREM SerialChangesPassed ==
    ASSUME "network" \notin Events, "expiry" \notin Events, \A v, w \in Writers : v = w
    PROVE  Spec => [](PassedDeletions /\ PassedEdits)
  <1>1. DeletesInTurn /\ EditsInTurn
    BY DEF DeletesInTurn, EditsInTurn
  <1>2. []DeletesInTurn /\ []EditsInTurn
    BY <1>1, PTL
  <1> QED
    BY <1>2, DeletionsPassed, EditsPassed, PTL
=============================================================================
