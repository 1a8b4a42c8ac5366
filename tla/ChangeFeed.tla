----------------------------- MODULE ChangeFeed -----------------------------
(***************************************************************************)
(* How a deletion or an edit of a message reaches the windows that already *)
(* show the message:                                                       *)
(*                                                                         *)
(*   MessageService.SoftDelete, EditMessage                                *)
(*       change the row, number the change with INCR, append it to a log   *)
(*       (a Redis sorted set) with ZADD                                    *)
(*   PollHandler.Poll                                                      *)
(*       reads new messages, then the delete log, then the edit log        *)
(*   useLongPoll, ChatWindow                                               *)
(*       keep one cursor per log and merge the answer into the window      *)
(*                                                                         *)
(* Messages are named by their seq.  The text of a message is the number   *)
(* of the edit that wrote it, 0 for the text it was sent with.             *)
(* A poll that finds nothing waits and reads everything again with the     *)
(* same cursors: here that is an empty answer and a second request.        *)
(* Waiting, waking and the page limit are the business of MessageFeed.     *)
(***************************************************************************)
EXTENDS Integers, FiniteSets

CONSTANTS
    Writers,     \* requests of the chat service that delete or edit
    Clients,     \* widgets
    None,        \* "not in this window", "not in this answer"
    Initial,     \* messages stored before any window opens
    MaxSeq,      \* bound: messages ever stored
    InitPage,    \* messages loaded when a window opens (50 in useChat)
    MaxEdits,    \* bound: calls of EditMessage
    MaxDeletes,  \* bound: calls of SoftDelete
    Events,      \* what else may happen: "send", "older", "network", "fault", "expiry"
    MaxEvents    \* bound: how often all of that happens

ASSUME ChangeAssumption ==
    /\ None \notin Nat
    /\ InitPage \in Nat \ {0}
    /\ MaxSeq \in Nat /\ Initial \in 0..MaxSeq
    /\ MaxEdits \in Nat /\ MaxDeletes \in Nat /\ MaxEvents \in Nat

Msgs == 1..MaxSeq

VARIABLES
    posted,      \* Postgres: messages 1..posted are stored
    deleted,     \* Postgres: messages whose deleted_at is set
    text,        \* Postgres: text of each message
    edits,       \* calls of EditMessage so far; numbers the texts
    deletes,     \* calls of SoftDelete so far
    deleteSeq,   \* Redis: chat:{id}:delete_seq, 0 when the key is absent
    deleteLog,   \* Redis: chat:{id}:delete_log, the score of each member, 0 for none
    editSeq,     \* Redis: chat:{id}:edit_seq
    editLog,     \* Redis: chat:{id}:edit_log, a set of [msg, text, seq]
    wpc,         \* writer: next step of the service method
    wmsg,        \* writer: the message it changes
    wtext,       \* writer: the text the reload returned
    wseq,        \* writer: the number INCR returned
    hpc,         \* poll request of a client: next step of PollHandler.Poll
    page,        \* poll request: text of each message of the answer, or None
    newDeletes,  \* poll request: deleted_ids
    lastDelete,  \* poll request: last_delete_seq
    newEdits,    \* poll request: edited_messages
    opened,      \* client: the window has its initial load
    win,         \* client: allMessages, text of each message shown, or None
    loaded,      \* client: messages of the initial load
    seen,        \* client: seenIds
    cursor,      \* client: lastKnownSeq
    delCursor,   \* client: lastKnownDeleteSeq
    editCursor,  \* client: lastKnownEditSeq
    older,       \* client: answer of loadOlderMessages, still on its way
    events       \* for the bound MaxEvents

database == <<posted, deleted, text, edits, deletes>>
redis    == <<deleteSeq, deleteLog, editSeq, editLog>>
writer   == <<wpc, wmsg, wtext, wseq>>
handler  == <<hpc, page, newDeletes, lastDelete, newEdits>>
client   == <<opened, win, loaded, seen, cursor, delCursor, editCursor, older>>
vars     == <<database, redis, writer, handler, client, events>>

Event(e) == e \in Events /\ events < MaxEvents /\ events' = events + 1

Visible == (1..posted) \ deleted

IsMax(m, S) == m \in S /\ \A n \in S : n <= m

Nothing == [m \in Msgs |-> None]

\* What a query that selects the messages S returns.
Rows(S) == [m \in Msgs |-> IF m \in S THEN text[m] ELSE None]

Has(rows) == {m \in Msgs : rows[m] # None}

Init ==
    /\ posted = Initial /\ deleted = {} /\ edits = 0 /\ deletes = 0
    /\ text = [m \in Msgs |-> 0]
    /\ deleteSeq = 0 /\ deleteLog = [m \in Msgs |-> 0]
    /\ editSeq = 0 /\ editLog = {}
    /\ wpc = [w \in Writers |-> "idle"]
    /\ wmsg = [w \in Writers |-> 0]
    /\ wtext = [w \in Writers |-> 0]
    /\ wseq = [w \in Writers |-> 0]
    /\ hpc = [c \in Clients |-> "none"]
    /\ page = [c \in Clients |-> Nothing]
    /\ newDeletes = [c \in Clients |-> {}]
    /\ lastDelete = [c \in Clients |-> 0]
    /\ newEdits = [c \in Clients |-> {}]
    /\ opened = [c \in Clients |-> FALSE]
    /\ win = [c \in Clients |-> Nothing]
    /\ loaded = [c \in Clients |-> {}]
    /\ seen = [c \in Clients |-> {}]
    /\ cursor = [c \in Clients |-> 0]
    /\ delCursor = [c \in Clients |-> 0]
    /\ editCursor = [c \in Clients |-> 0]
    /\ older = [c \in Clients |-> Nothing]
    /\ events = 0

-----------------------------------------------------------------------------
(* MessageService.                                                         *)

WriterAt(w, from, to) == wpc[w] = from /\ wpc' = [wpc EXCEPT ![w] = to]

\* SendMessage, as far as a reader of the table can tell.
Send ==
    /\ Event("send")
    /\ posted < MaxSeq
    /\ posted' = posted + 1
    /\ UNCHANGED <<deleted, text, edits, deletes, redis, writer, handler, client>>

\* Mutant of SoftDelete: a failure of the UPDATE is ignored.
SoftDeleteUnchecked(w, m) ==
    /\ WriterAt(w, "idle", "incrDelete")
    /\ deletes < MaxDeletes
    /\ wmsg' = [wmsg EXCEPT ![w] = m]
    /\ deletes' = deletes + 1
    /\ UNCHANGED <<posted, deleted, text, edits, redis, wtext, wseq, handler, client, events>>

\* GetByID returns deleted messages too: a second DELETE goes all the way.
SoftDelete(w, m) ==
    /\ WriterAt(w, "idle", "incrDelete")
    /\ deletes < MaxDeletes
    /\ wmsg' = [wmsg EXCEPT ![w] = m]
    /\ deleted' = deleted \cup {m}
    /\ deletes' = deletes + 1
    /\ UNCHANGED <<posted, text, edits, redis, wtext, wseq, handler, client, events>>

IncrDelete(w) ==
    /\ WriterAt(w, "incrDelete", "logDelete")
    /\ deleteSeq' = deleteSeq + 1
    /\ wseq' = [wseq EXCEPT ![w] = deleteSeq + 1]
    /\ UNCHANGED <<database, deleteLog, editSeq, editLog, wmsg, wtext, handler, client, events>>

\* ZADD: the score of a member that is there already is overwritten.
LogDelete(w) ==
    /\ WriterAt(w, "logDelete", "idle")
    /\ deleteLog' = [deleteLog EXCEPT ![wmsg[w]] = wseq[w]]
    /\ UNCHANGED <<database, deleteSeq, editSeq, editLog, wmsg, wtext, wseq,
                   handler, client, events>>

\* UPDATE ... WHERE deleted_at IS NULL; that no row matched is not an error.
UpdateText(w, m) ==
    /\ WriterAt(w, "idle", "reload")
    /\ edits < MaxEdits
    /\ wmsg' = [wmsg EXCEPT ![w] = m]
    /\ edits' = edits + 1
    /\ text' = [text EXCEPT ![m] = IF m \in deleted THEN @ ELSE edits + 1]
    /\ UNCHANGED <<posted, deleted, deletes, redis, wtext, wseq, handler, client, events>>

Reload(w) ==
    /\ WriterAt(w, "reload", "incrEdit")
    /\ wtext' = [wtext EXCEPT ![w] = text[wmsg[w]]]
    /\ UNCHANGED <<database, redis, wmsg, wseq, handler, client, events>>

\* Mutant of IncrEdit: the value before the increment is used.
IncrEditOld(w) ==
    /\ WriterAt(w, "incrEdit", "logEdit")
    /\ editSeq' = editSeq + 1
    /\ wseq' = [wseq EXCEPT ![w] = editSeq]
    /\ UNCHANGED <<database, deleteSeq, deleteLog, editLog, wmsg, wtext, handler, client, events>>

IncrEdit(w) ==
    /\ WriterAt(w, "incrEdit", "logEdit")
    /\ editSeq' = editSeq + 1
    /\ wseq' = [wseq EXCEPT ![w] = editSeq + 1]
    /\ UNCHANGED <<database, deleteSeq, deleteLog, editLog, wmsg, wtext, handler, client, events>>

\* The member is the entry itself, so the same entry gets a new score.
LogEdit(w) ==
    /\ WriterAt(w, "logEdit", "idle")
    /\ editLog' = {e \in editLog : e.msg # wmsg[w] \/ e.text # wtext[w]}
                    \cup {[msg |-> wmsg[w], text |-> wtext[w], seq |-> wseq[w]]}
    /\ UNCHANGED <<database, deleteSeq, deleteLog, editSeq, wmsg, wtext, wseq,
                   handler, client, events>>

\* INCR or the pipeline fails and is only logged, or the process dies.
WriterStops(w) ==
    /\ Event("fault")
    /\ wpc[w] # "idle"
    /\ wpc' = [wpc EXCEPT ![w] = "idle"]
    /\ UNCHANGED <<database, redis, wmsg, wtext, wseq, handler, client>>

\* EXPIRE of a counter and of its log, set together to one hour.
DeleteKeysExpire ==
    /\ Event("expiry")
    /\ \E m \in Msgs : deleteLog[m] # 0
    /\ deleteSeq' = 0
    /\ deleteLog' = [m \in Msgs |-> 0]
    /\ UNCHANGED <<database, editSeq, editLog, writer, handler, client>>

EditKeysExpire ==
    /\ Event("expiry")
    /\ editLog # {}
    /\ editSeq' = 0
    /\ editLog' = {}
    /\ UNCHANGED <<database, deleteSeq, deleteLog, writer, handler, client>>

-----------------------------------------------------------------------------
(* PollHandler.Poll for the request client c has open.                     *)

HandlerAt(c, from, to) == hpc[c] = from /\ hpc' = [hpc EXCEPT ![c] = to]

\* The fast path leaves the table alone while last_seq looks old.
ReadMessages(c) ==
    /\ HandlerAt(c, "readMessages", "readDeletes")
    /\ \/ page' = [page EXCEPT ![c] = Rows({m \in Visible : m > cursor[c]})]
       \/ page' = [page EXCEPT ![c] = Nothing]
    /\ UNCHANGED <<database, redis, writer, newDeletes, lastDelete, newEdits, client, events>>

\* Mutant of DeletesSince: the range starts one score too late.
DeletesSinceLate(c) == {m \in Msgs : deleteLog[m] > delCursor[c] + 1}

\* ZRANGEBYSCORE with an exclusive minimum.
DeletesSince(c) == {m \in Msgs : deleteLog[m] > delCursor[c]}

\* Mutant of ReadDeletes: the last number is taken from the counter.
ReadDeletesCounter(c) ==
    /\ HandlerAt(c, "readDeletes", "readEdits")
    /\ newDeletes' = [newDeletes EXCEPT ![c] = DeletesSince(c)]
    /\ lastDelete' = [lastDelete EXCEPT ![c] = deleteSeq]
    /\ UNCHANGED <<database, redis, writer, page, newEdits, client, events>>

ReadDeletes(c) ==
    /\ HandlerAt(c, "readDeletes", "readEdits")
    /\ newDeletes' = [newDeletes EXCEPT ![c] = DeletesSince(c)]
    /\ \E q \in {deleteLog[m] : m \in DeletesSince(c)} \cup {0} :
          /\ IsMax(q, {deleteLog[m] : m \in DeletesSince(c)} \cup {0})
          /\ lastDelete' = [lastDelete EXCEPT ![c] = q]
    /\ UNCHANGED <<database, redis, writer, page, newEdits, client, events>>

ReadEdits(c) ==
    /\ HandlerAt(c, "readEdits", "answer")
    /\ newEdits' = [newEdits EXCEPT ![c] = {e \in editLog : e.seq > editCursor[c]}]
    /\ UNCHANGED <<database, redis, writer, page, newDeletes, lastDelete, client, events>>

\* ZRANGEBYSCORE fails: nothing from that log this time.
LogReadFails(c) ==
    /\ Event("fault")
    /\ HandlerAt(c, "readDeletes", "readEdits") \/ HandlerAt(c, "readEdits", "answer")
    /\ UNCHANGED <<database, redis, writer, page, newDeletes, lastDelete, newEdits, client>>

-----------------------------------------------------------------------------
(* The widget.                                                             *)

LoadWindow(c) ==
    /\ ~opened[c]
    /\ LET latest == {m \in Visible : Cardinality({n \in Visible : m < n}) < InitPage}
       IN  /\ win' = [win EXCEPT ![c] = Rows(latest)]
           /\ loaded' = [loaded EXCEPT ![c] = latest]
           /\ \E b \in latest \cup {0} :
                 /\ IsMax(b, latest \cup {0})
                 /\ cursor' = [cursor EXCEPT ![c] = b]
    /\ opened' = [opened EXCEPT ![c] = TRUE]
    /\ UNCHANGED <<database, redis, writer, handler, seen, delCursor, editCursor, older, events>>

PollStart(c) ==
    /\ opened[c]
    /\ HandlerAt(c, "none", "readMessages")
    /\ UNCHANGED <<database, redis, writer, page, newDeletes, lastDelete, newEdits,
                   client, events>>

RequestEnds(c) ==
    /\ hpc' = [hpc EXCEPT ![c] = "none"]
    /\ page' = [page EXCEPT ![c] = Nothing]
    /\ newDeletes' = [newDeletes EXCEPT ![c] = {}]
    /\ lastDelete' = [lastDelete EXCEPT ![c] = 0]
    /\ newEdits' = [newEdits EXCEPT ![c] = {}]

Fresh(c) == Has(page[c]) \ seen[c]

EditsOf(c, m) == {e \in newEdits[c] : e.msg = m}

\* Mutant of LastEdit: of several edits of a message the first one is kept.
FirstEdit(c, m, old) ==
    LET first == {e \in EditsOf(c, m) : \A f \in EditsOf(c, m) : e.seq <= f.seq}
    IN  IF first = {} THEN old ELSE (CHOOSE e \in first : TRUE).text

\* editMap: entries come in score order and the last one of a message wins.
LastEdit(c, m, old) ==
    LET last == {e \in EditsOf(c, m) : \A f \in EditsOf(c, m) : f.seq <= e.seq}
    IN  IF last = {} THEN old ELSE (CHOOSE e \in last : TRUE).text

\* handlePollMessages: delete, then edit what is shown, then append.
Merged(c) ==
    [m \in Msgs |->
        IF m \in Has(win[c]) \ newDeletes[c] THEN LastEdit(c, m, win[c][m])
        ELSE IF m \in Fresh(c) THEN page[c][m] ELSE None]

Receive(c) ==
    /\ hpc[c] = "answer"
    /\ RequestEnds(c)
    /\ win' = [win EXCEPT ![c] = Merged(c)]
    /\ seen' = [seen EXCEPT ![c] = @ \cup Fresh(c)]
    /\ \E b \in Fresh(c) \cup {cursor[c]} :
          /\ IsMax(b, Fresh(c) \cup {cursor[c]})
          /\ cursor' = [cursor EXCEPT ![c] = b]
    /\ delCursor' = [delCursor EXCEPT ![c] = IF lastDelete[c] > @ THEN lastDelete[c] ELSE @]
    /\ \E q \in {e.seq : e \in newEdits[c]} \cup {editCursor[c]} :
          /\ IsMax(q, {e.seq : e \in newEdits[c]} \cup {editCursor[c]})
          /\ editCursor' = [editCursor EXCEPT ![c] = q]
    /\ UNCHANGED <<database, redis, writer, opened, loaded, older, events>>

\* The request fails on its way: the message cursor steps back, the two
\* others stay.
NetworkError(c) ==
    /\ Event("network")
    /\ hpc[c] # "none"
    /\ RequestEnds(c)
    /\ cursor' = [cursor EXCEPT ![c] = IF @ > 0 THEN @ - 1 ELSE 0]
    /\ UNCHANGED <<database, redis, writer, opened, win, loaded, seen, delCursor,
                   editCursor, older>>

\* Mutant of OlderRequest: "before" is lost, the newest page comes back.
OlderRequestLatest(c) ==
    /\ Event("older")
    /\ older[c] = Nothing
    /\ Has(win[c]) # {}
    /\ older' = [older EXCEPT ![c] = Rows(Visible)]
    /\ UNCHANGED <<database, redis, writer, handler, opened, win, loaded, seen,
                   cursor, delCursor, editCursor>>

\* What can be the first entry of the list: what polls bring goes to its
\* end, after failed requests messages older than the initial load too.
MayBeFirst(c) ==
    {n \in Has(win[c]) :
        \A m \in Has(win[c]) : m < n => m \notin loaded[c] /\ \E k \in loaded[c] : m < k}

\* loadOlderMessages: everything before the first message of the window.
OlderRequest(c) ==
    /\ Event("older")
    /\ older[c] = Nothing
    /\ \E n \in MayBeFirst(c) :
          older' = [older EXCEPT ![c] = Rows({m \in Visible : m < n})]
    /\ UNCHANGED <<database, redis, writer, handler, opened, win, loaded, seen,
                   cursor, delCursor, editCursor>>

\* The answer is merged with whatever the window shows by then.
OlderMerge(c) ==
    /\ older[c] # Nothing
    /\ win' = [win EXCEPT ![c] =
                  [m \in Msgs |-> IF win[c][m] # None THEN win[c][m] ELSE older[c][m]]]
    /\ older' = [older EXCEPT ![c] = Nothing]
    /\ UNCHANGED <<database, redis, writer, handler, opened, loaded, seen,
                   cursor, delCursor, editCursor, events>>

-----------------------------------------------------------------------------
\* What is left to do of a DELETE and of a PATCH that has changed its row.
FinishDelete(w) == IncrDelete(w) \/ LogDelete(w)
FinishEdit(w)   == Reload(w) \/ IncrEdit(w) \/ LogEdit(w)

DeleteRequest(w) == (\E m \in 1..posted : SoftDelete(w, m)) \/ FinishDelete(w)
EditRequest(w)   == (\E m \in 1..posted : UpdateText(w, m)) \/ FinishEdit(w)

PollStep(c) ==
    \/ LoadWindow(c) \/ PollStart(c)
    \/ ReadMessages(c) \/ ReadDeletes(c) \/ ReadEdits(c) \/ Receive(c)

Next ==
    \/ Send \/ DeleteKeysExpire \/ EditKeysExpire
    \/ \E w \in Writers : DeleteRequest(w) \/ EditRequest(w) \/ WriterStops(w)
    \/ \E c \in Clients :
          \/ PollStep(c) \/ LogReadFails(c) \/ NetworkError(c)
          \/ OlderRequest(c) \/ OlderMerge(c)

Spec == Init /\ [][Next]_vars

\* A service method runs to its end and a client goes on polling.
Fairness ==
    /\ \A w \in Writers : WF_vars(FinishDelete(w) \/ FinishEdit(w))
    /\ \A c \in Clients : WF_vars(PollStep(c)) /\ WF_vars(OlderMerge(c))

FairSpec == Spec /\ Fairness

-----------------------------------------------------------------------------
(* Properties                                                              *)

Texts == 0..MaxEdits

Edits == [msg : Msgs, text : Texts, seq : Nat]

TypeDatabase ==
    /\ posted \in 0..MaxSeq /\ deleted \subseteq 1..posted
    /\ text \in [Msgs -> Texts] /\ edits \in Texts /\ deletes \in 0..MaxDeletes

TypeRedis ==
    /\ deleteSeq \in Nat /\ deleteLog \in [Msgs -> Nat]
    /\ editSeq \in Nat /\ editLog \subseteq Edits

TypeWriter ==
    /\ wpc \in [Writers -> {"idle", "incrDelete", "logDelete", "reload", "incrEdit", "logEdit"}]
    /\ wmsg \in [Writers -> Msgs \cup {0}]
    /\ wtext \in [Writers -> Texts] /\ wseq \in [Writers -> Nat]
    /\ \A w \in Writers : wpc[w] # "idle" => wmsg[w] \in Msgs

TypeHandler ==
    /\ hpc \in [Clients -> {"none", "readMessages", "readDeletes", "readEdits", "answer"}]
    /\ page \in [Clients -> [Msgs -> Texts \cup {None}]]
    /\ newDeletes \in [Clients -> SUBSET Msgs] /\ lastDelete \in [Clients -> Nat]
    /\ newEdits \in [Clients -> SUBSET Edits]

TypeClient ==
    /\ opened \in [Clients -> BOOLEAN]
    /\ win \in [Clients -> [Msgs -> Texts \cup {None}]]
    /\ loaded \in [Clients -> SUBSET Msgs] /\ seen \in [Clients -> SUBSET Msgs]
    /\ cursor \in [Clients -> Nat] /\ delCursor \in [Clients -> Nat]
    /\ editCursor \in [Clients -> Nat]
    /\ older \in [Clients -> [Msgs -> Texts \cup {None}]]

\* Every variable has its type.
TypeOK ==
    /\ TypeDatabase /\ TypeRedis /\ TypeWriter /\ TypeHandler /\ TypeClient
    /\ events \in 0..MaxEvents

\* A message leaves a window only because it was deleted: whatever fails and
\* in whatever order logs, answers and older pages arrive.
OnlyDeletedVanish ==
    \A c \in Clients : \A m \in loaded[c] \cup seen[c] :
        m \in Has(win[c]) \cup deleted

Newer(c) == {m \in seen[c] : \A n \in loaded[c] : n < m}

\* A message newer than the initial load that a poll delivered and a deletion
\* removed never comes back, not even after failed requests, expired logs or
\* a late page of older messages.
StaysRemoved ==
    [][\A c \in Clients : \A m \in Newer(c) : win[c][m] = None => win'[c][m] = None]_vars

\* Once the delete cursor has passed a deletion in the log, the message is
\* gone from every window that opened with it ("polls can cursor through
\* deletions").
PassedDeletions ==
    \A c \in Clients : \A m \in loaded[c] :
        deleteLog[m] # 0 /\ deleteLog[m] <= delCursor[c] => win[c][m] = None

\* Once the edit cursor has passed an edit in the log, the window shows that
\* text or a later one.
PassedEdits ==
    \A c \in Clients : \A e \in editLog :
        e.msg \in loaded[c] \cap Has(win[c]) /\ e.seq <= editCursor[c]
            => win[c][e.msg] >= e.text

\* A message that a window opened with leaves the window once its deletion
\* has been logged.
DeletionsArrive ==
    \A c \in Clients, m \in Msgs :
        [](m \in loaded[c] /\ deleteLog[m] # 0 => <>(win[c][m] = None))

LoggedText(m) == \E e \in editLog : e.msg = m /\ e.text = text[m]

\* Of a message that a window opened with, the window ends up with the
\* stored text, if that text has been logged.
EditsArrive ==
    \A c \in Clients, m \in Msgs :
        <>[](m \in loaded[c] /\ LoggedText(m) => win[c][m] \in {text[m], None})
=============================================================================
