---------------------------- MODULE MessageFeed ----------------------------
(***************************************************************************)
(* The path of a chat message in one chat, from SendMessage of the chat    *)
(* service to the window of the widget:                                    *)
(*                                                                         *)
(*   MessageService.SendMessage   Postgres insert, Redis last_seq, Publish *)
(*   PollHandler.Poll             fast path on last_seq, then a slow path  *)
(*                                behind the broker, 25 s timeout          *)
(*   useLongPoll / ChatWindow     the client loop, its cursor, its dedupe  *)
(*                                                                         *)
(* The three parts share no lock: every Redis command, every SQL statement *)
(* and every HTTP response is a step of its own.  Messages are named by    *)
(* their seq.  Deletions and edits are here for what they do to the        *)
(* delivery of messages (they hide a message, they wake the pollers and    *)
(* they fill a poll response); module ChangeFeed models their logs.        *)
(***************************************************************************)
EXTENDS Integers, FiniteSets

CONSTANTS
    Writers,     \* requests of the chat service that write: send, edit, delete
    Clients,     \* widgets with an open chat window
    None,        \* no writer holds the row lock
    InitPage,    \* messages loaded when the window opens (50 in useChat)
    PageLimit,   \* messages in one poll response (100 in PollHandler)
    MaxSeq,      \* bound: messages ever sent
    MaxChanges,  \* bound: deletions and edits ever logged
    MaxFaults    \* bound: failures of Redis, Postgres, a process or a connection

ASSUME FeedAssumption ==
    /\ None \notin Writers
    /\ InitPage \in Nat \ {0}
    /\ PageLimit \in Nat \ {0}
    /\ MaxSeq \in Nat
    /\ MaxChanges \in Nat
    /\ MaxFaults \in Nat

VARIABLES
    chatSeq,     \* Postgres: chat_seqs.last_seq of the chat, as committed
    rowLock,     \* Postgres: the writer whose transaction holds that row
    stored,      \* Postgres: seqs of the committed rows of messages
    deleted,     \* Postgres: seqs whose deleted_at is set
    lastSeq,     \* Redis: chat:{id}:last_seq, 0 when the key is absent
    changes,     \* Redis: entries appended to delete_log and edit_log
    wpc,         \* writer: next step of the service method
    wseq,        \* writer: seq its insert was given
    hpc,         \* poll request of a client: next step of PollHandler.Poll
    page,        \* poll request: messages read from Postgres so far
    newChanges,  \* poll request: last change seq to answer, 0 for none
    woken,       \* poll request: a notification sits in its broker channel
    cpc,         \* client: life cycle of the window and its poll loop
    cursor,      \* client: lastKnownSeq
    chgCursor,   \* client: lastKnownDeleteSeq and lastKnownEditSeq
    loaded,      \* client: messages of the initial load
    base,        \* client: initialSeq, the highest seq of the initial load
    seen,        \* client: seenIds, every message a poll has delivered
    faults       \* failures so far, for the bound MaxFaults

store   == <<chatSeq, rowLock, stored, deleted>>
redis   == <<lastSeq, changes>>
writer  == <<wpc, wseq>>
handler == <<hpc, page, newChanges, woken>>
client  == <<cpc, cursor, chgCursor, loaded, base, seen>>
vars    == <<store, redis, writer, handler, client, faults>>

-----------------------------------------------------------------------------
(* What the SQL queries return.                                            *)

Visible == stored \ deleted

IsMax(m, S) == m \in S /\ \A n \in S : n <= m

\* Mutant of Page: the newest messages first, as ListByChatID orders them.
PageNewestFirst(after) ==
    {n \in Visible : /\ n > after
                     /\ Cardinality({m \in Visible : n < m}) < PageLimit}

\* GetByChatIDAfterSeq: WHERE seq > after, ORDER BY seq ASC LIMIT PageLimit.
Page(after) ==
    {n \in Visible : /\ n > after
                     /\ Cardinality({m \in Visible : after < m /\ m < n}) < PageLimit}

\* Mutant of Latest: the oldest messages, as in GetByChatIDAfterSeq.
Oldest == {n \in Visible : Cardinality({m \in Visible : m < n}) < InitPage}

\* ListByChatID: ORDER BY seq DESC LIMIT InitPage.
Latest == {n \in Visible : Cardinality({m \in Visible : n < m}) < InitPage}

-----------------------------------------------------------------------------
Init ==
    /\ chatSeq = 0 /\ rowLock = None /\ stored = {} /\ deleted = {}
    /\ lastSeq = 0 /\ changes = 0
    /\ wpc = [w \in Writers |-> "idle"]
    /\ wseq = [w \in Writers |-> 0]
    /\ hpc = [c \in Clients |-> "none"]
    /\ page = [c \in Clients |-> {}]
    /\ newChanges = [c \in Clients |-> 0]
    /\ woken = [c \in Clients |-> FALSE]
    /\ cpc = [c \in Clients |-> "opening"]
    /\ cursor = [c \in Clients |-> 0]
    /\ chgCursor = [c \in Clients |-> 0]
    /\ loaded = [c \in Clients |-> {}]
    /\ base = [c \in Clients |-> 0]
    /\ seen = [c \in Clients |-> {}]
    /\ faults = 0

Fault == faults < MaxFaults /\ faults' = faults + 1

-----------------------------------------------------------------------------
(* Writers.  MessageRepo.Create is one SQL statement: its UPDATE of        *)
(* chat_seqs takes the row lock, which the transaction keeps until the     *)
(* insert is committed.  A reader sees nothing of it before the commit.    *)

WriterAt(w, from, to) == wpc[w] = from /\ wpc' = [wpc EXCEPT ![w] = to]

\* Mutant of SendBegin: the counter is bumped by a statement of its own,
\* committed before the insert.
SendBeginTwoStatements(w) ==
    /\ WriterAt(w, "idle", "insert")
    /\ chatSeq < MaxSeq
    /\ chatSeq' = chatSeq + 1
    /\ wseq' = [wseq EXCEPT ![w] = chatSeq + 1]
    /\ UNCHANGED <<rowLock, stored, deleted, redis, handler, client, faults>>

SendBegin(w) ==
    /\ WriterAt(w, "idle", "insert")
    /\ rowLock = None
    /\ chatSeq < MaxSeq
    /\ rowLock' = w
    /\ wseq' = [wseq EXCEPT ![w] = chatSeq + 1]
    /\ UNCHANGED <<chatSeq, stored, deleted, redis, handler, client, faults>>

SendCommit(w) ==
    /\ WriterAt(w, "insert", "setSeq")
    /\ chatSeq' = wseq[w]
    /\ stored' = stored \cup {wseq[w]}
    /\ rowLock' = None
    /\ UNCHANGED <<deleted, wseq, redis, handler, client, faults>>

\* Create returns an error: the transaction rolls back, the seq is not used.
SendAbort(w) ==
    /\ WriterAt(w, "insert", "idle")
    /\ rowLock' = None
    /\ UNCHANGED <<chatSeq, stored, deleted, wseq, redis, handler, client, faults>>

\* Mutant of SetLastSeq: the value before the increment.
SetLastSeqBefore(w) ==
    /\ WriterAt(w, "setSeq", "publish")
    /\ lastSeq' = wseq[w] - 1
    /\ UNCHANGED <<store, changes, wseq, handler, client, faults>>

\* SET chat:{id}:last_seq: it overwrites, whatever the key holds.
SetLastSeq(w) ==
    /\ WriterAt(w, "setSeq", "publish")
    /\ lastSeq' = wseq[w]
    /\ UNCHANGED <<store, changes, wseq, handler, client, faults>>

\* GetByID also returns deleted messages, so a delete may repeat.
Change(w, n) ==
    /\ WriterAt(w, "idle", "log")
    /\ n \in stored
    /\ changes + Cardinality({v \in Writers : wpc[v] = "log"}) < MaxChanges

SoftDelete(w, n) ==
    /\ Change(w, n)
    /\ deleted' = deleted \cup {n}
    /\ UNCHANGED <<chatSeq, rowLock, stored, wseq, redis, handler, client, faults>>

EditMessage(w, n) ==
    /\ Change(w, n)
    /\ UNCHANGED <<store, wseq, redis, handler, client, faults>>

LogChange(w) ==
    /\ WriterAt(w, "log", "publish")
    /\ changes' = changes + 1
    /\ UNCHANGED <<store, lastSeq, wseq, handler, client, faults>>

\* Publish reaches every poller that is subscribed; a full channel stays full.
Publish(w) ==
    /\ WriterAt(w, "publish", "idle")
    /\ woken' = [c \in Clients |-> woken[c] \/ hpc[c] = "wait"]
    /\ UNCHANGED <<store, redis, wseq, hpc, page, newChanges, client, faults>>

\* The Redis command of a step fails: it is logged and the method goes on.
RedisWriteFails(w) ==
    /\ Fault
    /\ \/ WriterAt(w, "setSeq", "publish")
       \/ WriterAt(w, "log", "publish")
       \/ WriterAt(w, "publish", "idle")
    /\ UNCHANGED <<store, redis, wseq, handler, client>>

\* The process dies between two steps; an open transaction rolls back.
WriterCrash(w) ==
    /\ Fault
    /\ wpc[w] \in {"insert", "setSeq", "log", "publish"}
    /\ wpc' = [wpc EXCEPT ![w] = "idle"]
    /\ rowLock' = IF rowLock = w THEN None ELSE rowLock
    /\ UNCHANGED <<chatSeq, stored, deleted, wseq, redis, handler, client>>

\* The 7-day TTL of last_seq runs out, or Redis loses the key.
LastSeqExpires ==
    /\ Fault
    /\ lastSeq # 0
    /\ lastSeq' = 0
    /\ UNCHANGED <<store, changes, writer, handler, client>>

-----------------------------------------------------------------------------
(* PollHandler.Poll for the request client c has open.  The client sends   *)
(* one request at a time, so the request's "after" is cursor[c].           *)

HandlerAt(c, from, to) == hpc[c] = from /\ hpc' = [hpc EXCEPT ![c] = to]

\* Mutant of ReadLastSeq: off by one, a gap of one message is not noticed.
ReadLastSeqOffByOne(c) ==
    /\ \/ lastSeq > cursor[c] + 1 /\ HandlerAt(c, "readSeq", "fastFetch")
       \/ lastSeq <= cursor[c] + 1 /\ HandlerAt(c, "readSeq", "fastChanges")
    /\ UNCHANGED <<store, redis, writer, page, newChanges, woken, client, faults>>

\* buildResult: GET last_seq; the database is read only if it is newer.
ReadLastSeq(c) ==
    /\ \/ lastSeq > cursor[c] /\ HandlerAt(c, "readSeq", "fastFetch")
       \/ lastSeq <= cursor[c] /\ HandlerAt(c, "readSeq", "fastChanges")
    /\ UNCHANGED <<store, redis, writer, page, newChanges, woken, client, faults>>

FastFetch(c) ==
    /\ HandlerAt(c, "fastFetch", "fastChanges")
    /\ page' = [page EXCEPT ![c] = Page(cursor[c])]
    /\ UNCHANGED <<store, redis, writer, newChanges, woken, client, faults>>

\* An error of GET or of the query is only logged: no messages this time.
FastReadFails(c) ==
    /\ Fault
    /\ \/ HandlerAt(c, "readSeq", "fastChanges")
       \/ HandlerAt(c, "fastFetch", "fastChanges")
    /\ UNCHANGED <<store, redis, writer, page, newChanges, woken, client>>

\* Mutant of ChangesSince: the score range includes the cursor itself.
ChangesSinceInclusive(c) == IF changes >= chgCursor[c] THEN changes ELSE 0

\* fetchDeletesSince and fetchEditsSince: entries after the client's cursor.
ChangesSince(c) == IF changes > chgCursor[c] THEN changes ELSE 0

\* The logs are read after the messages; the answer goes out if it has any
\* of both.
ChangesRead(c, found, from, nothing) ==
    /\ newChanges' = [newChanges EXCEPT ![c] = found]
    /\ \/ (page[c] # {} \/ found > 0) /\ HandlerAt(c, from, "answer")
       \/ (page[c] = {} /\ found = 0) /\ HandlerAt(c, from, nothing)
    /\ UNCHANGED <<store, redis, writer, page, woken, client>>

ReadChanges(c, from, nothing) ==
    ChangesRead(c, ChangesSince(c), from, nothing) /\ UNCHANGED faults

FastChanges(c) == ReadChanges(c, "fastChanges", "subscribe")

Subscribe(c) ==
    /\ HandlerAt(c, "subscribe", "wait")
    /\ UNCHANGED <<store, redis, writer, page, newChanges, woken, client, faults>>

\* case <-ch, then the settle delay.
Wake(c) ==
    /\ woken[c]
    /\ HandlerAt(c, "wait", "slowFetch")
    /\ woken' = [woken EXCEPT ![c] = FALSE]
    /\ UNCHANGED <<store, redis, writer, page, newChanges, client, faults>>

\* case <-time.After: select takes either case when both are ready.
Timeout(c) ==
    /\ HandlerAt(c, "wait", "noContent")
    /\ woken' = [woken EXCEPT ![c] = FALSE]
    /\ UNCHANGED <<store, redis, writer, page, newChanges, client, faults>>

SlowFetch(c) ==
    /\ HandlerAt(c, "slowFetch", "slowChanges")
    /\ page' = [page EXCEPT ![c] = Page(cursor[c])]
    /\ UNCHANGED <<store, redis, writer, newChanges, woken, client, faults>>

SlowFetchFails(c) ==
    /\ Fault
    /\ HandlerAt(c, "slowFetch", "failed")
    /\ UNCHANGED <<store, redis, writer, page, newChanges, woken, client>>

SlowChanges(c) == ReadChanges(c, "slowChanges", "noContent")

\* ZRANGEBYSCORE fails: no entries this time.
LogReadFails(c) ==
    /\ Fault
    /\ \/ ChangesRead(c, 0, "fastChanges", "subscribe")
       \/ ChangesRead(c, 0, "slowChanges", "noContent")

-----------------------------------------------------------------------------
(* The widget: useChat loads the window, useLongPoll polls.                *)

LoadWindow(c) ==
    /\ cpc[c] = "opening"
    /\ \E b \in Latest \cup {0} :
          /\ IsMax(b, Latest \cup {0})
          /\ base' = [base EXCEPT ![c] = b]
          /\ cursor' = [cursor EXCEPT ![c] = b]
    /\ loaded' = [loaded EXCEPT ![c] = Latest]
    /\ cpc' = [cpc EXCEPT ![c] = "ready"]
    /\ UNCHANGED <<store, redis, writer, handler, chgCursor, seen, faults>>

PollStart(c) ==
    /\ cpc[c] = "ready"
    /\ cpc' = [cpc EXCEPT ![c] = "polling"]
    /\ HandlerAt(c, "none", "readSeq")
    /\ UNCHANGED <<store, redis, writer, page, newChanges, woken,
                   cursor, chgCursor, loaded, base, seen, faults>>

\* The request is over, whatever its outcome; Unsubscribe drops its channel.
RequestEnds(c) ==
    /\ cpc[c] = "polling"
    /\ hpc' = [hpc EXCEPT ![c] = "none"]
    /\ page' = [page EXCEPT ![c] = {}]
    /\ newChanges' = [newChanges EXCEPT ![c] = 0]
    /\ woken' = [woken EXCEPT ![c] = FALSE]

Fresh(c) == page[c] \ seen[c]

\* 200: only messages not seen before move the cursor.
Receive(c) ==
    /\ hpc[c] = "answer"
    /\ RequestEnds(c)
    /\ cpc' = [cpc EXCEPT ![c] = "ready"]
    /\ seen' = [seen EXCEPT ![c] = @ \cup Fresh(c)]
    /\ \E m \in Fresh(c) \cup {cursor[c]} :
          /\ IsMax(m, Fresh(c) \cup {cursor[c]})
          /\ cursor' = [cursor EXCEPT ![c] = m]
    /\ chgCursor' = [chgCursor EXCEPT ![c] = IF newChanges[c] > @ THEN newChanges[c] ELSE @]
    /\ UNCHANGED <<store, redis, writer, loaded, base, faults>>

\* 204: reconnect at once, nothing changes.
ReceiveNoContent(c) ==
    /\ hpc[c] = "noContent"
    /\ RequestEnds(c)
    /\ cpc' = [cpc EXCEPT ![c] = "ready"]
    /\ UNCHANGED <<store, redis, writer, cursor, chgCursor, loaded, base, seen, faults>>

\* The catch branch for a failed request: step back one seq, retry later.
StepBack(c) ==
    /\ RequestEnds(c)
    /\ cpc' = [cpc EXCEPT ![c] = "ready"]
    /\ cursor' = [cursor EXCEPT ![c] = IF @ > 0 THEN @ - 1 ELSE 0]
    /\ UNCHANGED <<store, redis, writer, chgCursor, loaded, base, seen>>

ReceiveServerError(c) ==
    /\ hpc[c] = "failed"
    /\ StepBack(c)
    /\ UNCHANGED faults

\* The connection breaks, wherever the request is: the answer may be lost.
NetworkError(c) == Fault /\ StepBack(c)

\* 429 from PollIPRateLimit, before the handler: wait, keep the cursor.
RateLimited(c) ==
    /\ Fault
    /\ hpc[c] = "readSeq"
    /\ RequestEnds(c)
    /\ cpc' = [cpc EXCEPT ![c] = "ready"]
    /\ UNCHANGED <<store, redis, writer, cursor, chgCursor, loaded, base, seen>>

\* 401 without a refresh, or 403 banned: the loop ends.
Stopped(c) ==
    /\ Fault
    /\ hpc[c] = "readSeq"
    /\ RequestEnds(c)
    /\ cpc' = [cpc EXCEPT ![c] = "stopped"]
    /\ UNCHANGED <<store, redis, writer, cursor, chgCursor, loaded, base, seen>>

-----------------------------------------------------------------------------
WriterStep(w) == SendCommit(w) \/ SetLastSeq(w) \/ LogChange(w) \/ Publish(w)

HandlerStep(c) ==
    \/ ReadLastSeq(c) \/ FastFetch(c) \/ FastChanges(c)
    \/ Subscribe(c) \/ Wake(c) \/ Timeout(c)
    \/ SlowFetch(c) \/ SlowChanges(c)

ClientStep(c) ==
    \/ LoadWindow(c) \/ PollStart(c)
    \/ Receive(c) \/ ReceiveNoContent(c) \/ ReceiveServerError(c)

Next ==
    \/ \E w \in Writers :
          \/ SendBegin(w) \/ SendAbort(w) \/ WriterStep(w)
          \/ \E n \in stored : SoftDelete(w, n) \/ EditMessage(w, n)
          \/ RedisWriteFails(w) \/ WriterCrash(w)
    \/ LastSeqExpires
    \/ \E c \in Clients :
          \/ HandlerStep(c) \/ ClientStep(c)
          \/ FastReadFails(c) \/ SlowFetchFails(c) \/ LogReadFails(c)
          \/ NetworkError(c) \/ RateLimited(c) \/ Stopped(c)

Spec == Init /\ [][Next]_vars

\* The Go scheduler runs every goroutine that can run, the timer of a poll
\* fires, and the browser runs the loop's next turn.  Nobody has to send.
Fairness ==
    /\ \A w \in Writers : WF_vars(WriterStep(w))
    /\ \A c \in Clients : WF_vars(HandlerStep(c)) /\ WF_vars(ClientStep(c))

FairSpec == Spec /\ Fairness

-----------------------------------------------------------------------------
(* Properties                                                              *)

\* Every variable has its type.
TypeOK ==
    /\ chatSeq \in Nat /\ rowLock \in Writers \cup {None}
    /\ stored \subseteq Nat /\ deleted \subseteq Nat
    /\ lastSeq \in Nat /\ changes \in Nat
    /\ wpc \in [Writers -> {"idle", "insert", "setSeq", "log", "publish"}]
    /\ wseq \in [Writers -> Nat]
    /\ hpc \in [Clients -> {"none", "readSeq", "fastFetch", "fastChanges", "subscribe",
                            "wait", "slowFetch", "slowChanges",
                            "answer", "noContent", "failed"}]
    /\ page \in [Clients -> SUBSET Nat]
    /\ newChanges \in [Clients -> Nat]
    /\ woken \in [Clients -> BOOLEAN]
    /\ cpc \in [Clients -> {"opening", "ready", "polling", "stopped"}]
    /\ cursor \in [Clients -> Nat]
    /\ chgCursor \in [Clients -> Nat]
    /\ loaded \in [Clients -> SUBSET Nat]
    /\ base \in [Clients -> Nat]
    /\ seen \in [Clients -> SUBSET Nat]
    /\ faults \in Nat

\* Messages become readable in seq order: when a reader can see seq n, it can
\* see every smaller one (MessageRepo.Create under concurrent senders).
StoredIsPrefix == \A n \in stored : 1..n \subseteq stored

\* Everything client c has put into its window.
Window(c) == loaded[c] \cup seen[c]

\* From the oldest message of the initial load to the newest one shown or
\* passed by the cursor, the window misses no message that still exists:
\* pages, step-backs, races with senders and deletions never skip one.
NoHoles ==
    \A c \in Clients : \A n \in Visible :
        (/\ \E m \in loaded[c] \cup {base[c]} : m <= n
         /\ \E m \in Window(c) \cup {cursor[c]} : n <= m)
        => n \in Window(c)

\* The window from its initial load on.  A series of failed polls takes the
\* cursor below the load; what polls bring then is older than all of this.
FromLoad(c) ==
    {m \in Window(c) : loaded[c] = {} \/ \E k \in loaded[c] : k <= m}

\* The feed implements OrderedFeed: from its initial load on, a window only
\* ever grows at its end.
Abstract == INSTANCE OrderedFeed WITH
    length <- chatSeq, hidden <- deleted,
    open   <- {c \in Clients : cpc[c] # "opening"},
    window <- [c \in Clients |-> FromLoad(c)]

RefinesOrderedFeed == Abstract!Spec

\* Client c has message n, or opened its window past it.
Shown(c, n) == n \in Window(c) \/ n < base[c]

\* A message that stays readable while last_seq stays at its seq or above
\* reaches every client that goes on polling, whatever fails meanwhile.
Delivery ==
    \A c \in Clients, n \in 1..MaxSeq :
        (/\ <>[](n \in Visible /\ lastSeq >= n)
         /\ [](cpc[c] # "stopped"))
        => <>Shown(c, n)

\* Every message that stays readable reaches every client that goes on
\* polling (last_seq lets a poll "detect missed messages").
EventuallyShown ==
    \A c \in Clients, n \in 1..MaxSeq :
        (<>[](n \in Visible) /\ [](cpc[c] # "stopped")) => <>Shown(c, n)

\* A client never polls in a tight loop for ever: again and again its
\* request waits for the broker, until it stops polling.
PollParks == \A c \in Clients : []<>(hpc[c] = "wait" \/ cpc[c] = "stopped")

\* A poll that waits with an empty channel has nothing to wait for: a newer
\* message is still on its way through SendMessage.
WaitingIsUpToDate ==
    \A c \in Clients : hpc[c] = "wait" /\ ~woken[c] =>
        \A n \in Visible : n > cursor[c] =>
            \E w \in Writers : wpc[w] \in {"setSeq", "publish"} /\ wseq[w] = n
=============================================================================
