----------------------------- MODULE SendWindow -----------------------------
(***************************************************************************)
(* The window of a user who writes and deletes in it.  Three things change *)
(* the list at once: handleSend, which shows a message before the server   *)
(* has it and renames it when the POST is answered; handleDelete, which    *)
(* takes a message away when the DELETE is answered; and the poll, which   *)
(* knows nothing of either.  An optimistic entry is named by its send, any *)
(* other by its seq.                                                       *)
(*                                                                         *)
(* The requests of the service overlap, one step per statement of SQL and  *)
(* Redis.  PUBLISH has no step: all it does is to wake a poll that waits,  *)
(* and as an edit of any message does that too, a poll may be woken at any *)
(* time here and need not be.  An edit may also fill an answer.            *)
(* last_seq and the delete log do not expire here; see MessageFeed and     *)
(* ChangeFeed.                                                             *)
(***************************************************************************)
EXTENDS MessageTable, FiniteSetsExt

CONSTANTS
    Sends,    \* calls of handleSend
    Deletes,  \* calls of handleDelete
    Others,   \* requests of other windows, each a send or a deletion
    PageLimit \* messages in one poll response (100 in PollHandler)

Requests == Sends \cup Deletes \cup Others

ASSUME SendWindowAssumption ==
    /\ Requests \cap Nat = {} /\ Sends \cap (Deletes \cup Others) = {}
    /\ PageLimit \in Nat \ {0}

\* The ids of the entries of the list.
Ids == Sends \cup Msgs

VARIABLES
    lastSeq,   \* Redis: last_seq
    deleteSeq, \* Redis: delete_seq
    logged,    \* Redis: the delete log, by message its number there or 0
    step,      \* by request: next statement of the service
    about,     \* by request: the message it inserts or deletes, 0 before
    number,    \* by request: what INCR gave its deletion, 0 before
    send,      \* by send: how far handleSend is
    entries,   \* allMessages: how often each id is in it
    poll,      \* the poll: next step, "stopped" when the loop has ended
    page,      \* poll request: the messages of the answer
    gone,      \* poll request: deleted_ids
    lastDelete, \* poll request: last_delete_seq
    seen, cursor, delCursor, \* useLongPoll: seenIds, lastKnownSeq, lastKnownDeleteSeq
    overtaken, \* own messages that a poll delivered before the POST's answer
    outlived,  \* own messages whose deletion a poll brought before the POST's answer
    crossed,   \* messages that one poll answer both delivered and deleted
    late       \* messages whose deletion was logged behind one that a poll had read

redis == <<lastSeq, deleteSeq, logged>>
service == <<step, about, number>>
window == <<send, entries>>
request == <<page, gone, lastDelete>>
cursors == <<seen, cursor, delCursor>>
races == <<overtaken, outlived, crossed, late>>
vars == <<posted, deleted, redis, service, window, poll, request, cursors, races, faults>>

Shown == {e \in Ids : entries[e] > 0}

Init ==
    /\ posted = 0 /\ deleted = {}
    /\ lastSeq = 0 /\ deleteSeq = 0 /\ logged = [n \in Msgs |-> 0]
    /\ step = [r \in Requests |-> "new"]
    /\ about = [r \in Requests |-> 0] /\ number = [r \in Requests |-> 0]
    /\ send = [k \in Sends |-> "new"] /\ entries = [e \in Ids |-> 0]
    /\ poll = "readSeq" /\ page = {} /\ gone = {} /\ lastDelete = 0
    /\ seen = {} /\ cursor = 0 /\ delCursor = 0
    /\ overtaken = {} /\ outlived = {} /\ crossed = {} /\ late = {}
    /\ faults = 0

-----------------------------------------------------------------------------
(* The service.  A request may stop anywhere: its process dies.            *)

StepAt(r, from, to) == step[r] = from /\ step' = [step EXCEPT ![r] = to]

\* SendMessage: the insert, for a POST of this window or of another.
Store(r) ==
    /\ \/ StepAt(r, "insert", "setSeq")
       \/ r \in Others /\ StepAt(r, "new", "setSeq")
    /\ Insert
    /\ about' = [about EXCEPT ![r] = posted + 1]
    /\ UNCHANGED <<deleted, redis, number, window, poll, request, cursors, races, faults>>

\* It overwrites, whatever another request has written meanwhile.
SetLastSeq(r) ==
    /\ StepAt(r, "setSeq", "done")
    /\ lastSeq' = about[r]
    /\ UNCHANGED <<posted, deleted, deleteSeq, logged, about, number, window, poll, request,
                   cursors, races, faults>>

\* SoftDelete: the row is marked, whether it was before or not.
MarkRow(r, n) == deleted' = deleted \cup {n} /\ about' = [about EXCEPT ![r] = n]

OtherDeletes(r, n) ==
    /\ StepAt(r, "new", "incr")
    /\ n \in 1..posted
    /\ MarkRow(r, n)
    /\ UNCHANGED <<posted, redis, number, window, poll, request, cursors, races, faults>>

SoftDelete(r) ==
    /\ StepAt(r, "update", "incr")
    /\ MarkRow(r, about[r])
    /\ UNCHANGED <<posted, redis, number, window, poll, request, cursors, races, faults>>

IncrDelete(r) ==
    /\ StepAt(r, "incr", "log")
    /\ deleteSeq' = deleteSeq + 1
    /\ number' = [number EXCEPT ![r] = deleteSeq + 1]
    /\ UNCHANGED <<posted, deleted, lastSeq, logged, about, window, poll, request, cursors,
                   races, faults>>

\* Another deletion, numbered after this one, has been logged before it, and
\* a poll has read that.
Behind(r) ==
    /\ \E q \in Requests : number[q] > number[r] /\ step[q] # "log"
    /\ number[r] <= Max({delCursor, lastDelete})

LogDelete(r) ==
    /\ StepAt(r, "log", "done")
    /\ logged' = [logged EXCEPT ![about[r]] = number[r]]
    /\ late' = IF Behind(r) THEN late \cup {about[r]} ELSE late \ {about[r]}
    /\ UNCHANGED <<posted, deleted, lastSeq, deleteSeq, about, number, window, poll, request,
                   cursors, overtaken, outlived, crossed, faults>>

\* SET, INCR or ZADD fails: that is logged, and the method goes on to its
\* end.  It is no rare failure for a send whose connection has broken: its
\* context is cancelled.
RedisFails(r) ==
    /\ Fault \/ (r \in Sends /\ send[r] = "failed" /\ UNCHANGED faults)
    /\ \E from \in {"setSeq", "incr", "log"} : StepAt(r, from, "done")
    /\ number' = [number EXCEPT ![r] = 0]
    /\ UNCHANGED <<posted, deleted, redis, about, window, poll, request, cursors, races>>

-----------------------------------------------------------------------------
(* handleSend and handleDelete.                                            *)

SendAt(k, from, to) == send[k] = from /\ send' = [send EXCEPT ![k] = to]

HandleSend(k) ==
    /\ SendAt(k, "new", "pending") /\ StepAt(k, "new", "insert")
    /\ entries' = [entries EXCEPT ![k] = @ + 1]
    /\ UNCHANGED <<posted, deleted, redis, about, number, poll, request, cursors, races, faults>>

\* What polls have told of message n before this moment.
Undone(n) == logged[n] # 0 /\ logged[n] <= delCursor

Renamed(k) ==
    LET n == about[k]
    IN  /\ step[k] = "done" /\ SendAt(k, "pending", "ok")
        /\ entries' = [entries EXCEPT ![k] = 0, ![n] = @ + entries[k]]
        /\ overtaken' = IF n \in seen THEN overtaken \cup {n} ELSE overtaken
        /\ outlived' = IF Undone(n) THEN outlived \cup {n} ELSE outlived
        /\ UNCHANGED <<posted, deleted, redis, service, poll, request, crossed, late, faults>>

\* Mutant of SendAnswered: the poll goes on after the message sent.
AnsweredAndSkipped(k) ==
    Renamed(k) /\ cursor' = Max({cursor, about[k]}) /\ UNCHANGED <<seen, delCursor>>

\* The optimistic entry gets the id and the seq of the answer.
SendAnswered(k) == Renamed(k) /\ UNCHANGED cursors

\* Mutant of Withdraw: the entry stays as it is.
KeepEntry(k) == UNCHANGED entries

Withdraw(k) == entries' = [entries EXCEPT ![k] = 0]

Refused(k) ==
    /\ SendAt(k, "pending", "failed") /\ StepAt(k, "insert", "refused")
    /\ Withdraw(k)
    /\ UNCHANGED <<posted, deleted, redis, about, number, cursors, races, faults>>

\* The server refuses the message: the user is muted, sends too fast, or
\* the insert fails.
SendRefused(k) == Refused(k) /\ UNCHANGED <<poll, request>>

RequestOver == page' = {} /\ gone' = {} /\ lastDelete' = 0

\* It answers 403, the user is banned: that ends the poll as well.
SendBanned(k) == Refused(k) /\ poll' = "stopped" /\ RequestOver

\* The connection breaks, at any time; the service may go on.
SendLost(k) ==
    /\ Fault
    /\ SendAt(k, "pending", "failed")
    /\ Withdraw(k)
    /\ UNCHANGED <<posted, deleted, redis, service, poll, request, cursors, races>>

\* The user deletes what he sees, an optimistic entry excepted.
HandleDelete(d, n) ==
    /\ StepAt(d, "new", "update")
    /\ n \in Shown
    /\ about' = [about EXCEPT ![d] = n]
    /\ UNCHANGED <<posted, deleted, redis, number, window, poll, request, cursors, races, faults>>

\* An answer that is lost, or refuses the deletion, changes nothing.
DeleteAnswered(d) ==
    /\ StepAt(d, "done", "answered")
    /\ entries' = [entries EXCEPT ![about[d]] = 0]
    /\ UNCHANGED <<posted, deleted, redis, about, number, send, poll, request, cursors, races,
                   faults>>

-----------------------------------------------------------------------------
(* PollHandler.Poll.                                                       *)

PollAt(from, to) == poll = from /\ poll' = to

ReadLastSeq ==
    /\ \/ lastSeq > cursor /\ PollAt("readSeq", "fetch")
       \/ lastSeq <= cursor /\ PollAt("readSeq", "readDeletes")
    /\ UNCHANGED <<posted, deleted, redis, service, window, request, cursors, races, faults>>

\* The PageLimit oldest messages after the cursor.
Newer == {n \in Visible : /\ n > cursor
                          /\ Cardinality({m \in Visible : cursor < m /\ m < n}) < PageLimit}

Fetch(from, to) ==
    /\ PollAt(from, to)
    /\ page' = Newer
    /\ UNCHANGED <<posted, deleted, redis, service, window, gone, lastDelete, cursors, races,
                   faults>>

FastFetch == Fetch("fetch", "readDeletes")

\* Woken: the slow path reads without a look at last_seq.
SlowFetch == Fetch("wait", "slowDeletes")

\* GET or the query fails: no messages this time.
FastReadFails ==
    /\ Fault
    /\ PollAt("readSeq", "readDeletes") \/ PollAt("fetch", "readDeletes")
    /\ UNCHANGED <<posted, deleted, redis, service, window, request, cursors, races>>

\* An empty answer is not sent; the edits, read last, may fill it.
Answer(from, nothing) ==
    \/ page \cup gone' = {} /\ PollAt(from, nothing)
    \/ PollAt(from, "answer")

DeletesRead ==
    \/ Answer("readDeletes", "wait")
    \/ Answer("slowDeletes", "readSeq") \* 204, and the next request

ReadDeletes ==
    /\ gone' = {n \in Msgs : logged[n] > delCursor}
    /\ lastDelete' = Max({0} \cup {logged[n] : n \in gone'})
    /\ DeletesRead
    /\ UNCHANGED <<posted, deleted, redis, service, window, page, cursors, races, faults>>

\* ZRANGEBYSCORE fails: no deletions this time.
DeletesReadFails ==
    /\ Fault
    /\ UNCHANGED request
    /\ DeletesRead
    /\ UNCHANGED <<posted, deleted, redis, service, window, cursors, races>>

\* 25 s without a wake-up: 204, and the next request.
Timeout ==
    /\ PollAt("wait", "readSeq")
    /\ UNCHANGED <<posted, deleted, redis, service, window, request, cursors, races, faults>>

-----------------------------------------------------------------------------
(* useLongPoll and handlePollMessages.                                     *)

Kept == [e \in Ids |-> IF e \in gone THEN 0 ELSE entries[e]]

\* Mutant of Merged: what the window has already is appended again.
MergedTwice(fresh) == [e \in Ids |-> IF e \in fresh THEN Kept[e] + 1 ELSE Kept[e]]

\* Mutant of Merged: an answer with messages is not searched for deletions.
MergedEither(fresh) ==
    IF fresh = {} THEN Kept
    ELSE [e \in Ids |-> IF e \in fresh \ Shown THEN 1 ELSE entries[e]]

\* Deletions first, then the messages not shown yet.
Merged(fresh) == [e \in Ids |-> IF e \in fresh /\ Kept[e] = 0 THEN 1 ELSE Kept[e]]

Receive ==
    LET fresh == page \ seen
    IN  /\ PollAt("answer", "readSeq")
        /\ entries' = Merged(fresh)
        /\ seen' = seen \cup fresh
        /\ cursor' = Max(fresh \cup {cursor})
        /\ delCursor' = Max({delCursor, lastDelete})
        /\ crossed' = (crossed \ gone) \cup (fresh \cap gone)
        /\ outlived' = outlived \ gone /\ late' = late \ gone
        /\ RequestOver
        /\ UNCHANGED <<posted, deleted, redis, service, send, overtaken, faults>>

\* The connection breaks or the server answers with an error.
PollFails ==
    /\ Fault
    /\ poll # "stopped" /\ poll' = "readSeq"
    /\ cursor' = IF cursor > 0 THEN cursor - 1 ELSE 0
    /\ RequestOver
    /\ UNCHANGED <<posted, deleted, redis, service, window, seen, delCursor, races>>

\* 429, before the handler: the loop waits and keeps its cursor.
PollLimited ==
    /\ Fault
    /\ PollAt("readSeq", "readSeq")
    /\ UNCHANGED <<posted, deleted, redis, service, window, request, cursors, races>>

\* 401 without a refresh, or 403 banned, before the handler: the loop ends.
PollStopped ==
    /\ PollAt("readSeq", "stopped")
    /\ UNCHANGED <<posted, deleted, redis, service, window, request, cursors, races, faults>>

PollStep ==
    ReadLastSeq \/ FastFetch \/ SlowFetch \/ ReadDeletes \/ Timeout \/ Receive

Next ==
    \/ PollStep \/ FastReadFails \/ DeletesReadFails \/ PollFails \/ PollLimited \/ PollStopped
    \/ \E r \in Requests : \/ Store(r) \/ SetLastSeq(r)
                           \/ SoftDelete(r) \/ IncrDelete(r) \/ LogDelete(r) \/ RedisFails(r)
    \/ \E k \in Sends : \/ HandleSend(k) \/ SendAnswered(k) \/ SendRefused(k)
                        \/ SendBanned(k) \/ SendLost(k)
    \/ \E n \in Msgs : \/ \E d \in Deletes : HandleDelete(d, n)
                       \/ \E r \in Others : OtherDeletes(r, n)
    \/ \E d \in Deletes : DeleteAnswered(d)

\* The widget polls on until it is stopped, whatever the user does; no
\* request of anybody has to come to its end.
Spec == Init /\ [][Next]_vars /\ WF_vars(PollStep)

-----------------------------------------------------------------------------
\* A pale entry stands for a POST under way, whatever polls, deletions and
\* lost answers did to the list meanwhile: none is left when its send has
\* ended, none is missing before.
PaleWhilePending == \A k \in Sends : k \in Shown <=> send[k] = "pending"

\* A message is in the list once.  The exception the code has: the poll
\* brought the user's own message before the POST was answered, and the
\* answer renames the pale entry to the same id.
OnceUnlessOvertaken ==
    \A e \in Ids : entries[e] > 1 => e \in overtaken

\* Whoever wrote it, and whether or not the sender saw an answer: a message
\* that is not deleted appears for good, if last_seq is at its number or
\* above and stays there, and the loop is not ended by a 401 or 403.  As in
\* MessageFeed, this needs fewer failures than a page has messages.
EveryMessageAppears ==
    [](poll # "stopped") =>
        \A n \in Msgs : <>[](n \in Visible /\ lastSeq >= n) => <>[](n \in Shown)

\* A deleted message disappears for good, from whichever end it was deleted,
\* if its deletion got into the log and the loop is not ended.  Three races
\* of the code leave it shown until it is deleted again: a poll brought the
\* deletion before the POST's answer brought the message; one poll brought
\* both; or it was logged after a deletion with a higher number, and a poll
\* had read that one.
DeletedDisappear ==
    [](poll # "stopped") =>
        \A n \in Msgs :
            <>[](logged[n] # 0 /\ n \in Shown => n \in outlived \cup crossed \cup late)
=============================================================================
