------------------------------- MODULE Paging -------------------------------
(***************************************************************************)
(* Reading a chat in pieces while it changes: the widget pages backwards   *)
(* by seq (List with "before", loadOlderMessages), the export of the admin *)
(* service pages forwards by OFFSET.  Messages are appended and soft-      *)
(* deleted between any two of the queries.                                 *)
(***************************************************************************)
EXTENDS MessageTable, FiniteSetsExt

CONSTANTS
    Initial, \* messages stored at the beginning
    Cap,     \* most rows List returns (100 in message_service.go)
    Limits,  \* the limits clients ask for (50 in the widget)
    Batch,   \* exportBatchSize
    MaxDeletes \* bound: deletions

ASSUME PagingAssumption ==
    /\ Initial \in 0..MaxSeq
    /\ Cap \in Nat \ {0} /\ Batch \in Nat \ {0}
    /\ Limits \subseteq Nat \ {0} /\ MaxDeletes \in Nat

VARIABLES
    limit,   \* client: the limit it asks for
    opened,  \* client: its initial load is there
    win,     \* client: the messages in allMessages
    top,     \* client: newest message of the initial load
    hasMore, \* client: hasMore
    answer,  \* client: rows of a List under way, with its has_more
    export,  \* export: "none", "running", "done", "broken"
    offset,  \* export: offset of the next batch
    file,    \* export: how often each message is in the file
    owed,    \* export: messages that were there when it began and still are
    during   \* export: deletions since it began

table == <<posted, deleted>>
history == <<limit, opened, win, top, hasMore, answer>>
exportVars == <<export, offset, file, owed, during>>
pagingVars == <<table, faults, history, exportVars>>

None == [rows |-> {}, more |-> FALSE, busy |-> FALSE]

PagingInit ==
    /\ posted = Initial /\ deleted = {} /\ faults = 0
    /\ limit \in Limits /\ opened = FALSE
    /\ win = {} /\ top = 0 /\ hasMore = FALSE /\ answer = None
    /\ export = "none" /\ offset = 0 /\ file = [n \in Msgs |-> 0] /\ owed = {} /\ during = 0

-----------------------------------------------------------------------------
Send ==
    /\ Insert
    /\ UNCHANGED <<deleted, faults, history, exportVars>>

Delete(n) ==
    /\ n \in Visible /\ Cardinality(deleted) < MaxDeletes
    /\ deleted' = deleted \cup {n}
    /\ owed' = owed \ {n}
    /\ during' = IF export = "running" THEN during + 1 ELSE during
    /\ UNCHANGED <<posted, faults, history, export, offset, file>>

-----------------------------------------------------------------------------
(* MessageHandler.List, useChat and loadOlderMessages.                     *)

Least(S) == CHOOSE n \in S : \A m \in S : n <= m

\* The k newest of S.
Newest(S, k) == {n \in S : Cardinality({m \in S : m > n}) < k}

\* ORDER BY seq DESC LIMIT k of the rows S that are not deleted.
Page(S, k) == Newest(S, k)

\* The service caps the limit, the handler compares with what was asked for.
Listed(S) ==
    LET rows == Page(S, IF limit > Cap THEN Cap ELSE limit)
    IN  [rows |-> rows, more |-> Cardinality(rows) = limit, busy |-> TRUE]

OpenRequest ==
    /\ ~opened /\ ~answer.busy
    /\ answer' = Listed(Visible)
    /\ UNCHANGED <<table, faults, limit, opened, win, top, hasMore, exportVars>>

OpenAnswer ==
    /\ ~opened /\ answer.busy
    /\ opened' = TRUE
    /\ win' = answer.rows /\ hasMore' = answer.more
    /\ top' = Max(answer.rows \cup {0})
    /\ answer' = None
    /\ UNCHANGED <<table, faults, limit, exportVars>>

\* Mutant of Before: seq <= before.
BeforeOrAt(n) == {m \in Visible : m <= n}

\* Mutant of Before: the message before the first one shown is skipped.
BeforeLess(n) == {m \in Visible : m < n - 1}

Before(n) == {m \in Visible : m < n}

\* loadOlderMessages asks for what is before the first message shown; with
\* nothing shown it returns at once.
OlderRequest ==
    /\ opened /\ hasMore /\ ~answer.busy /\ win # {}
    /\ answer' = Listed(Before(Least(win)))
    /\ UNCHANGED <<table, faults, limit, opened, win, top, hasMore, exportVars>>

OlderAnswer ==
    /\ opened /\ answer.busy
    /\ win' = win \cup answer.rows /\ hasMore' = answer.more
    /\ answer' = None
    /\ UNCHANGED <<table, faults, limit, opened, top, exportVars>>

\* The request fails; hasMore stays and the next scroll tries again.
OlderFails ==
    /\ Fault
    /\ opened /\ answer.busy
    /\ answer' = None
    /\ UNCHANGED <<table, limit, opened, win, top, hasMore, exportVars>>

\* The poll takes deleted messages away, in whatever order they are logged,
\* and brings those after the initial load.
PollRemoves(n) ==
    /\ opened /\ n \in win \cap deleted
    /\ win' = win \ {n}
    /\ UNCHANGED <<table, faults, limit, opened, top, hasMore, answer, exportVars>>

PollBrings(n) ==
    /\ opened /\ n \in Visible \ win /\ n > top
    /\ \A m \in Visible : top < m /\ m < n => m \in win
    /\ win' = win \cup {n}
    /\ UNCHANGED <<table, faults, limit, opened, top, hasMore, answer, exportVars>>

-----------------------------------------------------------------------------
(* ExportService: exportCSV and exportNDJSON.                              *)

ExportStart ==
    /\ export = "none"
    /\ export' = "running" /\ owed' = Visible
    /\ UNCHANGED <<table, faults, history, offset, file, during>>

\* How many rows come before message n, in the order of the query.
Rank(n) == Cardinality({m \in Visible : m < n})

\* GetByChatRange: ORDER BY seq LIMIT k OFFSET o.
Slice(o, k) == {n \in Visible : o <= Rank(n) /\ Rank(n) < o + k}

\* Mutant of NextOffset: one too far.
OffsetPast(o) == o + Batch + 1

NextOffset(o) == o + Batch

\* An empty batch is the end; another one is written and the next asked for.
ExportBatch ==
    /\ export = "running"
    /\ LET rows == Slice(offset, Batch)
       IN  \/ rows = {} /\ export' = "done" /\ UNCHANGED <<offset, file>>
           \/ /\ rows # {}
              /\ file' = [n \in Msgs |-> IF n \in rows THEN file[n] + 1 ELSE file[n]]
              /\ offset' = NextOffset(offset)
              /\ UNCHANGED export
    /\ UNCHANGED <<table, faults, history, owed, during>>

\* A query fails or the admin goes away: the file ends where it is, and the
\* status has been sent long before.
ExportBreaks ==
    /\ Fault
    /\ export = "running"
    /\ export' = "broken"
    /\ UNCHANGED <<table, history, offset, file, owed, during>>

-----------------------------------------------------------------------------
OpenStep == OpenRequest \/ OpenAnswer
OlderStep == OlderRequest \/ OlderAnswer
ExportStep == ExportStart \/ ExportBatch

PagingNext ==
    \/ Send
    \/ OpenStep \/ OlderStep \/ OlderFails
    \/ ExportStep \/ ExportBreaks
    \/ \E n \in Msgs : Delete(n) \/ PollRemoves(n) \/ PollBrings(n)

\* A user who scrolls up for as long as there is more.
PagingSpec == PagingInit /\ [][PagingNext]_pagingVars /\ WF_pagingVars(OpenStep) /\ WF_pagingVars(OlderStep)

-----------------------------------------------------------------------------
\* Above its first message the window has no hole: what is there and not
\* deleted is shown, whatever was deleted between two pages.
NoHoles ==
    \A n \in Visible : win # {} /\ Least(win) <= n /\ n <= top => n \in win

\* Scrolling up brings the whole history, in spite of failed requests and
\* of deletions, unless everything shown is deleted first and the widget has
\* no message to ask from.
ScrollingReachesAll ==
    opened /\ limit <= Cap ~> win = {} \/ \A n \in Visible : n <= top => n \in win

\* No message is twice in an export, and one that ran to its end has all
\* messages that were there from beginning to end, except at most one for
\* each message deleted while it ran: none, if nothing was deleted.
ExportMissesFew ==
    /\ \A n \in Msgs : file[n] <= 1
    /\ export = "done" => Cardinality({n \in owed : file[n] = 0}) <= during
=============================================================================
