# TLA+ models of ChatSem

ChatSem is an embeddable chat: a React widget, three Go services (chat, auth,
admin), PostgreSQL and Redis. This directory holds TLA+ models of its core,
the TLC runs that check them on small instances, and TLAPS proofs of the
safety properties for every instance.

* [Components](#components)
* [The modules](#the-modules)
* [The runs](#the-runs)
* [Disagreements found](#disagreements-found)
* [Proofs](#proofs)
* [What is only model-checked](#what-is-only-model-checked)
* [Not modelled](#not-modelled)
* [What could come next](#what-could-come-next)
* [How to run](#how-to-run)

## Components

State is named as in the code. "Hard" is what tests hardly reach.

| Component | State | Operations | Hard | Correct when | Module |
|---|---|---|---|---|---|
| Message path, `message_service.go`, `message_repo.go` | rows of `messages`, counter row in `chat_seqs`, Redis `chat:{id}:last_seq` | SendMessage: checks, insert, SET, PUBLISH | concurrent senders, a failure between the three writes | messages become readable in seq order and reach every reader | MessageFeed, Moderation |
| Poll, `poll_handler.go` | none of its own; one request per widget | fast path on `last_seq`, subscribe, wait 25 s, slow path | a send between read and subscribe; reads at different moments | a waiting poll has nothing to deliver; an answer is consistent | MessageFeed, ChangeFeed |
| Delete and edit logs, `message_service.go:182-305` | `delete_seq`, `delete_log`, `edit_seq`, `edit_log` (sorted sets, 1 h) | SoftDelete, EditMessage: update, INCR, ZADD, PUBLISH | overlap of INCR and ZADD, expiry | every window that shows a message learns of its deletion and last text | ChangeFeed |
| Redis broker, `redis_broker.go` | map chat → fanout (clients, subscription, reader goroutine), one mutex | Subscribe, Unsubscribe, Publish, fanOut | subscribe while the last one leaves, send without the mutex, bounded buffers | no leak, no lost notification | RedisBroker |
| Bans, `ban_service.go`, `ban.go`, both `ban_repo.go` | rows of `bans`, Redis `ban:{event}:{user}` | CreateBan, UnbanUser, BanCheck | cache written after a read, TTL, scope | a banned user stays out; an unbanned one gets in | Bans, Moderation |
| Mutes, `mute_service.go`, both `mute_repo.go` | rows of `mutes` | CreateMute, UnmuteUser, IsUserMuted | check then insert; checks that fail open | a muted user does not post; at most one active mute | Moderation |
| Rate limiter, `ratelimit.go` | sorted set per address or user | `allow` (Lua) | equal timestamps, rejected requests, scripts out of order | no more than the limit in a window, no rejection without cause | RateLimit |
| Presence, `online_handler.go`, `useOnline.ts` | sorted set per chat | Heartbeat, Leave, OnlineCount | several tabs of one user; lost or limited requests | who is there is counted, who has gone is not | Presence |
| Chat tree and join, `chat_service.go`, `chat_repo.go` | rows of `chats`, `chat_seqs` | GetOrCreateChild, InitChatSeq, ListChats | concurrent joins, partial failure | one room per id, with a counter | Rooms |
| Events (admin), `event_service.go` | rows of `events`, `chats` | CreateEvent, RotateSecret | three statements, no transaction | an event has a parent chat with a counter | Rooms, Session |
| History and export, `message_handler.go`, `export_service.go` | none | `before` pages, OFFSET batches of 100 | rows move between pages and batches | every message once | Paging |
| Auth service, `auth_service.go`, `user_repo.go` | `users` | token exchange | rotation and role changes meanwhile | the token carries the admin's decisions | Session |
| API client, `client.ts` | token, `refreshPromise` | request with one retry after 401 | concurrent 401s | one refresh, no loop, no request acted on twice | Session |
| Widget poll loop, `useLongPoll.ts` | `lastKnownSeq`, `lastKnownDeleteSeq`, `lastKnownEditSeq`, `seenIds` | poll, retry, step back | failed requests, duplicates | the cursor passes nothing unseen | MessageFeed, ChangeFeed, SendWindow |
| Widget window, `ChatWindow.tsx`, `useChat.ts` | `allMessages` | initial load, merge of a poll, older page, optimistic send, delete | answers that arrive out of order | shows what exists, once, in order | MessageFeed, ChangeFeed, SendWindow, Paging |
| Panel, presentation, in-memory broker, configuration, migrations, deployment | - | - | - | - | [not modelled](#not-modelled) |

The widget calls the chat service over HTTP and holds one poll open. The chat
service writes PostgreSQL first, then Redis, then publishes; another instance
of it may hold the poll. The admin service writes bans to both PostgreSQL and
Redis, the chat service reads both. No lock is shared between processes: every
SQL statement, Redis command and HTTP answer is a step of its own in the
models.

## The modules

Every module has one action per statement, command or answer. A sequence of
statements is a program counter per request (`wpc`, `hpc`, `join`, `post`,
`exchange`); `map` in `PROJECT.json` gives the source lines of each definition.

| Module | Models | Proofs |
|---|---|---|
| `MessageFeed` | send, poll and widget cursor for one chat | `MessageFeedProofs` |
| `OrderedFeed` | what the message path promises: a log, and windows that grow at its end | abstract specification of `MessageFeed` |
| `ChangeFeed` | deletions and edits, from the service method to the window | `ChangeFeedProofs` |
| `RedisBroker` | fanouts, subscriptions and reader goroutines of a chat | `RedisBrokerProofs` |
| `Bans` | ban row, ban key, BanCheck | in `ModerationProofs` |
| `Moderation` | composes `Bans` with mutes and the checks of SendMessage | `ModerationProofs` |
| `Rooms` | CreateEvent, joins, counters, ownership | `RoomsProofs` |
| `RoomLogs` | what events and joins promise: rooms founded once, each one log | abstract specification of `Rooms` |
| `Session` | exchange, expiry, 401, refresh and retry | `SessionProofs` |
| `RateLimit` | one key of the sliding window | in `PresenceProofs` |
| `Presence` | composes `RateLimit` with heartbeats and leaves of several tabs | `PresenceProofs` |
| `MessageTable` | the table of messages that the next two read: rows appended and marked deleted | |
| `SendWindow` | optimistic sends and deletions beside the poll | in `WindowProofs` |
| `Paging` | pages by seq, batches by OFFSET | in `WindowProofs` |

`MC*` modules only give constants their values for TLC.

### MessageFeed and OrderedFeed

A message is its seq. Writers are requests of the chat service; `wpc` is the
next statement of the service method. `SendBegin`, `SendCommit`, `SendAbort`
are the single SQL statement of `MessageRepo.Create`: its UPDATE of
`chat_seqs` takes the row lock, and a reader sees nothing before the commit.
`SetLastSeq` is the unconditional SET, `Publish` the PUBLISH. `SoftDelete` and
`EditMessage` appear as far as they hide a message, wake pollers and fill a
poll answer. `hpc` is where `PollHandler.Poll` stands: `ReadLastSeq`,
`FastFetch`, `FastChanges`, `Subscribe`, then `Wake` or `Timeout`, then
`SlowFetch`, `SlowChanges`. The client side is `LoadWindow` (useChat),
`PollStart`, `Receive`, `ReceiveNoContent`, `ReceiveServerError`,
`NetworkError` (the catch branch that steps the cursor back), `RateLimited`
and `Stopped`. A failure of Redis or Postgres, a crash, a broken connection, a
429, an end of the loop and an expiry of `last_seq` each use one of
`MaxFaults`. The broker is one flag per client here; `RedisBroker` justifies it
for a subscription Redis has confirmed.

`OrderedFeed` knows neither Redis nor requests: a log grows, messages are
hidden, a window opens on a suffix of what is readable (`Open`) and is
extended at its end without jumping over anything readable (`Deliver`).
`RefinesOrderedFeed` maps `length <- chatSeq`, `hidden <- deleted`,
`open <- {c : cpc[c] # "opening"}` and `window <- FromLoad(c)`, the window
from its initial load on. The restriction to `FromLoad` is needed: every
failed poll steps the cursor back by one, so after enough of them the cursor
is below the initial load and polls bring messages older than the window,
which the widget appends at its end. What is newer than the load is not
disturbed by that.

### ChangeFeed

Details the change part that `MessageFeed` abstracts. `SoftDelete`,
`IncrDelete`, `LogDelete` and `UpdateText`, `Reload`, `IncrEdit`, `LogEdit`
are the statements of the two service methods; the logs keep scores as the
sorted sets do (a repeated deletion or an identical entry gets a new score).
A poll reads messages, deletions and edits in three steps, and `Merged` is the
state updater of `handlePollMessages`: delete, edit what is shown, append. A
poll that waits reads everything again with the same cursors; here that is an
empty answer and a second request. `OlderRequest` and `OlderMerge` are
`loadOlderMessages`. It asks for what is before the element at index 0, which
the model keeps as a set, `MayBeFirst`: a window is usually sorted, so its
least message is first, but a poll appends also what is older than the initial
load, and when everything loaded has been deleted such a message may be first.
The text of a message is the number of the edit that wrote it.

### RedisBroker

One chat, several processes. A fanout is numbered by its creation; `owner`,
`fans` (the map) and `clients` are what the mutex protects, so Subscribe and
Unsubscribe are one step each. `sub` is the subscription (sent, confirmed,
closed), `queue` the buffer of go-redis, `reader` and `targets` the goroutine
and the copy of the client list it sends to without the mutex. `due` is a
history variable: it records for a waiting poll that a publication found its
process listening.

### Bans and Moderation

One user of one event, so one ban key. `row` is the state of each ban's row,
`creating` and `removing` the next statement of CreateBan and UnbanUser,
`request` the place of a request in BanCheck. `key` is absent, with a TTL
(CreateBan) or without one (BanCheck). `covered` is a history variable: since
it came in, a ban that concerns the request has been in force.

`Moderation` extends `Bans`. What BanCheck admits goes on (`Enter`, or
`TurnedAway` by the middleware and the handler in between) through the key
again, the table again, the mute and the reply, each a step, to `Store`.
`muting` is CreateMute as its two statements, GetActive and the insert.
History variables: `watched` (restrictions in force ever since the request
entered SendMessage), `missed` (checks whose query failed open) and `beside`
(CreateMute calls that were past GetActive together).

### Rooms and RoomLogs

`creation` is CreateEvent: three inserts without a transaction, any of which
may fail after the others. `join` is a widget from its mount to the open chat:
GetParentByEventID, the upsert, the select and InitChatSeq, or ListChats for a
widget without a room. A counter appears when its row is inserted and a
message takes its number from it. `Asks` says what each client wants, `Claims`
what its token is for; the difference is what EventOwnership is there for.
`swallowed` records that InitChatSeq failed in a join for another reason than
a duplicate key: the code takes both for the same.

`RoomLogs` knows no ids, counter rows or statements: a room is founded once,
below the parent chat of its event (`Found`), a client enters the room it asks
for and leaves it, and `Say` puts the next number at the end of the room's one
log, only by a client whose token is for the event. `RefinesRoomLogs` maps
`founded` to the rooms that have a chat, `inside` to the clients whose join is
open, `length` to the counter (`LastOf`) and `said` to the messages of the
room's chat (`SaidIn`). A second chat for a room, a counter set back and a
message in another event all show as steps that no action of `RoomLogs` takes.

### Session

Tokens are numbered by their exchange; exchange 0 mounts the widget.
`CheckSecret` and `Issue` are the two statements of `ExchangeToken`, between
which an admin may rotate the secret or change the role. `StartRefresh` and
`JoinRefresh` are the two branches on `refreshPromise`, `Refreshed` and
`RefreshFailed` what its settlement does to all waiters in one turn of the
event loop. `secret` is the number of rotations, `held` the one the page's
server uses. History: `carried`, `undisturbed`, `refused`, `executed`.

### RateLimit and Presence

`RateLimit` is the Lua script over one key and the clock reading that precedes
it: a request reads the clock in Go and runs the script later, so scripts run
in another order than their readings. `Presence` extends it with the requests
of one address: heartbeats, leaves and others, which share one window. Time is
a counter; `Tick` does not pass a timer that is due or a request that is older
than `Delay`. `upset` and `alone` are history variables: the last mishap, and
when the last tab was closed.

### MessageTable, SendWindow and Paging

`MessageTable` has the rows of one chat: `posted` messages, named by their
seq, of which those in `deleted` have `deleted_at`. Both modules that follow
extend it.

In `SendWindow`, `entries` says how often each name is in `allMessages`: an
optimistic entry is named by its send, any other by its seq. The order of the
list is left out, for what can go wrong here is an entry that is twice in the
list, or in it for too long. Requests of this window and of others overlap in
the service, `step` by `step`: `Store` and `SetLastSeq` of SendMessage,
`SoftDelete` (or `OtherDeletes`), `IncrDelete` and `LogDelete` of SoftDelete.
`RedisFails` is any of the three Redis commands that fails and is only logged;
a request may also stop anywhere. `HandleSend`, `SendAnswered`, `SendRefused`,
`SendBanned`, `SendLost` are `handleSend`, `HandleDelete` and `DeleteAnswered`
are `handleDelete`. A poll is `ReadLastSeq`, `FastFetch`, `ReadDeletes`, then
the answer or the wait, then `SlowFetch` and `ReadDeletes` again; PUBLISH is no
step, so a waiting poll may be woken at any time, or only by its timer. `Kept`
and `Merged` are the filter and the append of `handlePollMessages`. The loop
ends for good at a 401 or 403, of a poll (`PollStopped`) or of a POST
(`SendBanned`), and keeps its cursor at a 429 (`PollLimited`).

Four history variables name the races of this code. `overtaken`: a poll
brought a message before the POST's answer did. `outlived`: a poll brought its
deletion before that answer. `crossed`: one poll answer both delivered and
deleted a message. `late`: a deletion was logged after one with a higher
number, and a poll had read that one. `EveryMessageAppears` and
`DeletedDisappear` say what they need: a loop that is not ended; for the
first, a `last_seq` that reaches the message and stays there (two overlapping
sends may leave it below, see [below](#disagreements-found)) and fewer
failures than a page has messages; for the second, a deletion that got into
the log, and none of `outlived`, `crossed` and `late`. Without these the code
does not have the properties.

In `Paging`, `Listed` is `MessageHandler.List` with the cap of the service and
`has_more` of the handler; `OlderRequest` and `OlderAnswer` are
`loadOlderMessages`. `ExportBatch` is one turn of the loops of `exportCSV` and
`exportNDJSON`: `ORDER BY seq LIMIT k OFFSET o` are the rows that have `o` to
`o + k - 1` rows before them (`Rank`, `Slice`). `file` says how often each
message is in the file. Messages are appended and deleted between any two
queries. `owed` holds what was there when the export began and still is,
`during` counts deletions since.

## The runs

Passing runs:

| Run | Instance | Shows |
|---|---|---|
| `feed_concurrent` | 2 writers, 1 client, 3 messages, 1 failure, page 2, window 1 | messages become readable in order, the window has no hole, the whole path implements `OrderedFeed`, and a readable message that `last_seq` covers is delivered |
| `feed_serial` | 1 writer, 3 messages, 1 change, no failure | every readable message is shown; the client parks again and again |
| `changes_any` | 2 writers, 3 messages, 1 deletion, 1 edit, 3 of all events | a window loses only deleted messages; a message newer than the initial load that a poll delivered and a deletion removed stays away |
| `changes_serial` | 1 writer, 2 messages and a third, 1 deletion, 2 edits, a failure of the writer or a new message | what the cursors have passed is applied; what is logged arrives |
| `broker` | 1 process, 3 polls, 2 publications, 1 broken connection, buffer 1 | no leak, no lost notification; notified polls end, readers of closed subscriptions end |
| `moderation` | 2 bans (one temporary, one of a chat), 2 mutes (one temporary), 1 post, 2 failures | a banned user is not admitted, a restricted one does not post, two mutes come from overlapping calls only |
| `rooms` | 2 events, 1 room, 4 clients, 4 chat ids, 2 messages per chat, 2 failures | one chat per room, dense numbers, an open chat can be sent to, and the whole implements `RoomLogs` |
| `session` | 2 requests, 3 tokens, 1 rotation, 2 roles | one refresh for all, a retry has a newer token, requests act once, roles stick, old secrets fail, requests end |
| `send_window` | 1 own send, 1 own deletion, 2 requests of others, 2 messages, 1 failure, page 2 | an optimistic entry lasts as long as its POST; duplicates and ghosts come from the named races only; while the loop runs, a message that `last_seq` covers appears and a logged deletion takes its message away |
| `paging` | 4 messages and a fifth, 2 deletions, 1 failure, cap 2, limits 1 to 3, batch 2 | no hole, scrolling up reaches all, an export has nothing twice and misses at most one message per deletion |
| `presence` | 2 tabs, 2 requests at once, 1 other, 1 failure, limit 2 per 4, interval 2, TTL 4, delay 1, clock to 7 | the limit holds and rejects with cause; open tabs are counted, ghosts fade |

`feed_last_seq_race` is a counterexample, see below.

Bounds. One client is enough for `MessageFeed` and `ChangeFeed`: clients share
no state, they only read the stores. Two writers show every overlap of two
statements. Page and window sizes of 1 or 2 with three messages make pages
overflow, which 100 and 50 would need hundreds of messages for; the number of
failures is chosen on purpose below the size of a page (`FewerThanAPage`),
which `Delivery` needs: otherwise a page may hold only messages already seen.
Neither `NoHoles` nor `RefinesOrderedFeed` needs that, and their proofs do not
assume it. In `RedisBroker`, three polls of one process are one that
subscribes, one that leaves and one that stays; processes share nothing but
Redis, and the proofs are for any number of them. A buffer of one is full after
one publication. In `SendWindow` the two requests of others may each be a send
or a deletion, so sends overlap with a send and deletions with two others; two
messages do not overflow its page of two, as three do in `MessageFeed`. Two
larger instances passed once and are not among the runs: three messages
without an own deletion, and two own sends beside the two requests of others.
In `Moderation` one post meets two bans and two mutes, the
fewest that can overlap. In `Rooms` two clients join the same room, one joins a
parent chat and one asks for the chat of an event that is not its own; four
ids are one more than is ever used without a race. `Session` has two requests,
one of which starts a refresh that the other joins or misses, and as many
tokens as they can use. In `Presence` the clock runs for nearly two windows and
beyond a TTL and a delay after a tab has closed. Timers run on time there: that
a browser throttles those of a tab in the background is not modelled.

Deadlock is checked where the system cannot stop: in the runs in which a
client goes on polling, and in `rooms`, whose clients come and go. It is off
where clients may be stopped by a 401 or 403, and where polls, posts, requests
or a bounded clock come to their end.

Fairness. `Fairness` of `MessageFeed` and `ChangeFeed` is weak fairness of the
next statement of a service method (goroutines run), of the next step of a
poll request (including its timer) and of the widget's loop (the browser runs
timers and callbacks) until a 401 or 403 ends the loop. Beginning a send, a deletion or an edit and every
failure have none. `RedisBroker` asks only that a notified poll, a deferred
Unsubscribe and a reader goroutine that can run do run; nobody has to publish
and no timer has to fire. `Session` asks that an exchange and a request are
answered or fail and that a settled promise runs its callbacks. `SendWindow`
asks only for the poll, and its properties only for polls that are not
stopped; no POST or DELETE of anybody has to be answered or to reach its end. `Paging` asks for the
initial load and for a user who goes on scrolling up while there is more;
that a request fails for ever is excluded by the bound on failures.

## Disagreements found

`feed_last_seq_race` is a run that TLC finds violated by what the code does:
two overlapping sends write `last_seq` in the wrong order
(`message_service.go:122`), and the newest message is not delivered until
somebody writes again. `Delivery` and `EveryMessageAppears` therefore speak of
messages that `last_seq` covers. `message_service.go:119` says that `last_seq` is there
"to detect missed messages".

The passing runs keep clear of the following behaviour by their properties or
instances; each was met while modelling, and those marked (TLC) are found by
TLC when the named property is added to, or the named bound changed in, a
configuration.

Message path and poll loop:

* (TLC: `WaitingIsUpToDate` in `feed_serial`) A message published between the
  fast path and Subscribe wakes nobody: the poll answers 204 after 25 s, and
  the next one delivers (`poll_handler.go:214`).
* (TLC: `MaxFaults = 2` in `feed_concurrent`, and with three messages in
  `send_window`) Each failure steps the cursor
  back by one "to avoid missing a message on reconnect"
  (`useLongPoll.ts:119`). After as many failures as a page has messages,
  a page holds only messages already in `seenIds`; nothing is fresh, the cursor
  does not move, and newer messages never come. After a single failure
  every poll is answered at once with the one message already seen, and the
  client polls without waiting until a newer message comes: `feed_serial` has
  no failures for that reason.
* After failures that take the cursor below the initial load, older messages
  are appended at the end of the list.

Logs:

* (TLC: `PassedDeletions`, `PassedEdits` in `changes_serial` with two writers and
  two deletions or edits, without the liveness properties; `DeletedDisappear`
  without `late`) Overlapping deletions, or edits: the larger number is logged
  first and the cursor of a poll passes the smaller one
  (`message_service.go:207`, `284`). Two edits of one message may also be
  reloaded in one order and logged in the other (`message_service.go:258`).
* (TLC: `DeletedDisappear` without `crossed`) A message deleted between two
  reads of one poll is in both parts of the answer; the deletion is applied
  first, and the message appended (`poll_handler.go:179`).
* A deletion whose INCR or ZADD fails, or whose process dies before it, is in
  no log: other windows show the message until they are opened again
  (`message_service.go:214`, `217`).
* An edit between two reads of one poll is lost for a message that comes with
  the same answer.
* The logs and counters expire after an hour without a change and start again
  at 1, below the cursors of clients that poll on; `changes_serial` has no
  expiry.
* A page of older messages requested before a deletion and merged after it
  brings the message back.

Bans, mutes, limits:

* (TLC: `NoStaleBlock`) BanCheck writes the key after UnbanUser has deleted
  it, and without a TTL (`ban.go:66`): the user stays blocked. A temporary ban
  may be cached for ever in the same way.
* The key and the query have no scope: a ban of one chat blocks the event
  (`ban_repo.go:29`).
* `MessageRateLimit` is documented as 10 and 30 messages per 10 s "per
  (eventID, chatID, userID)" (`ratelimit.go:111`); the code has 2 and 6 per
  event and user.
* The limiter identifies a request by its millisecond: requests that read the
  same one count once. `WithinLimit` therefore bounds milliseconds.

Rooms and events:

* JoinRoom "Returns 201 if the child chat was created"
  (`chat_handler.go:33`), but `IsNew` is always false (`chat_service.go:52`).
* Every failure of InitChatSeq is taken for a duplicate key
  (`chat_service.go:46`), and a failed CreateEvent leaves an event without a
  parent chat or a chat without a counter, while `event_handler.go:135` answers
  "parent chat already created on event creation". `OpenCanSend` names both
  as exceptions.
* A join without a room name overwrites the name with NULL.

Window, history, export, session:

* (TLC: `OnceUnlessOvertaken` without its exception) If the poll delivers the
  user's own message before the POST is answered, it is shown twice
  (`ChatWindow.tsx:266`); if its deletion is polled before that, it stays
  (TLC: `DeletedDisappear` without `outlived`).
* The answer to the user's own PATCH replaces the text unconditionally
  (`ChatWindow.tsx:173`), also a later one that a poll has brought.
* `has_more` compares with the limit asked for, the service caps it at 100
  (`message_handler.go:156`): a larger limit always reports the end.
* When everything shown has been deleted, `loadOlderMessages` has no message to
  ask from and older messages cannot be reached (`ChatWindow.tsx:97`).
* An export that fails midway ends as a shorter file with status 200
  (`export_handler.go:130`); OFFSET batches skip a message for each deletion
  before the offset.
* A 401 of an old token that arrives after a refresh has ended starts another
  refresh.
* A reply shows the text of its original also when that is deleted.

## Proofs

All proofs are for arbitrary sets of writers, clients, polls, processes, bans,
mutes, requests, rooms and tabs and all values of the bounds. The only
assumptions are the named ASSUMEs of the modules; TLC evaluates them in the
runs. Those of weight are `Delay < Window` and `Interval + Delay < TTL` of
`RateLimit` and `Presence` (a window of 60 s against one request, heartbeats
every 30 s against 60 s; the second is strict because the heartbeat of another
user, `Sweep`, removes a score that is exactly as old as the TTL).

* `MessageFeedProofs`: `TypeCorrect`, `CommitOrder` (`StoredIsPrefix`),
  `WindowComplete` (`NoHoles`). `NoHoles` is not inductive: a page is read in
  one step and merged in a later one. The invariant `Rest` adds that the
  holder of the row lock has the next seq (`LockInv`), hence the table is
  `1..chatSeq` (`StoreInv`), hence nothing appears behind a page already read
  (`PageInv`). The two lemmas on the SQL queries (`PageIsRange`,
  `LatestIsSuffix`) use the library's facts on cardinality. The proof needs no
  bound on failures: stepping back never makes a hole.
* `FeedImplementsOrdered`, in the same module: every step is a `Post`, `Hide`,
  `Open` or `Deliver`, or a stutter. What is delivered must be newer than the
  window, which is known only when the page is read; `PageNew` carries that
  fact to the delivery. `BaseInv` covers a window opened on an empty chat.
* `ChangeFeedProofs`: `ChangeTypes`, `WindowsKeep` (`OnlyDeletedVanish`) and
  `RemovedForGood` (`StaysRemoved`, an action property). They hold with
  failures, expiry and overlapping writers. The second rests on three facts:
  polls leave no gap above the initial load (`NoGap`, `PageWhole`), an older
  page is below that load (`OlderBelow`), so no older page holds what a poll
  brought.
* `DeletionsPassed` (`PassedDeletions`) and `EditsPassed` (`PassedEdits`), in
  the same module, have hypotheses, each of which TLC shows to be needed: no
  failed request and no expiry (`"network"` and `"expiry"` are not among the
  `Events`), and writers that number and log one after the other
  (`[]DeletesInTurn`, `[]EditsInTurn`). The code does not enforce the last, see
  [above](#disagreements-found): the theorems say that the overlap of INCR and
  ZADD is the only thing that goes wrong there. With one writer it cannot, and
  `SerialChangesPassed` is the theorem without that hypothesis. Older pages,
  failed writers and any number of windows are allowed. The
  invariant `DeletesInv`: the number about to be logged is beyond the log, every
  answer and every cursor (`DeleteNumbers`), an answer holds every deletion
  between its cursor and its last number (`DeletesRead`), and no message in it,
  or in an older page, is one the window was loaded with (`LoadedApart`), so
  nothing that a deletion removed is appended again. `EditsInv` adds that of two entries for a message
  the later has the later text (`EditOrder`): rows are reloaded in turn.
* `RedisBrokerProofs`: `BrokerTypes`, `Listed` (`SubscribersListed`),
  `NoSubscriptionLeaks` (`NoLeak`), `WakeupsSurvive` (`NoLostWakeup`),
  together with what ties the map to the fanouts: an entry belongs to its
  process and is open (`MapInv`), a fanout out of the map has no clients
  (`ClientsInv`), a reader outlives its open subscription (`ReaderInv`),
  nothing is used beyond the last fanout (`UnusedInv`).
* `ModerationProofs`: `BansAreEnforced` (`BannedStaysOut`) for `Bans` alone. A
  request counts as covered only while a row backs it (`CoverInv`), and
  BanCheck admits only after a query that found no row: Redis does not occur
  in the argument. Then the same for the composition
  (`BansAreEnforcedForPosts`, every step is a step of `Bans` or leaves it
  alone), `RestrictionsAreEnforced` (`RestrictedNeverPosts`: past a check, a
  restriction watched all the while is one whose query failed) and
  `MutesAreSingle` (`TwoMutesOverlapped`: a call about to insert found no mute
  except those of calls beside it).
* `RoomsProofs`: `RoomsAreOne`, `NumbersAreDense`, `OpenChatsCount`,
  `EventsAreIsolated` (`EventIsolation`, which `RefinesRoomLogs` implies on the
  instance). The invariant says that a chat row is unique (`Unique`,
  the index), that a client has the chat it asked for (`Given`), and who has
  seen to a counter (`ParentCounts`, `JoinCounts`).
* `RoomsImplementLogs` (`RefinesRoomLogs`), in the same module: the inserts of
  a chat are `Found`, the last statement of a join `Enter`, the statement of
  `MessageRepo.Create` `Say`; all others are stutters, also those that make
  or fail to make a counter, for a room without one is as long as an empty one. Beside
  the invariant above the proof needs `Rooted`: who inserts a room has seen its
  parent, and only chats that exist have counters.
* `SessionProofs`: `RefreshesAreOne`, `RetriesAreNew`, `RequestsActOnce`,
  `RolesStick`, `OldSecretsFail`. Exchanges begin in the order of their tokens
  (`InOrder`), and the only one under way is the one `refreshPromise` stands
  for (`Mounted`), hence a waiter gets a younger token than was refused
  (`Bearers`).
* `PresenceProofs`: `LimitHolds`, `NobodyRejectedInVain`, `OpenTabsCount`,
  `GhostsVanish`. The sorted set keeps every accepted reading for a window
  (`Kept`), though scripts run out of order by up to `Delay` (`Timely`); an
  open tab's last heartbeat was handled, was lost or is on its way
  (`Followed`, `Chased`); none was sent after the last tab closed
  (`Trailing`).
* `WindowProofs`, on the window: `PaleEntriesPend` (`PaleWhilePending`) and
  `EntriesOnce` (`OnceUnlessOvertaken`). That a message is in the list once is
  not inductive: the answer to a POST puts it there unconditionally. `SendInv` adds
  where an entry comes from, a poll, which has it in `seen`, or an answered
  POST (`Explained`), that no two POSTs have the same seq, and how far the service
  is with one that is answered (`OwnSeqs`).
* `WindowWhole` (`NoHoles` of `Paging`): what an answer under way will fill has
  no hole either (`Filled`), also when messages between its rows are deleted
  before it comes or the window loses its first message meanwhile.
* `ExportComplete` (`ExportMissesFew`): rows written have ranks below the
  offset (`Written`), so nothing is written twice; `Missed` is what has such a
  rank and is not written. A deletion lowers ranks by at most one
  (`RanksAfterDelete`), and different rows have different ranks, so at most one row
  more is missed; an empty batch means that no row is left at or after the
  offset, for there are no gaps in the ranks (`RanksEnd`).

## What is only model-checked

Liveness and ENABLED are out of the prover's reach: `Delivery`,
`EventuallyShown`, `PollParks`, `DeletionsArrive`, `EditsArrive`,
`DuePollsEnd`, `ReadersEnd`, `EveryRequestEnds`, `EveryMessageAppears`,
`DeletedDisappear`, `ScrollingReachesAll`. Every invariant and every action
property of the runs is stated by a theorem.

## Not modelled

* The in-memory broker: tests construct it, the services do not.
* The admin panel, the login, the role checks and router of the admin service,
  lists that are read in one statement.
* Rendering, dragging, notifications and the rest of the presentation.
* Configuration, start-up and shutdown: what a killed process leaves half done
  is in `WriterCrash`, `WriterStops` and `CreateEventFails`. Migrations and
  deployment: the constraints they create are in the models of the queries.
* The origin cache of CORS, chat settings, room names: one value each, read by
  one predicate or shown as it is.
* `handleEdit`'s own change of the list: it is one unconditional assignment,
  which the code does not guard (see above).
* Time in `MessageFeed` and `ChangeFeed`: a TTL or timer may run out at any
  moment it is set, and the settle delay of 50 ms after a wake-up may be
  arbitrarily short.
* The payload of a notification, which `Poll` ignores, and the contents of
  messages beyond the identity of their last edit.
* Other chats in the message path: no state of it is shared between chats.

## What could come next

* A composition of `SendWindow` with older pages and edits.
* An abstract specification of the API client, a token that is always fresh and
  requests that act once, for `Session` to implement.
* `NoLeak` and `NoLostWakeup` as a refinement: the flag per poll that
  `MessageFeed` uses for the broker, implemented by `RedisBroker`.

## How to run

    tlc -config feed_concurrent.cfg MCMessageFeed.tla
    tlapm MessageFeedProofs.tla

`broker`, `presence` and `send_window` take about two minutes with two workers,
the others up to one. `PROJECT.json` lists every run with its module and configuration, the
source lines of every definition, the hazards with the properties that cover
them, and for every property of a passing run a mutation of the code model that
breaks it.
