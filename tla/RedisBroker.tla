---------------------------- MODULE RedisBroker ----------------------------
(***************************************************************************)
(* The broker that wakes long-poll requests, for one chat: RedisBroker of  *)
(* the chat service.  Every process keeps at most one Redis subscription   *)
(* per chat, a "fanout", with a reader goroutine that copies what Redis    *)
(* pushes to the channel of each poll request.  Subscribe and Unsubscribe  *)
(* hold the mutex from begin to end; fanOut holds it only while it copies  *)
(* the list of channels, and sends without it.                             *)
(*                                                                         *)
(* Fanouts are named by the order of their creation, so 0 can stand for    *)
(* "no fanout".  A poll request subscribes once, with a channel of its     *)
(* own: a poll and its channel have one name.                              *)
(***************************************************************************)
EXTENDS Integers, FiniteSets

CONSTANTS
    Procs,       \* processes of the chat service
    Polls,       \* poll requests, each served by one process
    Home,        \* the process of each poll request
    QueueCap,    \* messages go-redis buffers for a reader (100)
    MaxPublish,  \* bound: messages published
    MaxLost      \* bound: connections to Redis that break

ASSUME BrokerAssumption ==
    /\ IsFiniteSet(Polls)
    /\ Home \in [Polls -> Procs]
    /\ QueueCap \in Nat \ {0}
    /\ MaxPublish \in Nat /\ MaxLost \in Nat

VARIABLES
    created,    \* fanouts created so far: 1..created
    owner,      \* fanout: its process
    fans,       \* process: the fanout in b.fans, 0 when there is none
    clients,    \* fanout: the polls in f.clients
    sub,        \* fanout: state of its Redis subscription
    queue,      \* fanout: messages Redis has pushed, not yet read
    reader,     \* fanout: state of its reader goroutine
    targets,    \* fanout: channels its reader has copied and not sent to
    poll,       \* poll request: life cycle
    notified,   \* poll request: its channel, of capacity 1, is full
    due,        \* poll request: Redis pushed to its process while it waited
    published,  \* for the bound MaxPublish
    lost        \* for the bound MaxLost

fanout  == <<created, owner, fans, clients, sub>>
reading == <<queue, reader, targets>>
request == <<poll, notified, due>>
vars    == <<fanout, reading, request, published, lost>>

Fanouts == 1..Cardinality(Polls)

Init ==
    /\ created = 0
    /\ owner = [f \in Fanouts |-> CHOOSE p \in Procs : TRUE]
    /\ fans = [p \in Procs |-> 0]
    /\ clients = [f \in Fanouts |-> {}]
    /\ sub = [f \in Fanouts |-> "none"]
    /\ queue = [f \in Fanouts |-> 0]
    /\ reader = [f \in Fanouts |-> "none"]
    /\ targets = [f \in Fanouts |-> {}]
    /\ poll = [q \in Polls |-> "new"]
    /\ notified = [q \in Polls |-> FALSE]
    /\ due = [q \in Polls |-> FALSE]
    /\ published = 0
    /\ lost = 0

-----------------------------------------------------------------------------
(* Subscribe and Unsubscribe.                                              *)

\* The first subscriber starts a subscription and a reader.  go-redis sends
\* SUBSCRIBE and does not wait for the answer.  A poll subscribes once, so
\* there are never more fanouts than polls: the bound on created is no limit.
SubscribeFirst(q) ==
    /\ fans[Home[q]] = 0
    /\ poll[q] = "new"
    /\ created < Cardinality(Polls)
    /\ created' = created + 1
    /\ owner' = [owner EXCEPT ![created + 1] = Home[q]]
    /\ fans' = [fans EXCEPT ![Home[q]] = created + 1]
    /\ clients' = [clients EXCEPT ![created + 1] = {q}]
    /\ sub' = [sub EXCEPT ![created + 1] = "sent"]
    /\ reader' = [reader EXCEPT ![created + 1] = "receiving"]
    /\ poll' = [poll EXCEPT ![q] = "waiting"]
    /\ UNCHANGED <<queue, targets, notified, due, published, lost>>

SubscribeNext(q) ==
    /\ fans[Home[q]] # 0
    /\ poll[q] = "new"
    /\ clients' = [clients EXCEPT ![fans[Home[q]]] = @ \cup {q}]
    /\ poll' = [poll EXCEPT ![q] = "waiting"]
    /\ UNCHANGED <<created, owner, fans, sub, reading, notified, due, published, lost>>

\* Mutant of UnsubscribeLast: the map entry goes, sub.Close is forgotten.
UnsubscribeLastOpen(q) ==
    /\ poll[q] = "leaving"
    /\ fans[Home[q]] # 0
    /\ clients[fans[Home[q]]] \subseteq {q}
    /\ clients' = [clients EXCEPT ![fans[Home[q]]] = {}]
    /\ fans' = [fans EXCEPT ![Home[q]] = 0]
    /\ poll' = [poll EXCEPT ![q] = "done"]
    /\ UNCHANGED <<created, owner, sub, reading, notified, due, published, lost>>

\* The last client cancels the reader and closes the subscription.
UnsubscribeLast(q) ==
    /\ poll[q] = "leaving"
    /\ fans[Home[q]] # 0
    /\ clients[fans[Home[q]]] \subseteq {q}
    /\ clients' = [clients EXCEPT ![fans[Home[q]]] = {}]
    /\ sub' = [sub EXCEPT ![fans[Home[q]]] = "closed"]
    /\ fans' = [fans EXCEPT ![Home[q]] = 0]
    /\ poll' = [poll EXCEPT ![q] = "done"]
    /\ UNCHANGED <<created, owner, reading, notified, due, published, lost>>

UnsubscribeOther(q) ==
    /\ poll[q] = "leaving"
    /\ fans[Home[q]] # 0
    /\ ~ clients[fans[Home[q]]] \subseteq {q}
    /\ clients' = [clients EXCEPT ![fans[Home[q]]] = @ \ {q}]
    /\ poll' = [poll EXCEPT ![q] = "done"]
    /\ UNCHANGED <<created, owner, fans, sub, reading, notified, due, published, lost>>

\* select of the poll request: its channel, its timer or its client's end.
Wake(q) ==
    /\ poll[q] = "waiting"
    /\ notified[q]
    /\ notified' = [notified EXCEPT ![q] = FALSE]
    /\ poll' = [poll EXCEPT ![q] = "leaving"]
    /\ UNCHANGED <<fanout, reading, due, published, lost>>

TimeoutOrDisconnect(q) ==
    /\ poll[q] = "waiting"
    /\ poll' = [poll EXCEPT ![q] = "leaving"]
    /\ UNCHANGED <<fanout, reading, notified, due, published, lost>>

-----------------------------------------------------------------------------
(* Redis and go-redis.                                                     *)

\* Redis has read SUBSCRIBE: from now on it pushes what is published.
SubscriptionStarts(f) ==
    /\ sub[f] = "sent"
    /\ sub' = [sub EXCEPT ![f] = "active"]
    /\ UNCHANGED <<created, owner, fans, clients, reading, request, published, lost>>

\* The connection breaks; go-redis connects again and repeats SUBSCRIBE.
ConnectionLost(f) ==
    /\ sub[f] = "active"
    /\ lost < MaxLost
    /\ lost' = lost + 1
    /\ sub' = [sub EXCEPT ![f] = "sent"]
    /\ UNCHANGED <<created, owner, fans, clients, reading, request, published>>

\* A full buffer drops the message.  due records for every poll that waits
\* now whether its process was listening.
Publish ==
    /\ published < MaxPublish
    /\ published' = published + 1
    /\ queue' = [f \in Fanouts |->
                    IF sub[f] = "active" /\ queue[f] < QueueCap THEN queue[f] + 1 ELSE queue[f]]
    /\ due' = [q \in Polls |->
                  due[q] \/ (poll[q] = "waiting" /\ sub[fans[Home[q]]] = "active")]
    /\ UNCHANGED <<fanout, reader, targets, poll, notified, lost>>

-----------------------------------------------------------------------------
(* startReader and fanOut.                                                 *)

\* fanOut looks its clients up again: they may belong to a later fanout.
ReaderReceives(f) ==
    /\ reader[f] = "receiving"
    /\ queue[f] > 0
    /\ queue' = [queue EXCEPT ![f] = @ - 1]
    /\ targets' = [targets EXCEPT ![f] =
                      IF fans[owner[f]] = 0 THEN {} ELSE clients[fans[owner[f]]]]
    /\ reader' = [reader EXCEPT ![f] = "sending"]
    /\ UNCHANGED <<fanout, request, published, lost>>

\* Mutant of ReaderSends: the loop ends at the first full channel.
ReaderSendsUntilFull(f, q) ==
    /\ reader[f] = "sending"
    /\ q \in targets[f]
    /\ notified' = [notified EXCEPT ![q] = poll[q] # "done"]
    /\ targets' = [targets EXCEPT ![f] = IF notified[q] THEN {} ELSE @ \ {q}]
    /\ UNCHANGED <<fanout, queue, reader, poll, due, published, lost>>

\* The send never blocks: a full channel keeps what it has.
ReaderSends(f, q) ==
    /\ reader[f] = "sending"
    /\ q \in targets[f]
    /\ notified' = [notified EXCEPT ![q] = poll[q] # "done"]
    /\ targets' = [targets EXCEPT ![f] = @ \ {q}]
    /\ UNCHANGED <<fanout, queue, reader, poll, due, published, lost>>

ReaderSentAll(f) ==
    /\ reader[f] = "sending"
    /\ targets[f] = {}
    /\ reader' = [reader EXCEPT ![f] = "receiving"]
    /\ UNCHANGED <<fanout, queue, targets, request, published, lost>>

\* Mutant of ReaderExits: the context is not watched, the buffer never ends.
ReaderExitsNever(f) ==
    /\ reader[f] = "receiving"
    /\ sub[f] = "none"
    /\ reader' = [reader EXCEPT ![f] = "gone"]
    /\ UNCHANGED <<fanout, queue, targets, request, published, lost>>

\* ctx.Done, or the channel of a closed subscription.  select may still
\* take what is buffered.
ReaderExits(f) ==
    /\ reader[f] = "receiving"
    /\ sub[f] = "closed"
    /\ reader' = [reader EXCEPT ![f] = "gone"]
    /\ UNCHANGED <<fanout, queue, targets, request, published, lost>>

-----------------------------------------------------------------------------
Unsubscribe(q) == UnsubscribeLast(q) \/ UnsubscribeOther(q)

PollStep(q) ==
    \/ SubscribeFirst(q) \/ SubscribeNext(q)
    \/ Wake(q) \/ TimeoutOrDisconnect(q)
    \/ Unsubscribe(q)

ReaderStep(f) ==
    \/ ReaderReceives(f) \/ ReaderSentAll(f) \/ ReaderExits(f)
    \/ \E q \in Polls : ReaderSends(f, q)

Next ==
    \/ Publish
    \/ \E q \in Polls : PollStep(q)
    \/ \E f \in Fanouts : ReaderStep(f) \/ SubscriptionStarts(f) \/ ConnectionLost(f)

Spec == Init /\ [][Next]_vars

\* Goroutines that can run do run; a deferred Unsubscribe is run.  That a
\* poll starts, times out or that somebody publishes is not required.
Fairness ==
    /\ \A q \in Polls : WF_vars(Wake(q)) /\ WF_vars(Unsubscribe(q))
    /\ \A f \in Fanouts : WF_vars(ReaderStep(f))

FairSpec == Spec /\ Fairness

-----------------------------------------------------------------------------
(* Properties                                                              *)

\* Every variable has its type.
TypeOK ==
    /\ created \in 0..Cardinality(Polls)
    /\ owner \in [Fanouts -> Procs]
    /\ fans \in [Procs -> 0..created]
    /\ clients \in [Fanouts -> SUBSET Polls]
    /\ sub \in [Fanouts -> {"none", "sent", "active", "closed"}]
    /\ queue \in [Fanouts -> 0..QueueCap]
    /\ reader \in [Fanouts -> {"none", "receiving", "sending", "gone"}]
    /\ targets \in [Fanouts -> SUBSET Polls]
    /\ poll \in [Polls -> {"new", "waiting", "leaving", "done"}]
    /\ notified \in [Polls -> BOOLEAN]
    /\ due \in [Polls -> BOOLEAN]
    /\ published \in Nat /\ lost \in Nat

Open(f) == sub[f] \in {"sent", "active"}

\* A poll between Subscribe and Unsubscribe is in the list of the fanout its
\* process has in the map, and that fanout's subscription is open.
SubscribersListed ==
    \A q \in Polls : poll[q] \in {"waiting", "leaving"} =>
        /\ fans[Home[q]] # 0
        /\ q \in clients[fans[Home[q]]]
        /\ Open(fans[Home[q]])

\* A subscription is open exactly while it is in the map of its process and
\* somebody uses it: none leaks, none is shared, no process holds two.
NoLeak ==
    \A f \in Fanouts : Open(f) <=> fans[owner[f]] = f /\ clients[f] # {}

InFlight(q) ==
    LET f == fans[Home[q]]
    IN  reader[f] # "gone" /\ (queue[f] > 0 \/ q \in targets[f])

\* A poll that waited while Redis pushed a message to its process is
\* notified, or the notification is on its way, however full the buffers
\* are and whoever comes and goes.
NoLostWakeup ==
    \A q \in Polls : poll[q] = "waiting" /\ due[q] => notified[q] \/ InFlight(q)

\* A poll that is owed a notification does not wait on for ever.
DuePollsEnd ==
    \A q \in Polls : (poll[q] = "waiting" /\ due[q]) ~> (poll[q] # "waiting")

\* The reader of a closed subscription ends.
ReadersEnd == \A f \in Fanouts : sub[f] = "closed" ~> reader[f] = "gone"
=============================================================================
