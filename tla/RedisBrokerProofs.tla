------------------------- MODULE RedisBrokerProofs -------------------------
(***************************************************************************)
(* The safety properties of RedisBroker hold for any number of processes,  *)
(* polls, messages and broken connections, and any buffer size.            *)
(*                                                                         *)
(* SubscribersListed, NoLeak and NoLostWakeup speak of the fanout that is  *)
(* in the map.  They are inductive only together with what ties the map to *)
(* the fanouts: an entry of the map belongs to the process that has it     *)
(* (MapInv), a fanout out of the map has no clients (ClientsInv), and a    *)
(* reader goroutine outlives its open subscription (ReaderInv).            *)
(***************************************************************************)
EXTENDS RedisBroker, FiniteSetTheorems, TLAPS

MapInv ==
    \A p \in Procs : fans[p] # 0 => owner[fans[p]] = p /\ Open(fans[p])

ClientsInv ==
    \A f \in Fanouts :
        /\ clients[f] # {} => fans[owner[f]] = f
        /\ \A q \in clients[f] : poll[q] \in {"waiting", "leaving"} /\ Home[q] = owner[f]

ReaderInv ==
    \A f \in Fanouts :
        /\ Open(f) => reader[f] \in {"receiving", "sending"}
        /\ targets[f] # {} => reader[f] = "sending"

\* Beyond the last fanout nothing has happened yet.
UnusedInv ==
    \A f \in Fanouts : f > created =>
        sub[f] = "none" /\ reader[f] = "none" /\ clients[f] = {} /\ targets[f] = {}

DueInv == \A q \in Polls : poll[q] = "new" => ~due[q]

Inv ==
    /\ TypeOK
    /\ MapInv
    /\ ClientsInv
    /\ ReaderInv
    /\ UnusedInv
    /\ DueInv
    /\ SubscribersListed
    /\ NoLeak
    /\ NoLostWakeup

\* The fanouts are numbered by natural numbers, and there is a process to
\* own the first one.
LEMMA FanoutsExist ==
    /\ Cardinality(Polls) \in Nat
    /\ Fanouts # {} => \E p \in Procs : TRUE
<1>1. Cardinality(Polls) \in Nat
  BY BrokerAssumption, FS_CardinalityType
<1>2. ASSUME Fanouts # {} PROVE \E p \in Procs : TRUE
  <2>1. Polls # {}
    BY <1>1, <1>2, FS_EmptySet DEF Fanouts
  <2> QED
    BY <2>1, BrokerAssumption
<1> QED
  BY <1>1, <1>2

\* An entry of the map is a fanout that has been created.
LEMMA MapEntry ==
    ASSUME TypeOK, NEW p \in Procs, fans[p] # 0
    PROVE  fans[p] \in Fanouts /\ fans[p] <= created
<1>1. fans[p] \in 0..created /\ created \in 0..Cardinality(Polls)
  BY DEF TypeOK
<1>2. Cardinality(Polls) \in Nat
  BY FanoutsExist
<1> QED
  BY <1>1, <1>2 DEF Fanouts

\* The invariant holds before anybody subscribes.
LEMMA InvInit == Init => Inv
<1> SUFFICES ASSUME Init PROVE Inv
  OBVIOUS
<1> USE FanoutsExist, BrokerAssumption DEF Init
<1>1. owner \in [Fanouts -> Procs]
  BY Zenon
<1>2. TypeOK
  BY <1>1 DEF TypeOK
<1>3. MapInv /\ ClientsInv /\ ReaderInv /\ UnusedInv /\ DueInv
  BY DEF MapInv, ClientsInv, ReaderInv, UnusedInv, DueInv, Open
<1>4. SubscribersListed /\ NoLeak /\ NoLostWakeup
  BY <1>1 DEF SubscribersListed, NoLeak, NoLostWakeup, Open, Fanouts
<1> QED
  BY <1>2, <1>3, <1>4 DEF Inv

-----------------------------------------------------------------------------
(* The steps of a poll request.                                            *)

\* Subscribe with no fanout in the map: the new one is the next number.
LEMMA InvSubscribeFirst ==
    ASSUME Inv, NEW q \in Polls, SubscribeFirst(q)
    PROVE  Inv'
<1> DEFINE k == created + 1
<1> USE FanoutsExist, BrokerAssumption DEF SubscribeFirst
<1>1. k \in Fanouts /\ k > created /\ k # 0 /\ Home[q] \in Procs
  <2>1. created \in 0..Cardinality(Polls) /\ created < Cardinality(Polls)
    BY DEF Inv, TypeOK
  <2>2. Cardinality(Polls) \in Nat
    BY FanoutsExist
  <2>3. k \in Fanouts /\ k > created /\ k # 0
    BY <2>1, <2>2, SMT DEF Fanouts
  <2> QED
    BY <2>3
<1>2. TypeOK'
  BY <1>1 DEF Inv, TypeOK, reading
<1>3. \A p \in Procs : fans[p] # k
  BY <1>1 DEF Inv, TypeOK
<1>4. \A f \in Fanouts : f # k =>
        owner'[f] = owner[f] /\ clients'[f] = clients[f] /\ sub'[f] = sub[f] /\ reader'[f] = reader[f]
  BY <1>1 DEF Inv, TypeOK
<1>5. /\ owner'[k] = Home[q] /\ clients'[k] = {q} /\ sub'[k] = "sent" /\ reader'[k] = "receiving"
      /\ fans'[Home[q]] = k /\ \A p \in Procs : p # Home[q] => fans'[p] = fans[p]
      /\ poll'[q] = "waiting" /\ \A r \in Polls : r # q => poll'[r] = poll[r]
  BY <1>1 DEF Inv, TypeOK
<1>6. \A f \in Fanouts : f # k => owner[f] \in Procs /\ (owner[f] = Home[q] => clients[f] = {} /\ ~Open(f))
  <2> SUFFICES ASSUME NEW f \in Fanouts, f # k, owner[f] = Home[q]
               PROVE  clients[f] = {} /\ ~Open(f)
    BY DEF Inv, TypeOK
  <2>1. fans[owner[f]] # f
    BY <1>1 DEF Fanouts
  <2> QED
    BY <2>1 DEF Inv, ClientsInv, NoLeak
<1>7. \A p \in Procs : fans[p] # 0 => fans[p] \in Fanouts /\ fans[p] # k
  BY <1>3 DEF Inv, TypeOK, Fanouts
<1>8. MapInv'
  BY <1>1, <1>4, <1>5, <1>7 DEF Inv, MapInv, Open
<1>9. ClientsInv'
  <2> SUFFICES ASSUME NEW f \in Fanouts
               PROVE  /\ clients'[f] # {} => fans'[owner'[f]] = f
                      /\ \A r \in clients'[f] :
                            poll'[r] \in {"waiting", "leaving"} /\ Home[r] = owner'[f]
    BY DEF ClientsInv, Fanouts
  <2>1. CASE f = k
    BY <1>5, <2>1
  <2>2. CASE f # k
    <3>1. clients'[f] = clients[f] /\ owner'[f] = owner[f]
      BY <1>4, <2>2
    <3>2. ASSUME NEW r \in clients[f] PROVE r \in Polls /\ poll'[r] = poll[r]
      BY <1>5 DEF Inv, TypeOK, ClientsInv
    <3> QED
      BY <1>5, <1>6, <2>2, <3>1, <3>2 DEF Inv, ClientsInv
  <2> QED
    BY <2>1, <2>2
<1>10. ReaderInv' /\ UnusedInv'
  BY <1>1, <1>4, <1>5 DEF Inv, TypeOK, ReaderInv, UnusedInv, Open, Fanouts
<1>11. DueInv'
  BY <1>5 DEF Inv, DueInv
<1>12. SubscribersListed'
  <2> SUFFICES ASSUME NEW r \in Polls, poll'[r] \in {"waiting", "leaving"}
               PROVE  (fans[Home[r]] # 0 /\ r \in clients[fans[Home[r]]] /\ Open(fans[Home[r]]))'
    BY DEF SubscribersListed
  <2>1. CASE r = q
    BY <1>1, <1>5, <2>1 DEF Open
  <2>2. CASE r # q
    <3>1. fans[Home[r]] # 0 /\ r \in clients[fans[Home[r]]] /\ Open(fans[Home[r]])
      BY <1>5, <2>2 DEF Inv, SubscribersListed
    <3>2. Home[r] \in Procs /\ Home[r] # Home[q]
      BY <3>1
    <3>3. fans'[Home[r]] = fans[Home[r]]
      BY <1>5, <3>2
    <3>4. fans[Home[r]] \in Fanouts /\ fans[Home[r]] # k
      BY <1>7, <3>1, <3>2
    <3> QED
      BY <1>4, <3>1, <3>3, <3>4 DEF Open
  <2> QED
    BY <2>1, <2>2
<1>13. NoLeak'
  <2> SUFFICES ASSUME NEW f \in Fanouts
               PROVE  Open(f)' <=> fans'[owner'[f]] = f /\ clients'[f] # {}
    BY DEF NoLeak, Fanouts
  <2>1. CASE f = k
    BY <1>5, <2>1 DEF Open
  <2>2. CASE f # k
    <3>1. owner'[f] = owner[f] /\ clients'[f] = clients[f] /\ Open(f)' = Open(f)
      BY <1>4, <2>2 DEF Open
    <3> QED
      BY <1>5, <1>6, <2>2, <3>1 DEF Inv, NoLeak
  <2> QED
    BY <2>1, <2>2
<1>14. NoLostWakeup'
  <2> SUFFICES ASSUME NEW r \in Polls, poll'[r] = "waiting", due'[r], ~notified'[r]
               PROVE  InFlight(r)'
    BY DEF NoLostWakeup
  <2>1. r # q
    BY DEF Inv, DueInv
  <2>2. fans[Home[r]] # 0 /\ InFlight(r)
    BY <1>5, <2>1 DEF Inv, NoLostWakeup, SubscribersListed
  <2> QED
    BY <1>4, <1>5, <1>7, <2>2 DEF InFlight, reading
<1> QED
  BY <1>2, <1>8, <1>9, <1>10, <1>11, <1>12, <1>13, <1>14 DEF Inv

\* Subscribe with a fanout in the map: the poll joins its clients.
LEMMA InvSubscribeNext ==
    ASSUME Inv, NEW q \in Polls, SubscribeNext(q)
    PROVE  Inv'
<1> DEFINE k == fans[Home[q]]
<1> USE FanoutsExist, BrokerAssumption DEF SubscribeNext
<1>1. Home[q] \in Procs /\ k \in Fanouts /\ k # 0 /\ k <= created
  BY MapEntry DEF Inv
<1>2. owner[k] = Home[q] /\ Open(k)
  BY <1>1 DEF Inv, MapInv
<1>3. TypeOK'
  BY <1>1 DEF Inv, TypeOK, reading
<1>4. /\ clients'[k] = clients[k] \cup {q}
      /\ \A f \in Fanouts : f # k => clients'[f] = clients[f]
      /\ poll'[q] = "waiting" /\ \A r \in Polls : r # q => poll'[r] = poll[r]
  BY <1>1 DEF Inv, TypeOK
<1>5. MapInv' /\ ReaderInv'
  BY DEF Inv, MapInv, ReaderInv, Open, reading, Fanouts
<1>6. ClientsInv'
  BY <1>1, <1>2, <1>4 DEF Inv, TypeOK, ClientsInv
<1>7. UnusedInv'
  BY <1>1, <1>4 DEF Inv, TypeOK, UnusedInv, reading, Fanouts
<1>8. DueInv'
  BY <1>4 DEF Inv, DueInv
<1>9. SubscribersListed'
  <2> SUFFICES ASSUME NEW r \in Polls, poll'[r] \in {"waiting", "leaving"}
               PROVE  fans[Home[r]] # 0 /\ r \in clients'[fans[Home[r]]] /\ Open(fans[Home[r]])
    BY DEF SubscribersListed, Open
  <2>1. CASE r = q
    BY <1>1, <1>2, <1>4, <2>1
  <2>2. CASE r # q
    <3>1. fans[Home[r]] # 0 /\ r \in clients[fans[Home[r]]] /\ Open(fans[Home[r]])
      BY <1>4, <2>2 DEF Inv, SubscribersListed
    <3>2. fans[Home[r]] \in Fanouts
      BY <3>1, MapEntry DEF Inv
    <3> QED
      BY <1>4, <3>1, <3>2
  <2> QED
    BY <2>1, <2>2
<1>10. NoLeak'
  BY <1>1, <1>2, <1>4 DEF Inv, NoLeak, Open, Fanouts
<1>11. NoLostWakeup'
  BY <1>4 DEF Inv, DueInv, NoLostWakeup, InFlight, reading
<1> QED
  BY <1>3, <1>5, <1>6, <1>7, <1>8, <1>9, <1>10, <1>11 DEF Inv

\* The last client leaves: nobody else of its process is waiting.
LEMMA InvUnsubscribeLast ==
    ASSUME Inv, NEW q \in Polls, UnsubscribeLast(q)
    PROVE  Inv'
<1> DEFINE k == fans[Home[q]]
<1> USE FanoutsExist, BrokerAssumption DEF UnsubscribeLast
<1>1. Home[q] \in Procs /\ k \in Fanouts /\ k # 0 /\ k <= created
  BY MapEntry DEF Inv
<1>2. owner[k] = Home[q] /\ \A p \in Procs : p # Home[q] => fans[p] # k
  BY <1>1 DEF Inv, MapInv
<1>3. TypeOK'
  BY <1>1 DEF Inv, TypeOK, reading
<1>4. /\ clients'[k] = {} /\ sub'[k] = "closed"
      /\ \A f \in Fanouts : f # k => clients'[f] = clients[f] /\ sub'[f] = sub[f]
      /\ fans'[Home[q]] = 0 /\ \A p \in Procs : p # Home[q] => fans'[p] = fans[p]
      /\ poll'[q] = "done" /\ \A r \in Polls : r # q => poll'[r] = poll[r]
  BY <1>1 DEF Inv, TypeOK
<1>5. \A r \in Polls : poll'[r] \in {"waiting", "leaving"} =>
         /\ r # q /\ Home[r] # Home[q]
         /\ fans'[Home[r]] = fans[Home[r]] /\ fans[Home[r]] # k /\ fans[Home[r]] \in Fanouts
  <2> SUFFICES ASSUME NEW r \in Polls, poll'[r] \in {"waiting", "leaving"}
               PROVE  /\ r # q /\ Home[r] # Home[q]
                      /\ fans'[Home[r]] = fans[Home[r]] /\ fans[Home[r]] # k
                      /\ fans[Home[r]] \in Fanouts
    OBVIOUS
  <2>1. r # q
    BY <1>4
  <2>2. r \in clients[fans[Home[r]]] /\ fans[Home[r]] # 0
    BY <1>4, <2>1 DEF Inv, SubscribersListed
  <2>3. Home[r] # Home[q] /\ Home[r] \in Procs
    BY <2>1, <2>2
  <2>4. fans[Home[r]] \in Fanouts
    BY <2>2, <2>3, MapEntry DEF Inv
  <2> QED
    BY <1>2, <1>4, <2>1, <2>3, <2>4
<1>6. MapInv'
  <2> SUFFICES ASSUME NEW p \in Procs, fans'[p] # 0
               PROVE  owner[fans'[p]] = p /\ sub'[fans'[p]] \in {"sent", "active"}
    BY DEF MapInv, Open
  <2>1. p # Home[q] /\ fans'[p] = fans[p] /\ fans[p] # k
    BY <1>2, <1>4
  <2>2. fans[p] \in Fanouts
    BY <2>1, MapEntry DEF Inv
  <2> QED
    BY <1>4, <2>1, <2>2 DEF Inv, MapInv, Open
<1>7. \A f \in Fanouts : f # k =>
         (owner[f] \in Procs /\ (fans'[owner[f]] = f <=> fans[owner[f]] = f))
  <2> SUFFICES ASSUME NEW f \in Fanouts, f # k
               PROVE  owner[f] \in Procs /\ (fans'[owner[f]] = f <=> fans[owner[f]] = f)
    OBVIOUS
  <2>1. owner[f] \in Procs
    BY DEF Inv, TypeOK
  <2>2. f # 0
    BY FanoutsExist DEF Fanouts
  <2> QED
    BY <1>4, <2>1, <2>2
<1>8. ClientsInv'
  <2> SUFFICES ASSUME NEW f \in Fanouts, f # k
               PROVE  /\ clients[f] # {} => fans'[owner[f]] = f
                      /\ \A r \in clients[f] :
                            poll'[r] \in {"waiting", "leaving"} /\ Home[r] = owner[f]
    BY <1>4 DEF ClientsInv, Fanouts
  <2>1. ASSUME NEW r \in clients[f] PROVE r \in Polls /\ r # q
    <3>1. r \in Polls /\ fans[owner[f]] = f /\ Home[r] = owner[f]
      BY DEF Inv, TypeOK, ClientsInv
    <3> QED
      BY <3>1
  <2> QED
    BY <1>4, <1>7, <2>1 DEF Inv, ClientsInv
<1>9. ReaderInv' /\ UnusedInv'
  BY <1>1, <1>4 DEF Inv, TypeOK, ReaderInv, UnusedInv, Open, reading, Fanouts
<1>10. DueInv'
  BY <1>4 DEF Inv, DueInv
<1>11. SubscribersListed'
  BY <1>4, <1>5 DEF Inv, SubscribersListed, Open
<1>12. NoLeak'
  BY <1>4, <1>7 DEF Inv, NoLeak, Open, Fanouts
<1>13. NoLostWakeup'
  BY <1>4, <1>5 DEF Inv, NoLostWakeup, InFlight, reading
<1> QED
  BY <1>3, <1>6, <1>8, <1>9, <1>10, <1>11, <1>12, <1>13 DEF Inv

\* Another client leaves: it was in the list, the list stays non-empty.
LEMMA InvUnsubscribeOther ==
    ASSUME Inv, NEW q \in Polls, UnsubscribeOther(q)
    PROVE  Inv'
<1> DEFINE k == fans[Home[q]]
<1> USE FanoutsExist, BrokerAssumption DEF UnsubscribeOther
<1>1. Home[q] \in Procs /\ k \in Fanouts /\ k # 0 /\ k <= created
  BY MapEntry DEF Inv
<1>2. owner[k] = Home[q] /\ Open(k)
  BY <1>1 DEF Inv, MapInv
<1>3. TypeOK'
  BY <1>1 DEF Inv, TypeOK, reading
<1>4. /\ clients'[k] = clients[k] \ {q} /\ clients'[k] # {}
      /\ \A f \in Fanouts : f # k => clients'[f] = clients[f]
      /\ poll'[q] = "done" /\ \A r \in Polls : r # q => poll'[r] = poll[r]
  BY <1>1 DEF Inv, TypeOK
<1>5. MapInv' /\ ReaderInv'
  BY DEF Inv, MapInv, ReaderInv, Open, reading, Fanouts
<1>6. ClientsInv'
  <2> SUFFICES ASSUME NEW f \in Fanouts
               PROVE  /\ clients'[f] # {} => fans[owner[f]] = f
                      /\ \A r \in clients'[f] :
                            poll'[r] \in {"waiting", "leaving"} /\ Home[r] = owner[f]
    BY DEF ClientsInv, Fanouts
  <2>1. clients[f] # {} => fans[owner[f]] = f
    BY DEF Inv, ClientsInv
  <2>2. clients'[f] \subseteq clients[f]
    BY <1>4
  <2>3. ASSUME NEW r \in clients'[f] PROVE r \in Polls /\ r # q
    <3>1. r \in Polls /\ fans[owner[f]] = f /\ Home[r] = owner[f]
      BY <2>2 DEF Inv, TypeOK, ClientsInv
    <3> QED
      BY <1>4, <3>1
  <2> QED
    BY <1>4, <2>1, <2>2, <2>3 DEF Inv, ClientsInv
<1>7. UnusedInv'
  BY <1>1, <1>4 DEF Inv, TypeOK, UnusedInv, reading, Fanouts
<1>8. DueInv'
  BY <1>4 DEF Inv, DueInv
<1>9. SubscribersListed'
  <2> SUFFICES ASSUME NEW r \in Polls, poll'[r] \in {"waiting", "leaving"}
               PROVE  fans[Home[r]] # 0 /\ r \in clients'[fans[Home[r]]] /\ Open(fans[Home[r]])
    BY DEF SubscribersListed, Open
  <2>1. r # q
    BY <1>4
  <2>2. fans[Home[r]] # 0 /\ r \in clients[fans[Home[r]]] /\ Open(fans[Home[r]])
    BY <1>4, <2>1 DEF Inv, SubscribersListed
  <2>3. fans[Home[r]] \in Fanouts
    BY <2>2, MapEntry DEF Inv
  <2> QED
    BY <1>4, <2>1, <2>2, <2>3
<1>10. NoLeak'
  BY <1>1, <1>2, <1>4 DEF Inv, NoLeak, Open, Fanouts
<1>11. NoLostWakeup'
  BY <1>4 DEF Inv, NoLostWakeup, InFlight, reading
<1> QED
  BY <1>3, <1>5, <1>6, <1>7, <1>8, <1>9, <1>10, <1>11 DEF Inv

\* select returns: the poll is still in the list.
LEMMA InvPollReturns ==
    ASSUME Inv, NEW q \in Polls, Wake(q) \/ TimeoutOrDisconnect(q)
    PROVE  Inv'
<1> USE FanoutsExist DEF Wake, TimeoutOrDisconnect, fanout, reading
<1>1. /\ poll[q] = "waiting" /\ poll' = [poll EXCEPT ![q] = "leaving"]
      /\ UNCHANGED <<created, owner, fans, clients, sub, queue, reader, targets, due>>
      /\ \A r \in Polls : r # q => notified'[r] = notified[r]
  BY DEF Inv, TypeOK
<1>2. TypeOK'
  BY DEF Inv, TypeOK
<1>3. MapInv' /\ ReaderInv' /\ UnusedInv' /\ NoLeak'
  BY <1>1 DEF Inv, MapInv, ReaderInv, UnusedInv, NoLeak, Open, Fanouts
<1>4. ClientsInv' /\ DueInv' /\ SubscribersListed'
  BY <1>1 DEF Inv, TypeOK, ClientsInv, DueInv, SubscribersListed, Open, Fanouts
<1>5. NoLostWakeup'
  BY <1>1 DEF Inv, TypeOK, NoLostWakeup, InFlight
<1> QED
  BY <1>2, <1>3, <1>4, <1>5 DEF Inv

-----------------------------------------------------------------------------
(* Redis.                                                                  *)

\* Redis starts to push, or the connection breaks: the subscription stays open.
LEMMA InvSubscriptionChanges ==
    ASSUME Inv, NEW f \in Fanouts, SubscriptionStarts(f) \/ ConnectionLost(f)
    PROVE  Inv'
<1> USE FanoutsExist, BrokerAssumption DEF SubscriptionStarts, ConnectionLost, reading, request
<1>1. /\ \A g \in Fanouts : Open(g)' <=> Open(g)
      /\ \A g \in Fanouts : sub[g] = "none" => sub'[g] = "none"
  BY DEF Inv, TypeOK, Open
<1>2. TypeOK'
  BY DEF Inv, TypeOK
<1>3. \A p \in Procs : fans[p] # 0 => fans[p] \in Fanouts
  BY MapEntry DEF Inv
<1>4. UNCHANGED <<created, owner, fans, clients, queue, reader, targets, poll, notified, due>>
  OBVIOUS
<1>5. MapInv'
  <2> SUFFICES ASSUME NEW p \in Procs, fans[p] # 0
               PROVE  owner[fans[p]] = p /\ Open(fans[p])'
    BY <1>4 DEF MapInv, Open
  <2> QED
    BY <1>1, <1>3 DEF Inv, MapInv
<1>6. ClientsInv' /\ ReaderInv' /\ UnusedInv' /\ DueInv' /\ NoLeak'
  BY <1>1, <1>4 DEF Inv, ClientsInv, ReaderInv, UnusedInv, DueInv, NoLeak, Open, Fanouts
<1>7. SubscribersListed'
  <2> SUFFICES ASSUME NEW r \in Polls, poll[r] \in {"waiting", "leaving"}
               PROVE  fans[Home[r]] # 0 /\ r \in clients[fans[Home[r]]] /\ Open(fans[Home[r]])'
    BY <1>4 DEF SubscribersListed, Open
  <2>1. Home[r] \in Procs
    OBVIOUS
  <2> QED
    BY <1>1, <1>3, <2>1 DEF Inv, SubscribersListed
<1>8. NoLostWakeup'
  BY <1>4 DEF Inv, NoLostWakeup, InFlight
<1> QED
  BY <1>2, <1>5, <1>6, <1>7, <1>8 DEF Inv

\* A message that an open subscription gets fills at least one place of the
\* buffer, whether it is dropped or not.
LEMMA InvPublish ==
    ASSUME Inv, Publish
    PROVE  Inv'
<1> USE FanoutsExist, BrokerAssumption DEF Publish, fanout
<1>1. TypeOK'
  <2>1. queue' \in [Fanouts -> 0..QueueCap]
    BY DEF Inv, TypeOK
  <2>2. due' \in [Polls -> BOOLEAN]
    BY DEF Inv, TypeOK
  <2> QED
    BY <2>1, <2>2 DEF Inv, TypeOK
<1>2. /\ UNCHANGED <<created, owner, fans, clients, sub, reader, targets, poll, notified>>
      /\ \A f \in Fanouts : /\ queue[f] > 0 => queue'[f] > 0
                            /\ sub[f] = "active" => queue'[f] > 0
  BY DEF Inv, TypeOK
<1>3. MapInv' /\ ClientsInv' /\ ReaderInv' /\ UnusedInv' /\ SubscribersListed' /\ NoLeak'
  BY <1>2 DEF Inv, MapInv, ClientsInv, ReaderInv, UnusedInv, SubscribersListed, NoLeak,
              Open, Fanouts
<1>4. DueInv'
  BY <1>2 DEF Inv, DueInv
<1>5. NoLostWakeup'
  <2> SUFFICES ASSUME NEW r \in Polls, poll[r] = "waiting", due'[r], ~notified[r]
               PROVE  InFlight(r)'
    BY <1>2 DEF NoLostWakeup
  <2>1. fans[Home[r]] \in Fanouts /\ Open(fans[Home[r]])
    BY MapEntry DEF Inv, SubscribersListed
  <2>2. CASE due[r]
    BY <1>2, <2>1, <2>2 DEF Inv, NoLostWakeup, InFlight
  <2>3. CASE ~due[r]
    <3>1. sub[fans[Home[r]]] = "active"
      BY <2>3
    <3>2. reader[fans[Home[r]]] # "gone"
      BY <2>1 DEF Inv, ReaderInv
    <3> QED
      BY <1>2, <2>1, <3>1, <3>2 DEF InFlight
  <2> QED
    BY <2>2, <2>3
<1> QED
  BY <1>1, <1>3, <1>4, <1>5 DEF Inv

-----------------------------------------------------------------------------
(* The reader goroutine.                                                   *)

\* What a step of the reader leaves alone suffices for most of the invariant.
LEMMA InvReaderFrame ==
    ASSUME Inv, UNCHANGED <<fanout, poll, due>>
    PROVE  MapInv' /\ ClientsInv' /\ DueInv' /\ SubscribersListed' /\ NoLeak'
BY DEF Inv, MapInv, ClientsInv, DueInv, SubscribersListed, NoLeak, Open, Fanouts, fanout

\* One message less in the buffer, but every client is in the copied list.
LEMMA InvReaderReceives ==
    ASSUME Inv, NEW f \in Fanouts, ReaderReceives(f)
    PROVE  Inv'
<1> USE FanoutsExist, BrokerAssumption DEF ReaderReceives, fanout, request
<1>1. /\ reader[f] = "receiving" /\ reader'[f] = "sending"
      /\ \A g \in Fanouts : g # f =>
            queue'[g] = queue[g] /\ reader'[g] = reader[g] /\ targets'[g] = targets[g]
  BY DEF Inv, TypeOK
<1>2. owner[f] \in Procs /\ (fans[owner[f]] # 0 => fans[owner[f]] \in Fanouts)
  BY MapEntry DEF Inv, TypeOK
<1>3. TypeOK'
  <2>1. queue' \in [Fanouts -> 0..QueueCap]
    BY DEF Inv, TypeOK
  <2>2. targets' \in [Fanouts -> SUBSET Polls]
    BY <1>2 DEF Inv, TypeOK
  <2> QED
    BY <2>1, <2>2 DEF Inv, TypeOK
<1>4. MapInv' /\ ClientsInv' /\ DueInv' /\ SubscribersListed' /\ NoLeak'
  BY InvReaderFrame
<1>5. ReaderInv'
  BY <1>1 DEF Inv, ReaderInv, Open, Fanouts
<1>6. UnusedInv'
  BY <1>1 DEF Inv, UnusedInv, Fanouts
<1>7. NoLostWakeup'
  <2> SUFFICES ASSUME NEW r \in Polls, poll[r] = "waiting", due[r], ~notified[r]
               PROVE  InFlight(r)'
    BY DEF NoLostWakeup
  <2> DEFINE g == fans[Home[r]]
  <2>1. g \in Fanouts /\ g # 0 /\ r \in clients[g] /\ InFlight(r)
    BY MapEntry DEF Inv, SubscribersListed, NoLostWakeup
  <2>2. CASE g = f
    <3>1. owner[f] = Home[r]
      BY <2>1, <2>2 DEF Inv, MapInv
    <3>2. targets'[f] = clients[f]
      BY <2>1, <2>2, <3>1 DEF Inv, TypeOK
    <3> QED
      BY <1>1, <2>1, <2>2, <3>2 DEF InFlight
  <2>3. CASE g # f
    BY <1>1, <2>1, <2>3 DEF InFlight
  <2> QED
    BY <2>2, <2>3
<1> QED
  BY <1>3, <1>4, <1>5, <1>6, <1>7 DEF Inv

\* A poll leaves the copied list only by being notified.
LEMMA InvReaderSends ==
    ASSUME Inv, NEW f \in Fanouts, NEW q \in Polls, ReaderSends(f, q)
    PROVE  Inv'
<1> USE FanoutsExist, BrokerAssumption DEF ReaderSends, fanout
<1>1. /\ notified'[q] = (poll[q] # "done")
      /\ \A r \in Polls : r # q => notified'[r] = notified[r]
      /\ targets'[f] = targets[f] \ {q}
      /\ \A g \in Fanouts : g # f => targets'[g] = targets[g]
  BY DEF Inv, TypeOK
<1>2. TypeOK'
  BY DEF Inv, TypeOK
<1>3. MapInv' /\ ClientsInv' /\ DueInv' /\ SubscribersListed' /\ NoLeak'
  BY InvReaderFrame
<1>4. ReaderInv' /\ UnusedInv'
  BY <1>1 DEF Inv, ReaderInv, UnusedInv, Open, Fanouts
<1>5. NoLostWakeup'
  <2> SUFFICES ASSUME NEW r \in Polls, poll[r] = "waiting", due[r], ~notified'[r]
               PROVE  InFlight(r)'
    BY DEF NoLostWakeup
  <2>1. r # q
    BY <1>1
  <2>2. InFlight(r) /\ fans[Home[r]] \in Fanouts
    BY <1>1, <2>1, MapEntry DEF Inv, NoLostWakeup, SubscribersListed
  <2> QED
    BY <1>1, <2>1, <2>2 DEF InFlight
<1> QED
  BY <1>2, <1>3, <1>4, <1>5 DEF Inv

\* The reader waits for the next message, or ends with its subscription.
LEMMA InvReaderRests ==
    ASSUME Inv, NEW f \in Fanouts, ReaderSentAll(f) \/ ReaderExits(f)
    PROVE  Inv'
<1> USE FanoutsExist, BrokerAssumption DEF ReaderSentAll, ReaderExits, fanout, request
<1>1. /\ UNCHANGED <<fanout, queue, targets, request>>
      /\ \A g \in Fanouts : g # f => reader'[g] = reader[g]
      /\ reader[f] \in {"receiving", "sending"} /\ reader'[f] \in {"receiving", "gone"}
      /\ reader'[f] = "gone" => sub[f] = "closed"
      /\ targets[f] # {} => reader[f] = "sending"
      /\ reader[f] = "sending" => targets[f] = {}
  BY DEF Inv, TypeOK, ReaderInv
<1>2. TypeOK'
  BY DEF Inv, TypeOK
<1>3. MapInv' /\ ClientsInv' /\ DueInv' /\ SubscribersListed' /\ NoLeak'
  BY InvReaderFrame
<1>4. ReaderInv' /\ UnusedInv'
  BY <1>1 DEF Inv, ReaderInv, UnusedInv, Open, Fanouts
<1>5. NoLostWakeup'
  <2> SUFFICES ASSUME NEW r \in Polls, poll[r] = "waiting", due[r], ~notified[r]
               PROVE  InFlight(r)'
    BY <1>1 DEF NoLostWakeup
  <2>1. InFlight(r) /\ fans[Home[r]] \in Fanouts /\ Open(fans[Home[r]])
    BY MapEntry DEF Inv, NoLostWakeup, SubscribersListed
  <2>2. reader'[fans[Home[r]]] # "gone"
    BY <1>1, <2>1 DEF InFlight, Open
  <2> QED
    BY <1>1, <2>1, <2>2 DEF InFlight
<1> QED
  BY <1>2, <1>3, <1>4, <1>5 DEF Inv

-----------------------------------------------------------------------------
\* Every step keeps the invariant.
LEMMA InvStep == Inv /\ [Next]_vars => Inv'
<1> SUFFICES ASSUME Inv, [Next]_vars PROVE Inv'
  OBVIOUS
<1>1. CASE Publish
  BY <1>1, InvPublish
<1>2. ASSUME NEW q \in Polls, PollStep(q) PROVE Inv'
  BY <1>2, InvSubscribeFirst, InvSubscribeNext, InvUnsubscribeLast, InvUnsubscribeOther,
     InvPollReturns DEF PollStep, Unsubscribe
<1>3. ASSUME NEW f \in Fanouts, ReaderStep(f) PROVE Inv'
  BY <1>3, InvReaderReceives, InvReaderSends, InvReaderRests DEF ReaderStep
<1>4. ASSUME NEW f \in Fanouts, SubscriptionStarts(f) \/ ConnectionLost(f) PROVE Inv'
  BY <1>4, InvSubscriptionChanges
<1>5. CASE UNCHANGED vars
  BY <1>5 DEF vars, fanout, reading, request, Inv, TypeOK, MapInv, ClientsInv, ReaderInv,
              UnusedInv, DueInv, SubscribersListed, NoLeak, NoLostWakeup, InFlight, Open, Fanouts
<1> QED
  BY <1>1, <1>2, <1>3, <1>4, <1>5 DEF Next

\* The invariant holds in every reachable state.
LEMMA BrokerInvariant == Spec => []Inv
<1>1. Init => Inv
  BY InvInit
<1>2. Inv /\ [Next]_vars => Inv'
  BY InvStep
<1> QED
  BY <1>1, <1>2, PTL DEF Spec

\* Every variable of the broker always has its type; in particular no buffer
\* of go-redis holds more than QueueCap messages.
THEOREM BrokerTypes == Spec => []TypeOK
<1>1. Inv => TypeOK
  BY DEF Inv
<1> QED
  BY <1>1, BrokerInvariant, PTL

\* Between Subscribe and Unsubscribe a poll request is always in the list
\* that fanOut sends to, whoever else subscribes and unsubscribes.
THEOREM Listed == Spec => []SubscribersListed
<1>1. Inv => SubscribersListed
  BY DEF Inv
<1> QED
  BY <1>1, BrokerInvariant, PTL

\* Subscribe and Unsubscribe open and close Redis subscriptions in pairs: an
\* open one is in the map of its process and has a client.
THEOREM NoSubscriptionLeaks == Spec => []NoLeak
<1>1. Inv => NoLeak
  BY DEF Inv
<1> QED
  BY <1>1, BrokerInvariant, PTL

\* startReader and fanOut never lose the last notification of a waiting
\* poll: not by a full channel, a full buffer, or sending without the lock.
THEOREM WakeupsSurvive == Spec => []NoLostWakeup
<1>1. Inv => NoLostWakeup
  BY DEF Inv
<1> QED
  BY <1>1, BrokerInvariant, PTL
=============================================================================
