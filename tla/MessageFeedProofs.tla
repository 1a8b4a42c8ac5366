------------------------ MODULE MessageFeedProofs -------------------------
(***************************************************************************)
(* Proofs about MessageFeed for all sets of writers and clients and for    *)
(* every value of its bounds: type correctness, StoredIsPrefix, NoHoles    *)
(* and the refinement of OrderedFeed.                                      *)
(***************************************************************************)
EXTENDS MessageFeed, FiniteSetTheorems, TLAPS

(***************************************************************************)
(* The inductive invariant.  NoHoles is not inductive by itself: a page is *)
(* read in one step and delivered in a later one, while senders commit and *)
(* moderators delete.  What makes it safe is that rows are committed in    *)
(* seq order (StoreInv, kept by the row lock, LockInv), so that nothing    *)
(* can appear behind a page already read (PageInv).                        *)
(***************************************************************************)
LockInv == \A w \in Writers : wpc[w] = "insert" => rowLock = w /\ wseq[w] = chatSeq + 1

StoreInv == stored = 1..chatSeq

\* Only an open request has a page, and only an open window has messages.
PhaseInv ==
    \A c \in Clients :
        /\ cpc[c] # "polling" => hpc[c] = "none" /\ page[c] = {}
        /\ cpc[c] = "opening" => seen[c] = {}

\* Nothing the client holds is beyond the log.
RangeInv ==
    \A c \in Clients :
        /\ cursor[c] \in 0..chatSeq /\ base[c] \in 0..chatSeq
        /\ loaded[c] \subseteq 1..chatSeq /\ seen[c] \subseteq 1..chatSeq

\* A page starts right after the cursor and skips nothing that still exists.
PageInv ==
    \A c \in Clients : \A p \in page[c] :
        /\ p \in 1..chatSeq /\ p > cursor[c]
        /\ \A n \in Visible : cursor[c] < n /\ n <= p => n \in page[c]

Rest == LockInv /\ StoreInv /\ PhaseInv /\ RangeInv /\ PageInv /\ NoHoles

-----------------------------------------------------------------------------
(* The two queries return ranges of the visible messages.                  *)

\* The messages at or below a seq are finite in number.
LEMMA CountBelow ==
    ASSUME NEW S, NEW T, S \subseteq T, IsFiniteSet(T), NEW k \in Nat, Cardinality(T) < k
    PROVE  Cardinality(S) < k
<1>1. IsFiniteSet(S) /\ Cardinality(S) <= Cardinality(T)
  BY FS_Subset
<1>2. Cardinality(S) \in Nat /\ Cardinality(T) \in Nat
  BY <1>1, FS_CardinalityType
<1> QED
  BY <1>1, <1>2

\* Only finitely many messages can be read at any time.
LEMMA VisibleFinite ==
    ASSUME chatSeq \in Nat, StoreInv
    PROVE  IsFiniteSet(Visible) /\ Visible \subseteq 1..chatSeq
<1>1. Visible \subseteq 1..chatSeq
  BY DEF Visible, StoreInv
<1>2. IsFiniteSet(1..chatSeq)
  BY FS_Interval
<1> QED
  BY <1>1, <1>2, FS_Subset

\* GetByChatIDAfterSeq returns messages after the cursor and skips none
\* before its last one, whatever the limit.
LEMMA PageIsRange ==
    ASSUME chatSeq \in Nat, StoreInv, NEW a \in Nat, NEW p \in Page(a)
    PROVE  /\ p \in 1..chatSeq /\ p > a
           /\ \A n \in Visible : a < n /\ n <= p => n \in Page(a)
<1>1. IsFiniteSet(Visible) /\ Visible \subseteq 1..chatSeq
  BY VisibleFinite
<1>2. ASSUME NEW n \in Visible, a < n, n <= p
      PROVE  n \in Page(a)
  <2> DEFINE Before(x) == {m \in Visible : a < m /\ m < x}
  <2>0. n \in Int /\ p \in Int /\ a \in Int /\ \A m \in Visible : m \in Int
    BY <1>1 DEF Page
  <2>1. Before(n) \subseteq Before(p)
    <3> SUFFICES ASSUME NEW m \in Visible, a < m, m < n
                 PROVE  m < p
      OBVIOUS
    <3> QED BY <1>2, <2>0
  <2>2. IsFiniteSet(Before(p))
    BY <1>1, FS_Subset
  <2>3. Cardinality(Before(p)) < PageLimit
    BY DEF Page
  <2>4. Cardinality(Before(n)) < PageLimit
    <3> HIDE DEF Before
    <3> QED BY <2>1, <2>2, <2>3, CountBelow, FeedAssumption
  <2> QED
    BY <1>2, <2>4 DEF Page
<1> QED
  BY <1>1, <1>2 DEF Page

\* ListByChatID returns the end of the log.
LEMMA LatestIsSuffix ==
    ASSUME chatSeq \in Nat, StoreInv, NEW p \in Latest
    PROVE  /\ p \in 1..chatSeq
           /\ \A n \in Visible : p <= n => n \in Latest
<1>1. IsFiniteSet(Visible) /\ Visible \subseteq 1..chatSeq
  BY VisibleFinite
<1>2. ASSUME NEW n \in Visible, p <= n
      PROVE  n \in Latest
  <2> DEFINE After(x) == {m \in Visible : x < m}
  <2>0. n \in Int /\ p \in Int /\ \A m \in Visible : m \in Int
    BY <1>1 DEF Latest
  <2>1. After(n) \subseteq After(p)
    <3> SUFFICES ASSUME NEW m \in Visible, n < m
                 PROVE  p < m
      OBVIOUS
    <3> QED BY <1>2, <2>0
  <2>2. IsFiniteSet(After(p))
    BY <1>1, FS_Subset
  <2>3. Cardinality(After(p)) < InitPage
    BY DEF Latest
  <2>4. Cardinality(After(n)) < InitPage
    <3> HIDE DEF After
    <3> QED BY <2>1, <2>2, <2>3, CountBelow, FeedAssumption
  <2> QED
    BY <1>2, <2>4 DEF Latest
<1> QED
  BY <1>1, <1>2 DEF Latest

-----------------------------------------------------------------------------
(* Type correctness.                                                       *)

\* A poll page is a set of seqs.
LEMMA PageTyped ==
    ASSUME TypeOK, NEW a \in Nat
    PROVE  Page(a) \in SUBSET Nat /\ Latest \in SUBSET Nat
BY DEF TypeOK, Page, Latest, Visible

\* The initial values have their types.
LEMMA TypeInit == Init => TypeOK
BY FeedAssumption DEF Init, TypeOK

\* The steps of a writer keep the types.
LEMMA TypeWriters ==
    ASSUME TypeOK, NEW w \in Writers,
           \/ SendBegin(w) \/ SendAbort(w) \/ WriterStep(w)
           \/ \E n \in stored : SoftDelete(w, n) \/ EditMessage(w, n)
           \/ RedisWriteFails(w) \/ WriterCrash(w)
    PROVE  TypeOK'
<1> USE DEF TypeOK, WriterAt, Fault, vars, store, redis, writer, handler, client
<1>1. CASE SendBegin(w) BY <1>1 DEF SendBegin
<1>2. CASE SendAbort(w) BY <1>2 DEF SendAbort
<1>3. CASE SendCommit(w) BY <1>3 DEF SendCommit
<1>4. CASE SetLastSeq(w) BY <1>4 DEF SetLastSeq
<1>5. CASE LogChange(w) BY <1>5 DEF LogChange
<1>6. CASE Publish(w) BY <1>6 DEF Publish
<1>7. ASSUME NEW n \in stored, SoftDelete(w, n) PROVE TypeOK'
  BY <1>7 DEF SoftDelete, Change
<1>8. ASSUME NEW n \in stored, EditMessage(w, n) PROVE TypeOK'
  BY <1>8 DEF EditMessage, Change
<1>9. CASE RedisWriteFails(w) BY <1>9 DEF RedisWriteFails
<1>10. CASE WriterCrash(w) BY <1>10 DEF WriterCrash
<1> QED
  BY <1>1, <1>2, <1>3, <1>4, <1>5, <1>6, <1>7, <1>8, <1>9, <1>10 DEF WriterStep

\* The steps of a poll request keep the types.
LEMMA TypeHandlers ==
    ASSUME TypeOK, NEW c \in Clients,
           HandlerStep(c) \/ FastReadFails(c) \/ SlowFetchFails(c) \/ LogReadFails(c)
    PROVE  TypeOK'
<1>1. Page(cursor[c]) \in SUBSET Nat
  BY PageTyped DEF TypeOK
<1> USE DEF TypeOK, HandlerAt, Fault, vars, store, redis, writer, handler, client
<1>2. CASE ReadLastSeq(c) BY <1>2 DEF ReadLastSeq
<1>3. CASE FastFetch(c) BY <1>1, <1>3 DEF FastFetch
<1>4. CASE FastChanges(c) BY <1>4 DEF FastChanges, ReadChanges, ChangesRead, ChangesSince
<1>5. CASE Subscribe(c) BY <1>5 DEF Subscribe
<1>6. CASE Wake(c) BY <1>6 DEF Wake
<1>7. CASE Timeout(c) BY <1>7 DEF Timeout
<1>8. CASE SlowFetch(c) BY <1>1, <1>8 DEF SlowFetch
<1>9. CASE SlowChanges(c) BY <1>9 DEF SlowChanges, ReadChanges, ChangesRead, ChangesSince
<1>10. CASE FastReadFails(c) BY <1>10 DEF FastReadFails
<1>11. CASE SlowFetchFails(c) BY <1>11 DEF SlowFetchFails
<1>12. CASE LogReadFails(c)
  <2>1. /\ newChanges' = [newChanges EXCEPT ![c] = 0]
        /\ \E s \in {"answer", "subscribe", "noContent"} : hpc' = [hpc EXCEPT ![c] = s]
        /\ UNCHANGED <<store, redis, writer, page, woken, client>>
    BY <1>12 DEF LogReadFails, ChangesRead
  <2>2. newChanges' \in [Clients -> Nat]
    BY <2>1
  <2>3. faults' \in Nat
    BY <1>12 DEF LogReadFails
  <2> QED
    BY <2>1, <2>2, <2>3
<1> QED
  BY <1>2, <1>3, <1>4, <1>5, <1>6, <1>7, <1>8, <1>9, <1>10, <1>11, <1>12 DEF HandlerStep

\* The steps of the widget keep the types.
LEMMA TypeClients ==
    ASSUME TypeOK, NEW c \in Clients,
           ClientStep(c) \/ NetworkError(c) \/ RateLimited(c) \/ Stopped(c)
    PROVE  TypeOK'
<1>1. Latest \in SUBSET Nat
  BY PageTyped
<1> USE DEF TypeOK, HandlerAt, Fault, RequestEnds, vars, store, redis, writer, handler, client
<1>2. CASE LoadWindow(c) BY <1>1, <1>2 DEF LoadWindow
<1>3. CASE PollStart(c) BY <1>3 DEF PollStart
<1>4. CASE Receive(c)
  <2>1. Fresh(c) \in SUBSET Nat
    BY DEF Fresh
  <2> QED
    BY <1>4, <2>1 DEF Receive
<1>5. CASE ReceiveNoContent(c) BY <1>5 DEF ReceiveNoContent
<1>6. ASSUME StepBack(c), UNCHANGED faults \/ Fault PROVE TypeOK'
  BY <1>6 DEF StepBack
<1>7. CASE RateLimited(c) BY <1>7 DEF RateLimited
<1>8. CASE Stopped(c) BY <1>8 DEF Stopped
<1> QED
  BY <1>2, <1>3, <1>4, <1>5, <1>6, <1>7, <1>8
  DEF ClientStep, ReceiveServerError, NetworkError

\* Every step keeps the types.
LEMMA TypeStep == TypeOK /\ [Next]_vars => TypeOK'
<1> SUFFICES ASSUME TypeOK, [Next]_vars PROVE TypeOK'
  OBVIOUS
<1>1. CASE LastSeqExpires
  BY <1>1 DEF LastSeqExpires, TypeOK, Fault, store, redis, writer, handler, client
<1>2. CASE UNCHANGED vars
  BY <1>2 DEF TypeOK, vars, store, redis, writer, handler, client
<1> QED
  BY <1>1, <1>2, TypeWriters, TypeHandlers, TypeClients DEF Next

\* Every variable keeps its type, for every instance of the model.
THEOREM TypeCorrect == Spec => []TypeOK
<1> QED
  BY TypeInit, TypeStep, PTL DEF Spec

-----------------------------------------------------------------------------
(* The rest of the inductive invariant.                                    *)

\* An empty chat has no holes and nothing is under way.
LEMMA RestInit == Init => Rest
<1> USE FeedAssumption
    DEF Init, Rest, LockInv, StoreInv, PhaseInv, RangeInv, PageInv, NoHoles, Visible, Window
<1> QED OBVIOUS

\* Steps that leave the store and the clients' messages alone.
LEMMA RestFrame ==
    ASSUME Rest, LockInv', PhaseInv',
           UNCHANGED <<chatSeq, stored, deleted, page, cursor, loaded, base, seen>>
    PROVE  Rest'
BY DEF Rest, StoreInv, RangeInv, PageInv, NoHoles, Visible, Window

\* The steps of a writer: only the holder of the row lock adds a message.
LEMMA RestWriters ==
    ASSUME TypeOK, Rest, NEW w \in Writers,
           \/ SendBegin(w) \/ SendAbort(w) \/ WriterStep(w)
           \/ \E n \in stored : SoftDelete(w, n) \/ EditMessage(w, n)
           \/ RedisWriteFails(w) \/ WriterCrash(w)
    PROVE  Rest'
<1> USE DEF WriterAt, store, redis, writer, handler, client
\* The lock is free, so no other writer is between its update and its commit.
<1>1. CASE SendBegin(w)
  <2>1. LockInv'
    BY <1>1, FeedAssumption DEF SendBegin, TypeOK, Rest, LockInv
  <2>2. PhaseInv'
    BY <1>1 DEF SendBegin, Rest, PhaseInv
  <2> QED
    BY <1>1, <2>1, <2>2, RestFrame DEF SendBegin
\* The new message is beyond every page, cursor and window.
<1>2. CASE SendCommit(w)
  <2>1. rowLock = w /\ wseq[w] = chatSeq + 1 /\ chatSeq \in Nat
    BY <1>2 DEF SendCommit, TypeOK, Rest, LockInv
  <2>2. chatSeq' = chatSeq + 1 /\ stored' = stored \cup {chatSeq + 1} /\ deleted' = deleted
    BY <1>2, <2>1 DEF SendCommit
  <2>3. UNCHANGED <<page, cursor, loaded, base, seen, cpc, hpc>>
    BY <1>2 DEF SendCommit
  <2>4. LockInv'
    BY <1>2, <2>1 DEF SendCommit, TypeOK, Rest, LockInv
  <2>5. StoreInv'
    BY <2>1, <2>2 DEF Rest, StoreInv
  <2>6. PhaseInv' /\ RangeInv'
    BY <2>1, <2>2, <2>3 DEF Rest, PhaseInv, RangeInv
  <2>7. \A n \in Visible' : n \in Visible \/ n = chatSeq + 1
    BY <2>2 DEF Visible
  <2>8. PageInv'
    BY <2>1, <2>2, <2>3, <2>7 DEF Rest, PageInv
  <2>9. NoHoles'
    BY <2>1, <2>2, <2>3, <2>7 DEF Rest, RangeInv, NoHoles, Window
  <2> QED
    BY <2>4, <2>5, <2>6, <2>8, <2>9 DEF Rest
\* A deletion only makes the demands of PageInv and NoHoles weaker.
<1>3. ASSUME NEW n \in stored, SoftDelete(w, n) PROVE Rest'
  <2>1. LockInv' /\ StoreInv' /\ PhaseInv' /\ RangeInv'
    BY <1>3 DEF SoftDelete, Change, TypeOK, Rest, LockInv, StoreInv, PhaseInv, RangeInv
  <2>2. Visible' \subseteq Visible
    BY <1>3 DEF SoftDelete, Visible
  <2>3. PageInv'
    BY <1>3, <2>2 DEF SoftDelete, Rest, PageInv
  <2>4. NoHoles'
    BY <1>3, <2>2 DEF SoftDelete, Rest, NoHoles, Window
  <2> QED
    BY <2>1, <2>3, <2>4 DEF Rest
\* The other steps of a writer move no message.
<1>4. ASSUME \/ SendAbort(w) \/ SetLastSeq(w) \/ LogChange(w) \/ Publish(w)
             \/ \E n \in stored : EditMessage(w, n)
             \/ RedisWriteFails(w) \/ WriterCrash(w)
      PROVE  Rest'
  <2> USE DEF SendAbort, SetLastSeq, LogChange, Publish, EditMessage, Change,
              RedisWriteFails, WriterCrash
  <2>1. LockInv'
    BY <1>4 DEF TypeOK, Rest, LockInv
  <2>2. PhaseInv'
    BY <1>4 DEF Rest, PhaseInv
  <2> QED
    BY <1>4, <2>1, <2>2, RestFrame
<1> QED
  BY <1>1, <1>2, <1>3, <1>4 DEF WriterStep

\* The steps of a poll request: a page is complete when it is read.
LEMMA RestHandlers ==
    ASSUME TypeOK, Rest, NEW c \in Clients,
           HandlerStep(c) \/ FastReadFails(c) \/ SlowFetchFails(c) \/ LogReadFails(c)
    PROVE  Rest'
<1> USE DEF HandlerAt, store, redis, writer, handler, client
\* The two steps that read a page.
<1>1. ASSUME FastFetch(c) \/ SlowFetch(c) PROVE Rest'
  <2>1. page' = [page EXCEPT ![c] = Page(cursor[c])] /\ hpc[c] # "none"
    BY <1>1 DEF FastFetch, SlowFetch
  <2>2. UNCHANGED <<chatSeq, rowLock, stored, deleted, wpc, wseq, cpc, cursor, loaded, base, seen>>
    BY <1>1 DEF FastFetch, SlowFetch
  <2>3. LockInv' /\ StoreInv' /\ RangeInv' /\ NoHoles'
    BY <2>2 DEF Rest, LockInv, StoreInv, RangeInv, NoHoles, Visible, Window
  <2>4. PhaseInv'
    BY <1>1, <2>1, <2>2 DEF FastFetch, SlowFetch, TypeOK, Rest, PhaseInv
  <2>5. cursor[c] \in Nat /\ chatSeq \in Nat /\ StoreInv
    BY DEF TypeOK, Rest
  <2>6. \A p \in Page(cursor[c]) :
           /\ p \in 1..chatSeq /\ p > cursor[c]
           /\ \A n \in Visible : cursor[c] < n /\ n <= p => n \in Page(cursor[c])
    BY <2>5, PageIsRange
  <2>7. page'[c] = Page(cursor[c]) /\ \A d \in Clients : d # c => page'[d] = page[d]
    BY <2>1 DEF TypeOK
  <2>8. Visible' = Visible
    BY <2>2 DEF Visible
  <2>9. PageInv'
    <3> SUFFICES ASSUME NEW d \in Clients, NEW p \in page'[d]
                 PROVE  /\ p \in 1..chatSeq /\ p > cursor[d]
                        /\ \A n \in Visible : cursor[d] < n /\ n <= p => n \in page'[d]
      BY <2>2, <2>8 DEF PageInv
    <3>1. CASE d = c
      BY <2>6, <2>7, <3>1
    <3>2. CASE d # c
      BY <2>7, <3>2 DEF Rest, PageInv
    <3> QED
      BY <3>1, <3>2
  <2> QED
    BY <2>3, <2>4, <2>9 DEF Rest
<1>2. ASSUME \/ ReadLastSeq(c) \/ FastChanges(c) \/ Subscribe(c) \/ Wake(c) \/ Timeout(c)
             \/ SlowChanges(c) \/ FastReadFails(c) \/ SlowFetchFails(c) \/ LogReadFails(c)
      PROVE  Rest'
  <2> USE DEF ReadLastSeq, FastChanges, SlowChanges, ReadChanges, Subscribe, Wake, Timeout,
              FastReadFails, SlowFetchFails,
              LogReadFails, ChangesRead
  <2>1. LockInv'
    BY <1>2 DEF Rest, LockInv
  <2>2. PhaseInv'
    BY <1>2 DEF TypeOK, Rest, PhaseInv
  <2> QED
    BY <1>2, <2>1, <2>2, RestFrame
<1> QED
  BY <1>1, <1>2 DEF HandlerStep

\* A request ends without delivering anything; the cursor may step back.
LEMMA RestNothingDelivered ==
    ASSUME TypeOK, Rest, NEW c \in Clients,
           RequestEnds(c), cpc' = [cpc EXCEPT ![c] = "ready"] \/ cpc' = [cpc EXCEPT ![c] = "stopped"],
           NEW k \in Nat, k <= cursor[c], cursor' = [cursor EXCEPT ![c] = k],
           UNCHANGED <<store, redis, writer, loaded, base, seen>>
    PROVE  Rest'
<1> USE DEF RequestEnds, store, writer
<1>1. LockInv' /\ StoreInv'
  BY DEF Rest, LockInv, StoreInv
<1>2. PhaseInv'
  BY DEF TypeOK, Rest, PhaseInv
<1>3. /\ page'[c] = {} /\ cursor'[c] = k
      /\ \A d \in Clients : d # c => page'[d] = page[d] /\ cursor'[d] = cursor[d]
  BY DEF TypeOK
<1>4. RangeInv'
  BY <1>3 DEF TypeOK, Rest, RangeInv
<1>5. Visible' = Visible
  BY DEF Visible
<1>6. PageInv'
  BY <1>3, <1>5 DEF Rest, PageInv
<1>7. NoHoles'
  <2> SUFFICES ASSUME NEW d \in Clients, NEW n \in Visible,
                      NEW m1 \in loaded[d] \cup {base[d]}, m1 <= n,
                      NEW m2 \in Window(d) \cup {cursor'[d]}, n <= m2
               PROVE  n \in Window(d)
    BY <1>5 DEF NoHoles, Window
  <2>1. n \in Nat /\ cursor[d] \in Nat
    BY DEF TypeOK, Visible
  <2>2. \E m \in Window(d) \cup {cursor[d]} : n <= m
    BY <1>3, <2>1
  <2> QED
    BY <2>2 DEF Rest, NoHoles
<1> QED
  BY <1>1, <1>2, <1>4, <1>6, <1>7 DEF Rest

\* The steps of the widget: a page is put in only at the cursor it was read for.
LEMMA RestClients ==
    ASSUME TypeOK, Rest, NEW c \in Clients,
           ClientStep(c) \/ NetworkError(c) \/ RateLimited(c) \/ Stopped(c)
    PROVE  Rest'
\* The window opens on a suffix of the visible messages.
<1>1. CASE LoadWindow(c)
  <2> USE DEF store, redis, writer, handler, client
  <2>1. PICK b \in Latest \cup {0} :
           /\ IsMax(b, Latest \cup {0})
           /\ base' = [base EXCEPT ![c] = b]
           /\ cursor' = [cursor EXCEPT ![c] = b]
    BY <1>1 DEF LoadWindow
  <2>2. /\ cpc[c] = "opening" /\ cpc' = [cpc EXCEPT ![c] = "ready"]
        /\ loaded' = [loaded EXCEPT ![c] = Latest]
        /\ UNCHANGED <<chatSeq, rowLock, stored, deleted, wpc, wseq, hpc, page, seen>>
    BY <1>1 DEF LoadWindow
  <2>3. chatSeq \in Nat /\ StoreInv
    BY DEF TypeOK, Rest
  <2>4. \A p \in Latest : p \in 1..chatSeq /\ \A n \in Visible : p <= n => n \in Latest
    BY <2>3, LatestIsSuffix
  <2>5. b \in 0..chatSeq /\ \A n \in Latest : n <= b
    BY <2>1, <2>3, <2>4 DEF IsMax
  <2>6. seen[c] = {} /\ page[c] = {} /\ hpc[c] = "none"
    BY <2>2 DEF Rest, PhaseInv
  <2>7. LockInv' /\ StoreInv'
    BY <2>2 DEF Rest, LockInv, StoreInv
  <2>8. PhaseInv'
    BY <2>2, <2>6 DEF TypeOK, Rest, PhaseInv
  <2>9. /\ loaded'[c] = Latest /\ base'[c] = b /\ cursor'[c] = b
        /\ \A d \in Clients : d # c =>
              loaded'[d] = loaded[d] /\ base'[d] = base[d] /\ cursor'[d] = cursor[d]
    BY <2>1, <2>2 DEF TypeOK
  <2>10. RangeInv'
    BY <2>2, <2>4, <2>5, <2>9 DEF Rest, RangeInv
  <2>11. Visible' = Visible
    BY <2>2 DEF Visible
  <2>12. PageInv'
    BY <2>2, <2>6, <2>9, <2>11 DEF Rest, PageInv
  <2>13. NoHoles'
    <3> SUFFICES ASSUME NEW d \in Clients, NEW n \in Visible,
                        NEW m1 \in loaded'[d] \cup {base'[d]}, m1 <= n,
                        NEW m2 \in (loaded'[d] \cup seen[d]) \cup {cursor'[d]}, n <= m2
                 PROVE  n \in loaded'[d] \cup seen[d]
      BY <2>2, <2>11 DEF NoHoles, Window
    <3>1. n \in 1..chatSeq
      BY <2>3 DEF Visible, StoreInv
    <3>2. CASE d = c
      <4> m2 \in Latest \cup {b}
        BY <2>6, <2>9, <3>2
      <4> m2 \in Int /\ b \in Int /\ m2 <= b
        BY <2>3, <2>4, <2>5
      <4>1. n <= b
        BY <3>1
      <4>2. b \in Latest
        BY <2>1, <3>1, <4>1
      <4>3. m1 \in Latest
        BY <2>9, <3>2, <4>2
      <4> QED
        BY <2>4, <2>9, <3>2, <4>3
    <3>3. CASE d # c
      BY <2>9, <3>3 DEF Rest, NoHoles, Window
    <3> QED
      BY <3>2, <3>3
  <2> QED
    BY <2>7, <2>8, <2>10, <2>12, <2>13 DEF Rest
<1>2. CASE PollStart(c)
  <2>1. LockInv'
    BY <1>2 DEF PollStart, Rest, LockInv, store, writer
  <2>2. PhaseInv'
    BY <1>2 DEF PollStart, HandlerAt, TypeOK, Rest, PhaseInv
  <2> QED
    BY <1>2, <2>1, <2>2, RestFrame DEF PollStart, store
\* What lies between the old cursor and the new one is in the page.
<1>3. CASE Receive(c)
  <2> USE DEF store, redis, writer
  <2>1. PICK m \in Fresh(c) \cup {cursor[c]} :
           /\ IsMax(m, Fresh(c) \cup {cursor[c]})
           /\ cursor' = [cursor EXCEPT ![c] = m]
    BY <1>3 DEF Receive
  <2>2. /\ cpc[c] = "polling" /\ cpc' = [cpc EXCEPT ![c] = "ready"]
        /\ hpc' = [hpc EXCEPT ![c] = "none"] /\ page' = [page EXCEPT ![c] = {}]
        /\ seen' = [seen EXCEPT ![c] = @ \cup Fresh(c)]
        /\ UNCHANGED <<chatSeq, rowLock, stored, deleted, wpc, wseq, loaded, base>>
    BY <1>3 DEF Receive, RequestEnds
  <2>3. /\ page'[c] = {} /\ cursor'[c] = m /\ seen'[c] = seen[c] \cup Fresh(c)
        /\ \A d \in Clients : d # c =>
              page'[d] = page[d] /\ cursor'[d] = cursor[d] /\ seen'[d] = seen[d]
    BY <2>1, <2>2 DEF TypeOK
  <2>4. Fresh(c) \subseteq page[c] /\ page[c] \subseteq seen'[c]
    BY <2>3 DEF Fresh
  <2>5. chatSeq \in Nat /\ cursor[c] \in 0..chatSeq /\ m \in 0..chatSeq
    BY <2>1, <2>4 DEF TypeOK, Rest, RangeInv, PageInv
  <2>6. LockInv' /\ StoreInv'
    BY <2>2 DEF Rest, LockInv, StoreInv
  <2>7. PhaseInv'
    BY <2>2 DEF TypeOK, Rest, PhaseInv
  <2>8. RangeInv'
    BY <2>2, <2>3, <2>4, <2>5 DEF Rest, RangeInv, PageInv
  <2>9. Visible' = Visible
    BY <2>2 DEF Visible
  <2>10. PageInv'
    BY <2>2, <2>3, <2>9 DEF Rest, PageInv
  <2>11. NoHoles'
    <3> SUFFICES ASSUME NEW d \in Clients, NEW n \in Visible,
                        NEW m1 \in loaded[d] \cup {base[d]}, m1 <= n,
                        NEW m2 \in (loaded[d] \cup seen'[d]) \cup {cursor'[d]}, n <= m2
                 PROVE  n \in loaded[d] \cup seen'[d]
      BY <2>2, <2>9 DEF NoHoles, Window
    <3>1. CASE d # c
      BY <2>3, <3>1 DEF Rest, NoHoles, Window
    <3>2. CASE d = c /\ m2 \in (loaded[c] \cup seen[c]) \cup {cursor[c]}
      BY <2>3, <3>2 DEF Rest, NoHoles, Window
    <3>3. CASE d = c /\ m2 \in Fresh(c)
      <4>1. n \in Nat
        BY DEF TypeOK, Visible
      <4>2. CASE n <= cursor[c]
        BY <2>3, <3>3, <4>2 DEF Rest, NoHoles, Window
      <4>3. CASE cursor[c] < n
        BY <2>4, <3>3, <4>3 DEF Rest, PageInv
      <4> QED
        BY <2>5, <4>1, <4>2, <4>3
    <3> QED
      BY <2>1, <2>3, <3>1, <3>2, <3>3
  <2> QED
    BY <2>6, <2>7, <2>8, <2>10, <2>11 DEF Rest
<1>4. cursor[c] \in Nat /\ cursor = [cursor EXCEPT ![c] = cursor[c]]
  BY DEF TypeOK
<1>5. CASE ReceiveNoContent(c)
  <2>1. cursor' = [cursor EXCEPT ![c] = cursor[c]] /\ cursor[c] <= cursor[c]
    BY <1>4, <1>5 DEF ReceiveNoContent
  <2> QED
    BY <1>4, <1>5, <2>1, RestNothingDelivered DEF ReceiveNoContent
<1>6. CASE StepBack(c)
  <2> DEFINE k == IF cursor[c] > 0 THEN cursor[c] - 1 ELSE 0
  <2>1. k \in Nat /\ k <= cursor[c]
    BY <1>4
  <2>2. cursor' = [cursor EXCEPT ![c] = k]
    BY <1>6 DEF StepBack
  <2> HIDE DEF k
  <2> QED
    BY <1>6, <2>1, <2>2, RestNothingDelivered DEF StepBack
<1>7. CASE RateLimited(c)
  <2>1. cursor' = [cursor EXCEPT ![c] = cursor[c]] /\ cursor[c] <= cursor[c]
    BY <1>4, <1>7 DEF RateLimited
  <2> QED
    BY <1>4, <1>7, <2>1, RestNothingDelivered DEF RateLimited
<1>8. CASE Stopped(c)
  <2>1. cursor' = [cursor EXCEPT ![c] = cursor[c]] /\ cursor[c] <= cursor[c]
    BY <1>4, <1>8 DEF Stopped
  <2> QED
    BY <1>4, <1>8, <2>1, RestNothingDelivered DEF Stopped
<1> QED
  BY <1>1, <1>2, <1>3, <1>5, <1>6, <1>7, <1>8
  DEF ClientStep, ReceiveServerError, NetworkError

\* Every step keeps the invariant.
LEMMA RestStep == TypeOK /\ Rest /\ [Next]_vars => Rest'
<1> SUFFICES ASSUME TypeOK, Rest, [Next]_vars PROVE Rest'
  OBVIOUS
<1> USE DEF store, redis, writer, handler, client
<1>1. CASE LastSeqExpires
  <2>1. LockInv' /\ PhaseInv'
    BY <1>1 DEF LastSeqExpires, Rest, LockInv, PhaseInv
  <2> QED
    BY <1>1, <2>1, RestFrame DEF LastSeqExpires
<1>2. CASE UNCHANGED vars
  <2>1. LockInv' /\ PhaseInv'
    BY <1>2 DEF vars, Rest, LockInv, PhaseInv
  <2> QED
    BY <1>2, <2>1, RestFrame DEF vars
<1> QED
  BY <1>1, <1>2, RestWriters, RestHandlers, RestClients DEF Next

-----------------------------------------------------------------------------
\* The types and the invariant hold in every reachable state.
LEMMA Invariance == Spec => [](TypeOK /\ Rest)
<1> QED
  BY TypeInit, TypeStep, RestInit, RestStep, PTL DEF Spec

\* Messages become readable in seq order, for any number of senders.
THEOREM CommitOrder == Spec => []StoredIsPrefix
<1>1. TypeOK /\ Rest => StoredIsPrefix
  BY DEF TypeOK, Rest, StoreInv, StoredIsPrefix
<1> QED
  BY <1>1, Invariance, PTL

\* No client ever skips a message, whatever the page size, the number of
\* senders and clients, and however often requests and stores fail.
THEOREM WindowComplete == Spec => []NoHoles
<1>1. Rest => NoHoles
  BY DEF Rest
<1> QED
  BY <1>1, Invariance, PTL
-----------------------------------------------------------------------------
(* The feed implements OrderedFeed.  What is delivered is new only because *)
(* of what the page was when it was read: PageNew carries that fact from   *)
(* the read to the delivery.                                               *)

\* A window that opened on an empty chat starts at seq 0.
BaseInv == \A c \in Clients : loaded[c] = {} => base[c] = 0

AfterLoad(c, m) == loaded[c] = {} \/ \E k \in loaded[c] : k <= m

\* What a page adds to the window from its load on is newer than the window.
PageNew ==
    \A c \in Clients : \A p \in page[c] \ Window(c) :
        AfterLoad(c, p) => \A m \in Window(c) : m < p

\* An empty chat has no page and no window.
LEMMA NewInit == Init => BaseInv /\ PageNew
BY DEF Init, BaseInv, PageNew, Window

\* A page that is read behind a complete window brings only newer messages.
LEMMA FetchedIsNew ==
    ASSUME TypeOK, Rest, BaseInv, PageNew, NEW c \in Clients,
           page' = [page EXCEPT ![c] = Page(cursor[c])],
           UNCHANGED <<loaded, base, seen>>
    PROVE  PageNew'
<1>1. Page(cursor[c]) \subseteq Visible /\ Visible \subseteq Nat
  BY DEF Page, Visible, TypeOK
<1>2. page'[c] = Page(cursor[c]) /\ \A d \in Clients : d # c => page'[d] = page[d]
  BY DEF TypeOK
<1>3. ASSUME NEW p \in Page(cursor[c]), p \notin Window(c), AfterLoad(c, p),
             NEW m \in Window(c)
      PROVE  m < p
  <2>1. p \in Visible /\ p \in Nat /\ m \in Nat
    BY <1>1, <1>3 DEF Window, TypeOK
  <2>2. \E k \in loaded[c] \cup {base[c]} : k <= p
    BY <1>3, <2>1 DEF AfterLoad, BaseInv
  <2>3. ~ (p <= m)
    BY <1>3, <2>1, <2>2 DEF Rest, NoHoles
  <2> QED
    BY <2>1, <2>3
<1> QED
  BY <1>2, <1>3 DEF PageNew, AfterLoad, Window

\* Every step keeps BaseInv and PageNew.
LEMMA NewStep ==
    TypeOK /\ Rest /\ BaseInv /\ PageNew /\ [Next]_vars => (BaseInv /\ PageNew)'
<1> SUFFICES ASSUME TypeOK, Rest, BaseInv, PageNew, [Next]_vars
             PROVE  (BaseInv /\ PageNew)'
  OBVIOUS
<1> USE DEF store, redis, writer, handler, client
<1>1. ASSUME UNCHANGED <<page, loaded, base, seen>> PROVE (BaseInv /\ PageNew)'
  BY <1>1 DEF BaseInv, PageNew, AfterLoad, Window
<1>2. ASSUME NEW w \in Writers,
             \/ SendBegin(w) \/ SendAbort(w) \/ WriterStep(w)
             \/ \E n \in stored : SoftDelete(w, n) \/ EditMessage(w, n)
             \/ RedisWriteFails(w) \/ WriterCrash(w)
      PROVE  (BaseInv /\ PageNew)'
  BY <1>1, <1>2 DEF SendBegin, SendAbort, WriterStep, SendCommit, SetLastSeq, LogChange,
                    Publish, SoftDelete, EditMessage, RedisWriteFails, WriterCrash
<1>3. ASSUME NEW c \in Clients, HandlerStep(c) \/ FastReadFails(c) \/ SlowFetchFails(c) \/ LogReadFails(c)
      PROVE  (BaseInv /\ PageNew)'
  <2>1. CASE FastFetch(c) \/ SlowFetch(c)
    <3>1. page' = [page EXCEPT ![c] = Page(cursor[c])] /\ UNCHANGED <<loaded, base, seen>>
      BY <2>1 DEF FastFetch, SlowFetch
    <3>2. BaseInv'
      BY <3>1 DEF BaseInv
    <3> QED
      BY <3>1, <3>2, FetchedIsNew
  <2>2. CASE \/ ReadLastSeq(c) \/ FastChanges(c) \/ Subscribe(c) \/ Wake(c) \/ Timeout(c)
             \/ SlowChanges(c) \/ FastReadFails(c) \/ SlowFetchFails(c) \/ LogReadFails(c)
    BY <1>1, <2>2 DEF ReadLastSeq, FastChanges, SlowChanges, ReadChanges, Subscribe, Wake,
                      Timeout, FastReadFails, SlowFetchFails,
                      LogReadFails, ChangesRead
  <2> QED
    BY <1>3, <2>1, <2>2 DEF HandlerStep
<1>4. ASSUME NEW c \in Clients, RequestEnds(c), UNCHANGED <<loaded, base>>,
             \A d \in Clients : d # c => seen'[d] = seen[d]
      PROVE  (BaseInv /\ PageNew)'
  <2>1. page'[c] = {} /\ \A d \in Clients : d # c => page'[d] = page[d]
    BY <1>4 DEF RequestEnds, TypeOK
  <2> QED
    BY <1>4, <2>1 DEF BaseInv, PageNew, AfterLoad, Window
<1>5. ASSUME NEW c \in Clients,
             ClientStep(c) \/ NetworkError(c) \/ RateLimited(c) \/ Stopped(c)
      PROVE  (BaseInv /\ PageNew)'
  <2>1. CASE LoadWindow(c)
    <3>1. PICK b \in Latest \cup {0} :
             IsMax(b, Latest \cup {0}) /\ base' = [base EXCEPT ![c] = b]
      BY <2>1 DEF LoadWindow
    <3>2. /\ cpc[c] = "opening" /\ loaded' = [loaded EXCEPT ![c] = Latest]
          /\ UNCHANGED <<page, seen>>
      BY <2>1 DEF LoadWindow
    <3>3. page[c] = {}
      BY <3>2 DEF Rest, PhaseInv
    <3>4. /\ loaded'[c] = Latest /\ base'[c] = b
          /\ \A d \in Clients : d # c => loaded'[d] = loaded[d] /\ base'[d] = base[d]
      BY <3>1, <3>2 DEF TypeOK
    <3>5. BaseInv'
      BY <3>1, <3>4 DEF BaseInv
    <3>6. PageNew'
      BY <3>2, <3>3, <3>4 DEF PageNew, AfterLoad, Window
    <3> QED
      BY <3>5, <3>6
  <2>2. CASE PollStart(c)
    BY <1>1, <2>2 DEF PollStart
  <2>3. CASE Receive(c)
    <3>1. \A d \in Clients : d # c => seen'[d] = seen[d]
      BY <2>3 DEF Receive, TypeOK
    <3> QED
      BY <1>4, <2>3, <3>1 DEF Receive
  <2>4. CASE ReceiveNoContent(c) \/ StepBack(c) \/ RateLimited(c) \/ Stopped(c)
    BY <1>4, <2>4 DEF ReceiveNoContent, StepBack, RateLimited, Stopped
  <2> QED
    BY <1>5, <2>1, <2>2, <2>3, <2>4 DEF ClientStep, ReceiveServerError, NetworkError
<1>6. CASE LastSeqExpires
  BY <1>1, <1>6 DEF LastSeqExpires
<1>7. CASE UNCHANGED vars
  BY <1>1, <1>7 DEF vars
<1> QED
  BY <1>2, <1>3, <1>5, <1>6, <1>7 DEF Next

\* A window opens on the newest readable messages.
LEMMA LoadOpens ==
    ASSUME TypeOK, Rest, NEW c \in Clients, LoadWindow(c)
    PROVE  Abstract!Open(c)
<1> USE DEF store, redis, writer, handler
<1>1. /\ cpc[c] = "opening" /\ cpc' = [cpc EXCEPT ![c] = "ready"]
      /\ loaded' = [loaded EXCEPT ![c] = Latest]
      /\ UNCHANGED <<chatSeq, stored, deleted, seen>>
  BY DEF LoadWindow
<1>2. seen[c] = {} /\ chatSeq \in Nat /\ StoreInv
  BY <1>1 DEF TypeOK, Rest, PhaseInv
<1>3. \A p \in Latest : p \in 1..chatSeq /\ \A n \in Visible : p <= n => n \in Latest
  BY <1>2, LatestIsSuffix
<1>4. Abstract!Readable = Visible
  BY <1>2 DEF Abstract!Readable, Visible, StoreInv
<1>5. Latest \in SUBSET Abstract!Readable
  BY <1>4 DEF Latest
<1>6. FromLoad(c)' = Latest
  BY <1>1, <1>2, <1>3 DEF FromLoad, Window, TypeOK
<1>7. \A d \in Clients : d # c => FromLoad(d)' = FromLoad(d)
  BY <1>1 DEF FromLoad, Window, TypeOK
<1>8. [d \in Clients |-> FromLoad(d)'] = [[d \in Clients |-> FromLoad(d)] EXCEPT ![c] = Latest]
  BY <1>6, <1>7
<1>9. {d \in Clients : cpc'[d] # "opening"} = {d \in Clients : cpc[d] # "opening"} \cup {c}
  BY <1>1 DEF TypeOK
<1> QED
  BY <1>1, <1>3, <1>4, <1>5, <1>8, <1>9 DEF Abstract!Open

\* A poll's answer extends the window at its end and skips nothing.
LEMMA ReceiveDelivers ==
    ASSUME TypeOK, Rest, BaseInv, PageNew, NEW c \in Clients, Receive(c)
    PROVE  Abstract!Deliver(c)
<1> USE DEF store, redis, writer
<1> DEFINE S == {p \in page[c] \ Window(c) : AfterLoad(c, p)}
<1>1. /\ cpc[c] = "polling" /\ cpc' = [cpc EXCEPT ![c] = "ready"]
      /\ seen' = [seen EXCEPT ![c] = @ \cup Fresh(c)]
      /\ UNCHANGED <<chatSeq, stored, deleted, loaded, base>>
  BY DEF Receive, RequestEnds
<1>2. chatSeq \in Nat /\ cursor[c] \in Nat /\ base[c] \in Nat /\ Window(c) \subseteq Nat
  BY DEF TypeOK, Window
<1>3. Abstract!Readable = Visible /\ Visible \subseteq 1..chatSeq
  BY DEF Abstract!Readable, Visible, Rest, StoreInv
<1>4. S \in SUBSET (1..chatSeq)
  BY DEF Rest, PageInv
<1>5. \A n \in S, m \in FromLoad(c) : m < n
  BY DEF PageNew, FromLoad
<1>6. ASSUME NEW n \in S, NEW r \in Visible, r <= n, \A m \in FromLoad(c) : m < r
      PROVE  r \in S
  <2>1. r \in Nat /\ r \notin FromLoad(c)
    BY <1>2, <1>3, <1>6
  <2>2. loaded[c] \subseteq FromLoad(c)
    BY <1>2 DEF FromLoad, Window
  <2>3. AfterLoad(c, r)
    BY <1>2, <1>6, <2>1, <2>2 DEF AfterLoad, Window
  <2>4. r \notin Window(c)
    BY <2>1, <2>3 DEF FromLoad, AfterLoad
  <2>5. \E k \in loaded[c] \cup {base[c]} : k <= r
    BY <1>2, <2>1, <2>3 DEF AfterLoad, BaseInv
  <2>6. cursor[c] < r
    <3> SUFFICES ASSUME r <= cursor[c] PROVE FALSE
      BY <1>2, <2>1
    <3> QED
      BY <2>4, <2>5 DEF Rest, NoHoles
  <2>7. r \in page[c]
    BY <1>6, <2>6 DEF Rest, PageInv
  <2> QED
    BY <2>3, <2>4, <2>7
<1>7. FromLoad(c)' = FromLoad(c) \cup S
  BY <1>1 DEF FromLoad, Window, Fresh, AfterLoad, TypeOK
<1>8. \A d \in Clients : d # c => FromLoad(d)' = FromLoad(d)
  BY <1>1 DEF FromLoad, Window, TypeOK
<1>9. [d \in Clients |-> FromLoad(d)'] = [[d \in Clients |-> FromLoad(d)] EXCEPT ![c] = @ \cup S]
  BY <1>7, <1>8
<1>10. /\ c \in {d \in Clients : cpc[d] # "opening"}
       /\ {d \in Clients : cpc'[d] # "opening"} = {d \in Clients : cpc[d] # "opening"}
  BY <1>1 DEF TypeOK
<1>11. Abstract!Extends(FromLoad(c), S)
  BY <1>3, <1>5, <1>6 DEF Abstract!Extends
<1> HIDE DEF S
<1> QED
  BY <1>1, <1>4, <1>9, <1>10, <1>11 DEF Abstract!Deliver

\* Steps that open no window, post nothing, hide nothing and deliver nothing.
LEMMA FeedStutters ==
    ASSUME UNCHANGED <<chatSeq, deleted, loaded, seen>>,
           \A d \in Clients : cpc'[d] = "opening" <=> cpc[d] = "opening"
    PROVE  UNCHANGED Abstract!vars
<1>1. \A d \in Clients : FromLoad(d)' = FromLoad(d)
  BY DEF FromLoad, Window
<1> QED
  BY <1>1 DEF Abstract!vars

\* Every step of the feed is a step of OrderedFeed or none.
LEMMA FeedStep ==
    TypeOK /\ Rest /\ BaseInv /\ PageNew /\ [Next]_vars => [Abstract!Next]_(Abstract!vars)
<1> SUFFICES ASSUME TypeOK, Rest, BaseInv, PageNew, [Next]_vars
             PROVE  Abstract!Next \/ UNCHANGED Abstract!vars
  OBVIOUS
<1> USE DEF store, redis, writer, handler, client
<1>1. ASSUME NEW w \in Writers, SendCommit(w) PROVE Abstract!Next
  <2>1. chatSeq' = chatSeq + 1 /\ UNCHANGED <<deleted, cpc, loaded, seen>>
    BY <1>1 DEF SendCommit, WriterAt, Rest, LockInv
  <2>2. \A d \in Clients : FromLoad(d)' = FromLoad(d)
    BY <2>1 DEF FromLoad, Window
  <2>3. Abstract!Post
    BY <2>1, <2>2 DEF Abstract!Post
  <2> QED
    BY <2>3 DEF Abstract!Next
<1>2. ASSUME NEW w \in Writers, NEW n \in stored, SoftDelete(w, n) PROVE Abstract!Next
  <2>1. deleted' = deleted \cup {n} /\ UNCHANGED <<chatSeq, cpc, loaded, seen>>
    BY <1>2 DEF SoftDelete
  <2>2. n \in 1..chatSeq
    BY DEF Rest, StoreInv
  <2>3. \A d \in Clients : FromLoad(d)' = FromLoad(d)
    BY <2>1 DEF FromLoad, Window
  <2>4. Abstract!Hide
    BY <2>1, <2>2, <2>3 DEF Abstract!Hide
  <2> QED
    BY <2>4 DEF Abstract!Next
<1>3. ASSUME UNCHANGED <<chatSeq, deleted, loaded, seen, cpc>> PROVE UNCHANGED Abstract!vars
  BY <1>3, FeedStutters
<1>4. ASSUME NEW w \in Writers,
             \/ SendBegin(w) \/ SendAbort(w) \/ SetLastSeq(w) \/ LogChange(w) \/ Publish(w)
             \/ \E n \in stored : EditMessage(w, n)
             \/ RedisWriteFails(w) \/ WriterCrash(w)
      PROVE  UNCHANGED Abstract!vars
  BY <1>3, <1>4 DEF SendBegin, SendAbort, SetLastSeq, LogChange, Publish, EditMessage,
                    RedisWriteFails, WriterCrash
<1>5. ASSUME NEW c \in Clients, HandlerStep(c) \/ FastReadFails(c) \/ SlowFetchFails(c) \/ LogReadFails(c)
      PROVE  UNCHANGED Abstract!vars
  BY <1>3, <1>5 DEF HandlerStep, ReadLastSeq, FastFetch, FastChanges, SlowChanges, ReadChanges,
                    Subscribe, Wake, Timeout, SlowFetch, FastReadFails, SlowFetchFails,
                    LogReadFails, ChangesRead
<1>6. ASSUME NEW c \in Clients, UNCHANGED <<chatSeq, deleted, loaded, seen>>, cpc[c] # "opening",
             \E s \in {"ready", "polling", "stopped"} : cpc' = [cpc EXCEPT ![c] = s]
      PROVE  UNCHANGED Abstract!vars
  <2>1. \A d \in Clients : cpc'[d] = "opening" <=> cpc[d] = "opening"
    BY <1>6 DEF TypeOK
  <2> QED
    BY <1>6, <2>1, FeedStutters
<1>7. ASSUME NEW c \in Clients,
             \/ PollStart(c) \/ ReceiveNoContent(c) \/ StepBack(c)
             \/ RateLimited(c) \/ Stopped(c)
      PROVE  UNCHANGED Abstract!vars
  BY <1>6, <1>7 DEF PollStart, ReceiveNoContent, StepBack, RateLimited, Stopped, RequestEnds
<1>8. ASSUME NEW c \in Clients,
             ClientStep(c) \/ NetworkError(c) \/ RateLimited(c) \/ Stopped(c)
      PROVE  Abstract!Next \/ UNCHANGED Abstract!vars
  BY <1>7, <1>8, LoadOpens, ReceiveDelivers
  DEF ClientStep, ReceiveServerError, NetworkError, Abstract!Next
<1>9. CASE LastSeqExpires
  BY <1>3, <1>9 DEF LastSeqExpires
<1>10. CASE UNCHANGED vars
  BY <1>3, <1>10 DEF vars
<1> QED
  BY <1>1, <1>2, <1>4, <1>5, <1>8, <1>9, <1>10 DEF Next, WriterStep

\* The feed implements OrderedFeed: from its initial load on, a window only
\* grows at its end, whatever fails and however the actors interleave.
THEOREM FeedImplementsOrdered == Spec => RefinesOrderedFeed
<1>1. Init => Abstract!Init
  BY DEF Init, Abstract!Init, FromLoad, Window
<1>2. Spec => [](BaseInv /\ PageNew)
  BY NewInit, NewStep, Invariance, PTL DEF Spec
<1> QED
  BY <1>1, <1>2, FeedStep, Invariance, PTL DEF Spec, RefinesOrderedFeed, Abstract!Spec
=============================================================================
