---------------------------- MODULE WindowProofs ----------------------------
(***************************************************************************)
(* What SendWindow and Paging promise of a list of messages, for any       *)
(* number of messages, sends, deletions and failures and any page sizes.   *)
(***************************************************************************)
EXTENDS SendWindow, Paging, FiniteSetTheorems, WellFoundedInduction, TLAPS

-----------------------------------------------------------------------------
(* SendWindow: pale entries and entries shown twice.  What makes the two   *)
(* properties inductive is where an entry can come from: a poll, which     *)
(* leaves it in seenIds, or the answer to a POST of this window.           *)

SendTypes ==
    /\ posted \in 0..MaxSeq
    /\ step \in [Requests -> {"new", "insert", "setSeq", "update", "incr", "log", "done",
                              "answered", "refused"}]
    /\ about \in [Requests -> Nat]
    /\ send \in [Sends -> {"new", "pending", "ok", "failed"}]
    /\ entries \in [Ids -> Nat]
    /\ page \subseteq Msgs /\ gone \subseteq Msgs /\ seen \subseteq Msgs

\* Each send under way has one pale entry, and no other send has one.
PaleOnce == \A k \in Sends : entries[k] = IF send[k] = "pending" THEN 1 ELSE 0

\* The seq of a stored message is its own.
OwnSeqs ==
    /\ \A k \in Sends : step[k] \in {"new", "insert", "setSeq", "done", "refused"}
    /\ \A k \in Sends : step[k] \in {"setSeq", "done"} => about[k] \in Msgs
    /\ \A k \in Sends : send[k] = "ok" => step[k] = "done"
    /\ \A k \in Sends : about[k] <= posted
    /\ \A j, k \in Sends : about[j] = about[k] /\ about[j] # 0 => j = k

\* A poll brought what is shown, or it is the answer to a POST.
Explained ==
    \A n \in Msgs : entries[n] > 0 =>
        n \in seen \/ \E k \in Sends : send[k] = "ok" /\ about[k] = n

SendInv == SendTypes /\ PaleOnce /\ OwnSeqs /\ Explained /\ OnceUnlessOvertaken

\* The names of requests are no seqs.
LEMMA IdsApart ==
    /\ Sends \cap Msgs = {} /\ Sends \cap Nat = {} /\ Msgs \subseteq Nat
    /\ Sends \subseteq Ids /\ Msgs \subseteq Ids /\ Ids = Sends \cup Msgs
    /\ Sends \subseteq Requests /\ Sends \cap (Deletes \cup Others) = {}
  BY SendWindowAssumption, TableAssumption DEF Ids, Msgs, Requests

\* Nothing is sent and nothing shown at the beginning.
LEMMA SendInvInit == Init => SendInv
  BY IdsApart, TableAssumption
  DEF Init, SendInv, SendTypes, PaleOnce, OwnSeqs, Explained, OnceUnlessOvertaken

\* Steps that leave the list and the sends alone.
LEMMA SendInvKept ==
    ASSUME SendInv, UNCHANGED <<posted, step, about, send, entries, seen, overtaken>>,
           page' \subseteq Msgs, gone' \subseteq Msgs
    PROVE  SendInv'
  BY DEF SendInv, SendTypes, PaleOnce, OwnSeqs, Explained, OnceUnlessOvertaken

\* The statements behind the insert, and all of a deletion, leave the seqs
\* of sends alone.
LEMMA SendInvService ==
    ASSUME SendInv, NEW r \in Requests,
           \/ SetLastSeq(r) \/ SoftDelete(r) \/ IncrDelete(r) \/ LogDelete(r) \/ RedisFails(r)
           \/ \E n \in Msgs : r \in Others /\ OtherDeletes(r, n)
           \/ \E n \in Msgs : r \in Deletes /\ HandleDelete(r, n)
    PROVE  SendInv'
  <1> USE IdsApart DEF SendInv, SendTypes, redis, window, request, cursors, races
  <1>1. /\ UNCHANGED <<posted, send, entries, page, gone, seen, overtaken>>
        /\ step' \in [Requests -> {"new", "insert", "setSeq", "update", "incr", "log", "done",
                                   "answered", "refused"}]
    BY DEF SetLastSeq, SoftDelete, IncrDelete, LogDelete, RedisFails, OtherDeletes, HandleDelete,
           StepAt
  <1>2. /\ \A k \in Sends \ {r} : step'[k] = step[k]
        /\ r \in Sends => step[r] = "setSeq" /\ step'[r] = "done"
    BY DEF SetLastSeq, SoftDelete, IncrDelete, LogDelete, RedisFails, OtherDeletes, HandleDelete,
           StepAt, OwnSeqs
  <1>3. about' \in [Requests -> Nat] /\ \A k \in Sends : about'[k] = about[k]
    <2>1. CASE UNCHANGED about
      BY <2>1
    <2>2. ASSUME NEW n \in Nat, about' = [about EXCEPT ![r] = n], r \in Sends => n = about[r]
          PROVE  about' \in [Requests -> Nat] /\ \A k \in Sends : about'[k] = about[k]
      BY <2>2
    <2>3. CASE SoftDelete(r)
      BY <2>2, <2>3 DEF SoftDelete, MarkRow
    <2> QED
      BY <2>1, <2>2, <2>3
      DEF SetLastSeq, IncrDelete, LogDelete, RedisFails, OtherDeletes, HandleDelete, MarkRow
  <1>4. PaleOnce' /\ Explained' /\ OnceUnlessOvertaken'
    BY <1>1, <1>3 DEF PaleOnce, Explained, OnceUnlessOvertaken
  <1>5. OwnSeqs'
    BY <1>1, <1>2, <1>3 DEF OwnSeqs
  <1> QED
    BY <1>1, <1>3, <1>4, <1>5

\* handleSend: the pale entry comes with the POST and goes with its end.
LEMMA SendInvPale ==
    ASSUME SendInv, NEW k \in Sends,
           HandleSend(k) \/ SendRefused(k) \/ SendBanned(k) \/ SendLost(k)
    PROVE  SendInv'
  <1> USE IdsApart DEF SendInv, SendTypes, redis, service, request, cursors, races
  <1>1. /\ UNCHANGED <<posted, about, seen, overtaken>>
        /\ page' \subseteq Msgs /\ gone' \subseteq Msgs
    BY DEF HandleSend, SendRefused, SendBanned, SendLost, Refused, RequestOver
  <1>2. /\ send' \in [Sends -> {"new", "pending", "ok", "failed"}]
        /\ \A j \in Sends \ {k} : send'[j] = send[j]
        /\ send[k] # "ok" /\ send'[k] \in {"pending", "failed"}
        /\ send'[k] = "pending" => send[k] = "new"
        /\ entries' = [entries EXCEPT ![k] = IF send'[k] = "pending" THEN entries[k] + 1 ELSE 0]
    BY DEF HandleSend, SendRefused, SendBanned, SendLost, Refused, SendAt, Withdraw
  <1>3. /\ step' \in [Requests -> {"new", "insert", "setSeq", "update", "incr", "log", "done",
                                   "answered", "refused"}]
        /\ \A j \in Sends : step'[j] = step[j] \/ (j = k /\ step'[j] \in {"insert", "refused"})
    BY DEF HandleSend, SendRefused, SendBanned, SendLost, Refused, StepAt
  <1>4. OwnSeqs'
    BY <1>1, <1>2, <1>3 DEF OwnSeqs
  <1>5. /\ \A j \in Ids \ {k} : entries'[j] = entries[j]
        /\ entries'[k] = IF send'[k] = "pending" THEN 1 ELSE 0
        /\ entries' \in [Ids -> Nat]
    <2>1. send'[k] = "pending" => entries[k] = 0
      BY <1>2 DEF PaleOnce
    <2> QED
      BY <1>2, <2>1
  <1>6. PaleOnce' /\ Explained' /\ OnceUnlessOvertaken'
    BY <1>1, <1>2, <1>5 DEF PaleOnce, Explained, OnceUnlessOvertaken
  <1> QED
    BY <1>1, <1>2, <1>3, <1>4, <1>5, <1>6

\* A row is inserted, for this window or for another.
LEMMA SendInvStored ==
    ASSUME SendInv, NEW r \in Requests, Store(r)
    PROVE  SendInv'
  <1> USE IdsApart, TableAssumption DEF SendInv, SendTypes, redis, window, request, cursors, races
  <1>1. /\ posted' = posted + 1 /\ posted' \in 0..MaxSeq /\ posted' \in Msgs
        /\ UNCHANGED <<send, entries, page, gone, seen, overtaken>>
    BY DEF Store, Insert, Msgs
  <1>2. /\ step' = [step EXCEPT ![r] = "setSeq"] /\ about' = [about EXCEPT ![r] = posted + 1]
        /\ r \in Sends => step[r] = "insert"
    BY DEF Store, StepAt
  <1>3. \A j \in Sends : j # r => about'[j] = about[j] /\ about[j] < posted + 1
    BY <1>2 DEF OwnSeqs
  <1>4. r \in Sends => about'[r] = posted + 1
    BY <1>2
  <1>5. OwnSeqs'
    <2>1. \A j \in Sends : about'[j] <= posted'
      BY <1>1, <1>3, <1>4
    <2>2. \A i, j \in Sends : about'[i] = about'[j] /\ about'[i] # 0 => i = j
      BY <1>3, <1>4 DEF OwnSeqs
    <2>3. \A j \in Sends : step'[j] \in {"setSeq", "done"} => about'[j] \in Msgs
      BY <1>1, <1>2, <1>3, <1>4 DEF OwnSeqs
    <2>4. \A j \in Sends : step'[j] \in {"new", "insert", "setSeq", "done", "refused"}
      BY <1>2 DEF OwnSeqs
    <2>5. \A j \in Sends : send'[j] = "ok" => step'[j] = "done"
      BY <1>1, <1>2 DEF OwnSeqs
    <2> QED
      BY <2>1, <2>2, <2>3, <2>4, <2>5 DEF OwnSeqs
  <1>6. \A j \in Sends : send[j] = "ok" => about'[j] = about[j]
    BY <1>2, <1>3 DEF OwnSeqs
  <1>7. PaleOnce' /\ Explained' /\ OnceUnlessOvertaken'
    BY <1>1, <1>6 DEF PaleOnce, Explained, OnceUnlessOvertaken
  <1>8. /\ about' \in [Requests -> Nat]
        /\ step' \in [Requests -> {"new", "insert", "setSeq", "update", "incr", "log", "done",
                                   "answered", "refused"}]
    BY <1>1, <1>2
  <1> QED
    BY <1>1, <1>5, <1>7, <1>8

\* The answer renames the pale entry.  A second one of that id can be there
\* only if a poll has brought it: this send has not been answered before,
\* and no other has its seq.
LEMMA SendInvAnswered ==
    ASSUME SendInv, NEW k \in Sends, SendAnswered(k)
    PROVE  SendInv'
  <1> USE IdsApart DEF SendInv, SendTypes, redis, service, request, cursors
  <1> DEFINE n == about[k]
  <1>1. /\ send[k] = "pending" /\ send' = [send EXCEPT ![k] = "ok"]
        /\ step[k] = "done"
        /\ entries' = [entries EXCEPT ![k] = 0, ![n] = @ + entries[k]]
        /\ UNCHANGED <<posted, step, about, page, gone, seen>>
        /\ overtaken' = IF n \in seen THEN overtaken \cup {n} ELSE overtaken
    BY DEF SendAnswered, Renamed, SendAt
  <1>2. n \in Msgs /\ n \in Ids /\ n # k /\ entries[k] = 1 /\ n # 0
    <2>1. n \in Msgs /\ entries[k] = 1
      BY <1>1 DEF OwnSeqs, PaleOnce
    <2> QED
      BY <2>1 DEF Msgs
  <1>3. /\ entries'[k] = 0 /\ entries'[n] = entries[n] + 1
        /\ \A e \in Ids \ {k, n} : entries'[e] = entries[e]
    BY <1>1, <1>2
  <1>4. SendTypes'
    BY <1>1, <1>2
  <1>5. PaleOnce' /\ OwnSeqs'
    BY <1>1, <1>2, <1>3 DEF PaleOnce, OwnSeqs
  <1>6. Explained'
    BY <1>1, <1>2, <1>3 DEF Explained
  <1>7. entries[n] > 0 => n \in seen
    <2>1. \A j \in Sends : about[j] = n => j = k
      BY <1>2 DEF OwnSeqs
    <2> QED
      BY <1>1, <1>2, <2>1 DEF Explained
  <1>8. OnceUnlessOvertaken'
    <2>1. entries'[n] > 1 => n \in overtaken'
      <3>1. entries[n] \in Nat
        BY <1>2
      <3>2. entries'[n] > 1 => entries[n] > 0
        BY <1>3, <3>1
      <3> QED
        BY <1>1, <1>7, <3>2
    <2> QED
      BY <1>1, <1>3, <2>1 DEF OnceUnlessOvertaken
  <1> QED
    BY <1>4, <1>5, <1>6, <1>8

\* A DELETE is answered.
LEMMA SendInvDeleted ==
    ASSUME SendInv, NEW d \in Deletes, DeleteAnswered(d)
    PROVE  SendInv'
  <1> USE IdsApart DEF SendInv, SendTypes, redis, request, cursors, races
  <1>1. d \in Requests /\ d \notin Sends
    BY DEF Requests
  <1>2. /\ step' = [step EXCEPT ![d] = "answered"]
        /\ entries' = [entries EXCEPT ![about[d]] = 0]
        /\ UNCHANGED <<posted, about, send, page, gone, seen, overtaken>>
    BY DEF DeleteAnswered, StepAt
  <1>3. OwnSeqs'
    BY <1>1, <1>2 DEF OwnSeqs
  <1>4. /\ entries' \in [Ids -> Nat]
        /\ \A k \in Sends : entries'[k] = entries[k]
        /\ \A e \in Ids : entries'[e] = entries[e] \/ entries'[e] = 0
    BY <1>1, <1>2
  <1>5. PaleOnce' /\ Explained' /\ OnceUnlessOvertaken'
    BY <1>2, <1>4 DEF PaleOnce, Explained, OnceUnlessOvertaken
  <1> QED
    BY <1>1, <1>2, <1>3, <1>4, <1>5

\* A poll is merged.
LEMMA SendInvMerged == ASSUME SendInv, Receive PROVE SendInv'
  <1> USE IdsApart DEF SendInv, SendTypes, redis, service
  <1> DEFINE fresh == page \ seen
  <1>1. /\ entries' = Merged(fresh) /\ seen' = seen \cup fresh
        /\ page' = {} /\ gone' = {}
        /\ UNCHANGED <<posted, step, about, send, overtaken>>
    BY DEF Receive, RequestOver
  <1>2. fresh \subseteq Msgs /\ Kept \in [Ids -> Nat]
    BY DEF Kept
  <1>3. \A e \in Ids : entries'[e] = IF e \in fresh /\ Kept[e] = 0 THEN 1 ELSE Kept[e]
    BY <1>1 DEF Merged
  <1>4. \A e \in Ids : Kept[e] = entries[e] \/ (e \in gone /\ Kept[e] = 0)
    BY DEF Kept
  <1> HIDE DEF fresh
  <1>5. \A k \in Sends : entries'[k] = entries[k]
    BY <1>2, <1>3, <1>4
  <1>6. SendTypes'
    BY <1>1, <1>2 DEF Merged
  <1>7. PaleOnce' /\ OwnSeqs'
    BY <1>1, <1>5 DEF PaleOnce, OwnSeqs
  <1>8. Explained'
    BY <1>1, <1>3, <1>4 DEF Explained
  <1>9. OnceUnlessOvertaken'
    BY <1>1, <1>3, <1>4 DEF OnceUnlessOvertaken
  <1> QED
    BY <1>6, <1>7, <1>8, <1>9

\* What a poll does before its answer is merged, or when it has none.
LEMMA SendInvPolled ==
    ASSUME SendInv, \/ ReadLastSeq \/ FastFetch \/ SlowFetch \/ FastReadFails \/ ReadDeletes
                    \/ DeletesReadFails \/ Timeout \/ PollFails \/ PollLimited \/ PollStopped
    PROVE  SendInv'
  <1> USE DEF SendInv, SendTypes, redis, service, window, request, cursors, races
  <1>1. UNCHANGED <<posted, step, about, send, entries, seen, overtaken>>
    BY DEF ReadLastSeq, FastFetch, SlowFetch, Fetch, FastReadFails, ReadDeletes,
           DeletesReadFails, Timeout, PollFails, PollLimited, PollStopped
  <1>2. Newer \subseteq Msgs
    BY TableAssumption DEF Newer, Visible, Msgs
  <1>3. page' \subseteq Msgs /\ gone' \subseteq Msgs
    BY <1>2
    DEF ReadLastSeq, FastFetch, SlowFetch, Fetch, FastReadFails, ReadDeletes,
        DeletesReadFails, Timeout, PollFails, PollLimited, PollStopped, RequestOver
  <1> QED
    BY <1>1, <1>3, SendInvKept

\* Every step of users, service and poll.
LEMMA SendInvStep == SendInv /\ [Next]_vars => SendInv'
  <1> SUFFICES ASSUME SendInv, [Next]_vars PROVE SendInv'
    OBVIOUS
  <1>1. CASE UNCHANGED vars
    BY <1>1, SendInvKept
    DEF vars, service, window, request, cursors, races, SendInv, SendTypes
  <1>2. CASE \/ PollStep \/ FastReadFails \/ DeletesReadFails
             \/ PollFails \/ PollLimited \/ PollStopped
    BY <1>2, SendInvPolled, SendInvMerged DEF PollStep
  <1>3. ASSUME NEW r \in Requests, \/ Store(r) \/ SetLastSeq(r) \/ SoftDelete(r)
                                   \/ IncrDelete(r) \/ LogDelete(r) \/ RedisFails(r)
        PROVE  SendInv'
    BY <1>3, SendInvStored, SendInvService
  <1>4. ASSUME NEW n \in Msgs, \/ \E d \in Deletes : HandleDelete(d, n)
                               \/ \E r \in Others : OtherDeletes(r, n)
        PROVE  SendInv'
    <2>1. Deletes \subseteq Requests /\ Others \subseteq Requests
      BY DEF Requests
    <2> QED
      BY <1>4, <2>1, SendInvService
  <1> QED
    BY <1>1, <1>2, <1>3, <1>4, SendInvPale, SendInvAnswered, SendInvDeleted DEF Next

\* The invariant of the chat window.
LEMMA SendInvariance == Spec => []SendInv
  BY SendInvInit, SendInvStep, PTL DEF Spec

\* PaleWhilePending: a pale entry is there exactly while its POST is.
THEOREM PaleEntriesPend == Spec => []PaleWhilePending
  <1>1. SendInv => PaleWhilePending
    BY IdsApart DEF SendInv, PaleOnce, PaleWhilePending, Shown
  <1> QED
    BY <1>1, SendInvariance, PTL

\* OnceUnlessOvertaken: only a poll that overtakes the answer to the user's
\* own POST makes a message appear twice.
THEOREM EntriesOnce == Spec => []OnceUnlessOvertaken
  <1>1. SendInv => OnceUnlessOvertaken
    BY DEF SendInv
  <1> QED
    BY <1>1, SendInvariance, PTL

-----------------------------------------------------------------------------
(* Numbers.                                                                *)

\* A set of naturals has a least element.
LEMMA LeastOf ==
    ASSUME NEW S \in SUBSET Nat, S # {}
    PROVE  Least(S) \in S /\ \A n \in S : Least(S) <= n
  <1>1. PICK m \in S : \A n \in S : ~(<<n, m>> \in OpToRel(<, Nat))
    BY NatLessThanWellFounded, WFMin
  <1>2. \A n \in S : m <= n
    <2>1. \A n \in S : n \in Nat /\ m \in Nat /\ ~(n < m)
      BY <1>1 DEF OpToRel
    <2> QED
      BY <2>1
  <1> QED
    BY <1>2 DEF Least

\* One that a bound limits has a greatest.
LEMMA MaxOf ==
    ASSUME NEW S \in SUBSET Nat, S # {}, NEW b \in Nat, \A n \in S : n <= b
    PROVE  Max(S) \in S /\ \A n \in S : n <= Max(S)
  <1> DEFINE T == {b - n : n \in S}
  <1>1. T \in SUBSET Nat /\ T # {}
    <2>1. \A n \in S : n \in Nat /\ n <= b
      OBVIOUS
    <2>2. \A n \in S : b - n \in Nat
      BY <2>1
    <2> QED
      BY <2>2
  <1> HIDE DEF T
  <1>2. Least(T) \in T /\ \A t \in T : Least(T) <= t
    BY <1>1, LeastOf
  <1>3. PICK m \in S : Least(T) = b - m
    BY <1>2 DEF T
  <1>4. \A n \in S : m >= n
    <2>1. \A n \in S : n \in Nat /\ m \in Nat /\ b - m <= b - n
      BY <1>2, <1>3 DEF T
    <2> QED
      BY <2>1
  <1>5. Max(S) \in S /\ \A n \in S : Max(S) >= n
    BY <1>4 DEF Max
  <1>6. \A n \in S : n \in Nat /\ Max(S) \in Nat /\ Max(S) >= n
    BY <1>5
  <1> QED
    BY <1>5, <1>6

\* Sets of messages are finite, and no larger than the sets they are part of.
LEMMA CountIn ==
    ASSUME NEW S \in SUBSET Msgs, NEW T \in SUBSET S
    PROVE  /\ IsFiniteSet(T) /\ Cardinality(T) \in Nat
           /\ Cardinality(S) \in Nat /\ Cardinality(T) <= Cardinality(S)
  <1>1. IsFiniteSet(Msgs)
    BY FS_Interval, TableAssumption DEF Msgs
  <1>2. IsFiniteSet(S)
    BY <1>1, FS_Subset
  <1> QED
    BY <1>2, FS_Subset, FS_CardinalityType

-----------------------------------------------------------------------------
(* Paging backwards.  The invariant says what an answer under way will     *)
(* fill: everything from its first message to the newest one loaded.       *)

HistoryTypes ==
    /\ posted \in 0..MaxSeq /\ deleted \subseteq Msgs
    /\ opened \in BOOLEAN /\ win \subseteq Msgs /\ top \in 0..posted
    /\ answer \in [rows : SUBSET Msgs, more : BOOLEAN, busy : BOOLEAN]
    /\ answer.rows \subseteq 1..posted

\* The first page has no hole.
FirstPage ==
    ~opened /\ answer.busy =>
        \A n \in Visible : \A r, s \in answer.rows : r <= n /\ n <= s => n \in answer.rows

\* Neither has the window, with an older page under way or without.
Filled ==
    /\ \A n \in Visible : \A w \in win : w <= n /\ n <= top => n \in win
    /\ opened /\ answer.busy =>
          \A n \in Visible : \A r \in answer.rows :
              r <= n /\ n <= top => n \in win \cup answer.rows

HistoryInv == HistoryTypes /\ FirstPage /\ Filled

\* What is visible is stored, and has a seq.
LEMMA VisibleStored == posted \in 0..MaxSeq => Visible \subseteq 1..posted /\ Visible \subseteq Msgs /\ Msgs \subseteq Nat
  BY TableAssumption DEF Visible, Msgs

\* The newest rows of a set leave out none that is newer than one of them.
LEMMA NewestWhole ==
    ASSUME NEW S \in SUBSET Msgs, NEW k \in Nat, NEW r \in Newest(S, k), NEW n \in S, r <= n
    PROVE  n \in Newest(S, k)
  <1> DEFINE After(x) == {m \in S : m > x}
  <1>1. r \in Nat /\ n \in Nat /\ S \subseteq Nat
    BY IdsApart DEF Newest
  <1>2. After(n) \subseteq After(r)
    <2> SUFFICES ASSUME NEW m \in S, m > n PROVE m > r
      OBVIOUS
    <2>1. m \in Nat
      BY <1>1
    <2> QED
      BY <1>1, <2>1
  <1>3. Cardinality(After(n)) \in Nat /\ Cardinality(After(r)) \in Nat
        /\ Cardinality(After(n)) <= Cardinality(After(r))
    <2>1. After(r) \in SUBSET Msgs /\ After(n) \in SUBSET After(r)
      BY <1>2
    <2> HIDE DEF After
    <2> QED
      BY <2>1, CountIn
  <1>4. Cardinality(After(r)) < k
    BY DEF Newest
  <1>5. Cardinality(After(n)) < k
    <2> HIDE DEF After
    <2> QED
      BY <1>3, <1>4
  <1> QED
    BY <1>5 DEF Newest

\* What List answers.
LEMMA ListedOf ==
    ASSUME NEW S \in SUBSET Visible, HistoryTypes, limit \in Nat
    PROVE  /\ Listed(S) \in [rows : SUBSET Msgs, more : BOOLEAN, busy : BOOLEAN]
           /\ Listed(S).busy /\ Listed(S).rows \subseteq S /\ Listed(S).rows \subseteq 1..posted
           /\ \A r \in Listed(S).rows, n \in S : r <= n => n \in Listed(S).rows
  <1> DEFINE k == IF limit > Cap THEN Cap ELSE limit
  <1>1. k \in Nat /\ S \in SUBSET Msgs /\ S \subseteq 1..posted
    BY PagingAssumption, VisibleStored DEF HistoryTypes
  <1> HIDE DEF k
  <1>2. Newest(S, k) \subseteq S
    BY DEF Newest
  <1> DEFINE more == Cardinality(Newest(S, k)) = limit
  <1>3. more \in BOOLEAN /\ Listed(S) = [rows |-> Newest(S, k), more |-> more, busy |-> TRUE]
    BY DEF Listed, Page, k
  <1> HIDE DEF more
  <1>4. \A r \in Newest(S, k), n \in S : r <= n => n \in Newest(S, k)
    BY <1>1, NewestWhole
  <1>5. Listed(S).rows = Newest(S, k) /\ Listed(S).busy
    BY <1>3
  <1>6. Newest(S, k) \in SUBSET Msgs /\ Newest(S, k) \subseteq 1..posted
    BY <1>1, <1>2
  <1>7. Listed(S) \in [rows : SUBSET Msgs, more : BOOLEAN, busy : BOOLEAN]
    BY <1>3, <1>6
  <1> QED
    BY <1>2, <1>4, <1>5, <1>6, <1>7

\* The window is closed at the beginning.
LEMMA HistoryInit == PagingInit => HistoryInv /\ limit \in Nat
  <1> SUFFICES ASSUME PagingInit PROVE HistoryInv /\ limit \in Nat
    OBVIOUS
  <1>1. /\ None.rows = {} /\ ~None.busy
        /\ None \in [rows : SUBSET Msgs, more : BOOLEAN, busy : BOOLEAN]
    BY DEF None
  <1>2. limit \in Nat /\ posted \in 0..MaxSeq /\ 0 \in 0..posted
    BY PagingAssumption, TableAssumption DEF PagingInit
  <1> QED
    BY <1>1, <1>2 DEF PagingInit, HistoryInv, HistoryTypes, FirstPage, Filled

\* Rows are appended and deleted.
LEMMA HistoryTable ==
    ASSUME HistoryInv, Send \/ \E d \in Msgs : Delete(d)
    PROVE  HistoryInv'
  <1> USE TableAssumption DEF HistoryInv
  <1>1. /\ UNCHANGED history /\ posted' \in 0..MaxSeq /\ posted <= posted' /\ deleted' \subseteq Msgs
        /\ Visible' \subseteq Visible \cup {posted + 1}
    BY DEF Send, Insert, Delete, HistoryTypes, Visible
  <1>2. HistoryTypes'
    BY <1>1 DEF HistoryTypes, history
  <1>3. \A s \in answer.rows \cup {top} : ~(posted + 1 <= s)
    BY DEF HistoryTypes
  <1> QED
    BY <1>1, <1>2, <1>3 DEF FirstPage, Filled, history

\* The requests.
LEMMA HistoryRequest ==
    ASSUME HistoryInv, limit \in Nat, OpenRequest \/ OlderRequest
    PROVE  HistoryInv'
  <1> USE DEF HistoryInv, table
  <1>1. UNCHANGED <<posted, deleted, limit, opened, win, top>>
    BY DEF OpenRequest, OlderRequest
  <1>2. posted \in 0..MaxSeq /\ Visible' = Visible
    BY <1>1 DEF HistoryTypes, Visible
  <1>3. CASE OpenRequest
    <2>1. answer' = Listed(Visible) /\ ~opened
      BY <1>3 DEF OpenRequest
    <2>2. HistoryTypes'
      BY <1>1, <2>1, ListedOf DEF HistoryTypes
    <2>3. \A n \in Visible, r \in answer'.rows : r <= n => n \in answer'.rows
      BY <2>1, ListedOf
    <2> QED
      BY <1>1, <1>2, <2>1, <2>2, <2>3 DEF FirstPage, Filled
  <1>4. CASE OlderRequest
    <2>1. answer' = Listed(Before(Least(win))) /\ opened /\ win # {}
      BY <1>4 DEF OlderRequest
    <2>2. Before(Least(win)) \in SUBSET Visible
      BY DEF Before
    <2>3. Least(win) \in win /\ win \subseteq Nat
      BY <2>1, LeastOf, VisibleStored DEF HistoryTypes
    <2>4. HistoryTypes'
      BY <1>1, <2>1, <2>2, ListedOf DEF HistoryTypes
    <2>5. Filled'
      <3> SUFFICES ASSUME NEW n \in Visible, NEW r \in answer'.rows, r <= n, n <= top
                   PROVE  n \in win \cup answer'.rows
        BY <1>1, <1>2 DEF Filled
      <3>1. CASE n < Least(win)
        <4>1. n \in Before(Least(win))
          BY <3>1 DEF Before
        <4> QED
          BY <2>1, <2>2, <4>1, ListedOf
      <3>2. CASE ~(n < Least(win))
        <4>1. n \in Nat /\ Least(win) \in Nat
          BY <1>2, <2>3, VisibleStored
        <4>2. Least(win) <= n
          BY <3>2, <4>1
        <4> QED
          BY <2>3, <4>2 DEF Filled
      <3> QED
        BY <3>1, <3>2
    <2> QED
      BY <1>1, <2>1, <2>4, <2>5 DEF FirstPage
  <1> QED
    BY <1>3, <1>4

\* The answers, and what polls do to the window.
LEMMA HistoryAnswer ==
    ASSUME HistoryInv,
           \/ OpenAnswer \/ OlderAnswer \/ OlderFails
           \/ \E n \in Msgs : PollRemoves(n) \/ PollBrings(n)
    PROVE  HistoryInv'
  <1> USE DEF HistoryInv, table
  <1>0. /\ posted \in 0..MaxSeq /\ Visible' = Visible /\ UNCHANGED <<posted, deleted>>
        /\ Visible \subseteq Nat /\ Visible \subseteq 1..posted /\ Msgs \subseteq Nat
        /\ answer.rows \subseteq Msgs /\ None.rows = {} /\ ~None.busy
        /\ None \in [rows : SUBSET Msgs, more : BOOLEAN, busy : BOOLEAN]
    <2>1. posted \in 0..MaxSeq /\ UNCHANGED <<posted, deleted>>
      BY DEF OpenAnswer, OlderAnswer, OlderFails, PollRemoves, PollBrings, HistoryTypes
    <2> QED
      BY <2>1, VisibleStored DEF HistoryTypes, None, Visible
  <1>1. CASE OpenAnswer
    <2>1. /\ ~opened /\ answer.busy /\ opened' = TRUE /\ win' = answer.rows
          /\ top' = Max(answer.rows \cup {0}) /\ answer' = None
      BY <1>1 DEF OpenAnswer
    <2>2. /\ answer.rows \cup {0} \in SUBSET Nat /\ posted \in Nat
          /\ \A n \in answer.rows \cup {0} : n <= posted
      BY <1>0 DEF HistoryTypes
    <2>3. top' \in answer.rows \cup {0}
      BY <2>1, <2>2, MaxOf
    <2>4. HistoryTypes'
      BY <1>0, <2>1, <2>2, <2>3 DEF HistoryTypes
    <2>5. Filled'
      <3> SUFFICES ASSUME NEW n \in Visible, NEW w \in answer.rows, w <= n, n <= top'
                   PROVE  n \in answer.rows
        BY <1>0, <2>1 DEF Filled
      <3>1. top' # 0
        BY <1>0
      <3> QED
        BY <2>1, <2>3, <3>1 DEF FirstPage
    <2> QED
      BY <2>1, <2>4, <2>5 DEF FirstPage
  <1>2. CASE OlderAnswer
    <2>1. /\ opened /\ answer.busy /\ win' = win \cup answer.rows /\ answer' = None
          /\ UNCHANGED <<opened, top>>
      BY <1>2 DEF OlderAnswer
    <2> QED
      BY <1>0, <2>1 DEF HistoryTypes, FirstPage, Filled
  <1>3. CASE OlderFails
    BY <1>0, <1>3 DEF OlderFails, HistoryTypes, FirstPage, Filled
  <1>4. ASSUME NEW n \in Msgs, PollRemoves(n) PROVE HistoryInv'
    <2>1. n \notin Visible /\ win' = win \ {n} /\ UNCHANGED <<opened, top, answer>> /\ opened
      BY <1>4 DEF PollRemoves, Visible
    <2> QED
      BY <1>0, <2>1 DEF HistoryTypes, FirstPage, Filled
  <1>5. ASSUME NEW n \in Msgs, PollBrings(n) PROVE HistoryInv'
    <2>1. n > top /\ win' = win \cup {n} /\ UNCHANGED <<opened, top, answer>> /\ opened
      BY <1>5 DEF PollBrings
    <2>2. \A m \in Visible : ~(n <= m /\ m <= top)
      BY <1>0, <2>1 DEF HistoryTypes
    <2> QED
      BY <1>0, <2>1, <2>2 DEF HistoryTypes, FirstPage, Filled
  <1> QED
    BY <1>1, <1>2, <1>3, <1>4, <1>5

\* Every step of the table, the widget and the export.
LEMMA HistoryStep == HistoryInv /\ limit \in Nat /\ [PagingNext]_pagingVars => (HistoryInv /\ limit \in Nat)'
  <1> SUFFICES ASSUME HistoryInv, limit \in Nat, [PagingNext]_pagingVars
               PROVE  HistoryInv' /\ limit' = limit
    OBVIOUS
  <1> USE DEF table, history
  <1>1. CASE UNCHANGED pagingVars \/ ExportStep \/ ExportBreaks
    <2>1. UNCHANGED <<table, history>>
      BY <1>1 DEF pagingVars, ExportStep, ExportStart, ExportBatch, ExportBreaks
    <2> QED
      BY <2>1 DEF HistoryInv, HistoryTypes, FirstPage, Filled, Visible
  <1>2. ASSUME PagingNext PROVE limit' = limit
    BY <1>2 DEF PagingNext, Send, Delete, OpenStep, OpenRequest, OpenAnswer, OlderStep,
                OlderRequest, OlderAnswer, OlderFails, PollRemoves, PollBrings,
                ExportStep, ExportStart, ExportBatch, ExportBreaks
  <1> QED
    BY <1>1, <1>2, HistoryTable, HistoryRequest, HistoryAnswer
    DEF PagingNext, OpenStep, OlderStep, pagingVars

\* The invariant of the paging.
LEMMA HistoryInvariance == PagingSpec => [](HistoryInv /\ limit \in Nat)
  BY HistoryInit, HistoryStep, PTL DEF PagingSpec

\* NoHoles: above its first message the window has all of the history.
THEOREM WindowWhole == PagingSpec => []NoHoles
  <1>1. HistoryInv => NoHoles
    <2> SUFFICES ASSUME HistoryInv, NEW n \in Visible, win # {}, Least(win) <= n, n <= top
                 PROVE  n \in win
      BY DEF NoHoles
    <2>1. win \in SUBSET Nat
      BY VisibleStored DEF HistoryInv, HistoryTypes
    <2>2. Least(win) \in win
      BY <2>1, LeastOf
    <2> QED
      BY <2>2 DEF HistoryInv, Filled
  <1> QED
    BY <1>1, HistoryInvariance, PTL

-----------------------------------------------------------------------------
(* The export.  Ranks of rows are the argument: the rows written are those *)
(* below the offset, and a deletion moves one row at most below it that    *)
(* has not been written.                                                   *)

Preceding(n) == {m \in Visible : m < n}

\* Ranks are naturals and grow with the messages.
LEMMA RankGrows ==
    ASSUME posted \in 0..MaxSeq
    PROVE  /\ \A n \in Visible : Rank(n) \in Nat /\ Rank(n) = Cardinality(Preceding(n))
           /\ \A a, b \in Visible : a < b => Rank(a) < Rank(b)
           /\ \A a, b \in Visible : Rank(a) = Rank(b) => a = b
  <1>1. Visible \in SUBSET Msgs /\ Visible \subseteq Nat
    BY VisibleStored
  <1>2. \A n \in Visible : /\ Preceding(n) \in SUBSET Visible /\ n \notin Preceding(n)
                           /\ Rank(n) = Cardinality(Preceding(n))
    BY <1>1 DEF Preceding, Rank
  <1>3. \A n \in Visible : IsFiniteSet(Preceding(n)) /\ Rank(n) \in Nat
    BY <1>1, <1>2, CountIn
  <1>4. ASSUME NEW a \in Visible, NEW b \in Visible, a < b PROVE Rank(a) < Rank(b)
    <2>1. Cardinality(Preceding(a) \cup {a}) = Rank(a) + 1
      BY <1>2, <1>3, FS_AddElement
    <2>2. Preceding(a) \cup {a} \subseteq Preceding(b)
      <3> SUFFICES ASSUME NEW m \in Visible, m < a PROVE m < b
        BY <1>4 DEF Preceding
      <3>1. m \in Nat /\ a \in Nat /\ b \in Nat
        BY <1>1
      <3> QED
        BY <1>4, <3>1
    <2>3. Cardinality(Preceding(a) \cup {a}) <= Rank(b)
      BY <1>2, <1>3, <2>2, FS_Subset
    <2> QED
      BY <1>3, <2>1, <2>3
  <1>5. ASSUME NEW a \in Visible, NEW b \in Visible, Rank(a) = Rank(b) PROVE a = b
    <2>1. a \in Nat /\ b \in Nat /\ ~(Rank(a) < Rank(b)) /\ ~(Rank(b) < Rank(a))
      BY <1>1, <1>3, <1>5
    <2>2. ~(a < b) /\ ~(b < a)
      BY <1>4, <2>1
    <2> QED
      BY <2>1, <2>2
  <1> QED
    BY <1>2, <1>3, <1>4, <1>5

\* There is no gap in the ranks: if no row has one of k ranks from o on,
\* there is no row from o on.
LEMMA RanksEnd ==
    ASSUME posted \in 0..MaxSeq, NEW o \in Nat, NEW k \in Nat \ {0}, Slice(o, k) = {}
    PROVE  \A n \in Visible : Rank(n) < o
  <1> DEFINE rest == {n \in Visible : ~(Rank(n) < o)}
  <1>1. Visible \in SUBSET Msgs /\ Visible \subseteq Nat /\ MaxSeq \in Nat /\ Msgs \subseteq 0..MaxSeq
    BY VisibleStored, TableAssumption DEF Msgs
  <1> SUFFICES ASSUME rest # {} PROVE FALSE
    OBVIOUS
  <1>2. rest \in SUBSET Nat
    BY <1>1
  <1> DEFINE n == Least(rest)
  <1>3. n \in rest /\ \A m \in rest : n <= m
    BY <1>2, LeastOf
  <1> HIDE DEF n
  <1>4. n \in Visible /\ n \in Nat /\ Rank(n) \in Nat /\ ~(Rank(n) < o)
    BY <1>1, <1>3, RankGrows
  <1>5. \A m \in Preceding(n) : m \in Visible /\ m < n /\ Rank(m) < o
    <2> SUFFICES ASSUME NEW m \in Visible, m < n, m \in rest PROVE FALSE
      BY DEF Preceding
    <2>1. m \in Nat /\ n <= m
      BY <1>1, <1>3
    <2> QED
      BY <1>4, <2>1
  <1>6. Rank(n) <= o
    <2>1. CASE Preceding(n) = {}
      BY <1>4, <2>1, RankGrows, FS_EmptySet
    <2>2. CASE Preceding(n) # {}
      <3> DEFINE p == Max(Preceding(n))
      <3>1. p \in Preceding(n) /\ \A m \in Preceding(n) : m <= p
        <4>1. \A m \in Preceding(n) : m \in Nat /\ m <= MaxSeq
          <5> SUFFICES ASSUME NEW m \in Preceding(n) PROVE m \in Nat /\ m <= MaxSeq
            OBVIOUS
          <5>1. m \in 0..MaxSeq
            BY <1>1, <1>5
          <5> QED
            BY <1>1, <5>1
        <4> QED
          BY <1>1, <2>2, <4>1, MaxOf
      <3> HIDE DEF p
      <3>2. p \in Visible /\ p \in Nat /\ Rank(p) < o /\ Rank(p) \in Nat
        BY <1>1, <1>5, <3>1, RankGrows
      <3>3. Preceding(n) \subseteq Preceding(p) \cup {p}
        <4> SUFFICES ASSUME NEW m \in Preceding(n) PROVE m < p \/ m = p
          BY <1>5 DEF Preceding
        <4>1. m \in Nat /\ m <= p
          BY <1>1, <1>5, <3>1
        <4> QED
          BY <3>2, <4>1
      <3>4. /\ IsFiniteSet(Preceding(p)) /\ p \notin Preceding(p)
            /\ Cardinality(Preceding(p)) = Rank(p)
        <4>1. Preceding(p) \in SUBSET Visible /\ p \notin Preceding(p)
          BY <3>2 DEF Preceding
        <4> QED
          BY <1>1, <3>2, <4>1, CountIn, RankGrows
      <3>5. IsFiniteSet(Preceding(p) \cup {p}) /\ Cardinality(Preceding(p) \cup {p}) = Rank(p) + 1
        BY <3>4, FS_AddElement
      <3>6. Cardinality(Preceding(n)) <= Rank(p) + 1
        BY <3>3, <3>5, FS_Subset
      <3> QED
        BY <1>4, <3>2, <3>6, RankGrows
    <2> QED
      BY <2>1, <2>2
  <1>7. o <= Rank(n) /\ Rank(n) < o + k
    BY <1>4, <1>6
  <1> QED
    BY <1>4, <1>7 DEF Slice

\* Messages of the beginning that the export has gone past without writing.
Missed == {n \in owed : file[n] = 0 /\ Rank(n) < offset}

ExportTypes ==
    /\ posted \in 0..MaxSeq
    /\ offset \in Nat /\ during \in Nat /\ file \in [Msgs -> {0, 1}]
    /\ owed \subseteq Visible
    /\ export = "none" => offset = 0

\* What is written is stored, and below the offset unless deleted since.
Written ==
    \A n \in Msgs : file[n] = 1 =>
        n <= posted /\ (n \in Visible => Rank(n) < offset)

ExportInv ==
    /\ ExportTypes /\ Written
    /\ export = "running" => Cardinality(Missed) <= during
    /\ export = "done" => Cardinality({n \in owed : file[n] = 0}) <= during

\* Nothing is exported at the beginning.
LEMMA ExportInit == PagingInit => ExportInv
  <1> SUFFICES ASSUME PagingInit PROVE ExportInv
    OBVIOUS
  <1>1. ExportTypes
    BY PagingAssumption, TableAssumption DEF PagingInit, ExportTypes
  <1> QED
    BY <1>1 DEF PagingInit, ExportInv, Written

\* A message sent has the last rank; the other ranks stay.
LEMMA ExportSend ==
    ASSUME ExportInv, Send
    PROVE  ExportInv'
  <1>1. /\ posted' = posted + 1 /\ posted \in 0..MaxSeq /\ posted' \in 0..MaxSeq
        /\ UNCHANGED <<export, offset, file, owed, during>> /\ deleted' = deleted
    BY TableAssumption DEF Send, Insert, exportVars, ExportInv, ExportTypes
  <1>2. /\ Visible \subseteq Visible' /\ Visible' \subseteq Visible \cup {posted + 1}
        /\ Visible \subseteq 1..posted /\ Visible \subseteq Nat
    BY <1>1, VisibleStored DEF Visible
  <1>3. \A n \in Visible : Rank(n)' = Rank(n)
    <2> SUFFICES ASSUME NEW n \in Visible PROVE {m \in Visible : m < n}' = {m \in Visible : m < n}
      BY DEF Rank
    <2>1. ~(posted + 1 < n)
      BY <1>1, <1>2
    <2> QED
      BY <1>2, <2>1
  <1>4. ExportTypes'
    BY <1>1, <1>2 DEF ExportInv, ExportTypes
  <1>5. Written'
    <2>1. \A n \in Msgs : file[n] = 1 => n <= posted' /\ n # posted + 1
      <3>1. \A n \in Msgs : file[n] = 1 => n \in Nat /\ n <= posted
        BY IdsApart DEF ExportInv, Written
      <3> QED
        BY <1>1, <3>1
    <2> QED
      BY <1>1, <1>2, <1>3, <2>1 DEF ExportInv, Written
  <1>6. Missed' = Missed
    BY <1>1, <1>3 DEF Missed, ExportInv, ExportTypes
  <1> QED
    BY <1>1, <1>4, <1>5, <1>6 DEF ExportInv

\* A deletion lowers the ranks above it by one.
LEMMA RanksAfterDelete ==
    ASSUME ExportInv, NEW d \in Msgs, Delete(d)
    PROVE  /\ Visible' = Visible \ {d}
           /\ \A n \in Visible' : /\ Rank(n)' \in Nat /\ Rank(n) \in Nat
                                  /\ Rank(n)' <= Rank(n) /\ Rank(n) <= Rank(n)' + 1
  <1>1. d \in Visible /\ Visible' = Visible \ {d} /\ posted \in 0..MaxSeq
    BY DEF Delete, Visible, ExportInv, ExportTypes
  <1> SUFFICES ASSUME NEW n \in Visible, n # d
               PROVE  /\ Rank(n)' \in Nat /\ Rank(n) \in Nat
                      /\ Rank(n)' <= Rank(n) /\ Rank(n) <= Rank(n)' + 1
    BY <1>1
  <1>2. Preceding(n)' = Preceding(n) \ {d}
    BY <1>1 DEF Preceding
  <1>3. Rank(n) = Cardinality(Preceding(n)) /\ Rank(n)' = Cardinality(Preceding(n)')
    BY DEF Rank, Preceding
  <1>4. IsFiniteSet(Preceding(n)) /\ Rank(n) \in Nat
    <2>1. Preceding(n) \in SUBSET Visible /\ Visible \in SUBSET Msgs
      BY <1>1, VisibleStored DEF Preceding
    <2> QED
      BY <1>3, <2>1, CountIn
  <1>5. IsFiniteSet(Preceding(n) \ {d})
        /\ Cardinality(Preceding(n) \ {d}) = IF d \in Preceding(n) THEN Rank(n) - 1 ELSE Rank(n)
    BY <1>3, <1>4, FS_RemoveElement
  <1>6. Rank(n)' \in Nat
    BY <1>2, <1>3, <1>5, FS_CardinalityType
  <1> QED
    BY <1>2, <1>3, <1>4, <1>5, <1>6

\* So it moves at most one unwritten message below the offset.
LEMMA ExportDelete ==
    ASSUME ExportInv, NEW d \in Msgs, Delete(d)
    PROVE  ExportInv'
  <1>1. /\ posted' = posted /\ UNCHANGED <<export, offset, file>> /\ owed' = owed \ {d}
        /\ during' = IF export = "running" THEN during + 1 ELSE during
    BY DEF Delete
  <1>2. /\ posted \in 0..MaxSeq /\ offset \in Nat /\ during \in Nat /\ owed \subseteq Visible
        /\ Visible \in SUBSET Msgs
    BY VisibleStored DEF ExportInv, ExportTypes
  <1>3. ExportTypes'
    BY <1>1, <1>2, RanksAfterDelete DEF ExportInv, ExportTypes
  <1>4. Written'
    <2> SUFFICES ASSUME NEW n \in Msgs, file[n] = 1, n \in Visible'
                 PROVE  Rank(n)' < offset
      BY <1>1 DEF ExportInv, Written
    <2>1. Rank(n) < offset
      BY RanksAfterDelete DEF ExportInv, Written
    <2> QED
      BY <1>2, <2>1, RanksAfterDelete
  <1>5. CASE export = "running"
    <2> DEFINE next == {n \in Visible : Rank(n) = offset}
    <2>1. Missed' \subseteq Missed \cup next
      <3> SUFFICES ASSUME NEW n \in owed, n # d, file[n] = 0, Rank(n)' < offset
                   PROVE  Rank(n) < offset \/ Rank(n) = offset
        BY <1>1, <1>2 DEF Missed
      <3>1. Rank(n)' \in Nat /\ Rank(n) \in Nat /\ Rank(n) <= Rank(n)' + 1
        BY <1>2, RanksAfterDelete
      <3> QED
        BY <1>2, <3>1
    <2>2. Missed \in SUBSET Visible
      BY <1>2 DEF Missed
    <2>3. IsFiniteSet(Missed) /\ Cardinality(Missed) \in Nat
      BY <1>2, <2>2, CountIn
    <2>4. \E b : Missed' \subseteq Missed \cup {b}
      <3>1. \A a, b \in next : a = b
        BY <1>2, RankGrows
      <3> HIDE DEF next
      <3> QED
        BY <2>1, <3>1
    <2>5. PICK b : Missed' \subseteq Missed \cup {b}
      BY <2>4
    <2>6. /\ IsFiniteSet(Missed \cup {b})
          /\ Cardinality(Missed \cup {b}) = IF b \in Missed THEN Cardinality(Missed)
                                            ELSE Cardinality(Missed) + 1
      BY <2>3, FS_AddElement
    <2>7. IsFiniteSet(Missed') /\ Cardinality(Missed') <= Cardinality(Missed \cup {b})
      BY <2>5, <2>6, FS_Subset
    <2>8. Cardinality(Missed') \in Nat
      BY <2>7, FS_CardinalityType
    <2>9. Cardinality(Missed)' <= during + 1
      BY <1>2, <1>5, <2>3, <2>6, <2>7, <2>8 DEF ExportInv
    <2> QED
      BY <1>1, <1>3, <1>4, <1>5, <2>9 DEF ExportInv
  <1>6. CASE export = "done"
    <2> DEFINE left == {n \in owed : file[n] = 0}
    <2>1. left' \in SUBSET left /\ left \in SUBSET Msgs
      BY <1>1, <1>2
    <2>2. Cardinality(left) <= during
      BY <1>6 DEF ExportInv
    <2> HIDE DEF left
    <2>3. /\ Cardinality(left') \in Nat /\ Cardinality(left) \in Nat
          /\ Cardinality(left') <= Cardinality(left)
      <3>1. /\ IsFiniteSet(left) /\ Cardinality(left) \in Nat
        BY <2>1, CountIn
      <3> QED
        BY <2>1, <3>1, FS_Subset, FS_CardinalityType
    <2>4. Cardinality(left)' <= during
      BY <1>2, <2>2, <2>3
    <2> QED
      BY <1>1, <1>3, <1>4, <1>6, <2>4 DEF ExportInv, left
  <1>7. CASE export \notin {"running", "done"}
    BY <1>1, <1>3, <1>4, <1>7 DEF ExportInv
  <1> QED
    BY <1>5, <1>6, <1>7

\* The export begins: nothing has been missed.
LEMMA ExportStarts ==
    ASSUME ExportInv, ExportStart
    PROVE  ExportInv'
  <1>1. /\ export = "none" /\ export' = "running" /\ owed' = Visible /\ Visible' = Visible
        /\ UNCHANGED <<posted, deleted, offset, file, during>>
    BY DEF ExportStart, table, Visible
  <1>2. posted \in 0..MaxSeq /\ offset = 0 /\ during \in Nat
    BY <1>1 DEF ExportInv, ExportTypes
  <1>3. \A n \in Msgs : Rank(n)' = Rank(n)
    BY <1>1 DEF Rank
  <1>4. Missed' = {}
    <2> SUFFICES ASSUME NEW n \in Visible, Rank(n)' < 0 PROVE FALSE
      BY <1>1, <1>2 DEF Missed
    <2>1. Rank(n)' = Rank(n) /\ Rank(n) \in Nat
      BY <1>2, <1>3, RankGrows, VisibleStored
    <2> QED
      BY <2>1
  <1>5. Cardinality(Missed)' = 0
    BY <1>4, FS_EmptySet
  <1> QED
    BY <1>1, <1>2, <1>3, <1>5 DEF ExportInv, ExportTypes, Written

\* A batch: an empty one ends the export, another one writes the next ranks.
LEMMA ExportBatches ==
    ASSUME ExportInv, ExportBatch
    PROVE  ExportInv'
  <1> DEFINE rows == Slice(offset, Batch)
             left == {n \in owed : file[n] = 0}
  <1>1. /\ export = "running" /\ Visible' = Visible
        /\ UNCHANGED <<posted, deleted, owed, during>>
    BY DEF ExportBatch, table, Visible
  <1>2. /\ posted \in 0..MaxSeq /\ offset \in Nat /\ during \in Nat /\ owed \in SUBSET Visible
        /\ file \in [Msgs -> {0, 1}]
        /\ Visible \in SUBSET Msgs /\ Visible \subseteq 1..posted
        /\ Batch \in Nat \ {0} /\ Cardinality(Missed) <= during
    BY <1>1, VisibleStored, PagingAssumption DEF ExportInv, ExportTypes
  <1>3. \A n \in Msgs : Rank(n)' = Rank(n)
    BY <1>1 DEF Rank
  <1>4. \A n \in Visible : Rank(n) \in Nat
    BY <1>2, RankGrows
  <1>5. Missed \in SUBSET Msgs
    BY <1>2 DEF Missed
  <1>6. CASE rows = {} /\ export' = "done" /\ UNCHANGED <<offset, file>>
    <2>1. \A n \in Visible : Rank(n) < offset
      BY <1>2, <1>6, RanksEnd
    <2>2. left \in SUBSET Missed
      BY <1>2, <2>1 DEF Missed
    <2>3. left' = left
      BY <1>1, <1>6
    <2> HIDE DEF left
    <2>4. Cardinality(left) <= Cardinality(Missed) /\ Cardinality(left) \in Nat
          /\ Cardinality(Missed) \in Nat
      BY <1>5, <2>2, CountIn
    <2>5. Cardinality(left)' <= during
      BY <1>2, <2>3, <2>4
    <2> USE DEF left
    <2> QED
      BY <1>1, <1>3, <1>6, <2>5 DEF ExportInv, ExportTypes, Written
  <1>7. CASE /\ file' = [n \in Msgs |-> IF n \in rows THEN file[n] + 1 ELSE file[n]]
             /\ offset' = offset + Batch
             /\ export' = export
    <2>1. \A n \in rows : /\ n \in Visible /\ Rank(n) \in Nat
                          /\ offset <= Rank(n) /\ Rank(n) < offset + Batch
      BY <1>4 DEF Slice
    <2>2. \A n \in rows : file[n] = 0
      <3> SUFFICES ASSUME NEW n \in rows, file[n] = 1 PROVE FALSE
        BY <1>2, <2>1
      <3>1. Rank(n) < offset
        BY <1>2, <2>1 DEF ExportInv, Written
      <3> QED
        BY <1>2, <2>1, <3>1
    <2>3. \A n \in Visible : Rank(n) < offset \/ n \in rows \/ ~(Rank(n) < offset + Batch)
      BY <1>2, <1>4 DEF Slice
    <2> HIDE DEF rows
    <2>4. offset' \in Nat /\ offset < offset'
      BY <1>2, <1>7
    <2>5. \A n \in Msgs : file'[n] = IF n \in rows THEN 1 ELSE file[n]
      BY <1>2, <1>7, <2>2
    <2>6. file' \in [Msgs -> {0, 1}]
      BY <1>2, <1>7, <2>2
    <2>7. ExportTypes'
      BY <1>1, <1>2, <1>7, <2>4, <2>6 DEF ExportTypes
    <2>8. Written'
      <3> SUFFICES ASSUME NEW n \in Msgs, file'[n] = 1
                   PROVE  n <= posted /\ (n \in Visible => Rank(n) < offset')
        BY <1>1, <1>3 DEF Written
      <3>1. CASE n \in rows
        <4>1. n \in 1..posted /\ Rank(n) < offset'
          BY <1>2, <1>7, <2>1, <3>1
        <4> QED
          BY <1>2, <4>1
      <3>2. CASE n \notin rows
        <4>1. n <= posted /\ (n \in Visible => Rank(n) < offset)
          BY <2>5, <3>2 DEF ExportInv, Written
        <4> QED
          BY <1>2, <1>4, <2>4, <4>1
      <3> QED
        BY <3>1, <3>2
    <2>9. Missed' \in SUBSET Missed
      <3> SUFFICES ASSUME NEW n \in owed, file'[n] = 0, Rank(n) < offset + Batch
                   PROVE  file[n] = 0 /\ Rank(n) < offset
        BY <1>1, <1>2, <1>3, <1>7 DEF Missed
      <3> QED
        BY <1>2, <2>3, <2>5
    <2>10. Cardinality(Missed') <= Cardinality(Missed) /\ Cardinality(Missed') \in Nat
           /\ Cardinality(Missed) \in Nat
      <3>1. Missed' \in SUBSET Msgs
        BY <1>5, <2>9
      <3> QED
        BY <1>5, <2>9, <3>1, CountIn
    <2>11. Cardinality(Missed)' <= during
      BY <1>2, <2>10
    <2> QED
      BY <1>1, <1>7, <2>7, <2>8, <2>11 DEF ExportInv
  <1> QED
    BY <1>6, <1>7 DEF ExportBatch, NextOffset

\* The other steps leave the table and the export alone, or end it.
LEMMA ExportKept ==
    ASSUME ExportInv, UNCHANGED <<posted, deleted, offset, file, owed, during>>,
           export' = export \/ export' = "broken"
    PROVE  ExportInv'
  <1>1. Visible' = Visible
    BY DEF Visible
  <1>2. \A n \in Msgs : Rank(n)' = Rank(n)
    BY <1>1 DEF Rank
  <1>3. Missed' = Missed
    <2>1. owed \subseteq Msgs
      BY VisibleStored DEF ExportInv, ExportTypes
    <2> QED
      BY <1>2, <2>1 DEF Missed
  <1> QED
    BY <1>1, <1>2, <1>3 DEF ExportInv, ExportTypes, Written

\* Every step of the table, the widget and the export.
LEMMA ExportNext == ExportInv /\ [PagingNext]_pagingVars => ExportInv'
  <1> SUFFICES ASSUME ExportInv, [PagingNext]_pagingVars PROVE ExportInv'
    OBVIOUS
  <1>1. CASE UNCHANGED pagingVars
    BY <1>1, ExportKept DEF pagingVars, table, exportVars
  <1>2. CASE OpenStep \/ OlderStep \/ OlderFails
    BY <1>2, ExportKept
    DEF OpenStep, OpenRequest, OpenAnswer, OlderStep, OlderRequest, OlderAnswer, OlderFails,
        table, exportVars
  <1>3. CASE \E n \in Msgs : PollRemoves(n) \/ PollBrings(n)
    BY <1>3, ExportKept DEF PollRemoves, PollBrings, table, exportVars
  <1>4. CASE ExportBreaks
    BY <1>4, ExportKept DEF ExportBreaks, table
  <1> QED
    BY <1>1, <1>2, <1>3, <1>4, ExportSend, ExportDelete, ExportStarts, ExportBatches
    DEF PagingNext, ExportStep

\* ExportMissesFew: nothing twice in an export, and nothing missing but for
\* at most one message per deletion.
THEOREM ExportComplete == PagingSpec => []ExportMissesFew
  <1>1. ExportInv => ExportMissesFew
    BY DEF ExportInv, ExportTypes, ExportMissesFew
  <1> QED
    BY <1>1, ExportInit, ExportNext, PTL DEF PagingSpec
=============================================================================
