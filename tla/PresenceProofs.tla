--------------------------- MODULE PresenceProofs ---------------------------
(***************************************************************************)
(* Proofs about the limiter and presence, for any number of requests,      *)
(* tabs and faults and for all lengths of times.  The limiter is right     *)
(* because what left the sorted set is older than any reading that can     *)
(* still be counted; a user stays counted because the last sign of life    *)
(* that counts, or a heartbeat that was sent soon after it and is still on *)
(* its way, is never older than Interval.                                  *)
(***************************************************************************)
EXTENDS Presence, FiniteSetTheorems, TLAPS

\* A request is answered within Delay of its start.
Timely ==
    \A c \in Calls :
        /\ kind[c] # "none" => now <= sent[c] + Delay
        /\ stamp[c] # 0 =>
              kind[c] # "none" /\ phase[c] = "limiter" /\ sent[c] <= stamp[c]

\* What the sorted set has lost is a window old.
Kept ==
    /\ members \subseteq counted
    /\ \A m \in members : m + Window <= expires
    /\ \A a \in accepted : a \in members \/ a + Window <= now

\* The last heartbeat of an open tab was handled, or lost, or is on its way.
Followed ==
    \A t \in OpenTabs :
        /\ now <= next[t] /\ next[t] <= now + Interval
        /\ \/ next[t] <= score + Interval
           \/ next[t] <= upset + Interval
           \/ \E c \in Calls : kind[c] = "beat" /\ next[t] = sent[c] + Interval

\* Nobody's heartbeats pause for longer than Interval.
Chased ==
    OpenTabs # {} =>
        \/ now <= score + Interval
        \/ now <= upset + Interval
        \/ \E c \in Calls :
              kind[c] = "beat" /\ (sent[c] <= score + Interval \/ sent[c] <= upset + Interval)

\* No heartbeat was sent after the last tab was closed.
Trailing ==
    OpenTabs = {} =>
        score <= alone + Delay /\ \A c \in Calls : kind[c] = "beat" => sent[c] <= alone

Inv == TypeOK /\ Timely /\ Kept /\ WithinLimit /\ Followed /\ Chased /\ Trailing

-----------------------------------------------------------------------------
LEMMA InitInv == Init => Inv
  <1> SUFFICES ASSUME Init PROVE Inv  OBVIOUS
  <1> USE LimitAssumption, PresenceAssumption DEF Init, LimiterInit
  <1>1. TypeOK  BY DEF TypeOK, LimiterTypes
  <1>2. OpenTabs = {}  BY DEF OpenTabs
  <1>3. Timely /\ Kept /\ WithinLimit  BY DEF Timely, Kept, WithinLimit
  <1>4. Followed /\ Chased /\ Trailing  BY <1>2 DEF Followed, Chased, Trailing
  <1> QED  BY <1>1, <1>3, <1>4 DEF Inv

-----------------------------------------------------------------------------
(* The limiter.                                                            *)

\* Any set of readings is finite.
LEMMA Readings == ASSUME TypeOK PROVE \A S \in SUBSET (0..now) : IsFiniteSet(S)
  <1>1. IsFiniteSet(0..now)
    BY FS_Interval DEF TypeOK, LimiterTypes
  <1> QED  BY <1>1, FS_Subset

LEMMA ScriptKeeps ==
  ASSUME Inv, NEW c \in Calls, kind[c] # "none", RunScript(c), now' = now
  PROVE  /\ members' \subseteq 1..now /\ expires' \in 0..(now + Window)
         /\ accepted' \subseteq counted' /\ counted' \subseteq 1..now
         /\ stamp' \in [Calls -> 0..now] /\ stamp'[c] = 0
         /\ Kept'
  <1> USE LimitAssumption
  <1>1. stamp[c] \in 1..now /\ now \in Nat
    BY DEF Inv, TypeOK, LimiterTypes, RunScript
  <1>2. members' = Added(c) /\ expires' = now + Window /\ counted' = counted \cup {stamp[c]}
    BY DEF RunScript
  <1>3. Added(c) \subseteq members \cup {stamp[c]}  BY DEF Added
  <1>4. members' \subseteq 1..now /\ members' \subseteq counted'
    BY <1>1, <1>2, <1>3 DEF Inv, TypeOK, LimiterTypes, Kept
  <1>5. accepted' \subseteq accepted \cup {stamp[c]}  BY DEF RunScript
  <1>6. accepted' \subseteq counted' /\ counted' \subseteq 1..now
    BY <1>1, <1>2, <1>5 DEF Inv, TypeOK, LimiterTypes
  <1>7. stamp' \in [Calls -> 0..now] /\ stamp'[c] = 0
    BY <1>1 DEF Inv, TypeOK, LimiterTypes, RunScript, Forget
  <1>8. ASSUME NEW a \in accepted' PROVE a \in members' \/ a + Window <= now'
    <2>1. CASE a = stamp[c]  BY <2>1, <1>2 DEF Added
    <2>2. CASE a # stamp[c]
      <3>1. a \in accepted /\ a \in 1..now
        BY <2>2, <1>5 DEF Inv, TypeOK, LimiterTypes
      <3>2. CASE a + Window <= now  BY <3>2
      <3>3. CASE a \in members /\ ~(a + Window <= now)
        <4>1. a + Window <= expires  BY <3>3 DEF Inv, Kept
        <4>2. now < expires /\ a > Cutoff(c)
          BY <3>1, <3>3, <4>1, <1>1 DEF Cutoff, Inv, TypeOK, LimiterTypes
        <4> QED  BY <4>2, <3>3, <1>2 DEF Added
      <3> QED  BY <3>1, <3>2, <3>3 DEF Inv, Kept
    <2> QED  BY <2>1, <2>2
  <1>9. ASSUME NEW m \in members' PROVE m + Window <= expires'
    BY <1>1, <1>2, <1>4
  <1> QED  BY <1>1, <1>2, <1>4, <1>6, <1>7, <1>8, <1>9 DEF Kept

\* The readings that share a short window with a new one are in its sorted set.
LEMMA ScriptWithinLimit ==
  ASSUME Inv, NEW c \in Calls, kind[c] # "none", RunScript(c)
  PROVE  WithinLimit'
  <1> USE LimitAssumption
  <1> DEFINE w(A, s) == {a \in A : s - (Window - Delay) < a /\ a <= s}
  <1>1. stamp[c] \in 1..now /\ now \in Nat /\ now <= stamp[c] + Delay
    BY DEF Inv, TypeOK, LimiterTypes, RunScript, Timely
  <1>2. accepted \subseteq 1..now  BY DEF Inv, TypeOK, LimiterTypes
  <1>3. SUFFICES ASSUME NEW s \in accepted' PROVE Cardinality(w(accepted', s)) <= Limit
    BY DEF WithinLimit
  <1>4. CASE ~(Within(c) /\ stamp[c] \in w(accepted', s))
    <2>1. accepted' = accepted \/ (accepted' = accepted \cup {stamp[c]} /\ Within(c))
      BY Zenon DEF RunScript
    <2>2. s \in accepted
      <3>1. s # stamp[c] \/ accepted' = accepted  BY <1>1, <1>4, <2>1
      <3> QED  BY <3>1, <2>1
    <2>3. w(accepted', s) = w(accepted, s)  BY <1>4, <2>1
    <2> QED  BY <2>2, <2>3 DEF Inv, WithinLimit
  <1>5. CASE Within(c) /\ stamp[c] \in w(accepted', s)
    <2>1. accepted' = accepted \cup {stamp[c]}  BY <1>5 DEF RunScript
    <2>2. s \in 1..now  BY <2>1, <1>1, <1>2
    <2>3. ASSUME NEW a \in w(accepted', s), a # stamp[c] PROVE a \in Added(c)
      <3>1. a \in accepted /\ a \in 1..now  BY <2>1, <2>3, <1>2
      <3>2. a + Window > now  BY <3>1, <2>2, <2>3, <1>1, <1>5
      <3>3. a \in members  BY <3>1, <3>2, <1>1 DEF Inv, Kept
      <3>4. a + Window <= expires  BY <3>3 DEF Inv, Kept
      <3>5. expires \in Nat  BY <1>1 DEF Inv, TypeOK, LimiterTypes
      <3>6. now < expires /\ a > Cutoff(c)
        BY <3>1, <3>2, <3>4, <3>5, <1>1 DEF Cutoff
      <3> QED  BY <3>3, <3>6 DEF Added
    <2>4. w(accepted', s) \subseteq Added(c)  BY <2>3 DEF Added
    <2>5. Added(c) \subseteq 0..now
      <3>1. members \subseteq 1..now  BY DEF Inv, TypeOK, LimiterTypes
      <3>2. ASSUME NEW a \in Added(c) PROVE a \in 0..now
        <4>1. a \in members \/ a = stamp[c]  BY DEF Added
        <4>2. a \in 1..now  BY <4>1, <3>1, <1>1
        <4> QED  BY <4>2, <1>1
      <3> QED  BY <3>2
    <2>6. IsFiniteSet(Added(c))  BY <2>5, Readings DEF Inv
    <2>7. Cardinality(w(accepted', s)) <= Cardinality(Added(c)) /\ Cardinality(Added(c)) \in Nat
          /\ Cardinality(w(accepted', s)) \in Nat
      BY <2>4, <2>6, FS_Subset, FS_CardinalityType
    <2> QED  BY <2>7, <1>5 DEF Within
  <1> QED  BY <1>4, <1>5

\* RejectedWithCause follows from Inv.
LEMMA Cause == Inv => RejectedWithCause
  <1> USE LimitAssumption
  <1> SUFFICES ASSUME Inv, NEW c \in Calls, stamp[c] # 0, ~Within(c)
               PROVE  Cardinality({a \in counted \cup {stamp[c]} :
                          stamp[c] - Window < a /\ a <= stamp[c] + Delay}) > Limit
    BY DEF RejectedWithCause
  <1> DEFINE near == {a \in counted \cup {stamp[c]} :
                        stamp[c] - Window < a /\ a <= stamp[c] + Delay}
  <1>1. stamp[c] \in 1..now /\ now \in Nat /\ now <= stamp[c] + Delay
    BY DEF Inv, TypeOK, LimiterTypes, Timely
  <1>2. counted \subseteq 1..now /\ members \subseteq counted
    BY DEF Inv, TypeOK, LimiterTypes, Kept
  <1>3. ASSUME NEW a \in near PROVE a \in 0..now
    <2>1. a \in counted \/ a = stamp[c]  OBVIOUS
    <2> QED  BY <2>1, <1>1, <1>2
  <1>6. ASSUME NEW a \in Added(c) PROVE a \in near
    <2>1. CASE a = stamp[c]  BY <2>1, <1>1
    <2>2. CASE a # stamp[c]
      <3>1. a \in members /\ a > Cutoff(c)  BY <2>2 DEF Added
      <3>2. a \in counted /\ a \in 1..now  BY <3>1, <1>2
      <3> QED  BY <3>1, <3>2, <1>1 DEF Cutoff
    <2> QED  BY <2>1, <2>2
  <1>4. IsFiniteSet(near)  BY <1>3, Readings DEF Inv
  <1>5. Cardinality(Added(c)) <= Cardinality(near) /\ Cardinality(Added(c)) \in Nat
        /\ Cardinality(near) \in Nat
    BY <1>4, <1>6, FS_Subset, FS_CardinalityType
  <1> QED  BY <1>5 DEF Within

-----------------------------------------------------------------------------
(* The types, and what else the steps of requests keep.                    *)

\* A request that passes or is rejected has run its script.
LEMMA ScriptRun ==
  ASSUME Inv, NEW c \in Calls, Pass(c) \/ PassOther(c) \/ Reject(c)
  PROVE  RunScript(c) /\ now' = now /\ kind[c] # "none" /\ stamp'[c] = 0
  <1>1. RunScript(c) /\ now' = now  BY DEF Pass, PassOther, Reject
  <1> QED  BY <1>1 DEF RunScript, Forget, Inv, TypeOK, LimiterTypes, Timely

LEMMA TypeNext == ASSUME Inv, [Next]_vars PROVE TypeOK'
  <1> USE LimitAssumption, PresenceAssumption
  <1> USE DEF Inv, TypeOK, LimiterTypes
  <1>0. now \in Nat /\ now \in 0..now  OBVIOUS
  <1>1. CASE UNCHANGED vars  BY <1>1 DEF vars, limiter, request
  <1>2. CASE Tick  BY <1>2 DEF Tick, limiter, request
  <1>3. ASSUME NEW c \in Calls, NEW t \in Tabs, OpenTab(t, c) PROVE TypeOK'
    BY <1>0, <1>3 DEF OpenTab, Request, limiter
  <1>4. ASSUME NEW c \in Calls, NEW t \in Tabs, Beat(t, c) PROVE TypeOK'
    BY <1>0, <1>4 DEF Beat, Request, limiter
  <1>5. ASSUME NEW c \in Calls, NEW t \in Tabs, CloseTab(t, c) PROVE TypeOK'
    BY <1>0, <1>5 DEF CloseTab, Request, limiter
  <1>6. ASSUME NEW c \in Calls, OtherRequest(c) PROVE TypeOK'
    BY <1>0, <1>6 DEF OtherRequest, Request, limiter
  <1>7. ASSUME NEW c \in Calls, Lost(c) PROVE TypeOK'
    BY <1>0, <1>7 DEF Lost, Fault, Ends, Upsets, limiter
  <1>8. ASSUME NEW c \in Calls, Arrive(c) PROVE TypeOK'
    BY <1>0, <1>8 DEF Arrive, ReadClock, limiter, request
  <1>9. ASSUME NEW c \in Calls, Pass(c) \/ PassOther(c) \/ Reject(c) PROVE TypeOK'
    <2>3. LimiterTypes'  BY <1>9, ScriptRun, ScriptKeeps
    <2>4. CASE Pass(c)  BY <2>3, <2>4 DEF Pass
    <2>5. CASE PassOther(c)  BY <2>3, <2>5 DEF PassOther, Ends
    <2>6. CASE Reject(c)  BY <2>3, <2>6 DEF Reject, Ends, Upsets
    <2> QED  BY <1>9, <2>4, <2>5, <2>6
  <1>10. ASSUME NEW c \in Calls, ScriptFails(c) PROVE TypeOK'
    BY <1>0, <1>10 DEF ScriptFails, Fault, Forget, limiter
  <1>11. ASSUME NEW c \in Calls, Heartbeat(c) PROVE TypeOK'
    BY <1>0, <1>11 DEF Heartbeat, Ends, limiter
  <1>12. ASSUME NEW c \in Calls, Leave(c) PROVE TypeOK'
    BY <1>0, <1>12 DEF Leave, Ends, limiter
  <1>13. ASSUME NEW c \in Calls, RedisFails(c) PROVE TypeOK'
    BY <1>0, <1>13 DEF RedisFails, Fault, Ends, Upsets, limiter
  <1>14. CASE Sweep  BY <1>0, <1>14 DEF Sweep, limiter, request
  <1> QED
    BY <1>1, <1>2, <1>3, <1>4, <1>5, <1>6, <1>7, <1>8, <1>9, <1>10, <1>11, <1>12, <1>13, <1>14
    DEF Next

LEMMA TimelyNext == ASSUME Inv, [Next]_vars PROVE Timely'
  <1> USE LimitAssumption, PresenceAssumption
  <1> USE DEF Inv, TypeOK, LimiterTypes, Timely
  <1>0. now \in Nat /\ stamp' \in [Calls -> Nat]
    BY TypeNext
  <1>1. CASE UNCHANGED vars  BY <1>1 DEF vars, limiter, request
  <1>2. CASE Tick  BY <1>2 DEF Tick, limiter, request
  <1>3. ASSUME NEW c \in Calls, NEW t \in Tabs,
               OpenTab(t, c) \/ Beat(t, c) \/ CloseTab(t, c) \/ OtherRequest(c)
        PROVE  Timely'
    BY <1>0, <1>3 DEF OpenTab, Beat, CloseTab, OtherRequest, Request, limiter
  <1>4. ASSUME NEW c \in Calls, OtherRequest(c) PROVE Timely'
    BY <1>0, <1>4 DEF OtherRequest, Request, limiter
  <1>5. ASSUME NEW c \in Calls, Arrive(c) PROVE Timely'
    BY <1>0, <1>5 DEF Arrive, ReadClock, limiter, request
  <1>6. ASSUME NEW c \in Calls, Pass(c) \/ PassOther(c) \/ Reject(c) PROVE Timely'
    BY <1>0, <1>6, ScriptRun DEF Pass, PassOther, Reject, RunScript, Forget, Ends
  <1>7. ASSUME NEW c \in Calls, ScriptFails(c) PROVE Timely'
    BY <1>0, <1>7 DEF ScriptFails, Fault, Forget, limiter
  <1>8. ASSUME NEW c \in Calls, Lost(c) \/ Heartbeat(c) \/ Leave(c) \/ RedisFails(c)
        PROVE  Timely'
    BY <1>0, <1>8 DEF Lost, Heartbeat, Leave, RedisFails, Fault, Ends, limiter
  <1>9. CASE Sweep  BY <1>9 DEF Sweep, limiter, request
  <1> QED
    BY <1>1, <1>2, <1>3, <1>4, <1>5, <1>6, <1>7, <1>8, <1>9 DEF Next

LEMMA LimiterNext == ASSUME Inv, [Next]_vars PROVE Kept' /\ WithinLimit'
  <1> USE LimitAssumption
  <1>1. ASSUME NEW c \in Calls, Pass(c) \/ PassOther(c) \/ Reject(c)
        PROVE  Kept' /\ WithinLimit'
    BY <1>1, ScriptRun, ScriptKeeps, ScriptWithinLimit
  <1>2. CASE UNCHANGED limiter /\ now' \in {now, now + 1}
    <2>1. WithinLimit'  BY <1>2 DEF limiter, WithinLimit, Inv
    <2>2. now \in Nat /\ accepted \subseteq 1..now  BY DEF Inv, TypeOK, LimiterTypes
    <2>3. ASSUME NEW a \in accepted, a + Window <= now PROVE a + Window <= now'
      BY <1>2, <2>2, <2>3
    <2> QED  BY <1>2, <2>1, <2>3 DEF limiter, Inv, Kept
  <1>3. (UNCHANGED limiter /\ now' \in {now, now + 1})
        \/ \E c \in Calls : Pass(c) \/ PassOther(c) \/ Reject(c)
    BY DEF Next, vars, Tick, Sweep, OpenTab, Beat, CloseTab, OtherRequest, Lost, Arrive,
           ScriptFails, Heartbeat, Leave, RedisFails
  <1> QED  BY <1>1, <1>2, <1>3

-----------------------------------------------------------------------------
(* Presence.                                                               *)

Signs == Followed /\ Chased /\ Trailing

\* A step that touches neither tabs, clock, scores nor the set of requests.
LEMMA SignsStay ==
  ASSUME Inv, UNCHANGED <<now, kind, sent, tab, next, score, upset, alone>>
  PROVE  Signs'
  BY DEF Inv, Signs, Followed, Chased, Trailing, OpenTabs

\* The end of a request that is no heartbeat and leaves the scores alone.
LEMMA SignsOther ==
  ASSUME Inv, NEW c \in Calls, kind[c] # "beat", Ends(c),
         UNCHANGED <<now, tab, next, score, upset, alone>>
  PROVE  Signs'
  <1>1. \A d \in Calls :
           /\ kind[d] = "beat" => kind'[d] = "beat" /\ sent'[d] = sent[d]
           /\ kind'[d] = "beat" => kind[d] = "beat"
    BY DEF Ends, Inv, TypeOK
  <1>2. OpenTabs' = OpenTabs  BY DEF OpenTabs
  <1> QED  BY <1>1, <1>2 DEF Inv, Signs, Followed, Chased, Trailing

\* The end of a heartbeat or a leave that counts as a sign at this moment.
LEMMA SignsNow ==
  ASSUME Inv, NEW c \in Calls, kind[c] \in {"beat", "leave"}, Ends(c),
         UNCHANGED <<now, tab, next, alone>>,
         \/ kind[c] = "beat" /\ score' = now /\ upset' = upset
         \/ score' \in {0, score} /\ upset' = now
  PROVE  Signs'
  <1> USE LimitAssumption, PresenceAssumption
  <1>1. \A d \in Calls : d # c => kind'[d] = kind[d] /\ sent'[d] = sent[d]
    BY DEF Ends, Inv, TypeOK
  <1>2. kind'[c] = "none"  BY DEF Ends, Inv, TypeOK
  <1>3. OpenTabs' = OpenTabs  BY DEF OpenTabs
  <1>4. now \in Nat /\ score \in 0..now /\ upset \in 0..now /\ alone \in 0..now
        /\ next \in [Tabs -> Nat] /\ sent \in [Calls -> 0..now]
    BY DEF Inv, TypeOK, LimiterTypes
  <1>5. Followed'
    BY <1>3, <1>4 DEF Inv, Followed, OpenTabs
  <1>6. Chased'  BY <1>4 DEF Chased
  <1>7. ASSUME OpenTabs = {} PROVE score' <= alone + Delay
    <2>1. CASE kind[c] = "beat" /\ score' = now
      <3>1. sent[c] <= alone /\ now <= sent[c] + Delay
        BY <1>7, <2>1 DEF Inv, Trailing, Timely
      <3> QED  BY <2>1, <3>1, <1>4
    <2>2. CASE score' \in {0, score}
      BY <2>2, <1>4, <1>7 DEF Inv, Trailing
    <2> QED  BY <2>1, <2>2
  <1>8. Trailing'  BY <1>1, <1>2, <1>3, <1>7 DEF Inv, Trailing
  <1> QED  BY <1>5, <1>6, <1>8 DEF Signs

\* A new request keeps the signs of the tabs that stay as they were.
LEMMA Sending ==
  ASSUME Inv, NEW c \in Calls, NEW k \in {"beat", "leave", "other"}, Request(c, k)
  PROVE  /\ \A d \in Calls : kind[d] = "beat" => kind'[d] = "beat" /\ sent'[d] = sent[d]
         /\ \A d \in Calls : kind'[d] = "beat" /\ ~(d = c /\ k = "beat") =>
                kind[d] = "beat" /\ sent'[d] = sent[d]
         /\ kind'[c] = k /\ sent'[c] = now
  BY DEF Request, Inv, TypeOK

LEMMA SignsOpen ==
  ASSUME Inv, NEW c \in Calls, NEW t \in Tabs, OpenTab(t, c) PROVE Signs'
  <1> USE PresenceAssumption
  <1>1. \A d \in Calls : kind[d] = "beat" => kind'[d] = "beat" /\ sent'[d] = sent[d]
    BY Sending DEF OpenTab
  <1>2. kind'[c] = "beat" /\ sent'[c] = now  BY Sending DEF OpenTab
  <1>3. OpenTabs' = OpenTabs \cup {t}  BY DEF OpenTab, OpenTabs, Inv, TypeOK
  <1>4. now' = now /\ score' = score /\ now \in Nat /\ score \in 0..now /\ upset \in 0..now
        /\ next \in [Tabs -> Nat] /\ sent \in [Calls -> 0..now]
    BY DEF OpenTab, Inv, TypeOK, LimiterTypes
  <1>5. next'[t] = now + Interval /\ \A u \in Tabs \ {t} : next'[u] = next[u]
    BY <1>4 DEF OpenTab
  <1>6. OpenTabs # {} => upset' = upset  BY DEF OpenTab
  <1>7. Followed'
    <2>1. SUFFICES ASSUME NEW u \in OpenTabs'
                   PROVE  /\ now' <= next'[u] /\ next'[u] <= now' + Interval
                          /\ \/ next'[u] <= score' + Interval
                             \/ next'[u] <= upset' + Interval
                             \/ \E d \in Calls : kind'[d] = "beat" /\ next'[u] = sent'[d] + Interval
      BY DEF Followed
    <2>2. CASE u = t  BY <2>2, <1>2, <1>4, <1>5
    <2>3. CASE u # t
      <3>1. u \in OpenTabs /\ u \in Tabs  BY <2>1, <2>3, <1>3 DEF OpenTabs
      <3> QED  BY <2>3, <3>1, <1>1, <1>4, <1>5, <1>6 DEF Inv, Followed
    <2> QED  BY <2>2, <2>3
  <1>8. Chased'
    <2>1. CASE OpenTabs = {}
      <3>1. upset' = now  BY <2>1 DEF OpenTab
      <3> QED  BY <3>1, <1>4 DEF Chased
    <2>2. CASE OpenTabs # {}
      BY <2>2, <1>1, <1>4, <1>6 DEF Inv, Chased
    <2> QED  BY <2>1, <2>2
  <1>9. Trailing'  BY <1>3 DEF Trailing
  <1> QED  BY <1>7, <1>8, <1>9 DEF Signs

LEMMA SignsBeat ==
  ASSUME Inv, NEW c \in Calls, NEW t \in Tabs, Beat(t, c) PROVE Signs'
  <1> USE PresenceAssumption
  <1>1. \A d \in Calls : kind[d] = "beat" => kind'[d] = "beat" /\ sent'[d] = sent[d]
    BY Sending DEF Beat
  <1>2. kind'[c] = "beat" /\ sent'[c] = now  BY Sending DEF Beat
  <1>3. OpenTabs' = OpenTabs /\ t \in OpenTabs  BY DEF Beat, OpenTabs
  <1>4. now' = now /\ score' = score /\ upset' = upset /\ now \in Nat /\ score \in 0..now
        /\ upset \in 0..now /\ next \in [Tabs -> Nat]
    BY DEF Beat, Inv, TypeOK, LimiterTypes
  <1>5. next'[t] = now + Interval /\ \A u \in Tabs \ {t} : next'[u] = next[u]
    BY <1>4 DEF Beat
  <1>6. Followed'
    <2>1. SUFFICES ASSUME NEW u \in OpenTabs
                   PROVE  /\ now' <= next'[u] /\ next'[u] <= now' + Interval
                          /\ \/ next'[u] <= score' + Interval
                             \/ next'[u] <= upset' + Interval
                             \/ \E d \in Calls : kind'[d] = "beat" /\ next'[u] = sent'[d] + Interval
      BY <1>3 DEF Followed
    <2>2. CASE u = t  BY <2>2, <1>2, <1>4, <1>5
    <2>3. CASE u # t
      <3>1. u \in Tabs  BY DEF OpenTabs
      <3> QED  BY <2>3, <3>1, <1>1, <1>4, <1>5 DEF Inv, Followed
    <2> QED  BY <2>2, <2>3
  <1>7. Chased'  BY <1>1, <1>3, <1>4 DEF Inv, Chased
  <1>8. Trailing'  BY <1>3 DEF Trailing
  <1> QED  BY <1>6, <1>7, <1>8 DEF Signs

LEMMA SignsClose ==
  ASSUME Inv, NEW c \in Calls, NEW t \in Tabs, CloseTab(t, c) PROVE Signs'
  <1> USE LimitAssumption, PresenceAssumption
  <1>1. \A d \in Calls : kind[d] = "beat" => kind'[d] = "beat" /\ sent'[d] = sent[d]
    BY Sending DEF CloseTab
  <1>2. \A d \in Calls : kind'[d] = "beat" => kind[d] = "beat" /\ sent'[d] = sent[d]
    BY Sending DEF CloseTab
  <1>3. OpenTabs' = OpenTabs \ {t} /\ t \in OpenTabs
    BY DEF CloseTab, OpenTabs, Inv, TypeOK
  <1>4. now' = now /\ score' = score /\ upset' = upset /\ now \in Nat /\ score \in 0..now
        /\ upset \in 0..now /\ sent \in [Calls -> 0..now]
    BY DEF CloseTab, Inv, TypeOK, LimiterTypes
  <1>5. \A u \in Tabs \ {t} : next'[u] = next[u]
    BY DEF CloseTab, Inv, TypeOK
  <1>6. Followed'
    <2>1. \A u \in OpenTabs' : u \in OpenTabs /\ u \in Tabs \ {t}
      BY <1>3 DEF OpenTabs
    <2> QED  BY <2>1, <1>1, <1>4, <1>5 DEF Inv, Followed
  <1>7. Chased'  BY <1>1, <1>3, <1>4 DEF Inv, Chased
  <1>8. Trailing'
    <2>1. SUFFICES ASSUME OpenTabs' = {}
                   PROVE  score' <= alone' + Delay
                          /\ \A d \in Calls : kind'[d] = "beat" => sent'[d] <= alone'
      BY DEF Trailing
    <2>2. alone' = now  BY <2>1, <1>3 DEF CloseTab
    <2> QED  BY <2>2, <1>2, <1>4
  <1> QED  BY <1>6, <1>7, <1>8 DEF Signs

LEMMA SignsTick == ASSUME Inv, Tick PROVE Signs'
  <1> USE LimitAssumption, PresenceAssumption
  <1>1. UNCHANGED <<kind, sent, tab, next, score, upset, alone>> /\ now' = now + 1
    BY DEF Tick, request
  <1>2. OpenTabs' = OpenTabs  BY <1>1 DEF OpenTabs
  <1>3. now \in Nat /\ score \in 0..now /\ upset \in 0..now /\ next \in [Tabs -> Nat]
        /\ sent \in [Calls -> 0..now]
    BY DEF Inv, TypeOK, LimiterTypes
  <1>4. \A u \in OpenTabs : next[u] > now /\ u \in Tabs  BY DEF Tick, OpenTabs
  <1>5. Followed'  BY <1>1, <1>2, <1>3, <1>4 DEF Inv, Followed
  <1>6. ASSUME OpenTabs # {}
        PROVE  \/ now' <= score + Interval
               \/ now' <= upset + Interval
               \/ \E c \in Calls :
                     kind[c] = "beat" /\ (sent[c] <= score + Interval \/ sent[c] <= upset + Interval)
    <2>1. PICK u \in OpenTabs : TRUE  BY <1>6
    <2>2. next[u] > now /\ next[u] <= now + Interval /\ next[u] \in Nat
      BY <1>3, <1>4 DEF Inv, Followed
    <2>3. CASE now + 1 <= score + Interval \/ now + 1 <= upset + Interval
      BY <2>3, <1>1
    <2>4. CASE /\ ~(now + 1 <= score + Interval) /\ ~(now + 1 <= upset + Interval)
               /\ (now <= score + Interval \/ now <= upset + Interval)
      <3>1. PICK c \in Calls : kind[c] = "beat" /\ next[u] = sent[c] + Interval
        BY <2>2, <2>4, <1>3 DEF Inv, Followed
      <3>2. sent[c] <= now  BY <1>3
      <3> QED  BY <3>1, <3>2, <2>4, <1>3
    <2>5. CASE \E c \in Calls :
                 kind[c] = "beat" /\ (sent[c] <= score + Interval \/ sent[c] <= upset + Interval)
      BY <2>5
    <2>6. \/ now <= score + Interval \/ now <= upset + Interval
          \/ \E c \in Calls :
                kind[c] = "beat" /\ (sent[c] <= score + Interval \/ sent[c] <= upset + Interval)
      BY <1>6 DEF Inv, Chased
    <2> QED  BY <2>3, <2>4, <2>5, <2>6
  <1>7. Chased'  BY <1>1, <1>2, <1>6 DEF Chased
  <1>8. Trailing'  BY <1>1, <1>2 DEF Inv, Trailing
  <1> QED  BY <1>5, <1>7, <1>8 DEF Signs

\* Who is swept has no tab, or a sign younger than the score.
LEMMA SignsSweep == ASSUME Inv, Sweep PROVE Signs'
  <1> USE LimitAssumption, PresenceAssumption
  <1>1. /\ UNCHANGED <<now, kind, sent, tab, next, upset, alone>> /\ OpenTabs' = OpenTabs
        /\ score' = 0 /\ score + TTL <= now
    <2>1. now \in Nat /\ score \in Nat  BY DEF Inv, TypeOK, LimiterTypes
    <2> QED  BY <2>1 DEF Sweep, MinScore, OpenTabs, request
  <1>2. now \in Nat /\ score \in 0..now /\ upset \in 0..now /\ alone \in 0..now
        /\ next \in [Tabs -> Nat] /\ sent \in [Calls -> 0..now]
    BY DEF Inv, TypeOK, LimiterTypes
  <1>3. ASSUME NEW t \in OpenTabs PROVE ~(next[t] <= score + Interval)
    <2>1. t \in Tabs /\ now <= next[t] /\ next[t] \in Nat
      BY <1>2 DEF Inv, Followed, OpenTabs
    <2> QED  BY <2>1, <1>1, <1>2
  <1>4. ~(now <= score + Interval)  BY <1>1, <1>2
  <1>5. ASSUME NEW c \in Calls, kind[c] = "beat" PROVE ~(sent[c] <= score + Interval)
    <2>1. now <= sent[c] + Delay  BY <1>5 DEF Inv, Timely
    <2> QED  BY <2>1, <1>1, <1>2
  <1>6. Followed'  BY <1>1, <1>3 DEF Inv, Followed
  <1>7. Chased'  BY <1>1, <1>4, <1>5 DEF Inv, Chased
  <1>8. Trailing'  BY <1>1, <1>2 DEF Inv, Trailing
  <1> QED  BY <1>6, <1>7, <1>8 DEF Signs

LEMMA SignsNext == ASSUME Inv, [Next]_vars PROVE Signs'
  <1>1. CASE UNCHANGED vars  BY <1>1, SignsStay DEF vars, request
  <1>2. CASE Tick  BY <1>2, SignsTick
  <1>3. ASSUME NEW c \in Calls, NEW t \in Tabs, OpenTab(t, c) \/ Beat(t, c) \/ CloseTab(t, c)
        PROVE  Signs'
    BY <1>3, SignsOpen, SignsBeat, SignsClose
  <1>4. ASSUME NEW c \in Calls, OtherRequest(c) PROVE Signs'
    <2>1. /\ \A d \in Calls : kind[d] = "beat" => kind'[d] = "beat" /\ sent'[d] = sent[d]
          /\ \A d \in Calls : kind'[d] = "beat" => kind[d] = "beat" /\ sent'[d] = sent[d]
      BY <1>4, Sending DEF OtherRequest
    <2>2. UNCHANGED <<now, tab, next, score, upset, alone>> /\ OpenTabs' = OpenTabs
      BY <1>4 DEF OtherRequest, OpenTabs
    <2> QED  BY <2>1, <2>2 DEF Inv, Signs, Followed, Chased, Trailing
  <1>5. ASSUME NEW c \in Calls, Arrive(c) \/ Pass(c) \/ ScriptFails(c) PROVE Signs'
    BY <1>5, SignsStay DEF Arrive, Pass, ScriptFails, request
  <1>6. ASSUME NEW c \in Calls, PassOther(c) PROVE Signs'
    BY <1>6, SignsOther DEF PassOther
  <1>7. ASSUME NEW c \in Calls, Lost(c) \/ Reject(c) \/ RedisFails(c) PROVE Signs'
    <2>1. Ends(c) /\ Upsets(c) /\ UNCHANGED <<now, tab, next, score, alone>>
      BY <1>7 DEF Lost, Reject, RedisFails
    <2>2. CASE kind[c] = "beat"  BY <2>1, <2>2, SignsNow DEF Upsets
    <2>3. CASE kind[c] # "beat"  BY <2>1, <2>3, SignsOther DEF Upsets
    <2> QED  BY <2>2, <2>3
  <1>8. ASSUME NEW c \in Calls, Heartbeat(c) \/ Leave(c) PROVE Signs'
    BY <1>8, SignsNow DEF Heartbeat, Leave
  <1> QED
    BY SignsSweep, <1>1, <1>2, <1>3, <1>4, <1>5, <1>6, <1>7, <1>8 DEF Next

-----------------------------------------------------------------------------
LEMMA InvNext == Inv /\ [Next]_vars => Inv'
  <1> SUFFICES ASSUME Inv, [Next]_vars PROVE Inv'  OBVIOUS
  <1> QED  BY TypeNext, TimelyNext, LimiterNext, SignsNext DEF Inv, Signs

LEMMA Invariant == Spec => []Inv
  BY InitInv, InvNext, PTL DEF Spec

\* Type correctness of the limiter and of presence.
THEOREM PresenceTypes == Spec => []TypeOK
  <1>1. Inv => TypeOK  BY DEF Inv
  <1> QED  BY <1>1, Invariant, PTL

\* The limiter never lets more readings pass in a window, shortened by the
\* longest delay, than Limit, for any limit, window and number of requests
\* whose scripts run in any order (allow).
THEOREM LimitHolds == Spec => []WithinLimit
  <1>1. Inv => WithinLimit  BY DEF Inv
  <1> QED  BY <1>1, Invariant, PTL

\* The limiter rejects nobody without more than Limit readings around the
\* rejected one (allow).
THEOREM NobodyRejectedInVain == Spec => []RejectedWithCause
  BY Cause, Invariant, PTL

\* A user with an open tab is counted except for an Interval and a Delay
\* after a leave or a lost heartbeat (useOnline, Heartbeat, Leave).
THEOREM OpenTabsCount == Spec => []OpenTabCounted
  <1> USE LimitAssumption, PresenceAssumption
  <1>1. ASSUME Inv, OpenTabs # {}, now > upset + Interval + Delay PROVE Counted
    <2>1. now \in Nat /\ score \in 0..now /\ upset \in 0..now /\ sent \in [Calls -> 0..now]
      BY <1>1 DEF Inv, TypeOK, LimiterTypes
    <2>2. \/ now <= score + Interval
          \/ \E c \in Calls : kind[c] = "beat" /\ sent[c] <= score + Interval
      <3>1. ASSUME NEW c \in Calls, kind[c] = "beat" PROVE ~(sent[c] <= upset + Interval)
        <4>1. now <= sent[c] + Delay  BY <1>1, <3>1 DEF Inv, Timely
        <4> QED  BY <4>1, <2>1, <1>1
      <3>2. ~(now <= upset + Interval)  BY <2>1, <1>1
      <3> QED  BY <1>1, <3>1, <3>2 DEF Inv, Chased
    <2>3. now <= score + Interval + Delay
      <3>1. CASE now <= score + Interval  BY <3>1, <2>1
      <3>2. ASSUME NEW c \in Calls, kind[c] = "beat", sent[c] <= score + Interval
            PROVE  now <= score + Interval + Delay
        <4>1. now <= sent[c] + Delay  BY <1>1, <3>2 DEF Inv, Timely
        <4> QED  BY <4>1, <3>2, <2>1
      <3> QED  BY <2>2, <3>1, <3>2
    <2> QED  BY <2>1, <2>3, <1>1 DEF Counted, MinScore
  <1>2. Inv => OpenTabCounted  BY <1>1 DEF OpenTabCounted
  <1> QED  BY <1>2, Invariant, PTL

\* A user without a tab is gone TTL and Delay after the last one, whatever
\* became of the leaves (useOnline, Heartbeat, Leave, OnlineCount).
THEOREM GhostsVanish == Spec => []GhostsFade
  <1> USE LimitAssumption, PresenceAssumption
  <1>1. ASSUME Inv, OpenTabs = {}, now > alone + TTL + Delay PROVE ~Counted
    <2>1. now \in Nat /\ score \in 0..now /\ alone \in 0..now /\ score <= alone + Delay
      BY <1>1 DEF Inv, TypeOK, LimiterTypes, Trailing
    <2> QED  BY <2>1, <1>1 DEF Counted, MinScore
  <1>2. Inv => GhostsFade  BY <1>1 DEF GhostsFade
  <1> QED  BY <1>2, Invariant, PTL
=============================================================================
