------------------------------ MODULE Presence ------------------------------
(***************************************************************************)
(* Who is online: every tab of a user sends a heartbeat when it opens and  *)
(* each Interval, and a leave when it closes; the handlers keep the time   *)
(* of the user's last heartbeat in a sorted set.  Heartbeats, leaves and   *)
(* all other requests of the user's address share one window of the        *)
(* limiter (module RateLimit), which may reject any of them.  The module   *)
(* has one user: users have members of their own in the sorted set.        *)
(***************************************************************************)
EXTENDS RateLimit

CONSTANTS
    Tabs,      \* tabs of the user
    Interval,  \* HEARTBEAT_INTERVAL
    TTL,       \* onlineTTL
    MaxFaults, \* bound: requests lost, failures of Redis
    MaxOther,  \* bound: other requests from the address
    MaxTime    \* bound: the clock

ASSUME PresenceAssumption ==
    /\ Interval \in Nat \ {0} /\ TTL \in Nat
    /\ Interval + Delay < TTL
    /\ MaxFaults \in Nat /\ MaxOther \in Nat /\ MaxTime \in Nat

VARIABLES
    kind,   \* each request: "none", "beat", "leave" or "other"
    phase,  \* each request: "limiter" or "handler"
    sent,   \* each request: when it was sent
    tab,    \* each tab: "new", "open" or "closed"
    next,   \* each tab: when its timer fires
    score,  \* Redis: the user's score in chat:{id}:online, 0 if no member
    upset,  \* when a leave was handled, a heartbeat lost or the first tab opened
    alone,  \* when the last open tab was closed
    faults, others

request == <<kind, phase, sent>>
vars == <<now, stamp, limiter, request, tab, next, score, upset, alone, faults, others>>

Init ==
    /\ LimiterInit
    /\ kind = [c \in Calls |-> "none"]
    /\ phase = [c \in Calls |-> "limiter"]
    /\ sent = [c \in Calls |-> 0]
    /\ tab = [t \in Tabs |-> "new"] /\ next = [t \in Tabs |-> 0]
    /\ score = 0 /\ upset = 0 /\ alone = 0
    /\ faults = 0 /\ others = 0

Fault == faults < MaxFaults /\ faults' = faults + 1

OpenTabs == {t \in Tabs : tab[t] = "open"}

Request(c, k) ==
    /\ kind[c] = "none"
    /\ kind' = [kind EXCEPT ![c] = k]
    /\ sent' = [sent EXCEPT ![c] = now]

\* The request is answered or gone.
Ends(c) ==
    /\ kind' = [kind EXCEPT ![c] = "none"]
    /\ phase' = [phase EXCEPT ![c] = "limiter"]
    /\ sent' = [sent EXCEPT ![c] = 0]

-----------------------------------------------------------------------------
(* useOnline.                                                              *)

OpenTab(t, c) ==
    /\ tab[t] = "new"
    /\ Request(c, "beat")
    /\ tab' = [tab EXCEPT ![t] = "open"]
    /\ next' = [next EXCEPT ![t] = now + Interval]
    /\ upset' = IF OpenTabs = {} THEN now ELSE upset
    /\ UNCHANGED <<now, stamp, limiter, phase, score, alone, faults, others>>

\* Mutant of Beat: the timer is not repeated (setTimeout).
BeatOnce(t, c) ==
    /\ tab[t] = "open" /\ next[t] = now
    /\ Request(c, "beat")
    /\ next' = [next EXCEPT ![t] = MaxTime + 1]
    /\ UNCHANGED <<now, stamp, limiter, phase, tab, score, upset, alone, faults, others>>

Beat(t, c) ==
    /\ tab[t] = "open" /\ next[t] = now
    /\ Request(c, "beat")
    /\ next' = [next EXCEPT ![t] = now + Interval]
    /\ UNCHANGED <<now, stamp, limiter, phase, tab, score, upset, alone, faults, others>>

CloseTab(t, c) ==
    /\ tab[t] = "open"
    /\ Request(c, "leave")
    /\ tab' = [tab EXCEPT ![t] = "closed"]
    /\ alone' = IF OpenTabs = {t} THEN now ELSE alone
    /\ next' = [next EXCEPT ![t] = 0]
    /\ UNCHANGED <<now, stamp, limiter, phase, score, upset, faults, others>>

\* Polls, sends and whatever else comes from the address.
OtherRequest(c) ==
    /\ others < MaxOther /\ others' = others + 1
    /\ Request(c, "other")
    /\ UNCHANGED <<now, stamp, limiter, phase, tab, next, score, upset, alone, faults>>

\* A heartbeat that never reaches its handler.
Upsets(c) == upset' = IF kind[c] = "beat" THEN now ELSE upset

Lost(c) ==
    /\ Fault
    /\ kind[c] # "none" /\ phase[c] = "limiter" /\ stamp[c] = 0
    /\ Ends(c) /\ Upsets(c)
    /\ UNCHANGED <<now, stamp, limiter, tab, next, score, alone, others>>

-----------------------------------------------------------------------------
(* IPRateLimit.                                                            *)

Arrive(c) ==
    /\ kind[c] # "none" /\ phase[c] = "limiter"
    /\ ReadClock(c)
    /\ UNCHANGED <<now, limiter, request, tab, next, score, upset, alone, faults, others>>

Pass(c) ==
    /\ kind[c] # "other" /\ phase[c] = "limiter" /\ Within(c)
    /\ RunScript(c)
    /\ phase' = [phase EXCEPT ![c] = "handler"]
    /\ UNCHANGED <<now, kind, sent, tab, next, score, upset, alone, faults, others>>

\* What its handler does is not presence.
PassOther(c) ==
    /\ kind[c] = "other" /\ Within(c)
    /\ RunScript(c)
    /\ Ends(c)
    /\ UNCHANGED <<now, tab, next, score, upset, alone, faults, others>>

\* 429.
Reject(c) ==
    /\ phase[c] = "limiter" /\ ~Within(c)
    /\ RunScript(c)
    /\ Ends(c) /\ Upsets(c)
    /\ UNCHANGED <<now, tab, next, score, alone, faults, others>>

\* Redis does not answer: fail open.
ScriptFails(c) ==
    /\ Fault
    /\ kind[c] # "other" /\ phase[c] = "limiter" /\ stamp[c] # 0
    /\ Forget(c)
    /\ phase' = [phase EXCEPT ![c] = "handler"]
    /\ UNCHANGED <<now, limiter, kind, sent, tab, next, score, upset, alone, others>>

-----------------------------------------------------------------------------
(* OnlineHandler.                                                          *)

\* Heartbeat: ZADD.  Its ZREMRANGEBYSCORE, which comes after it, takes
\* members of others; see Sweep.
Heartbeat(c) ==
    /\ kind[c] = "beat" /\ phase[c] = "handler"
    /\ score' = now
    /\ Ends(c)
    /\ UNCHANGED <<now, stamp, limiter, tab, next, upset, alone, faults, others>>

Leave(c) ==
    /\ kind[c] = "leave" /\ phase[c] = "handler"
    /\ score' = 0 /\ upset' = now
    /\ Ends(c)
    /\ UNCHANGED <<now, stamp, limiter, tab, next, alone, faults, others>>

\* The handler cannot write: logged only.
RedisFails(c) ==
    /\ Fault
    /\ kind[c] \in {"beat", "leave"} /\ phase[c] = "handler"
    /\ Ends(c) /\ Upsets(c)
    /\ UNCHANGED <<now, stamp, limiter, tab, next, score, alone, others>>

\* Mutant of MinScore: members are never too old.
MinScoreNever == 1

MinScore == now - TTL

\* OnlineCount: is the user counted?
Counted == score # 0 /\ score >= MinScore

\* The heartbeat of another user: ZREMRANGEBYSCORE takes whoever has MinScore
\* or less.  The key itself expires later.
Sweep ==
    /\ score # 0 /\ score <= MinScore
    /\ score' = 0
    /\ UNCHANGED <<now, stamp, limiter, request, tab, next, upset, alone, faults, others>>

-----------------------------------------------------------------------------
\* Timers fire on time and no request takes longer than Delay.
Tick ==
    /\ now < MaxTime
    /\ \A t \in OpenTabs : next[t] > now
    /\ \A c \in Calls : kind[c] # "none" => now < sent[c] + Delay
    /\ now' = now + 1
    /\ UNCHANGED <<stamp, limiter, request, tab, next, score, upset, alone, faults, others>>

Next ==
    \/ Tick \/ Sweep
    \/ \E c \in Calls :
        \/ \E t \in Tabs : OpenTab(t, c) \/ Beat(t, c) \/ CloseTab(t, c)
        \/ OtherRequest(c) \/ Lost(c)
        \/ Arrive(c) \/ Pass(c) \/ PassOther(c) \/ Reject(c) \/ ScriptFails(c)
        \/ Heartbeat(c) \/ Leave(c) \/ RedisFails(c)

Spec == Init /\ [][Next]_vars

-----------------------------------------------------------------------------
\* Every variable has its type.
TypeOK ==
    /\ LimiterTypes
    /\ kind \in [Calls -> {"none", "beat", "leave", "other"}]
    /\ phase \in [Calls -> {"limiter", "handler"}] /\ sent \in [Calls -> 0..now]
    /\ tab \in [Tabs -> {"new", "open", "closed"}] /\ next \in [Tabs -> Nat]
    /\ score \in 0..now /\ upset \in 0..now /\ alone \in 0..now
    /\ faults \in Nat /\ others \in Nat

\* A user with an open tab is counted, unless within the last Interval and
\* Delay the first tab was opened, a heartbeat did not come through, or the
\* leave of another tab took the user out: closing one of two tabs hides
\* the user no longer than until the next heartbeat.
OpenTabCounted ==
    OpenTabs # {} /\ now > upset + Interval + Delay => Counted

\* A user without a tab is counted no longer than TTL and Delay after the
\* last one closed, even if the leave was lost, rejected or overtaken by a
\* heartbeat.
GhostsFade ==
    OpenTabs = {} /\ now > alone + TTL + Delay => ~Counted
=============================================================================
