----------------------------- MODULE RateLimit -----------------------------
(***************************************************************************)
(* One key of the sliding-window limiter of the chat service: a Redis      *)
(* sorted set of the milliseconds at which requests came in.  A request    *)
(* reads the clock in its process and runs the script later, so scripts    *)
(* may run in another order than their clock readings.  The module has the *)
(* limiter's state and steps; the module that uses it says which requests  *)
(* there are.                                                              *)
(***************************************************************************)
EXTENDS Integers, FiniteSets

CONSTANTS
    Calls,  \* requests under way at once
    Limit,  \* requests per window
    Window, \* length of the window
    Delay   \* longest time between a request's start and its end

ASSUME LimitAssumption ==
    /\ Limit \in Nat \ {0} /\ Window \in Nat /\ Delay \in Nat
    /\ Delay < Window

VARIABLES
    now,      \* the clock of all processes and of Redis
    stamp,    \* each request: its reading of the clock, 0 before
    members,  \* Redis: the sorted set; the score of a member is the member
    expires,  \* Redis: when the key expires
    accepted, \* readings of the requests the script let pass
    counted   \* readings of all requests that ran the script

limiter == <<members, expires, accepted, counted>>

LimiterInit ==
    /\ now = 1 /\ stamp = [c \in Calls |-> 0]
    /\ members = {} /\ expires = 0
    /\ accepted = {} /\ counted = {}

\* Mutant of Cutoff: the window is cut short.
CutoffShort(c) == stamp[c] - 1

\* Mutant of Cutoff: nothing is ever too old.
CutoffNever(c) == 0 - stamp[c]

Cutoff(c) == stamp[c] - Window

\* The sorted set after ZREMRANGEBYSCORE and ZADD: a member that is there
\* already stays single.
Added(c) ==
    {s \in members : now < expires /\ s > Cutoff(c)} \cup {stamp[c]}

Within(c) == Cardinality(Added(c)) <= Limit

\* time.Now in allow.
ReadClock(c) ==
    /\ stamp[c] = 0
    /\ stamp' = [stamp EXCEPT ![c] = now]

\* The reading is not used after the script.
Forget(c) == stamp' = [stamp EXCEPT ![c] = 0]

\* The script; a request that it rejects has been counted all the same.
RunScript(c) ==
    /\ stamp[c] # 0
    /\ Forget(c)
    /\ members' = Added(c) /\ expires' = now + Window
    /\ counted' = counted \cup {stamp[c]}
    /\ accepted' = IF Within(c) THEN accepted \cup {stamp[c]} ELSE accepted

-----------------------------------------------------------------------------
\* The types of the limiter's variables.
LimiterTypes ==
    /\ now \in Nat \ {0} /\ stamp \in [Calls -> 0..now]
    /\ members \subseteq 1..now /\ expires \in 0..(now + Window)
    /\ accepted \subseteq counted /\ counted \subseteq 1..now

\* In no window that is shorter than Window by the longest delay have more
\* than Limit readings passed the script, whatever order the scripts ran in.
\* (The code identifies a request with its millisecond: requests that read
\* the same millisecond pass together, so this bounds milliseconds, not
\* requests.)
WithinLimit ==
    \A s \in accepted :
        Cardinality({a \in accepted : s - (Window - Delay) < a /\ a <= s}) <= Limit

\* The script rejects a request only if the readings around it, within
\* Window before it and Delay after it, are more than Limit: once a client
\* has been silent for a window, it is served again.
RejectedWithCause ==
    \A c \in Calls :
        stamp[c] # 0 /\ ~Within(c) =>
            Cardinality({a \in counted \cup {stamp[c]} :
                stamp[c] - Window < a /\ a <= stamp[c] + Delay}) > Limit
=============================================================================
