-------------------------------- MODULE Bans --------------------------------
(***************************************************************************)
(* How a ban reaches the chat service: the admin service writes a row and  *)
(* a Redis key, the BanCheck middleware of every chat request reads the    *)
(* key first and the table when the key is absent, and then writes the key *)
(* itself.  The model has one user of one event: the key ban:{event}:{user}*)
(* and the rows of that user.  A ban or a request is named by itself; each *)
(* is created once.                                                        *)
(***************************************************************************)
EXTENDS Integers

CONSTANTS
    BanIds,     \* rows the admin service may insert
    Temporary,  \* those of them with expires_at
    Requests,   \* chat requests of the user
    Chats,      \* chats of the event
    None,       \* the scope of a ban of the whole event
    Scope,      \* bans.chat_id of each ban
    Target,     \* the chat each request is for
    MaxFaults   \* bound: failures of Redis or Postgres

ASSUME BansAssumption ==
    /\ Temporary \subseteq BanIds
    /\ None \notin Chats
    /\ Scope \in [BanIds -> Chats \cup {None}]
    /\ Target \in [Requests -> Chats]
    /\ MaxFaults \in Nat

VARIABLES
    row,      \* Postgres: state of each row of bans
    key,      \* Redis: the key, with the TTL of CreateBan, or without a TTL
    creating, \* CreateBan: next step for each ban
    removing, \* UnbanUser: next step for each ban
    request,  \* chat request: where it is in BanCheck
    covered,  \* chat request: a ban of it has been in force since it came in
    faults    \* for the bound MaxFaults

admin == <<creating, removing>>
vars  == <<row, key, admin, request, covered, faults>>

InForce == {b \in BanIds : row[b] = "active"}

\* Does ban b concern requests for chat h, by its chat_id?
Concerns(b, h) == Scope[b] \in {None, h}

CoveredBy(r, bans) == \E b \in bans : Concerns(b, Target[r])

Init ==
    /\ row = [b \in BanIds |-> "none"]
    /\ key = "absent"
    /\ creating = [b \in BanIds |-> "new"]
    /\ removing = [b \in BanIds |-> "idle"]
    /\ request = [r \in Requests |-> "new"]
    /\ covered = [r \in Requests |-> FALSE]
    /\ faults = 0

Fault == faults < MaxFaults /\ faults' = faults + 1

-----------------------------------------------------------------------------
(* BanService of the admin service.                                        *)

InsertBan(b) ==
    /\ creating[b] = "new"
    /\ creating' = [creating EXCEPT ![b] = "setKey"]
    /\ row' = [row EXCEPT ![b] = "active"]
    /\ UNCHANGED <<key, removing, request, covered, faults>>

\* SET with the time left, or 24 hours for a permanent ban.
SetKey(b) ==
    /\ creating[b] = "setKey"
    /\ creating' = [creating EXCEPT ![b] = "done"]
    /\ key' = "timed"
    /\ UNCHANGED <<row, removing, request, covered, faults>>

SetKeyFails(b) ==
    /\ Fault
    /\ creating[b] = "setKey"
    /\ creating' = [creating EXCEPT ![b] = "done"]
    /\ UNCHANGED <<row, key, removing, request, covered>>

\* The row goes or runs out: what is no longer covered is not covered.
Ends(b, state) ==
    /\ row' = [row EXCEPT ![b] = state]
    /\ covered' = [r \in Requests |-> covered[r] /\ CoveredBy(r, InForce \ {b})]

\* UnbanUser: GetByID finds the row, then DELETE.  The ban may still be on
\* its way through CreateBan: ListBans shows the row at once.
DeleteBan(b) ==
    /\ row[b] \in {"active", "expired"}
    /\ removing[b] = "idle"
    /\ removing' = [removing EXCEPT ![b] = "delKey"]
    /\ Ends(b, "deleted")
    /\ UNCHANGED <<key, creating, request, faults>>

DelKey(b) ==
    /\ removing[b] = "delKey"
    /\ removing' = [removing EXCEPT ![b] = "done"]
    /\ key' = "absent"
    /\ UNCHANGED <<row, creating, request, covered, faults>>

DelKeyFails(b) ==
    /\ Fault
    /\ removing[b] = "delKey"
    /\ removing' = [removing EXCEPT ![b] = "done"]
    /\ UNCHANGED <<row, key, creating, request, covered>>

\* expires_at passes: the queries compare it with NOW().
BanExpires(b) ==
    /\ b \in Temporary
    /\ row[b] = "active"
    /\ Ends(b, "expired")
    /\ UNCHANGED <<key, admin, request, faults>>

\* The TTL of the key runs out.  For a permanent ban that is after a day.
KeyExpires ==
    /\ key = "timed"
    /\ key' = "absent"
    /\ UNCHANGED <<row, admin, request, covered, faults>>

\* Redis restarts empty or evicts the key.
KeyLost ==
    /\ Fault
    /\ key # "absent"
    /\ key' = "absent"
    /\ UNCHANGED <<row, admin, request, covered>>

-----------------------------------------------------------------------------
(* BanCheck of the chat service.                                           *)

RequestAt(r, from, to) == request[r] = from /\ request' = [request EXCEPT ![r] = to]

Arrive(r) ==
    /\ RequestAt(r, "new", "exists")
    /\ covered' = [covered EXCEPT ![r] = CoveredBy(r, InForce)]
    /\ UNCHANGED <<row, key, admin, faults>>

\* Mutant of CheckKey: without a key the request passes, as if the table
\* were only a fallback for Redis errors.
CheckKeyOnly(r) ==
    /\ \/ key # "absent" /\ RequestAt(r, "exists", "rejected")
       \/ key = "absent" /\ RequestAt(r, "exists", "admitted")
    /\ UNCHANGED <<row, key, admin, covered, faults>>

CheckKey(r) ==
    /\ \/ key # "absent" /\ RequestAt(r, "exists", "rejected")
       \/ key = "absent" /\ RequestAt(r, "exists", "query")
    /\ UNCHANGED <<row, key, admin, covered, faults>>

\* An error of Redis counts as an absent key.
CheckKeyFails(r) ==
    /\ Fault
    /\ RequestAt(r, "exists", "query")
    /\ UNCHANGED <<row, key, admin, covered>>

\* IsUserBanned asks for any row of the user and the event.
QueryBans(r) ==
    /\ \/ InForce # {} /\ RequestAt(r, "query", "repopulate")
       \/ InForce = {} /\ RequestAt(r, "query", "admitted")
    /\ UNCHANGED <<row, key, admin, covered, faults>>

\* An error of Postgres lets the request pass ("failing open").
QueryBansFails(r) ==
    /\ Fault
    /\ RequestAt(r, "query", "failedOpen")
    /\ UNCHANGED <<row, key, admin, covered>>

\* SET without a TTL.
Repopulate(r) ==
    /\ RequestAt(r, "repopulate", "rejected")
    /\ key' = "forever"
    /\ UNCHANGED <<row, admin, covered, faults>>

RepopulateFails(r) ==
    /\ Fault
    /\ RequestAt(r, "repopulate", "rejected")
    /\ UNCHANGED <<row, key, admin, covered>>

-----------------------------------------------------------------------------
BanStep(b) ==
    \/ InsertBan(b) \/ SetKey(b) \/ SetKeyFails(b)
    \/ DeleteBan(b) \/ DelKey(b) \/ DelKeyFails(b)
    \/ BanExpires(b)

RequestStep(r) ==
    \/ Arrive(r) \/ CheckKey(r) \/ CheckKeyFails(r)
    \/ QueryBans(r) \/ QueryBansFails(r)
    \/ Repopulate(r) \/ RepopulateFails(r)

Next ==
    \/ \E b \in BanIds : BanStep(b)
    \/ \E r \in Requests : RequestStep(r)
    \/ KeyExpires \/ KeyLost

Spec == Init /\ [][Next]_vars

-----------------------------------------------------------------------------
(* Properties                                                              *)

\* Every variable has its type.
TypeOK ==
    /\ row \in [BanIds -> {"none", "active", "expired", "deleted"}]
    /\ key \in {"absent", "timed", "forever"}
    /\ creating \in [BanIds -> {"new", "setKey", "done"}]
    /\ removing \in [BanIds -> {"idle", "delKey", "done"}]
    /\ request \in [Requests -> {"new", "exists", "query", "repopulate",
                                 "admitted", "failedOpen", "rejected"}]
    /\ covered \in [Requests -> BOOLEAN]
    /\ faults \in Nat

\* A request is never admitted while a ban that concerns it is in force all
\* the time since it came in: not when the key expires, is lost, or was
\* deleted with another ban, and not while CreateBan has yet to set it.
BannedStaysOut == \A r \in Requests : request[r] = "admitted" => ~covered[r]

\* No step of the admin service or of BanCheck is under way.
Quiet ==
    /\ \A b \in BanIds : creating[b] # "setKey" /\ removing[b] # "delKey"
    /\ \A r \in Requests : request[r] # "repopulate"

\* When all is quiet and no ban is in force, nothing blocks the user for
\* ever: UnbanUser removes the key "so the chat service no longer blocks the
\* user".
NoStaleBlock == Quiet /\ InForce = {} => key # "forever"
=============================================================================
