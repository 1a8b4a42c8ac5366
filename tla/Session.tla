------------------------------- MODULE Session -------------------------------
(***************************************************************************)
(* The token of one widget: the exchange that mounts it, the requests it   *)
(* makes, the 401s that an expired token earns, and the refresh that all   *)
(* of them share (ApiClient.request).  An exchange goes through the page's *)
(* tokenProvider to the auth service, while an admin rotates the secret of *)
(* the event and changes the user's role.  Tokens are numbered by exchange.*)
(***************************************************************************)
EXTENDS Naturals, FiniteSets

CONSTANTS
    Requests,     \* calls of ApiClient.request
    MaxTokens,    \* bound: exchanges after the first, no more than Requests need
    MaxRotations, \* bound: rotations of the secret
    Roles,
    AskedRole,    \* the role the page asks for
    None

Tokens == 0..MaxTokens

ASSUME SessionAssumption ==
    /\ MaxTokens \in Nat /\ MaxRotations \in Nat
    /\ AskedRole \in Roles /\ None \notin Roles /\ None \notin Nat

VARIABLES
    exchange,    \* by token: the step of its exchange
    carried,     \* by token: secret the exchange brought, and the one in force then
    role,        \* by token: the role claimed in it
    undisturbed, \* by token: no admin has changed the role since its exchange began
    expired,     \* tokens whose exp has passed
    secret,      \* Postgres, events: number of rotations of api_secret
    held,        \* the secret the page's server uses
    stored,      \* Postgres, users: the role, None before the first exchange
    ruled,       \* the role an admin set last
    refreshable, \* config has a tokenProvider or onTokenExpired
    current,     \* what ApiClient.getToken returns, None before the mount
    refresh,     \* refreshPromise: the exchange it stands for
    req,         \* by request: where it is
    bearer,      \* by request: token of the fetch under way
    refused,     \* by request: token that earned it the first 401
    awaits,      \* by request: the exchange it awaits
    executed     \* by request: times the chat service acted on it

authVars == <<exchange, carried, role, undisturbed, secret, held, stored, ruled>>
clientVars == <<current, refresh, req, bearer, refused, awaits>>
vars == <<authVars, clientVars, expired, refreshable, executed>>

UnderWay == {x \in Tokens : exchange[x] \in {"check", "upsert"}}

Init ==
    /\ exchange = [x \in Tokens |-> IF x = 0 THEN "check" ELSE "none"]
    /\ carried = [x \in Tokens |-> [secret |-> 0, inForce |-> 0]]
    /\ role = [x \in Tokens |-> None]
    /\ undisturbed = [x \in Tokens |-> TRUE]
    /\ expired = {}
    /\ secret = 0 /\ held = 0
    /\ stored = None /\ ruled = None
    /\ refreshable \in BOOLEAN
    /\ current = None /\ refresh = None
    /\ req = [q \in Requests |-> "idle"]
    /\ bearer = [q \in Requests |-> None]
    /\ refused = [q \in Requests |-> None]
    /\ awaits = [q \in Requests |-> None]
    /\ executed = [q \in Requests |-> 0]

-----------------------------------------------------------------------------
(* TokenHandler.ExchangeToken and AuthService.ExchangeToken.               *)

\* The request leaves with the secret the page's server has.
Begin(x) ==
    /\ exchange[x] = "none"
    /\ exchange' = [exchange EXCEPT ![x] = "check"]
    /\ carried' = [carried EXCEPT ![x] = [secret |-> held, inForce |-> secret]]
    /\ undisturbed' = [undisturbed EXCEPT ![x] = TRUE]

\* Mutant of Accepts: the secret before the last rotation passes as well.
AcceptsPrevious(x) == carried[x].secret \in {secret, secret - 1}

Accepts(x) == carried[x].secret = secret

\* GetByID and the comparison of the hashes.
CheckSecret(x) ==
    /\ exchange[x] = "check"
    /\ exchange' = [exchange EXCEPT ![x] = IF Accepts(x) THEN "upsert" ELSE "failed"]
    /\ UNCHANGED <<carried, role, undisturbed, secret, held, stored, ruled,
                   clientVars, expired, refreshable, executed>>

\* Mutant of Upserted: the upsert sets the role as well as the name.
UpsertedRole == AskedRole

\* What the upsert returns: the role asked for only if the user is new.
Upserted == IF stored = None THEN AskedRole ELSE stored

\* Upsert, and CreateToken with the role of the row.
Issue(x) ==
    /\ exchange[x] = "upsert"
    /\ exchange' = [exchange EXCEPT ![x] = "issued"]
    /\ stored' = Upserted
    /\ role' = [role EXCEPT ![x] = Upserted]
    /\ UNCHANGED <<carried, undisturbed, secret, held, ruled,
                   clientVars, expired, refreshable, executed>>

\* A query of the exchange fails, or the way to the auth service, or the
\* way back: then the upsert is done.
ExchangeFails(x) ==
    /\ x \in UnderWay
    /\ exchange' = [exchange EXCEPT ![x] = "failed"]
    /\ \/ UNCHANGED stored
       \/ exchange[x] = "upsert" /\ stored' = Upserted
    /\ UNCHANGED <<carried, role, undisturbed, secret, held, ruled,
                   clientVars, expired, refreshable, executed>>

ExchangeStep(x) == CheckSecret(x) \/ Issue(x) \/ ExchangeFails(x)

-----------------------------------------------------------------------------
(* The admin service, and the clock.                                       *)

\* RotateAPISecret.
Rotate ==
    /\ secret < MaxRotations
    /\ secret' = secret + 1
    /\ UNCHANGED <<exchange, carried, role, undisturbed, held, stored, ruled,
                   clientVars, expired, refreshable, executed>>

\* The page's operator installs the secret the admin was shown.
Install ==
    /\ held # secret
    /\ held' = secret
    /\ UNCHANGED <<exchange, carried, role, undisturbed, secret, stored, ruled,
                   clientVars, expired, refreshable, executed>>

SetRole(r) ==
    /\ stored \notin {None, r}
    /\ stored' = r /\ ruled' = r
    /\ undisturbed' = [x \in Tokens |-> exchange[x] = "none"]
    /\ UNCHANGED <<exchange, carried, role, secret, held,
                   clientVars, expired, refreshable, executed>>

Expire(x) ==
    /\ exchange[x] = "issued" /\ x \notin expired
    /\ expired' = expired \cup {x}
    /\ UNCHANGED <<authVars, clientVars, refreshable, executed>>

AdminStep == Rotate \/ Install \/ \E r \in Roles : SetRole(r)

-----------------------------------------------------------------------------
(* ApiClient.                                                              *)

\* ChatSem.init has its token and renders the widget.
MountWidget ==
    /\ current = None /\ exchange[0] = "issued"
    /\ current' = 0
    /\ UNCHANGED <<authVars, refresh, req, bearer, refused, awaits,
                   expired, refreshable, executed>>

Fetch(q) ==
    /\ current # None /\ req[q] = "idle"
    /\ req' = [req EXCEPT ![q] = "sent"]
    /\ bearer' = [bearer EXCEPT ![q] = current]
    /\ UNCHANGED <<authVars, current, refresh, refused, awaits, expired, refreshable, executed>>

\* Auth lets the request through and the chat service acts on it.
Serve(q) ==
    /\ req[q] \in {"sent", "resent"} /\ bearer[q] \notin expired
    /\ req' = [req EXCEPT ![q] = "served"]
    /\ executed' = [executed EXCEPT ![q] = @ + 1]
    /\ UNCHANGED <<authVars, current, refresh, bearer, refused, awaits, expired, refreshable>>

\* Auth finds the token expired: the 401 is on its way.
Deny(q) ==
    /\ bearer[q] \in expired
    /\ \/ req[q] = "sent" /\ req' = [req EXCEPT ![q] = "denied"]
       \/ req[q] = "resent" /\ req' = [req EXCEPT ![q] = "deniedAgain"]
    /\ UNCHANGED <<authVars, current, refresh, bearer, refused, awaits,
                   expired, refreshable, executed>>

\* The 401 has arrived, no refresh is under way: this request starts one.
StartRefresh(q) ==
    /\ req[q] = "denied" /\ refreshable /\ refresh = None
    /\ \E x \in Tokens :
        /\ \A y \in Tokens : exchange[y] = "none" => x <= y
        /\ Begin(x)
        /\ refresh' = x
        /\ awaits' = [awaits EXCEPT ![q] = x]
    /\ req' = [req EXCEPT ![q] = "waiting"]
    /\ refused' = [refused EXCEPT ![q] = bearer[q]]
    /\ UNCHANGED <<role, secret, held, stored, ruled, current, bearer,
                   expired, refreshable, executed>>

\* Mutant of JoinRefresh: every 401 starts a refresh of its own.
RefreshAnyway(q) ==
    /\ req[q] = "denied" /\ refreshable /\ refresh # None
    /\ \E x \in Tokens :
        /\ \A y \in Tokens : exchange[y] = "none" => x <= y
        /\ Begin(x)
        /\ refresh' = x
        /\ awaits' = [awaits EXCEPT ![q] = x]
    /\ req' = [req EXCEPT ![q] = "waiting"]
    /\ refused' = [refused EXCEPT ![q] = bearer[q]]
    /\ UNCHANGED <<role, secret, held, stored, ruled, current, bearer,
                   expired, refreshable, executed>>

\* It awaits the refresh under way with the others.
JoinRefresh(q) ==
    /\ req[q] = "denied" /\ refreshable /\ refresh # None
    /\ req' = [req EXCEPT ![q] = "waiting"]
    /\ refused' = [refused EXCEPT ![q] = bearer[q]]
    /\ awaits' = [awaits EXCEPT ![q] = refresh]
    /\ UNCHANGED <<authVars, current, refresh, bearer, expired, refreshable, executed>>

Waiters(x) == {q \in Requests : req[q] = "waiting" /\ awaits[q] = x}

\* Mutant of Resumed: only the request that started the refresh goes on.
ResumedOne(x) == {CHOOSE q \in Waiters(x) : TRUE}

\* Who goes on when the promise settles: all that await it, one after the
\* other and before any other event of the page.
Resumed(x) == Waiters(x)

\* Mutant of RetryToken: the retry is sent before getToken is replaced.
OldToken(x) == current

RetryToken(x) == x

\* The promise is fulfilled: it is forgotten, the new token stays in
\* getToken, and every waiter sends its request again.
Refreshed(x) ==
    /\ refresh = x /\ exchange[x] = "issued"
    /\ refresh' = None
    /\ current' = x
    /\ req' = [q \in Requests |-> IF q \in Resumed(x) THEN "resent" ELSE req[q]]
    /\ bearer' = [q \in Requests |-> IF q \in Resumed(x) THEN RetryToken(x) ELSE bearer[q]]
    /\ awaits' = [q \in Requests |-> IF q \in Resumed(x) THEN None ELSE awaits[q]]
    /\ UNCHANGED <<authVars, refused, expired, refreshable, executed>>

\* It is rejected: so is every waiter.  The token in use stays the old one.
RefreshFailed(x) ==
    /\ refresh = x /\ exchange[x] = "failed"
    /\ refresh' = None
    /\ req' = [q \in Requests |-> IF q \in Waiters(x) THEN "ended" ELSE req[q]]
    /\ awaits' = [q \in Requests |-> IF q \in Waiters(x) THEN None ELSE awaits[q]]
    /\ UNCHANGED <<authVars, current, bearer, refused, expired, refreshable, executed>>

\* An answer that ends the request: a result, an error of the handler, a
\* second 401, or a first one with nowhere to get a token from.
Answer(q) ==
    /\ \/ req[q] \in {"served", "deniedAgain"}
       \/ req[q] = "denied" /\ ~refreshable
    /\ req' = [req EXCEPT ![q] = "ended"]
    /\ UNCHANGED <<authVars, current, refresh, bearer, refused, awaits,
                   expired, refreshable, executed>>

\* Mutant of NetworkFails: a fetch that fails is tried again.
RetryFailed(q) ==
    /\ req[q] \in {"sent", "served"}
    /\ req' = [req EXCEPT ![q] = "sent"]
    /\ UNCHANGED <<authVars, current, refresh, bearer, refused, awaits,
                   expired, refreshable, executed>>

\* The request, or the answer, is lost: fetch throws and request with it.
NetworkFails(q) ==
    /\ req[q] \in {"sent", "resent", "served", "denied", "deniedAgain"}
    /\ req' = [req EXCEPT ![q] = "ended"]
    /\ UNCHANGED <<authVars, current, refresh, bearer, refused, awaits,
                   expired, refreshable, executed>>

RequestStep(q) ==
    \/ Serve(q) \/ Deny(q) \/ StartRefresh(q) \/ JoinRefresh(q)
    \/ Answer(q) \/ NetworkFails(q)

RefreshStep(x) == Refreshed(x) \/ RefreshFailed(x)

Next ==
    \/ MountWidget \/ AdminStep
    \/ \E x \in Tokens : ExchangeStep(x) \/ Expire(x) \/ RefreshStep(x)
    \/ \E q \in Requests : Fetch(q) \/ RequestStep(q)

\* The auth service answers or the connection breaks, and so does the chat
\* service; the page runs what is due.
Fairness ==
    /\ \A x \in Tokens : WF_vars(ExchangeStep(x)) /\ WF_vars(RefreshStep(x))
    /\ \A q \in Requests : WF_vars(RequestStep(q))

Spec == Init /\ [][Next]_vars /\ Fairness

-----------------------------------------------------------------------------
\* The types of the token and of its refresh.
TypeAuth ==
    /\ exchange \in [Tokens -> {"none", "check", "upsert", "issued", "failed"}]
    /\ carried \in [Tokens -> [secret : Nat, inForce : Nat]]
    /\ role \in [Tokens -> Roles \cup {None}]
    /\ undisturbed \in [Tokens -> BOOLEAN]
    /\ secret \in Nat /\ held \in Nat
    /\ stored \in Roles \cup {None} /\ ruled \in Roles \cup {None}

TypeClient ==
    /\ current \in Tokens \cup {None} /\ refresh \in Tokens \cup {None}
    /\ req \in [Requests -> {"idle", "sent", "resent", "served", "denied",
                             "deniedAgain", "waiting", "ended"}]
    /\ bearer \in [Requests -> Tokens \cup {None}]
    /\ refused \in [Requests -> Tokens \cup {None}]
    /\ awaits \in [Requests -> Tokens \cup {None}]

\* Every variable has its type.
TypeOK ==
    /\ TypeAuth /\ TypeClient
    /\ expired \subseteq Tokens /\ refreshable \in BOOLEAN
    /\ executed \in [Requests -> Nat]

\* However many requests meet the expired token at once, the page's
\* tokenProvider is asked once ("instead of triggering N refreshes",
\* client.ts).
OneRefresh == Cardinality(UnderWay) <= 1

\* A request is sent again only with a token younger than the one refused,
\* also when other refreshes came in between: with the same one it would be
\* refused again, the loop client.ts tells of.
RetryUsesNewToken ==
    \A q \in Requests : req[q] = "resent" => refused[q] # None /\ bearer[q] > refused[q]

\* The chat service acts at most once on a request, though the client sends
\* it twice: what earned the first a 401 kept it from being acted on.
AtMostOnce == \A q \in Requests : executed[q] <= 1

\* A token carries what the admin decided about the user, if its exchange
\* began after that, whatever role the page asks for: neither the mount nor
\* a refresh undoes a promotion or a demotion.
RoleSticks ==
    \A x \in Tokens :
        exchange[x] = "issued" /\ undisturbed[x] /\ ruled # None => role[x] = ruled

\* No token is issued for a secret replaced before its exchange began.
OldSecretRefused ==
    \A x \in Tokens :
        exchange[x] = "issued" => carried[x].secret = carried[x].inForce

\* Every request ends, with or without a refresh, its own or another's.
EveryRequestEnds == \A q \in Requests : req[q] = "sent" ~> req[q] = "ended"
=============================================================================
