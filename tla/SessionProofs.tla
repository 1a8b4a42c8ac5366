---------------------------- MODULE SessionProofs ----------------------------
(***************************************************************************)
(* The safety properties of Session, for any numbers of requests, tokens   *)
(* and rotations.  OneRefresh and RetryUsesNewToken are not inductive: one *)
(* exchange is under way because it is the one refreshPromise stands for,  *)
(* and a retry has a younger token because exchanges begin in order and    *)
(* the token in use has always been issued before the next one began.      *)
(***************************************************************************)
EXTENDS Session, FiniteSetTheorems, TLAPS

\* Exchanges begin in the order of their tokens.
InOrder == \A x, y \in Tokens : exchange[x] = "none" /\ x < y => exchange[y] = "none"

\* Until the widget is mounted there is the first exchange and nothing else.
Unmounted ==
    current = None =>
        /\ refresh = None
        /\ \A x \in Tokens : x # 0 => exchange[x] = "none"
        /\ \A q \in Requests : req[q] = "idle"

\* Afterwards the only exchange is the one the promise stands for, and it is
\* younger than the token in use.
Mounted ==
    current # None =>
        /\ exchange[current] = "issued"
        /\ refresh # None => current < refresh
        /\ \A x \in UnderWay : refresh = x

\* A request carries the token in use or an older one; a waiter awaits a
\* younger one than was refused.
Bearers ==
    \A q \in Requests :
        /\ req[q] # "idle" => bearer[q] # None /\ bearer[q] <= current
        /\ req[q] = "waiting" =>
              refused[q] # None /\ awaits[q] # None /\ awaits[q] > refused[q]

\* What was refused, or is still to be served, has not been acted on.
Unserved ==
    \A q \in Requests :
        req[q] \in {"idle", "sent", "denied", "waiting", "resent", "deniedAgain"}
            => executed[q] = 0

\* The row has the role the admin set, whatever exchanges wrote since.
RowRuled == ruled # None => stored = ruled

\* A page's secret is never newer than the one in force, nor is that of an
\* exchange; one that passed the check was in force when it began.
Secrets ==
    /\ held <= secret
    /\ \A x \in Tokens :
          /\ carried[x].secret <= carried[x].inForce
          /\ carried[x].inForce <= secret
          /\ exchange[x] \in {"upsert", "issued"} => carried[x].secret = carried[x].inForce

IInv ==
    /\ InOrder /\ Unmounted /\ Mounted /\ Bearers /\ RetryUsesNewToken
    /\ Unserved /\ AtMostOnce /\ RowRuled /\ RoleSticks /\ Secrets

-----------------------------------------------------------------------------
(* Types.                                                                  *)

\* The initial values have their types.
LEMMA TypeInit == Init => TypeOK
  BY SessionAssumption DEF Init, TypeOK, TypeAuth, TypeClient, Tokens

\* Variables that do not change keep their types.
LEMMA TypeKept ==
    /\ TypeAuth /\ UNCHANGED authVars => TypeAuth'
    /\ TypeClient /\ UNCHANGED clientVars => TypeClient'
  BY DEF TypeAuth, TypeClient, authVars, clientVars

\* A step of the auth service, of an admin or of the clock keeps the types.
LEMMA TypeServer ==
    ASSUME TypeOK, AdminStep \/ \E x \in Tokens : ExchangeStep(x) \/ Expire(x)
    PROVE  TypeOK'
  <1> USE SessionAssumption, TypeKept DEF TypeOK
  <1>1. ASSUME NEW x \in Tokens, ExchangeStep(x) PROVE TypeOK'
    <2>1. Upserted \in Roles
      BY DEF Upserted, TypeAuth
    <2>2. CASE CheckSecret(x) \/ ExchangeFails(x)
      BY <2>1, <2>2 DEF CheckSecret, ExchangeFails, TypeAuth
    <2>3. CASE Issue(x)
      <3>1. TypeAuth'
        BY <2>1, <2>3 DEF Issue, TypeAuth
      <3> QED
        BY <2>3, <3>1 DEF Issue
    <2> QED
      BY <1>1, <2>2, <2>3 DEF ExchangeStep
  <1>2. CASE AdminStep
    <2>1. TypeAuth'
      <3>1. CASE Rotate \/ Install
        BY <3>1 DEF Rotate, Install, TypeAuth
      <3>2. ASSUME NEW r \in Roles, SetRole(r) PROVE TypeAuth'
        <4>1. undisturbed' \in [Tokens -> BOOLEAN]
          BY <3>2 DEF SetRole
        <4> QED
          BY <3>2, <4>1 DEF SetRole, TypeAuth
      <3> QED
        BY <1>2, <3>1, <3>2 DEF AdminStep
    <2> QED
      BY <1>2, <2>1 DEF AdminStep, Rotate, Install, SetRole
  <1>3. ASSUME NEW x \in Tokens, Expire(x) PROVE TypeOK'
    BY <1>3 DEF Expire
  <1> QED
    BY <1>1, <1>2, <1>3

\* So does a step of the widget.
LEMMA TypeWidget ==
    ASSUME TypeOK, \/ MountWidget
                   \/ \E x \in Tokens : RefreshStep(x)
                   \/ \E q \in Requests : Fetch(q) \/ RequestStep(q)
    PROVE  TypeOK'
  <1> USE SessionAssumption, TypeKept DEF TypeOK
  <1>1. CASE MountWidget
    <2>1. TypeClient'
      BY <1>1 DEF MountWidget, TypeClient, Tokens
    <2> QED
      BY <1>1, <2>1 DEF MountWidget
  <1>2. ASSUME NEW x \in Tokens, RefreshStep(x) PROVE TypeOK'
    <2>1. TypeClient'
      BY <1>2 DEF RefreshStep, Refreshed, RefreshFailed, RetryToken, TypeClient
    <2> QED
      BY <1>2, <2>1 DEF RefreshStep, Refreshed, RefreshFailed
  <1>3. ASSUME NEW q \in Requests, StartRefresh(q) PROVE TypeOK'
    <2>1. TypeAuth'
      BY <1>3 DEF StartRefresh, Begin, TypeAuth
    <2>2. TypeClient'
      BY <1>3 DEF StartRefresh, TypeClient
    <2> QED
      BY <1>3, <2>1, <2>2 DEF StartRefresh
  <1>4. ASSUME NEW q \in Requests, Fetch(q) \/ JoinRefresh(q) PROVE TypeOK'
    <2>1. TypeClient'
      BY <1>4 DEF Fetch, JoinRefresh, TypeClient
    <2> QED
      BY <1>4, <2>1 DEF Fetch, JoinRefresh
  <1>5. ASSUME NEW q \in Requests, Serve(q) \/ Deny(q) \/ Answer(q) \/ NetworkFails(q)
        PROVE  TypeOK'
    <2>1. TypeClient'
      BY <1>5 DEF Serve, Deny, Answer, NetworkFails, TypeClient
    <2>2. UNCHANGED <<authVars, expired, refreshable>> /\ executed' \in [Requests -> Nat]
      BY <1>5 DEF Serve, Deny, Answer, NetworkFails
    <2> QED
      BY <2>1, <2>2
  <1> QED
    BY <1>1, <1>2, <1>3, <1>4, <1>5 DEF RequestStep

\* So TypeOK is preserved.
LEMMA TypeStep == TypeOK /\ [Next]_vars => TypeOK'
  <1>1. ASSUME TypeOK, UNCHANGED vars PROVE TypeOK'
    BY <1>1, TypeKept DEF TypeOK, vars
  <1> QED
    BY <1>1, TypeServer, TypeWidget DEF Next

\* TypeOK: tokens, requests and rows are what the code takes them for.
THEOREM SessionTypes == Spec => []TypeOK
  BY TypeInit, TypeStep, PTL DEF Spec

-----------------------------------------------------------------------------
(* The invariant.                                                          *)

\* It holds while the first exchange is on its way.
LEMMA IInvInit == Init => IInv
  <1> SUFFICES ASSUME Init PROVE IInv
    OBVIOUS
  <1> USE SessionAssumption DEF Init
  <1>1. InOrder /\ Unmounted /\ Mounted
    BY DEF InOrder, Unmounted, Mounted, Tokens
  <1>2. Bearers /\ RetryUsesNewToken /\ Unserved /\ AtMostOnce
    BY DEF Bearers, RetryUsesNewToken, Unserved, AtMostOnce
  <1>3. RowRuled /\ RoleSticks /\ Secrets
    BY DEF RowRuled, RoleSticks, Secrets
  <1> QED
    BY <1>1, <1>2, <1>3 DEF IInv

\* An exchange passes the check, is issued or fails.
LEMMA ExchangeInv ==
    ASSUME TypeOK, TypeOK', IInv, NEW x \in Tokens, ExchangeStep(x)
    PROVE  IInv'
  <1> USE DEF IInv
  <1>1. /\ exchange[x] \in {"check", "upsert"}
        /\ exchange'[x] \in {"upsert", "issued", "failed"}
        /\ \A y \in Tokens : y # x => exchange'[y] = exchange[y]
        /\ UNCHANGED <<clientVars, carried, undisturbed, secret, held, ruled, executed>>
    BY DEF ExchangeStep, CheckSecret, Issue, ExchangeFails, UnderWay, TypeOK, TypeAuth
  <1>2. InOrder' /\ Unmounted' /\ Mounted'
    BY <1>1 DEF InOrder, Unmounted, Mounted, UnderWay, clientVars, TypeOK, TypeClient
  <1>3. Bearers' /\ RetryUsesNewToken' /\ Unserved' /\ AtMostOnce'
    BY <1>1 DEF Bearers, RetryUsesNewToken, Unserved, AtMostOnce, clientVars
  <1>4. RowRuled' /\ RoleSticks'
    BY <1>1 DEF RowRuled, RoleSticks, ExchangeStep, CheckSecret, Issue, ExchangeFails,
                Upserted, TypeOK, TypeAuth
  <1>5. Secrets'
    BY <1>1 DEF Secrets, ExchangeStep, CheckSecret, Issue, ExchangeFails, Accepts,
                UnderWay, TypeOK, TypeAuth
  <1> QED
    BY <1>2, <1>3, <1>4, <1>5

\* An admin rotates the secret or changes the role, the page's operator
\* installs a secret, a token expires.
LEMMA AdminInv ==
    ASSUME TypeOK, TypeOK', IInv, AdminStep \/ \E x \in Tokens : Expire(x)
    PROVE  IInv'
  <1> USE DEF IInv
  <1>1. UNCHANGED <<clientVars, exchange, carried, role, executed>>
    BY DEF AdminStep, Rotate, Install, SetRole, Expire, authVars
  <1>2. InOrder' /\ Unmounted' /\ Mounted'
    BY <1>1 DEF InOrder, Unmounted, Mounted, UnderWay, clientVars
  <1>3. Bearers' /\ RetryUsesNewToken' /\ Unserved' /\ AtMostOnce'
    BY <1>1 DEF Bearers, RetryUsesNewToken, Unserved, AtMostOnce, clientVars
  <1>4. RowRuled' /\ RoleSticks'
    BY <1>1 DEF RowRuled, RoleSticks, AdminStep, Rotate, Install, SetRole, Expire, authVars
  <1>5. Secrets'
    <2>1. secret \in Nat /\ held \in Nat /\ \A y \in Tokens : carried[y].inForce \in Nat
      BY DEF TypeOK, TypeAuth
    <2>2. secret' >= secret /\ held' <= secret'
      BY <2>1 DEF Secrets, AdminStep, Rotate, Install, SetRole, Expire, authVars
    <2>3. secret' \in Nat
      BY DEF TypeOK, TypeAuth
    <2> QED
      BY <1>1, <2>1, <2>2, <2>3 DEF Secrets
  <1> QED
    BY <1>2, <1>3, <1>4, <1>5

\* What the widget does leaves the rows, the secrets and the claims alone,
\* unless it begins an exchange.
LEMMA AuthKept ==
    ASSUME IInv, UNCHANGED authVars
    PROVE  InOrder' /\ RowRuled' /\ RoleSticks' /\ Secrets'
  BY DEF IInv, InOrder, RowRuled, RoleSticks, Secrets, authVars

\* The widget is mounted with the first token.
LEMMA MountInv ==
    ASSUME TypeOK, TypeOK', IInv, MountWidget
    PROVE  IInv'
  <1> USE DEF IInv
  <1>1. InOrder' /\ RowRuled' /\ RoleSticks' /\ Secrets'
    BY AuthKept DEF MountWidget
  <1>2. Unmounted' /\ Mounted'
    BY SessionAssumption DEF Unmounted, Mounted, MountWidget, UnderWay, authVars
  <1>3. Bearers' /\ RetryUsesNewToken' /\ Unserved' /\ AtMostOnce'
    BY DEF Bearers, RetryUsesNewToken, Unserved, AtMostOnce, Unmounted, MountWidget
  <1> QED
    BY <1>1, <1>2, <1>3

\* A request is sent, served, denied, answered or lost.
LEMMA RequestInv ==
    ASSUME TypeOK, TypeOK', IInv, NEW q \in Requests,
           Fetch(q) \/ Serve(q) \/ Deny(q) \/ Answer(q) \/ NetworkFails(q)
    PROVE  IInv'
  <1> USE DEF IInv
  <1>1. UNCHANGED <<authVars, current, refresh, refused, awaits>>
    BY DEF Fetch, Serve, Deny, Answer, NetworkFails
  <1>2. InOrder' /\ RowRuled' /\ RoleSticks' /\ Secrets'
    BY <1>1, AuthKept
  <1>3. current # None
    BY DEF Unmounted, Fetch, Serve, Deny, Answer, NetworkFails
  <1>4. Unmounted' /\ Mounted'
    BY <1>1, <1>3 DEF Unmounted, Mounted, UnderWay, authVars
  <1>5. current \in Nat
    BY <1>3 DEF TypeOK, TypeClient, Tokens
  <1>6. Bearers' /\ RetryUsesNewToken'
    BY <1>1, <1>3, <1>5 DEF Bearers, RetryUsesNewToken, Fetch, Serve, Deny, Answer,
                            NetworkFails, TypeOK, TypeClient
  <1>7. Unserved' /\ AtMostOnce'
    BY DEF Unserved, AtMostOnce, Fetch, Serve, Deny, Answer, NetworkFails, TypeOK, TypeClient
  <1> QED
    BY <1>2, <1>4, <1>6, <1>7

\* A request that was denied waits for a refresh under way.
LEMMA JoinInv ==
    ASSUME TypeOK, TypeOK', IInv, NEW q \in Requests, JoinRefresh(q)
    PROVE  IInv'
  <1> USE DEF IInv, JoinRefresh
  <1>1. InOrder' /\ RowRuled' /\ RoleSticks' /\ Secrets'
    BY AuthKept
  <1>2. current # None /\ refresh # None
    BY DEF Unmounted
  <1>3. Unmounted' /\ Mounted'
    BY <1>2 DEF Unmounted, Mounted, UnderWay, authVars
  <1>4. current \in Nat /\ refresh \in Nat /\ current < refresh
    BY <1>2 DEF Mounted, TypeOK, TypeClient, Tokens
  <1>5. bearer[q] \in Nat /\ bearer[q] <= current
    BY DEF Bearers, TypeOK, TypeClient, Tokens
  <1>6. Bearers'
    BY <1>2, <1>4, <1>5, SessionAssumption DEF Bearers, TypeOK, TypeClient
  <1>7. RetryUsesNewToken' /\ Unserved' /\ AtMostOnce'
    BY DEF RetryUsesNewToken, Unserved, AtMostOnce, TypeOK, TypeClient
  <1> QED
    BY <1>1, <1>3, <1>6, <1>7

\* Or it starts one, with the next token, which is younger than any used.
LEMMA StartInv ==
    ASSUME TypeOK, TypeOK', IInv, NEW q \in Requests, StartRefresh(q)
    PROVE  IInv'
  <1> USE DEF IInv
  <1>1. PICK x \in Tokens :
          /\ \A y \in Tokens : exchange[y] = "none" => x <= y
          /\ exchange[x] = "none" /\ exchange' = [exchange EXCEPT ![x] = "check"]
          /\ carried' = [carried EXCEPT ![x] = [secret |-> held, inForce |-> secret]]
          /\ undisturbed' = [undisturbed EXCEPT ![x] = TRUE]
          /\ refresh' = x /\ awaits' = [awaits EXCEPT ![q] = x]
    BY DEF StartRefresh, Begin
  <1>2. /\ req[q] = "denied" /\ refresh = None /\ current # None
        /\ req' = [req EXCEPT ![q] = "waiting"]
        /\ refused' = [refused EXCEPT ![q] = bearer[q]]
        /\ UNCHANGED <<role, secret, held, stored, ruled, current, bearer, executed>>
    BY DEF StartRefresh, Unmounted
  <1>3. /\ exchange'[x] = "check" /\ \A y \in Tokens : y # x => exchange'[y] = exchange[y]
        /\ Tokens \subseteq Nat
    BY <1>1 DEF TypeOK, TypeAuth, Tokens
  <1>4. current \in Tokens /\ current < x
    BY <1>1, <1>2, <1>3 DEF Mounted, InOrder, TypeOK, TypeClient
  <1>5. bearer[q] \in Nat /\ bearer[q] <= current
    BY <1>2, <1>3 DEF Bearers, TypeOK, TypeClient
  <1>6. InOrder'
    BY <1>1, <1>3 DEF InOrder
  <1>7. Unmounted' /\ Mounted'
    <2>1. UnderWay = {}
      BY <1>2, <1>3, SessionAssumption DEF Mounted, UnderWay
    <2>2. UnderWay' = {x}
      BY <1>3, <2>1 DEF UnderWay
    <2>3. x # current /\ exchange'[current] = "issued"
      BY <1>2, <1>3, <1>4 DEF Mounted
    <2> QED
      BY <1>1, <1>2, <1>4, <2>2, <2>3 DEF Unmounted, Mounted
  <1>8. Bearers'
    BY <1>1, <1>2, <1>3, <1>4, <1>5, SessionAssumption DEF Bearers, TypeOK, TypeClient
  <1>9. RetryUsesNewToken' /\ Unserved' /\ AtMostOnce'
    BY <1>2 DEF RetryUsesNewToken, Unserved, AtMostOnce, TypeOK, TypeClient
  <1>10. RowRuled' /\ RoleSticks'
    BY <1>1, <1>2, <1>3 DEF RowRuled, RoleSticks, TypeOK, TypeAuth
  <1>11. Secrets'
    BY <1>1, <1>2, <1>3 DEF Secrets, TypeOK, TypeAuth
  <1> QED
    BY <1>6, <1>7, <1>8, <1>9, <1>10, <1>11

\* The refresh succeeds, and all that waited for it are sent again.
LEMMA RefreshedInv ==
    ASSUME TypeOK, TypeOK', IInv, NEW x \in Tokens, Refreshed(x)
    PROVE  IInv'
  <1> USE DEF IInv
  <1>1. /\ refresh = x /\ refresh' = None /\ exchange[x] = "issued" /\ current' = x
        /\ UNCHANGED <<authVars, refused, executed>>
    BY DEF Refreshed
  <1>2. \A q \in Requests :
          IF req[q] = "waiting" /\ awaits[q] = x
          THEN req'[q] = "resent" /\ bearer'[q] = x
          ELSE req'[q] = req[q] /\ bearer'[q] = bearer[q] /\ awaits'[q] = awaits[q]
    BY DEF Refreshed, Resumed, RetryToken, Waiters
  <1>3. InOrder' /\ RowRuled' /\ RoleSticks' /\ Secrets'
    BY <1>1, AuthKept
  <1>4. x # None /\ Tokens \subseteq Nat
    BY SessionAssumption DEF Tokens
  <1>5. current # None /\ current \in Nat /\ current < x
    BY <1>1, <1>4 DEF Unmounted, Mounted, TypeOK, TypeClient
  <1>6. Unmounted' /\ Mounted'
    BY <1>1, <1>4, <1>5 DEF Unmounted, Mounted, UnderWay, authVars
  <1>7. Bearers'
    <2>1. ASSUME NEW q \in Requests, req[q] # "idle" PROVE bearer[q] # None /\ bearer[q] <= x
      <3>1. bearer[q] # None /\ bearer[q] <= current
        BY <2>1 DEF Bearers
      <3>2. bearer[q] \in Nat
        BY <1>4, <3>1 DEF TypeOK, TypeClient
      <3> QED
        BY <1>4, <1>5, <3>1, <3>2
    <2> QED
      BY <1>1, <1>2, <1>4, <2>1 DEF Bearers
  <1>8. RetryUsesNewToken'
    BY <1>1, <1>2, <1>4 DEF RetryUsesNewToken, Bearers
  <1>9. Unserved' /\ AtMostOnce'
    BY <1>1, <1>2 DEF Unserved, AtMostOnce
  <1> QED
    BY <1>3, <1>6, <1>7, <1>8, <1>9

\* It fails, and so do they.
LEMMA RefreshFailedInv ==
    ASSUME TypeOK, TypeOK', IInv, NEW x \in Tokens, RefreshFailed(x)
    PROVE  IInv'
  <1> USE DEF IInv
  <1>1. /\ refresh = x /\ refresh' = None /\ exchange[x] = "failed"
        /\ UNCHANGED <<authVars, current, bearer, refused, executed>>
    BY DEF RefreshFailed
  <1>2. \A q \in Requests :
          IF req[q] = "waiting" /\ awaits[q] = x
          THEN req'[q] = "ended"
          ELSE req'[q] = req[q] /\ awaits'[q] = awaits[q]
    BY DEF RefreshFailed, Waiters
  <1>3. InOrder' /\ RowRuled' /\ RoleSticks' /\ Secrets'
    BY <1>1, AuthKept
  <1>4. current # None
    BY <1>1, SessionAssumption DEF Unmounted, Tokens
  <1>5. Unmounted' /\ Mounted'
    BY <1>1, <1>4 DEF Unmounted, Mounted, UnderWay, authVars
  <1>6. Bearers' /\ RetryUsesNewToken'
    BY <1>1, <1>2 DEF Bearers, RetryUsesNewToken
  <1>7. Unserved' /\ AtMostOnce'
    BY <1>1, <1>2 DEF Unserved, AtMostOnce
  <1> QED
    BY <1>3, <1>5, <1>6, <1>7

\* The invariant holds in every state.
LEMMA Invariance == Spec => [](TypeOK /\ IInv)
  <1>1. Init => TypeOK /\ IInv
    BY TypeInit, IInvInit
  <1>2. TypeOK /\ IInv /\ [Next]_vars => (TypeOK /\ IInv)'
    <2> SUFFICES ASSUME TypeOK, IInv, [Next]_vars PROVE IInv'
      BY TypeStep
    <2>1. TypeOK'
      BY TypeStep
    <2>2. CASE UNCHANGED vars
      BY <2>2 DEF vars, authVars, clientVars, IInv, InOrder, Unmounted, Mounted, UnderWay,
                  Bearers, RetryUsesNewToken, Unserved, AtMostOnce, RowRuled, RoleSticks, Secrets
    <2>3. CASE Next
      BY <2>1, <2>3, ExchangeInv, AdminInv, MountInv, RequestInv, JoinInv, StartInv,
         RefreshedInv, RefreshFailedInv
      DEF Next, RequestStep, RefreshStep
    <2> QED
      BY <2>2, <2>3
  <1> QED
    BY <1>1, <1>2, PTL DEF Spec

-----------------------------------------------------------------------------
\* OneRefresh: however many requests are refused, one exchange is under way.
THEOREM RefreshesAreOne == Spec => []OneRefresh
  <1>1. TypeOK /\ IInv => OneRefresh
    <2> SUFFICES ASSUME TypeOK, IInv PROVE Cardinality(UnderWay) <= 1
      BY DEF OneRefresh
    <2>1. PICK t : UnderWay \subseteq {t}
      BY DEF IInv, Unmounted, Mounted, UnderWay
    <2>2. IsFiniteSet({t}) /\ Cardinality({t}) = 1
      BY FS_Singleton
    <2> QED
      BY <2>1, <2>2, FS_Subset, FS_CardinalityType
  <1> QED
    BY <1>1, Invariance, PTL

\* RetryUsesNewToken: no request is repeated with the token that was refused.
THEOREM RetriesAreNew == Spec => []RetryUsesNewToken
  <1>1. IInv => RetryUsesNewToken
    BY DEF IInv
  <1> QED
    BY <1>1, Invariance, PTL

\* AtMostOnce: a repeated request is acted on once.
THEOREM RequestsActOnce == Spec => []AtMostOnce
  <1>1. IInv => AtMostOnce
    BY DEF IInv
  <1> QED
    BY <1>1, Invariance, PTL

\* RoleSticks: no exchange undoes what an admin decided.
THEOREM RolesStick == Spec => []RoleSticks
  <1>1. IInv => RoleSticks
    BY DEF IInv
  <1> QED
    BY <1>1, Invariance, PTL

\* OldSecretRefused: a replaced secret gets no token.
THEOREM OldSecretsFail == Spec => []OldSecretRefused
  <1>1. IInv => OldSecretRefused
    BY DEF IInv, Secrets, OldSecretRefused
  <1> QED
    BY <1>1, Invariance, PTL
=============================================================================
