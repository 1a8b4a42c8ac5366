-------------------------- MODULE ModerationProofs --------------------------
(***************************************************************************)
(* Banned and muted users post nothing, and two mutes of one chat come     *)
(* from overlapping calls, for any number of bans, mutes, requests and     *)
(* failures.  The invariant says that every restriction a request still    *)
(* watches is in force (so a check that found none cannot have been one of *)
(* them), and that calls between GetActive and the insert know each other. *)
(***************************************************************************)
EXTENDS Moderation, TLAPS

-----------------------------------------------------------------------------
(* BanCheck keeps banned users out, for any number of bans and requests,   *)
(* any scopes and any failures of Redis.  What makes the property          *)
(* inductive is that "covered" is backed by a row (CoverInv): Redis does   *)
(* not occur in the argument, the table decides.                           *)

CoverInv == \A r \in Requests : covered[r] => CoveredBy(r, InForce)

Inv == TypeOK /\ CoverInv /\ BannedStaysOut

\* No request has come in yet.
LEMMA InvInit == Init => Inv
BY BansAssumption DEF Init, Inv, TypeOK, CoverInv, BannedStaysOut

\* A row is inserted or ends: covered requests lose their cover with the
\* last row that concerns them, not before.
LEMMA InvRows ==
    ASSUME Inv, NEW b \in BanIds, InsertBan(b) \/ DeleteBan(b) \/ BanExpires(b)
    PROVE  Inv'
<1> USE DEF Inv, TypeOK
<1>1. CASE InsertBan(b)
  <2>1. InForce \subseteq InForce'
    BY <1>1 DEF InsertBan, InForce
  <2>2. \A r \in Requests : CoveredBy(r, InForce) => CoveredBy(r, InForce')
    BY <2>1 DEF CoveredBy
  <2> QED
    BY <1>1, <2>2 DEF InsertBan, CoverInv, BannedStaysOut, CoveredBy
<1>2. CASE DeleteBan(b) \/ BanExpires(b)
  <2>1. InForce' = InForce \ {b}
    BY <1>2 DEF DeleteBan, BanExpires, Ends, InForce
  <2>2. \A r \in Requests : covered'[r] = (covered[r] /\ CoveredBy(r, InForce \ {b}))
    BY <1>2 DEF DeleteBan, BanExpires, Ends
  <2>3. TypeOK'
    BY <1>2, BansAssumption DEF DeleteBan, BanExpires, Ends, admin, CoveredBy
  <2>4. CoverInv'
    BY <2>1, <2>2 DEF CoverInv, CoveredBy
  <2>5. BannedStaysOut'
    BY <1>2, <2>2 DEF BannedStaysOut, DeleteBan, BanExpires
  <2> QED
    BY <2>3, <2>4, <2>5
<1> QED
  BY <1>1, <1>2

\* The steps that touch Redis only.
LEMMA InvKey ==
    ASSUME Inv,
           \/ KeyExpires \/ KeyLost
           \/ \E b \in BanIds : SetKey(b) \/ SetKeyFails(b) \/ DelKey(b) \/ DelKeyFails(b)
    PROVE  Inv'
<1>1. UNCHANGED <<row, request, covered>>
  BY DEF KeyExpires, KeyLost, SetKey, SetKeyFails, DelKey, DelKeyFails
<1>2. TypeOK'
  BY BansAssumption
     DEF Inv, TypeOK, KeyExpires, KeyLost, SetKey, SetKeyFails, DelKey, DelKeyFails, admin, Fault
<1>3. CoverInv' /\ BannedStaysOut'
  BY <1>1 DEF Inv, CoverInv, BannedStaysOut, CoveredBy, InForce
<1> QED
  BY <1>2, <1>3 DEF Inv

\* A request is admitted by QueryBans only, when no row is in force at all.
LEMMA InvRequest ==
    ASSUME Inv, NEW r \in Requests, RequestStep(r)
    PROVE  Inv'
<1> USE DEF Inv, TypeOK, admin, Fault
<1>1. InForce' = InForce
  BY DEF RequestStep, Arrive, CheckKey, CheckKeyFails, QueryBans, QueryBansFails,
         Repopulate, RepopulateFails, InForce
<1>2. CASE Arrive(r)
  <2>1. covered'[r] = CoveredBy(r, InForce) /\ \A s \in Requests : s # r => covered'[s] = covered[s]
    BY <1>2 DEF Arrive
  <2>2. request'[r] = "exists" /\ \A s \in Requests : s # r => request'[s] = request[s]
    BY <1>2 DEF Arrive, RequestAt
  <2>3. TypeOK'
    BY <1>2 DEF Arrive, RequestAt, CoveredBy
  <2>4. CoverInv'
    BY <1>1, <2>1 DEF CoverInv, CoveredBy
  <2>5. BannedStaysOut'
    BY <2>1, <2>2 DEF BannedStaysOut
  <2> QED
    BY <2>3, <2>4, <2>5
<1>3. CASE QueryBans(r)
  <2>1. UNCHANGED covered
    BY <1>3 DEF QueryBans
  <2>2. request'[r] = "admitted" => InForce = {}
    BY <1>3 DEF QueryBans, RequestAt
  <2>3. \A s \in Requests : s # r => request'[s] = request[s]
    BY <1>3 DEF QueryBans, RequestAt
  <2>4. TypeOK'
    BY <1>3 DEF QueryBans, RequestAt
  <2>5. CoverInv'
    BY <1>1, <2>1 DEF CoverInv, CoveredBy
  <2>6. BannedStaysOut'
    BY <2>1, <2>2, <2>3 DEF BannedStaysOut, CoverInv, CoveredBy
  <2> QED
    BY <2>4, <2>5, <2>6
<1>4. CASE CheckKey(r) \/ CheckKeyFails(r) \/ QueryBansFails(r) \/ Repopulate(r) \/ RepopulateFails(r)
  <2>1. UNCHANGED covered
    BY <1>4 DEF CheckKey, CheckKeyFails, QueryBansFails, Repopulate, RepopulateFails
  <2>2. request'[r] # "admitted" /\ \A s \in Requests : s # r => request'[s] = request[s]
    BY <1>4 DEF CheckKey, CheckKeyFails, QueryBansFails, Repopulate, RepopulateFails, RequestAt
  <2>3. TypeOK'
    BY <1>4 DEF CheckKey, CheckKeyFails, QueryBansFails, Repopulate, RepopulateFails, RequestAt
  <2>4. CoverInv'
    BY <1>1, <2>1 DEF CoverInv, CoveredBy
  <2>5. BannedStaysOut'
    BY <2>1, <2>2 DEF BannedStaysOut
  <2> QED
    BY <2>3, <2>4, <2>5
<1> QED
  BY <1>2, <1>3, <1>4 DEF RequestStep

\* Every step keeps the invariant.
LEMMA InvStep == Inv /\ [Next]_vars => Inv'
<1> SUFFICES ASSUME Inv, [Next]_vars PROVE Inv'
  OBVIOUS
<1>1. CASE UNCHANGED vars
  BY <1>1 DEF vars, admin, Inv, TypeOK, CoverInv, BannedStaysOut, CoveredBy, InForce
<1>2. CASE Next
  BY <1>2, InvRows, InvKey, InvRequest DEF Next, BanStep
<1> QED
  BY <1>1, <1>2

\* BanCheck admits no request while a ban that concerns it has been in force
\* since it came in, whatever Redis holds, loses or fails to answer.
THEOREM BansAreEnforced == Spec => []BannedStaysOut
<1>1. Inv => BannedStaysOut
  BY DEF Inv
<1> QED
  BY <1>1, InvInit, InvStep, PTL DEF Spec

-----------------------------------------------------------------------------
(* SendMessage and CreateMute.                                             *)

MuteTypeOK ==
    /\ muting \in [Mutes -> {"new", "insert", "done"}]
    /\ mute \in [Mutes -> {"none", "active", "ended"}]
    /\ beside \in [Mutes -> SUBSET Mutes]

PostTypeOK ==
    /\ post \in [Requests -> {"none", "exists", "query", "mute", "reply",
                              "insert", "stored", "refused"}]
    /\ watched \in [Requests -> SUBSET {"ban", "mute"}]
    /\ missed \in [Requests -> SUBSET {"ban", "mute"}]

\* Calls past GetActive at the same time are beside each other, and no mute
\* was in force when a call that is about to insert asked, except those of
\* the calls beside it.
MuteInv ==
    /\ MuteTypeOK
    /\ \A k \in Mutes :
        /\ muting[k] # "done" => mute[k] = "none"
        /\ muting[k] = "new" => beside[k] = {}
    /\ \A k, l \in Mutes : l \in beside[k] => k \in beside[l]
    /\ \A k, l \in Mutes :
        k # l /\ muting[k] = "insert" /\ muting[l] = "insert" => l \in beside[k]
    /\ \A k, l \in Mutes :
        /\ k # l /\ MuteChat[k] = MuteChat[l]
        /\ muting[k] = "insert" /\ mute[l] = "active"
        => l \in beside[k]
    /\ TwoMutesOverlapped

PastBan == {"mute", "reply", "insert", "stored"}
PastMute == {"reply", "insert", "stored"}

PostInv ==
    /\ PostTypeOK
    /\ \A r \in Requests :
        /\ watched[r] \subseteq Restrictions(r)
        /\ post[r] \in PastBan /\ "ban" \in watched[r] => "ban" \in missed[r]
        /\ post[r] \in PastMute /\ "mute" \in watched[r] => "mute" \in missed[r]

ModerationInv == Inv /\ MuteInv /\ PostInv

LEMMA ModerationInvInit == ModerationInit => ModerationInv
<1> SUFFICES ASSUME ModerationInit PROVE ModerationInv
  OBVIOUS
<1>1. Inv
  BY InvInit DEF ModerationInit
<1>2. MuteInv
  BY DEF ModerationInit, MuteInv, MuteTypeOK, TwoMutesOverlapped
<1>3. PostInv
  BY DEF ModerationInit, PostInv, PostTypeOK, PastBan, PastMute
<1> QED
  BY <1>1, <1>2, <1>3 DEF ModerationInv

-----------------------------------------------------------------------------
\* Of the variables of Bans, a step of a CreateMute call or of SendMessage
\* changes at most the count of failures.
LEMMA InvOther ==
    ASSUME Inv, UNCHANGED <<row, key, admin, request, covered>>, faults' \in Nat
    PROVE  Inv'
BY DEF Inv, TypeOK, CoverInv, BannedStaysOut, CoveredBy, InForce, admin

\* A step of the admin service or of BanCheck, or of a mute, or of a post.
LEMMA StepOf ==
    ASSUME ModerationInv, ModerationNext
    PROVE  /\ Inv'
           /\ \/ UNCHANGED muteVars
              \/ \E k \in Mutes : MuteStep(k)
           /\ \/ UNCHANGED postVars
              \/ \E r \in Requests : PostStep(r)
<1>1. CASE BanningStep
  BY <1>1, InvStep DEF ModerationInv, BanningStep, muteVars, postVars
<1>2. ASSUME NEW k \in Mutes, MuteStep(k)
      PROVE  UNCHANGED postVars /\ Inv'
  <2>1. /\ UNCHANGED <<row, key, admin, request, covered>>
        /\ UNCHANGED postVars
        /\ faults' = faults \/ faults' = faults + 1
    BY <1>2 DEF MuteStep, AlreadyMuted, NotYetMuted, InsertMute, CreateMuteFails, Unmute,
                MuteExpires, vars, Fault
  <2> QED
    BY <2>1, InvOther DEF ModerationInv, Inv, TypeOK
<1>3. ASSUME NEW r \in Requests, PostStep(r)
      PROVE  UNCHANGED muteVars /\ Inv'
  <2>1. /\ UNCHANGED <<row, key, admin, request, covered>>
        /\ UNCHANGED muteVars
        /\ faults' = faults \/ faults' = faults + 1
    BY <1>3 DEF PostStep, Enter, TurnedAway, PostKey, PostKeyFails, PostBanned, PostBannedFails,
                PostMuted, PostMutedFails, CheckFails, PostReply, Store, vars, Fault
  <2> QED
    BY <2>1, InvOther DEF ModerationInv, Inv, TypeOK
<1> QED
  BY <1>1, <1>2, <1>3 DEF ModerationNext

-----------------------------------------------------------------------------
\* GetActive found nothing: whoever inserts from now on is beside the call.
LEMMA MuteInvCheck ==
    ASSUME MuteInv, NEW k \in Mutes, NotYetMuted(k)
    PROVE  MuteInv'
<1> DEFINE others == {l \in Mutes : muting[l] = "insert"}
<1> USE DEF MuteInv, MuteTypeOK
<1>1. /\ muting[k] = "new" /\ k \notin others /\ beside[k] = {} /\ mute[k] = "none"
      /\ muting' = [muting EXCEPT ![k] = "insert"]
      /\ mute' = mute
      /\ beside' = [l \in Mutes |-> IF l = k THEN others
                                    ELSE IF l \in others THEN beside[l] \cup {k}
                                    ELSE beside[l]]
  BY DEF NotYetMuted, MutingAt
<1>2. \A l \in Mutes : MuteChat[l] = MuteChat[k] => mute[l] # "active"
  BY DEF NotYetMuted, Active, MutesInForce
<1>3. MuteTypeOK'
  BY <1>1
<1>4. \A l \in Mutes : k \notin beside[l]
  BY <1>1
<1>5. \A i, j \in Mutes : j \in beside'[i] => i \in beside'[j]
  BY <1>1, <1>4
<1>6. \A i, j \in Mutes : j \in beside[i] => j \in beside'[i]
  BY <1>1
<1>7. \A i, j \in Mutes :
        i # j /\ muting'[i] = "insert" /\ muting'[j] = "insert" => j \in beside'[i]
  BY <1>1, <1>6
<1>8. \A i, j \in Mutes :
        /\ i # j /\ MuteChat[i] = MuteChat[j]
        /\ muting'[i] = "insert" /\ mute'[j] = "active"
        => j \in beside'[i]
  BY <1>1, <1>2, <1>6
<1>9. TwoMutesOverlapped'
  BY <1>1, <1>6 DEF TwoMutesOverlapped
<1>10. \A i \in Mutes : /\ muting'[i] # "done" => mute'[i] = "none"
                        /\ muting'[i] = "new" => beside'[i] = {}
  BY <1>1
<1> QED
  BY <1>3, <1>5, <1>7, <1>8, <1>9, <1>10

LEMMA MuteInvInsert ==
    ASSUME MuteInv, NEW k \in Mutes, InsertMute(k)
    PROVE  MuteInv'
<1> USE DEF MuteInv, MuteTypeOK
<1>1. /\ muting[k] = "insert"
      /\ muting' = [muting EXCEPT ![k] = "done"]
      /\ mute' = [mute EXCEPT ![k] = "active"]
      /\ beside' = beside
  BY DEF InsertMute, MutingAt
<1>2. TwoMutesOverlapped'
  BY <1>1 DEF TwoMutesOverlapped
<1> QED
  BY <1>1, <1>2

LEMMA MuteInvOther ==
    ASSUME MuteInv, NEW k \in Mutes, AlreadyMuted(k) \/ CreateMuteFails(k) \/ Unmute(k) \/ MuteExpires(k)
    PROVE  MuteInv'
<1> USE DEF MuteInv, MuteTypeOK
<1>1. beside' = beside
  BY DEF AlreadyMuted, CreateMuteFails, Unmute, MuteExpires
<1>2. CASE AlreadyMuted(k) \/ CreateMuteFails(k)
  BY <1>1, <1>2 DEF AlreadyMuted, CreateMuteFails, MutingAt, TwoMutesOverlapped
<1>3. CASE Unmute(k) \/ MuteExpires(k)
  BY <1>1, <1>3 DEF Unmute, MuteExpires, TwoMutesOverlapped
<1> QED
  BY <1>2, <1>3

-----------------------------------------------------------------------------
\* Once in SendMessage a request takes no new restriction on its watch.
LEMMA WatchShrinks ==
    ASSUME PostInv, PostTypeOK', Watch, NEW r \in Requests
    PROVE  /\ watched'[r] \subseteq Restrictions(r)'
           /\ post[r] # "none" => watched'[r] \subseteq watched[r]
BY DEF Watch, PostInv, PostTypeOK

\* A check that is passed found nothing on the watch, or its query failed.
LEMMA PassedFree ==
    ASSUME PostInv, NEW r \in Requests, NEW s \in Requests, PostStep(s)
    PROVE  /\ post[r] = "none" => post'[r] \notin PastBan
           /\ missed[r] \subseteq missed'[r]
           /\ post'[r] \in PastBan /\ post[r] \notin PastBan
                => "ban" \notin watched[r] \/ "ban" \in missed'[r]
           /\ post'[r] \in PastMute /\ post[r] \notin PastMute
                => "mute" \notin watched[r] \/ "mute" \in missed'[r]
<1> USE DEF PostInv, PostTypeOK, PastBan, PastMute, PostAt
<1>1. CASE PostBanned(s)
  <2>1. InForce = {} => "ban" \notin Restrictions(s)
    BY DEF Restrictions, CoveredBy
  <2> QED
    BY <1>1, <2>1 DEF PostBanned
<1>2. CASE PostMuted(s)
  <2>1. MutesInForce(Target[s]) = {} => "mute" \notin Restrictions(s)
    BY DEF Restrictions
  <2> QED
    BY <1>2, <2>1 DEF PostMuted
<1>3. CASE PostBannedFails(s) \/ PostMutedFails(s)
  BY <1>3 DEF PostBannedFails, PostMutedFails, CheckFails
<1>4. CASE Enter(s) \/ TurnedAway(s) \/ PostKey(s) \/ PostKeyFails(s) \/ PostReply(s) \/ Store(s)
  BY <1>4 DEF Enter, TurnedAway, PostKey, PostKeyFails, PostReply, Store
<1> QED
  BY <1>1, <1>2, <1>3, <1>4 DEF PostStep

\* The types survive a step of SendMessage.
LEMMA PostType ==
    ASSUME PostInv, NEW s \in Requests, PostStep(s), Watch
    PROVE  PostTypeOK'
<1> USE DEF PostInv, PostTypeOK, PostAt
<1>1. watched' \in [Requests -> SUBSET {"ban", "mute"}]
  BY DEF Watch, Restrictions
<1>2. post' \in [Requests -> {"none", "exists", "query", "mute", "reply",
                              "insert", "stored", "refused"}]
  BY DEF PostStep, Enter, TurnedAway, PostKey, PostKeyFails, PostBanned, PostBannedFails,
         PostMuted, PostMutedFails, CheckFails, PostReply, Store
<1>3. missed' \in [Requests -> SUBSET {"ban", "mute"}]
  BY DEF PostStep, Enter, TurnedAway, PostKey, PostKeyFails, PostBanned, PostBannedFails,
         PostMuted, PostMutedFails, CheckFails, PostReply, Store
<1> QED
  BY <1>1, <1>2, <1>3

LEMMA PostInvStep ==
    ASSUME PostInv, Watch, UNCHANGED postVars \/ \E s \in Requests : PostStep(s)
    PROVE  PostInv'
<1>1. PostTypeOK'
  <2>1. CASE UNCHANGED postVars
    BY <2>1 DEF PostInv, PostTypeOK, postVars, Watch, Restrictions
  <2> QED
    BY <2>1, PostType
<1>2. ASSUME NEW r \in Requests
      PROVE  /\ watched'[r] \subseteq Restrictions(r)'
             /\ post'[r] \in PastBan /\ "ban" \in watched'[r] => "ban" \in missed'[r]
             /\ post'[r] \in PastMute /\ "mute" \in watched'[r] => "mute" \in missed'[r]
  <2>1. /\ watched'[r] \subseteq Restrictions(r)'
        /\ post[r] # "none" => watched'[r] \subseteq watched[r]
    BY <1>1, WatchShrinks
  <2>2. CASE UNCHANGED postVars
    BY <2>1, <2>2 DEF PostInv, postVars, PastBan, PastMute
  <2>3. CASE \E s \in Requests : PostStep(s)
    <3>1. PICK s \in Requests : PostStep(s)
      BY <2>3
    <3>2. PastMute \subseteq PastBan /\ "none" \notin PastBan
      BY DEF PastMute, PastBan
    <3>3. /\ post[r] = "none" => post'[r] \notin PastBan
          /\ missed[r] \subseteq missed'[r]
          /\ post'[r] \in PastBan /\ post[r] \notin PastBan
               => "ban" \notin watched[r] \/ "ban" \in missed'[r]
          /\ post'[r] \in PastMute /\ post[r] \notin PastMute
               => "mute" \notin watched[r] \/ "mute" \in missed'[r]
      BY <3>1, PassedFree
    <3>4. /\ post[r] \in PastBan /\ "ban" \in watched[r] => "ban" \in missed[r]
          /\ post[r] \in PastMute /\ "mute" \in watched[r] => "mute" \in missed[r]
      BY DEF PostInv
    <3> QED
      BY <2>1, <3>2, <3>3, <3>4
  <2> QED
    BY <2>2, <2>3
<1> QED
  BY <1>1, <1>2 DEF PostInv

LEMMA ModerationInvStep == ModerationInv /\ [ModerationNext]_moderationVars => ModerationInv'
<1> SUFFICES ASSUME ModerationInv, [ModerationNext]_moderationVars PROVE ModerationInv'
  OBVIOUS
<1>1. CASE UNCHANGED moderationVars
  <2>1. Inv'
    BY <1>1, InvStep DEF moderationVars, ModerationInv
  <2>2. MuteInv'
    BY <1>1 DEF moderationVars, muteVars, ModerationInv, MuteInv, MuteTypeOK, TwoMutesOverlapped
  <2>3. PostInv'
    BY <1>1 DEF moderationVars, vars, muteVars, postVars, ModerationInv, PostInv, PostTypeOK,
                PastBan, PastMute, Restrictions, MutesInForce, CoveredBy, InForce
  <2> QED
    BY <2>1, <2>2, <2>3 DEF ModerationInv
<1>2. CASE ModerationNext
  <2>1. /\ Inv'
        /\ UNCHANGED muteVars \/ \E k \in Mutes : MuteStep(k)
        /\ UNCHANGED postVars \/ \E r \in Requests : PostStep(r)
    BY <1>2, StepOf
  <2>2. MuteInv'
    <3>1. CASE UNCHANGED muteVars
      BY <3>1 DEF muteVars, ModerationInv, MuteInv, MuteTypeOK, TwoMutesOverlapped
    <3>2. CASE \E k \in Mutes : MuteStep(k)
      BY <3>2, MuteInvCheck, MuteInvInsert, MuteInvOther DEF MuteStep, ModerationInv
    <3> QED
      BY <2>1, <3>1, <3>2
  <2>3. PostInv'
    BY <1>2, <2>1, PostInvStep DEF ModerationNext, ModerationInv
  <2> QED
    BY <2>1, <2>2, <2>3 DEF ModerationInv
<1> QED
  BY <1>1, <1>2

-----------------------------------------------------------------------------
\* Every state of the moderation model satisfies the invariant, its types
\* included.
LEMMA ModerationInvariant == ModerationSpec => []ModerationInv
BY ModerationInvInit, ModerationInvStep, PTL DEF ModerationSpec

\* Every variable has its type in every state.
THEOREM ModerationTypes == ModerationSpec => []ModerationTypeOK
<1>1. ModerationInv => ModerationTypeOK
  BY DEF ModerationInv, Inv, MuteInv, MuteTypeOK, PostInv, PostTypeOK, ModerationTypeOK
<1> QED
  BY <1>1, ModerationInvariant, PTL

\* BanCheck enforces bans whatever SendMessage and the mutes do next to it.
THEOREM BansAreEnforcedForPosts == ModerationSpec => []BannedStaysOut
<1>1. ModerationInv => BannedStaysOut
  BY DEF ModerationInv, Inv
<1> QED
  BY <1>1, ModerationInvariant, PTL

\* A user who is banned or muted all the time a post is in SendMessage does
\* not post, unless the query for that restriction failed.
THEOREM RestrictionsAreEnforced == ModerationSpec => []RestrictedNeverPosts
<1>1. ModerationInv => RestrictedNeverPosts
  BY DEF ModerationInv, PostInv, PostTypeOK, PastBan, PastMute, RestrictedNeverPosts
<1> QED
  BY <1>1, ModerationInvariant, PTL

\* CreateMute leaves a user with one mute per chat unless calls overlap.
THEOREM MutesAreSingle == ModerationSpec => []TwoMutesOverlapped
<1>1. ModerationInv => TwoMutesOverlapped
  BY DEF ModerationInv, MuteInv
<1> QED
  BY <1>1, ModerationInvariant, PTL
=============================================================================
