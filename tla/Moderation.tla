----------------------------- MODULE Moderation -----------------------------
(***************************************************************************)
(* What a banned or muted user can still do: the requests of Bans are now  *)
(* POSTs of messages.  One that BanCheck admits goes on through            *)
(* EventOwnership, MessageRateLimit and MessageHandler.Send into           *)
(* SendMessage, which asks for a ban again (key, then table), for a mute   *)
(* and for the message replied to, each in a statement of its own, and     *)
(* then inserts.  Meanwhile moderators create and end bans (module Bans)   *)
(* and mutes.  A mute is named by the CreateMute call that asks for it.    *)
(***************************************************************************)
EXTENDS Bans

CONSTANTS
    Mutes,          \* CreateMute calls for the user
    TemporaryMutes, \* those with expires_at
    MuteChat        \* the chat each is for

ASSUME ModerationAssumption ==
    /\ TemporaryMutes \subseteq Mutes
    /\ MuteChat \in [Mutes -> Chats]

VARIABLES
    muting,  \* CreateMute: its next step
    mute,    \* Postgres: state of the row a call inserted
    beside,  \* calls that were past GetActive while this one was
    post,    \* SendMessage: its next step, or how it ended
    watched, \* restrictions in force ever since the request entered SendMessage
    missed   \* checks of a request whose query failed

muteVars == <<muting, mute, beside>>
postVars == <<post, missed>>
moderationVars == <<vars, muteVars, postVars, watched>>

MutesInForce(h) == {k \in Mutes : mute[k] = "active" /\ MuteChat[k] = h}

\* What concerns request r now.
Restrictions(r) ==
    {x \in {"ban", "mute"} :
        \/ x = "ban" /\ CoveredBy(r, InForce)
        \/ x = "mute" /\ MutesInForce(Target[r]) # {}}

ModerationInit ==
    /\ Init
    /\ muting = [k \in Mutes |-> "new"]
    /\ mute = [k \in Mutes |-> "none"]
    /\ beside = [k \in Mutes |-> {}]
    /\ post = [r \in Requests |-> "none"]
    /\ watched = [r \in Requests |-> {}]
    /\ missed = [r \in Requests |-> {}]

-----------------------------------------------------------------------------
(* MuteService of the admin service.                                       *)

MutingAt(k, from, to) == muting[k] = from /\ muting' = [muting EXCEPT ![k] = to]

\* Mutant of Active: the query without "expires_at IS NULL", as in
\* IsUserMuted of the same repository.
ActiveTemporary(h) == MutesInForce(h) \cap TemporaryMutes

\* What GetActive looks for.
Active(h) == MutesInForce(h)

\* GetActive finds a mute: the call returns it and inserts nothing.
AlreadyMuted(k) ==
    /\ Active(MuteChat[k]) # {}
    /\ MutingAt(k, "new", "done")
    /\ UNCHANGED <<vars, mute, beside, postVars>>

NotYetMuted(k) ==
    LET others == {l \in Mutes : muting[l] = "insert"}
    IN  /\ Active(MuteChat[k]) = {}
        /\ MutingAt(k, "new", "insert")
        /\ beside' = [l \in Mutes |-> IF l = k THEN others
                                      ELSE IF l \in others THEN beside[l] \cup {k}
                                      ELSE beside[l]]
        /\ UNCHANGED <<vars, mute, postVars>>

InsertMute(k) ==
    /\ MutingAt(k, "insert", "done")
    /\ mute' = [mute EXCEPT ![k] = "active"]
    /\ UNCHANGED <<vars, beside, postVars>>

\* GetActive or the insert fails: the moderator gets a 500.
CreateMuteFails(k) ==
    /\ Fault
    /\ muting[k] \in {"new", "insert"}
    /\ muting' = [muting EXCEPT ![k] = "done"]
    /\ UNCHANGED <<row, key, admin, request, covered, mute, beside, postVars>>

\* UnmuteUser sets expires_at to NOW(), whoever made the mute.
Unmute(k) ==
    /\ mute[k] = "active"
    /\ mute' = [mute EXCEPT ![k] = "ended"]
    /\ UNCHANGED <<vars, muting, beside, postVars>>

MuteExpires(k) == k \in TemporaryMutes /\ Unmute(k)

-----------------------------------------------------------------------------
(* From BanCheck to the insert.                                            *)

PostAt(r, from, to) == post[r] = from /\ post' = [post EXCEPT ![r] = to]

AfterBanCheck(r) == request[r] \in {"admitted", "failedOpen"}

Enter(r) ==
    /\ AfterBanCheck(r)
    /\ PostAt(r, "none", "exists")
    /\ UNCHANGED <<vars, muteVars, missed>>

\* EventOwnership cannot read the chat, MessageRateLimit refuses, or the
\* text is empty or too long.
TurnedAway(r) ==
    /\ AfterBanCheck(r)
    /\ PostAt(r, "none", "refused")
    /\ UNCHANGED <<vars, muteVars, missed>>

PostKey(r) ==
    /\ \/ key # "absent" /\ PostAt(r, "exists", "refused")
       \/ key = "absent" /\ PostAt(r, "exists", "query")
    /\ UNCHANGED <<vars, muteVars, missed>>

PostKeyFails(r) ==
    /\ Fault
    /\ PostAt(r, "exists", "query")
    /\ UNCHANGED <<row, key, admin, request, covered, muteVars, missed>>

\* Mutant of PostBanned: an absent key is taken for the answer.
PostKeySuffices(r) ==
    /\ PostAt(r, "query", "mute")
    /\ UNCHANGED <<vars, muteVars, missed>>

PostBanned(r) ==
    /\ \/ InForce # {} /\ PostAt(r, "query", "refused")
       \/ InForce = {} /\ PostAt(r, "query", "mute")
    /\ UNCHANGED <<vars, muteVars, missed>>

PostMuted(r) ==
    /\ \/ MutesInForce(Target[r]) # {} /\ PostAt(r, "mute", "refused")
       \/ MutesInForce(Target[r]) = {} /\ PostAt(r, "mute", "reply")
    /\ UNCHANGED <<vars, muteVars, missed>>

\* Both queries fail open: the check counts as passed.
CheckFails(r, check, from, to) ==
    /\ Fault
    /\ PostAt(r, from, to)
    /\ missed' = [missed EXCEPT ![r] = @ \cup {check}]
    /\ UNCHANGED <<row, key, admin, request, covered, muteVars>>

PostBannedFails(r) == CheckFails(r, "ban", "query", "mute")
PostMutedFails(r)  == CheckFails(r, "mute", "mute", "reply")

\* The message replied to is looked up by its id, deleted ones too: there is
\* no such message, it is in another chat, or it may be replied to.  Messages
\* are not part of this model: the client named any.
PostReply(r) ==
    /\ PostAt(r, "reply", "insert") \/ PostAt(r, "reply", "refused")
    /\ UNCHANGED <<vars, muteVars, missed>>

Store(r) ==
    /\ PostAt(r, "insert", "stored")
    /\ UNCHANGED <<vars, muteVars, missed>>

-----------------------------------------------------------------------------
MuteStep(k) ==
    \/ AlreadyMuted(k) \/ NotYetMuted(k) \/ InsertMute(k) \/ CreateMuteFails(k)
    \/ Unmute(k) \/ MuteExpires(k)

PostStep(r) ==
    \/ Enter(r) \/ TurnedAway(r)
    \/ PostKey(r) \/ PostKeyFails(r)
    \/ PostBanned(r) \/ PostBannedFails(r)
    \/ PostMuted(r) \/ PostMutedFails(r)
    \/ PostReply(r) \/ Store(r)

BanningStep == Next /\ UNCHANGED <<muteVars, postVars>>

\* Bookkeeping of watched: all restrictions until the request enters
\* SendMessage, and from then on those that never cease.
Watch ==
    watched' = [r \in Requests |-> IF post[r] = "none" THEN Restrictions(r)'
                                   ELSE watched[r] \cap Restrictions(r)']

ModerationNext ==
    /\ \/ BanningStep
       \/ \E k \in Mutes : MuteStep(k)
       \/ \E r \in Requests : PostStep(r)
    /\ Watch

ModerationSpec == ModerationInit /\ [][ModerationNext]_moderationVars

-----------------------------------------------------------------------------
(* Properties                                                              *)

\* Every variable has its type.
ModerationTypeOK ==
    /\ TypeOK
    /\ muting \in [Mutes -> {"new", "insert", "done"}]
    /\ mute \in [Mutes -> {"none", "active", "ended"}]
    /\ beside \in [Mutes -> SUBSET Mutes]
    /\ post \in [Requests -> {"none", "exists", "query", "mute", "reply",
                              "insert", "stored", "refused"}]
    /\ watched \in [Requests -> SUBSET {"ban", "mute"}]
    /\ missed \in [Requests -> SUBSET {"ban", "mute"}]

\* A message is stored under a ban or mute that was in force all the time
\* since its request entered SendMessage only when the very query for it
\* failed: the ban may have begun after BanCheck, its key may be gone, and
\* the checks run at different moments.
RestrictedNeverPosts ==
    \A r \in Requests : post[r] = "stored" => watched[r] \subseteq missed[r]

\* Two mutes of the user are in force in one chat only when both CreateMute
\* calls were past GetActive at the same time: otherwise unmuting the one
\* shown would leave the other.
TwoMutesOverlapped ==
    \A k, l \in Mutes :
        /\ k # l /\ MuteChat[k] = MuteChat[l]
        /\ mute[k] = "active" /\ mute[l] = "active"
        => l \in beside[k]
=============================================================================
