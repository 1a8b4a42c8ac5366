---------------------------- MODULE MCModeration ----------------------------
(* Instances of Moderation for TLC: one user, two bans, a temporary and    *)
(* a permanent mute, one post.                                             *)
EXTENDS Moderation, TLC

CONSTANTS b1, b2, r1, h1, h2, k1, k2

TwoBans   == {b1, b2}
LastBan   == {b2}
OneReq    == {r1}
BothChats == {h1, h2}
TwoMutes  == {k1, k2}
FirstMute == {k1}

\* b1 is a ban from chat h2 only, b2 one of the event.
ScopeChat == [b \in TwoBans |-> IF b = b1 THEN h2 ELSE None]
\* The post and the mutes are for h2.
TargetOne == [r \in OneReq |-> h2]
MutedChat == [k \in TwoMutes |-> h2]
=============================================================================
