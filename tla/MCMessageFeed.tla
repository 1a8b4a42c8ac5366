--------------------------- MODULE MCMessageFeed ---------------------------
(* Instances of MessageFeed for TLC.                                       *)
EXTENDS MessageFeed

\* Failed polls step the cursor back.  After as many of them as a poll
\* response holds messages, the client receives nothing but known ones.
FewerThanAPage == PageLimit - 1
=============================================================================
