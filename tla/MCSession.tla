------------------------------ MODULE MCSession ------------------------------
EXTENDS Session

CONSTANTS q1, q2, user, moderator

MCRequests == {q1, q2}
MCRoles == {user, moderator}
=============================================================================
