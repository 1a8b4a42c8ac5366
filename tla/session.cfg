SPECIFICATION Spec
CONSTANTS
    q1 = q1
    q2 = q2
    user = user
    moderator = moderator
    None = None
    Requests <- MCRequests
    Roles <- MCRoles
    AskedRole = user
    MaxTokens = 2
    MaxRotations = 1
INVARIANTS OneRefresh RetryUsesNewToken AtMostOnce RoleSticks OldSecretRefused
PROPERTY EveryRequestEnds
CHECK_DEADLOCK FALSE
