CONSTANTS
    b1 = b1
    b2 = b2
    r1 = r1
    h1 = h1
    h2 = h2
    k1 = k1
    k2 = k2
    None = None
    Chats <- BothChats
    BanIds <- TwoBans
    Temporary <- LastBan
    Requests <- OneReq
    Scope <- ScopeChat
    Target <- TargetOne
    Mutes <- TwoMutes
    TemporaryMutes <- FirstMute
    MuteChat <- MutedChat
    MaxFaults = 2
SPECIFICATION ModerationSpec
INVARIANTS BannedStaysOut RestrictedNeverPosts TwoMutesOverlapped
CHECK_DEADLOCK FALSE
