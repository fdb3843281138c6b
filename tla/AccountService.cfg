SPECIFICATION FairSpec
CONSTANTS
    Urls = {u1, u2}
    Users = {alice, bob}
    Keys = {k1, k2}
    NoUser = NoUser
    MaxTokens = 2
    MaxOps = 5
INVARIANT NothingHalfway
PROPERTY IdentityFollowsUser
CHECK_DEADLOCK FALSE
