\* One login; its first token logs out while the second is still valid.
CONSTANTS
    Families = {f1}
    SigningKeys = {k1}
    Visits = {v1}
    TokenLifetime = 2
    MaxTokens = 2
    CacheTTL = 1
    FetchTimeout = 1
    MaxNow = 4
SPECIFICATION SessionsSpec
PROPERTY RevokedFamilyStaysOut
CHECK_DEADLOCK FALSE
