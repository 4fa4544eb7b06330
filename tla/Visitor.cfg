CONSTANTS
    Tenants = {r1, r2}
    Owners = {r1, r2}
    OwnerOf <- MCOwnerOf
    Slots = {slot}
    Requests = {ask}
    CacheTTL = 1
    NegativeTTL = 1
    DbTimeout = 1
    MaxEntries = 1
    MaxVersion = 2
    Servers = {"s1", "s2"}
    Ahead <- MCAhead
    MaxSkew = 1
    Tabs = {r1, r2}
    Browsers <- MCBrowsers
    Scores = {0, 50}
    TokenLife = 0
    AttemptLife = 1
    TrustWindow <- MCTrustWindow
    MaxAttempts = 2
    Bots = {r1, r2}
    Visitors = {r1, r2}
    BotTTL = 1
    MaxBots = 1
    LookupSlots = 1
    LookupTime = 1
    Kids = {k1, none}
    EmptyKid = none
    Sessions = {r1, r2}
    KeysTTL = 2
    UnknownTTL = 2
    MaxUnknown = 1
    FetchTime = 1
    Trusted = {"proxy"}
    Outside = {"visitor", "another"}
    Garbage = "garbage"
    Hosts = {"shop", "other"}
    MaxForged = 2
    MaxHops = 2
    Lengths = {0, 1, 2, 3, 4, 5}
    Cap = 3
    FirstBuffer = 2
    Samples <- MCSamples
    Nobody = ""
    HoldOf = 2
    HoldIn = 3
    MinHoldout = 1
    MinHoldoutBots = 1
    MaxSamples = 3
SPECIFICATION MCSpec
SYMMETRY MCSymmetry
CONSTRAINT MCFewRevisions
INVARIANTS
    StaleOnlyUntilSettled
    TrustIsEarned
    EscalationIsEarned
    NeverForged
    BodyIntact
    PromotedOnStrangers
PROPERTIES
    VerdictsRecent
    KeysRecent
