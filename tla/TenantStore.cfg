SPECIFICATION FairSpec
CONSTANTS
    shop = shop
    other = other
    Ids = {i1, i2}
    Hosts = {shop, other}
    HostOf <- MCHostOf
    Callers = {c1, c2}
    LookupSlots = 1
    NegativeTTL = 1
    MaxNegative = 1
    None = None
INVARIANTS SplitOnlyOutOfService ServesOwnActiveHost
PROPERTIES HostKeepsTenant ActiveIsRouted
