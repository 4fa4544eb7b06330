SPECIFICATION Spec
CONSTANTS
    shop = shop
    other = other
    Ids = {i1}
    Hosts = {shop}
    HostOf <- MCHostOf
    Callers = {c1, c2}
    LookupSlots = 2
    NegativeTTL = 1
    MaxNegative = 1
    None = None
INVARIANT BurstSharesTenant
