CONSTANTS
    Tenants = {t1}
    Owners = {t1}
    OwnerOf <- MCOwnerOf
    Slots = {s1, s2}
    Requests = {r1}
    CacheTTL = 1
    NegativeTTL = 1
    DbTimeout = 0
    MaxEntries = 1
    MaxVersion = 2
SPECIFICATION FairSpec
INVARIANTS
    NotOlderThanInvalidation
    OneLoadPerTenant
PROPERTIES
    ServesFeed
    SlotsComeFree
    LastRevisionArrives
