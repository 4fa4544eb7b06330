CONSTANTS
    Requests = {r1, r2}
    Callers = {"listed", "other"}
    Visits <- MCVisits
    Tenants <- MCTenants
    Policies <- MCPolicies
    TrapLife = 1
    MaxTrips = 1
    SweepEvery = 2
    TrailSize = 2
    MaxRequests = 2
    MaxObserved = 1
    MaxConditions = 2
SPECIFICATION Spec
SYMMETRY MCSymmetry
INVARIANTS
    TypeOK
    ShadowHarmless
    HardEvidenceStops
    CountersMatchTrail
