CONSTANTS
    KeptVersions = 1
    MinEvaluated = 2
    MinSpan = 2
    MaxIdle = 1
    Nodes = {n1, n2}
    Handlers = {h1}
    Users = {owner, stranger}
    Owner = owner
    Docs = {d1}
    NoDoc = NoDoc
    NoHandler = NoHandler
    Lag = 1
    MaxRevisions = 3
    MaxTime = 3
    MaxObserved = 2
SPECIFICATION Spec
SYMMETRY MCSymmetry
INVARIANTS
    EnforcedAfterSoak
    MeasurementsAreHonest
PROPERTIES
    LatestMeasurementNeverLost
