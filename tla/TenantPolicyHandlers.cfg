CONSTANTS
    KeptVersions = 2
    MinEvaluated = 1
    MinSpan = 1
    MaxIdle = 1
    Nodes = {n1}
    Handlers = {h1, h2}
    Users = {owner}
    Owner = owner
    Docs = {d1, d2}
    NoDoc = NoDoc
    NoHandler = NoHandler
    Lag = 1
    MaxRevisions = 3
    MaxTime = 2
    MaxObserved = 1
SPECIFICATION FairSpec
INVARIANTS
    EnforcedWasMeasured
    CheckedVersionIsLatest
PROPERTIES
    ImplementsLog
    CallsReturn
