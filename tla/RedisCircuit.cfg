CONSTANTS
    Callers = {c1, c2}
    OpenFor = 2
    CallTimeout = 3
SPECIFICATION FairSpec
INVARIANTS
    ProbesAreSpaced
PROPERTY
    Recovers
