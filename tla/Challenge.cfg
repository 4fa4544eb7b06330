CONSTANTS
    Nodes = {n1}
    Nonces = {p1, p2, p3}
    Calls = {c1, c2}
    MaxAge = 2
    MaxStored = 2
    CompactAfter = 1
    Admissions = 2
    MaxPause = 1
SPECIFICATION Spec
SYMMETRY MCSymmetry
CONSTRAINT MCSmall
INVARIANTS
    TypeOK
    SlotsAccounted
PROPERTIES
    OncePerLife
    NoNeedlessRefusal
