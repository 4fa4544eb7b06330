CONSTANTS
    Callers = {c1}
    OpenFor = 2
    CallTimeout = 1
SPECIFICATION FairSpec
PROPERTY
    ProbeEnds
