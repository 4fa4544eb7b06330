CONSTANTS
    Lengths = {0, 1, 2, 3, 4, 5}
    Cap = 3
    FirstBuffer = 2
SPECIFICATION PageSpec
INVARIANTS
    NeverSilentlyTruncated
