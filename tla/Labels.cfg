SPECIFICATION FairSpec
CONSTANTS
    Identities = {i1, i2}
    Clients = {i1, i2}
    MaxPerIdentity = 2
    CapWindow = 2
    MaxIdentities = 1
    MinCapSweep = 1
    NoEntry = NoEntry
    Nonces = {n1, n2}
    PendingTTL = 1
    MaxPending = 1
    MinPendingSweep = 1
    NotParked = NotParked
    Handlers = {h1}
    QueueSize = 1
    BatchSize = 2
    NoSample = NoSample
INVARIANTS NeverSendsOnClosed OneLabelPerChallenge SlidingCap
PROPERTIES CloseFlushes NothingStaysQueued
