SPECIFICATION FairSpec
CONSTANTS
    Signals = {int, term}
    Concurrency = 1
    MaxChecks = 1
    MaxFaults = 1
INVARIANT SweepsSerial
INVARIANT PoolOutlivesWork
INVARIANT FileStaysGone
PROPERTY ShutdownEnds
