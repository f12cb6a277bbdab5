SPECIFICATION FairSpec
CONSTANTS
    Consumers = {r1}
    Replayers = {p1, p2}
    Commands = {del, bare}
    NoPayload = {}
    BadJson = {bare}
    Rejected = {}
    Forged = {}
    Deletes = {del}
    Pill = pill
    MaxRetries = 1
    BatchSize = 2
    MaxEntries = 2
    MaxCrashes = 0
    MaxFaults = 1
INVARIANTS
    AckedIsSettled
    RemovedIsReinjected
PROPERTY
    EveryEntrySettled
