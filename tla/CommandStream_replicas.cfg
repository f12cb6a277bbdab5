SPECIFICATION FairSpec
CONSTANTS
    Consumers = {r1, r2}
    Replayers = {}
    Commands = {del}
    NoPayload = {}
    BadJson = {}
    Rejected = {}
    Forged = {}
    Deletes = {del}
    Pill = pill
    MaxRetries = 2
    BatchSize = 2
    MaxEntries = 1
    MaxCrashes = 1
    MaxFaults = 1
INVARIANTS
    DeliveriesBounded
PROPERTIES
    ImplementsDelivery
    EveryEntrySettled
