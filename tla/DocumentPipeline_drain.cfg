SPECIFICATION FairSpec
CONSTANTS
    Personal = {doc}
    Shared = {file}
    Undated = {file}
    Clean = {clean}
    Rejected = {}
    Nothing = Nothing
    Requests = {r1}
    Sweepers = {s1, s2}
    MaxBusy = 2
    MaxPuts = 1
    MaxRows = 0
    MaxCrashes = 0
    MaxFaults = 1
INVARIANT DeletionLasts
PROPERTY QuarantineDrains
