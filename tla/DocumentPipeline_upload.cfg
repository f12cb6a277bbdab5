SPECIFICATION Spec
CONSTANTS
    Personal = {doc}
    Shared = {}
    Undated = {}
    Clean = {clean}
    Rejected = {rejected}
    Nothing = Nothing
    Requests = {r1, r2}
    Sweepers = {s1}
    MaxBusy = 3
    MaxPuts = 2
    MaxRows = 2
    MaxCrashes = 1
    MaxFaults = 1
SYMMETRY ProcessSymmetry
INVARIANT ProductionIsClean
INVARIANT UploadKept
INVARIANT DeletionLasts
INVARIANT RowHasObject
PROPERTY ImplementsLife
