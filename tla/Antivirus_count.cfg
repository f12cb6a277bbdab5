SPECIFICATION Spec
CONSTANTS
    Processes = {p1,p2}
    Scans = {s1,s2}
    Files = {"good","bad","odd","packed"}
    Contents <- MCContents
    Infected = {"bad"}
    MaxHangs = 1
    MaxFaults = 1
    MaxCrashes = 1
    BlockedExts = {"exe"}
    MaxNames = 2
    MaxExpanded = 5000
    MaxRatio = 10
    MaxComment = 65
SYMMETRY ActorSymmetry
INVARIANT ActiveCountsScans
INVARIANT FailsClosed
PROPERTY SparesItsScans
