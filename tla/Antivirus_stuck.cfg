SPECIFICATION FairSpec
CONSTANTS
    Processes = {p1,p2}
    Scans = {s1}
    Files = {"bad"}
    Contents <- MCContents
    Infected = {"bad"}
    MaxHangs = 0
    MaxFaults = 0
    MaxCrashes = 0
    BlockedExts = {"exe"}
    MaxNames = 2
    MaxExpanded = 5000
    MaxRatio = 10
    MaxComment = 65
PROPERTY WokenWhenNeeded
