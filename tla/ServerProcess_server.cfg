SPECIFICATION FairSpec
CONSTANTS
    Requests = {r1,r2}
    Buckets = {b1}
    Workloads <- FiveWorkloads
    MaxAttempts = 2
    Window = 2
    CleanupInterval = 2
    CacheTtl = 2
    Pars = {1,2,3}
    OldPars = {1,3}
    PageSize = 1
    PruneMax = 2
    ParTtl = 1
    Grace = 0
    Archives <- MCArchives
    MaxTime = 2
    MaxFaults = 1
    BlockedExts = {"exe"}
    MaxNames = 2
    MaxExpanded = 5000
    MaxRatio = 10
    MaxComment = 65
CHECK_DEADLOCK FALSE
INVARIANT TypeOK
INVARIANT RateLimited
INVARIANT AnswersAreRecent
INVARIANT ExpiredAreGone
INVARIANT ArchivesJudged
INVARIANT StopsBetweenRequests
PROPERTY RequestsEnd
