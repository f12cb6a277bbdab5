SPECIFICATION Spec
CONSTANTS
    k1 = k1
    k2 = k2
    Requests = {r1,r2}
    Tokens <- GenuineTokens
    Kids <- TwoKids
    JwksTtl = 1
    FetchTime = 1
    TokenTtl = 2
    SessionTtl = 3
    CacheSize = 2
    MaxTime = 3
    MaxRevokes = 0
    MaxFaults = 0
SYMMETRY RequestSymmetry
INVARIANT RefusedForCause
INVARIANT WithdrawnKeyLapses
