SPECIFICATION Spec
CONSTANTS
    k1 = k1
    k2 = k2
    Requests = {r1,r2}
    Tokens <- SameKey
    Kids <- OneKid
    JwksTtl = 1
    FetchTime = 1
    TokenTtl = 2
    SessionTtl = 3
    CacheSize = 1
    MaxTime = 3
    MaxRevokes = 1
    MaxFaults = 1
SYMMETRY RequestSymmetry
INVARIANT TypeOK
INVARIANT AdmittedIsGenuine
INVARIANT RevokedIsRefused
