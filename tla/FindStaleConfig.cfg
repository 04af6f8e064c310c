SPECIFICATION Spec
CONSTANTS
    p1 = p1
    p2 = p2
    c1 = c1
    c2 = c2
    v1 = v1
    v2 = v2
    s1 = s1
    s2 = s2
    s3 = s3
    Pairs = {p1, p2}
    AutoPairs = {}
    Cities = {"berlin"}
    NoCity = NoCity
    Cases = {c1, c2}
    Providers = {v1, v2}
    ProviderOf <- MCProviderOf
    CatchAll = {v2}
    None = None
    MaxRuns = 2
    Clients <- CityLookup
    MaxRequests = 2
    SinkNames = {s1, s2, s3}
    BadSinks = {s3}
CHECK_DEADLOCK FALSE
INVARIANTS
    ConfigApplied
