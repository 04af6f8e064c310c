SPECIFICATION Spec
CONSTANTS
    p1 = p1
    p2 = p2
    c1 = c1
    c2 = c2
    v1 = v1
    v2 = v2
    Pairs = {p1, p2}
    AutoPairs = {p2}
    Cities = {"berlin"}
    NoCity = NoCity
    Cases = {c1, c2}
    Providers = {v1, v2}
    ProviderOf <- MCProviderOf
    CatchAll = {v2}
    None = None
    MaxRuns = 5
    Settings <- ExpectedErrors
CHECK_DEADLOCK FALSE
INVARIANTS
    ExecutedIndefinitely
