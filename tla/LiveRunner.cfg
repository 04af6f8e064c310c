SPECIFICATION Spec
CONSTANTS
    p1 = p1
    p2 = p2
    c1 = c1
    c2 = c2
    v1 = v1
    Pairs = {p1, p2}
    AutoPairs = {}
    Cities = {"berlin"}
    NoCity = NoCity
    Cases = {c1, c2}
    Providers = {v1}
    ProviderOf <- MCProviderOf
    CatchAll = {}
    None = None
    MaxRuns = 2
    Lives <- AllLives
    MaxAgain = 1
SYMMETRY Interchangeable
CHECK_DEADLOCK FALSE
INVARIANTS
    IndexSound
    AddingIsSafe
PROPERTIES
    CountedWhereTested
