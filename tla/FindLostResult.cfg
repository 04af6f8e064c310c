SPECIFICATION Spec
CONSTANTS
    r1 = r1
    r2 = r2
    r3 = r3
    r4 = r4
    g1 = g1
    g2 = g2
    g3 = g3
    c1 = c1
    b1 = b1
    b2 = b2
    u1 = u1
    u2 = u2
    u3 = u3
    Results = {r1, r2, r3, r4}
    GroupOf <- MCGroupOf
    CaseOf <- MCCaseOf
    Lives <- Reopened
    BadUrls = {u3}
    Unfindable = {g3}
    None = None
CHECK_DEADLOCK FALSE
INVARIANTS
    AllStored
