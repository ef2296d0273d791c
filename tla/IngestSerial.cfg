SPECIFICATION SerialSpec
CONSTANTS
    r1 = r1
    r2 = r2
    s1 = s1
    s2 = s2
    v1 = v1
    v2 = v2
    v3 = v3
    v4 = v4
    None = None
    Partial = Partial
    Mixed = Mixed
    Runs = {r1, r2}
    Sources = {s1, s2}
    Videos = {v1, v2, v3, v4}
    Providers = {"captions"}
    Payloads = {"p"}
    Silent = {}
    SeedsOf <- TwoSeeds
    LimitOf <- SomeLimit
    CapOf <- SomeCap
    Catalogue <- ThreeAndOne
    MaxKills = 1
INVARIANTS SafeToCallTwice
PROPERTIES WriteOnce
