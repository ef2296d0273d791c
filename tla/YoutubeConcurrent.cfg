SPECIFICATION YoutubeFairSpec
CONSTANTS
    r1 = r1
    r2 = r2
    s1 = s1
    v1 = v1
    v2 = v2
    None = None
    Partial = Partial
    Mixed = Mixed
    Runs = {r1, r2}
    Sources = {s1}
    Videos = {v1, v2}
    Providers = {"ytapi", "supadata"}
    Payloads = {"p"}
    Silent = {}
    SeedsOf <- OneSeed
    LimitOf <- NoLimit
    CapOf <- NoCap
    Catalogue <- OneVideo
    MaxKills = 1
    ProviderOrder <- LocalOrder
    Budget = 1
    MaxAttempts = 2
INVARIANTS AdapterTypeOK LoggedBeforeSent ChargesBuyDocuments
PROPERTIES RunsEnd
