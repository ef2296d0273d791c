SPECIFICATION FairSpec
CONSTANTS
    r1 = r1
    r2 = r2
    c1 = c1
    c2 = c2
    c3 = c3
    Runs = {r1, r2}
    Streams = {c1, c2, c3}
    RunOf <- Shared
    Workers = 1
    MaxEvents = 2
INVARIANTS TypeOK NothingLost CompleteIsFinal LogIsSplit
PROPERTIES StreamsEnd
