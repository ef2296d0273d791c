SPECIFICATION WatchSpec
CONSTANTS
    Norm <- MCNorm
    NoHandle = noHandle
    noHandle = noHandle
    Answers <- MCAnswers
    Aws = "@AWS"
    Replit = "Replit"
    Wyss = "Wyss"
    Candidates <- MCCandidates
    Counts = {5}
    TierOf <- MCTierOf
    NoTier = noTier
    noTier = noTier
    Phase1 = {"x"}
    Top50 <- MCTop50
    Excluded = {"y"}
    Subscribed <- MCSubscribed
    Deduped = {}
    MaxBuilds = 1
    a1 = a1
    o1 = o1
    o2 = o2
    Requests = {a1}
    Observers = {o1, o2}
    Channels <- MCChannels
    Asked = {"new"}
    Folders = {"in"}
    Inbox = "in"
    Lists <- MCLists
    None = none
    Unusable = unusable
    Undecodable = undecodable
    MaxWrites = 2
    MaxStarts = 2
    MaxStops = 1
INVARIANTS
    TypeOK
    RowsMatchListings
    AwsStaysDeferred
    NoAddLost
    UniqueInTurn
    StatusTrue
    DropsAreRead
