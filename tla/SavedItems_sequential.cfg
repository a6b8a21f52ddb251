SPECIFICATION FairSpec
CONSTANTS
    Saves = {s1, s2}
    Requests = {r1}
    Ops <- AllOps
    Times = {1}
    ParserRetries = 2
    NoRow = NoRow
    NoInput = NoInput
INVARIANTS
    TypeOK
    ArchivedHasTimeRead
    SuccessMeansApplied
    UpsertEventsDescribeChange
PROPERTIES
    UpsertKeepsFavorite
    UndeleteFollowsTimeRead
    EveryRequestAnswered
