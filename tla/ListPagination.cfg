SPECIFICATION FairSpec
CONSTANTS
    Ids = {1, 2, 3}
    Clients = {u1}
    Connections = {k1}
    Times = {0, 1, 2, 3, 4}
    Names = {"a", "b"}
    Null = Null
    RowLimit = 3
    Walks <- AllWalks
    InitialLists <- AllLists
INVARIANTS
    TypeOK
    NoTableLeft
    WalksVisitInOrderIfWalkable
    CursorLostOnlyByChange
PROPERTIES
    WalksEnd
