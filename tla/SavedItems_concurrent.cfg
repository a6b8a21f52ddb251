SPECIFICATION Spec
CONSTANTS
    Saves = {s1}
    Requests = {r1, r2}
    Ops <- OverlappingOps
    Times = {1}
    ParserRetries = 1
    NoRow = NoRow
    NoInput = NoInput
SYMMETRY RequestSymmetry
INVARIANTS
    IInv
    FavoriteTimeConsistent
    NotFoundKeepsList
    EveryInsertAnnounced
