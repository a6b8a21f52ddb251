SPECIFICATION Spec
CONSTANTS
    Saves = {s1}
    Requests = {r1, r2}
    Ops = {"upsert", "favorite"}
    Times = {1}
    ParserRetries = 1
    NoRow = NoRow
    NoInput = NoInput
PROPERTIES
    UpsertKeepsFavorite
