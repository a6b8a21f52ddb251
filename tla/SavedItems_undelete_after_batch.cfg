SPECIFICATION Spec
CONSTANTS
    Saves = {s1}
    Requests = {r1}
    Ops = {"upsert", "saveUnArchive", "delete", "undelete"}
    Times = {1}
    ParserRetries = 1
    NoRow = NoRow
    NoInput = NoInput
PROPERTIES
    UndeleteRestoresStatus
