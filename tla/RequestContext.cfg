CONSTANTS
    r1 = r1
    r2 = r2
    s1 = s1
    s2 = s2
    Requests = {r1, r2}
    Saves = {s1, s2}
    Existing = {s1}
    MaxSteps = 2
    Nobody = Nobody
    NoEvent = NoEvent
    Absent = Absent
    Pending = Pending
    Workloads <- MCWorkloads
SPECIFICATION FairSpec
INVARIANTS
    TypeOK
    ReadsOwnWrites
    FoundByIdIsFoundByUrl
    PayloadTagsNotOlder
    TrackedWithOwnRequest
    LastEventIsCurrent
PROPERTY
    EveryEventSettles
CHECK_DEADLOCK FALSE
