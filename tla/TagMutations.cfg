SPECIFICATION FairSpec
CONSTANTS
    s1 = s1
    s2 = s2
    work = work
    moms = moms
    r1 = r1
    r2 = r2
    Blank = Blank
    Saves = {s1, s2}
    Words = {work, moms}
    Requests = {r1, r2}
    Inputs <- AllKinds
    BatchMax = 3
INVARIANTS
    TypeOK
    StoredNamesSanitized
    RefusalChangesNoSave
    ChangedSavesAnnounced
PROPERTIES
    TagChangesMarkSaves
    CheckedWritesTagRows
    UsualWritesAsPromised
    EveryTagRequestAnswered
