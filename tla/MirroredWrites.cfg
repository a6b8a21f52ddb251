SPECIFICATION Spec
CONSTANTS
    Saves = {s1, s2}
    Trxs = {t1, t2}
    Values = {v1, gone}
    Tables = {"item_tags"}
    Kinds = {"update", "upsert", "batch", "delete"}
    DeletedRow = gone
    NoRow = NoRow
    NoArgs = NoArgs
    Nobody = Nobody
SYMMETRY MirrorSymmetry
INVARIANTS
    ShadowMirrorsList
    IInv
PROPERTIES
    WritesAreAtomic
