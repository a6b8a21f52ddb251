SPECIFICATION Spec
CONSTANTS
    Trxs = {t1}
    Kinds = {"delete"}
    MaxBatches = 1
    Failures = {"unawaited"}
    NoArgs = NoArgs
INVARIANTS
    OkMeansAll
