SPECIFICATION FairSpec
CONSTANTS
    Trxs = {t1, t2}
    Kinds <- DistinctKinds
    MaxBatches = 1
    Failures <- AllFailures
    NoArgs = NoArgs
INVARIANTS
    TypeOK
    OkMeansAllIfHeard
    ErrorMeansNoneOrAll
    NoLateStatement
PROPERTIES
    CommitLeavesOneMetaEntry
    EveryMutationAnswered
