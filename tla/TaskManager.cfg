CONSTANTS
    t1 = t1
    t2 = t2
    t3 = t3
    Task = {t1, t2, t3}
    Graphs <- AllGraphs
    MaxAttempts <- UnevenAttempts
    Cancellable = {t1, t2}
SPECIFICATION FairSpec
INVARIANTS
    TypeOK
    DependenciesFirst
    AttemptBudget
    EventsTellTheStory
    SettledOnReturn
PROPERTIES
    StillAfterTheEnd
    FinalIsFinal
    DagSpec
    RunTerminates
CHECK_DEADLOCK FALSE
