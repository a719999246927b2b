CONSTANTS
    Caller = {"first", "second"}
    Agent = {"research", "search", "weather", "maps", "video", "movie_planner", "long_term_memory"}
    Builtin = {"llm.local", "weather", "maps"}
    KeySets <- FourKeySets
    Jobs <- TwoRequests
    MaxChanges = 2
    Worker = {w1, w2}
    Place = {p1, p2}
    t1 = t1
    t2 = t2
    wordless = wordless
    Text = {t1, t2, wordless}
    Embed <- Directions
    K = 1
    MaxIds = 2
    MaxTroubles = 1
    Pass = {1, 2, 3}
    Length = 2
    MaxLoops = 1
    Key = {"ip", "tok"}
    Unit = 2
    Default <- StandardLimit
    Limit <- OtherLimits
    MaxNow = 4
    Email = {"a", "b"}
    Password = {"pw", "pw2"}
    Scope = {"s"}
    AccessTtl = 1
    RefreshTtl = 2
    MaxClock = 5
    MaxUsers = 2
    MaxTokens = 4
    Words = {"search", "speech", "x"}
    Routes <- KingRoutes
    MaxWords = 6
    Process = {q1, q2}
    Folder = {1, 2}
    SkillNames <- ThreeNames
    Content <- ThreeContents
    Shipped <- OneSkill
    MaxSaves = 3
SPECIFICATION Spec
INVARIANTS
    TypeOK
    RecoveryPays
    ExtrasNeverFail
    BooksAgree
    StoresSound
    StepsInOrder
    RateBound
    SessionBound
    PlanLayered
CHECK_DEADLOCK FALSE
SYMMETRY Symmetry
