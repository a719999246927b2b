CONSTANTS
    Caller = {"first"}
    Agent = {"research", "search", "weather", "maps", "video", "movie_planner", "long_term_memory"}
    Builtin = {"llm.local", "weather", "maps"}
    KeySets <- FourKeySets
    Jobs <- TwoRequests
    MaxChanges = 0
SPECIFICATION SoldierSpec
INVARIANT NobodyIsLockedOut
CHECK_DEADLOCK FALSE
