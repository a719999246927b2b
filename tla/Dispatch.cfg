CONSTANTS
    research = research
    graph = graph
    Subtask = {c1}
    General = knowledge
    Soldier = {research, graph}
    Roster <- TwoSoldiers
    Keywords <- ThreeKeywords
    Research = research
    MaxAttempts = 2
    Timeout = 2
SPECIFICATION FairSpec
INVARIANTS
    TypeOK
    ReachableIffLive
    AnswerCoversChosen
    RetryBudget
PROPERTIES
    FailureIsContained
    SubtaskEnds
CHECK_DEADLOCK FALSE
