SPECIFICATION SumSpec
CONSTANTS
    c1 = c1
    c2 = c2
    o1 = o1
    Checkpoints = {c1, c2}
    Moves = {o1}
    Horizon = 2
    BatchLimit = 2
    Unfit <- LastIsUnfit
    MaxData = 2
    MaxFaults = 1
    e1 = e1
    e2 = e2
    m1 = m1
    Snapshots = {1, 2}
    Maps = {m1}
    MapOf <- OneMap
    Experiments = {e1, e2}
    Executable = {1, 2}
    Odds <- EvenOdds
    InitialBankroll = 2
    Answers <- OneAnswer
    Workers = 2
    MaxAttempts = 1
    Winners = {}
    MaxAiFaults = 1
INVARIANTS
    JobPerProcessedEvent
    LaneExclusive 
PROPERTIES
    CheckpointIsDecided
    EveryDecisionSettles
\* Events, snapshots and failures run out.
CHECK_DEADLOCK FALSE
