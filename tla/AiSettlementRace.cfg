SPECIFICATION AiSpec
CONSTANTS
    e1 = e1
    e2 = e2
    m1 = m1
    m2 = m2
    Snapshots <- MCSnapshots
    Maps <- MCOneMap
    MapOf <- MCSameMap
    Experiments <- MCOneExperiment
    Executable <- MCSnapshots
    Odds <- MCOdds
    InitialBankroll = 2
    Answers <- MCAnswers
    Workers = 2
    MaxAttempts = 2
    Winners <- Sides
    MaxAiFaults = 0
INVARIANT SettlementReleasesStakes
CHECK_DEADLOCK FALSE
