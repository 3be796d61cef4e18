SPECIFICATION SumSpec
CONSTANTS
    u1 = u1
    u2 = u2
    u3 = u3
    p1 = p1
    p2 = p2
    event = event
    series = series
    Users = {u1, u2, u3}
    Codes <- MCCodes
    Requests <- MCRequests
    Purchases = {p1, p2}
    Targets <- MCTargets
    EventOf <- MCEventOf
    Global = Global
    None = None
    InviterDays = 2
    InvitedDays = 1
    MaxRewards = 1
    Horizon = 1
    MaxFaults = 1
    Matches = {1, 2}
    Playing <- MCPlaying
    Pairings <- MCPairings
    Answers <- MCAnswers
    Drafted = {TRUE}
    MaxClock = 6
INVARIANTS
    AccessIsPaidFor
    RewardsKeepTheRules
    HistoryIsSound
PROPERTIES
    
    PaymentIsHonoured
    AsOfIsStable
CHECK_DEADLOCK FALSE
