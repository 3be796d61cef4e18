SPECIFICATION SumSpec
CONSTANTS
    Minutes <- TwoMinutes
    Horizon = 7
    Lead = 2
    MaxAge = 1
    Grace = 3
    MaxFaults = 2
    Odds <- MCOdds
    Price <- MCPrice
    SignificantMove = 1
    o1 = o1
    o2 = o2
    MinuteLen = 2
    HourLen = 4
    MaxClock = 5
    Radiant = Radiant
    Dire = Dire
    None = None
    Matches <- MCMatches
    Games <- MCGames
    Cards <- MCCards
    Listed <- MCListed
    StartOf <- MCStartOf
    Window = 3
    Unknown = Unknown
    Clubs <- MCClubs
    Players <- MCPlayers
    Cycle = 2
    Listable <- MCListable
    MaxInstant = 3
    MaxRosterFaults = 1
    p1 = p1
    p2 = p2
    Current = Current
SYMMETRY SumSymmetry
INVARIANTS
    NoCheckpointSkipped StartIsRecorded
    
    IdentityIsTold
PROPERTIES NeverEarlyOnRealTime
CHECK_DEADLOCK FALSE
