\* one map, one snapshot with two decisions, two providers that may disagree; one capture of either type;
\* reports on three decisions of two maps; the evidence of a series of two maps
SPECIFICATION SumSpec
CONSTANTS
  MaxDecisions = 2
  t1 = t1
  t2 = t2
  Teams <- MCTeams
  MaxFaults = 1
  Legs <- MCLegs
  a = a
  b = b
  DueAt = 1
  RetryWindow = 2
  MaxAge = 1
  Horizon = 4
  MaxMoves = 3
  MaxOddsFaults = 1
  Event = event
  Map1 = m1
  Map2 = m2
  SeriesMaps <- MCMaps
  Snapshots = {1, 2, 3}
  Maps <- MCMaps
  MapOf <- MCMapOf
  Experiments = {event}
  AccountOf <- MCAccountOf
  Executable = {1, 2, 3}
  Odds <- MCOdds
  InitialBankroll = 700
  Says <- MCSays
  Reported <- MCReported
  ClosingOdds <- MCClosingOdds
  Late = {1}
  Stake = 300
  PageSize = 1
  MinSamples = 1
INVARIANTS
  HorizonIsTimeless
  CapturesAreAnswered
  ReportsAgree
  FunnelAddsUp
PROPERTIES
  EndedMapHasResult
  EveryDecisionEvaluated
CHECK_DEADLOCK FALSE
