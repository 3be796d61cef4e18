SPECIFICATION TrendSpec
CONSTANTS
    j1 = j1
    j2 = j2
    MCPids = 3
    Jobs <- MCOneJob
    WorkerIds <- MCWorkerIds
    Nobody = Nobody
    MaxAttempts = 2
    ReopenAttempts = 1
    Slots <- MCTwoSlots
    MaxRuns = 3
    MaxFaults = 2
    MaxTime = 5
    MaxMoves = 2
    MaxMishaps = 1
    Field = {k, n}
    LiveMaxAge = 1
    MaxLiveClock = 3
INVARIANTS
    CurrentPriceSurvives
\* Clocks and rows run out.
CHECK_DEADLOCK FALSE
