SPECIFICATION Spec
CONSTANTS
    j1 = j1
    j2 = j2
    MCPids = 4
    Jobs <- MCOneJob
    WorkerIds <- MCWorkerIds
    Nobody = Nobody
    MaxAttempts = 2
    ReopenAttempts = 1
    Slots <- MCTwoSlots
    MaxRuns = 4
    MaxFaults = 3
PROPERTIES OnlyClaimantSettles
\* When every job is settled the runner only polls: nothing changes.
CHECK_DEADLOCK FALSE
