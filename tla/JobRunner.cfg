SPECIFICATION SumSpec
CONSTANTS
    j1 = j1
    j2 = j2
    MCPids = 3
    Jobs <- MCJobs
    WorkerIds <- MCWorkerIds
    Nobody = Nobody
    MaxAttempts = 2
    ReopenAttempts = 1
    Slots <- MCOneSlot
    MaxRuns = 3
    MaxFaults = 2
    u1 = u1
    u2 = u2
    a1 = a1
    a2 = a2
    h1 = h1
    h2 = h2
    Users <- MCUsers
    Accounts <- MCAccounts
    Handlers <- MCHandlers
    NoOne = NoOne
    SendAttempts = 2
    MaxMishaps = 1
    q1 = q1
    q2 = q2
    g1 = g1
    g2 = g2
    k1 = k1
    k2 = k2
    Bots <- MCBots
    SharedBots <- MCSharedBots
    Groups <- MCGroups
    BotOf <- MCBotOf
    MaxEvents = 1
    Unset = Unset
    MaxMessages = 2
    MaxQqMishaps = 2
    Senders <- MCHandlers
    Calls <- MCCalls
    Configured <- MCConfigured
    QqAttempts = 2
SYMMETRY SumSymmetry
INVARIANTS AttemptsAreKept SendingIsSound 
PROPERTIES AttemptHistory ImplementsContract
\* When every job is settled the runner only polls: nothing changes.
CHECK_DEADLOCK FALSE
