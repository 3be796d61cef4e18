SPECIFICATION SumSpec
CONSTANTS
    e1 = e1
    e2 = e2
    m1 = m1
    m2 = m2
    Snapshots <- MCSnapshots
    Maps <- MCOneMap
    MapOf <- MCSameMap
    Experiments <- MCOneExperiment
    Executable <- MCSnapshots
    Odds <- MCOdds
    InitialBankroll = 2
    Answers <- MCAnswers
    Workers = 2
    MaxAttempts = 2
    Winners <- Sides
    MaxAiFaults = 1
    People <- MCPeople
    Inboxes <- MCInboxes
    GoogleIds <- MCGoogleIds
    SteamIds <- MCSteamIds
    MaxTries = 2
    MaxCodes = 2
    Transactions <- MCTransactions
    Recurring <- MCRecurring
    SubscriptionOf <- MCSubscriptionOf
    Days = 1
    Horizon = 1
    MaxEvents = 4
    p1 = p1
    p2 = p2
    i1 = i1
    i2 = i2
    google = google
    steam = steam
    Nil = Nil
    monthly = monthly
    weekend = weekend
    sub = sub
    Slots <- MCSlots
    Models <- MCModels
    Tunings <- MCTunings
    Lags <- MCLags
    Admins <- MCAdmins
    MasterKeys <- MCMasterKeys
    MaxRevision = 3
    flash = flash
    pro = pro
    model1 = model1
    model2 = model2
    model3 = model3
    low = low
    high = high
    k1 = k1
    k2 = k2
    ad1 = ad1
    ad2 = ad2
    Unset = Unset
INVARIANTS LedgerIsSound CodesAreSound LatestWebhookDecides SettingsAreSound
PROPERTIES  RefundKeepsBlocked
\* Snapshots, results, failures, codes and webhooks run out.
CHECK_DEADLOCK FALSE
