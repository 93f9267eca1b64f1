\* Two executors, one of which may die, on a queue of two intents.
CONSTANTS
    x1 = x1
    x2 = x2
    Executor = {x1, x2}
    Nobody = Nobody
    Usd = {1}
    MaxUsdPerTx = 2
    MaxTxPerHour = 2
    MaxUsdPerDay = 2
    Hour = 1
    Day = 2
    Follow = TRUE
    MaxId = 2
    MaxClock = 0
    MaxLag = 1
    MaxCrash = 1
SPECIFICATION FairSpec
INVARIANT ClaimExclusive
PROPERTIES LedgerSpec Taken Answered
