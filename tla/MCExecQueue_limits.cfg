\* The ceilings, with three intents over two ticks.
CONSTANTS
    x1 = x1
    x2 = x2
    Executor = {x1, x2}
    Nobody = Nobody
    Usd = {1}
    MaxUsdPerTx = 1
    MaxTxPerHour = 1
    MaxUsdPerDay = 2
    Hour = 1
    Day = 2
    Follow = FALSE
    MaxId = 3
    MaxClock = 1
    MaxLag = 0
    MaxCrash = 0
SYMMETRY Symmetry
SPECIFICATION Spec
INVARIANTS HourBound DayBound
