SPECIFICATION Spec
CONSTANTS
    core = core
    sat = sat
    Pool = {core}
    MintOf <- CoreMint
    SleeveOf <- CoreSleeve
    Share <- Shares
    MaxPositions = 2
    Budget = 9
    GasBuffer = 1
    Rent = 1
    Floor = 2
    Sizes = {2}
    Values = {1}
    MaxGen = 1
    EmitIntents = TRUE
    MaxPid = 3
    MaxMoney = 20
    MaxCycle = 1
INVARIANTS
    Lineage
    AuditTrail
    IntentsMatchBook
PROPERTY
    JournalSpec
