SPECIFICATION Spec
CONSTANTS
    core = core
    sat = sat
    Pool = {core, sat}
    MintOf <- OneToken
    SleeveOf <- Sleeves
    Share <- Shares
    MaxPositions = 2
    Budget = 8
    GasBuffer = 1
    Rent = 1
    Floor = 2
    Sizes = {3}
    Values = {2}
    MaxGen = 1
    EmitIntents = FALSE
    MaxPid = 3
    MaxMoney = 20
    MaxCycle = 0
INVARIANTS
    AddsFitBudget
    AddsNewTokens
