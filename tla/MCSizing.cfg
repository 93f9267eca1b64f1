\* sizing.py with its own ceilings.
CONSTANTS
    Unit = 40320
    TokenShare = 6048
    PositionShare = 14112
    Rounds = 60
    Rent = 6
    Floor = 72
    Cash = 67
    Share <- ShareMC
    MaxPositions = 12
    Books <- BooksMC
    Sigmas = {5, 30}
    Steps = {0, 1, 4, 20}
    MaxBins = 14
SPECIFICATION Spec
INVARIANTS CapsKept KellyKept NeverEmpty ShapeFromWidth
CHECK_DEADLOCK FALSE
