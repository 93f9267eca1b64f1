CONSTANTS
    Position = {p1}
    Bins <- MCBins
    Offsets <- MCOffsets
    Half = 1
    SoftHours = 1
    HardHours = 3
    Sigmas = {0, 1, 2}
    MaxNow = 4
SPECIFICATION Spec
INVARIANTS TypeOK HardExitIsSustained FlankMayWait TransitionsCounted NoHourTwice LegsFollowPrice
