\* Marks and closings by two sessions at once.
CONSTANTS
    Session = {s1, s2}
    Bad = {FALSE}
    Position = {p1}
    Bins <- MCBins
    Offsets <- MCOffsets
    Half = 0
    SoftHours = 1
    HardHours = 1
    Sigmas = {0}
    MaxNow = 2
SYMMETRY Symmetry
SPECIFICATION RaceSpec
INVARIANTS NothingTwice EverInRangeKept FirstClosingStands
