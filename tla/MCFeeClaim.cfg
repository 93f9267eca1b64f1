\* Two syncs that may overlap, an account that is re-initialised.
CONSTANTS
    s1 = s1
    s2 = s2
    p1 = p1
    p2 = p2
    Syncer = {s1, s2}
    Position = {p1}
    Bin = {1, 2}
    Before = 1
    MaxMoves = 2
SPECIFICATION FairSpec
INVARIANTS TypeOK CreditedOnce Telescopes
PROPERTY CatchesUp
