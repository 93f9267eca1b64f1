\* Restarts, signals and failures over two cycles of the grid.
CONSTANTS
    NTask = 2
    Interval <- IntervalMC
    MaxFailures = 2
    MaxNow = 7
SPECIFICATION FairSpec
INVARIANTS TypeOK OncePerSlot GivesUpWhenBroken
PROPERTIES DueRuns Obeys
