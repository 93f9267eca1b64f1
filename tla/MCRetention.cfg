\* Three hours, folded and dropped at any time.
CONSTANTS
    Hour = 3
    Keep = 4
    Prices = {1, 2}
    MaxNow = 8
SPECIFICATION SeriesSpec
INVARIANT SeriesPreserved
