\* The venue blacklists a pool that was ingested before.
CONSTANTS
    p1 = p1
    Pool = {p1}
    Offers <- OffersBlack
    Courses <- CoursesMC
    MaxAge = 1
SPECIFICATION Spec
INVARIANT BlacklistRefused
