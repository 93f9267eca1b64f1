\* A pool that changes as it likes, passes that fail, and an operator.
CONSTANTS
    p1 = p1
    Pool = {p1}
    Offers <- OffersMC
    Courses <- CoursesMC
    MaxAge = 1
SPECIFICATION FairSpec
INVARIANTS TypeOK CandidatesVetted
PROPERTIES HostileLeaves Unblocks
