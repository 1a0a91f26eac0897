\* Two containers, whose scripts may end and fail at any time.
SPECIFICATION FairSpec
CONSTANT N = 2
INVARIANTS TypeOK ClosedAfterSends
PROPERTIES CreatePodGoesOn ImplementsStarts
CHECK_DEADLOCK FALSE
