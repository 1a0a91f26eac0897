\* Two containers.
SPECIFICATION FairSpec
CONSTANT N = 2
INVARIANTS TypeOK FailedStartNeverSucceeds SucceededMeansAllRan
PROPERTIES EndedIsFinal PodEnds
CHECK_DEADLOCK FALSE
