\* One run of the program, from its options to its return; a wall time of
\* two periods, and the two settings without one.
SPECIFICATION FairProgram
CONSTANTS
  WallTime = 2
  Period = 1
  MaxElapsed = 3
INVARIANTS
  TypeOK AliveTypeOK NothingOutlivesRun NilMeansSignal ServingMeansReady
  NotReadyOnlyAfterLimit
PROPERTIES CommandReturns LimitIsEnforced
CHECK_DEADLOCK FALSE
