\* A container that runs and one that never started, and one pid: the
\* channel they share, full or empty, its reader there or gone.
SPECIFICATION FairSpec
CONSTANTS
  c1 = c1
  c2 = c2
  lead = lead
  pid2 = pid2
  NoGroup = NoGroup
  Outside = Outside
  MaxReuse = 1
  Containers <- TwoContainers
  Pids <- OnePid
  Blanks = {}
  Leader <- TwoLeaders
INVARIANTS CloseIsSafe RecreatedDirKept
PROPERTIES DeletePodReturns
CHECK_DEADLOCK FALSE
