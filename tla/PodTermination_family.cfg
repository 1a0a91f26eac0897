\* One container and two pids, which are given to other processes three times.
SPECIFICATION Spec
CONSTANTS
  c1 = c1
  c2 = c2
  lead = lead
  pid2 = pid2
  NoGroup = NoGroup
  Outside = Outside
  MaxReuse = 3
  Containers <- OneContainer
  Pids <- TwoPids
  Blanks = {}
  Leader <- OneLeader
INVARIANTS TypeOK ForeignHitByReuseOnly OkMeansGroupKilled
CHECK_DEADLOCK FALSE
