\* One container and two pids: processes pass one has stopped, for ever.
SPECIFICATION FairSpec
CONSTANTS
  c1 = c1
  c2 = c2
  lead = lead
  pid2 = pid2
  NoGroup = NoGroup
  Outside = Outside
  MaxReuse = 0
  Containers <- OneContainer
  Pids <- TwoPids
  Blanks = {}
  Leader <- OneLeader
PROPERTIES StoppedIsKilled
CHECK_DEADLOCK FALSE
