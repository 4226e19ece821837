SPECIFICATION FairSpec
CONSTANTS
  Requests = {r1, r2}
  Health = Health
  Connections = 1
  Queue = 1
  Auth = TRUE
PROPERTIES
  EveryJobEnds
  Recovers
