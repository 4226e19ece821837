SPECIFICATION PageSpec
CONSTANTS
  RETRIES = 3
  FETCHES = 4
  PROBES = 2
  MaxReloads = 3
  PROOF_SKEW = 1
  CLOCK_DRIFT = 2
  Leg = 1
  Lead = 3
  Pauses = {2, 5}
  Jumps = {5}
  MaxError = 11
  MaxDrift = 5
INVARIANTS
  TokenPostedOnce
  LeavesVerified
  NavigationsBounded
  SkewRecovered
  StampedOnTime
PROPERTIES
  RunEnds
