SPECIFICATION Spec
CONSTANTS
  RETRIES = 3
  FETCHES = 4
  PROBES = 2
  MaxReloads = 3
INVARIANTS
  LeavesConfirmed
