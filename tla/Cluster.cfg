SPECIFICATION Spec
CONSTANTS
  Requests = {r1, r2, r3, r4}
  Health = Health
  Connections = 1
  Queue = 2
  Auth = FALSE
SYMMETRY Symmetry
INVARIANTS
  NoIdleSlot
  NoDanglingJob
  FinishedOnce
PROPERTIES
  MintIsConfirmed
  FencedForGood
