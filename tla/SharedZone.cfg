SPECIFICATION Spec
CONSTANTS
  w1 = w1
  w2 = w2
  Tokens = {t1, t2}
  NoToken = NoToken
  Capacity = 2
  ProbeLimit = 2
  Start <- MCStart
  Workers = {w1, w2}
  NoWorker = NoWorker
  Zones = {z1, z2}
  FirstZone = z1
  Validity = 1
  MaxTime = 2
SYMMETRY Symmetry
INVARIANTS
  MintedOnce
  ReusedIsHonest
PROPERTIES
  LiveEntriesKept
  ImplementsOneUse
