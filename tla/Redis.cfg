SPECIFICATION Spec
CONSTANTS
  Tokens = {t1}
  NoToken = NoToken
  Nodes = {n1}
  NoNode = NoNode
  Jobs = {j1, j2}
  Epochs = {e1, e2}
  FirstEpoch = e1
  NoEpoch = NoEpoch
  Validity = 1
  Skew = 1
  MaxBehind = 1
  MaxTime = 3
SYMMETRY Symmetry
INVARIANTS
  AcceptedOnce
  MintedFromAcceptance
  ReusedIsHonest
PROPERTIES
  ImplementsOneUse
