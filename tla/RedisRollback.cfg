SPECIFICATION Spec
CONSTANTS
  Tokens = {t1}
  NoToken = NoToken
  Nodes = {n1}
  NoNode = NoNode
  Jobs = {j1}
  Epochs = {e1}
  FirstEpoch = e1
  NoEpoch = NoEpoch
  Validity = 1
  Skew = 1
  MaxBehind = 3
  MaxTime = 3
INVARIANT
  AcceptedOnce
