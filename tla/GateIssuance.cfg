SPECIFICATION Spec
CONSTANTS
  c1 = c1
  c2 = c2
  k1 = k1
  k2 = k2
  h1 = h1
  i1 = i1
  i2 = i2
  Clients = {c1}
  Keys = {k1}
  NoKey = NoKey
  Confs <- Locations
  Issuers = {i1}
  NoHmac = NoHmac
  Cluster = TRUE
  Grace = 3
  MaxTime = 3
  MaxTokens = 2
  MaxInFlight = 1
PROPERTIES
  IssuanceStops
