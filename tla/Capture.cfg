SPECIFICATION ServedSpec
CONSTANTS
  Locations = {l1, l2}
  Unset = Unset
  Blank = Blank
  Weak = Weak
  Unresolved = Unresolved
  Values <- MCValues
  Defaults <- MCDefaults
  Given <- MCGiven
  MaxDirectives = 2
  Contents = {Weak, key1, key2}
  Base = 4
  Digits = 2
  MaxU64 = 64
  Texts <- MCTexts
  Limit = 3
  MaxBody = 4
  Levels = {1, 2, 3}
  Cluster = TRUE
INVARIANT
  ReplayIsWhole
