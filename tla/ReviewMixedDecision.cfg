\* Two clerks confirm different classifications of one report at once.
SPECIFICATION Spec
CONSTANTS
  l1 = l1  l2 = l2  k1 = k1  k2 = k2  r1 = r1
  claim = claim  other = other  high = high  low = low
  Loaders = {l1}
  Clerks = {k1, k2}
  Readers = {}
  Categories = {claim, other}
  Urgencies = {high, low}
  Limits = {1}
  DefaultPage = 1
  MaxPage = 2
  ScreenPage = 1
  MaxId = 1
  NoDecision = NoDecision
  NoRow = NoRow
INVARIANT
  SomebodyDecidedIt
CHECK_DEADLOCK FALSE
