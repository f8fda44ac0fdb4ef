\* Two clerks override one report, or two, while it is redelivered.
SPECIFICATION Spec
CONSTANTS
  l1 = l1  l2 = l2  k1 = k1  k2 = k2  r1 = r1
  claim = claim  other = other  high = high  low = low
  Loaders = {l1}
  Clerks = {k1, k2}
  Readers = {}
  Categories = {claim, other}
  Urgencies = {high, low}
  Limits = {1, 2}
  DefaultPage = 2
  MaxPage = 2
  ScreenPage = 1
  MaxId = 2
  NoDecision = NoDecision
  NoRow = NoRow
SYMMETRY OverrideSymmetry
INVARIANTS
  TypeOK
  VerifiedIsAudited
  EveryColumnWasChosen
PROPERTY
  VerifiedStays
\* The ids are bounded, and nobody need override.
CHECK_DEADLOCK FALSE
