\* A reader follows the pages of the list or the queue while two ingestions
\* commit out of id order and a clerk takes reports out of the queue.
SPECIFICATION Spec
CONSTANTS
  l1 = l1  l2 = l2  k1 = k1  k2 = k2  r1 = r1
  claim = claim  other = other  high = high  low = low
  Loaders = {l1, l2}
  Clerks = {k1}
  Readers = {r1}
  Categories = {claim}
  Urgencies = {low}
  Limits = {1, 2}
  DefaultPage = 2
  MaxPage = 2
  ScreenPage = 1
  MaxId = 4
  NoDecision = NoDecision
  NoRow = NoRow
SYMMETRY ReviewSymmetry
INVARIANTS
  ListedInOrder
  NothingSkipped
\* The ids are bounded, and nobody need read or override.
CHECK_DEADLOCK FALSE
