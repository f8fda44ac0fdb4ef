\* A search and a monthly generation compete for one connection while two
\* reports are committed and overridden.
SPECIFICATION FairSpec
CONSTANTS
  r1 = r1  j1 = j1  east = east  west = west  p1 = p1  p2 = p2
  mgr = mgr  qa = qa  i1 = i1  i2 = i2
  Requests = {r1}
  Jobs = {j1}
  PoolSize = 1
  Properties = {p1, p2}
  Branches = {east, west}
  Users = {mgr, qa}
  Qa = {qa}
  BranchOf <- MCBranchOf
  HomeOf <- MCHomeOf
  NoBranch = NoBranch
  Ids = {i1, i2}
  Labels <- MCLabels
  Ingestible <- MCIngestible
  TopK = 2
  MaxTokens = 2
  NoUser = NoUser
  NoFilter = NoFilter
  Categories = {"claim", "other"}
  Urgencies = {"high", "low"}
  NoProperty = NoProperty
  NoDocument = NoDocument
INVARIANTS
  TypeOK
  OnlyPermitted
  CitedSourcesStand
  NoConnectionLeaks
  FiguresBracketed
PROPERTIES
  ImplementsContract
  EverySessionEnds
\* The bounded reports are there and nobody need send a request.
CHECK_DEADLOCK FALSE
