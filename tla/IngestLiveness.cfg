\* Two workers, an event of one object and an event without keys; faults,
\* restarts and a redrive; the second object is broken for good.
SPECIFICATION FairSpec
CONSTANTS
  p1 = p1
  p2 = p2
  m1 = m1
  m2 = m2
  o1 = o1
  o2 = o2
  s1 = s1
  s2 = s2
  NoProc = NoProc
  Procs = {p1, p2}
  Messages = {m1, m2}
  Objects = {o1, o2}
  Sources = {s1, s2}
  Broken = {o2}
  KeysOf <- MCLiveKeysOf
  SourceOf <- MCSourceOf
  Permits = 1
  BatchMax = 2
  MaxReceive = 2
  MaxFaults = 2
  MaxRedrives = 1
INVARIANTS
  IInv
PROPERTIES
  EveryMessageSettles
