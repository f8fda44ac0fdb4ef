\* Two workers, a message of one object and a message of two objects that
\* repeats it; every fault enabled.
SPECIFICATION Spec
CONSTANTS
  p1 = p1
  p2 = p2
  m1 = m1
  m2 = m2
  o1 = o1
  o2 = o2
  s1 = s1
  s2 = s2
  NoProc = NoProc
  Procs = {p1, p2}
  Messages = {m1, m2}
  Objects = {o1, o2}
  Sources = {s1, s2}
  Broken = {}
  KeysOf <- MCKeysOf
  SourceOf <- MCSourceOf
  Permits = 1
  BatchMax = 2
  MaxReceive = 2
  MaxFaults = 3
  MaxRedrives = 0
SYMMETRY ProcSymmetry
INVARIANTS
  TypeOK
  OneReportPerSource
  UrgentReportsAnnounced
  AcknowledgedIsStored
  DeadLetteredOnlyAfterFaults
PROPERTIES
  NoAlertAfterCommit
  ImplementsContract
