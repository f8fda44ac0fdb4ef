\* A save checked before an approval is written after it.
SPECIFICATION Spec
CONSTANTS
  c1 = c1  c2 = c2  c3 = c3  u1 = u1  u2 = u2  qa = qa
  t1 = t1  t2 = t2  f1 = f1  f2 = f2
  Clients = {c1, c2}
  Users = {u1}
  Qa = {}
  Permitted <- MCOneManager
  Slots = {t1}
  Forms = {f1}
  Generated = Generated
  Empty = Empty
  MaxRows = 1
  NoUser = NoUser
  NoRow = NoRow
PROPERTY
  ApprovedIsFinal
CHECK_DEADLOCK FALSE
