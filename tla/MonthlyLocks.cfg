\* Three clients on one row: two of them wait for the lock of the third.
SPECIFICATION FairHistorySpec
CONSTANTS
  c1 = c1  c2 = c2  c3 = c3  u1 = u1  u2 = u2  qa = qa
  t1 = t1  t2 = t2  f1 = f1  f2 = f2
  Clients = {c1, c2, c3}
  Users = {u1}
  Qa = {}
  Permitted <- MCOneManager
  Slots = {t1}
  Forms = {f1}
  Generated = Generated
  Empty = Empty
  MaxRows = 1
  NoUser = NoUser
  NoRow = NoRow
PROPERTIES
  EveryRequestEnds
  ImplementsContract
\* Nobody need send a request once the bounded rows are created.
CHECK_DEADLOCK FALSE
