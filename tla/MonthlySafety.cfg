\* Two clients, three users and two rows: versions racing for one month or
\* growing in two, and every interleaving of saves and approvals, saves of the
\* empty text among them.
SPECIFICATION Spec
CONSTANTS
  c1 = c1  c2 = c2  c3 = c3  u1 = u1  u2 = u2  qa = qa
  t1 = t1  t2 = t2  f1 = f1  f2 = f2
  Clients = {c1, c2}
  Users = {u1, u2, qa}
  Qa = {qa}
  Permitted <- MCPermitted
  Slots = {t1, t2}
  Forms = {f1, Empty}
  Generated = Generated
  Empty = Empty
  MaxRows = 2
  NoUser = NoUser
  NoRow = NoRow
SYMMETRY ClientSymmetry
INVARIANTS
  TypeOK
  VersionsAreContiguous
  ApprovalMatchesAudit
  ApproverIsAuthorized
  JobOwnsItsRow
PROPERTIES
  GenerationComesFirst
  SettledApprovalStays
\* Nobody need send a request once the bounded rows are created.
CHECK_DEADLOCK FALSE
