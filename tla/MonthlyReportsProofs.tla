------------------------ MODULE MonthlyReportsProofs ------------------------
(* Proofs about MonthlyReports, for every value of its constants. *)
EXTENDS MonthlyReports, FiniteSetTheorems, TLAPS

-----------------------------------------------------------------------------
(* The UPDATE of a flush. *)

\* A row is a record of these columns.
LEMMA RowColumns ==
  ASSUME NEW x \in Row
  PROVE  /\ DOMAIN x = {"slot", "version", "body", "status", "approver"}
         /\ x.slot \in Slots /\ x.version \in Nat \ {0} /\ x.body \in Bodies
         /\ x.status \in Statuses /\ x.approver \in Users \cup {NoUser}
BY DEF Row

LEMMA RowFromColumns ==
  ASSUME NEW x, x = [f \in {"slot", "version", "body", "status", "approver"} |-> x[f]],
         x.slot \in Slots, x.version \in Nat \ {0}, x.body \in Bodies,
         x.status \in Statuses, x.approver \in Users \cup {NoUser}
  PROVE  x \in Row
BY DEF Row

\* A flush writes the columns that changed over the row as it is now.
LEMMA NetChangeRow ==
  ASSUME NEW old \in Row, NEW new \in Row, NEW now \in Row,
         NEW x, x = NetChange(old, new, now)
  PROVE  /\ x \in Row
         /\ x.slot = IF new.slot = old.slot THEN now.slot ELSE new.slot
         /\ x.version = IF new.version = old.version THEN now.version ELSE new.version
         /\ x.body = IF new.body = old.body THEN now.body ELSE new.body
         /\ x.status = IF new.status = old.status THEN now.status ELSE new.status
         /\ x.approver = IF new.approver = old.approver THEN now.approver
                         ELSE new.approver
<1>1. x = [f \in {"slot", "version", "body", "status", "approver"} |->
             IF new[f] = old[f] THEN now[f] ELSE new[f]]
  BY RowColumns DEF NetChange
<1>2. /\ x.slot = IF new.slot = old.slot THEN now.slot ELSE new.slot
      /\ x.version = IF new.version = old.version THEN now.version ELSE new.version
      /\ x.body = IF new.body = old.body THEN now.body ELSE new.body
      /\ x.status = IF new.status = old.status THEN now.status ELSE new.status
      /\ x.approver = IF new.approver = old.approver THEN now.approver ELSE new.approver
  BY <1>1
<1>3. x \in Row
  <2>1. x = [f \in {"slot", "version", "body", "status", "approver"} |-> x[f]]
    BY <1>1
  <2>2. QED
    BY <1>2, <2>1, RowColumns, RowFromColumns
<1>4. QED
  BY <1>2, <1>3

-----------------------------------------------------------------------------
(* The inductive invariant. *)

HasRow(c) == req[c].op \in {"generate", "save", "approve", "screen"}
Edits(c)  == req[c].op \in {"save", "approve", "screen"}

\* Where the unit of work of a request can stand, and what it holds there.
UnitOfWork(c) ==
  /\ pc[c] = "idle" => req[c].op = "none"
  /\ pc[c] \in {"numbered", "inserted"} => req[c].op = "create"
  /\ pc[c] \in {"working", "failing"} => req[c].op = "generate"
  /\ pc[c] = "checked" => req[c].op \in {"save", "screen"}
  /\ pc[c] \in {"loaded", "written"} => req[c].op \in {"generate", "save", "screen"}
  /\ pc[c] \in {"rechecked", "reloaded", "approved"} => req[c].op \in {"approve", "screen"}
  /\ req[c].op = "generate" => req[c].form = Generated
  /\ req[c].op \in {"save", "screen"} => req[c].form \in Forms
  /\ req[c].op \in {"approve", "save", "screen", "create"} => req[c].user \in Users
  /\ IF HasRow(c) THEN req[c].id \in 1..Len(rows) ELSE req[c].id = 0
  /\ pc[c] \in {"numbered", "inserted", "loaded", "reloaded"} => loaded[c] \in Row
  /\ pc[c] \in {"idle", "numbered", "working", "checked", "loaded"} => image[c] = NoRow
  /\ req[c].op = "approve" /\ pc[c] \in {"rechecked", "reloaded"} => image[c] = NoRow
  /\ pc[c] = "inserted" => image[c] = loaded[c]
  /\ pc[c] = "approved" => image[c] \in Row

UnitsOfWork == \A c \in Clients : UnitOfWork(c)

\* Two writers never hold one row.
LocksExclude ==
  \A c, d \in Clients :
    c # d /\ HasRow(c) /\ HasRow(d) /\ image[c] # NoRow /\ image[d] # NoRow
      => req[c].id # req[d].id

\* A row that is generating has no text; an approved one has an approver.
Sound(row) ==
  /\ row.status \in {"generating", "draft", "approved"}
  /\ row.status = "generating" => row.body = Empty
  /\ row.status = "approved" => row.approver # NoUser

RowsSound == \A i \in 1..Len(rows) : Sound(rows[i])

\* A row about to be inserted is generating.
NewRow(c) ==
  pc[c] \in {"numbered", "inserted"} =>
    /\ loaded[c].status = "generating" /\ loaded[c].body = Empty
    /\ loaded[c].approver = NoUser

\* An editor passed its checks on a row that has left generating for good.
EditorOfRow(c) ==
  Edits(c) => /\ rows[req[c].id].status # "generating"
              /\ MayWrite(req[c].user, rows[req[c].id].slot)

\* The copy of a row may be old, but not in slot and version, and an approver
\* seen once is replaced, never removed.
CopyOfRow(c) ==
  HasRow(c) /\ pc[c] \in {"loaded", "reloaded"} =>
    LET row == rows[req[c].id] IN
    /\ loaded[c].slot = row.slot /\ loaded[c].version = row.version
    /\ req[c].op = "generate" => loaded[c] = row
    /\ Edits(c) => Sound(loaded[c]) /\ loaded[c].status # "generating"
    /\ loaded[c].approver # NoUser => row.approver # NoUser
    /\ image[c] # NoRow => loaded[c] = image[c]

\* What is written and not committed fits the row that its lock protects.
ImageOfRow(c) ==
  HasRow(c) /\ image[c] # NoRow /\ pc[c] # "failing" =>
    LET row == rows[req[c].id] IN
    /\ image[c].slot = row.slot /\ image[c].version = row.version
    /\ Sound(image[c]) /\ image[c].status # "generating"
    /\ req[c].op = "generate" => image[c].body = Generated /\ image[c].status = "draft"
    /\ pc[c] # "approved" => image[c].approver = row.approver
    /\ pc[c] = "approved" =>
         \/ image[c].approver = req[c].user
         \/ image[c].approver = row.approver /\ row.approver # NoUser

Coherent ==
  \A c \in Clients : NewRow(c) /\ EditorOfRow(c) /\ CopyOfRow(c) /\ ImageOfRow(c)

\* The invariant on which the steps of a row's life rest.
Core == TypeOK /\ UnitsOfWork /\ LocksExclude /\ JobOwnsItsRow /\ RowsSound /\ Coherent

-----------------------------------------------------------------------------
(* Types and stages. *)

\* A commit replaces the row of the request by what was written, if anything was.
LEMMA PublishRows ==
  ASSUME TypeOK, NEW c \in Clients, req[c].id \in 1..Len(rows), Publish(c)
  PROVE  /\ rows' \in Seq(Row) /\ Len(rows') = Len(rows)
         /\ \A i \in 1..Len(rows) :
              rows'[i] = IF i = req[c].id /\ image[c] # NoRow THEN image[c] ELSE rows[i]
<1>1. rows \in Seq(Row) /\ (image[c] # NoRow => image[c] \in Row)
  BY DEF TypeOK
<1>2. CASE image[c] = NoRow
  BY <1>1, <1>2 DEF Publish
<1>3. CASE image[c] # NoRow
  <2>1. rows' = [rows EXCEPT ![req[c].id] = image[c]]
    BY <1>3 DEF Publish
  <2>2. QED
    BY <1>1, <1>3, <2>1
<1>4. QED
  BY <1>2, <1>3

\* What a unit of work sees of its row is a row.
LEMMA ViewType ==
  ASSUME TypeOK, UnitsOfWork, NEW c \in Clients, HasRow(c)
  PROVE  View(c) \in Row
BY DEF TypeOK, UnitsOfWork, UnitOfWork, View

RowsOf(s) == {i \in 1..Len(rows) : rows[i].slot = s}

\* The highest version of a slot is the number of its rows.
LEMMA HighestVersion ==
  ASSUME TypeOK, VersionsAreContiguous, NEW s \in Slots
  PROVE  /\ IsFiniteSet(RowsOf(s)) /\ Cardinality(RowsOf(s)) \in Nat
         /\ Versions(s) = 1..Cardinality(RowsOf(s))
         /\ Max(Versions(s) \cup {0}) = Cardinality(RowsOf(s))
<1>. DEFINE n == Cardinality(RowsOf(s))
<1>1. IsFiniteSet(1..Len(rows))
  BY FS_Interval DEF TypeOK
<1>2. IsFiniteSet(RowsOf(s)) /\ n \in Nat
  BY <1>1, FS_Subset, FS_CardinalityType DEF RowsOf
<1>3. Versions(s) = 1..n
  BY DEF VersionsAreContiguous, RowsOf
<1>. HIDE DEF n
<1>4. n \in 1..n \cup {0} /\ \A y \in 1..n \cup {0} : n >= y
  BY <1>2
<1>5. Max(1..n \cup {0}) \in 1..n \cup {0} /\ \A y \in 1..n \cup {0} : Max(1..n \cup {0}) >= y
  BY <1>4 DEF Max
<1>6. Max(1..n \cup {0}) = n
  BY <1>2, <1>4, <1>5
<1>7. QED
  BY <1>2, <1>3, <1>6 DEF n

\* The row that create_generating makes.
NumberedRow(s) ==
  [slot |-> s, version |-> NewVersion(s), body |-> Empty,
   status |-> "generating", approver |-> NoUser]

LEMMA NumberedRowType ==
  ASSUME TypeOK, VersionsAreContiguous, NEW s \in Slots
  PROVE  NumberedRow(s) \in Row
BY HighestVersion DEF NumberedRow, NewVersion, Row, Bodies, Statuses

\* Types are preserved by every step.
LEMMA TypeStep ==
  TypeOK /\ UnitsOfWork /\ VersionsAreContiguous /\ [Next]_vars => TypeOK'
<1>. SUFFICES ASSUME TypeOK, UnitsOfWork, VersionsAreContiguous, [Next]_vars
              PROVE  TypeOK'
  OBVIOUS
<1>. USE MonthlyAssumption
<1>. USE DEF Go, Steps
<1>0. ASSUME NEW c \in Clients, End(c), rows' \in Seq(Row),
             audit' \subseteq [id : Nat, user : Users]
      PROVE  TypeOK'
  BY <1>0 DEF TypeOK, End, NoReq, Request, Ops, Bodies
<1>1. ASSUME NEW c \in Clients, Number(c) PROVE TypeOK'
  <2>1. PICK u \in Users, s \in Slots :
          /\ req'    = [req EXCEPT ![c] = [NoReq EXCEPT !.op = "create", !.user = u]]
          /\ loaded' = [loaded EXCEPT ![c] = NumberedRow(s)]
    BY <1>1 DEF Number, NumberedRow
  <2>3. loaded' \in [Clients -> Row \cup {NoRow}]
    BY <2>1, NumberedRowType DEF TypeOK
  <2>4. req' \in [Clients -> Request]
    BY <2>1 DEF TypeOK, NoReq, Request, Ops, Bodies
  <2>5. QED
    BY <1>1, <2>3, <2>4 DEF Number, TypeOK
<1>2. ASSUME NEW c \in Clients, Insert(c) PROVE TypeOK'
  BY <1>2 DEF Insert, TypeOK
<1>3. ASSUME NEW c \in Clients, InsertConflict(c) PROVE TypeOK'
  BY <1>0, <1>3 DEF InsertConflict, TypeOK
<1>4. ASSUME NEW c \in Clients, CommitCreate(c) PROVE TypeOK'
  <2>1. image[c] \in Row
    BY <1>4 DEF CommitCreate, UnitsOfWork, UnitOfWork
  <2>2. req' \in [Clients -> Request]
    <3>1. req[c] \in Request /\ Len(rows) + 1 \in Nat
      BY DEF TypeOK
    <3>2. [req[c] EXCEPT !.op = "generate", !.id = Len(rows) + 1, !.form = Generated]
            \in Request
      BY <3>1 DEF Request, Ops, Bodies
    <3>3. req' = [req EXCEPT ![c] = [req[c] EXCEPT !.op = "generate",
                               !.id = Len(rows) + 1, !.form = Generated]]
      BY <1>4 DEF CommitCreate, TypeOK
    <3>4. QED
      BY <3>2, <3>3 DEF TypeOK
  <2>3. rows' \in Seq(Row)
    BY <1>4, <2>1 DEF CommitCreate, TypeOK
  <2>4. QED
    BY <1>4, <2>2, <2>3 DEF CommitCreate, TypeOK
<1>5. ASSUME NEW c \in Clients, GenerationFails(c) PROVE TypeOK'
  <2>1. View(c) \in Row
    BY <1>5, ViewType DEF GenerationFails, HasRow
  <2>2. [View(c) EXCEPT !.body = Empty, !.status = "failed"] \in Row
    BY <2>1 DEF Row, Bodies, Statuses
  <2>3. QED
    BY <1>5, <2>2 DEF GenerationFails, TypeOK
<1>6. ASSUME NEW c \in Clients, GenerationRaises(c) PROVE TypeOK'
  BY <1>0, <1>6 DEF GenerationRaises, TypeOK
<1>7. ASSUME NEW c \in Clients, CheckSave(c) PROVE TypeOK'
  BY <1>7 DEF CheckSave, TypeOK, Request, Ops, Bodies
<1>8. ASSUME NEW c \in Clients, CheckApprove(c) PROVE TypeOK'
  BY <1>8 DEF CheckApprove, TypeOK, Request, Ops, Bodies
<1>9. ASSUME NEW c \in Clients, Load(c) PROVE TypeOK'
  <2>1. View(c) \in Row
    BY <1>9, ViewType DEF Load, HasRow, UnitsOfWork, UnitOfWork
  <2>2. QED
    BY <1>9, <2>1 DEF Load, TypeOK
<1>10. ASSUME NEW c \in Clients, WriteBody(c) PROVE TypeOK'
  <2>. DEFINE new == [loaded[c] EXCEPT !.body = req[c].form, !.status = "draft"]
  <2>1. View(c) \in Row /\ loaded[c] \in Row
    BY <1>10, ViewType DEF WriteBody, HasRow, UnitsOfWork, UnitOfWork
  <2>2. new \in Row
    BY <2>1 DEF TypeOK, Row, Statuses, Request
  <2>3. NetChange(loaded[c], new, View(c)) \in Row
    BY <2>1, <2>2, NetChangeRow
  <2>4. image' \in [Clients -> Row \cup {NoRow}]
    BY <1>10, <2>3 DEF WriteBody, TypeOK
  <2>5. QED
    BY <1>10, <2>4 DEF WriteBody, TypeOK
<1>11. ASSUME NEW c \in Clients, CommitBody(c) PROVE TypeOK'
  <2>1. rows' \in Seq(Row)
    BY <1>11, PublishRows DEF CommitBody, UnitsOfWork, UnitOfWork, HasRow
  <2>2. QED
    BY <1>0, <1>11, <2>1 DEF CommitBody, TypeOK
<1>12. ASSUME NEW c \in Clients, Recheck(c) PROVE TypeOK'
  <2>1. CASE View(c).status = "draft"
    BY <1>12, <2>1 DEF Recheck, TypeOK
  <2>2. CASE View(c).status # "draft"
    BY <1>0, <1>12, <2>2 DEF Recheck, TypeOK
  <2>3. QED
    BY <2>1, <2>2
<1>13. ASSUME NEW c \in Clients, WriteApproval(c) PROVE TypeOK'
  <2>. DEFINE new == [loaded[c] EXCEPT !.status = "approved", !.approver = req[c].user]
  <2>1. View(c) \in Row /\ loaded[c] \in Row
    BY <1>13, ViewType DEF WriteApproval, HasRow, UnitsOfWork, UnitOfWork
  <2>2. new \in Row
    BY <2>1 DEF TypeOK, Row, Statuses, Request
  <2>3. NetChange(loaded[c], new, View(c)) \in Row
    BY <2>1, <2>2, NetChangeRow
  <2>4. QED
    BY <1>13, <2>3 DEF WriteApproval, TypeOK
<1>14. ASSUME NEW c \in Clients, CommitApproval(c) PROVE TypeOK'
  <2>1. req[c].id \in 1..Len(rows) /\ req[c].user \in Users
    BY <1>14 DEF CommitApproval, UnitsOfWork, UnitOfWork, HasRow
  <2>2. rows' \in Seq(Row)
    BY <1>14, <2>1, PublishRows DEF CommitApproval
  <2>3. audit' \subseteq [id : Nat, user : Users]
    BY <1>14, <2>1 DEF CommitApproval, TypeOK
  <2>4. QED
    BY <1>0, <1>14, <2>2, <2>3 DEF CommitApproval
<1>15. ASSUME NEW c \in Clients, Abort(c) PROVE TypeOK'
  BY <1>0, <1>15 DEF Abort, TypeOK
<1>16. CASE UNCHANGED vars
  BY <1>16 DEF vars, TypeOK
<1>17. QED
  BY <1>1, <1>2, <1>3, <1>4, <1>5, <1>6, <1>7, <1>8, <1>9, <1>10, <1>11,
     <1>12, <1>13, <1>14, <1>15, <1>16 DEF Next, Advance

\* A request that is over, or has just passed its checks, or goes on.
LEMMA UnitStep ==
  TypeOK /\ TypeOK' /\ VersionsAreContiguous /\ UnitsOfWork /\ [Next]_vars
    => UnitsOfWork'
<1>. SUFFICES ASSUME TypeOK, TypeOK', VersionsAreContiguous, UnitsOfWork, [Next]_vars
              PROVE  UnitsOfWork'
  OBVIOUS
<1>. USE MonthlyAssumption
<1>. USE DEF Go, HasRow
<1>a. Len(rows) \in Nat
  BY DEF TypeOK
\* The other clients do not notice, unless there were fewer rows.
<1>b. ASSUME NEW c \in Clients, NEW d \in Clients \ {c}, Len(rows') >= Len(rows),
             Len(rows') \in Nat,
             pc'[d] = pc[d], req'[d] = req[d], loaded'[d] = loaded[d],
             image'[d] = image[d]
      PROVE  UnitOfWork(d)'
  BY <1>a, <1>b DEF UnitsOfWork, UnitOfWork
<1>0. ASSUME NEW c \in Clients, End(c), Len(rows') = Len(rows) PROVE UnitsOfWork'
  <2>1. UnitOfWork(c)'
    BY <1>0 DEF End, UnitOfWork, TypeOK, NoReq
  <2>2. ASSUME NEW d \in Clients \ {c} PROVE UnitOfWork(d)'
    BY <1>a, <1>b, <1>0, <2>2 DEF End, TypeOK
  <2>3. QED
    BY <2>1, <2>2 DEF UnitsOfWork
<1>1. ASSUME NEW c \in Clients, Number(c) PROVE UnitsOfWork'
  <2>1. UnitOfWork(c)'
    <3>1. PICK u \in Users, s \in Slots :
            /\ req' = [req EXCEPT ![c] = [NoReq EXCEPT !.op = "create", !.user = u]]
            /\ loaded' = [loaded EXCEPT ![c] = NumberedRow(s)]
      BY <1>1 DEF Number, NumberedRow
    <3>2. loaded'[c] \in Row
      BY <3>1, NumberedRowType DEF TypeOK
    <3>3. QED
      BY <1>1, <3>1, <3>2 DEF Number, UnitsOfWork, UnitOfWork, TypeOK, NoReq
  <2>2. ASSUME NEW d \in Clients \ {c} PROVE UnitOfWork(d)'
    BY <1>a, <1>b, <1>1, <2>2 DEF Number, TypeOK
  <2>3. QED
    BY <2>1, <2>2 DEF UnitsOfWork
<1>2. ASSUME NEW c \in Clients, Insert(c) PROVE UnitsOfWork'
  <2>1. UnitOfWork(c)'
    BY <1>2 DEF Insert, UnitsOfWork, UnitOfWork, TypeOK
  <2>2. ASSUME NEW d \in Clients \ {c} PROVE UnitOfWork(d)'
    BY <1>a, <1>b, <1>2, <2>2 DEF Insert, TypeOK
  <2>3. QED
    BY <2>1, <2>2 DEF UnitsOfWork
<1>3. ASSUME NEW c \in Clients, CommitCreate(c) PROVE UnitsOfWork'
  <2>0. Len(rows') = Len(rows) + 1
    BY <1>3, <1>a DEF CommitCreate, TypeOK
  <2>1. /\ req'[c].op = "generate" /\ req'[c].form = Generated
        /\ req'[c].id = Len(rows) + 1
        /\ pc'[c] = "working" /\ image'[c] = NoRow
    BY <1>3 DEF CommitCreate, TypeOK, Request
  <2>2. UnitOfWork(c)'
    BY <1>a, <2>0, <2>1 DEF UnitOfWork
  <2>3. ASSUME NEW d \in Clients \ {c} PROVE UnitOfWork(d)'
    BY <1>a, <1>b, <1>3, <2>0, <2>3 DEF CommitCreate, TypeOK
  <2>4. QED
    BY <2>2, <2>3 DEF UnitsOfWork
<1>4. ASSUME NEW c \in Clients, GenerationFails(c) PROVE UnitsOfWork'
  <2>1. UnitOfWork(c)'
    BY <1>4 DEF GenerationFails, UnitsOfWork, UnitOfWork, TypeOK
  <2>2. ASSUME NEW d \in Clients \ {c} PROVE UnitOfWork(d)'
    BY <1>a, <1>b, <1>4, <2>2 DEF GenerationFails, TypeOK
  <2>3. QED
    BY <2>1, <2>2 DEF UnitsOfWork
<1>5. ASSUME NEW c \in Clients, CheckSave(c) PROVE UnitsOfWork'
  <2>1. UnitOfWork(c)'
    BY <1>5 DEF CheckSave, UnitsOfWork, UnitOfWork, TypeOK
  <2>2. ASSUME NEW d \in Clients \ {c} PROVE UnitOfWork(d)'
    BY <1>a, <1>b, <1>5, <2>2 DEF CheckSave, TypeOK
  <2>3. QED
    BY <2>1, <2>2 DEF UnitsOfWork
<1>6. ASSUME NEW c \in Clients, CheckApprove(c) PROVE UnitsOfWork'
  <2>1. UnitOfWork(c)'
    BY <1>6 DEF CheckApprove, UnitsOfWork, UnitOfWork, TypeOK
  <2>2. ASSUME NEW d \in Clients \ {c} PROVE UnitOfWork(d)'
    BY <1>a, <1>b, <1>6, <2>2 DEF CheckApprove, TypeOK
  <2>3. QED
    BY <2>1, <2>2 DEF UnitsOfWork
<1>7. ASSUME NEW c \in Clients, Load(c) PROVE UnitsOfWork'
  <2>0. View(c) \in Row
    BY <1>7, ViewType DEF Load, UnitsOfWork, UnitOfWork
  <2>1. UnitOfWork(c)'
    BY <1>7, <2>0 DEF Load, UnitsOfWork, UnitOfWork, TypeOK
  <2>2. ASSUME NEW d \in Clients \ {c} PROVE UnitOfWork(d)'
    BY <1>a, <1>b, <1>7, <2>2 DEF Load, TypeOK
  <2>3. QED
    BY <2>1, <2>2 DEF UnitsOfWork
<1>8. ASSUME NEW c \in Clients, WriteBody(c) PROVE UnitsOfWork'
  <2>0. pc'[c] = "written" /\ pc[c] = "loaded" /\ UNCHANGED <<rows, req, loaded>>
    BY <1>8 DEF WriteBody, TypeOK
  <2>1. UnitOfWork(c)'
    BY <2>0 DEF UnitsOfWork, UnitOfWork
  <2>2. ASSUME NEW d \in Clients \ {c} PROVE UnitOfWork(d)'
    BY <1>a, <1>b, <1>8, <2>2 DEF WriteBody, TypeOK
  <2>3. QED
    BY <2>1, <2>2 DEF UnitsOfWork
<1>9. ASSUME NEW c \in Clients, CommitBody(c) PROVE UnitsOfWork'
  BY <1>0, <1>9, PublishRows DEF CommitBody, UnitsOfWork, UnitOfWork
<1>10. ASSUME NEW c \in Clients, Recheck(c) PROVE UnitsOfWork'
  <2>1. CASE View(c).status = "draft"
    <3>1. UnitOfWork(c)'
      BY <1>10, <2>1 DEF Recheck, UnitsOfWork, UnitOfWork, TypeOK
    <3>2. ASSUME NEW d \in Clients \ {c} PROVE UnitOfWork(d)'
      BY <1>a, <1>b, <1>10, <2>1, <3>2 DEF Recheck, TypeOK
    <3>3. QED
      BY <3>1, <3>2 DEF UnitsOfWork
  <2>2. CASE View(c).status # "draft"
    BY <1>0, <1>10, <2>2 DEF Recheck
  <2>3. QED
    BY <2>1, <2>2
<1>11. ASSUME NEW c \in Clients, WriteApproval(c) PROVE UnitsOfWork'
  <2>. DEFINE new == [loaded[c] EXCEPT !.status = "approved", !.approver = req[c].user]
  <2>1. View(c) \in Row /\ loaded[c] \in Row /\ req[c].user \in Users
    BY <1>11, ViewType DEF WriteApproval, UnitsOfWork, UnitOfWork
  <2>2. NetChange(loaded[c], new, View(c)) \in Row
    <3>1. new \in Row
      BY <2>1 DEF Row, Statuses
    <3>2. QED
      BY <2>1, <3>1, NetChangeRow
  <2>3. pc'[c] = "approved" /\ image'[c] \in Row /\ UNCHANGED <<rows, req, loaded>>
    BY <1>11, <2>2 DEF WriteApproval, TypeOK
  <2>4. UnitOfWork(c)'
    BY <1>11, <2>3 DEF WriteApproval, UnitsOfWork, UnitOfWork
  <2>5. ASSUME NEW d \in Clients \ {c} PROVE UnitOfWork(d)'
    BY <1>a, <1>b, <1>11, <2>5 DEF WriteApproval, TypeOK
  <2>6. QED
    BY <2>4, <2>5 DEF UnitsOfWork
<1>12. ASSUME NEW c \in Clients, CommitApproval(c) PROVE UnitsOfWork'
  BY <1>0, <1>12, PublishRows DEF CommitApproval, UnitsOfWork, UnitOfWork
<1>13. CASE UNCHANGED vars
  BY <1>13 DEF vars, UnitsOfWork, UnitOfWork
<1>14. QED
  BY <1>0, <1>1, <1>2, <1>3, <1>4, <1>5, <1>6, <1>7, <1>8, <1>9, <1>10,
     <1>11, <1>12, <1>13 DEF Next, Advance, InsertConflict, GenerationRaises, Abort

-----------------------------------------------------------------------------
(* Locks. *)

\* A lock is taken only when the row is free.
LEMMA LockStep == TypeOK /\ UnitsOfWork /\ LocksExclude /\ [Next]_vars => LocksExclude'
<1>. SUFFICES ASSUME TypeOK, UnitsOfWork, LocksExclude, [Next]_vars PROVE LocksExclude'
  OBVIOUS
<1>. USE DEF LocksExclude, HasRow
\* A client that comes to hold a row has nothing written, or found it free.
<1>a. ASSUME NEW c \in Clients,
             \A d \in Clients \ {c} : req'[d] = req[d] /\ image'[d] = image[d],
             \/ image'[c] = NoRow
             \/ req'[c].op \notin {"generate", "save", "approve", "screen"}
             \/ req'[c] = req[c] /\ RowFree(c)
             \/ req'[c] = req[c] /\ image'[c] = image[c]
      PROVE  LocksExclude'
  BY <1>a DEF RowFree
<1>0. ASSUME NEW c \in Clients, End(c) PROVE LocksExclude'
  BY <1>a, <1>0 DEF End, TypeOK
<1>1. ASSUME NEW c \in Clients, Number(c) PROVE LocksExclude'
  <2>1. image'[c] = NoRow
    BY <1>1 DEF Number, UnitsOfWork, UnitOfWork
  <2>2. QED
    BY <1>a, <1>1, <2>1 DEF Number, TypeOK
<1>2. ASSUME NEW c \in Clients, Insert(c) PROVE LocksExclude'
  <2>1. req'[c].op = "create"
    BY <1>2 DEF Insert, UnitsOfWork, UnitOfWork
  <2>2. QED
    BY <1>a, <1>2, <2>1 DEF Insert, TypeOK
<1>3. ASSUME NEW c \in Clients, CommitCreate(c) PROVE LocksExclude'
  BY <1>a, <1>3 DEF CommitCreate, TypeOK
<1>4. ASSUME NEW c \in Clients, GenerationFails(c) PROVE LocksExclude'
  BY <1>a, <1>4 DEF GenerationFails, TypeOK
<1>5. ASSUME NEW c \in Clients, CheckSave(c) PROVE LocksExclude'
  <2>1. image'[c] = NoRow
    BY <1>5 DEF CheckSave, UnitsOfWork, UnitOfWork
  <2>2. QED
    BY <1>a, <1>5, <2>1 DEF CheckSave, TypeOK
<1>6. ASSUME NEW c \in Clients, CheckApprove(c) PROVE LocksExclude'
  <2>1. image'[c] = NoRow
    BY <1>6 DEF CheckApprove, UnitsOfWork, UnitOfWork
  <2>2. QED
    BY <1>a, <1>6, <2>1 DEF CheckApprove, TypeOK
<1>7. ASSUME NEW c \in Clients, Load(c) PROVE LocksExclude'
  BY <1>7 DEF Load
<1>8. ASSUME NEW c \in Clients, WriteBody(c) PROVE LocksExclude'
  BY <1>a, <1>8 DEF WriteBody, TypeOK
<1>9. ASSUME NEW c \in Clients, Recheck(c) PROVE LocksExclude'
  BY <1>0, <1>9 DEF Recheck
<1>10. ASSUME NEW c \in Clients, WriteApproval(c) PROVE LocksExclude'
  BY <1>a, <1>10 DEF WriteApproval, TypeOK
<1>11. CASE UNCHANGED vars
  BY <1>11 DEF vars
<1>12. QED
  BY <1>0, <1>1, <1>2, <1>3, <1>4, <1>5, <1>6, <1>7, <1>8, <1>9, <1>10, <1>11
     DEF Next, Advance, InsertConflict, GenerationRaises, CommitBody,
         CommitApproval, Abort

-----------------------------------------------------------------------------
(* The life of a row. *)

\* What a commit may do to a row.
Evolves(before, after) ==
  /\ after.slot = before.slot /\ after.version = before.version
  /\ before.status # "generating" => after.status # "generating"
  /\ before.approver # NoUser => after.approver # NoUser

\* A commit of c changes its own row only, and that in such a way.
RowsChangedBy(c) ==
  /\ Len(rows') \in Nat /\ Len(rows') >= Len(rows)
  /\ \A i \in 1..Len(rows) :
       /\ Evolves(rows[i], rows'[i])
       /\ rows'[i] = rows[i] \/ (HasRow(c) /\ req[c].id = i /\ image[c] # NoRow)

LEMMA PublishChanges ==
  ASSUME Core, NEW c \in Clients, HasRow(c), pc[c] \in {"written", "approved"}, Publish(c)
  PROVE  RowsChangedBy(c) /\ RowsSound' /\ Len(rows') = Len(rows)
<1>. USE DEF Core
<1>1. req[c].id \in 1..Len(rows) /\ Len(rows) \in Nat
  BY DEF UnitsOfWork, UnitOfWork, TypeOK
<1>2. /\ Len(rows') = Len(rows)
      /\ \A i \in 1..Len(rows) :
           rows'[i] = IF i = req[c].id /\ image[c] # NoRow THEN image[c] ELSE rows[i]
  BY <1>1, PublishRows
<1>3. image[c] # NoRow =>
        Evolves(rows[req[c].id], image[c]) /\ Sound(image[c])
  <2>1. pc[c] = "approved" => req[c].user # NoUser
    BY MonthlyAssumption DEF UnitsOfWork, UnitOfWork
  <2>2. QED
    BY <2>1 DEF Coherent, ImageOfRow, Evolves
<1>4. \A i \in 1..Len(rows) : Evolves(rows[i], rows[i])
  BY DEF Evolves
<1>5. RowsSound'
  BY <1>2, <1>3 DEF RowsSound
<1>6. QED
  BY <1>1, <1>2, <1>3, <1>4, <1>5 DEF RowsChangedBy

LEMMA CreateChanges ==
  ASSUME Core, NEW c \in Clients, CommitCreate(c)
  PROVE  /\ RowsChangedBy(c) /\ RowsSound' /\ Len(rows') = Len(rows) + 1
         /\ Len(rows) \in Nat /\ rows'[Len(rows) + 1].status = "generating"
         /\ \A i \in 1..Len(rows) : rows'[i] = rows[i]
<1>1. rows \in Seq(Row) /\ Len(rows) \in Nat
  BY DEF Core, TypeOK
<1>2. /\ Len(rows') = Len(rows) + 1 /\ rows'[Len(rows) + 1] = image[c]
      /\ \A i \in 1..Len(rows) : rows'[i] = rows[i]
  BY <1>1 DEF CommitCreate
<1>3. image[c].status = "generating" /\ image[c].body = Empty
  BY DEF CommitCreate, Core, UnitsOfWork, UnitOfWork, Coherent, NewRow
<1>4. Sound(image[c])
  BY <1>3 DEF Sound
<1>5. \A i \in 1..Len(rows) : Evolves(rows[i], rows[i])
  BY DEF Evolves
<1>6. RowsSound'
  BY <1>1, <1>2, <1>4 DEF Core, RowsSound
<1>7. QED
  BY <1>1, <1>2, <1>3, <1>5, <1>6 DEF RowsChangedBy

\* What every step does to the rows.
LEMMA RowsStep ==
  ASSUME Core, [Next]_vars
  PROVE  /\ RowsSound'
         /\ UNCHANGED rows \/ \E c \in Clients : RowsChangedBy(c)
<1>1. ASSUME NEW c \in Clients, CommitCreate(c) PROVE RowsSound' /\ RowsChangedBy(c)
  BY <1>1, CreateChanges
<1>2. ASSUME NEW c \in Clients, CommitBody(c) \/ CommitApproval(c)
      PROVE  RowsSound' /\ RowsChangedBy(c)
  BY <1>2, PublishChanges
     DEF CommitBody, CommitApproval, HasRow, Core, UnitsOfWork, UnitOfWork
<1>3. CASE UNCHANGED rows
  BY <1>3 DEF Core, RowsSound
<1>4. QED
  BY <1>1, <1>2, <1>3
     DEF Next, Advance, vars, Number, Insert, InsertConflict, GenerationFails,
         GenerationRaises, CheckSave, CheckApprove, Load, WriteBody, Recheck,
         WriteApproval, Abort

\* A job's row is generating, and stays the job's.
LEMMA JobStep == Core /\ [Next]_vars => JobOwnsItsRow'
<1>. SUFFICES ASSUME Core, [Next]_vars PROVE JobOwnsItsRow'
  OBVIOUS
<1>a. /\ \A c \in Clients : req[c].op = "generate" => req[c].id \in 1..Len(rows)
      /\ \A c \in Clients : req[c].id \in Nat /\ req[c].id <= Len(rows)
      /\ Len(rows) \in Nat
  BY DEF Core, TypeOK, UnitsOfWork, UnitOfWork, HasRow
\* The requests do not change, or one gives up its row, or takes a draft.
<1>b. ASSUME NEW c \in Clients,
             \A d \in Clients \ {c} : req'[d] = req[d],
             \/ req'[c] = req[c]
             \/ req'[c].op # "generate" /\ req'[c].id = 0
             \/ /\ req'[c].op # "generate" /\ req'[c].id \in 1..Len(rows)
                /\ rows[req'[c].id].status = "draft",
             UNCHANGED rows \/ (RowsChangedBy(c) /\ req'[c].op # "generate")
      PROVE  JobOwnsItsRow'
  <2>. SUFFICES ASSUME NEW j \in Clients, req'[j].op = "generate"
                PROVE  /\ rows'[req'[j].id].status = "generating"
                       /\ \A d \in Clients \ {j} : req'[d].id # req'[j].id
    BY DEF JobOwnsItsRow
  <2>1. req'[j] = req[j]
    BY <1>b
  <2>2. /\ rows[req[j].id].status = "generating" /\ req[j].id \in 1..Len(rows)
        /\ \A d \in Clients \ {j} : req[d].id # req[j].id
    BY <1>a, <2>1 DEF Core, JobOwnsItsRow
  <2>3. rows'[req[j].id] = rows[req[j].id]
    BY <1>b, <2>1, <2>2 DEF RowsChangedBy
  <2>4. \A d \in Clients \ {j} : req'[d].id # req[j].id
    BY <1>b, <2>2
  <2>5. QED
    BY <2>1, <2>2, <2>3, <2>4
<1>0. ASSUME NEW c \in Clients, End(c), UNCHANGED rows \/ RowsChangedBy(c)
      PROVE  JobOwnsItsRow'
  <2>1. req'[c].op = "none" /\ req'[c].id = 0 /\ \A d \in Clients \ {c} : req'[d] = req[d]
    BY <1>0 DEF End, NoReq, Core, TypeOK
  <2>2. QED
    BY <1>b, <1>0, <2>1
<1>1. ASSUME NEW c \in Clients, Number(c) PROVE JobOwnsItsRow'
  <2>1. /\ req'[c].op = "create" /\ req'[c].id = 0
        /\ \A d \in Clients \ {c} : req'[d] = req[d]
    BY <1>1 DEF Number, NoReq, Core, TypeOK
  <2>2. QED
    BY <1>b, <1>1, <2>1 DEF Number
<1>2. ASSUME NEW c \in Clients, CommitCreate(c) PROVE JobOwnsItsRow'
  <2>1. /\ \A d \in Clients \ {c} : req'[d] = req[d]
        /\ req'[c].id = Len(rows) + 1
    BY <1>2 DEF CommitCreate, Core, TypeOK, Request
  <2>2. /\ rows'[Len(rows) + 1].status = "generating"
        /\ \A i \in 1..Len(rows) : rows'[i] = rows[i]
    BY <1>2, CreateChanges
  <2>3. ASSUME NEW j \in Clients \ {c}, req'[j].op = "generate"
        PROVE  /\ rows'[req'[j].id].status = "generating"
               /\ \A d \in Clients \ {j} : req'[d].id # req'[j].id
    BY <1>a, <2>1, <2>2, <2>3 DEF Core, JobOwnsItsRow
  <2>4. \A d \in Clients \ {c} : req'[d].id # req'[c].id
    BY <1>a, <2>1
  <2>5. QED
    BY <2>1, <2>2, <2>3, <2>4 DEF JobOwnsItsRow
<1>3. ASSUME NEW c \in Clients, CheckSave(c) \/ CheckApprove(c) PROVE JobOwnsItsRow'
  <2>1. /\ req'[c].op # "generate" /\ req'[c].id \in 1..Len(rows)
        /\ rows[req'[c].id].status = "draft" /\ UNCHANGED rows
        /\ \A d \in Clients \ {c} : req'[d] = req[d]
    BY <1>3 DEF CheckSave, CheckApprove, Editable, Core, TypeOK
  <2>2. QED
    BY <1>b, <2>1
<1>4. CASE UNCHANGED <<rows, req>>
  BY <1>4 DEF Core, JobOwnsItsRow
<1>5. ASSUME NEW c \in Clients, CommitBody(c) \/ CommitApproval(c) PROVE JobOwnsItsRow'
  BY <1>0, <1>5, PublishChanges
     DEF CommitBody, CommitApproval, HasRow, Core, UnitsOfWork, UnitOfWork
<1>6. ASSUME NEW c \in Clients, Recheck(c) PROVE JobOwnsItsRow'
  BY <1>0, <1>4, <1>6 DEF Recheck
<1>7. QED
  BY <1>0, <1>1, <1>2, <1>3, <1>4, <1>5, <1>6
     DEF Next, Advance, vars, Insert, InsertConflict, GenerationFails,
         GenerationRaises, Load, WriteBody, WriteApproval, Abort

-----------------------------------------------------------------------------
(* Copies and images. *)

Coherence(c) == NewRow(c) /\ EditorOfRow(c) /\ CopyOfRow(c) /\ ImageOfRow(c)

\* What one client commits leaves the copies and images of the others coherent.
LEMMA OthersCoherent ==
  ASSUME Core, NEW c \in Clients, NEW d \in Clients \ {c},
         UNCHANGED rows \/ RowsChangedBy(c),
         pc'[d] = pc[d], req'[d] = req[d], loaded'[d] = loaded[d], image'[d] = image[d]
  PROVE  Coherence(d)'
<1>. USE DEF HasRow, Edits
<1>1. Coherence(d)
  BY DEF Core, Coherent, Coherence
<1>2. NewRow(d)'
  BY <1>1 DEF Coherence, NewRow
<1>3. CASE ~HasRow(d)
  BY <1>2, <1>3 DEF Coherence, EditorOfRow, CopyOfRow, ImageOfRow
<1>4. CASE HasRow(d)
  <2>. DEFINE i == req[d].id
  <2>1. i \in 1..Len(rows)
    BY <1>4 DEF Core, UnitsOfWork, UnitOfWork
  <2>2. Evolves(rows[i], rows'[i])
    BY <2>1 DEF RowsChangedBy, Evolves
  <2>3. req[d].op = "generate" \/ image[d] # NoRow => rows'[i] = rows[i]
    <3>1. rows'[i] = rows[i] \/ (HasRow(c) /\ req[c].id = i /\ image[c] # NoRow)
      BY <2>1 DEF RowsChangedBy
    <3>2. req[d].op = "generate" => req[c].id # i
      BY DEF Core, JobOwnsItsRow
    <3>3. image[d] # NoRow /\ HasRow(c) /\ image[c] # NoRow => req[c].id # i
      BY <1>4 DEF Core, LocksExclude
    <3>4. QED
      BY <3>1, <3>2, <3>3
  <2>4. EditorOfRow(d)'
    BY <1>1, <2>2 DEF Coherence, EditorOfRow, Evolves, MayWrite
  <2>5. CopyOfRow(d)'
    BY <1>1, <2>2, <2>3 DEF Coherence, CopyOfRow, Evolves
  <2>6. ImageOfRow(d)'
    BY <1>1, <2>3 DEF Coherence, ImageOfRow
  <2>7. QED
    BY <1>2, <2>4, <2>5, <2>6 DEF Coherence
<1>5. QED
  BY <1>3, <1>4

\* The body that is written over the row as it is now.
LEMMA BodyCoherent ==
  ASSUME Core, NEW c \in Clients, WriteBody(c)
  PROVE  ImageOfRow(c)'
<1>. DEFINE row == rows[req[c].id]
            new == [loaded[c] EXCEPT !.body = req[c].form, !.status = "draft"]
<1>1. /\ pc[c] = "loaded" /\ image[c] = NoRow /\ loaded[c] \in Row
      /\ req[c].op \in {"generate", "save", "screen"} /\ HasRow(c)
      /\ req[c].id \in 1..Len(rows) /\ row \in Row
      /\ req[c].form \in Bodies /\ Generated # Empty
      /\ req[c].op = "generate" => req[c].form = Generated
  BY MonthlyAssumption
     DEF WriteBody, Core, UnitsOfWork, UnitOfWork, HasRow, TypeOK, Bodies
<1>2. /\ loaded[c].slot = row.slot /\ loaded[c].version = row.version
      /\ req[c].op = "generate" => loaded[c] = row /\ row.status = "generating"
      /\ req[c].op # "generate" => row.status # "generating"
  BY <1>1 DEF Core, Coherent, CopyOfRow, EditorOfRow, Edits, JobOwnsItsRow
<1>3. /\ new \in Row /\ new.slot = loaded[c].slot /\ new.version = loaded[c].version
      /\ new.body = req[c].form /\ new.status = "draft"
      /\ new.approver = loaded[c].approver
  BY <1>1 DEF Row, Statuses
<1>4. Sound(row)
  BY <1>1 DEF Core, RowsSound
<1>5. pc'[c] = "written" /\ UNCHANGED <<rows, req>>
  BY <1>1 DEF WriteBody, Go, Core, TypeOK
<1>6. CASE image'[c] = NoRow
  BY <1>6 DEF ImageOfRow
<1>7. CASE image'[c] # NoRow
  <2>1. image'[c] = NetChange(loaded[c], new, row)
    BY <1>1, <1>7 DEF WriteBody, View, Core, TypeOK
  <2>2. /\ image'[c].slot = row.slot /\ image'[c].version = row.version
        /\ image'[c].approver = row.approver
        /\ image'[c].body = IF req[c].form = loaded[c].body THEN row.body
                            ELSE req[c].form
        /\ image'[c].status = IF "draft" = loaded[c].status THEN row.status
                              ELSE "draft"
    <3>. HIDE DEF new, row
    <3>1. /\ image'[c].slot = IF new.slot = loaded[c].slot THEN row.slot ELSE new.slot
          /\ image'[c].version = IF new.version = loaded[c].version THEN row.version ELSE new.version
          /\ image'[c].body = IF new.body = loaded[c].body THEN row.body ELSE new.body
          /\ image'[c].status = IF new.status = loaded[c].status THEN row.status ELSE new.status
          /\ image'[c].approver = IF new.approver = loaded[c].approver THEN row.approver ELSE new.approver
      BY <1>1, <1>3, <2>1, NetChangeRow
    <3>2. QED
      BY <1>2, <1>3, <3>1
  <2>3. Sound(image'[c]) /\ image'[c].status # "generating"
    BY <1>1, <1>2, <1>4, <2>2 DEF Sound
  <2>4. req[c].op = "generate" => image'[c].body = Generated /\ image'[c].status = "draft"
    BY <1>1, <1>2, <1>4, <2>2 DEF Sound
  <2>5. QED
    BY <1>5, <2>2, <2>3, <2>4 DEF ImageOfRow, HasRow
<1>8. QED
  BY <1>6, <1>7

\* The approval that is written over the row as it is now.
LEMMA ApprovalCoherent ==
  ASSUME Core, NEW c \in Clients, WriteApproval(c)
  PROVE  ImageOfRow(c)'
<1>. DEFINE row == rows[req[c].id]
            now == View(c)
            user == req[c].user
            new == [loaded[c] EXCEPT !.status = "approved", !.approver = user]
<1>1. /\ pc[c] = "reloaded" /\ loaded[c] \in Row /\ HasRow(c) /\ Edits(c)
      /\ user \in Users /\ user # NoUser /\ req[c].id \in 1..Len(rows) /\ row \in Row
  BY MonthlyAssumption
     DEF WriteApproval, Core, UnitsOfWork, UnitOfWork, HasRow, Edits, TypeOK
<1>2. now \in Row /\ now = IF image[c] # NoRow THEN image[c] ELSE row
  BY <1>1, ViewType DEF Core, View
<1>3. /\ loaded[c].slot = row.slot /\ loaded[c].version = row.version
      /\ loaded[c].approver # NoUser => row.approver # NoUser
      /\ image[c] # NoRow => loaded[c] = image[c] /\ image[c].approver = row.approver
      /\ Sound(now) /\ now.status # "generating"
      /\ now.slot = row.slot /\ now.version = row.version
  BY <1>1, <1>2 DEF Core, Coherent, CopyOfRow, EditorOfRow, ImageOfRow, RowsSound
<1>4. /\ new \in Row /\ new.slot = loaded[c].slot /\ new.version = loaded[c].version
      /\ new.body = loaded[c].body /\ new.status = "approved" /\ new.approver = user
  BY <1>1 DEF Row, Statuses
<1>5. /\ pc'[c] = "approved" /\ UNCHANGED <<rows, req>>
      /\ image'[c] = NetChange(loaded[c], new, now)
  BY <1>1 DEF WriteApproval, Go, Core, TypeOK
<1>6. /\ image'[c].slot = row.slot /\ image'[c].version = row.version
      /\ image'[c].body = now.body
      /\ image'[c].status = IF "approved" = loaded[c].status THEN now.status
                            ELSE "approved"
      /\ image'[c].approver = IF user = loaded[c].approver THEN now.approver ELSE user
  <2>. HIDE DEF new, now, row
  <2>1. /\ image'[c].slot = IF new.slot = loaded[c].slot THEN now.slot ELSE new.slot
        /\ image'[c].version = IF new.version = loaded[c].version THEN now.version ELSE new.version
        /\ image'[c].body = IF new.body = loaded[c].body THEN now.body ELSE new.body
        /\ image'[c].status = IF new.status = loaded[c].status THEN now.status ELSE new.status
        /\ image'[c].approver = IF new.approver = loaded[c].approver THEN now.approver ELSE new.approver
    BY <1>1, <1>2, <1>4, <1>5, NetChangeRow
  <2>2. QED
    BY <1>3, <1>4, <2>1
<1>7. \/ image'[c].approver = user
      \/ image'[c].approver = row.approver /\ row.approver # NoUser
  BY <1>1, <1>2, <1>3, <1>6
<1>8. image'[c].approver # NoUser
  BY <1>1, <1>7
<1>9. Sound(image'[c]) /\ image'[c].status # "generating"
  BY <1>3, <1>6, <1>8 DEF Sound
<1>10. QED
  BY <1>1, <1>5, <1>6, <1>7, <1>9 DEF ImageOfRow, HasRow, Edits

\* What a request reads is a sound row, its own or the committed one.
LEMMA LoadCoherent ==
  ASSUME Core, NEW c \in Clients, Load(c)
  PROVE  Coherence(c)'
<1>. USE DEF HasRow, Edits
<1>. DEFINE row == rows[req[c].id]
<1>1. /\ pc[c] \in {"working", "checked", "rechecked"} /\ HasRow(c)
      /\ req[c].id \in 1..Len(rows)
      /\ pc[c] # "rechecked" => image[c] = NoRow
      /\ pc[c] \notin {"inserted", "numbered", "failing", "approved"}
      /\ req[c].op = "generate" \/ Edits(c)
  BY DEF Load, Core, UnitsOfWork, UnitOfWork
<1>2. /\ UNCHANGED <<rows, req, image>> /\ pc'[c] \in {"loaded", "reloaded"}
      /\ loaded'[c] = IF image[c] # NoRow THEN image[c] ELSE row
  BY DEF Load, Go, View, Core, TypeOK
<1>3. req[c].op = "generate" => image[c] = NoRow
  BY <1>1 DEF Core, UnitsOfWork, UnitOfWork
<1>4. EditorOfRow(c) /\ ImageOfRow(c) /\ Sound(row)
  BY <1>1 DEF Core, Coherent, RowsSound
<1>5. EditorOfRow(c)'
  BY <1>2, <1>4 DEF EditorOfRow, MayWrite
<1>6. ImageOfRow(c)'
  BY <1>1, <1>2, <1>4 DEF ImageOfRow
<1>7. CopyOfRow(c)'
  BY <1>1, <1>2, <1>3, <1>4 DEF CopyOfRow, EditorOfRow, ImageOfRow
<1>8. NewRow(c)'
  BY <1>2 DEF NewRow
<1>9. QED
  BY <1>5, <1>6, <1>7, <1>8 DEF Coherence

LEMMA CoherentStep == Core /\ [Next]_vars => Coherent'
<1>. SUFFICES ASSUME Core, [Next]_vars PROVE Coherent'
  OBVIOUS
<1>. USE DEF HasRow, Edits, Go
\* The actor is coherent by its action, the others by what it commits.
<1>a. ASSUME NEW c \in Clients, Coherence(c)', UNCHANGED rows \/ RowsChangedBy(c),
             \A d \in Clients \ {c} :
               pc'[d] = pc[d] /\ req'[d] = req[d]
                 /\ loaded'[d] = loaded[d] /\ image'[d] = image[d]
      PROVE  Coherent'
  <2>1. \A d \in Clients \ {c} : Coherence(d)'
    BY <1>a, OthersCoherent
  <2>2. QED
    BY <1>a, <2>1 DEF Coherent, Coherence
<1>b. /\ \A c \in Clients : Coherence(c)
      /\ pc \in [Clients -> Steps] /\ req \in [Clients -> Request]
      /\ loaded \in [Clients -> Row \cup {NoRow}]
      /\ image \in [Clients -> Row \cup {NoRow}]
  BY DEF Core, Coherent, Coherence, TypeOK
<1>0. ASSUME NEW c \in Clients, End(c), UNCHANGED rows \/ RowsChangedBy(c)
      PROVE  Coherent'
  <2>1. Coherence(c)'
    BY <1>0, <1>b DEF End, NoReq, Coherence, NewRow, EditorOfRow, CopyOfRow, ImageOfRow
  <2>2. QED
    BY <1>a, <1>0, <1>b, <2>1 DEF End
<1>1. ASSUME NEW c \in Clients, Number(c) PROVE Coherent'
  <2>1. /\ pc'[c] = "numbered" /\ req'[c].op = "create"
        /\ loaded'[c].status = "generating" /\ loaded'[c].body = Empty
        /\ loaded'[c].approver = NoUser
    BY <1>1, <1>b DEF Number, NoReq
  <2>2. Coherence(c)'
    BY <2>1 DEF Coherence, NewRow, EditorOfRow, CopyOfRow, ImageOfRow
  <2>3. QED
    BY <1>a, <1>1, <1>b, <2>2 DEF Number
<1>2. ASSUME NEW c \in Clients, Insert(c) PROVE Coherent'
  <2>1. /\ pc[c] = "numbered" /\ req[c].op = "create" /\ UNCHANGED <<rows, req, loaded>>
    BY <1>2 DEF Insert, Core, UnitsOfWork, UnitOfWork
  <2>2. Coherence(c)'
    BY <1>b, <2>1 DEF Coherence, NewRow, EditorOfRow, CopyOfRow, ImageOfRow
  <2>3. QED
    BY <1>a, <1>2, <1>b, <2>2 DEF Insert
<1>3. ASSUME NEW c \in Clients, CommitCreate(c) PROVE Coherent'
  <2>1. pc'[c] = "working" /\ req'[c].op = "generate" /\ image'[c] = NoRow
    BY <1>3, <1>b DEF CommitCreate, Request
  <2>2. Coherence(c)'
    BY <2>1 DEF Coherence, NewRow, EditorOfRow, CopyOfRow, ImageOfRow
  <2>3. QED
    BY <1>a, <1>3, <1>b, <2>2, CreateChanges DEF CommitCreate
<1>4. ASSUME NEW c \in Clients, GenerationFails(c) PROVE Coherent'
  <2>1. pc'[c] = "failing" /\ req'[c].op = "generate"
    BY <1>4, <1>b DEF GenerationFails
  <2>2. Coherence(c)'
    BY <2>1 DEF Coherence, NewRow, EditorOfRow, CopyOfRow, ImageOfRow
  <2>3. QED
    BY <1>a, <1>4, <1>b, <2>2 DEF GenerationFails
<1>5. ASSUME NEW c \in Clients, CheckSave(c) \/ CheckApprove(c) PROVE Coherent'
  <2>1. /\ pc'[c] \in {"checked", "rechecked"} /\ image'[c] = NoRow
        /\ req'[c].op # "generate" /\ UNCHANGED rows
        /\ rows[req'[c].id].status = "draft" /\ MayWrite(req'[c].user, rows[req'[c].id].slot)
    BY <1>5, <1>b DEF CheckSave, CheckApprove, Editable, Core, UnitsOfWork, UnitOfWork
  <2>2. Coherence(c)'
    BY <2>1 DEF Coherence, NewRow, EditorOfRow, CopyOfRow, ImageOfRow, MayWrite
  <2>3. QED
    BY <1>a, <1>5, <1>b, <2>2 DEF CheckSave, CheckApprove
<1>6. ASSUME NEW c \in Clients, Load(c) PROVE Coherent'
  BY <1>a, <1>6, <1>b, LoadCoherent DEF Load
<1>7. ASSUME NEW c \in Clients, WriteBody(c) \/ WriteApproval(c) PROVE Coherent'
  <2>1. ImageOfRow(c)'
    BY <1>7, BodyCoherent, ApprovalCoherent
  <2>2. /\ UNCHANGED <<rows, req>> /\ pc'[c] \in {"written", "approved"}
        /\ \A d \in Clients \ {c} : pc'[d] = pc[d] /\ image'[d] = image[d]
        /\ UNCHANGED loaded
    BY <1>7, <1>b DEF WriteBody, WriteApproval
  <2>3. EditorOfRow(c)'
    BY <1>b, <2>2 DEF Coherence, EditorOfRow, MayWrite
  <2>4. Coherence(c)'
    BY <2>1, <2>2, <2>3 DEF Coherence, NewRow, CopyOfRow
  <2>5. QED
    BY <1>a, <2>2, <2>4
<1>8. ASSUME NEW c \in Clients, Recheck(c) PROVE Coherent'
  <2>1. CASE View(c).status = "draft"
    <3>1. /\ UNCHANGED <<rows, req, loaded, image>>
          /\ pc[c] = "written" /\ pc'[c] = "rechecked"
          /\ \A d \in Clients \ {c} : pc'[d] = pc[d]
      BY <1>8, <1>b, <2>1 DEF Recheck
    <3>2. Coherence(c)'
      BY <1>b, <3>1 DEF Coherence, NewRow, EditorOfRow, CopyOfRow, ImageOfRow, MayWrite
    <3>3. QED
      BY <1>a, <3>1, <3>2
  <2>2. CASE View(c).status # "draft"
    BY <1>0, <1>8, <2>2 DEF Recheck
  <2>3. QED
    BY <2>1, <2>2
<1>9. ASSUME NEW c \in Clients, CommitBody(c) \/ CommitApproval(c) PROVE Coherent'
  BY <1>0, <1>9, PublishChanges
     DEF CommitBody, CommitApproval, Core, UnitsOfWork, UnitOfWork
<1>10. CASE UNCHANGED vars
  BY <1>10, <1>b DEF vars, Coherent, Coherence, NewRow, EditorOfRow, CopyOfRow,
     ImageOfRow, MayWrite
<1>11. QED
  BY <1>0, <1>1, <1>2, <1>3, <1>4, <1>5, <1>6, <1>7, <1>8, <1>9, <1>10
     DEF Next, Advance, InsertConflict, GenerationRaises, Abort

-----------------------------------------------------------------------------
(* Versions. *)

\* A row that is inserted and not committed has a key of its own, and the version
\* it was given is at most the next one of its month.
KeysFree ==
  /\ \A c \in Clients : pc[c] = "inserted" =>
       \A i \in 1..Len(rows) : ~SameKey(rows[i], loaded[c])
  /\ \A c, d \in Clients :
       c # d /\ pc[c] = "inserted" /\ pc[d] = "inserted" =>
         ~SameKey(loaded[c], loaded[d])
  /\ \A c \in Clients : pc[c] \in {"numbered", "inserted"} =>
       loaded[c].version <= Cardinality(RowsOf(loaded[c].slot)) + 1

\* The rows of a month are never fewer, and without a new row they are the same.
LEMMA MonthGrows ==
  ASSUME Core, NEW c \in Clients, RowsChangedBy(c), NEW s
  PROVE  /\ IsFiniteSet(RowsOf(s)) /\ IsFiniteSet(RowsOf(s)')
         /\ Cardinality(RowsOf(s)) \in Nat /\ Cardinality(RowsOf(s)') \in Nat
         /\ Cardinality(RowsOf(s)) <= Cardinality(RowsOf(s)')
         /\ Len(rows') = Len(rows) =>
              RowsOf(s)' = RowsOf(s) /\ Versions(s)' = Versions(s)
<1>1. Len(rows) \in Nat /\ Len(rows') \in Nat /\ Len(rows) <= Len(rows')
  BY DEF Core, TypeOK, RowsChangedBy
<1>2. \A i \in 1..Len(rows) :
        rows'[i].slot = rows[i].slot /\ rows'[i].version = rows[i].version
  BY DEF RowsChangedBy, Evolves
<1>3. RowsOf(s) \subseteq RowsOf(s)'
  BY <1>1, <1>2 DEF RowsOf
<1>4. IsFiniteSet(1..Len(rows'))
  BY <1>1, FS_Interval
<1>5. IsFiniteSet(RowsOf(s)')
  BY <1>4, FS_Subset DEF RowsOf
<1>6. IsFiniteSet(RowsOf(s)) /\ Cardinality(RowsOf(s)) <= Cardinality(RowsOf(s)')
  BY <1>3, <1>5, FS_Subset
<1>7. Cardinality(RowsOf(s)) \in Nat /\ Cardinality(RowsOf(s)') \in Nat
  BY <1>5, <1>6, FS_CardinalityType
<1>8. ASSUME Len(rows') = Len(rows)
      PROVE  RowsOf(s)' = RowsOf(s) /\ Versions(s)' = Versions(s)
  <2>1. RowsOf(s)' = RowsOf(s)
    BY <1>2, <1>8 DEF RowsOf
  <2>2. /\ Versions(s) = {rows[i].version : i \in RowsOf(s)}
        /\ Versions(s)' = {rows'[i].version : i \in RowsOf(s)'}
    BY DEF Versions, RowsOf
  <2>3. \A i \in RowsOf(s) : rows'[i].version = rows[i].version
    BY <1>2 DEF RowsOf
  <2>4. QED
    BY <2>1, <2>2, <2>3
<1>9. QED
  BY <1>5, <1>6, <1>7, <1>8

\* The committed row takes the next version of its month.
LEMMA NextVersion ==
  ASSUME Core, VersionsAreContiguous, KeysFree, NEW c \in Clients, CommitCreate(c)
  PROVE  VersionsAreContiguous'
<1>. DEFINE n == Len(rows)   new == loaded[c]
<1>1. /\ rows \in Seq(Row) /\ n \in Nat /\ new \in Row
      /\ Len(rows') = n + 1 /\ rows'[n + 1] = new
      /\ \A i \in 1..n : rows'[i] = rows[i]
  BY DEF CommitCreate, Core, UnitsOfWork, UnitOfWork, TypeOK
<1>2. RowsChangedBy(c)
  BY CreateChanges
<1>3. /\ \A i \in 1..n : ~SameKey(rows[i], new)
      /\ new.version <= Cardinality(RowsOf(new.slot)) + 1
  BY DEF CommitCreate, KeysFree
<1>4. \A s \in Slots : Versions(s) = {rows[i].version : i \in RowsOf(s)}
  BY DEF Versions, RowsOf
<1>5. \A s \in Slots : Versions(s)' = {rows'[i].version : i \in RowsOf(s)'}
  BY DEF Versions, RowsOf
<1>6. ASSUME NEW s \in Slots PROVE Versions(s)' = 1..Cardinality(RowsOf(s)')
  <2>. DEFINE k == Cardinality(RowsOf(s))
  <2>1. k \in Nat /\ IsFiniteSet(RowsOf(s)) /\ Versions(s) = 1..k
    BY HighestVersion DEF Core
  <2>2. CASE s # new.slot
    <3>1. RowsOf(s)' = RowsOf(s)
      BY <1>1, <2>2 DEF RowsOf
    <3>2. \A i \in RowsOf(s) : rows'[i] = rows[i]
      BY <1>1 DEF RowsOf
    <3>3. Versions(s)' = Versions(s)
      <4>1. /\ Versions(s) = {rows[i].version : i \in RowsOf(s)}
            /\ Versions(s)' = {rows'[i].version : i \in RowsOf(s)'}
        BY <1>4, <1>5
      <4>2. QED
        BY <3>1, <3>2, <4>1
    <3>4. QED
      BY <2>1, <3>1, <3>3
  <2>3. CASE s = new.slot
    <3>1. RowsOf(s)' = RowsOf(s) \cup {n + 1} /\ n + 1 \notin RowsOf(s)
      BY <1>1, <2>3 DEF RowsOf
    <3>2. Cardinality(RowsOf(s)') = k + 1
      BY <2>1, <3>1, FS_AddElement
    <3>3. \A i \in RowsOf(s) : rows'[i] = rows[i]
      BY <1>1 DEF RowsOf
    <3>4. Versions(s)' = Versions(s) \cup {new.version}
      BY <1>1, <1>4, <1>5, <3>1, <3>3
    <3>5. new.version \notin Versions(s)
      BY <1>3, <1>4, <2>3 DEF RowsOf, SameKey
    <3>6. new.version \in Nat \ {0} /\ new.version <= k + 1
      BY <1>1, <1>3, <2>3 DEF Row
    <3>7. new.version = k + 1
      <4>. HIDE DEF k, new
      <4>1. new.version \notin 1..k
        BY <2>1, <3>5
      <4>2. QED
        BY <2>1, <3>6, <4>1
    <3>8. Versions(s)' = 1..(k + 1)
      <4>. HIDE DEF k, new
      <4>1. 1..(k + 1) = 1..k \cup {k + 1}
        BY <2>1
      <4>2. QED
        BY <2>1, <3>4, <3>7, <4>1
    <3>9. QED
      BY <3>2, <3>8
  <2>4. QED
    BY <2>2, <2>3
<1>7. QED
  BY <1>6 DEF VersionsAreContiguous, RowsOf

LEMMA VersionStep ==
  Core /\ VersionsAreContiguous /\ KeysFree /\ [Next]_vars => VersionsAreContiguous'
<1>. SUFFICES ASSUME Core, VersionsAreContiguous, KeysFree, [Next]_vars
              PROVE  VersionsAreContiguous'
  OBVIOUS
<1>1. ASSUME NEW c \in Clients, CommitCreate(c) PROVE VersionsAreContiguous'
  BY <1>1, NextVersion
<1>2. ASSUME NEW c \in Clients, CommitBody(c) \/ CommitApproval(c)
      PROVE  VersionsAreContiguous'
  <2>1. RowsChangedBy(c) /\ Len(rows') = Len(rows)
    BY <1>2, PublishChanges
       DEF CommitBody, CommitApproval, HasRow, Core, UnitsOfWork, UnitOfWork
  <2>2. \A s \in Slots : RowsOf(s)' = RowsOf(s) /\ Versions(s)' = Versions(s)
    BY <2>1, MonthGrows
  <2>3. QED
    BY <2>2 DEF VersionsAreContiguous, RowsOf
<1>3. CASE UNCHANGED rows
  <2>1. \A s \in Slots : RowsOf(s)' = RowsOf(s) /\ Versions(s)' = Versions(s)
    BY <1>3 DEF RowsOf, Versions
  <2>2. QED
    BY <2>1 DEF VersionsAreContiguous, RowsOf
<1>4. QED
  BY <1>1, <1>2, <1>3
     DEF Next, Advance, vars, Number, Insert, InsertConflict, GenerationFails,
         GenerationRaises, CheckSave, CheckApprove, Load, WriteBody, Recheck,
         WriteApproval, Abort

LEMMA KeysStep ==
  Core /\ VersionsAreContiguous /\ KeysFree /\ [Next]_vars => KeysFree'
<1>. SUFFICES ASSUME Core, VersionsAreContiguous, KeysFree, [Next]_vars PROVE KeysFree'
  OBVIOUS
<1>. USE DEF Go
<1>a. /\ pc \in [Clients -> Steps] /\ loaded \in [Clients -> Row \cup {NoRow}]
      /\ image \in [Clients -> Row \cup {NoRow}] /\ Len(rows) \in Nat
  BY DEF Core, TypeOK
\* A client that is not about to insert a row, or never was.
<1>b. ASSUME NEW c \in Clients, UNCHANGED rows \/ RowsChangedBy(c),
             Len(rows') = Len(rows), pc'[c] \notin {"numbered", "inserted"},
             \A d \in Clients \ {c} : pc'[d] = pc[d] /\ loaded'[d] = loaded[d]
      PROVE  KeysFree'
  <2>1. \A s : RowsOf(s)' = RowsOf(s)
    BY <1>b, MonthGrows DEF RowsOf
  <2>2. \A i \in 1..Len(rows) :
          rows'[i].slot = rows[i].slot /\ rows'[i].version = rows[i].version
    BY <1>b DEF RowsChangedBy, Evolves
  <2>3. QED
    BY <1>b, <2>1, <2>2 DEF KeysFree, SameKey
<1>0. ASSUME NEW c \in Clients, End(c), UNCHANGED rows \/ RowsChangedBy(c),
             Len(rows') = Len(rows)
      PROVE  KeysFree'
  BY <1>a, <1>b, <1>0 DEF End
<1>1. ASSUME NEW c \in Clients, Number(c) PROVE KeysFree'
  <2>1. PICK s \in Slots : loaded' = [loaded EXCEPT ![c] = NumberedRow(s)]
    BY <1>1 DEF Number, NumberedRow
  <2>2. /\ loaded'[c].slot = s
        /\ loaded'[c].version = Cardinality(RowsOf(s)) + 1
        /\ Cardinality(RowsOf(s)) \in Nat
    BY <1>a, <2>1, HighestVersion DEF NumberedRow, NewVersion, Core
  <2>3. /\ UNCHANGED rows /\ pc'[c] = "numbered"
        /\ \A d \in Clients \ {c} : pc'[d] = pc[d] /\ loaded'[d] = loaded[d]
    BY <1>1, <1>a, <2>1 DEF Number
  <2>4. \A t : RowsOf(t)' = RowsOf(t)
    BY <2>3 DEF RowsOf
  <2>5. QED
    BY <2>2, <2>3, <2>4 DEF KeysFree
<1>2. ASSUME NEW c \in Clients, Insert(c) PROVE KeysFree'
  <2>1. /\ \A d \in Clients : pc[d] = "inserted" => image[d] = loaded[d]
        /\ \A d \in Clients : pc[d] = "inserted" => ~SameKey(loaded[d], loaded[c])
        /\ \A i \in 1..Len(rows) : ~SameKey(rows[i], loaded[c])
        /\ UNCHANGED <<rows, loaded>> /\ pc[c] = "numbered"
    BY <1>2 DEF Insert, Core, UnitsOfWork, UnitOfWork
  <2>2. \A t : RowsOf(t)' = RowsOf(t)
    BY <2>1 DEF RowsOf
  <2>3. \A d \in Clients : pc'[d] = IF d = c THEN "inserted" ELSE pc[d]
    BY <1>2, <1>a DEF Insert
  <2>4. QED
    BY <2>1, <2>2, <2>3 DEF KeysFree, SameKey
<1>3. ASSUME NEW c \in Clients, CommitCreate(c) PROVE KeysFree'
  <2>1. /\ pc[c] = "inserted" /\ pc'[c] = "working"
        /\ \A d \in Clients \ {c} : pc'[d] = pc[d] /\ loaded'[d] = loaded[d]
        /\ Len(rows') = Len(rows) + 1 /\ rows'[Len(rows) + 1] = loaded[c]
        /\ \A i \in 1..Len(rows) : rows'[i] = rows[i]
    BY <1>3, <1>a DEF CommitCreate, Core, TypeOK, UnitsOfWork, UnitOfWork
  <2>2. \A s : /\ Cardinality(RowsOf(s)) <= Cardinality(RowsOf(s)')
               /\ Cardinality(RowsOf(s)) \in Nat /\ Cardinality(RowsOf(s)') \in Nat
    BY <1>3, CreateChanges, MonthGrows
  <2>3. ASSUME NEW d \in Clients, pc'[d] = "inserted", NEW i \in 1..Len(rows')
        PROVE  ~SameKey(rows'[i], loaded'[d])
    <3>1. d # c /\ pc[d] = "inserted" /\ loaded'[d] = loaded[d]
      BY <2>1, <2>3
    <3>2. CASE i \in 1..Len(rows)
      BY <2>1, <3>1, <3>2 DEF KeysFree
    <3>3. CASE i = Len(rows) + 1
      BY <2>1, <3>1, <3>3 DEF KeysFree
    <3>4. QED
      BY <1>a, <2>1, <2>3, <3>2, <3>3
  <2>4. ASSUME NEW d \in Clients, pc'[d] \in {"numbered", "inserted"}
        PROVE  loaded'[d].version <= Cardinality(RowsOf(loaded[d].slot)') + 1
    <3>1. loaded'[d] = loaded[d] /\ pc[d] \in {"numbered", "inserted"}
      BY <2>1, <2>4
    <3>2. PICK t : t = loaded[d].slot
      OBVIOUS
    <3>. DEFINE m == Cardinality(RowsOf(t))   m2 == Cardinality(RowsOf(t)')
    <3>3. loaded[d].version <= m + 1 /\ loaded[d].version \in Nat
      BY <3>1, <3>2 DEF KeysFree, Core, UnitsOfWork, UnitOfWork, Row
    <3>4. m <= m2 /\ m \in Nat /\ m2 \in Nat
      BY <2>2
    <3>5. loaded[d].version <= m2 + 1
      <4>. HIDE DEF m, m2
      <4>1. QED
        BY <3>3, <3>4
    <3>6. QED
      BY <3>1, <3>2, <3>5
  <2>5. \A d, e \in Clients :
          d # e /\ pc'[d] = "inserted" /\ pc'[e] = "inserted" =>
            ~SameKey(loaded'[d], loaded'[e])
    BY <2>1 DEF KeysFree
  <2>6. QED
    BY <2>3, <2>4, <2>5 DEF KeysFree
<1>4. ASSUME NEW c \in Clients,
             \/ GenerationFails(c) \/ CheckSave(c) \/ CheckApprove(c) \/ Load(c)
             \/ WriteBody(c) \/ WriteApproval(c)
      PROVE  KeysFree'
  BY <1>4, <1>a, <1>b
     DEF GenerationFails, CheckSave, CheckApprove, Load, WriteBody, WriteApproval
<1>5. ASSUME NEW c \in Clients, Recheck(c) PROVE KeysFree'
  BY <1>0, <1>5, <1>a, <1>b DEF Recheck
<1>6. ASSUME NEW c \in Clients, CommitBody(c) \/ CommitApproval(c) PROVE KeysFree'
  BY <1>0, <1>6, PublishChanges
     DEF CommitBody, CommitApproval, HasRow, Core, UnitsOfWork, UnitOfWork
<1>7. CASE UNCHANGED vars
  BY <1>7 DEF vars, KeysFree, RowsOf
<1>8. QED
  BY <1>0, <1>1, <1>2, <1>3, <1>4, <1>5, <1>6, <1>7
     DEF Next, Advance, InsertConflict, GenerationRaises, Abort

-----------------------------------------------------------------------------
(* Approvals. *)

\* The audit log names committed rows.
AuditInRange == \A a \in audit : a.id \in 1..Len(rows)

LEMMA RangeStep == Core /\ AuditInRange /\ [Next]_vars => AuditInRange'
<1>. SUFFICES ASSUME Core, AuditInRange, [Next]_vars PROVE AuditInRange'
  OBVIOUS
<1>1. Len(rows') \in Nat /\ Len(rows) \in Nat /\ Len(rows') >= Len(rows)
  BY RowsStep DEF RowsChangedBy, Core, TypeOK
<1>2. CASE UNCHANGED audit
  BY <1>1, <1>2 DEF AuditInRange
<1>3. ASSUME NEW c \in Clients, CommitApproval(c) PROVE AuditInRange'
  <2>1. req[c].id \in 1..Len(rows)
    BY <1>3 DEF CommitApproval, HasRow, Core, UnitsOfWork, UnitOfWork
  <2>2. QED
    BY <1>1, <1>3, <2>1 DEF CommitApproval, AuditInRange
<1>4. QED
  BY <1>2, <1>3
     DEF Next, Advance, vars, Number, Insert, InsertConflict, CommitCreate,
         GenerationFails, GenerationRaises, CheckSave, CheckApprove, Load,
         WriteBody, CommitBody, Recheck, WriteApproval, Abort

\* What an approval leaves in its row.
LEMMA ApprovedRow ==
  ASSUME Core, NEW c \in Clients, CommitApproval(c)
  PROVE  LET i == req[c].id IN
         /\ i \in 1..Len(rows) /\ Len(rows') = Len(rows)
         /\ req[c].user \in Users /\ MayWrite(req[c].user, rows[i].slot)
         /\ rows'[i].slot = rows[i].slot
         /\ \/ rows'[i].approver = req[c].user
            \/ rows'[i].approver = rows[i].approver /\ rows[i].approver # NoUser
         /\ \A k \in 1..Len(rows) : k # i => rows'[k] = rows[k]
<1>1. /\ pc[c] = "approved" /\ HasRow(c) /\ Edits(c) /\ Publish(c)
      /\ req[c].id \in 1..Len(rows) /\ req[c].user \in Users /\ image[c] # NoRow
  BY MonthlyAssumption
     DEF CommitApproval, HasRow, Edits, Core, UnitsOfWork, UnitOfWork
<1>2. /\ Len(rows') = Len(rows)
      /\ \A k \in 1..Len(rows) :
           rows'[k] = IF k = req[c].id /\ image[c] # NoRow THEN image[c] ELSE rows[k]
  BY <1>1, PublishRows DEF Core
<1>3. ImageOfRow(c) /\ EditorOfRow(c)
  BY DEF Core, Coherent
<1>4. QED
  BY <1>1, <1>2, <1>3 DEF ImageOfRow, EditorOfRow

\* A save or a generation leaves slot and approver as they are.
LEMMA SavedRows ==
  ASSUME Core, NEW c \in Clients, CommitBody(c)
  PROVE  /\ Len(rows') = Len(rows)
         /\ \A k \in 1..Len(rows) : rows'[k].slot = rows[k].slot
                                      /\ rows'[k].approver = rows[k].approver
<1>1. /\ pc[c] = "written" /\ HasRow(c) /\ Publish(c) /\ req[c].id \in 1..Len(rows)
  BY DEF CommitBody, HasRow, Core, UnitsOfWork, UnitOfWork
<1>2. /\ Len(rows') = Len(rows)
      /\ \A k \in 1..Len(rows) :
           rows'[k] = IF k = req[c].id /\ image[c] # NoRow THEN image[c] ELSE rows[k]
  BY <1>1, PublishRows DEF Core
<1>3. ImageOfRow(c)
  BY DEF Core, Coherent
<1>4. QED
  BY <1>1, <1>2, <1>3 DEF ImageOfRow

\* A new row has no approver.
LEMMA CreatedRow ==
  ASSUME Core, NEW c \in Clients, CommitCreate(c)
  PROVE  /\ Len(rows') = Len(rows) + 1 /\ Len(rows) \in Nat
         /\ rows'[Len(rows) + 1].approver = NoUser
         /\ \A k \in 1..Len(rows) : rows'[k] = rows[k]
<1>1. image[c].approver = NoUser /\ rows' = Append(rows, image[c])
  BY DEF CommitCreate, Core, UnitsOfWork, UnitOfWork, Coherent, NewRow
<1>2. rows \in Seq(Row)
  BY DEF Core, TypeOK
<1>3. QED
  BY <1>1, <1>2, CreateChanges

Logged(i) == {a.user : a \in {b \in audit : b.id = i}}

LEMMA AuditStep ==
  Core /\ AuditInRange /\ ApprovalMatchesAudit /\ [Next]_vars => ApprovalMatchesAudit'
<1>. SUFFICES ASSUME Core, AuditInRange, ApprovalMatchesAudit, [Next]_vars
              PROVE  ApprovalMatchesAudit'
  OBVIOUS
<1>a. \A i \in 1..Len(rows) :
        IF Logged(i) = {} THEN rows[i].approver = NoUser ELSE rows[i].approver \in Logged(i)
  BY DEF ApprovalMatchesAudit, Logged
<1>b. ASSUME \A i \in 1..Len(rows') :
               IF Logged(i)' = {} THEN rows'[i].approver = NoUser
               ELSE rows'[i].approver \in Logged(i)'
      PROVE  ApprovalMatchesAudit'
  BY <1>b DEF ApprovalMatchesAudit, Logged
<1>1. ASSUME NEW c \in Clients, CommitApproval(c) PROVE ApprovalMatchesAudit'
  <2>0. PICK i, user : i = req[c].id /\ user = req[c].user
    OBVIOUS
  <2>1. audit' = audit \cup {[id |-> i, user |-> user]}
    BY <1>1, <2>0 DEF CommitApproval
  <2>2. Logged(i)' = Logged(i) \cup {user}
    <3>. DEFINE e == [id |-> i, user |-> user]
    <3>1. e.id = i /\ e.user = user
      OBVIOUS
    <3>2. {b \in audit' : b.id = i} = {b \in audit : b.id = i} \cup {e}
      BY <2>1, <3>1
    <3>3. Logged(i)' = {a.user : a \in {b \in audit' : b.id = i}}
      BY DEF Logged
    <3>4. QED
      BY <3>1, <3>2, <3>3 DEF Logged
  <2>3. \A k : k # i => Logged(k)' = Logged(k)
    BY <2>1 DEF Logged
  <2>4. \A k \in 1..Len(rows) : k # i => rows'[k] = rows[k]
    BY <1>1, <2>0, ApprovedRow
  <2>5. /\ i \in 1..Len(rows) /\ Len(rows') = Len(rows)
        /\ \/ rows'[i].approver = user
           \/ rows'[i].approver = rows[i].approver /\ rows[i].approver # NoUser
    BY <1>1, <2>0, ApprovedRow
  <2>6. rows'[i].approver \in Logged(i)'
    BY <1>a, <2>2, <2>5
  <2>7. ASSUME NEW k \in 1..Len(rows'), k # i
        PROVE  IF Logged(k)' = {} THEN rows'[k].approver = NoUser
               ELSE rows'[k].approver \in Logged(k)'
    BY <1>a, <2>3, <2>4, <2>5, <2>7
  <2>8. QED
    BY <1>b, <2>2, <2>6, <2>7
<1>2. ASSUME NEW c \in Clients, CommitCreate(c) PROVE ApprovalMatchesAudit'
  <2>1. \A k : Logged(k)' = Logged(k)
    BY <1>2 DEF CommitCreate, Logged
  <2>2. Logged(Len(rows) + 1) = {}
    BY <1>2, CreatedRow DEF AuditInRange, Logged
  <2>3. QED
    BY <1>a, <1>b, <1>2, <2>1, <2>2, CreatedRow
<1>3. ASSUME NEW c \in Clients, CommitBody(c) PROVE ApprovalMatchesAudit'
  <2>1. \A k : Logged(k)' = Logged(k)
    BY <1>3 DEF CommitBody, Logged
  <2>2. QED
    BY <1>a, <1>b, <1>3, <2>1, SavedRows
<1>4. CASE UNCHANGED <<rows, audit>>
  BY <1>4 DEF ApprovalMatchesAudit
<1>5. QED
  BY <1>1, <1>2, <1>3, <1>4
     DEF Next, Advance, vars, Number, Insert, InsertConflict, GenerationFails,
         GenerationRaises, CheckSave, CheckApprove, Load, WriteBody, Recheck,
         WriteApproval, Abort

LEMMA AuthorityStep ==
  Core /\ ApproverIsAuthorized /\ [Next]_vars => ApproverIsAuthorized'
<1>. SUFFICES ASSUME Core, ApproverIsAuthorized, [Next]_vars
              PROVE  ApproverIsAuthorized'
  OBVIOUS
<1>. USE DEF ApproverIsAuthorized
<1>1. ASSUME NEW c \in Clients, CommitApproval(c) PROVE ApproverIsAuthorized'
  BY <1>1, ApprovedRow DEF MayWrite
<1>2. ASSUME NEW c \in Clients, CommitCreate(c) PROVE ApproverIsAuthorized'
  BY <1>2, CreatedRow
<1>3. ASSUME NEW c \in Clients, CommitBody(c) PROVE ApproverIsAuthorized'
  BY <1>3, SavedRows
<1>4. CASE UNCHANGED rows
  BY <1>4
<1>5. QED
  BY <1>1, <1>2, <1>3, <1>4
     DEF Next, Advance, vars, Number, Insert, InsertConflict, GenerationFails,
         GenerationRaises, CheckSave, CheckApprove, Load, WriteBody, Recheck,
         WriteApproval, Abort

\* What a step may do to a report that is generating, and to one that is not.
GenerationFirst ==
  \A i \in 1..Len(rows) :
    IF rows[i].status = "generating"
      THEN rows'[i] \in {rows[i],
             [rows[i] EXCEPT !.body = Generated, !.status = "draft"]}
      ELSE rows'[i].status # "generating"

LEMMA GenerationStep == Core /\ [Next]_vars => GenerationFirst
<1>. SUFFICES ASSUME Core, [Next]_vars, NEW i \in 1..Len(rows)
              PROVE  IF rows[i].status = "generating"
                       THEN rows'[i] \in {rows[i],
                              [rows[i] EXCEPT !.body = Generated, !.status = "draft"]}
                       ELSE rows'[i].status # "generating"
  BY DEF GenerationFirst
<1>1. CASE rows'[i] = rows[i]
  BY <1>1
<1>2. ASSUME NEW c \in Clients, HasRow(c), req[c].id = i, image[c] # NoRow,
             CommitBody(c) \/ CommitApproval(c)
      PROVE  IF rows[i].status = "generating"
               THEN rows'[i] = [rows[i] EXCEPT !.body = Generated, !.status = "draft"]
               ELSE rows'[i].status # "generating"
  <2>1. /\ rows'[i] = image[c] /\ rows[i] \in Row /\ image[c] \in Row
        /\ pc[c] \in {"written", "approved"}
    BY <1>2, PublishRows DEF Core, CommitBody, CommitApproval, TypeOK
  <2>2. ImageOfRow(c) /\ EditorOfRow(c)
    BY DEF Core, Coherent
  <2>3. CASE req[c].op = "generate"
    <3>1. rows[i].status = "generating" /\ pc[c] = "written"
      BY <1>2, <2>1, <2>3 DEF Core, JobOwnsItsRow, UnitsOfWork, UnitOfWork
    <3>2. /\ image[c].slot = rows[i].slot /\ image[c].version = rows[i].version
          /\ image[c].body = Generated /\ image[c].status = "draft"
          /\ image[c].approver = rows[i].approver
      BY <1>2, <2>2, <2>3, <3>1 DEF ImageOfRow
    <3>3. image[c] = [rows[i] EXCEPT !.body = Generated, !.status = "draft"]
      BY <2>1, <3>2 DEF Row
    <3>4. QED
      BY <2>1, <3>1, <3>3
  <2>4. CASE req[c].op # "generate"
    BY <1>2, <2>1, <2>2, <2>4 DEF HasRow, Edits, EditorOfRow, ImageOfRow
  <2>5. QED
    BY <2>3, <2>4
<1>3. ASSUME NEW c \in Clients, CommitBody(c) \/ CommitApproval(c)
      PROVE  rows'[i] = rows[i] \/ (HasRow(c) /\ req[c].id = i /\ image[c] # NoRow)
  BY <1>3, PublishChanges
     DEF CommitBody, CommitApproval, HasRow, Core, UnitsOfWork, UnitOfWork, RowsChangedBy
<1>4. ASSUME NEW c \in Clients, CommitCreate(c) PROVE rows'[i] = rows[i]
  BY <1>4, CreateChanges
<1>5. CASE UNCHANGED rows
  BY <1>1, <1>5
<1>6. QED
  BY <1>1, <1>2, <1>3, <1>4, <1>5
     DEF Next, Advance, vars, Number, Insert, InsertConflict, GenerationFails,
         GenerationRaises, CheckSave, CheckApprove, Load, WriteBody, Recheck,
         WriteApproval, Abort

-----------------------------------------------------------------------------
(* Theorems. *)

IInv == /\ Core /\ VersionsAreContiguous /\ KeysFree
        /\ AuditInRange /\ ApprovalMatchesAudit /\ ApproverIsAuthorized

LEMMA InvInit == Init => IInv
<1>. SUFFICES ASSUME Init PROVE IInv
  OBVIOUS
<1>. USE MonthlyAssumption DEF Init
<1>1. TypeOK
  BY DEF TypeOK, Steps, NoReq, Request, Ops, Bodies
<1>2. Len(rows) = 0 /\ 1..Len(rows) = {}
  OBVIOUS
<1>3. UnitsOfWork /\ LocksExclude /\ JobOwnsItsRow /\ RowsSound
  BY <1>2 DEF UnitsOfWork, UnitOfWork, HasRow, LocksExclude, JobOwnsItsRow, RowsSound, NoReq
<1>4. Coherent
  BY DEF Coherent, NewRow, EditorOfRow, CopyOfRow, ImageOfRow, HasRow, Edits, NoReq
<1>5. VersionsAreContiguous
  <2>1. \A s \in Slots : Versions(s) = {} /\ {i \in 1..Len(rows) : rows[i].slot = s} = {}
    BY <1>2 DEF Versions
  <2>2. Cardinality({}) = 0 /\ 1..0 = {}
    BY FS_EmptySet
  <2>3. QED
    BY <2>1, <2>2 DEF VersionsAreContiguous
<1>6. KeysFree /\ AuditInRange /\ ApprovalMatchesAudit /\ ApproverIsAuthorized
  BY <1>2 DEF KeysFree, AuditInRange, ApprovalMatchesAudit, ApproverIsAuthorized
<1>7. QED
  BY <1>1, <1>3, <1>4, <1>5, <1>6 DEF IInv, Core

LEMMA InvStep == IInv /\ [Next]_vars => IInv'
<1>. SUFFICES ASSUME IInv, [Next]_vars PROVE IInv'
  OBVIOUS
<1>1. TypeOK' /\ UnitsOfWork'
  BY TypeStep, UnitStep DEF IInv, Core
<1>2. LocksExclude' /\ JobOwnsItsRow' /\ RowsSound' /\ Coherent'
  BY LockStep, JobStep, RowsStep, CoherentStep DEF IInv, Core
<1>3. VersionsAreContiguous' /\ KeysFree'
  BY VersionStep, KeysStep DEF IInv
<1>4. AuditInRange' /\ ApprovalMatchesAudit' /\ ApproverIsAuthorized'
  BY RangeStep, AuditStep, AuthorityStep DEF IInv
<1>5. QED
  BY <1>1, <1>2, <1>3, <1>4 DEF IInv, Core

\* The invariant holds in every reachable state.
THEOREM InvariantHolds == Spec => []IInv
BY InvInit, InvStep, PTL DEF Spec

\* Rows, audit entries and units of work are always of the shape of their tables.
THEOREM TypeCorrect == Spec => []TypeOK
BY InvariantHolds, PTL DEF IInv, Core

\* However many clients create reports of one month, their versions are 1 to n
\* (create_generating and the unique constraint).
THEOREM VersionsStayContiguous == Spec => []VersionsAreContiguous
BY InvariantHolds, PTL DEF IInv

\* Rows and audit log agree on who approved (approve of MonthlyService).
THEOREM ApprovalsAreLogged == Spec => []ApprovalMatchesAudit
BY InvariantHolds, PTL DEF IInv

\* A report gets its first text from its own job, and no user's request comes before
\* that, however the units of work interleave and whichever of them are lost.
THEOREM GenerationIsFirst == Spec => GenerationComesFirst
<1>1. IInv /\ [Next]_vars => [GenerationFirst]_vars
  BY GenerationStep DEF IInv
<1>2. QED
  BY <1>1, InvariantHolds, PTL DEF GenerationComesFirst, GenerationFirst, Spec

\* Only those who may approve are ever approvers.
THEOREM AuthorityHolds == Spec => []ApproverIsAuthorized
BY InvariantHolds, PTL DEF IInv

\* A running generation has its row to itself (run_generation, set_body).
THEOREM JobsOwnTheirRows == Spec => []JobOwnsItsRow
BY InvariantHolds, PTL DEF IInv, Core
=============================================================================
