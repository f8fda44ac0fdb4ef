------------------------ MODULE MonthlyHistoryProofs ------------------------
(***************************************************************************)
(* Monthly reports implement the life cycle of MonthlyContract, for every  *)
(* value of the constants.                                                 *)
(***************************************************************************)
EXTENDS MonthlyHistory, MonthlyReportsProofs

-----------------------------------------------------------------------------
(* The inductive invariant. *)

\* A client that is idle has no request; one that is creating a report may.
CreatorOf(c) ==
  /\ pc[c] = "idle" => req[c] = NoReq
  /\ pc[c] \in {"numbered", "inserted"} => MayWrite(req[c].user, loaded[c].slot)

Creators == \A c \in Clients : CreatorOf(c)

\* What a request wants its report to be once it is written.
Wanted(c) ==
  [rows[req[c].id] EXCEPT
     !.body     = IF req[c].op = "approve" THEN @ ELSE req[c].form,
     !.status   = IF pc[c] = "approved" THEN "approved" ELSE "draft",
     !.approver = IF pc[c] = "approved" THEN req[c].user ELSE @]

\* The body is flushed, or the approval is.
HasWritten(c) ==
  \/ pc[c] \in {"written", "approved"}
  \/ req[c].op = "screen" /\ pc[c] \in {"rechecked", "reloaded"}

\* A request that nobody has overtaken is on a draft, a job on a row that is
\* generating; what it sees is the row, and what it has flushed is what it wants.
OnTime(c) ==
  HasRow(c) /\ c \notin late /\ pc[c] # "failing" =>
    LET row == rows[req[c].id] IN
    /\ row.status = IF req[c].op = "generate" THEN "generating" ELSE "draft"
    /\ View(c) = IF HasWritten(c) THEN Wanted(c) ELSE row
    /\ pc[c] \in {"loaded", "reloaded"} => loaded[c] = View(c)

\* The columns of what a request has flushed are the row's or those it wants.
Blended(c) ==
  Edits(c) /\ image[c] # NoRow =>
    LET row == rows[req[c].id] IN
    /\ image[c].body \in {row.body, Wanted(c).body}
    /\ image[c].status \in {row.status, Wanted(c).status}

\* Only edits are overtaken.
LateEdits == late \subseteq {c \in Clients : Edits(c)}

Timely == \A c \in Clients : OnTime(c) /\ Blended(c)

HistoryInv == IInv /\ Creators /\ LateEdits /\ Timely

-----------------------------------------------------------------------------
(* Who acts, and who is overtaken. *)

\* Nothing of the unit of work of d changes.
Untouched(d) ==
  pc'[d] = pc[d] /\ req'[d] = req[d] /\ loaded'[d] = loaded[d] /\ image'[d] = image[d]

\* c acts: it leaves the units of work of the others alone, and when it changes the
\* rows its request is over.
ActorIs(c) ==
  /\ \A d \in Clients \ {c} : Untouched(d)
  /\ UNCHANGED rows \/ (RowsChangedBy(c) /\ req'[c] # req[c])

\* A request that ends, with what it commits if anything.
LEMMA EndActs ==
  ASSUME Core, NEW c \in Clients, End(c), HasRow(c), UNCHANGED rows \/ RowsChangedBy(c)
  PROVE  ActorIs(c)
<1>1. req'[c] # req[c]
  BY DEF End, HasRow, NoReq, Core, TypeOK
<1>2. \A d \in Clients \ {c} : Untouched(d)
  BY DEF End, Go, Untouched, Core, TypeOK
<1>3. QED
  BY <1>1, <1>2 DEF ActorIs

\* Every step is the step of one client.
LEMMA Acts ==
  ASSUME Core, NEW c \in Clients,
         \/ Number(c) \/ CheckSave(c) \/ CheckApprove(c) \/ Advance(c) \/ Abort(c)
  PROVE  ActorIs(c)
<1>. USE DEF Core, TypeOK
<1>1. CASE UNCHANGED rows
  BY <1>1 DEF ActorIs, Untouched, Number, CheckSave, CheckApprove, Advance, Abort,
     Insert, InsertConflict, CommitCreate, GenerationFails, GenerationRaises, Load,
     WriteBody, CommitBody, Recheck, WriteApproval, CommitApproval, End, Go
<1>2. CASE CommitCreate(c)
  <2>1. req[c].op = "create" /\ req'[c].op = "generate"
    BY <1>2 DEF CommitCreate, UnitsOfWork, UnitOfWork, Request
  <2>2. QED
    BY <1>2, <2>1, CreateChanges DEF CommitCreate, ActorIs, Untouched, Go
<1>3. CASE CommitBody(c) \/ CommitApproval(c)
  <2>1. HasRow(c) /\ pc[c] \in {"written", "approved"} /\ Publish(c) /\ End(c)
    BY <1>3 DEF CommitBody, CommitApproval, HasRow, UnitsOfWork, UnitOfWork
  <2>2. QED
    BY <2>1, PublishChanges, EndActs
<1>4. QED
  BY <1>1, <1>2, <1>3 DEF Number, CheckSave, CheckApprove, Advance, Abort, Insert,
     InsertConflict, GenerationFails, GenerationRaises, Load, WriteBody, Recheck,
     WriteApproval

LateNext == late' = {c \in Clients : req'[c] = req[c] /\ (c \in late \/ Overtaken(c))}

\* The row of a request is there.
LEMMA RowOf ==
  ASSUME Core, NEW c \in Clients, HasRow(c)
  PROVE  req[c].id \in 1..Len(rows) /\ rows[req[c].id] \in Row /\ req[c].id # 0
BY DEF Core, TypeOK, UnitsOfWork, UnitOfWork

LEMMA HasRowById ==
  ASSUME Core, NEW c \in Clients
  PROVE  HasRow(c) <=> req[c].id # 0
BY RowOf DEF Core, UnitsOfWork, UnitOfWork

\* The actor itself is not overtaken by its step.
LEMMA ActorNotOvertaken ==
  ASSUME Core, NEW c \in Clients, ActorIs(c), LateNext
  PROVE  c \in late' <=> req'[c] = req[c] /\ c \in late
BY DEF ActorIs, LateNext, Overtaken

\* A request that is not overtaken finds its row as it was.
LEMMA OthersOvertaken ==
  ASSUME Core, NEW c \in Clients, ActorIs(c), LateNext, NEW d \in Clients \ {c}
  PROVE  d \in late' <=> d \in late \/ (HasRow(d) /\ rows'[req[d].id] # rows[req[d].id])
BY HasRowById DEF ActorIs, Untouched, LateNext, Overtaken

\* Jobs are not overtaken, and what a writer has locked does not change.
LEMMA LockedRow ==
  ASSUME Core, NEW c \in Clients, ActorIs(c), NEW d \in Clients \ {c}, HasRow(d),
         req[d].op = "generate" \/ image[d] # NoRow
  PROVE  rows'[req[d].id] = rows[req[d].id]
<1>1. req[d].id \in 1..Len(rows)
  BY RowOf
<1>2. CASE UNCHANGED rows
  BY <1>2
<1>3. CASE RowsChangedBy(c)
  <2>1. \/ rows'[req[d].id] = rows[req[d].id]
        \/ HasRow(c) /\ req[c].id = req[d].id /\ image[c] # NoRow
    BY <1>1, <1>3 DEF RowsChangedBy
  <2>2. req[d].op = "generate" => req[c].id # req[d].id
    BY DEF Core, JobOwnsItsRow
  <2>3. image[d] # NoRow /\ HasRow(c) /\ image[c] # NoRow => req[c].id # req[d].id
    BY DEF Core, LocksExclude
  <2>4. QED
    BY <2>1, <2>2, <2>3
<1>4. QED
  BY <1>2, <1>3 DEF ActorIs

-----------------------------------------------------------------------------
(* The steps. *)

LEMMA HistoryInit_Inv == HistoryInit => HistoryInv
<1>. SUFFICES ASSUME HistoryInit PROVE HistoryInv
  OBVIOUS
<1>1. IInv
  BY InvInit DEF HistoryInit
<1>2. Creators /\ LateEdits
  BY DEF HistoryInit, Init, Creators, CreatorOf, LateEdits
<1>3. \A c \in Clients : ~HasRow(c) /\ ~Edits(c)
  BY DEF HistoryInit, Init, HasRow, Edits, NoReq
<1>4. Timely
  BY <1>3 DEF Timely, OnTime, Blended
<1>5. QED
  BY <1>1, <1>2, <1>4 DEF HistoryInv

LEMMA CreatorsStep ==
  ASSUME HistoryInv, NEW c \in Clients, ActorIs(c), CreatorOf(c)'
  PROVE  Creators'
BY DEF HistoryInv, Creators, CreatorOf, ActorIs, Untouched, MayWrite

LEMMA CreatorStep ==
  ASSUME HistoryInv, NEW c \in Clients,
         \/ Number(c) \/ CheckSave(c) \/ CheckApprove(c) \/ Advance(c) \/ Abort(c)
  PROVE  CreatorOf(c)'
<1>. USE DEF HistoryInv, IInv, Core, TypeOK, Go
<1>1. CASE Number(c)
  <2>1. PICK u \in Users, s \in Slots :
          /\ MayWrite(u, s)
          /\ req'    = [req EXCEPT ![c] = [NoReq EXCEPT !.op = "create", !.user = u]]
          /\ loaded' = [loaded EXCEPT ![c] = NumberedRow(s)]
    BY <1>1 DEF Number, NumberedRow
  <2>2. pc'[c] = "numbered" /\ req'[c].user = u /\ loaded'[c].slot = s
    BY <1>1, <2>1 DEF Number, NumberedRow, NoReq
  <2>3. QED
    BY <2>1, <2>2 DEF CreatorOf, MayWrite
<1>2. CASE End(c)
  BY <1>2 DEF End, CreatorOf
<1>3. CASE Insert(c)
  BY <1>3 DEF Insert, Creators, CreatorOf, MayWrite
<1>4. CASE pc'[c] \notin {"idle", "numbered", "inserted"}
  BY <1>4 DEF CreatorOf
<1>5. QED
  BY <1>1, <1>2, <1>3, <1>4 DEF CheckSave, CheckApprove, Advance, Abort, InsertConflict,
     CommitCreate, GenerationFails, GenerationRaises, Load, WriteBody, CommitBody,
     Recheck, WriteApproval, CommitApproval

\* An edit keeps being one until it ends.
LEMMA LateStep ==
  ASSUME HistoryInv, NEW c \in Clients, ActorIs(c), LateNext
  PROVE  LateEdits'
<1>. USE DEF HistoryInv, IInv
<1>1. c \in late' => Edits(c)'
  BY ActorNotOvertaken DEF LateEdits, Edits
<1>2. ASSUME NEW d \in Clients \ {c}, d \in late' PROVE Edits(d)'
  <2>1. req'[d] = req[d]
    BY DEF ActorIs, Untouched
  <2>2. CASE d \in late
    BY <2>1, <2>2 DEF LateEdits, Edits
  <2>3. CASE HasRow(d) /\ rows'[req[d].id] # rows[req[d].id]
    BY <2>1, <2>3, LockedRow DEF Edits, HasRow
  <2>4. QED
    BY <1>2, <2>2, <2>3, OthersOvertaken
<1>3. QED
  BY <1>1, <1>2 DEF LateEdits, LateNext

\* A step of c leaves the others on time, or overtakes them.
LEMMA OthersTimely ==
  ASSUME HistoryInv, NEW c \in Clients, ActorIs(c), LateNext, NEW d \in Clients \ {c}
  PROVE  (OnTime(d) /\ Blended(d))'
<1>. USE DEF HistoryInv, IInv
<1>1. Untouched(d) /\ OnTime(d) /\ Blended(d)
  BY DEF ActorIs, Timely
<1>2. ASSUME HasRow(d), rows'[req[d].id] = rows[req[d].id] 
      PROVE  Wanted(d)' = Wanted(d) /\ View(d)' = View(d)
  BY <1>1, <1>2 DEF Untouched, Wanted, View
<1>3. OnTime(d)'
  <2>1. SUFFICES ASSUME HasRow(d)', d \notin late', pc'[d] # "failing"
                 PROVE  OnTime(d)'
    BY DEF OnTime
  <2>2. HasRow(d) /\ d \notin late /\ rows'[req[d].id] = rows[req[d].id]
    BY <1>1, <2>1, OthersOvertaken DEF Untouched, HasRow
  <2>3. QED
    BY <1>1, <1>2, <2>1, <2>2 DEF OnTime, Untouched, HasWritten, HasRow
<1>4. Blended(d)'
  <2>1. SUFFICES ASSUME Edits(d)', image'[d] # NoRow PROVE Blended(d)'
    BY DEF Blended
  <2>2. HasRow(d) /\ Edits(d) /\ image[d] # NoRow
    BY <1>1, <2>1 DEF Untouched, HasRow, Edits
  <2>3. rows'[req[d].id] = rows[req[d].id]
    BY <2>2, LockedRow
  <2>4. QED
    BY <1>1, <1>2, <2>2, <2>3 DEF Blended, Untouched
<1>5. QED
  BY <1>3, <1>4

\* An UPDATE of what was read as it is now has the effect it was meant to have.
LEMMA NetChangeExact ==
  ASSUME NEW old \in Row, NEW new \in Row
  PROVE  NetChange(old, new, old) = new
<1>1. DOMAIN old = DOMAIN new /\ new = [f \in DOMAIN new |-> new[f]]
  BY RowColumns DEF Row
<1>2. NetChange(old, new, old) = [f \in DOMAIN new |-> new[f]]
  BY <1>1 DEF NetChange
<1>3. QED
  BY <1>1, <1>2

\* A request that has just passed its checks, or a job that begins.
LEMMA FreshTimely ==
  ASSUME HistoryInv, NEW c \in Clients, ActorIs(c), LateNext,
         CommitCreate(c) \/ CheckSave(c) \/ CheckApprove(c)
  PROVE  (OnTime(c) /\ Blended(c))'
<1>. USE DEF HistoryInv, IInv, Core, TypeOK, Go
<1>1. /\ image'[c] = NoRow /\ pc'[c] \in {"working", "checked", "rechecked"}
      /\ pc'[c] = "rechecked" => req'[c].op = "approve"
      /\ rows'[req'[c].id].status =
           IF req'[c].op = "generate" THEN "generating" ELSE "draft"
  <2>1. CASE CommitCreate(c)
    BY <2>1, CreateChanges DEF CommitCreate, Request
  <2>2. CASE CheckSave(c) \/ CheckApprove(c)
    BY <2>2 DEF CheckSave, CheckApprove, Editable, UnitsOfWork, UnitOfWork
  <2>3. QED
    BY <2>1, <2>2
<1>2. QED
  BY <1>1 DEF OnTime, Blended, View, HasWritten

\* What is read is what is seen.
LEMMA LoadTimely ==
  ASSUME HistoryInv, NEW c \in Clients, ActorIs(c), LateNext, Load(c)
  PROVE  (OnTime(c) /\ Blended(c))'
<1>. USE DEF HistoryInv, IInv, Core, TypeOK, Go
<1>1. /\ UNCHANGED <<rows, req, image>> /\ loaded'[c] = View(c)
      /\ pc[c] \in {"working", "checked", "rechecked"}
      /\ pc'[c] = IF pc[c] = "rechecked" THEN "reloaded" ELSE "loaded"
  BY DEF Load
<1>2. HasRow(c) /\ (HasRow(c)' <=> HasRow(c)) /\ (Edits(c)' <=> Edits(c))
  BY <1>1 DEF HasRow, Edits, UnitsOfWork, UnitOfWork
<1>3. /\ View(c)' = View(c) /\ Wanted(c)' = Wanted(c)
      /\ HasWritten(c)' <=> HasWritten(c)
  BY <1>1 DEF View, Wanted, HasWritten
<1>4. OnTime(c) /\ Blended(c) /\ (c \in late' <=> c \in late)
  BY <1>1, ActorNotOvertaken DEF Timely
<1>5. QED
  BY <1>1, <1>2, <1>3, <1>4 DEF OnTime, Blended

\* The check before an approval from the screen changes nothing.
LEMMA RecheckTimely ==
  ASSUME HistoryInv, NEW c \in Clients, ActorIs(c), LateNext, Recheck(c), ~End(c)
  PROVE  (OnTime(c) /\ Blended(c))'
<1>. USE DEF HistoryInv, IInv, Core, TypeOK, Go
<1>1. /\ UNCHANGED <<rows, req, image, loaded>> /\ req[c].op = "screen"
      /\ pc[c] = "written" /\ pc'[c] = "rechecked"
  BY DEF Recheck
<1>2. HasRow(c) /\ (HasRow(c)' <=> HasRow(c)) /\ (Edits(c)' <=> Edits(c))
  BY <1>1 DEF HasRow, Edits
<1>3. /\ View(c)' = View(c) /\ Wanted(c)' = Wanted(c)
      /\ HasWritten(c)' /\ HasWritten(c)
  BY <1>1 DEF View, Wanted, HasWritten
<1>4. OnTime(c) /\ Blended(c) /\ (c \in late' <=> c \in late)
  BY <1>1, ActorNotOvertaken DEF Timely
<1>5. QED
  BY <1>1, <1>2, <1>3, <1>4 DEF OnTime, Blended

\* set_body writes what the request wants if it is on time, and otherwise a blend.
LEMMA BodyTimely ==
  ASSUME HistoryInv, NEW c \in Clients, ActorIs(c), LateNext, WriteBody(c)
  PROVE  (OnTime(c) /\ Blended(c))'
<1>. USE DEF HistoryInv, IInv, Core, TypeOK, Go
<1>. DEFINE row == rows[req[c].id]
            new == [loaded[c] EXCEPT !.body = req[c].form, !.status = "draft"]
<1>1. /\ pc[c] = "loaded" /\ pc'[c] = "written" /\ UNCHANGED <<rows, req, loaded>>
      /\ image[c] = NoRow /\ loaded[c] \in Row /\ HasRow(c) /\ row \in Row
      /\ req[c].op \in {"generate", "save", "screen"} /\ req[c].form \in Bodies
  BY RowOf DEF WriteBody, UnitsOfWork, UnitOfWork, HasRow, Bodies
<1>2. new \in Row
  BY <1>1 DEF Row, Statuses
<1>3. View(c) = row
  BY <1>1 DEF View
<1>4. image'[c] = IF new = loaded[c] THEN NoRow ELSE NetChange(loaded[c], new, row)
  BY <1>1, <1>3 DEF WriteBody
<1>5. c \in late' <=> c \in late
  BY <1>1, ActorNotOvertaken
<1>6. Wanted(c)' = [row EXCEPT !.body = req[c].form, !.status = "draft"]
  BY <1>1 DEF Wanted, Row
<1>7. ASSUME c \notin late PROVE OnTime(c)'
  <2>1. row.status = (IF req[c].op = "generate" THEN "generating" ELSE "draft")
        /\ loaded[c] = row
    BY <1>1, <1>3, <1>7 DEF Timely, OnTime
  <2>2. new = Wanted(c)'
    BY <1>6, <2>1
  <2>3. CASE new = loaded[c]
    <3>1. View(c)' = row /\ row = new
      BY <1>1, <1>4, <2>1, <2>3 DEF View
    <3>2. QED
      BY <1>1, <2>1, <2>2, <3>1 DEF OnTime, HasWritten
  <2>4. CASE new # loaded[c]
    <3>1. image'[c] = new /\ new # NoRow
      BY <1>1, <1>2, <1>4, <2>1, <2>4, NetChangeExact, MonthlyAssumption
    <3>2. View(c)' = new
      BY <3>1 DEF View
    <3>3. QED
      BY <1>1, <2>1, <2>2, <3>2 DEF OnTime, HasWritten
  <2>5. QED
    BY <2>3, <2>4
<1>8. Blended(c)'
  <2>1. SUFFICES ASSUME image'[c] # NoRow PROVE Blended(c)'
    BY DEF Blended
  <2>2. /\ image'[c].body = IF new.body = loaded[c].body THEN row.body ELSE new.body
        /\ image'[c].status = IF new.status = loaded[c].status THEN row.status ELSE new.status
    <3>. HIDE DEF new, row
    <3>1. QED
      BY <1>1, <1>2, <1>4, <2>1, NetChangeRow
  <2>3. /\ new.body = req[c].form /\ new.status = "draft"
        /\ (Wanted(c)').body = req[c].form /\ (Wanted(c)').status = "draft"
    BY <1>1, <1>6 DEF Row
  <2>4. QED
    BY <1>1, <2>2, <2>3 DEF Blended
<1>9. QED
  BY <1>5, <1>7, <1>8 DEF OnTime

LEMMA RowsEqual ==
  ASSUME NEW a \in Row, NEW b \in Row, a.slot = b.slot, a.version = b.version,
         a.body = b.body, a.status = b.status, a.approver = b.approver
  PROVE  a = b
BY DEF Row

\* repository.approve likewise.
LEMMA ApprovalTimely ==
  ASSUME HistoryInv, NEW c \in Clients, ActorIs(c), LateNext, WriteApproval(c)
  PROVE  (OnTime(c) /\ Blended(c))'
<1>. USE DEF HistoryInv, IInv, Core, TypeOK, Go
<1>. DEFINE row == rows[req[c].id]
            now == View(c)
            new == [loaded[c] EXCEPT !.status = "approved", !.approver = req[c].user]
            wanted == [row EXCEPT
                         !.body = IF req[c].op = "approve" THEN @ ELSE req[c].form,
                         !.status = "approved", !.approver = req[c].user]
<1>1. /\ pc[c] = "reloaded" /\ pc'[c] = "approved" /\ UNCHANGED <<rows, req, loaded>>
      /\ loaded[c] \in Row /\ HasRow(c) /\ Edits(c) /\ row \in Row
      /\ req[c].op \in {"approve", "screen"} /\ req[c].form \in Bodies
      /\ req[c].user \in Users
      /\ req[c].op = "approve" => image[c] = NoRow
  <2>1. pc[c] = "reloaded" /\ pc'[c] = "approved" /\ UNCHANGED <<rows, req, loaded>>
    BY DEF WriteApproval
  <2>2. req[c].op \in {"approve", "screen"} /\ loaded[c] \in Row
    BY <2>1 DEF UnitsOfWork, UnitOfWork
  <2>3. HasRow(c) /\ Edits(c) /\ req[c].form \in Bodies /\ req[c].user \in Users
    BY <2>2 DEF HasRow, Edits, UnitsOfWork, UnitOfWork, Request
  <2>4. req[c].op = "approve" => image[c] = NoRow
    BY <2>1 DEF UnitsOfWork, UnitOfWork
  <2>5. QED
    BY <2>1, <2>2, <2>3, <2>4, RowOf
<1>2. now \in Row /\ now = IF image[c] # NoRow THEN image[c] ELSE row
  BY <1>1, ViewType DEF View
<1>3. /\ new \in Row /\ new.slot = loaded[c].slot /\ new.version = loaded[c].version
      /\ new.body = loaded[c].body /\ new.status = "approved"
      /\ new.approver = req[c].user
  BY <1>1 DEF Row, Statuses
<1>4. image'[c] = NetChange(loaded[c], new, now)
  BY <1>1 DEF WriteApproval
<1>5. c \in late' <=> c \in late
  BY <1>1, ActorNotOvertaken
<1>6. /\ Wanted(c)' = wanted /\ wanted \in Row
      /\ wanted.slot = row.slot /\ wanted.version = row.version
      /\ wanted.body = (IF req[c].op = "approve" THEN row.body ELSE req[c].form)
      /\ wanted.status = "approved" /\ wanted.approver = req[c].user
  BY <1>1 DEF Wanted, Row, Statuses
<1>7. ASSUME c \notin late PROVE OnTime(c)'
  <2>1. /\ row.status = "draft" /\ loaded[c] = now
        /\ now = IF HasWritten(c) THEN Wanted(c) ELSE row
    BY <1>1, <1>7 DEF Timely, OnTime, Edits
  <2>2. /\ loaded[c].slot = row.slot /\ loaded[c].version = row.version
        /\ loaded[c].body = (IF req[c].op = "approve" THEN row.body ELSE req[c].form)
    BY <1>1, <2>1 DEF HasWritten, Wanted, Row
  <2>3. new = wanted
    <3>. HIDE DEF new, wanted, row
    <3>1. QED
      BY <1>3, <1>6, <2>2, RowsEqual
  <2>4. image'[c] = new /\ new # NoRow
    <3>. HIDE DEF new, now
    <3>1. QED
      BY <1>2, <1>3, <1>4, <2>1, NetChangeExact, MonthlyAssumption
  <2>5. View(c)' = Wanted(c)'
    BY <1>6, <2>3, <2>4 DEF View
  <2>6. QED
    BY <1>1, <2>1, <2>5 DEF OnTime, HasWritten, Edits
<1>8. Blended(c)'
  <2>1. /\ image'[c].body = IF new.body = loaded[c].body THEN now.body ELSE new.body
        /\ image'[c].status = IF new.status = loaded[c].status THEN now.status ELSE new.status
    <3>. HIDE DEF new, now
    <3>1. QED
      BY <1>1, <1>2, <1>3, <1>4, NetChangeRow
  <2>2. image[c] # NoRow =>
          /\ loaded[c] = image[c]
          /\ image[c].body \in {row.body, Wanted(c).body}
    BY <1>1 DEF Timely, Blended, Coherent, CopyOfRow
  <2>3. Wanted(c).body = wanted.body
    BY <1>1 DEF Wanted, Row
  <2>4. image'[c].body \in {row.body, wanted.body}
    BY <1>2, <1>3, <2>1, <2>2, <2>3
  <2>5. image'[c].status \in {row.status, wanted.status}
    BY <1>2, <1>3, <1>6, <2>1, <2>2
  <2>6. QED
    BY <1>1, <1>6, <2>4, <2>5 DEF Blended
<1>9. QED
  BY <1>5, <1>7, <1>8 DEF OnTime

\* A request that creates a report, is over or fails has nothing to be late with.
LEMMA ActorTimely ==
  ASSUME HistoryInv, NEW c \in Clients, ActorIs(c), LateNext,
         \/ Number(c) \/ CheckSave(c) \/ CheckApprove(c) \/ Advance(c) \/ Abort(c)
  PROVE  (OnTime(c) /\ Blended(c))'
<1>. USE DEF HistoryInv, IInv, Core, TypeOK, Go
<1>1. CASE End(c)
  BY <1>1 DEF End, NoReq, OnTime, Blended, HasRow, Edits
<1>2. CASE Number(c) \/ Insert(c)
  <2>1. req'[c].op = "create"
    BY <1>2 DEF Number, Insert, NoReq, UnitsOfWork, UnitOfWork
  <2>2. QED
    BY <2>1 DEF OnTime, Blended, HasRow, Edits
<1>3. CASE GenerationFails(c)
  <2>1. pc'[c] = "failing" /\ req'[c].op = "generate"
    BY <1>3 DEF GenerationFails
  <2>2. QED
    BY <2>1 DEF OnTime, Blended, Edits
<1>4. QED
  BY <1>1, <1>2, <1>3, FreshTimely, LoadTimely, RecheckTimely, BodyTimely, ApprovalTimely
     DEF Advance, Abort, InsertConflict, GenerationRaises, CommitBody, CommitApproval

LEMMA HistoryStep == HistoryInv /\ [HistoryNext]_historyVars => HistoryInv'
<1>. SUFFICES ASSUME HistoryInv, [HistoryNext]_historyVars PROVE HistoryInv'
  OBVIOUS
<1>1. IInv'
  BY InvStep DEF HistoryInv, HistoryNext, historyVars
<1>2. ASSUME HistoryNext PROVE Creators' /\ LateEdits' /\ Timely'
  <2>1. PICK c \in Clients :
          \/ Number(c) \/ CheckSave(c) \/ CheckApprove(c) \/ Advance(c) \/ Abort(c)
    BY <1>2 DEF HistoryNext, Next
  <2>2. ActorIs(c) /\ LateNext
    BY <1>2, <2>1, Acts DEF HistoryNext, LateNext, HistoryInv, IInv
  <2>3. Creators'
    BY <2>1, <2>2, CreatorStep, CreatorsStep
  <2>4. LateEdits'
    BY <2>2, LateStep
  <2>5. Timely'
    BY <2>1, <2>2, ActorTimely, OthersTimely DEF Timely
  <2>6. QED
    BY <2>3, <2>4, <2>5
<1>3. CASE UNCHANGED historyVars
  <2>1. Creators' /\ LateEdits'
    BY <1>3 DEF historyVars, vars, HistoryInv, Creators, CreatorOf, LateEdits, Edits, MayWrite
  <2>2. \A c \in Clients : (OnTime(c) /\ Blended(c))'
    BY <1>3 DEF historyVars, vars, HistoryInv, Timely, OnTime, Blended, HasRow, Edits,
       View, Wanted, HasWritten
  <2>3. QED
    BY <1>1, <2>1, <2>2 DEF HistoryInv, Timely
<1>4. QED
  BY <1>1, <1>2, <1>3 DEF HistoryInv

\* The invariant with the history of requests holds in every reachable state.
THEOREM HistoryHolds == HistorySpec => []HistoryInv
BY HistoryInit_Inv, HistoryStep, PTL DEF HistorySpec

-----------------------------------------------------------------------------
(***************************************************************************)
(* Refinement: every step of the units of work is a step in the life of a  *)
(* report, or one that the life of reports does not show.                  *)
(***************************************************************************)

LEMMA OpenIs ==
  ASSUME HistoryInv, NEW c \in Clients
  PROVE  /\ Open[c] = IF HasRow(c) THEN req[c] ELSE NoReq
         /\ Open[c].id = req[c].id
<1>1. req[c].op # "create" /\ ~HasRow(c) => pc[c] = "idle"
  BY DEF HistoryInv, IInv, Core, TypeOK, Request, Ops, UnitsOfWork, UnitOfWork, HasRow,
     Steps
<1>2. req[c].op # "create" /\ ~HasRow(c) => req[c] = NoReq
  BY <1>1 DEF HistoryInv, Creators, CreatorOf
<1>3. Open[c] = IF HasRow(c) THEN req[c] ELSE NoReq
  BY <1>2 DEF Open, HasRow
<1>4. ~HasRow(c) => req[c].id = 0
  BY DEF HistoryInv, IInv, Core, UnitsOfWork, UnitOfWork
<1>5. QED
  BY <1>3, <1>4 DEF NoReq

LEMMA OpenMoves ==
  ASSUME HistoryInv, NEW c \in Clients, ActorIs(c)
  PROVE  Open' = [Open EXCEPT ![c] = Open'[c]]
<1>1. \A d \in Clients \ {c} : Open'[d] = Open[d]
  BY DEF ActorIs, Untouched, Open
<1>2. Open = [d \in Clients |-> Open[d]] /\ Open' = [d \in Clients |-> Open'[d]]
  BY DEF Open
<1>3. QED
  BY <1>1, <1>2

\* A step that leaves rows, audit log and the requests on rows alone.
LEMMA Unseen ==
  ASSUME HistoryInv, NEW c \in Clients, ActorIs(c), LateNext, UNCHANGED <<rows, audit>>,
         req'[c] = req[c] \/ (~HasRow(c) /\ Open'[c] = Open[c])
  PROVE  UNCHANGED Contract!vars
<1>1. Open' = Open
  BY DEF Open, ActorIs, Untouched
<1>2. \A d \in Clients : req'[d] = req[d] \/ d \notin late
  BY DEF ActorIs, Untouched, HistoryInv, LateEdits, HasRow, Edits
<1>3. late' = late
  BY <1>2 DEF LateNext, Overtaken, HistoryInv, LateEdits
<1>4. QED
  BY <1>1, <1>3 DEF Contract!vars

\* The end of a request, with what it makes of its row.
LEMMA Finishes ==
  ASSUME HistoryInv, NEW c \in Clients, ActorIs(c), LateNext, HasRow(c), End(c),
         \A i \in 1..Len(rows) : i # req[c].id => rows'[i] = rows[i]
  PROVE  Contract!Finish(c)
<1>1. Open' = [Open EXCEPT ![c] = NoReq]
  BY DEF Open, End, NoReq, HistoryInv, IInv, Core, TypeOK
<1>2. Open[c].id = req[c].id
  BY OpenIs
<1>3. req'[c] # req[c]
  BY DEF End, HasRow, NoReq, HistoryInv, IInv, Core, TypeOK
<1>4. ASSUME NEW d \in Clients \ {c}
      PROVE  d \in late' <=> \/ d \in late
                             \/ Open[d].id = Open[c].id
                                  /\ rows'[Open[c].id] # rows[Open[c].id]
  <2>1. req[c].id # 0 /\ Open[d].id = req[d].id
    BY OpenIs, RowOf DEF HistoryInv, IInv
  <2>2. HasRow(d) => req[d].id \in 1..Len(rows)
    BY RowOf DEF HistoryInv, IInv
  <2>3. HasRow(d) <=> req[d].id # 0
    BY HasRowById DEF HistoryInv, IInv
  <2>4. d \in late' <=> d \in late \/ (HasRow(d) /\ rows'[req[d].id] # rows[req[d].id])
    BY OthersOvertaken DEF HistoryInv, IInv
  <2>5. QED
    BY <1>2, <2>1, <2>2, <2>3, <2>4
<1>5. late' = {d \in Clients \ {c} :
                 \/ d \in late
                 \/ Open[d].id = Open[c].id /\ rows'[Open[c].id] # rows[Open[c].id]}
  BY <1>3, <1>4 DEF LateNext
<1>6. QED
  BY <1>1, <1>5 DEF Contract!Finish, Contract!Report

\* What never reaches its commit.
LEMMA EndDrops ==
  ASSUME HistoryInv, NEW c \in Clients, ActorIs(c), LateNext, End(c),
         UNCHANGED <<rows, audit>>
  PROVE  Contract!Drop(c) \/ UNCHANGED Contract!vars
<1>1. CASE HasRow(c)
  <2>1. Open[c] = req[c] /\ req[c] # NoReq
    BY <1>1, OpenIs DEF HasRow, NoReq
  <2>2. QED
    BY <1>1, <2>1, Finishes DEF Contract!Drop
<1>2. CASE ~HasRow(c)
  <2>1. Open[c] = NoReq /\ Open'[c] = NoReq
    BY <1>2, OpenIs DEF Open, End, NoReq, HistoryInv, IInv, Core, TypeOK
  <2>2. QED
    BY <1>2, <2>1, Unseen
<1>3. QED
  BY <1>1, <1>2

\* The INSERT takes effect when it commits, as the next version of its slot.
LEMMA CreateRefines ==
  ASSUME HistoryInv, NEW c \in Clients, ActorIs(c), LateNext, CommitCreate(c)
  PROVE  Contract!Create(c)
<1>. USE DEF HistoryInv, IInv, Core, TypeOK
<1>0. PICK s, u : s = loaded[c].slot /\ u = req[c].user
  OBVIOUS
<1>1. /\ pc[c] = "inserted" /\ image[c] = loaded[c] /\ loaded[c] \in Row
      /\ req[c].op = "create" /\ u \in Users /\ MayWrite(u, s)
  BY <1>0 DEF CommitCreate, UnitsOfWork, UnitOfWork, Creators, CreatorOf
<1>2. Open[c] = NoReq
  BY <1>1, OpenIs DEF HasRow
<1>3. s \in Slots /\ s \in [v \in Users |-> {t \in Slots : MayWrite(v, t)}][u]
  BY <1>0, <1>1 DEF Row
<1>4. PICK v \in 1..(Len(rows) + 1) : loaded[c].version = v /\ Versions(s) = 1..(v - 1)
  <2>1. /\ Len(rows') = Len(rows) + 1 /\ rows'[Len(rows) + 1] = loaded[c]
        /\ \A i \in 1..Len(rows) : rows'[i] = rows[i]
    BY <1>1 DEF CommitCreate
  <2>2. VersionsAreContiguous'
    BY NextVersion
  <2>3. /\ IsFiniteSet(RowsOf(s)) /\ Cardinality(RowsOf(s)) \in Nat
        /\ Versions(s) = 1..Cardinality(RowsOf(s))
    BY <1>3, HighestVersion
  <2>4. RowsOf(s)' = RowsOf(s) \cup {Len(rows) + 1} /\ Len(rows) + 1 \notin RowsOf(s)
    BY <1>0, <2>1 DEF RowsOf
  <2>5. Cardinality(RowsOf(s)') = Cardinality(RowsOf(s)) + 1
    BY <2>3, <2>4, FS_AddElement
  <2>6. Versions(s)' = 1..(Cardinality(RowsOf(s)) + 1)
    BY <1>3, <2>2, <2>5 DEF VersionsAreContiguous, RowsOf
  <2>7. loaded[c].version \in Versions(s)'
    <3>1. Versions(s)' = {rows'[i].version : i \in RowsOf(s)'}
      BY DEF Versions, RowsOf
    <3>2. QED
      BY <2>1, <2>4, <3>1
  <2>8. loaded[c].version \notin Versions(s)
    <3>1. \A i \in 1..Len(rows) : ~SameKey(rows[i], loaded[c])
      BY <1>1 DEF KeysFree
    <3>2. QED
      BY <1>0, <3>1 DEF Versions, SameKey
  <2>9. \A n \in Nat : \A v : v \in 1..(n + 1) /\ v \notin 1..n => v = n + 1
    OBVIOUS
  <2>10. loaded[c].version = Cardinality(RowsOf(s)) + 1
    BY <2>3, <2>6, <2>7, <2>8, <2>9
  <2>11. Cardinality(RowsOf(s)) <= Len(rows)
    <3>1. RowsOf(s) \subseteq 1..Len(rows) /\ Len(rows) \in Nat
      BY DEF RowsOf
    <3>2. /\ IsFiniteSet(1..Len(rows))
          /\ Cardinality(1..Len(rows)) = IF 1 > Len(rows) THEN 0 ELSE Len(rows) - 1 + 1
      <4>1. 1 \in Int /\ Len(rows) \in Int
        BY <3>1
      <4>2. QED
        BY <4>1, FS_Interval, ZenonT(30)
    <3>3. Cardinality(1..Len(rows)) = Len(rows)
      BY <3>1, <3>2
    <3>4. QED
      BY <3>1, <3>2, <3>3, FS_Subset
  <2>12. Cardinality(RowsOf(s)) + 1 \in 1..(Len(rows) + 1)
    BY <2>3, <2>11
  <2>13. (Cardinality(RowsOf(s)) + 1) - 1 = Cardinality(RowsOf(s))
    BY <2>3
  <2>14. QED
    BY <2>3, <2>10, <2>12, <2>13
<1>5. rows' = Append(rows, [slot |-> s, version |-> v, body |-> Empty,
                            status |-> "generating", approver |-> NoUser])
  <2>1. /\ loaded[c].status = "generating" /\ loaded[c].body = Empty
        /\ loaded[c].approver = NoUser
    BY <1>1 DEF Coherent, NewRow
  <2>2. loaded[c] = [slot |-> s, version |-> v, body |-> Empty,
                     status |-> "generating", approver |-> NoUser]
    BY <1>0, <1>1, <1>4, <2>1 DEF Row
  <2>3. QED
    BY <1>1, <2>2 DEF CommitCreate
<1>6. Open' = [Open EXCEPT ![c] = [op |-> "generate", user |-> u, id |-> Len(rows) + 1,
                                   form |-> Generated]]
  <2>1. req'[c] = [op |-> "generate", user |-> u, id |-> Len(rows) + 1, form |-> Generated]
    <3>1. req[c] \in Request
      OBVIOUS
    <3>2. QED
      BY <1>0, <3>1 DEF CommitCreate, Request
  <2>2. Open'[c] = req'[c]
    BY <2>1 DEF Open
  <2>3. QED
    BY <2>1, <2>2, OpenMoves
<1>7. UNCHANGED <<audit, late>>
  <2>1. c \notin late
    BY <1>1 DEF LateEdits, Edits
  <2>2. \A d \in Clients \ {c} : HasRow(d) => rows'[req[d].id] = rows[req[d].id]
    BY RowOf, CreateChanges
  <2>3. c \notin late' /\ \A d \in Clients \ {c} : d \in late' <=> d \in late
    BY <2>1, <2>2, ActorNotOvertaken, OthersOvertaken
  <2>4. late \subseteq Clients /\ late' \subseteq Clients
    BY DEF LateEdits, LateNext
  <2>5. \A d : d \in late' <=> d \in late
    BY <2>1, <2>3, <2>4
  <2>6. late' = late
    BY <2>5
  <2>7. QED
    BY <2>6 DEF CommitCreate
<1>8. QED
  BY <1>1, <1>2, <1>3, <1>4, <1>5, <1>6, <1>7
     DEF Contract!Create, Contract!Versions, Versions

\* A request is admitted by its check.
LEMMA AdmitRefines ==
  ASSUME HistoryInv, NEW c \in Clients, ActorIs(c), LateNext,
         CheckSave(c) \/ CheckApprove(c)
  PROVE  Contract!Admit(c)
<1>. USE DEF HistoryInv, IInv, Core, TypeOK
<1>1. Open[c] = NoReq
  BY OpenIs DEF CheckSave, CheckApprove, UnitsOfWork, UnitOfWork, HasRow
<1>2. PICK u \in Users, i \in 1..Len(rows) :
        /\ Editable(u, i)
        /\ req'[c] \in [op : {"save", "screen"}, user : {u}, id : {i}, form : Forms]
                      \cup [op : {"approve"}, user : {u}, id : {i}, form : {Empty}]
  BY DEF CheckSave, CheckApprove
<1>3. rows[i].slot \in [v \in Users |-> {s \in Slots : MayWrite(v, s)}][u]
  <2>1. rows[i] \in Row
    BY <1>2
  <2>2. rows[i].slot \in Slots /\ MayWrite(u, rows[i].slot)
    BY <1>2, <2>1 DEF Editable, Row
  <2>3. QED
    BY <1>2, <2>2
<1>4. Open' = [Open EXCEPT ![c] = req'[c]]
  <2>1. Open'[c] = req'[c]
    BY <1>2 DEF Open
  <2>2. QED
    BY <2>1, OpenMoves
<1>5. UNCHANGED <<rows, audit>>
  BY DEF CheckSave, CheckApprove
<1>6. late' = late
  <2>1. c \notin late
    BY DEF LateEdits, Edits, CheckSave, CheckApprove, UnitsOfWork, UnitOfWork
  <2>2. \A d : d \in late' <=> d \in late
    BY <1>5, <2>1, ActorNotOvertaken, OthersOvertaken DEF LateEdits, LateNext
  <2>3. QED
    BY <2>2
<1>7. QED
  BY <1>1, <1>2, <1>3, <1>4, <1>5, <1>6 DEF Contract!Admit, Editable

\* A commit makes of the row what its unit of work sees.
LEMMA CommitShows ==
  ASSUME HistoryInv, NEW c \in Clients, HasRow(c), Publish(c)
  PROVE  /\ rows' = [rows EXCEPT ![req[c].id] = View(c)]
         /\ \A i \in 1..Len(rows) : i # req[c].id => rows'[i] = rows[i]
         /\ rows'[req[c].id] = View(c)
<1>1. req[c].id \in 1..Len(rows) /\ rows \in Seq(Row)
  BY RowOf DEF HistoryInv, IInv, Core, TypeOK
<1>2. rows' = [rows EXCEPT ![req[c].id] = View(c)]
  <2>1. CASE image[c] = NoRow
    <3>1. rows' = rows /\ View(c) = rows[req[c].id]
      BY <2>1 DEF Publish, View
    <3>2. QED
      BY <1>1, <3>1
  <2>2. CASE image[c] # NoRow
    BY <2>2 DEF Publish, View
  <2>3. QED
    BY <2>1, <2>2
<1>3. QED
  BY <1>1, <1>2

\* On time a commit shows what the request wants, late it shows a blend.
LEMMA Shows ==
  ASSUME HistoryInv, NEW c \in Clients, HasRow(c), pc[c] \in {"written", "approved"}
  PROVE  /\ View(c) \in Contract!Outcomes(c, Wanted(c))
         /\ c \notin late =>
              rows[req[c].id].status = IF req[c].op = "generate" THEN "generating" ELSE "draft"
<1>. USE DEF HistoryInv, IInv, Core
<1>. DEFINE row == rows[req[c].id]
<1>1. Open[c] = req[c] /\ row \in Row /\ View(c) \in Row
  BY OpenIs, RowOf, ViewType
<1>2. CASE c \notin late
  BY <1>1, <1>2 DEF Timely, OnTime, HasWritten, Contract!Outcomes
<1>3. CASE c \in late
  <2>1. /\ View(c).slot = row.slot /\ View(c).version = row.version
        /\ View(c).body \in {row.body, Wanted(c).body}
        /\ View(c).status \in {row.status, Wanted(c).status}
        /\ View(c).approver \in {row.approver, Wanted(c).approver}
    <3>1. CASE image[c] = NoRow
      BY <3>1 DEF View
    <3>2. CASE image[c] # NoRow
      <4>1. View(c) = image[c] /\ Edits(c)
        BY <1>3, <3>2 DEF View, LateEdits
      <4>2. /\ image[c].slot = row.slot /\ image[c].version = row.version
            /\ pc[c] # "approved" => image[c].approver = row.approver
            /\ pc[c] = "approved" => image[c].approver \in {row.approver, req[c].user}
        BY <3>2 DEF Coherent, ImageOfRow
      <4>3. Wanted(c).approver = IF pc[c] = "approved" THEN req[c].user ELSE row.approver
        BY <1>1 DEF Wanted, Row
      <4>4. QED
        BY <3>2, <4>1, <4>2, <4>3 DEF Timely, Blended
    <3>3. QED
      BY <3>1, <3>2
  <2>2. \A x \in Row : x = [slot |-> x.slot, version |-> x.version, body |-> x.body,
                           status |-> x.status, approver |-> x.approver]
    BY DEF Row
  <2>3. View(c) \in [slot : {row.slot}, version : {row.version},
                     body : {row.body, Wanted(c).body},
                     status : {row.status, Wanted(c).status},
                     approver : {row.approver, Wanted(c).approver}]
    BY <1>1, <2>1, <2>2
  <2>4. QED
    BY <1>1, <1>3, <2>3 DEF Contract!Outcomes, Contract!Report
<1>4. QED
  BY <1>2, <1>3

\* A commit of a body completes its report or saves it.
LEMMA BodyRefines ==
  ASSUME HistoryInv, NEW c \in Clients, ActorIs(c), LateNext, CommitBody(c)
  PROVE  Contract!Complete(c) \/ Contract!Save(c)
<1>. USE DEF HistoryInv, IInv, Core
<1>1. /\ pc[c] = "written" /\ Publish(c) /\ End(c) /\ UNCHANGED audit
      /\ req[c].op \in {"generate", "save"} /\ HasRow(c)
      /\ req[c].op = "generate" => req[c].form = Generated
  BY DEF CommitBody, HasRow, UnitsOfWork, UnitOfWork
<1>2. Open[c] = req[c] /\ rows[req[c].id] \in Row
  BY <1>1, OpenIs, RowOf
<1>3. Wanted(c) = [rows[req[c].id] EXCEPT !.body = req[c].form, !.status = "draft"]
  BY <1>1, <1>2 DEF Wanted, Row
<1>4. Contract!Become(c, Wanted(c)) /\ Contract!Finish(c)
  BY <1>1, <1>2, CommitShows, Shows, Finishes DEF Contract!Become
<1>5. req[c].op = "generate" => c \notin late
  BY DEF LateEdits, Edits
<1>6. QED
  BY <1>1, <1>2, <1>3, <1>4, <1>5, Shows
     DEF Contract!Complete, Contract!Save, Contract!Report

LEMMA ApprovalRefines ==
  ASSUME HistoryInv, NEW c \in Clients, ActorIs(c), LateNext, CommitApproval(c)
  PROVE  Contract!Approve(c)
<1>. USE DEF HistoryInv, IInv, Core
<1>1. /\ pc[c] = "approved" /\ Publish(c) /\ End(c)
      /\ audit' = audit \cup {[id |-> req[c].id, user |-> req[c].user]}
      /\ req[c].op \in {"approve", "screen"} /\ HasRow(c)
  BY DEF CommitApproval, HasRow, UnitsOfWork, UnitOfWork
<1>2. Open[c] = req[c] /\ rows[req[c].id] \in Row
  BY <1>1, OpenIs, RowOf
<1>3. Wanted(c) = [rows[req[c].id] EXCEPT
                     !.body     = IF req[c].op = "screen" THEN req[c].form ELSE @,
                     !.status   = "approved",
                     !.approver = req[c].user]
  BY <1>1, <1>2 DEF Wanted, Row
<1>4. Contract!Become(c, Wanted(c)) /\ Contract!Finish(c)
  BY <1>1, <1>2, CommitShows, Shows, Finishes DEF Contract!Become
<1>5. rows'[req[c].id].approver # NoUser
  BY ApprovedRow, MonthlyAssumption
<1>6. c \notin late => rows[req[c].id].status = "draft"
  BY <1>1, Shows
<1>7. QED
  BY <1>1, <1>2, <1>3, <1>4, <1>5, <1>6 DEF Contract!Approve, Contract!Report

LEMMA ContractStep ==
  ASSUME HistoryInv, [HistoryNext]_historyVars
  PROVE  [Contract!Next]_(Contract!vars)
<1>. DEFINE X == [Contract!Next]_(Contract!vars)
<1>1. CASE UNCHANGED historyVars
  BY <1>1 DEF historyVars, vars, Contract!vars, Open
<1>2. CASE HistoryNext
  <2>1. PICK c \in Clients :
          \/ Number(c) \/ CheckSave(c) \/ CheckApprove(c) \/ Advance(c) \/ Abort(c)
    BY <1>2 DEF HistoryNext, Next
  <2>2. ActorIs(c) /\ LateNext
    BY <1>2, <2>1, Acts DEF HistoryNext, LateNext, HistoryInv, IInv
  <2>3. CASE Number(c)
    <3>1. /\ UNCHANGED <<rows, audit>> /\ req'[c].op = "create" /\ pc[c] = "idle"
      BY <2>3 DEF Number, NoReq, HistoryInv, IInv, Core, TypeOK
    <3>2. ~HasRow(c) /\ Open[c] = NoReq
      BY <3>1, OpenIs DEF HasRow, HistoryInv, IInv, Core, UnitsOfWork, UnitOfWork
    <3>3. Open'[c] = NoReq
      BY <3>1 DEF Open
    <3>4. QED
      BY <2>2, <3>1, <3>2, <3>3, Unseen
  <2>4. CASE Insert(c) \/ GenerationFails(c) \/ Load(c) \/ WriteBody(c)
             \/ WriteApproval(c) \/ (Recheck(c) /\ ~End(c))
    BY <2>2, <2>4, Unseen
       DEF Insert, GenerationFails, Load, WriteBody, WriteApproval, Recheck
  <2>5. CASE UNCHANGED <<rows, audit>> /\ End(c)
    BY <2>2, <2>5, EndDrops DEF Contract!Next
  <2>6. CASE CommitCreate(c)
    BY <2>2, <2>6, CreateRefines DEF Contract!Next
  <2>7. CASE CheckSave(c) \/ CheckApprove(c)
    BY <2>2, <2>7, AdmitRefines DEF Contract!Next
  <2>8. CASE CommitBody(c)
    BY <2>2, <2>8, BodyRefines DEF Contract!Next
  <2>9. CASE CommitApproval(c)
    BY <2>2, <2>9, ApprovalRefines DEF Contract!Next
  <2>10. QED
    BY <2>1, <2>3, <2>4, <2>5, <2>6, <2>7, <2>8, <2>9
       DEF Advance, Abort, InsertConflict, GenerationRaises, Recheck
<1>3. QED
  BY <1>1, <1>2

\* Monthly reports live as MonthlyContract says: every commit of a unit of work is
\* one step of it, and everything else leaves what it shows unchanged.
THEOREM Refinement == HistorySpec => ImplementsContract
<1>1. HistoryInit => Contract!Init
  BY DEF HistoryInit, Init, Contract!Init, Open, NoReq
<1>2. HistoryInv /\ [HistoryNext]_historyVars => [Contract!Next]_(Contract!vars)
  BY ContractStep
<1>3. QED
  BY <1>1, <1>2, HistoryHolds, PTL DEF HistorySpec, ImplementsContract, Contract!Spec

-----------------------------------------------------------------------------
(* What is approved and settled. *)

\* No request begins on an approved report, and nobody writes to a report without
\* a request on it.
LEMMA SettledStep ==
  ASSUME Core, NEW c \in Clients, NEW i \in 1..Len(rows),
         rows[i].status = "approved", \A d \in Clients : req[d].id # i,
         \/ Number(c) \/ CheckSave(c) \/ CheckApprove(c) \/ Advance(c) \/ Abort(c)
  PROVE  rows'[i] = rows[i] /\ \A d \in Clients : req'[d].id # i
<1>1. ActorIs(c)
  BY Acts
<1>2. rows'[i] = rows[i]
  BY <1>1 DEF ActorIs, RowsChangedBy
<1>3. req'[c].id # i
  <2>. USE DEF Core, TypeOK
  <2>1. CASE Number(c)
    <3>1. req'[c].id = 0
      BY <2>1 DEF Number, NoReq
    <3>2. QED
      BY <3>1
  <2>2. CASE CheckSave(c) \/ CheckApprove(c)
    <3>1. PICK u \in Users, j \in 1..Len(rows) : Editable(u, j) /\ req'[c].id = j
      BY <2>2 DEF CheckSave, CheckApprove
    <3>2. QED
      BY <3>1 DEF Editable
  <2>3. CASE End(c)
    <3>1. req'[c].id = 0
      BY <2>3 DEF End, NoReq
    <3>2. QED
      BY <3>1
  <2>4. CASE CommitCreate(c)
    <3>1. req'[c].id = Len(rows) + 1 /\ Len(rows) \in Nat
      BY <2>4 DEF CommitCreate, Request
    <3>2. QED
      BY <3>1
  <2>5. CASE UNCHANGED req
    BY <2>5
  <2>6. QED
    BY <2>1, <2>2, <2>3, <2>4, <2>5
       DEF Advance, Abort, Insert, InsertConflict, GenerationFails, GenerationRaises,
           Load, WriteBody, CommitBody, Recheck, WriteApproval, CommitApproval
<1>4. QED
  BY <1>1, <1>2, <1>3 DEF ActorIs, Untouched

\* Once approved and left alone a report is final: what is written over an approval
\* was admitted before it.
THEOREM SettledIsFinal == Spec => SettledApprovalStays
<1>. DEFINE Settled(i) == rows[i].status = "approved" /\ \A c \in Clients : req[c].id # i
            Stays(i) == rows'[i] = rows[i] /\ \A c \in Clients : req'[c].id # i
<1>1. IInv /\ [Next]_vars => [\A i \in 1..Len(rows) : Settled(i) => Stays(i)]_vars
  BY SettledStep DEF IInv, Next
<1>2. QED
  BY <1>1, InvariantHolds, PTL DEF Spec, SettledApprovalStays
=============================================================================
