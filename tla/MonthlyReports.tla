--------------------------- MODULE MonthlyReports ---------------------------
(***************************************************************************)
(* Monthly reports (F-3): generation, editing and approval of the rows of  *)
(* monthly_reports (app/services/monthly.py, its two routers, and the      *)
(* repository), by API processes that share only PostgreSQL.               *)
(*                                                                         *)
(* A client is one request at a time: its unit of work reads, checks,      *)
(* SELECTs the row again, flushes an UPDATE and commits.  Isolation is     *)
(* READ COMMITTED: every SELECT sees what is committed by then (and the    *)
(* transaction's own writes); an UPDATE waits for the lock of the row; the *)
(* ORM puts in it only the columns that differ from the SELECT before it.  *)
(*                                                                         *)
(* A request that is refused (403, 404, 422) writes nothing and is no step. *)
(***************************************************************************)
EXTENDS Naturals, Sequences, FiniteSets, FiniteSetsExt, ReadCommitted

CONSTANTS
  Clients,    \* requests and background jobs in progress at one time
  Users, Qa,  \* the users, and those of the quality department among them
  Permitted,  \* Permitted[u]: the slots of the properties u may see
  Slots,      \* (property, month) pairs
  Forms,      \* bodies a user may submit, Empty perhaps among them
  Generated,  \* the body a generation renders
  Empty,      \* the body of a row still generating: the empty text
  MaxRows,    \* bound: rows created
  NoUser, NoRow

Statuses == {"generating", "draft", "approved", "failed"}
Bodies   == Forms \cup {Generated, Empty}
Row      == [slot : Slots, version : Nat \ {0}, body : Bodies,
             status : Statuses, approver : Users \cup {NoUser}]

ASSUME MonthlyAssumption ==
  /\ Qa \subseteq Users
  /\ Permitted \in [Users -> SUBSET Slots]
  /\ Empty # Generated       \* a rendered report has its headings
  /\ MaxRows \in Nat
  /\ NoUser \notin Users /\ NoRow \notin Row

VARIABLES
  rows,    \* committed rows of monthly_reports, in commit order: rows[id]
  audit,   \* committed approve_monthly entries of audit_logs
  pc,      \* pc[c]: where the unit of work of c stands
  req,     \* req[c]: what c was asked to do
  loaded,  \* loaded[c]: the row as the SELECT before the write returned it
  image    \* image[c]: the row c has written and not committed, or NoRow

vars == <<rows, audit, pc, req, loaded, image>>

Ops == {"none", "create", "generate", "save", "approve", "screen"}
Request == [op : Ops, user : Users \cup {NoUser}, id : Nat, form : Bodies]
NoReq   == [op |-> "none", user |-> NoUser, id |-> 0, form |-> Empty]

Steps == {"idle",
          "numbered", "inserted",          \* create: version chosen, row written
          "working", "failing",            \* generation: at the LLM, raising
          "checked", "loaded", "written",  \* body: status checked, read, flushed
          "rechecked", "reloaded",         \* approval: checked, read
          "approved"}                      \* approval: flushed, audit written

-----------------------------------------------------------------------------
(* What a unit of work sees. *)

\* The row of c's request: its own write, else the committed one.
View(c) == IF image[c] # NoRow THEN image[c] ELSE rows[req[c].id]

\* No other transaction holds the lock of c's row.
RowFree(c) ==
  \A d \in Clients \ {c} : image[d] # NoRow => req[d].id # req[c].id

Versions(s) == {rows[i].version : i \in {j \in 1..Len(rows) : rows[j].slot = s}}
Creating    == {c \in Clients : pc[c] \in {"numbered", "inserted"}}

\* Variant: the property scope alone decides; the quality department has all.
MayWrite_ScopeOnly(u, s) == s \in Permitted[u]

\* The quality department reads only; others write within their properties.
MayWrite(u, s) == u \notin Qa /\ s \in Permitted[u]

Go(c, to) == pc' = [pc EXCEPT ![c] = to]

\* The unit of work of c is over; nothing it had not committed remains.
End(c) ==
  /\ Go(c, "idle")
  /\ req'    = [req EXCEPT ![c] = NoReq]
  /\ loaded' = [loaded EXCEPT ![c] = NoRow]
  /\ image'  = [image EXCEPT ![c] = NoRow]

Publish(c) ==
  rows' = IF image[c] = NoRow THEN rows
          ELSE [rows EXCEPT ![req[c].id] = image[c]]

-----------------------------------------------------------------------------
Init ==
  /\ rows   = <<>>
  /\ audit  = {}
  /\ pc     = [c \in Clients |-> "idle"]
  /\ req    = [c \in Clients |-> NoReq]
  /\ loaded = [c \in Clients |-> NoRow]
  /\ image  = [c \in Clients |-> NoRow]

-----------------------------------------------------------------------------
(* POST: a new version in status generating, then the background job. *)

\* Variant: the highest version itself is taken.
NewVersion_Highest(s) == Max(Versions(s) \cup {0})

\* create_generating reads the highest version of the slot.
NewVersion(s) == Max(Versions(s) \cup {0}) + 1

Number(c) ==
  /\ pc[c] = "idle" /\ Len(rows) + Cardinality(Creating) < MaxRows
  /\ \E u \in Users, s \in Slots :
       /\ MayWrite(u, s)
       /\ req'    = [req EXCEPT ![c] = [NoReq EXCEPT !.op = "create", !.user = u]]
       /\ loaded' = [loaded EXCEPT ![c] =
                       [slot     |-> s,
                        version  |-> NewVersion(s),
                        body     |-> Empty,
                        status   |-> "generating",
                        approver |-> NoUser]]
  /\ Go(c, "numbered")
  /\ UNCHANGED <<rows, audit, image>>

SameKey(a, b) == a.slot = b.slot /\ a.version = b.version

\* Variant: no unique constraint on (property, month, version).
Insert_NoConstraint(c) ==
  /\ pc[c] = "numbered"
  /\ image' = [image EXCEPT ![c] = loaded[c]]
  /\ Go(c, "inserted")
  /\ UNCHANGED <<rows, audit, req, loaded>>

\* INSERT: it waits while another transaction holds the same key uncommitted.
Insert(c) ==
  /\ pc[c] = "numbered"
  /\ \A d \in Clients : pc[d] = "inserted" => ~SameKey(image[d], loaded[c])
  /\ \A i \in 1..Len(rows) : ~SameKey(rows[i], loaded[c])
  /\ image' = [image EXCEPT ![c] = loaded[c]]
  /\ Go(c, "inserted")
  /\ UNCHANGED <<rows, audit, req, loaded>>

\* The key is taken by now: IntegrityError, the request fails, no retry.
InsertConflict(c) ==
  /\ pc[c] = "numbered"
  /\ \E i \in 1..Len(rows) : SameKey(rows[i], loaded[c])
  /\ End(c)
  /\ UNCHANGED <<rows, audit>>

\* The row is committed and 202 returned; the job goes on in the same process
\* with a unit of work of its own.
CommitCreate(c) ==
  /\ pc[c] = "inserted"
  /\ rows'   = Append(rows, image[c])
  /\ req'    = [req EXCEPT ![c].op = "generate", ![c].id = Len(rows) + 1,
                           ![c].form = Generated]
  /\ loaded' = [loaded EXCEPT ![c] = NoRow]
  /\ image'  = [image EXCEPT ![c] = NoRow]
  /\ Go(c, "working")
  /\ UNCHANGED audit

\* Statistics, LLM or rendering raise: run_generation sets the row to failed
\* within its transaction ...
GenerationFails(c) ==
  /\ req[c].op = "generate" /\ pc[c] \in {"working", "loaded", "written"}
  /\ RowFree(c)
  /\ image' = [image EXCEPT ![c] =
                 [View(c) EXCEPT !.body = Empty, !.status = "failed"]]
  /\ Go(c, "failing")
  /\ UNCHANGED <<rows, audit, req, loaded>>

\* ... and raises again, so unit_of_work rolls that back.
GenerationRaises(c) ==
  /\ pc[c] = "failing"
  /\ End(c)
  /\ UNCHANGED <<rows, audit>>

-----------------------------------------------------------------------------
(* PATCH save and approve, and the approve button of the screen, which saves *)
(* the form and approves in one unit of work.                                *)

\* Variant: the status of the row is not looked at.
Editable_AnyStatus(u, id) == MayWrite(u, rows[id].slot)

\* The check of save_draft and of approve.
Editable(u, id) == MayWrite(u, rows[id].slot) /\ rows[id].status = "draft"

\* save_draft passes its check; op says which handler called it.
CheckSave(c) ==
  /\ pc[c] = "idle"
  /\ \E u \in Users, id \in 1..Len(rows), f \in Forms, op \in {"save", "screen"} :
       /\ Editable(u, id)
       /\ req' = [req EXCEPT ![c] = [op |-> op, user |-> u, id |-> id, form |-> f]]
  /\ Go(c, "checked")
  /\ UNCHANGED <<rows, audit, loaded, image>>

\* approve, called alone, passes its check.
CheckApprove(c) ==
  /\ pc[c] = "idle"
  /\ \E u \in Users, id \in 1..Len(rows) :
       /\ Editable(u, id)
       /\ req' = [req EXCEPT ![c] =
                    [op |-> "approve", user |-> u, id |-> id, form |-> Empty]]
  /\ Go(c, "rechecked")
  /\ UNCHANGED <<rows, audit, loaded, image>>

\* The SELECT of set_body or of repository.approve.
Load(c) ==
  /\ pc[c] \in {"working", "checked", "rechecked"}
  /\ loaded' = [loaded EXCEPT ![c] = View(c)]
  /\ Go(c, IF pc[c] = "rechecked" THEN "reloaded" ELSE "loaded")
  /\ UNCHANGED <<rows, audit, req, image>>

\* set_body: body and status draft.  Without a net change there is no UPDATE,
\* and no lock.
WriteBody(c) ==
  /\ pc[c] = "loaded"
  /\ LET new == [loaded[c] EXCEPT !.body = req[c].form, !.status = "draft"]
     IN  IF new = loaded[c] THEN UNCHANGED image
         ELSE /\ RowFree(c)
              /\ image' = [image EXCEPT ![c] = NetChange(loaded[c], new, View(c))]
  /\ Go(c, "written")
  /\ UNCHANGED <<rows, audit, req, loaded>>

\* Variant: the session is never closed and keeps the lock.
CommitBody_KeepsLock(c) ==
  /\ pc[c] = "written" /\ req[c].op # "screen"
  /\ Publish(c)
  /\ Go(c, "idle")
  /\ UNCHANGED <<audit, req, loaded, image>>

\* A save, or a finished generation, commits.
CommitBody(c) ==
  /\ pc[c] = "written" /\ req[c].op # "screen"
  /\ Publish(c)
  /\ End(c)
  /\ UNCHANGED audit

\* The screen's approve reads the row again and checks its status.
Recheck(c) ==
  /\ pc[c] = "written" /\ req[c].op = "screen"
  /\ IF View(c).status = "draft"
       THEN Go(c, "rechecked") /\ UNCHANGED <<req, loaded, image>>
       ELSE End(c)
  /\ UNCHANGED <<rows, audit>>

\* repository.approve: status and approver (and a new time, so there is always
\* an UPDATE).
WriteApproval(c) ==
  /\ pc[c] = "reloaded"
  /\ RowFree(c)
  /\ LET new == [loaded[c] EXCEPT !.status = "approved", !.approver = req[c].user]
     IN  image' = [image EXCEPT ![c] = NetChange(loaded[c], new, View(c))]
  /\ Go(c, "approved")
  /\ UNCHANGED <<rows, audit, req, loaded>>

\* The approval and its audit entry commit together.
CommitApproval(c) ==
  /\ pc[c] = "approved"
  /\ Publish(c)
  /\ audit' = audit \cup {[id |-> req[c].id, user |-> req[c].user]}
  /\ End(c)

\* A statement or the commit fails, or the process dies; for a job also before
\* its background task has begun.
Abort(c) ==
  /\ pc[c] # "idle"
  /\ End(c)
  /\ UNCHANGED <<rows, audit>>

Advance(c) ==
  \/ Insert(c) \/ InsertConflict(c) \/ CommitCreate(c)
  \/ GenerationFails(c) \/ GenerationRaises(c)
  \/ Load(c) \/ WriteBody(c) \/ CommitBody(c)
  \/ Recheck(c) \/ WriteApproval(c) \/ CommitApproval(c)

Next == \E c \in Clients :
          \/ Number(c) \/ CheckSave(c) \/ CheckApprove(c)
          \/ Advance(c) \/ Abort(c)

Spec == Init /\ [][Next]_vars

(***************************************************************************)
(* Fairness.  The event loop runs what can run, statements and LLM calls   *)
(* end; PostgreSQL grants a row lock to its waiters in turn, so a waiting  *)
(* statement is not passed over for ever (strong fairness).  Nothing makes *)
(* a request arrive or a process die.                                      *)
(***************************************************************************)
Fairness == \A c \in Clients : SF_vars(Advance(c))

FairSpec == Spec /\ Fairness

-----------------------------------------------------------------------------
(* Properties. *)

\* The rows, the audit entries and the units of work have the shape of their
\* tables and handlers.
TypeOK ==
  /\ rows   \in Seq(Row)
  /\ audit  \subseteq [id : Nat, user : Users]
  /\ pc     \in [Clients -> Steps]
  /\ req    \in [Clients -> Request]
  /\ loaded \in [Clients -> Row \cup {NoRow}]
  /\ image  \in [Clients -> Row \cup {NoRow}]

\* Concurrent requests for one month never share or skip a version number
\* (uq_monthly_pmv and the read of the highest version).
VersionsAreContiguous ==
  \A s \in Slots :
    LET ids == {i \in 1..Len(rows) : rows[i].slot = s}
    IN  Versions(s) = 1..Cardinality(ids)

\* The audit log and the rows agree, whatever requests raced: a row has an
\* approver exactly when approvals of it are logged, and it is one of them.
ApprovalMatchesAudit ==
  \A i \in 1..Len(rows) :
    LET logged == {a.user : a \in {b \in audit : b.id = i}}
    IN  IF logged = {} THEN rows[i].approver = NoUser
        ELSE rows[i].approver \in logged

\* Nobody of the quality department, and nobody from outside the property's
\* branch, is ever the approver of a report (test_monthly.py:174).
ApproverIsAuthorized ==
  \A i \in 1..Len(rows) : LET u == rows[i].approver IN
    u # NoUser => u \notin Qa /\ rows[i].slot \in Permitted[u]

\* While a generation is at work its row is generating and nobody else holds
\* it: set_body, which looks at no status, overwrites nobody's edit.
JobOwnsItsRow ==
  \A c \in Clients : req[c].op = "generate" =>
    /\ rows[req[c].id].status = "generating"
    /\ \A d \in Clients \ {c} : req[d].id # req[c].id

\* A report leaves "generating" once, by the commit of its own job and with nothing
\* but the generated draft: no save and no approval reaches it before, not even when
\* its job is lost, and none takes it back there (the status checks of save_draft and
\* approve, and set_body, which checks none).
GenerationComesFirst ==
  [][\A i \in 1..Len(rows) :
       IF rows[i].status = "generating"
         THEN rows'[i] \in {rows[i],
                [rows[i] EXCEPT !.body = Generated, !.status = "draft"]}
         ELSE rows'[i].status # "generating"]_vars

\* An approved report that no request holds stays as it is for good, and no request
\* gets hold of it: what is written over it (docs/03_api_design.md:139) was admitted
\* before the approval.
SettledApprovalStays ==
  [][\A i \in 1..Len(rows) :
       rows[i].status = "approved" /\ (\A c \in Clients : req[c].id # i) =>
         rows'[i] = rows[i] /\ \A c \in Clients : req'[c].id # i]_vars

\* Every request and every job ends: no cycle of lock waits, no lost lock.
EveryRequestEnds == \A c \in Clients : pc[c] # "idle" ~> pc[c] = "idle"

\* An approved report is not edited any more: its body and status stay
\* (docs/03_api_design.md:139).
ApprovedIsFinal ==
  [][\A i \in 1..Len(rows) : rows[i].status = "approved" =>
       rows'[i].body = rows[i].body /\ rows'[i].status = rows[i].status]_vars

\* Whoever polls a report that is still generating will see it leave that status
\* (docs/03_api_design.md:130).
GenerationIsReported ==
  \A i \in 1..MaxRows :
    i <= Len(rows) /\ rows[i].status = "generating"
      ~> i <= Len(rows) /\ rows[i].status # "generating"
=============================================================================
