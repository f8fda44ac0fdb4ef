-------------------------- MODULE MonthlyContract ---------------------------
(***************************************************************************)
(* The life of a monthly report, seen from its table: a report is numbered *)
(* and created generating, completed once by its own job, edited while it  *)
(* is a draft, approved with an entry of the audit log.  A request is      *)
(* admitted by a check and takes effect in one step, later, or never.      *)
(*                                                                         *)
(* If nobody has changed the report in between, the request has the effect *)
(* that it was admitted for, on a draft.  If somebody has, it is late, and *)
(* each column is what it would make of it or is left as it is: all that   *)
(* the code promises of requests that race.  MonthlyHistory implements     *)
(* this specification.                                                     *)
(***************************************************************************)
EXTENDS Naturals, Sequences

CONSTANTS
  Clients, Users, Slots, Forms, Generated, Empty, NoUser,  \* as in MonthlyReports
  May,        \* May[u]: the slots whose reports u may write
  None        \* no request

VARIABLES
  rows,       \* the reports
  audit,      \* the approvals logged
  open,       \* open[c]: the request of c that is admitted, or None
  late        \* the clients whose report has changed since they were admitted

vars == <<rows, audit, open, late>>

Init ==
  /\ rows = <<>> /\ audit = {}
  /\ open = [c \in Clients |-> None]
  /\ late = {}

Report(c) == rows[open[c].id]

Versions(s) == {rows[i].version : i \in {j \in 1..Len(rows) : rows[j].slot = s}}

\* A user creates the next version of a slot, and its job begins.
Create(c) ==
  /\ open[c] = None
  /\ \E u \in Users, v \in 1..(Len(rows) + 1) : \E s \in May[u] :
       /\ Versions(s) = 1..(v - 1)
       /\ rows' = Append(rows, [slot |-> s, version |-> v, body |-> Empty,
                                status |-> "generating", approver |-> NoUser])
       /\ open' = [open EXCEPT ![c] = [op |-> "generate", user |-> u,
                                       id |-> Len(rows) + 1, form |-> Generated]]
  /\ UNCHANGED <<audit, late>>

\* Only a draft can be edited or approved, by those who may.
Admit(c) ==
  /\ open[c] = None
  /\ \E u \in Users, i \in 1..Len(rows) :
       /\ rows[i].status = "draft" /\ rows[i].slot \in May[u]
       /\ \E t \in [op : {"save", "screen"}, user : {u}, id : {i}, form : Forms]
                     \cup [op : {"approve"}, user : {u}, id : {i}, form : {Empty}] :
            open' = [open EXCEPT ![c] = t]
  /\ UNCHANGED <<rows, audit, late>>

\* The request of c is over; if it changed its report, the others are late.
Finish(c) ==
  /\ open' = [open EXCEPT ![c] = None]
  /\ late' = {d \in Clients \ {c} :
                \/ d \in late
                \/ open[d].id = open[c].id /\ rows'[open[c].id] # Report(c)}

Drop(c) ==
  /\ open[c] # None
  /\ UNCHANGED <<rows, audit>>
  /\ Finish(c)

\* What may become of the report when c wants it to be as said.
Outcomes(c, wanted) ==
  LET row == Report(c) IN
  IF c \notin late THEN {wanted}
  ELSE [slot : {row.slot}, version : {row.version}, body : {row.body, wanted.body},
        status : {row.status, wanted.status}, approver : {row.approver, wanted.approver}]

Become(c, wanted) ==
  \E row \in Outcomes(c, wanted) : rows' = [rows EXCEPT ![open[c].id] = row]

\* The job is never late: nobody else has its report while it is generating.
Complete(c) ==
  /\ open[c].op = "generate"
  /\ Report(c).status = "generating" /\ c \notin late
  /\ Become(c, [Report(c) EXCEPT !.body = Generated, !.status = "draft"])
  /\ UNCHANGED audit
  /\ Finish(c)

Save(c) ==
  /\ open[c].op = "save"
  /\ c \notin late => Report(c).status = "draft"
  /\ Become(c, [Report(c) EXCEPT !.body = open[c].form, !.status = "draft"])
  /\ UNCHANGED audit
  /\ Finish(c)

\* From the screen an approval also saves the form.  However late, an approved
\* report has an approver, and the approval is logged in the same step.
Approve(c) ==
  /\ open[c].op \in {"approve", "screen"}
  /\ c \notin late => Report(c).status = "draft"
  /\ Become(c, [Report(c) EXCEPT
                  !.body     = IF open[c].op = "screen" THEN open[c].form ELSE @,
                  !.status   = "approved",
                  !.approver = open[c].user])
  /\ rows'[open[c].id].approver # NoUser
  /\ audit' = audit \cup {[id |-> open[c].id, user |-> open[c].user]}
  /\ Finish(c)

Next == \E c \in Clients :
  Create(c) \/ Admit(c) \/ Drop(c) \/ Complete(c) \/ Save(c) \/ Approve(c)

Spec == Init /\ [][Next]_vars
=============================================================================
