--------------------------- MODULE MonthlyFigures ---------------------------
(***************************************************************************)
(* The figures of a monthly report: run_generation of MonthlyService,      *)
(* compute_stats of its repository and render_monthly_markdown.  (What     *)
(* becomes of the row of the report is in MonthlyReports.)                 *)
(*                                                                         *)
(* The statistics are three statements of one session, which keeps its     *)
(* connection from the first of them until the LLM has written its text    *)
(* and the document is committed.  The text itself is left out.            *)
(***************************************************************************)
EXTENDS ApiStore

CONSTANTS Categories, Urgencies, NoProperty, NoDocument

ASSUME FiguresAssumption ==
  /\ NoProperty \notin Properties
  /\ Labels \subseteq [category : Categories, urgency : Urgencies,
                       action : BOOLEAN]

VARIABLES
  task,     \* task[j]: where job j stands
  subject,  \* subject[j]: its property
  figures,  \* figures[j]: the statistics so far
  document  \* document[j]: the tables of the document j committed, until it
            \* starts again

figureVars == <<task, subject, figures, document>>

Tasks == {"idle", "opening", "urgencies", "actions", "narrating"}

Nothing == [x \in {} |-> 0]
Blank   == [categories |-> Nothing, urgencies |-> Nothing, action |-> 0]

FiguresInit ==
  /\ task     = [j \in Jobs |-> "idle"]
  /\ subject  = [j \in Jobs |-> NoProperty]
  /\ figures  = [j \in Jobs |-> Blank]
  /\ document = [j \in Jobs |-> NoDocument]

-----------------------------------------------------------------------------
Proceed(j, t) == task' = [task EXCEPT ![j] = t]

\* The session of j is closed.
EndJob(j) ==
  /\ CheckIn(j)
  /\ Proceed(j, "idle")
  /\ subject' = [subject EXCEPT ![j] = NoProperty]
  /\ figures' = [figures EXCEPT ![j] = Blank]

\* The row is committed and the background task begins.
StartJob(j) ==
  /\ task[j] = "idle"
  /\ \E p \in Properties : subject' = [subject EXCEPT ![j] = p]
  /\ Proceed(j, "opening")
  /\ document' = [document EXCEPT ![j] = NoDocument]
  /\ UNCHANGED <<reports, conn, figures>>

JobConnects(j) ==
  /\ task[j] = "opening"
  /\ CheckOut(j)
  /\ UNCHANGED <<reports, figureVars>>

\* The reports that the statements count.
Counted(p) == {i \in DOMAIN reports : reports[i].property = p}

\* SELECT field, count(*) ... GROUP BY field.
GroupBy(p, field) ==
  [v \in {reports[i].label[field] : i \in Counted(p)} |->
     Cardinality({i \in Counted(p) : reports[i].label[field] = v})]

CountCategories(j) ==
  /\ task[j] = "opening" /\ j \in conn
  /\ figures' = [figures EXCEPT ![j].categories = GroupBy(subject[j], "category")]
  /\ Proceed(j, "urgencies")
  /\ UNCHANGED <<reports, conn, subject, document>>

\* Variant: the statement counts the reports of every property.
CountUrgencies_AllProperties(j) ==
  /\ task[j] = "urgencies"
  /\ figures' = [figures EXCEPT ![j].urgencies =
       [v \in {reports[i].label.urgency : i \in DOMAIN reports} |->
          Cardinality({i \in DOMAIN reports : reports[i].label.urgency = v})]]
  /\ Proceed(j, "actions")
  /\ UNCHANGED <<reports, conn, subject, document>>

CountUrgencies(j) ==
  /\ task[j] = "urgencies"
  /\ figures' = [figures EXCEPT ![j].urgencies = GroupBy(subject[j], "urgency")]
  /\ Proceed(j, "actions")
  /\ UNCHANGED <<reports, conn, subject, document>>

CountActions(j) ==
  /\ task[j] = "actions"
  /\ figures' = [figures EXCEPT ![j].action =
       Cardinality({i \in Counted(subject[j]) : reports[i].label.action})]
  /\ Proceed(j, "narrating")
  /\ UNCHANGED <<reports, conn, subject, document>>

\* A table has a line for every label, 0 where the statistics have none.
Table(counts, labels) ==
  [x \in labels |-> IF x \in DOMAIN counts THEN counts[x] ELSE 0]

\* The sum of the counts: the reports counted, one by one.
Pairs(counts) == UNION {{x} \X (1..counts[x]) : x \in DOMAIN counts}
Total(counts) == Cardinality(Pairs(counts))

\* render_monthly_markdown: the total is the sum of the categories.
Rendered(p, f) ==
  [property |-> p, total |-> Total(f.categories), action |-> f.action,
   categories |-> Table(f.categories, Categories),
   urgencies  |-> Table(f.urgencies, Urgencies)]

\* The LLM has answered; the document is written and committed.
CommitDocument(j) ==
  /\ task[j] = "narrating"
  /\ document' = [document EXCEPT ![j] = Rendered(subject[j], figures[j])]
  /\ EndJob(j)
  /\ UNCHANGED reports

\* A statement or the LLM raises, or the pool's timeout.
JobFails(j) ==
  /\ task[j] # "idle"
  /\ j \in conn \/ Exhausted(j)
  /\ EndJob(j)
  /\ UNCHANGED <<reports, document>>

JobAdvances(j) ==
  \/ JobConnects(j) \/ CountCategories(j) \/ CountUrgencies(j)
  \/ CountActions(j) \/ CommitDocument(j)
  \/ Exhausted(j) /\ JobFails(j)

FiguresNext == \E j \in Jobs : StartJob(j) \/ JobAdvances(j) \/ JobFails(j)
=============================================================================
