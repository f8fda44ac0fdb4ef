---------------------------- MODULE ReviewQueue -----------------------------
(***************************************************************************)
(* Reports under review (F-4): their classification is overridden by users *)
(* while the worker goes on inserting reports and readers page through the *)
(* list and the review queue (app/services/admin.py, the routers reports   *)
(* and admin_ui, SqlReportRepository).                                     *)
(*                                                                         *)
(* The model holds the reports a user may see; a request outside them is   *)
(* refused (403) and writes nothing.  Isolation and UPDATEs are those of   *)
(* ReadCommitted.  Ids are drawn from a sequence when a row is inserted,   *)
(* so they become visible in another order and with gaps.  Of the columns  *)
(* an override sets, action_required is left out: it behaves as urgency    *)
(* does.  The filters of the list stand for the one on the status.         *)
(***************************************************************************)
EXTENDS Naturals, Sequences, FiniteSets, SequencesExt, FiniteSetsExt,
        ReadCommitted

CONSTANTS
  Loaders,      \* concurrent ingestion transactions
  Clerks,       \* concurrent override requests
  Readers,      \* clients that follow next_cursor from page to page
  Categories, Urgencies,
  Limits,       \* values of the limit parameter that readers ask for
  DefaultPage, MaxPage,  \* DEFAULT_PAGE_SIZE, MAX_PAGE_SIZE of the service
  ScreenPage,   \* PAGE_SIZE of the screen
  MaxId,        \* bound: ids drawn
  NoDecision, NoRow

Decision == [category : Categories, urgency : Urgencies]
Row      == [category : Categories, urgency : Urgencies,
             status : {"auto_classified", "needs_review", "human_verified"}]

ASSUME ReviewAssumption ==
  /\ Limits \subseteq Nat
  /\ DefaultPage \in Nat \ {0} /\ MaxPage \in Nat \ {0}
  /\ ScreenPage \in Nat \ {0} /\ MaxId \in Nat
  /\ NoDecision \notin Decision /\ NoRow \notin Row

VARIABLES
  reports,  \* committed reports with their analysis: a function from ids
  nextId,   \* the id sequence
  drawn,    \* drawn[l]: id of the row l has inserted and not committed, or 0
  audit,    \* committed override_analysis entries: [id, decision]
  step,     \* step[c]: where the unit of work of clerk c stands
  target,   \* target[c]: the report c overrides, or 0
  decision, \* decision[c]: the classification c confirms
  loaded,   \* loaded[c]: the analysis as SELECTed by update_analysis
  image,    \* image[c]: the analysis c has written and not committed, or NoRow
  pager     \* pager[r]: the traversal of reader r

ingestVars == <<nextId, drawn>>
clerkVars  == <<step, target, decision, loaded, image>>
vars == <<reports, nextId, drawn, audit, step, target, decision, loaded, image,
          pager>>

\* queue: review queue or whole list; screen: the HTML table or the API; limit:
\* of the API; cursor: 0 is none; listed: ids shown so far; promised: ids that
\* matched when the first page was read.
Closed == [state |-> "closed", queue |-> FALSE, screen |-> FALSE, limit |-> 0,
           cursor |-> 0, listed |-> <<>>, promised |-> {}]

-----------------------------------------------------------------------------
(* Ingestion, as the reports table sees it. *)

\* INSERT draws an id.
Insert(l) ==
  /\ drawn[l] = 0 /\ nextId <= MaxId
  /\ drawn'  = [drawn EXCEPT ![l] = nextId]
  /\ nextId' = nextId + 1
  /\ UNCHANGED <<reports, audit, clerkVars, pager>>

\* The report appears with the classification of the LLM; its confidence
\* decides whether it needs review.
CommitInsert(l) ==
  /\ drawn[l] # 0
  /\ \E d \in Decision, s \in {"auto_classified", "needs_review"} :
       reports' = [i \in DOMAIN reports \cup {drawn[l]} |->
                     IF i = drawn[l]
                       THEN [category |-> d.category, urgency |-> d.urgency,
                             status |-> s]
                       ELSE reports[i]]
  /\ drawn' = [drawn EXCEPT ![l] = 0]
  /\ UNCHANGED <<nextId, audit, clerkVars, pager>>

\* The ingestion fails after its INSERT: the id is lost.
AbortInsert(l) ==
  /\ drawn[l] # 0
  /\ drawn' = [drawn EXCEPT ![l] = 0]
  /\ UNCHANGED <<reports, nextId, audit, clerkVars, pager>>

\* Variant: ON CONFLICT DO UPDATE takes the latest answer of the LLM.
InsertAgain_DoUpdate ==
  /\ nextId <= MaxId
  /\ \E i \in DOMAIN reports, d \in Decision :
       reports' = [reports EXCEPT ![i] =
                     [category |-> d.category, urgency |-> d.urgency,
                      status |-> "auto_classified"]]
  /\ nextId' = nextId + 1
  /\ UNCHANGED <<drawn, audit, clerkVars, pager>>

\* A redelivered report conflicts on source_key: DO NOTHING, though the
\* sequence has been advanced.
InsertAgain ==
  /\ nextId <= MaxId /\ DOMAIN reports # {}
  /\ nextId' = nextId + 1
  /\ UNCHANGED <<reports, drawn, audit, clerkVars, pager>>

-----------------------------------------------------------------------------
(* Override of a classification. *)

Go(c, to) == step' = [step EXCEPT ![c] = to]

EndOverride(c) ==
  /\ Go(c, "idle")
  /\ target'   = [target EXCEPT ![c] = 0]
  /\ decision' = [decision EXCEPT ![c] = NoDecision]
  /\ loaded'   = [loaded EXCEPT ![c] = NoRow]
  /\ image'    = [image EXCEPT ![c] = NoRow]

\* No other unit of work holds the lock of the row.
RowFree(c) ==
  \A o \in Clerks \ {c} : image[o] # NoRow => target[o] # target[c]

\* update_analysis reads the analysis of a report; any status may be overridden.
LoadAnalysis(c) ==
  /\ step[c] = "idle"
  /\ \E i \in DOMAIN reports, d \in Decision :
       /\ target'   = [target EXCEPT ![c] = i]
       /\ decision' = [decision EXCEPT ![c] = d]
       /\ loaded'   = [loaded EXCEPT ![c] = reports[i]]
  /\ Go(c, "loaded")
  /\ UNCHANGED <<reports, ingestVars, audit, image, pager>>

\* Variant: the urgency of the form is not assigned.
Confirmed_NoUrgency(c) ==
  [loaded[c] EXCEPT !.category = decision[c].category, !.status = "human_verified"]

\* Variant: the status is that of another table, monthly_reports.
Confirmed_OtherStatus(c) ==
  [loaded[c] EXCEPT !.category = decision[c].category,
                    !.urgency  = decision[c].urgency,
                    !.status   = "approved"]

\* The row with the user's decision set on it.
Confirmed(c) ==
  [loaded[c] EXCEPT !.category = decision[c].category,
                    !.urgency  = decision[c].urgency,
                    !.status   = "human_verified"]

\* The flush: no net change, no UPDATE.  The audit entry is inserted next.
WriteAnalysis(c) ==
  /\ step[c] = "loaded"
  /\ IF Confirmed(c) = loaded[c] THEN UNCHANGED image
     ELSE /\ RowFree(c)
          /\ image' = [image EXCEPT ![c] =
                         NetChange(loaded[c], Confirmed(c), reports[target[c]])]
  /\ Go(c, "written")
  /\ UNCHANGED <<reports, ingestVars, audit, target, decision, loaded, pager>>

\* Variant: the audit entry is left out when nothing was changed.
Logged_OnlyChanges(c) ==
  IF image[c] = NoRow \/ reports[target[c]].status = "needs_review" THEN {}
  ELSE {[id |-> target[c], decision |-> decision[c]]}

Logged(c) == {[id |-> target[c], decision |-> decision[c]]}

\* Decision and audit entry commit together.
CommitOverride(c) ==
  /\ step[c] = "written"
  /\ reports' = IF image[c] = NoRow THEN reports
                ELSE [reports EXCEPT ![target[c]] = image[c]]
  /\ audit' = audit \cup Logged(c)
  /\ EndOverride(c)
  /\ UNCHANGED <<ingestVars, pager>>

AbortOverride(c) ==
  /\ step[c] # "idle"
  /\ EndOverride(c)
  /\ UNCHANGED <<reports, ingestVars, audit, pager>>

-----------------------------------------------------------------------------
(* Pages. *)

Queue == {i \in DOMAIN reports : reports[i].status = "needs_review"}
Matching(queue) == IF queue THEN Queue ELSE DOMAIN reports

\* ORDER BY id DESC LIMIT n.
Above(S, i)   == Cardinality({j \in S : j > i})
Top(S, n)     == {i \in S : Above(S, i) < n}
Descending(S) == [k \in 1..Cardinality(S) |-> CHOOSE i \in S : Above(S, i) = k - 1]

\* Variant: the cursor is inclusive.
Below_Inclusive(S, cursor) == IF cursor = 0 THEN S ELSE {i \in S : i <= cursor}

\* WHERE id < cursor.
Below(S, cursor) == IF cursor = 0 THEN S ELSE {i \in S : i < cursor}

Clamp(n) == IF n < 1 THEN DefaultPage ELSE IF n > MaxPage THEN MaxPage ELSE n

\* Variant: the screen's cursor is the id of the extra row it does not show.
PageOf_CursorOfExtraRow(S, screen, limit) ==
  LET rows == Top(S, IF screen THEN Clamp(ScreenPage + 1) ELSE Clamp(limit))
      page == IF screen THEN Top(rows, ScreenPage) ELSE rows
      more == IF screen THEN Cardinality(rows) > ScreenPage
              ELSE Cardinality(rows) = limit
  IN  [ids |-> page, next |-> IF more /\ page # {} THEN Min(rows) ELSE 0]

\* What a page shows, and the cursor it gives for the next one: the screen asks
\* for one row more than it shows; the API compares the number of rows with the
\* limit as it was asked for.
PageOf(S, screen, limit) ==
  LET rows == Top(S, IF screen THEN Clamp(ScreenPage + 1) ELSE Clamp(limit))
      page == IF screen THEN Top(rows, ScreenPage) ELSE rows
      more == IF screen THEN Cardinality(rows) > ScreenPage
              ELSE Cardinality(rows) = limit
  IN  [ids |-> page, next |-> IF more /\ page # {} THEN Min(page) ELSE 0]

\* One page is read and its rows are listed after the earlier ones.
Read(r, p) ==
  LET page == PageOf(Below(Matching(p.queue), p.cursor), p.screen, p.limit)
  IN  pager' = [pager EXCEPT ![r] =
                  [p EXCEPT !.state  = IF page.next = 0 THEN "done" ELSE "open",
                            !.cursor = page.next,
                            !.listed = @ \o Descending(page.ids)]]

FirstPage(r) ==
  /\ pager[r].state = "closed"
  /\ \E queue, screen \in BOOLEAN, limit \in Limits :
       Read(r, [Closed EXCEPT !.queue = queue, !.screen = screen,
                              !.limit = IF screen THEN 0 ELSE limit,
                              !.promised = Matching(queue)])
  /\ UNCHANGED <<reports, ingestVars, audit, clerkVars>>

NextPage(r) ==
  /\ pager[r].state = "open"
  /\ Read(r, pager[r])
  /\ UNCHANGED <<reports, ingestVars, audit, clerkVars>>

Close(r) ==
  /\ pager[r].state # "closed"
  /\ pager' = [pager EXCEPT ![r] = Closed]
  /\ UNCHANGED <<reports, ingestVars, audit, clerkVars>>

-----------------------------------------------------------------------------
Init ==
  /\ reports  = [i \in {} |-> NoRow]
  /\ nextId   = 1
  /\ drawn    = [l \in Loaders |-> 0]
  /\ audit    = {}
  /\ step     = [c \in Clerks |-> "idle"]
  /\ target   = [c \in Clerks |-> 0]
  /\ decision = [c \in Clerks |-> NoDecision]
  /\ loaded   = [c \in Clerks |-> NoRow]
  /\ image    = [c \in Clerks |-> NoRow]
  /\ pager    = [r \in Readers |-> Closed]

Next ==
  \/ InsertAgain
  \/ \E l \in Loaders : Insert(l) \/ CommitInsert(l) \/ AbortInsert(l)
  \/ \E c \in Clerks : \/ LoadAnalysis(c) \/ WriteAnalysis(c)
                       \/ CommitOverride(c) \/ AbortOverride(c)
  \/ \E r \in Readers : FirstPage(r) \/ NextPage(r) \/ Close(r)

Spec == Init /\ [][Next]_vars

-----------------------------------------------------------------------------
(* Properties. *)

\* The rows, the audit entries and the requests have the shape of their tables
\* and handlers.
TypeOK ==
  /\ DOMAIN reports \subseteq 1..MaxId
  /\ \A i \in DOMAIN reports : reports[i] \in Row
  /\ nextId   \in 1..(MaxId + 1)
  /\ drawn    \in [Loaders -> 0..MaxId]
  /\ audit    \subseteq [id : 1..MaxId, decision : Decision]
  /\ step     \in [Clerks -> {"idle", "loaded", "written"}]
  /\ target   \in [Clerks -> 0..MaxId]
  /\ decision \in [Clerks -> Decision \cup {NoDecision}]
  /\ loaded   \in [Clerks -> Row \cup {NoRow}]
  /\ image    \in [Clerks -> Row \cup {NoRow}]
  /\ \A r \in Readers :
       /\ pager[r].state \in {"closed", "open", "done"}
       /\ pager[r].cursor \in 0..MaxId
       /\ pager[r].listed \in Seq(1..MaxId)

DecisionsOn(i) == {a.decision : a \in {b \in audit : b.id = i}}

\* A report counts as verified by a human exactly when the audit log holds an
\* override of it (requirement F-4-4): both commit or neither does.
VerifiedIsAudited ==
  \A i \in DOMAIN reports :
    reports[i].status = "human_verified" <=> DecisionsOn(i) # {}

\* Whatever overrides raced, each column of a verified report has a value that
\* somebody confirmed for it; no answer of the LLM is left in it.
EveryColumnWasChosen ==
  \A i \in DOMAIN reports : reports[i].status = "human_verified" =>
    /\ \E d \in DecisionsOn(i) : d.category = reports[i].category
    /\ \E d \in DecisionsOn(i) : d.urgency = reports[i].urgency

\* The classification of a verified report is the decision of one user: what is
\* exported as a human correction was confirmed by a human as a whole.
SomebodyDecidedIt ==
  \A i \in DOMAIN reports : reports[i].status = "human_verified" =>
    [category |-> reports[i].category, urgency |-> reports[i].urgency]
      \in DecisionsOn(i)

\* Redelivered reports never undo a verification, and a verified report never
\* returns to the queue.
VerifiedStays ==
  [][\A i \in DOMAIN reports : reports[i].status = "human_verified" =>
       reports'[i].status = "human_verified"]_vars

\* Following next_cursor lists reports newest first and none twice, while
\* reports are inserted and leave the queue between the pages.
ListedInOrder ==
  \A r \in Readers : LET s == pager[r].listed IN
    \A i, j \in 1..Len(s) : i < j => s[i] > s[j]

\* A traversal that has come to its end has listed every report that matched
\* when it began and matches still.
NothingSkipped ==
  \A r \in Readers : LET p == pager[r] IN
    p.state = "done" =>
      p.promised \cap Matching(p.queue) \subseteq ToSet(p.listed)
=============================================================================
