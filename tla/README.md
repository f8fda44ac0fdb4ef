# TLA+ models of report-insight

Report-insight takes inspection reports of rented buildings from S3, has an LLM
classify them, stores them in PostgreSQL with pgvector, and lets the staff
search them, correct the classification and produce monthly reports.  This
directory holds TLA+ modules of the parts whose correctness depends on the order
in which things happen, the TLC runs that check them on small instances, and
TLAPS proofs for every value of the constants.  Paths below are relative to
`src/`.

Run everything from this directory: `tlc -config IngestSafety.cfg MCIngestPipeline.tla`
(the module of each run is in `PROJECT.json`) and `tlapm IngestPipelineProofs.tla`.

## 1. Inventory

| Component | State it keeps | Operations | Interacts with |
|---|---|---|---|
| Queue: S3 notification, SQS, DLQ (`terraform/modules/pipeline`, `docs/runbook.md`) | visibility, receive count and receipt of every message | deliver, hide, expire, dead-letter, redrive | worker |
| Worker (`app/worker/main.py`, `app/infra/aws/sqs.py`) | process state, the batch, a semaphore, one task per message | receive, handle, delete, stop, crash, restart | queue, ingestion |
| Ingestion (`app/services/ingest.py`, `app/core/db.py`, Slack) | the unit of work of the current key | fetch, mask, normalise, classify, embed, insert, notify, commit | LLM, Slack, PostgreSQL |
| Report repository (`app/infra/db/repositories.py`) | `reports`, `report_analyses`, `report_chunks` | insert or ignore, override, list, queue | all services |
| Monthly reports (`app/services/monthly.py`, routers `monthly`, `monthly_ui`) | `monthly_reports`: version, status, body, approver; background jobs | create, generate, save, approve, both at once from the screen | LLM, audit log |
| Review (`app/services/admin.py`, routers `reports`, `admin_ui`) | classification of a report and its status; the client's cursor | override, list, queue | report repository, audit log |
| Search (F-2) (`app/services/search.py`, `app/api/sse.py`, router `search`) | three sessions of one request; the events sent so far | authenticate, audit, hybrid search, stream, verify citations | pool, LLM, embedding, audit log |
| Connection pool and sessions of the API process (`app/core/db.py`, `app/core/di.py`) | connections checked out | check out, wait and time out, give back | every handler and background task |
| Statistics of a monthly report (`compute_stats`, `render_monthly_markdown`) | the figures of one job | three counts, narrate, render | pool, reports, LLM |
| Authorisation (`permitted_property_ids`, `_deny_qa_writes`) | users, branches, properties | scope of a user, refusal | every handler |
| Audit log | `audit_logs`, append only | record, list | search, approval, override |
| Text rules: masking (`app/infra/masking/pii.py`), normaliser (`app/infra/text/normalize.py`), chunks, citations, table of summaries | none | pure functions | ingestion, search |
| LLM clients and embedding | none | remote calls; without credentials, a classifier by keywords and a canned answer | ingestion, search, monthly |
| Improvement loop (`scripts/synth.py`, `scripts/export_corrections.py`, `scripts/export_eval_cases.py`) | the dictionary and the file of evaluation cases | noise, merge | reviews, normaliser |
| Presentation, PDF, metrics, configuration, other scripts, other infrastructure | none that is read back | | |

What is hard about it:

* **At-least-once delivery.** SQS redelivers what is not deleted within the
  visibility timeout, also while the first worker is still at it.  One message
  can name several keys, each with a transaction of its own.
* **An effect inside a transaction.** The urgent alert goes to Slack before the
  commit.
* **Failure at every await,** a lost answer to a commit, a killed process, a
  shutdown that waits for the batch.
* **READ COMMITTED units of work.** Handlers read, check, read again and write.
  The ORM writes only columns with a net change, and without one it issues no
  UPDATE and takes no lock.
* **Ids become visible out of order,** and rows leave the queue between pages.
* **A response that has begun cannot be taken back.**  A search streams while the
  table it reads from changes; the model or the client may stop at any token; the
  session stays open meanwhile and holds a connection that others wait for.
* **Figures from several statements,** each of which sees another state.
* **Rules that are applied in turn,** each to what the ones before have made of the
  text: masking, normalisation, exports merged into a file.

`PROJECT.json` lists every such hazard at its line with the properties for it.

What makes each component correct, in one sentence: ingestion registers each
`source_key` once, announces every urgent report that it registers and
acknowledges nothing that it has not stored; a monthly report has contiguous
versions, an approver who may approve, an audit entry for it and, once approved,
no more edits; a verified report is audited, stays verified and holds what users
decided; a traversal lists everything once; a search is audited before it answers,
and cites only permitted reports; no way to end a request leaks a connection; the
tables of a document count no report that does not exist; the text rules lose
nothing and hide what they should.

## 2. Modules

| Module | What it is |
|---|---|
| `IngestPipeline` | Queue, worker processes, tasks, transactions, Slack, with all faults |
| `IngestContract` | What ingestion promises; `IngestPipeline` implements it (`ImplementsContract`) |
| `IngestPipelineProofs` | The inductive invariant, the theorems about `IngestPipeline` and the refinement of its contract |
| `ReadCommitted` | The UPDATE of an ORM flush, shared by `MonthlyReports` and `ReviewQueue` |
| `MonthlyReports` | Creation, generation job, save, approval, approval from the screen |
| `MonthlyContract` | The life of a monthly report as its table shows it, and what becomes of requests that race |
| `MonthlyHistory` | `MonthlyReports` with a history variable, by which it implements the contract (`ImplementsContract`) |
| `MonthlyReportsProofs` | The inductive invariant and the theorems about `MonthlyReports` |
| `MonthlyHistoryProofs` | The inductive invariant of requests that race, the refinement of the contract, the finality of settled approvals |
| `ReviewQueue` | Overrides, concurrent ingestion, pages of list and queue |
| `ReviewQueueProofs` | The inductive invariant and the theorems about its overrides |
| `ReviewPagesProofs` | The theorems about its types and its pages, on lemmas about ranks in finite sets |
| `ApiStore` | The table of reports and the connection pool, as one API process sees them |
| `SearchStream` | Searches: sessions, retrieval, event stream, failures, clients that leave |
| `SearchContract` | What `POST /search` promises; `ApiProcess` implements it (`ImplementsContract`) |
| `MonthlyFigures` | The statistics of a generation and the tables of its document |
| `ApiProcess` | Composition of `SearchStream` and `MonthlyFigures` over `ApiStore`, with commits of other processes |
| `ApiProcessProofs` | The inductive invariant, the theorems, the refinement of the contract, and the figures of a document on lemmas about totals |
| `TextRules` | Masking, normalisation, chunks, table of summaries, citations, as operators |
| `EvaluationRules` | Noise of synthetic reports, classifier by keywords, merge of exports |
| `TextCases` | Writes every short text and states what each rule is for |
| `TextLemmas` | Lemmas about the operators of `TextRules`, for texts of every length |
| `TextCasesProofs` | The theorems about `TextCases` |
| `MC...` | Instances for TLC |

An operator called `X_Something` in a module is a variant of `X` with a plausible
bug.  Nothing uses the variants; they are kept to show that each property
notices the bug (`mutants` in `PROJECT.json`).

### IngestPipeline

One `proc[p]` per worker process and one `pc[p][m]` per `_handle` task.  A task
goes `waiting` (created by `gather`, no permit yet) → `reading` → `upserting` →
`inserted` → (`alerted`) → the next key, or `acking` → `idle`.

| Code | Action |
|---|---|
| `sqs.receive` and `gather`, only when the last batch has ended | `Receive`, `EmptyPoll`, `ReceiveFails` |
| `async with semaphore`, `parse_s3_event` | `Acquire` |
| `ingest_from_key` up to the embedding | `Classify` (the LLM's urgency is chosen at each attempt) |
| `upsert_ingested` | `UpsertNew` (waits for an uncommitted row of the same key), `UpsertDuplicate` |
| `notify_urgent` | `Notify`, `NotifyTimesOut` (Slack took it, the answer is late) |
| `session.commit` | `Commit`, `CommitAckLost` |
| any exception in `process_message` | `IngestFails`: retryable or not, the message is left |
| `sqs.delete`, outside the `try` | `Delete`, `DeleteFails` (ends gather and the process) |
| SIGTERM, kill, ECS | `Stop`, `Crash`, `Exit`, `Restart` |
| redrive policy, runbook | `Expire`, `DeadLetter`, `Redrive` |

The unique index is on the `source_key` *inside* the object, not on the S3 key,
hence `Objects`, `Sources` and `SourceOf`.  Every failure of the environment
takes one unit of `faults`; a broken object (bad JSON, unknown property) fails
without one.  A delete with an outdated receipt may or may not be effective.

### MonthlyReports

A client is one unit of work at a time, at the granularity of SQL statements.
`loaded[c]` is what its SELECT returned, `image[c]` what it has written and not
committed.  `View` is what a SELECT sees, `RowFree` the row lock, `NetChange` the
UPDATE.

| Code | Actions |
|---|---|
| `request_generation`, `create_generating` | `Number`, `Insert` (waits for a concurrent insert of the same key), `InsertConflict`, `CommitCreate` |
| `run_generation` in the background task | `Load`, `WriteBody`, `CommitBody`, or `GenerationFails`, `GenerationRaises` |
| `save_draft` and `set_body` | `CheckSave`, `Load`, `WriteBody`, `CommitBody` |
| `approve` | `CheckApprove`, `Load`, `WriteApproval`, `CommitApproval` |
| `monthly_approve` of the screen: save, then approve, one unit of work | `CheckSave`, `Load`, `WriteBody`, `Recheck`, `Load`, `WriteApproval`, `CommitApproval` |
| any error, death of the process | `Abort` |

A refused request (403, 404, 422) writes nothing and is not a step.

`MonthlyContract` is what these statements amount to.  A request is *admitted* by its
check and later takes effect in one step, or none: `Complete` by the job, `Save`,
`Approve`.  If nobody has changed the report in between the effect is exact and falls on
a draft.  Otherwise the request is *late*, and each column becomes what the request
wants or stays as it is (`Outcomes`); even then slot and version are untouched, an
approved report has an approver, approval and audit entry are one step, and a job is
never late.  That is weaker than the state machine of `monthly.py:6`, which
`MonthlyEditAfterApproval` refutes, and as strong as the code allows.  Whether a request
is late is not in its state, so `MonthlyHistory` adds the variable `late`, which no step
reads.

### ReviewQueue

Reports are a function from ids.  `Insert` draws an id from the sequence and
`CommitInsert` makes it visible; `InsertAgain` is the `ON CONFLICT DO NOTHING` of
a redelivery, which burns an id.  An override is `LoadAnalysis`, `WriteAnalysis`,
`CommitOverride`.  `PageOf` holds both ways of finding the end of the list: the
API compares the number of rows with the limit as asked for, the screen asks for
one row more.  `action_required` behaves as urgency does and is left out; the
filters of the list are represented by the one on the status, since it changes
while a traversal goes on.

### ApiProcess: SearchStream, MonthlyFigures, ApiStore

Requests and jobs are slots: when one ends it may come again.  `conn` is the set of
those that hold a connection.  A session takes one at its first statement
(`CheckOut`), and gives it back when it is closed (`CheckIn`); without a free one
(`Exhausted`) its statement waits and fails at the pool's timeout.  A statement sees
what is committed by then, so retrieval and verification of one search, and the
three counts of one job, see different tables.

| Code | Action |
|---|---|
| the request with user, filter and query | `Arrive` |
| the first statement of each of its three sessions | `RequestConnects` |
| `get_current_user` | `Authenticate` (an unknown user ends it) |
| `audit.record` in a unit of work of its own | `RecordAudit` |
| `permitted_property_ids`, `hybrid_search`; `sources` or `no_results` | `Retrieve` (any `TopK` chunks in scope) |
| `answer_stream`, one event per token | `Token` (the citation it completes is any id, also of no report) |
| `_parse_citations` of the joined answer, `existing_report_ids`, `done` | `Finish` |
| end of the generator, `session_scope` exit | `Close` |
| an exception at any await, the pool's timeout | `RequestFails` (after the 200 the stream just stops) |
| the client leaves; the generator is finalised later | `Disconnect`, `Collect` |
| the background task, its session | `StartJob`, `JobConnects` |
| the three statements of `compute_stats` | `CountCategories`, `CountUrgencies`, `CountActions` |
| `narrate_monthly`, `render_monthly_markdown`, commit | `CommitDocument` |
| an exception of the job, the pool's timeout | `JobFails` |
| a commit of the worker; of an override | `CommitReport`, `CommitOverride` |

What becomes of the row of a job is in `MonthlyReports`; a job here keeps its last
document only.  The reports are those of one month, since the condition on the
month is the same in all three statements.

### TextRules, EvaluationRules, TextCases

A text is a sequence of symbols, each of which stands for all characters that the
rules treat alike: `0` and `1` for the digit that begins a phone number and any
other one, `w` for letters, `N` for a word that the analyser takes for a name.
Regular expressions are the spans that `Spans` takes from the left, the longest
match at each place (as the greedy, backtracking expressions of the code yield: the
optional parts of the three patterns never make a shorter match the first one).
`Mask` is the three passes of `_mask_sync`, `Normalize` the replacement longest
first, `BuildChunks` `_build_chunks`, `Lookup` the table of summaries, `CitedBy`
`_parse_citations` of the joined tokens, `Noisy` the noise of `synth.py`,
`Classified` the classifier by keywords, `Merge` the merge of both export scripts.
Where the rules look at letters, the symbols are letters: all thirteen entries of
`NOTATION_DRIFT` are spelled out, kanji and katakana in capitals and hiragana not, and
so are the keywords of the classifier that a correction can make or break, since the
same letters also occur in ordinary words.  The fragments of a masked text are cut at
brackets as `summaries.py` cuts them, also at one that stands in the text itself.
`TextCases` has one action, which writes the next piece: its states are all texts
up to a bound, and each invariant compares what the rule makes of the text with
what it is for, stated without the rule: a mapping that restores it
(`MaskingIsComplete`), an embedding that exists (`LookupFindsTheOriginal`), the last
review of each key (`LastReviewWins`, `CasesFollowTheHuman`), the same report without
drift (`DriftMakesNoDifference`), the classification before the dictionary
(`NothingIsPlayedDown`).

## 3. Runs

| Run | Instance | What it shows |
|---|---|---|
| `IngestSafety` | 2 processes, 2 messages (one object; two objects repeating it), 1 permit, batches of 2, `MaxReceive` 2, 3 faults | no double registration, no lost alert, no early acknowledgement, dead letters only after faults, no alert after the commit, and the refinement |
| `IngestLiveness` | a message with a sound and a broken object, an empty message, 2 faults, 1 redrive | every offered message is in the end deleted or dead-lettered; the inductive invariant of the proofs |
| `IngestAnnouncedOnce` | as `IngestSafety` | **violated**: an alert can be sent twice |
| `MonthlySafety` | 2 clients, 3 users (one of quality), 2 slots, 2 rows, bodies: a text and the empty one | versions, audit, nobody writes before the generated draft, authority, ownership of a row by its job, finality of an approval that no request holds |
| `MonthlyLocks` | 3 clients, 1 row, `FairHistorySpec` | every request ends; the refinement of the contract |
| `MonthlyEditAfterApproval` | 2 clients, 1 row | **violated**: a save is written over an approved report |
| `MonthlyNeverReported` | 1 client, 1 row, `FairSpec` | **violated**: a polled report may stay generating for ever |
| `ApiProcess` | 1 request, 1 job, a pool of 1, 2 reports, 2 branches, a manager and a member of quality, `TopK` 2, answers of 2 tokens | scope, citations, pool, figures, the refinement of the contract, and that every session ends |
| `TextCases` | texts of up to 7 pieces, per rule (below) | masking, chunks, summaries, citations and merges do what they are for; normalising undoes drift wherever spellings do not run into each other, and never makes a report look less urgent |
| `ReviewOverrides` | 2 clerks, 1 loader, 2×2 decisions, 2 ids | verified reports are audited, stay verified and hold what was decided |
| `ReviewPages` | 2 loaders, 1 clerk, 1 reader, 4 ids, limits 1 and 2 | pages list newest first, nothing twice, nothing skipped |
| `ReviewMixedDecision` | 2 clerks, 1 report | **violated**: a classification nobody confirmed |

**Bounds.**  Two processes and a message that repeats the other's object give the
concurrent INSERTs of one key, and two messages in one batch with one permit give
tasks that wait while their visibility expires.  `MaxReceive` 2 stands for the 3
of the redrive policy; 3 faults are one more than it takes to dead-letter a
sound message, so faults remain for the other one.  `MaxFaults`, `MaxRedrives`,
`MaxRows` and `MaxId` are the only bounds, they sit in guards, and the proofs do
not depend on their values.  In `MonthlySafety` two rows give two versions of one
slot as well as two slots; `MonthlyLocks` needs three clients so that two wait for one
lock.  In `ReviewPages` four ids and pages of one and two rows give last pages
that are full, partial and empty.

In `ApiProcess` one request and one job for one connection give every order of
waiting, timing out and holding; the two labels differ in all three columns, so
that an override between two counts moves a report from one side of each to the
other; a report of two chunks makes `TopK` chunks fewer reports; answers of two tokens can
cite a source and a stranger; the second report is committed at any point of a
session, in or out of the scope of the user.  `Ids`, `Ingestible` and `MaxTokens`
are its bounds.  In `TextCases` a text has at most 6 pieces for masking (an address next to
a phone number, either within the other, a name anywhere), 3 for drift, 4 for
cases and answers, 5 for merges and look-ups, 7 for chunks (`LongText` 3: short, long,
blanks only, three newlines in a row).  Pieces such as a run of four digits
bring a phone number within the bound.  The pieces for drift are the words of the
dictionary, parts of words and single letters, some of which make up a variant that no
drift has written (`su` behind a word that ends in `ga`); three of them give a
word, what it runs into on either side, and a full stop.

**Deadlock** is not checked in the Monthly, Review, `ApiProcess` and `TextCases` runs (`CHECK_DEADLOCK FALSE`): their rows, ids
and texts are bounded and nobody need send a request, so they may stop.  The ingestion runs
check it.

**Symmetry** is used in safety runs only, over processes, clients, loaders and
clerks, the forms other than the empty one and the values of a column in `ReviewOverrides`, none of which a
`CHOOSE` or a cfg tells apart.

**Fairness.**  Ingestion: weak fairness of every task step (each await ends in an
answer or an error, and the event loop runs what is ready; `TaskStep` includes
the failures, so success is not assumed), of polling, of the exit of a failed or
drained process, of the restart by ECS, and of expiry and dead-lettering by SQS.
Nothing is assumed of S3, the operator or faults; since these are finite, each
message settles.  Monthly: strong fairness of each client's progress, because
PostgreSQL queues the waiters of a row lock and a waiting UPDATE is therefore not
passed over for ever; weak fairness would let others take the lock for ever.  That is also why `MonthlyNeverReported`
is a counterexample under fairness: every unit of work ends, and the row still says
generating.  `ApiProcess`: weak fairness of each request and each job, because the
event loop resumes what is ready, a statement waits for a connection no longer than
`pool_timeout`, an LLM call returns or raises and its answer is bounded, and asyncio
finalises a generator that nobody refers to any more (`Collect`).  No fairness of one
connection's waiters is assumed: who loses the race for it times out.

## 4. Proofs

Everything below holds for every value of the constants that meets the `ASSUME` of
the module that declares them, and in every reachable state, not only within the
bounds of a run.  Each module proves first what its invariant needs of the types,
then one lemma per conjunct with one case per action that can disturb it, and
combines them in `InvStep` (`IInvStep` in the first).

**`IngestPipelineProofs`**, under `IngestAssumption`:

| Theorem | Statement |
|---|---|
| `TypeCorrect` | `Spec => []TypeOK` |
| `InvariantHolds` | `Spec => []IInv` |
| `NoDoubleRegistration` | `Spec => []OneReportPerSource` |
| `NoLostAlert` | `Spec => []UrgentReportsAnnounced` |
| `NoLostMessage` | `Spec => []AcknowledgedIsStored` |
| `DeadLettersArePaid` | `Spec => []DeadLetteredOnlyAfterFaults` |
| `StoredIsQuiet` | `Spec => NoAlertAfterCommit` |
| `Refinement` | `Spec => ImplementsContract` |

None of these safety properties is inductive.  `OneReportPerSource` needs that the
key of an open transaction is not yet stored (`TxKeyIsNew`), which needs that two
open transactions never hold one key (`TxOwnsKey`).  `UrgentReportsAnnounced`
needs that an alert was accepted for a task past it (`AlertedIsAnnounced`).
`AcknowledgedIsStored` needs that the keys a task has passed are stored
(`PassedIsStored`), and `IdxInRange`.  `DeadLetteredOnlyAfterFaults` needs that
each delivery of a sound message but the last, still pending one is paid for by a
fault (`DeliveriesAccounted`), and `QueueShape`.  `IInv` is their conjunction.
The module first proves type correctness, then one lemma per conjunct that says
which steps preserve it, with one case per action that can disturb it, and
combines them in `IInvStep`.  TLC checks `IInv` in `IngestLiveness`.  For `Refinement`
(`ContractStep`) each action is a step of `IngestContract` or leaves its variables
alone; an expiry or a delivery moves the status of one message and of no other.

**`MonthlyReportsProofs`**, under `MonthlyAssumption`:

| Theorem | Statement |
|---|---|
| `TypeCorrect` | `Spec => []TypeOK` |
| `InvariantHolds` | `Spec => []IInv` |
| `VersionsStayContiguous` | `Spec => []VersionsAreContiguous` |
| `ApprovalsAreLogged` | `Spec => []ApprovalMatchesAudit` |
| `GenerationIsFirst` | `Spec => GenerationComesFirst` |
| `AuthorityHolds` | `Spec => []ApproverIsAuthorized` |
| `JobsOwnTheirRows` | `Spec => []JobOwnsItsRow` |

`MonthlyAssumption` asks one thing of the bodies: a generated draft is not empty (it has
at least its headings).  A body that a user saves may be empty.

The difficulty is that a unit of work writes back a copy that may be outdated.  The
invariant says how outdated (`CopyOfRow`): never in slot and version, never from
before the generation has ended, and with an approver only if the row has one.  What
is written and not committed (`ImageOfRow`) then fits the row that its lock protects
(`LocksExclude`), because the flush takes an unchanged column from the row as it is
(`NetChangeRow`).  For the versions, `KeysFree` says that an uncommitted row has a
key of its own and a version at most one above those there are, which uses
cardinalities of finite sets.

**`MonthlyHistoryProofs`**, under `MonthlyAssumption`:

| Theorem | Statement |
|---|---|
| `HistoryHolds` | `HistorySpec => []HistoryInv` |
| `Refinement` | `HistorySpec => ImplementsContract` |
| `SettledIsFinal` | `Spec => SettledApprovalStays` |

`HistoryInv` adds to the invariant above what a request knows of its row.  If it is not
late (`OnTime`), the row is a draft (generating, for a job), the copy loaded is the row,
and what it has flushed is what it wants.  If it is late (`Blended`), what it has
flushed has in each column the row's value or its own; the lock keeps that true until the
commit, since a row with an uncommitted image changes by nobody else's commit
(`LockedRow`).  Only edits become late (`LateEdits`), as a job owns its row.  Every step is the step of one client
that leaves the units of work of the others alone (`Acts`), so each conjunct needs one
lemma for the client that acts and one for those it may overtake.  Then each commit is
a step of `MonthlyContract`, each check an `Admit`, each end without commit a `Drop`, and
the statements in between are stutters (`ContractStep`).

**`ReviewQueueProofs`**, under `ReviewAssumption`:

| Theorem | Statement |
|---|---|
| `InvariantHolds` | `Spec => []IInv` |
| `VerificationsAreAudited` | `Spec => []VerifiedIsAudited` |
| `ColumnsWereChosen` | `Spec => []EveryColumnWasChosen` |
| `VerificationsStay` | `Spec => VerifiedStays` |

An override that has read a report which is since verified by another one may flush
one column only.  `CopyIsCurrent` says that the copy is the row until somebody
verifies it; `ImageIsChosen` says that a written column is this user's, or that of a
row that somebody has verified, and that an override that writes nothing found the
row verified.  `IdsAreFresh` is needed for an insertion to touch no report.

**`ApiProcessProofs`**, under `StoreAssumption`, `SearchAssumption` and
`FiguresAssumption`:

| Theorem | Statement |
|---|---|
| `TypeCorrect` | `Spec => []TypeOK` |
| `InvariantHolds` | `Spec => []IInv` |
| `ScopeIsKept` | `Spec => []OnlyPermitted` |
| `SourcesStand` | `Spec => []CitedSourcesStand` |
| `NoLeak` | `Spec => []NoConnectionLeaks` |
| `FiguresAreBracketed` | `Spec => []FiguresBracketed` |
| `Refinement` | `Spec => ImplementsContract` |

The table only grows and a report keeps its property (`ReportsStep`), so what was
permitted stays so; while the LLM answers, the stream is sources followed by tokens
(`SourcesThenTokens`), so verification takes its citations from the tokens and a cited
source passes it; nothing is sent before the audit entry is committed
(`AuditedFirst`, `SilentBefore`).  For the refinement every action is shown to be a
step of `SearchContract` (`Record`, `Send`, `Close`) or to leave its variables alone.

`FiguresInv` bounds what each statement of a job has counted by the rows of the table at
that moment, and orders the statements; since the table only grows, what
was counted stays a lower bound.  That a grouping counts every row once is shown without
a sum: the total of a table is the number of its `Pairs` (label, position), and those are
in bijection with the rows (`GroupsCountAll`).

**`ReviewPagesProofs`**, under `ReviewAssumption`:

| Theorem | Statement |
|---|---|
| `TypeCorrect` | `Spec => []TypeOK` |
| `PagesInOrder` | `Spec => []ListedInOrder` |
| `PagesMissNothing` | `PagesFit /\ Spec => []NothingSkipped` |

A page is the top of a finite set of ids, and `Descending` its listing.  `Above` is a
bijection onto the first numbers (`AboveIsOnto`, by counting), so a listing holds each
id once and in order (`DescendingSorts`) and a page holds all that is above its least
id.  `PagesInv` adds to the invariant that the cursor of an open traversal is at or
below all that it has listed; this is why rows that arrive or leave the queue between
pages repeat nothing.  `CoverInv` adds that what was promised at the first page and still
matches is listed or below the cursor.  `PagesFit` says that the limits asked for
are within the service's maximum, and that the screen's page is smaller than it: beyond
it the second theorem is false, as the code compares the number of rows with
the limit before it is clamped (section 5).  `PagesInOrder` needs no such condition.

**`TextLemmas` and `TextCasesProofs`**, under `TextAssumption`, for texts of every length:

| Theorem | Statement |
|---|---|
| `MaskingHolds` | `Spec => []MaskingIsComplete` |
| `AddressesHidden` | `Spec => []AddressesAreHiddenWhole` |
| `ChunksHoldText` | `Spec => []ChunksHoldTheText` |
| `LookupFinds` | `Spec => []LookupFindsTheOriginal` |
| `CitationsCount` | `Spec => []CitationsSurviveTokens` |
| `LastReviewStands` | `Spec => []LastReviewWins` |
| `CasesFollow` | `Spec => []CasesFollowTheHuman` |

The operators of `TextRules` are recursive functions over texts.  The library's rules of
induction take an operator, which the provers cannot instantiate; so the induction goes
through a *set* of numbers (`Induction`, from the well-foundedness of `<`), and each
recursive function is first shown to exist (`FlattenExists`, `ScanExists`, `PassExists`,
`GreedyExists`).  On that rest four layers:

* *Concatenation.*  `FlattenSeq` of two parts is the concatenation of both
  (`FlattenConcat`).  `Spread` replaces each symbol by a sequence; it
  respects concatenation (`SpreadConcat`), and two of them in turn are one (`SpreadTwice`).
  Restoring a masked text, dropping blanks, what is exported of a row, are all such.
* *Spans.*  What a scan from the left finds is apart, in order, and misses no place that
  no span covers (`SpansFacts`, `SpansInOrder`).
* *Masking.*  Whatever stretch without a placeholder a pass leaves is a stretch of the
  text before it, outside the spans (`PassClears`).  No pattern admits a placeholder, so
  a match in the result would have been one before: of the pass's own kind it was
  hidden, of an earlier kind there was none (`PassHides`, `HideKeeps`).  Putting the
  hidden parts back gives the text before the pass (`PassRestores`).
* *Purposes.*  Chunks: a strip takes only blanks (`StripKeeps`), and what is between two
  paragraphs is blank.  Look-up: if any embedding exists, the greedy one ends no later
  (`GreedyFinds`).  Files: an item *stands* when no later one has its key, what stands
  decides the file (`ByKeySame`), and merging into a file is merging into all that made
  it (`ByKeyTwice`); both export theorems follow from it.

`TextAssumption` says of the constants that texts are sequences and that the keys of
reviews are numbers, in whose order the files are sorted (the code sorts strings).

**Only model-checked:** the liveness properties (`EveryMessageSettles`,
`EveryRequestEnds`, `EverySessionEnds`), as fairness and `ENABLED` are out of the
prover's reach; and what the dictionary does to a text (`DriftMakesNoDifference`,
`NothingIsPlayedDown`), which depends on its thirteen entries and on how they overlap
with each other and with other words, and not on a fact about texts in general.  The
findings of section 5 are counterexamples of TLC.

## 5. Where code and documents disagree

Shown by a run, with the quotation in `PROJECT.json`:

1. The alert is sent within the transaction, so an attempt that fails after it is
   announced again, against the comment at `app/services/ingest.py:138`.
2. A save that checked the status before an approval is written after it.
3. A generation that fails sets `failed` and raises, which rolls it back, and one
   whose process dies is never resumed: who polls such a row polls for ever.
4. Two concurrent overrides can mix their columns.

Noted while reading, without a run of their own:

* A saved report may be empty: `app/api/schemas.py:112-122` refuses only a missing body
  and `app/api/routers/monthly.py:84` passes `""` on.  A draft, and an approved report, can
  so have the body that `app/infra/db/repositories.py:408` gives a row still generating;
  only the status tells them apart.
* `scripts/synth.py:52` says that the normaliser restores what the drift took away, as
  does `tests/llm_eval/loop_demo.py:12`.  It does not where the letters of a variant occur
  in another word: `がす` (`tests/llm_eval/golden_corrections.json:59`) turns 異音がする,
  drifted or not, into 異音ガスる, which the classifier calls high; nor where a spelling
  runs into another (火災おん), hence the condition `Collide` of
  `DriftMakesNoDifference`, which compares the normalised texts with and without drift.
* `scripts/templates.py:11` wants every label within reach of the classifier by keywords.
  For fourteen templates it is not.  Claims labelled medium with action
  (`scripts/templates.py:269,276,290,297,311,318`) come out low and without, as only words of
  equipment give medium, while `app/infra/llm/prompts/classify_v1.yaml:21` defines medium by days
  for any category.  The gas on the roof (94) comes out as other; the roof sheeting (187),
  the automatic lock (194) and the graffiti (244) as high, since 漏水 or 防犯 is mentioned.
* `app/infra/llm/summaries.py:88` speaks of a majority of the original, while the code
  (and `Lookup`) accepts a half, rounded down.
* `app/api/routers/monthly_ui.py:158`: approval from the screen with an unchanged form
  takes no lock between save and approval, and may approve another client's text.
* `app/api/routers/reports.py:30`: `next_cursor` compares with the limit before it is
  clamped, so a limit above 100 ends the list after one page (`docs/03_api_design.md:36`);
  `limit=0` indexes the last row of an empty page.
* `app/domain/errors.py:25` says that errors which are not retryable go to the dead
  letter queue at once, while every error waits for the redeliveries;
  `docs/06_architecture.md:86` and `docs/02_basic_design.md:100` describe partial
  failures recorded by a status, while the unit of work rolls back.
* `docs/02_basic_design.md:129` bases the statistics on confirmed reports, while
  `compute_stats` looks at no status; its three statements can count different sets
  of reports in one document (`FiguresBracketed` says by how much).
* Idempotency is documented by S3 key, while it is by the `source_key` in the body.
* `done` may name reports that the search has not listed, if the model cites them and the
  user may see them (`docs/demo/02_ai_human_roles.md:9` speaks of the sources);
  `docs/05_llm_design.md:37` has refused citations removed and counted, while the code
  logs them after the text was sent.
* `app/domain/entities.py:164` says that the statistics are not given to the LLM, while
  `narrate_monthly` passes them.
* The chunks that a search sends to the LLM are built from the text before masking.
* The names go first in masking, so an address with a name in it is hidden in part
  (hence the condition in `AddressesAreHiddenWhole`).
* A later review that takes a correction back (variant = canonical) is dropped on loading
  and leaves the older one in the dictionary.
* A stream that fails after its 200 is no `api_error`; the 429 of the API design is not
  implemented; running `seed_demo.py` again with the same keys waits for its timeout.

## 6. Not modelled

Embedding and the ranking by distance (a retrieval yields any chunks in scope), PDF,
templates, labels, metrics, logging, configuration, migrations and infrastructure other
than the pipeline: input and output without state that the program reads back.  The
prompts and what a real LLM answers: a call is any answer or a failure.  Users, branches
and properties are fixed: no code changes them.  The audit screen, the list and PDF of
monthly reports, `get_report` and the detail page only read.  The handlers other than
search and generation also use the pool, each for one short session, and behave towards
it as a job does.  `parse_s3_event` and the reading of the event JSON are represented by
what they yield (the keys of a message, or a broken object).  `seed_demo.py`,
`demo_capture` and `templates.py` drive or feed the program from outside.

## 7. Plan

Done: all modules of section 2, the refinements, and every invariant and action property
of a run proved but the two of the dictionary (section 4).  Left:

1. The remaining filters of the list, and the other handlers as users of the pool.
2. A proof of `DriftMakesNoDifference` for texts of every length.
