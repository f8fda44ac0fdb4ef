--------------------------- MODULE IngestPipeline ---------------------------
(***************************************************************************)
(* Report ingestion (F-1): S3 event -> SQS -> worker -> PostgreSQL, Slack.  *)
(*                                                                         *)
(* Worker processes (app/worker/main.py) fetch a batch of SQS messages,    *)
(* run one `_handle` task per message under a semaphore, ingest the keys   *)
(* of a message one transaction after the other (app/services/ingest.py)   *)
(* and delete the message only after the last one.  The queue redelivers   *)
(* what was not deleted, and dead-letters it after MaxReceive deliveries.  *)
(*                                                                         *)
(* A transaction is a span of a task's steps: the INSERT takes the entry   *)
(* of the unique index on source_key, so another INSERT of the same key    *)
(* waits; COMMIT publishes the row; every failure and every process death  *)
(* rolls back.  What the LLM answers, and whether a call fails, is chosen  *)
(* nondeterministically at each attempt.                                   *)
(***************************************************************************)
EXTENDS Naturals, Sequences, FiniteSets

CONSTANTS
  Procs,        \* worker processes (ECS tasks)
  Messages,     \* SQS messages; a duplicate S3 event is one more message
  Objects,      \* S3 object keys
  Sources,      \* values of the source_key field inside the objects
  KeysOf,       \* KeysOf[m]: the object keys parse_s3_event finds in m
  SourceOf,     \* SourceOf[o]: the source_key in the body of object o
  Broken,       \* objects that fail every time (invalid JSON, bad property)
  Permits,      \* llm_max_concurrency: the semaphore of one process
  BatchMax,     \* max_messages of one receive call
  MaxReceive,   \* maxReceiveCount of the redrive policy
  MaxFaults,    \* bound: faults of the environment, counted by `faults`
  MaxRedrives,  \* bound: operator redrives from the dead letter queue
  NoProc        \* no process has received the message yet

ASSUME IngestAssumption ==
  /\ KeysOf \in [Messages -> Seq(Objects)]
  /\ SourceOf \in [Objects -> Sources]
  /\ Broken \subseteq Objects
  /\ Permits \in Nat \ {0} /\ BatchMax \in Nat \ {0}
  /\ MaxReceive \in Nat \ {0}
  /\ MaxFaults \in Nat /\ MaxRedrives \in Nat
  /\ NoProc \notin Procs

VARIABLES
  proc,      \* process: running, draining (SIGTERM), failing, down
  queue,     \* message: unsent, visible, inflight, deleted, dead (in the DLQ)
  receives,  \* ApproximateReceiveCount since the last (re)drive
  holder,    \* the process whose receipt handle for the message is the latest
  pc,        \* pc[p][m]: where the task of process p for message m stands
  idx,       \* idx[p][m]: index in KeysOf[m] of the key being ingested
  verdict,   \* verdict[p][m]: urgency the LLM gave at this attempt
  reports,   \* committed rows of the reports table, in commit order
  notified,  \* notified[s]: urgent alerts Slack accepted for source_key s
  faults,    \* failures, premature expiries, deaths and stops so far
  redrives   \* operator redrives so far

queueVars == <<queue, receives, holder>>
taskVars  == <<pc, idx, verdict>>
dbVars    == <<reports, notified>>
budget    == <<faults, redrives>>
vars      == <<proc, queue, receives, holder, pc, idx, verdict, reports,
               notified, faults, redrives>>

ProcStates == {"running", "draining", "failing", "down"}
MsgStates  == {"unsent", "visible", "inflight", "deleted", "dead"}
Urgencies  == {"high", "low"}   \* "low" stands for every urgency but HIGH
TaskStates == {"idle",        \* no task
               "waiting",     \* created by gather, waiting for a permit
               "reading",     \* about to fetch and classify the current key
               "upserting",   \* classified and embedded, about to INSERT
               "inserted",    \* rows written, not committed
               "alerted",     \* alert accepted, not committed
               "acking"}      \* every key done, about to delete the message
OpenTx     == {"inserted", "alerted"}

Row == [source : Sources, urgency : Urgencies]

-----------------------------------------------------------------------------
(* What a task sees. *)

Key(p, m)    == KeysOf[m][idx[p][m]]
Source(p, m) == SourceOf[Key(p, m)]
Stored(s)    == \E i \in 1..Len(reports) : reports[i].source = s

\* Another task holds the unique-index entry of source key s uncommitted.
Locked(s) == \E q \in Procs, n \in Messages :
               pc[q][n] \in OpenTx /\ Source(q, n) = s

ActiveTasks(p) == {m \in Messages : pc[p][m] \notin {"idle", "waiting"}}
Quiet(p)       == \A m \in Messages : pc[p][m] = "idle"

\* One fault of the environment.
Fault == faults < MaxFaults /\ faults' = faults + 1

\* The task leaves; unit_of_work has rolled back whatever it had not committed.
EndTask(p, m) ==
  /\ pc'      = [pc EXCEPT ![p][m] = "idle"]
  /\ idx'     = [idx EXCEPT ![p][m] = 1]
  /\ verdict' = [verdict EXCEPT ![p][m] = "low"]

\* Variant: only the first key of a message is ingested.
NextKey_FirstOnly(p, m) ==
  /\ pc'      = [pc EXCEPT ![p][m] = "acking"]
  /\ verdict' = [verdict EXCEPT ![p][m] = "low"]
  /\ idx'     = idx

\* The key at idx is done: open a unit of work for the next one, or acknowledge.
NextKey(p, m) ==
  LET more == idx[p][m] < Len(KeysOf[m])
  IN  /\ pc'      = [pc EXCEPT ![p][m] = IF more THEN "reading" ELSE "acking"]
      /\ idx'     = [idx EXCEPT ![p][m] = IF more THEN @ + 1 ELSE @]
      /\ verdict' = [verdict EXCEPT ![p][m] = "low"]

-----------------------------------------------------------------------------
Init ==
  /\ proc     = [p \in Procs |-> "running"]
  /\ queue    = [m \in Messages |-> "unsent"]
  /\ receives = [m \in Messages |-> 0]
  /\ holder   = [m \in Messages |-> NoProc]
  /\ pc       = [p \in Procs |-> [m \in Messages |-> "idle"]]
  /\ idx      = [p \in Procs |-> [m \in Messages |-> 1]]
  /\ verdict  = [p \in Procs |-> [m \in Messages |-> "low"]]
  /\ reports  = <<>>
  /\ notified = [s \in Sources |-> 0]
  /\ faults   = 0
  /\ redrives = 0

-----------------------------------------------------------------------------
(* The queue. *)

\* S3 announces the created objects of one event.
S3Notify(m) ==
  /\ queue[m] = "unsent"
  /\ queue' = [queue EXCEPT ![m] = "visible"]
  /\ UNCHANGED <<proc, receives, holder, taskVars, dbVars, budget>>

\* The visibility timeout of a received, undeleted message runs out.  It is a
\* fault when the task is still waiting for a permit or at work.
Expire(m) ==
  /\ queue[m] = "inflight"
  /\ queue' = [queue EXCEPT ![m] = "visible"]
  /\ IF pc[holder[m]][m] = "idle" THEN UNCHANGED faults ELSE Fault
  /\ UNCHANGED <<proc, receives, holder, taskVars, dbVars, redrives>>

\* A message already delivered MaxReceive times goes to the dead letter queue.
DeadLetter(m) ==
  /\ queue[m] = "visible" /\ receives[m] = MaxReceive
  /\ queue' = [queue EXCEPT ![m] = "dead"]
  /\ UNCHANGED <<proc, receives, holder, taskVars, dbVars, budget>>

\* The operator moves a dead message back to the main queue (runbook, part 1).
Redrive(m) ==
  /\ queue[m] = "dead" /\ redrives < MaxRedrives
  /\ queue'    = [queue EXCEPT ![m] = "visible"]
  /\ receives' = [receives EXCEPT ![m] = 0]
  /\ holder'   = [holder EXCEPT ![m] = NoProc]
  /\ redrives' = redrives + 1
  /\ UNCHANGED <<proc, taskVars, dbVars, faults>>

-----------------------------------------------------------------------------
(* The consume loop of a worker process. *)

\* Variant: a queue without redrive policy keeps delivering.
Receive_NoRedrivePolicy(p) ==
  /\ proc[p] = "running" /\ Quiet(p)
  /\ \E m \in Messages :
       /\ queue[m] = "visible"
       /\ queue'    = [queue EXCEPT ![m] = "inflight"]
       /\ receives' = [receives EXCEPT ![m] = @ + 1]
       /\ holder'   = [holder EXCEPT ![m] = p]
       /\ pc'       = [pc EXCEPT ![p][m] = "waiting"]
  /\ UNCHANGED <<proc, idx, verdict, dbVars, budget>>

\* sqs.receive returns a batch and gather creates its tasks; the previous
\* batch must have ended first.
Receive(p) ==
  /\ proc[p] = "running" /\ Quiet(p)
  /\ \E batch \in SUBSET {m \in Messages :
                            queue[m] = "visible" /\ receives[m] < MaxReceive} :
       /\ batch # {} /\ Cardinality(batch) <= BatchMax
       /\ queue'    = [m \in Messages |->
                         IF m \in batch THEN "inflight" ELSE queue[m]]
       /\ receives' = [m \in Messages |->
                         IF m \in batch THEN receives[m] + 1 ELSE receives[m]]
       /\ holder'   = [m \in Messages |->
                         IF m \in batch THEN p ELSE holder[m]]
       /\ pc'       = [pc EXCEPT ![p] = [m \in Messages |->
                         IF m \in batch THEN "waiting" ELSE "idle"]]
  /\ UNCHANGED <<proc, idx, verdict, dbVars, budget>>

\* An empty long poll: the loop goes round.
EmptyPoll(p) ==
  /\ proc[p] = "running" /\ Quiet(p)
  /\ \A m \in Messages : queue[m] # "visible"
  /\ UNCHANGED vars

\* An error of sqs.receive is not caught: the loop, then the process, ends.
ReceiveFails(p) ==
  /\ proc[p] = "running" /\ Quiet(p) /\ Fault
  /\ proc' = [proc EXCEPT ![p] = "failing"]
  /\ UNCHANGED <<queueVars, taskVars, dbVars, redrives>>

\* SIGTERM sets the stop event, looked at only between two batches.
Stop(p) ==
  /\ proc[p] = "running" /\ Fault
  /\ proc' = [proc EXCEPT ![p] = "draining"]
  /\ UNCHANGED <<queueVars, taskVars, dbVars, redrives>>

\* The process is gone: its tasks vanish and PostgreSQL rolls back for them.
Die(p) ==
  /\ proc'    = [proc EXCEPT ![p] = "down"]
  /\ pc'      = [pc EXCEPT ![p] = [m \in Messages |-> "idle"]]
  /\ idx'     = [idx EXCEPT ![p] = [m \in Messages |-> 1]]
  /\ verdict' = [verdict EXCEPT ![p] = [m \in Messages |-> "low"]]
  /\ UNCHANGED <<queueVars, dbVars>>

\* Killed at any point (SIGKILL, out of memory, host lost).
Crash(p) ==
  /\ proc[p] # "down" /\ Fault
  /\ Die(p)
  /\ UNCHANGED redrives

\* The consume loop has returned (stop event, batch done) or has raised, in
\* which case the tasks still running are cancelled.
Exit(p) ==
  /\ proc[p] = "failing" \/ (proc[p] = "draining" /\ Quiet(p))
  /\ Die(p)
  /\ UNCHANGED budget

\* ECS keeps the service at its desired count.
Restart(p) ==
  /\ proc[p] = "down"
  /\ proc' = [proc EXCEPT ![p] = "running"]
  /\ UNCHANGED <<queueVars, taskVars, dbVars, budget>>

-----------------------------------------------------------------------------
(* One `_handle` task. *)

\* The task gets a permit of the semaphore and parses the message.  A message
\* without keys is acknowledged as it is.
Acquire(p, m) ==
  /\ pc[p][m] = "waiting" /\ Cardinality(ActiveTasks(p)) < Permits
  /\ pc' = [pc EXCEPT ![p][m] =
              IF KeysOf[m] = <<>> THEN "acking" ELSE "reading"]
  /\ UNCHANGED <<proc, queueVars, idx, verdict, dbVars, budget>>

\* Fetch, validate, mask, normalise, classify, embed: no shared state changes.
Classify(p, m) ==
  /\ pc[p][m] = "reading" /\ Key(p, m) \notin Broken
  /\ \E u \in Urgencies : verdict' = [verdict EXCEPT ![p][m] = u]
  /\ pc' = [pc EXCEPT ![p][m] = "upserting"]
  /\ UNCHANGED <<proc, queueVars, idx, dbVars, budget>>

\* Variant: the error is logged and the loop goes on with the next key.
IngestFails_Swallowed(p, m) ==
  /\ pc[p][m] \in {"reading", "upserting", "inserted", "alerted"}
  /\ IF Key(p, m) \in Broken THEN UNCHANGED faults ELSE Fault
  /\ NextKey(p, m)
  /\ UNCHANGED <<proc, queueVars, dbVars, redrives>>

\* Variant: the worker retries the key in place instead of leaving it to SQS.
IngestFails_RetriesInPlace(p, m) ==
  /\ pc[p][m] \in {"reading", "upserting", "inserted", "alerted"}
  /\ IF Key(p, m) \in Broken THEN UNCHANGED faults ELSE Fault
  /\ pc' = [pc EXCEPT ![p][m] = "reading"]
  /\ UNCHANGED <<proc, queueVars, idx, verdict, dbVars, redrives>>

\* A step of the ingestion raises: retryable or not, the transaction is rolled
\* back and the message left for redelivery.
IngestFails(p, m) ==
  /\ pc[p][m] \in {"reading", "upserting", "inserted", "alerted"}
  /\ IF Key(p, m) \in Broken THEN UNCHANGED faults ELSE Fault
  /\ EndTask(p, m)
  /\ UNCHANGED <<proc, queueVars, dbVars, redrives>>

\* Variant: SELECT first, then INSERT into a table without unique index.
UpsertNew_NoUniqueIndex(p, m) ==
  /\ pc[p][m] = "upserting" /\ ~Stored(Source(p, m))
  /\ pc' = [pc EXCEPT ![p][m] = "inserted"]
  /\ UNCHANGED <<proc, queueVars, idx, verdict, dbVars, budget>>

\* INSERT ... ON CONFLICT (source_key) DO NOTHING writes the report, then the
\* analysis and the chunks; it waits while another transaction holds the key.
UpsertNew(p, m) ==
  /\ pc[p][m] = "upserting"
  /\ ~Stored(Source(p, m)) /\ ~Locked(Source(p, m))
  /\ pc' = [pc EXCEPT ![p][m] = "inserted"]
  /\ UNCHANGED <<proc, queueVars, idx, verdict, dbVars, budget>>

\* Variant: a duplicate ends the task before the message is deleted.
UpsertDuplicate_NotAcknowledged(p, m) ==
  /\ pc[p][m] = "upserting" /\ Stored(Source(p, m))
  /\ EndTask(p, m)
  /\ UNCHANGED <<proc, queueVars, dbVars, budget>>

\* Variant: a duplicate is announced like a new report.
UpsertDuplicate_Announced(p, m) ==
  /\ pc[p][m] = "upserting" /\ Stored(Source(p, m))
  /\ notified' = [notified EXCEPT ![Source(p, m)] = @ + 1]
  /\ NextKey(p, m)
  /\ UNCHANGED <<proc, queueVars, reports, budget>>

\* The key is there already: nothing is written, nobody is notified, and the
\* empty transaction ends.
UpsertDuplicate(p, m) ==
  /\ pc[p][m] = "upserting" /\ Stored(Source(p, m))
  /\ NextKey(p, m)
  /\ UNCHANGED <<proc, queueVars, dbVars, budget>>

\* Slack has taken the alert of an urgent report: inside the transaction.
Notify(p, m) ==
  /\ pc[p][m] = "inserted" /\ verdict[p][m] = "high"
  /\ notified' = [notified EXCEPT ![Source(p, m)] = @ + 1]
  /\ pc'       = [pc EXCEPT ![p][m] = "alerted"]
  /\ UNCHANGED <<proc, queueVars, idx, verdict, reports, budget>>

\* Slack has taken the alert but the answer is late: notify_urgent raises.
NotifyTimesOut(p, m) ==
  /\ pc[p][m] = "inserted" /\ verdict[p][m] = "high"
  /\ notified' = [notified EXCEPT ![Source(p, m)] = @ + 1]
  /\ Fault
  /\ EndTask(p, m)
  /\ UNCHANGED <<proc, queueVars, reports, redrives>>

\* Variant: the alert is left for after the commit.
Committable_AlertLater(p, m) == pc[p][m] \in OpenTx

\* The unit of work may commit: written, and alerted when urgent.
Committable(p, m) ==
  \/ pc[p][m] = "alerted"
  \/ pc[p][m] = "inserted" /\ verdict[p][m] # "high"

InsertRow(p, m) ==
  reports' = Append(reports, [source  |-> Source(p, m),
                              urgency |-> verdict[p][m]])

Commit(p, m) ==
  /\ Committable(p, m)
  /\ InsertRow(p, m)
  /\ NextKey(p, m)
  /\ UNCHANGED <<proc, queueVars, notified, budget>>

\* The server has committed but the worker sees a lost connection.
CommitAckLost(p, m) ==
  /\ Committable(p, m)
  /\ Fault
  /\ InsertRow(p, m)
  /\ EndTask(p, m)
  /\ UNCHANGED <<proc, queueVars, notified, redrives>>

\* delete_message.  With the latest receipt handle it removes the message from
\* the main queue; with an older one the queue may ignore it.
Delete(p, m) ==
  /\ pc[p][m] = "acking"
  /\ \E effective \in IF holder[m] = p THEN {TRUE} ELSE BOOLEAN :
       queue' = [queue EXCEPT ![m] =
                   IF effective /\ @ \in {"visible", "inflight"}
                     THEN "deleted" ELSE @]
  /\ EndTask(p, m)
  /\ UNCHANGED <<proc, receives, holder, dbVars, budget>>

\* delete_message raises outside the try block: gather, then the loop, raises.
DeleteFails(p, m) ==
  /\ pc[p][m] = "acking" /\ Fault
  /\ proc' = [proc EXCEPT ![p] = "failing"]
  /\ EndTask(p, m)
  /\ UNCHANGED <<queueVars, dbVars, redrives>>

TaskStep(p, m) ==
  \/ Acquire(p, m) \/ Classify(p, m) \/ IngestFails(p, m)
  \/ UpsertNew(p, m) \/ UpsertDuplicate(p, m)
  \/ Notify(p, m) \/ NotifyTimesOut(p, m)
  \/ Commit(p, m) \/ CommitAckLost(p, m)
  \/ Delete(p, m) \/ DeleteFails(p, m)

Next ==
  \/ \E m \in Messages : S3Notify(m) \/ Expire(m) \/ DeadLetter(m) \/ Redrive(m)
  \/ \E p \in Procs : \/ Receive(p) \/ EmptyPoll(p) \/ ReceiveFails(p)
                      \/ Stop(p) \/ Crash(p) \/ Exit(p) \/ Restart(p)
  \/ \E p \in Procs, m \in Messages : TaskStep(p, m)

Spec == Init /\ [][Next]_vars

(***************************************************************************)
(* Fairness.  The event loop runs every task that can run, each await      *)
(* having a timeout (TaskStep ends by success or failure); a running       *)
(* worker polls for ever; ECS restarts what died; SQS expires and          *)
(* dead-letters on its own.  S3, the operator and the faults are free.     *)
(***************************************************************************)
Fairness ==
  /\ \A m \in Messages : WF_vars(Expire(m)) /\ WF_vars(DeadLetter(m))
  /\ \A p \in Procs : /\ WF_vars(Receive(p)) /\ WF_vars(Exit(p))
                      /\ WF_vars(Restart(p))
  /\ \A p \in Procs, m \in Messages : WF_vars(TaskStep(p, m))

FairSpec == Spec /\ Fairness

-----------------------------------------------------------------------------
(* Properties. *)

\* Every variable has the shape the tables, the queue and the tasks give it.
TypeOK ==
  /\ proc     \in [Procs -> ProcStates]
  /\ queue    \in [Messages -> MsgStates]
  /\ receives \in [Messages -> 0..MaxReceive]
  /\ holder   \in [Messages -> Procs \cup {NoProc}]
  /\ pc       \in [Procs -> [Messages -> TaskStates]]
  /\ idx      \in [Procs -> [Messages -> Nat \ {0}]]
  /\ verdict  \in [Procs -> [Messages -> Urgencies]]
  /\ reports  \in Seq(Row)
  /\ notified \in [Sources -> Nat]
  /\ faults   \in 0..MaxFaults
  /\ redrives \in Nat

\* Redeliveries, duplicate events and two workers on one object never register
\* a report twice (ingest.py:138, "no double registration").
OneReportPerSource ==
  \A i, j \in 1..Len(reports) : reports[i].source = reports[j].source => i = j

\* An urgent report that is in the database has been announced: no interleaving
\* of failures commits the row and loses the alert (F-1-4).
UrgentReportsAnnounced ==
  \A i \in 1..Len(reports) :
    reports[i].urgency = "high" => notified[reports[i].source] > 0

\* A message leaves the main queue by deletion only when every object it names
\* has a committed report with that object's source_key: the acknowledgement
\* never runs ahead of the data.
AcknowledgedIsStored ==
  \A m \in Messages : queue[m] = "deleted" =>
    \A i \in 1..Len(KeysOf[m]) : Stored(SourceOf[KeysOf[m][i]])

\* A message whose objects are all sound is dead-lettered only after MaxReceive
\* faults: no normal path of the worker (a duplicate, an empty message, a batch
\* end) leaves a message behind to be counted as failed ("3 failures", design
\* part 2.1).
DeadLetteredOnlyAfterFaults ==
  \A m \in Messages :
    (queue[m] = "dead" /\ \A i \in 1..Len(KeysOf[m]) : KeysOf[m][i] \notin Broken)
      => faults >= MaxReceive

\* Once a report is committed, no task announces its source_key again, however
\* many redeliveries are still in progress.
NoAlertAfterCommit ==
  [][\A s \in Sources : Stored(s) => notified'[s] = notified[s]]_vars

\* The comment at ingest.py:138 and the test of the duplicate delivery say that
\* a report is announced once.  The alert is sent before the commit, so an
\* attempt that fails after it is announced again by the redelivery.
AnnouncedOnce == \A s \in Sources : notified[s] <= 1

\* Every message offered for delivery is in the end deleted or dead-lettered:
\* no handler, batch barrier, lock wait or restart holds it for ever.
EveryMessageSettles ==
  \A m \in Messages :
    queue[m] = "visible" ~> queue[m] \in {"deleted", "dead"}

-----------------------------------------------------------------------------
(* The inductive invariant behind the safety properties. *)

\* Two open transactions never hold one source_key.
TxOwnsKey ==
  \A p, q \in Procs : \A m, n \in Messages :
    (/\ pc[p][m] \in OpenTx /\ pc[q][n] \in OpenTx
     /\ Source(p, m) = Source(q, n)) => p = q /\ m = n

\* The key of an open transaction has no committed report.
TxKeyIsNew ==
  \A p \in Procs, m \in Messages :
    pc[p][m] \in OpenTx => ~Stored(Source(p, m))

\* Past the alert, Slack has it.
AlertedIsAnnounced ==
  \A p \in Procs, m \in Messages :
    pc[p][m] = "alerted" => notified[Source(p, m)] > 0

\* A task at work points at a key of its message, others at the first one.
IdxInRange ==
  \A p \in Procs, m \in Messages :
    /\ pc[p][m] \in {"idle", "waiting"} => idx[p][m] = 1
    /\ pc[p][m] \in {"reading", "upserting", "inserted", "alerted"}
         => idx[p][m] <= Len(KeysOf[m])

\* The keys a task has passed are stored.
PassedIsStored ==
  \A p \in Procs, m \in Messages : \A i \in 1..Len(KeysOf[m]) :
    (i < idx[p][m] \/ pc[p][m] = "acking") => Stored(SourceOf[KeysOf[m][i]])

\* An unsent message was never delivered, a received one has a receiver, and a
\* dead one has used its deliveries.
QueueShape ==
  \A m \in Messages : /\ queue[m] = "unsent" => receives[m] = 0
                      /\ queue[m] = "inflight" => holder[m] \in Procs
                      /\ queue[m] = "dead" => receives[m] = MaxReceive

Sound(m) == \A i \in 1..Len(KeysOf[m]) : KeysOf[m][i] \notin Broken

\* The last delivery of m may still succeed.
Pending(m) == /\ queue[m] = "inflight" /\ pc[holder[m]][m] # "idle"
              /\ proc[holder[m]] # "failing"

\* Every delivery of a sound message is paid for by a fault, but the last one
\* while it is at work.
DeliveriesAccounted ==
  \A m \in Messages :
    Sound(m) /\ queue[m] \in {"visible", "inflight", "dead"} =>
      receives[m] <= faults + (IF Pending(m) THEN 1 ELSE 0)

\* What holds in every reachable state and is preserved by every step: the
\* safety properties and the facts about open transactions, passed keys and
\* paid deliveries they follow from.
IInv ==
  /\ TypeOK
  /\ TxOwnsKey /\ TxKeyIsNew /\ AlertedIsAnnounced /\ IdxInRange
  /\ PassedIsStored /\ QueueShape /\ DeliveriesAccounted
  /\ OneReportPerSource /\ UrgentReportsAnnounced /\ AcknowledgedIsStored

-----------------------------------------------------------------------------
(* Refinement: the pipeline implements IngestContract. *)

SourcesOf == [m \in Messages |->
                {SourceOf[KeysOf[m][i]] : i \in 1..Len(KeysOf[m])}]

\* The promise made about a message, from where the queue has it.
Status == [m \in Messages |->
             CASE queue[m] = "unsent"  -> "unsent"
               [] queue[m] = "deleted" -> "acked"
               [] queue[m] = "dead"    -> "parked"
               [] OTHER                -> "offered"]

Contract == INSTANCE IngestContract WITH status <- Status

\* Every step of the pipeline is a step of the contract or leaves what it
\* promises unchanged.
ImplementsContract == Contract!Spec
=============================================================================
