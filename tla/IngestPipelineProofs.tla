------------------------ MODULE IngestPipelineProofs ------------------------
(* Proofs about IngestPipeline, for every value of its constants. *)
EXTENDS IngestPipeline, TLAPS

Working == {"reading", "upserting", "inserted", "alerted"}

-----------------------------------------------------------------------------
(* Types. *)

\* A task at work has an object and a source_key to work on.
LEMMA KeyType ==
  ASSUME TypeOK, IdxInRange, NEW p \in Procs, NEW m \in Messages,
         pc[p][m] \in Working
  PROVE  /\ idx[p][m] \in 1..Len(KeysOf[m])
         /\ Key(p, m) \in Objects
         /\ Source(p, m) \in Sources
<1>1. KeysOf[m] \in Seq(Objects)
  BY IngestAssumption
<1>2. idx[p][m] \in Nat \ {0} /\ idx[p][m] <= Len(KeysOf[m])
  BY DEF TypeOK, IdxInRange, Working
<1>3. idx[p][m] \in 1..Len(KeysOf[m])
  BY <1>1, <1>2
<1>4. Key(p, m) \in Objects
  BY <1>1, <1>3 DEF Key
<1>5. QED
  BY <1>3, <1>4, IngestAssumption DEF Source

\* Types are preserved by every step from a well-typed state in range.
LEMMA TypeStep == TypeOK /\ IdxInRange /\ [Next]_vars => TypeOK'
<1>. SUFFICES ASSUME TypeOK, IdxInRange, [Next]_vars PROVE TypeOK'
  OBVIOUS
<1>. USE IngestAssumption
<1>. USE DEF TypeOK, ProcStates, MsgStates, TaskStates, Urgencies,
            queueVars, taskVars, dbVars, budget
<1>1. ASSUME NEW m \in Messages, S3Notify(m) PROVE TypeOK'
  BY <1>1 DEF S3Notify
<1>2. ASSUME NEW m \in Messages, Expire(m) PROVE TypeOK'
  BY <1>2 DEF Expire, Fault
<1>3. ASSUME NEW m \in Messages, DeadLetter(m) PROVE TypeOK'
  BY <1>3 DEF DeadLetter
<1>4. ASSUME NEW m \in Messages, Redrive(m) PROVE TypeOK'
  BY <1>4 DEF Redrive
<1>5. ASSUME NEW p \in Procs, Receive(p) PROVE TypeOK'
  BY <1>5 DEF Receive
<1>6. ASSUME NEW p \in Procs, EmptyPoll(p) PROVE TypeOK'
  BY <1>6 DEF EmptyPoll, vars
<1>7. ASSUME NEW p \in Procs, ReceiveFails(p) PROVE TypeOK'
  BY <1>7 DEF ReceiveFails, Fault
<1>8. ASSUME NEW p \in Procs, Stop(p) PROVE TypeOK'
  BY <1>8 DEF Stop, Fault
<1>9. ASSUME NEW p \in Procs, Crash(p) PROVE TypeOK'
  BY <1>9 DEF Crash, Die, Fault
<1>10. ASSUME NEW p \in Procs, Exit(p) PROVE TypeOK'
  BY <1>10 DEF Exit, Die
<1>11. ASSUME NEW p \in Procs, Restart(p) PROVE TypeOK'
  BY <1>11 DEF Restart
<1>12. ASSUME NEW p \in Procs, NEW m \in Messages, Acquire(p, m) PROVE TypeOK'
  BY <1>12 DEF Acquire
<1>13. ASSUME NEW p \in Procs, NEW m \in Messages, Classify(p, m) PROVE TypeOK'
  BY <1>13 DEF Classify
<1>14. ASSUME NEW p \in Procs, NEW m \in Messages, IngestFails(p, m) PROVE TypeOK'
  BY <1>14 DEF IngestFails, EndTask, Fault
<1>15. ASSUME NEW p \in Procs, NEW m \in Messages, UpsertNew(p, m) PROVE TypeOK'
  BY <1>15 DEF UpsertNew
<1>16. ASSUME NEW p \in Procs, NEW m \in Messages, UpsertDuplicate(p, m) PROVE TypeOK'
  BY <1>16 DEF UpsertDuplicate, NextKey
<1>17. ASSUME NEW p \in Procs, NEW m \in Messages, Notify(p, m) PROVE TypeOK'
  <2>1. Source(p, m) \in Sources
    BY <1>17, KeyType DEF Notify, Working
  <2>2. QED
    BY <1>17, <2>1 DEF Notify
<1>18. ASSUME NEW p \in Procs, NEW m \in Messages, NotifyTimesOut(p, m) PROVE TypeOK'
  <2>1. Source(p, m) \in Sources
    BY <1>18, KeyType DEF NotifyTimesOut, Working
  <2>2. QED
    BY <1>18, <2>1 DEF NotifyTimesOut, EndTask, Fault
<1>19. ASSUME NEW p \in Procs, NEW m \in Messages, Commit(p, m) PROVE TypeOK'
  <2>1. Source(p, m) \in Sources
    BY <1>19, KeyType DEF Commit, Committable, Working
  <2>2. reports' \in Seq(Row)
    BY <1>19, <2>1 DEF Commit, InsertRow, Row
  <2>3. QED
    BY <1>19, <2>2 DEF Commit, NextKey
<1>20. ASSUME NEW p \in Procs, NEW m \in Messages, CommitAckLost(p, m) PROVE TypeOK'
  <2>1. Source(p, m) \in Sources
    BY <1>20, KeyType DEF CommitAckLost, Committable, Working
  <2>2. reports' \in Seq(Row)
    BY <1>20, <2>1 DEF CommitAckLost, InsertRow, Row
  <2>3. QED
    BY <1>20, <2>2 DEF CommitAckLost, EndTask, Fault
<1>21. ASSUME NEW p \in Procs, NEW m \in Messages, Delete(p, m) PROVE TypeOK'
  BY <1>21 DEF Delete, EndTask
<1>22. ASSUME NEW p \in Procs, NEW m \in Messages, DeleteFails(p, m) PROVE TypeOK'
  BY <1>22 DEF DeleteFails, EndTask, Fault
<1>23. CASE UNCHANGED vars
  BY <1>23 DEF vars
<1>24. QED
  BY <1>1, <1>2, <1>3, <1>4, <1>5, <1>6, <1>7, <1>8, <1>9, <1>10, <1>11,
     <1>12, <1>13, <1>14, <1>15, <1>16, <1>17, <1>18, <1>19, <1>20, <1>21,
     <1>22, <1>23 DEF Next, TaskStep

\* The index of a task stays within the keys of its message.
LEMMA IdxStep == TypeOK /\ IdxInRange /\ [Next]_vars => IdxInRange'
<1>. SUFFICES ASSUME TypeOK, IdxInRange, [Next]_vars PROVE IdxInRange'
  OBVIOUS
<1>. USE IngestAssumption
<1>. USE DEF TypeOK, IdxInRange, TaskStates, queueVars, taskVars
<1>1. ASSUME NEW m \in Messages, S3Notify(m) PROVE IdxInRange'
  BY <1>1 DEF S3Notify
<1>2. ASSUME NEW m \in Messages, Expire(m) PROVE IdxInRange'
  BY <1>2 DEF Expire, Fault
<1>3. ASSUME NEW m \in Messages, DeadLetter(m) PROVE IdxInRange'
  BY <1>3 DEF DeadLetter
<1>4. ASSUME NEW m \in Messages, Redrive(m) PROVE IdxInRange'
  BY <1>4 DEF Redrive
<1>5. ASSUME NEW p \in Procs, Receive(p) PROVE IdxInRange'
  BY <1>5 DEF Receive, Quiet
<1>6. ASSUME NEW p \in Procs, EmptyPoll(p) PROVE IdxInRange'
  BY <1>6 DEF EmptyPoll, vars
<1>7. ASSUME NEW p \in Procs, ReceiveFails(p) PROVE IdxInRange'
  BY <1>7 DEF ReceiveFails, Fault
<1>8. ASSUME NEW p \in Procs, Stop(p) PROVE IdxInRange'
  BY <1>8 DEF Stop, Fault
<1>9. ASSUME NEW p \in Procs, Crash(p) PROVE IdxInRange'
  BY <1>9 DEF Crash, Die, Fault
<1>10. ASSUME NEW p \in Procs, Exit(p) PROVE IdxInRange'
  BY <1>10 DEF Exit, Die
<1>11. ASSUME NEW p \in Procs, Restart(p) PROVE IdxInRange'
  BY <1>11 DEF Restart
<1>12. ASSUME NEW p \in Procs, NEW m \in Messages, Acquire(p, m) PROVE IdxInRange'
  BY <1>12 DEF Acquire
<1>13. ASSUME NEW p \in Procs, NEW m \in Messages, Classify(p, m) PROVE IdxInRange'
  BY <1>13 DEF Classify
<1>14. ASSUME NEW p \in Procs, NEW m \in Messages, IngestFails(p, m) PROVE IdxInRange'
  BY <1>14 DEF IngestFails, EndTask, Fault
<1>15. ASSUME NEW p \in Procs, NEW m \in Messages, UpsertNew(p, m) PROVE IdxInRange'
  BY <1>15 DEF UpsertNew
<1>16. ASSUME NEW p \in Procs, NEW m \in Messages, UpsertDuplicate(p, m) PROVE IdxInRange'
  BY <1>16 DEF UpsertDuplicate, NextKey
<1>17. ASSUME NEW p \in Procs, NEW m \in Messages, Notify(p, m) PROVE IdxInRange'
  BY <1>17 DEF Notify
<1>18. ASSUME NEW p \in Procs, NEW m \in Messages, NotifyTimesOut(p, m) PROVE IdxInRange'
  BY <1>18 DEF NotifyTimesOut, EndTask, Fault
<1>19. ASSUME NEW p \in Procs, NEW m \in Messages, Commit(p, m) PROVE IdxInRange'
  BY <1>19 DEF Commit, NextKey
<1>20. ASSUME NEW p \in Procs, NEW m \in Messages, CommitAckLost(p, m) PROVE IdxInRange'
  BY <1>20 DEF CommitAckLost, EndTask, Fault
<1>21. ASSUME NEW p \in Procs, NEW m \in Messages, Delete(p, m) PROVE IdxInRange'
  BY <1>21 DEF Delete, EndTask
<1>22. ASSUME NEW p \in Procs, NEW m \in Messages, DeleteFails(p, m) PROVE IdxInRange'
  BY <1>22 DEF DeleteFails, EndTask, Fault
<1>23. CASE UNCHANGED vars
  BY <1>23 DEF vars
<1>24. QED
  BY <1>1, <1>2, <1>3, <1>4, <1>5, <1>6, <1>7, <1>8, <1>9, <1>10, <1>11,
     <1>12, <1>13, <1>14, <1>15, <1>16, <1>17, <1>18, <1>19, <1>20, <1>21,
     <1>22, <1>23 DEF Next, TaskStep

\* Every reachable state of the pipeline is well typed, with every task at a
\* key of its message.
THEOREM TypeCorrect == Spec => [](TypeOK /\ IdxInRange)
<1>1. Init => TypeOK /\ IdxInRange
  BY IngestAssumption
     DEF Init, TypeOK, IdxInRange, ProcStates, MsgStates, TaskStates, Urgencies, Row
<1>2. TypeOK /\ IdxInRange /\ [Next]_vars => (TypeOK /\ IdxInRange)'
  BY TypeStep, IdxStep
<1>3. QED
  BY <1>1, <1>2, PTL DEF Spec

-----------------------------------------------------------------------------
(* What a step can do to the tasks, the tables and the queue. *)

\* A transaction that is open after a step was open before, on the same key, or
\* the step is its INSERT.
LEMMA OpenStep ==
  ASSUME TypeOK, [Next]_vars
  PROVE  \A q \in Procs, n \in Messages : pc'[q][n] \in OpenTx =>
           /\ idx'[q][n] = idx[q][n]
           /\ pc[q][n] \in OpenTx \/ UpsertNew(q, n)
<1>. DEFINE X == \A q \in Procs, n \in Messages : pc'[q][n] \in OpenTx =>
           /\ idx'[q][n] = idx[q][n]
           /\ pc[q][n] \in OpenTx \/ UpsertNew(q, n)
<1>. USE DEF TypeOK, OpenTx, queueVars, taskVars, dbVars, budget
<1>1. ASSUME NEW m \in Messages, S3Notify(m) PROVE X
  BY <1>1 DEF S3Notify
<1>2. ASSUME NEW m \in Messages, Expire(m) PROVE X
  BY <1>2 DEF Expire, Fault
<1>3. ASSUME NEW m \in Messages, DeadLetter(m) PROVE X
  BY <1>3 DEF DeadLetter
<1>4. ASSUME NEW m \in Messages, Redrive(m) PROVE X
  BY <1>4 DEF Redrive
<1>5. ASSUME NEW p \in Procs, Receive(p) PROVE X
  BY <1>5 DEF Receive
<1>6. ASSUME NEW p \in Procs, EmptyPoll(p) PROVE X
  BY <1>6 DEF EmptyPoll, vars
<1>7. ASSUME NEW p \in Procs, ReceiveFails(p) PROVE X
  BY <1>7 DEF ReceiveFails, Fault
<1>8. ASSUME NEW p \in Procs, Stop(p) PROVE X
  BY <1>8 DEF Stop, Fault
<1>9. ASSUME NEW p \in Procs, Crash(p) PROVE X
  BY <1>9 DEF Crash, Die, Fault
<1>10. ASSUME NEW p \in Procs, Exit(p) PROVE X
  BY <1>10 DEF Exit, Die
<1>11. ASSUME NEW p \in Procs, Restart(p) PROVE X
  BY <1>11 DEF Restart
<1>12. ASSUME NEW p \in Procs, NEW m \in Messages, Acquire(p, m) PROVE X
  BY <1>12 DEF Acquire
<1>13. ASSUME NEW p \in Procs, NEW m \in Messages, Classify(p, m) PROVE X
  BY <1>13 DEF Classify
<1>14. ASSUME NEW p \in Procs, NEW m \in Messages, IngestFails(p, m) PROVE X
  BY <1>14 DEF IngestFails, EndTask, Fault
<1>15. ASSUME NEW p \in Procs, NEW m \in Messages, UpsertNew(p, m) PROVE X
  BY <1>15 DEF UpsertNew
<1>16. ASSUME NEW p \in Procs, NEW m \in Messages, UpsertDuplicate(p, m) PROVE X
  BY <1>16 DEF UpsertDuplicate, NextKey
<1>17. ASSUME NEW p \in Procs, NEW m \in Messages, Notify(p, m) PROVE X
  BY <1>17 DEF Notify
<1>18. ASSUME NEW p \in Procs, NEW m \in Messages, NotifyTimesOut(p, m) PROVE X
  BY <1>18 DEF NotifyTimesOut, EndTask, Fault
<1>19. ASSUME NEW p \in Procs, NEW m \in Messages, Commit(p, m) PROVE X
  BY <1>19 DEF Commit, NextKey
<1>20. ASSUME NEW p \in Procs, NEW m \in Messages, CommitAckLost(p, m) PROVE X
  BY <1>20 DEF CommitAckLost, EndTask, Fault
<1>21. ASSUME NEW p \in Procs, NEW m \in Messages, Delete(p, m) PROVE X
  BY <1>21 DEF Delete, EndTask
<1>22. ASSUME NEW p \in Procs, NEW m \in Messages, DeleteFails(p, m) PROVE X
  BY <1>22 DEF DeleteFails, EndTask, Fault
<1>23. CASE UNCHANGED vars
  BY <1>23 DEF vars
<1>24. QED
  BY <1>1, <1>2, <1>3, <1>4, <1>5, <1>6, <1>7, <1>8, <1>9, <1>10, <1>11,
     <1>12, <1>13, <1>14, <1>15, <1>16, <1>17, <1>18, <1>19, <1>20, <1>21,
     <1>22, <1>23 DEF Next, TaskStep

\* A task past its alert was past it before, or the step is the alert.
LEMMA AlertedStep ==
  ASSUME TypeOK, [Next]_vars
  PROVE  \A q \in Procs, n \in Messages : pc'[q][n] = "alerted" =>
           pc[q][n] = "alerted" \/ Notify(q, n)
<1>. DEFINE X == \A q \in Procs, n \in Messages : pc'[q][n] = "alerted" =>
           pc[q][n] = "alerted" \/ Notify(q, n)
<1>. USE DEF TypeOK, queueVars, taskVars, dbVars, budget
<1>1. ASSUME NEW m \in Messages, S3Notify(m) PROVE X
  BY <1>1 DEF S3Notify
<1>2. ASSUME NEW m \in Messages, Expire(m) PROVE X
  BY <1>2 DEF Expire, Fault
<1>3. ASSUME NEW m \in Messages, DeadLetter(m) PROVE X
  BY <1>3 DEF DeadLetter
<1>4. ASSUME NEW m \in Messages, Redrive(m) PROVE X
  BY <1>4 DEF Redrive
<1>5. ASSUME NEW p \in Procs, Receive(p) PROVE X
  BY <1>5 DEF Receive
<1>6. ASSUME NEW p \in Procs, EmptyPoll(p) PROVE X
  BY <1>6 DEF EmptyPoll, vars
<1>7. ASSUME NEW p \in Procs, ReceiveFails(p) PROVE X
  BY <1>7 DEF ReceiveFails, Fault
<1>8. ASSUME NEW p \in Procs, Stop(p) PROVE X
  BY <1>8 DEF Stop, Fault
<1>9. ASSUME NEW p \in Procs, Crash(p) PROVE X
  BY <1>9 DEF Crash, Die, Fault
<1>10. ASSUME NEW p \in Procs, Exit(p) PROVE X
  BY <1>10 DEF Exit, Die
<1>11. ASSUME NEW p \in Procs, Restart(p) PROVE X
  BY <1>11 DEF Restart
<1>12. ASSUME NEW p \in Procs, NEW m \in Messages, Acquire(p, m) PROVE X
  BY <1>12 DEF Acquire
<1>13. ASSUME NEW p \in Procs, NEW m \in Messages, Classify(p, m) PROVE X
  BY <1>13 DEF Classify
<1>14. ASSUME NEW p \in Procs, NEW m \in Messages, IngestFails(p, m) PROVE X
  BY <1>14 DEF IngestFails, EndTask, Fault
<1>15. ASSUME NEW p \in Procs, NEW m \in Messages, UpsertNew(p, m) PROVE X
  BY <1>15 DEF UpsertNew
<1>16. ASSUME NEW p \in Procs, NEW m \in Messages, UpsertDuplicate(p, m) PROVE X
  BY <1>16 DEF UpsertDuplicate, NextKey
<1>17. ASSUME NEW p \in Procs, NEW m \in Messages, Notify(p, m) PROVE X
  BY <1>17 DEF Notify
<1>18. ASSUME NEW p \in Procs, NEW m \in Messages, NotifyTimesOut(p, m) PROVE X
  BY <1>18 DEF NotifyTimesOut, EndTask, Fault
<1>19. ASSUME NEW p \in Procs, NEW m \in Messages, Commit(p, m) PROVE X
  BY <1>19 DEF Commit, NextKey
<1>20. ASSUME NEW p \in Procs, NEW m \in Messages, CommitAckLost(p, m) PROVE X
  BY <1>20 DEF CommitAckLost, EndTask, Fault
<1>21. ASSUME NEW p \in Procs, NEW m \in Messages, Delete(p, m) PROVE X
  BY <1>21 DEF Delete, EndTask
<1>22. ASSUME NEW p \in Procs, NEW m \in Messages, DeleteFails(p, m) PROVE X
  BY <1>22 DEF DeleteFails, EndTask, Fault
<1>23. CASE UNCHANGED vars
  BY <1>23 DEF vars
<1>24. QED
  BY <1>1, <1>2, <1>3, <1>4, <1>5, <1>6, <1>7, <1>8, <1>9, <1>10, <1>11,
     <1>12, <1>13, <1>14, <1>15, <1>16, <1>17, <1>18, <1>19, <1>20, <1>21,
     <1>22, <1>23 DEF Next, TaskStep

\* A task passes a key only by a duplicate or a commit, or has no key at all.
LEMMA PassedStep ==
  ASSUME TypeOK, [Next]_vars
  PROVE  \A q \in Procs, n \in Messages :
           \/ /\ idx'[q][n] = idx[q][n]
              /\ pc'[q][n] = "acking" => pc[q][n] = "acking"
           \/ idx'[q][n] = 1 /\ pc'[q][n] # "acking"
           \/ UpsertDuplicate(q, n) \/ Commit(q, n)
           \/ Acquire(q, n) /\ KeysOf[n] = <<>>
<1>. DEFINE X == \A q \in Procs, n \in Messages :
           \/ /\ idx'[q][n] = idx[q][n]
              /\ pc'[q][n] = "acking" => pc[q][n] = "acking"
           \/ idx'[q][n] = 1 /\ pc'[q][n] # "acking"
           \/ UpsertDuplicate(q, n) \/ Commit(q, n)
           \/ Acquire(q, n) /\ KeysOf[n] = <<>>
<1>. USE DEF TypeOK, queueVars, taskVars, dbVars, budget
<1>1. ASSUME NEW m \in Messages, S3Notify(m) PROVE X
  BY <1>1 DEF S3Notify
<1>2. ASSUME NEW m \in Messages, Expire(m) PROVE X
  BY <1>2 DEF Expire, Fault
<1>3. ASSUME NEW m \in Messages, DeadLetter(m) PROVE X
  BY <1>3 DEF DeadLetter
<1>4. ASSUME NEW m \in Messages, Redrive(m) PROVE X
  BY <1>4 DEF Redrive
<1>5. ASSUME NEW p \in Procs, Receive(p) PROVE X
  BY <1>5 DEF Receive
<1>6. ASSUME NEW p \in Procs, EmptyPoll(p) PROVE X
  BY <1>6 DEF EmptyPoll, vars
<1>7. ASSUME NEW p \in Procs, ReceiveFails(p) PROVE X
  BY <1>7 DEF ReceiveFails, Fault
<1>8. ASSUME NEW p \in Procs, Stop(p) PROVE X
  BY <1>8 DEF Stop, Fault
<1>9. ASSUME NEW p \in Procs, Crash(p) PROVE X
  BY <1>9 DEF Crash, Die, Fault
<1>10. ASSUME NEW p \in Procs, Exit(p) PROVE X
  BY <1>10 DEF Exit, Die
<1>11. ASSUME NEW p \in Procs, Restart(p) PROVE X
  BY <1>11 DEF Restart
<1>12. ASSUME NEW p \in Procs, NEW m \in Messages, Acquire(p, m) PROVE X
  BY <1>12 DEF Acquire
<1>13. ASSUME NEW p \in Procs, NEW m \in Messages, Classify(p, m) PROVE X
  BY <1>13 DEF Classify
<1>14. ASSUME NEW p \in Procs, NEW m \in Messages, IngestFails(p, m) PROVE X
  BY <1>14 DEF IngestFails, EndTask, Fault
<1>15. ASSUME NEW p \in Procs, NEW m \in Messages, UpsertNew(p, m) PROVE X
  BY <1>15 DEF UpsertNew
<1>16. ASSUME NEW p \in Procs, NEW m \in Messages, UpsertDuplicate(p, m) PROVE X
  BY <1>16 DEF UpsertDuplicate, NextKey
<1>17. ASSUME NEW p \in Procs, NEW m \in Messages, Notify(p, m) PROVE X
  BY <1>17 DEF Notify
<1>18. ASSUME NEW p \in Procs, NEW m \in Messages, NotifyTimesOut(p, m) PROVE X
  BY <1>18 DEF NotifyTimesOut, EndTask, Fault
<1>19. ASSUME NEW p \in Procs, NEW m \in Messages, Commit(p, m) PROVE X
  BY <1>19 DEF Commit, NextKey
<1>20. ASSUME NEW p \in Procs, NEW m \in Messages, CommitAckLost(p, m) PROVE X
  BY <1>20 DEF CommitAckLost, EndTask, Fault
<1>21. ASSUME NEW p \in Procs, NEW m \in Messages, Delete(p, m) PROVE X
  BY <1>21 DEF Delete, EndTask
<1>22. ASSUME NEW p \in Procs, NEW m \in Messages, DeleteFails(p, m) PROVE X
  BY <1>22 DEF DeleteFails, EndTask, Fault
<1>23. CASE UNCHANGED vars
  BY <1>23 DEF vars
<1>24. QED
  BY <1>1, <1>2, <1>3, <1>4, <1>5, <1>6, <1>7, <1>8, <1>9, <1>10, <1>11,
     <1>12, <1>13, <1>14, <1>15, <1>16, <1>17, <1>18, <1>19, <1>20, <1>21,
     <1>22, <1>23 DEF Next, TaskStep

\* The table grows only by the commit of an open transaction, which closes it.
LEMMA ReportsStep ==
  ASSUME TypeOK, [Next]_vars
  PROVE  \/ reports' = reports
         \/ \E q \in Procs, n \in Messages :
              Committable(q, n) /\ InsertRow(q, n) /\ pc'[q][n] \notin OpenTx
<1>. DEFINE X == \/ reports' = reports
         \/ \E q \in Procs, n \in Messages :
              Committable(q, n) /\ InsertRow(q, n) /\ pc'[q][n] \notin OpenTx
<1>. USE DEF TypeOK, OpenTx, queueVars, taskVars, dbVars, budget
<1>1. ASSUME NEW m \in Messages, S3Notify(m) PROVE X
  BY <1>1 DEF S3Notify
<1>2. ASSUME NEW m \in Messages, Expire(m) PROVE X
  BY <1>2 DEF Expire, Fault
<1>3. ASSUME NEW m \in Messages, DeadLetter(m) PROVE X
  BY <1>3 DEF DeadLetter
<1>4. ASSUME NEW m \in Messages, Redrive(m) PROVE X
  BY <1>4 DEF Redrive
<1>5. ASSUME NEW p \in Procs, Receive(p) PROVE X
  BY <1>5 DEF Receive
<1>6. ASSUME NEW p \in Procs, EmptyPoll(p) PROVE X
  BY <1>6 DEF EmptyPoll, vars
<1>7. ASSUME NEW p \in Procs, ReceiveFails(p) PROVE X
  BY <1>7 DEF ReceiveFails, Fault
<1>8. ASSUME NEW p \in Procs, Stop(p) PROVE X
  BY <1>8 DEF Stop, Fault
<1>9. ASSUME NEW p \in Procs, Crash(p) PROVE X
  BY <1>9 DEF Crash, Die, Fault
<1>10. ASSUME NEW p \in Procs, Exit(p) PROVE X
  BY <1>10 DEF Exit, Die
<1>11. ASSUME NEW p \in Procs, Restart(p) PROVE X
  BY <1>11 DEF Restart
<1>12. ASSUME NEW p \in Procs, NEW m \in Messages, Acquire(p, m) PROVE X
  BY <1>12 DEF Acquire
<1>13. ASSUME NEW p \in Procs, NEW m \in Messages, Classify(p, m) PROVE X
  BY <1>13 DEF Classify
<1>14. ASSUME NEW p \in Procs, NEW m \in Messages, IngestFails(p, m) PROVE X
  BY <1>14 DEF IngestFails, EndTask, Fault
<1>15. ASSUME NEW p \in Procs, NEW m \in Messages, UpsertNew(p, m) PROVE X
  BY <1>15 DEF UpsertNew
<1>16. ASSUME NEW p \in Procs, NEW m \in Messages, UpsertDuplicate(p, m) PROVE X
  BY <1>16 DEF UpsertDuplicate, NextKey
<1>17. ASSUME NEW p \in Procs, NEW m \in Messages, Notify(p, m) PROVE X
  BY <1>17 DEF Notify
<1>18. ASSUME NEW p \in Procs, NEW m \in Messages, NotifyTimesOut(p, m) PROVE X
  BY <1>18 DEF NotifyTimesOut, EndTask, Fault
<1>19. ASSUME NEW p \in Procs, NEW m \in Messages, Commit(p, m) PROVE X
  BY <1>19 DEF Commit, NextKey
<1>20. ASSUME NEW p \in Procs, NEW m \in Messages, CommitAckLost(p, m) PROVE X
  BY <1>20 DEF CommitAckLost, EndTask, Fault
<1>21. ASSUME NEW p \in Procs, NEW m \in Messages, Delete(p, m) PROVE X
  BY <1>21 DEF Delete, EndTask
<1>22. ASSUME NEW p \in Procs, NEW m \in Messages, DeleteFails(p, m) PROVE X
  BY <1>22 DEF DeleteFails, EndTask, Fault
<1>23. CASE UNCHANGED vars
  BY <1>23 DEF vars
<1>24. QED
  BY <1>1, <1>2, <1>3, <1>4, <1>5, <1>6, <1>7, <1>8, <1>9, <1>10, <1>11,
     <1>12, <1>13, <1>14, <1>15, <1>16, <1>17, <1>18, <1>19, <1>20, <1>21,
     <1>22, <1>23 DEF Next, TaskStep

\* An alert is sent only from a transaction that has written and not committed.
LEMMA NotifiedStep ==
  ASSUME TypeOK, [Next]_vars
  PROVE  \/ notified' = notified
         \/ \E q \in Procs, n \in Messages :
              /\ pc[q][n] = "inserted"
              /\ notified' = [notified EXCEPT ![Source(q, n)] = @ + 1]
<1>. DEFINE X == \/ notified' = notified
         \/ \E q \in Procs, n \in Messages :
              /\ pc[q][n] = "inserted"
              /\ notified' = [notified EXCEPT ![Source(q, n)] = @ + 1]
<1>. USE DEF TypeOK, queueVars, taskVars, dbVars, budget
<1>1. ASSUME NEW m \in Messages, S3Notify(m) PROVE X
  BY <1>1 DEF S3Notify
<1>2. ASSUME NEW m \in Messages, Expire(m) PROVE X
  BY <1>2 DEF Expire, Fault
<1>3. ASSUME NEW m \in Messages, DeadLetter(m) PROVE X
  BY <1>3 DEF DeadLetter
<1>4. ASSUME NEW m \in Messages, Redrive(m) PROVE X
  BY <1>4 DEF Redrive
<1>5. ASSUME NEW p \in Procs, Receive(p) PROVE X
  BY <1>5 DEF Receive
<1>6. ASSUME NEW p \in Procs, EmptyPoll(p) PROVE X
  BY <1>6 DEF EmptyPoll, vars
<1>7. ASSUME NEW p \in Procs, ReceiveFails(p) PROVE X
  BY <1>7 DEF ReceiveFails, Fault
<1>8. ASSUME NEW p \in Procs, Stop(p) PROVE X
  BY <1>8 DEF Stop, Fault
<1>9. ASSUME NEW p \in Procs, Crash(p) PROVE X
  BY <1>9 DEF Crash, Die, Fault
<1>10. ASSUME NEW p \in Procs, Exit(p) PROVE X
  BY <1>10 DEF Exit, Die
<1>11. ASSUME NEW p \in Procs, Restart(p) PROVE X
  BY <1>11 DEF Restart
<1>12. ASSUME NEW p \in Procs, NEW m \in Messages, Acquire(p, m) PROVE X
  BY <1>12 DEF Acquire
<1>13. ASSUME NEW p \in Procs, NEW m \in Messages, Classify(p, m) PROVE X
  BY <1>13 DEF Classify
<1>14. ASSUME NEW p \in Procs, NEW m \in Messages, IngestFails(p, m) PROVE X
  BY <1>14 DEF IngestFails, EndTask, Fault
<1>15. ASSUME NEW p \in Procs, NEW m \in Messages, UpsertNew(p, m) PROVE X
  BY <1>15 DEF UpsertNew
<1>16. ASSUME NEW p \in Procs, NEW m \in Messages, UpsertDuplicate(p, m) PROVE X
  BY <1>16 DEF UpsertDuplicate, NextKey
<1>17. ASSUME NEW p \in Procs, NEW m \in Messages, Notify(p, m) PROVE X
  BY <1>17 DEF Notify
<1>18. ASSUME NEW p \in Procs, NEW m \in Messages, NotifyTimesOut(p, m) PROVE X
  BY <1>18 DEF NotifyTimesOut, EndTask, Fault
<1>19. ASSUME NEW p \in Procs, NEW m \in Messages, Commit(p, m) PROVE X
  BY <1>19 DEF Commit, NextKey
<1>20. ASSUME NEW p \in Procs, NEW m \in Messages, CommitAckLost(p, m) PROVE X
  BY <1>20 DEF CommitAckLost, EndTask, Fault
<1>21. ASSUME NEW p \in Procs, NEW m \in Messages, Delete(p, m) PROVE X
  BY <1>21 DEF Delete, EndTask
<1>22. ASSUME NEW p \in Procs, NEW m \in Messages, DeleteFails(p, m) PROVE X
  BY <1>22 DEF DeleteFails, EndTask, Fault
<1>23. CASE UNCHANGED vars
  BY <1>23 DEF vars
<1>24. QED
  BY <1>1, <1>2, <1>3, <1>4, <1>5, <1>6, <1>7, <1>8, <1>9, <1>10, <1>11,
     <1>12, <1>13, <1>14, <1>15, <1>16, <1>17, <1>18, <1>19, <1>20, <1>21,
     <1>22, <1>23 DEF Next, TaskStep

\* A message is deleted only by a task that has passed all its keys.
LEMMA DeletedStep ==
  ASSUME TypeOK, [Next]_vars
  PROVE  \A n \in Messages : queue'[n] = "deleted" =>
           queue[n] = "deleted" \/ \E q \in Procs : pc[q][n] = "acking"
<1>. DEFINE X == \A n \in Messages : queue'[n] = "deleted" =>
           queue[n] = "deleted" \/ \E q \in Procs : pc[q][n] = "acking"
<1>. USE DEF TypeOK, queueVars, taskVars, dbVars, budget
<1>1. ASSUME NEW m \in Messages, S3Notify(m) PROVE X
  BY <1>1 DEF S3Notify
<1>2. ASSUME NEW m \in Messages, Expire(m) PROVE X
  BY <1>2 DEF Expire, Fault
<1>3. ASSUME NEW m \in Messages, DeadLetter(m) PROVE X
  BY <1>3 DEF DeadLetter
<1>4. ASSUME NEW m \in Messages, Redrive(m) PROVE X
  BY <1>4 DEF Redrive
<1>5. ASSUME NEW p \in Procs, Receive(p) PROVE X
  BY <1>5 DEF Receive
<1>6. ASSUME NEW p \in Procs, EmptyPoll(p) PROVE X
  BY <1>6 DEF EmptyPoll, vars
<1>7. ASSUME NEW p \in Procs, ReceiveFails(p) PROVE X
  BY <1>7 DEF ReceiveFails, Fault
<1>8. ASSUME NEW p \in Procs, Stop(p) PROVE X
  BY <1>8 DEF Stop, Fault
<1>9. ASSUME NEW p \in Procs, Crash(p) PROVE X
  BY <1>9 DEF Crash, Die, Fault
<1>10. ASSUME NEW p \in Procs, Exit(p) PROVE X
  BY <1>10 DEF Exit, Die
<1>11. ASSUME NEW p \in Procs, Restart(p) PROVE X
  BY <1>11 DEF Restart
<1>12. ASSUME NEW p \in Procs, NEW m \in Messages, Acquire(p, m) PROVE X
  BY <1>12 DEF Acquire
<1>13. ASSUME NEW p \in Procs, NEW m \in Messages, Classify(p, m) PROVE X
  BY <1>13 DEF Classify
<1>14. ASSUME NEW p \in Procs, NEW m \in Messages, IngestFails(p, m) PROVE X
  BY <1>14 DEF IngestFails, EndTask, Fault
<1>15. ASSUME NEW p \in Procs, NEW m \in Messages, UpsertNew(p, m) PROVE X
  BY <1>15 DEF UpsertNew
<1>16. ASSUME NEW p \in Procs, NEW m \in Messages, UpsertDuplicate(p, m) PROVE X
  BY <1>16 DEF UpsertDuplicate, NextKey
<1>17. ASSUME NEW p \in Procs, NEW m \in Messages, Notify(p, m) PROVE X
  BY <1>17 DEF Notify
<1>18. ASSUME NEW p \in Procs, NEW m \in Messages, NotifyTimesOut(p, m) PROVE X
  BY <1>18 DEF NotifyTimesOut, EndTask, Fault
<1>19. ASSUME NEW p \in Procs, NEW m \in Messages, Commit(p, m) PROVE X
  BY <1>19 DEF Commit, NextKey
<1>20. ASSUME NEW p \in Procs, NEW m \in Messages, CommitAckLost(p, m) PROVE X
  BY <1>20 DEF CommitAckLost, EndTask, Fault
<1>21. ASSUME NEW p \in Procs, NEW m \in Messages, Delete(p, m) PROVE X
  BY <1>21 DEF Delete, EndTask
<1>22. ASSUME NEW p \in Procs, NEW m \in Messages, DeleteFails(p, m) PROVE X
  BY <1>22 DEF DeleteFails, EndTask, Fault
<1>23. CASE UNCHANGED vars
  BY <1>23 DEF vars
<1>24. QED
  BY <1>1, <1>2, <1>3, <1>4, <1>5, <1>6, <1>7, <1>8, <1>9, <1>10, <1>11,
     <1>12, <1>13, <1>14, <1>15, <1>16, <1>17, <1>18, <1>19, <1>20, <1>21,
     <1>22, <1>23 DEF Next, TaskStep

-----------------------------------------------------------------------------
(* The parts of the inductive invariant. *)

\* An open transaction keeps its source_key.
LEMMA SourceStep ==
  ASSUME TypeOK, [Next]_vars, NEW p \in Procs, NEW m \in Messages,
         pc'[p][m] \in OpenTx
  PROVE  Source(p, m)' = Source(p, m)
BY OpenStep DEF Source, Key

\* A stored key stays stored, and becomes stored by a commit.
LEMMA StoredStep ==
  ASSUME TypeOK, IdxInRange, [Next]_vars, NEW s \in Sources
  PROVE  /\ Stored(s) => Stored(s)'
         /\ Stored(s)' => \/ Stored(s)
                          \/ \E q \in Procs, n \in Messages :
                               /\ Committable(q, n) /\ Source(q, n) = s
                               /\ pc'[q][n] \notin OpenTx
<1>1. CASE reports' = reports
  BY <1>1 DEF Stored
<1>2. ASSUME NEW q \in Procs, NEW n \in Messages,
             Committable(q, n), InsertRow(q, n), pc'[q][n] \notin OpenTx
      PROVE  /\ Stored(s) => Stored(s)'
             /\ Stored(s)' => Stored(s) \/ Source(q, n) = s
  <2>1. Source(q, n) \in Sources /\ verdict[q][n] \in Urgencies
    BY <1>2, KeyType DEF Committable, Working, TypeOK
  <2>. DEFINE row == [source |-> Source(q, n), urgency |-> verdict[q][n]]
  <2>2. row \in Row /\ row.source = Source(q, n)
    BY <2>1 DEF Row
  <2>3. reports \in Seq(Row) /\ reports' = Append(reports, row)
    BY <1>2 DEF InsertRow, TypeOK
  <2>. HIDE DEF row
  <2>4. /\ Len(reports') = Len(reports) + 1
        /\ \A i \in 1..Len(reports) : reports'[i] = reports[i]
        /\ reports'[Len(reports) + 1] = row
    BY <2>2, <2>3
  <2>5. Len(reports) \in Nat
    BY <2>3
  <2>6. QED
    BY <2>2, <2>4, <2>5 DEF Stored
<1>3. QED
  BY <1>1, <1>2, ReportsStep

\* The unique index keeps two open transactions off one source_key: the INSERT
\* waits while the entry is taken.
LEMMA TxOwnsKeyStep ==
  ASSUME TypeOK, IdxInRange, TxOwnsKey, [Next]_vars
  PROVE  TxOwnsKey'
<1>1. SUFFICES ASSUME NEW p \in Procs, NEW q \in Procs,
                      NEW m \in Messages, NEW n \in Messages,
                      pc'[p][m] \in OpenTx, pc'[q][n] \in OpenTx,
                      Source(p, m)' = Source(q, n)'
               PROVE  p = q /\ m = n
  BY DEF TxOwnsKey
<1>2. Source(p, m) = Source(q, n)
  BY <1>1, SourceStep
<1>3. CASE pc[p][m] \in OpenTx /\ pc[q][n] \in OpenTx
  BY <1>2, <1>3 DEF TxOwnsKey
<1>4. CASE UpsertNew(p, m) /\ pc[q][n] \in OpenTx
  BY <1>2, <1>4 DEF UpsertNew, Locked
<1>5. CASE pc[p][m] \in OpenTx /\ UpsertNew(q, n)
  BY <1>2, <1>5 DEF UpsertNew, Locked
<1>6. CASE UpsertNew(p, m) /\ UpsertNew(q, n)
  BY <1>1, <1>6 DEF UpsertNew, OpenTx, TypeOK
<1>7. QED
  BY <1>1, <1>3, <1>4, <1>5, <1>6, OpenStep

\* A commit publishes only the committing transaction's own key, so no other
\* open transaction finds its key stored.
LEMMA TxKeyIsNewStep ==
  ASSUME TypeOK, IdxInRange, TxOwnsKey, TxKeyIsNew, [Next]_vars
  PROVE  TxKeyIsNew'
<1>1. SUFFICES ASSUME NEW p \in Procs, NEW m \in Messages, pc'[p][m] \in OpenTx,
                      Stored(Source(p, m))'
               PROVE  FALSE
  BY DEF TxKeyIsNew
<1>2. Source(p, m)' = Source(p, m)
  BY <1>1, SourceStep
<1>3. pc[p][m] \in OpenTx \/ UpsertNew(p, m)
  BY <1>1, OpenStep
<1>4. ~Stored(Source(p, m))
  BY <1>3 DEF TxKeyIsNew, UpsertNew
<1>5. Source(p, m) \in Sources
  BY <1>3, KeyType DEF UpsertNew, OpenTx, Working
<1>6. Stored(Source(p, m))'
  BY <1>1
<1>7. PICK q \in Procs, n \in Messages :
        /\ Committable(q, n) /\ Source(q, n) = Source(p, m)
        /\ pc'[q][n] \notin OpenTx
  <2>1. PICK s \in Sources : s = Source(p, m)
    BY <1>5
  <2>2. Stored(s)' /\ ~Stored(s)
    BY <1>2, <1>4, <1>6, <2>1 DEF Stored
  <2>3. QED
    BY <2>1, <2>2, StoredStep
<1>8. pc[q][n] \in OpenTx
  BY <1>7 DEF Committable, OpenTx
<1>9. CASE pc[p][m] \in OpenTx
  BY <1>1, <1>7, <1>8, <1>9 DEF TxOwnsKey
<1>10. CASE UpsertNew(p, m)
  BY <1>7, <1>8, <1>10 DEF UpsertNew, Locked
<1>11. QED
  BY <1>3, <1>9, <1>10

\* Alerts are only added.
LEMMA NotifiedGrows ==
  ASSUME TypeOK, IdxInRange, [Next]_vars, NEW s \in Sources
  PROVE  /\ notified[s] \in Nat
         /\ notified'[s] >= notified[s]
BY NotifiedStep DEF TypeOK

\* A task comes past the alert only by sending it, and alerts are never undone.
LEMMA AlertedIsAnnouncedStep ==
  ASSUME TypeOK, IdxInRange, AlertedIsAnnounced, [Next]_vars
  PROVE  AlertedIsAnnounced'
<1>1. SUFFICES ASSUME NEW p \in Procs, NEW m \in Messages, pc'[p][m] = "alerted"
               PROVE  notified'[Source(p, m)'] > 0
  BY DEF AlertedIsAnnounced
<1>2. Source(p, m)' = Source(p, m)
  BY <1>1, SourceStep DEF OpenTx
<1>3. pc[p][m] = "alerted" \/ Notify(p, m)
  BY <1>1, AlertedStep
<1>4. Source(p, m) \in Sources
  BY <1>3, KeyType DEF Notify, Working
<1>5. notified[Source(p, m)] \in Nat /\ notified'[Source(p, m)] >= notified[Source(p, m)]
  BY <1>4, NotifiedGrows
<1>6. CASE pc[p][m] = "alerted"
  BY <1>2, <1>4, <1>5, <1>6, NotifiedStep DEF AlertedIsAnnounced, TypeOK
<1>7. CASE Notify(p, m)
  BY <1>2, <1>4, <1>7 DEF Notify, TypeOK
<1>8. QED
  BY <1>3, <1>6, <1>7

\* A commit appends a key that no committed row has.
LEMMA OneReportStep ==
  ASSUME TypeOK, IdxInRange, TxKeyIsNew, OneReportPerSource, [Next]_vars
  PROVE  OneReportPerSource'
<1>1. CASE reports' = reports
  BY <1>1 DEF OneReportPerSource
<1>2. ASSUME NEW q \in Procs, NEW n \in Messages, Committable(q, n), InsertRow(q, n)
      PROVE  OneReportPerSource'
  <2>. DEFINE row == [source |-> Source(q, n), urgency |-> verdict[q][n]]
  <2>1. reports \in Seq(Row) /\ row \in Row
    BY <1>2, KeyType DEF Committable, Working, TypeOK, Row
  <2>2. row.source = Source(q, n) /\ ~Stored(Source(q, n))
    BY <1>2 DEF Committable, TxKeyIsNew, OpenTx
  <2>3. reports' = Append(reports, row)
    BY <1>2 DEF InsertRow
  <2>. HIDE DEF row
  <2>4. /\ Len(reports') = Len(reports) + 1 /\ Len(reports) \in Nat
        /\ \A i \in 1..Len(reports) : reports'[i] = reports[i]
        /\ reports'[Len(reports) + 1] = row
    BY <2>1, <2>3
  <2>5. \A i \in 1..Len(reports) : reports[i].source # row.source
    BY <2>2 DEF Stored
  <2>6. QED
    BY <2>4, <2>5 DEF OneReportPerSource
<1>3. QED
  BY <1>1, <1>2, ReportsStep

\* The row a commit appends is announced already when it is urgent.
LEMMA UrgentStep ==
  ASSUME TypeOK, IdxInRange, AlertedIsAnnounced, UrgentReportsAnnounced, [Next]_vars
  PROVE  UrgentReportsAnnounced'
<1>1. ASSUME NEW i \in 1..Len(reports)
      PROVE  reports[i].source \in Sources
  <2>1. reports[i] \in Row
    BY DEF TypeOK
  <2>2. QED
    BY <2>1 DEF Row
<1>2. ASSUME NEW i \in 1..Len(reports), reports[i].urgency = "high"
      PROVE  notified'[reports[i].source] > 0
  <2>1. notified[reports[i].source] > 0
    BY <1>2 DEF UrgentReportsAnnounced
  <2>2. /\ notified[reports[i].source] \in Nat
        /\ notified'[reports[i].source] >= notified[reports[i].source]
    BY <1>1, NotifiedGrows
  <2>3. notified'[reports[i].source] \in Nat
    BY <1>1, TypeStep DEF TypeOK
  <2>4. QED
    BY <2>1, <2>2, <2>3
<1>3. CASE reports' = reports
  BY <1>2, <1>3 DEF UrgentReportsAnnounced
<1>4. ASSUME NEW q \in Procs, NEW n \in Messages, Committable(q, n), InsertRow(q, n)
      PROVE  UrgentReportsAnnounced'
  <2>. DEFINE row == [source |-> Source(q, n), urgency |-> verdict[q][n]]
  <2>1. Source(q, n) \in Sources /\ reports \in Seq(Row) /\ row \in Row
    BY <1>4, KeyType DEF Committable, Working, TypeOK, Row
  <2>2. row.urgency = "high" => notified'[row.source] > 0
    <3>1. verdict[q][n] = "high" => notified[Source(q, n)] > 0
      BY <1>4 DEF Committable, AlertedIsAnnounced
    <3>2. /\ notified[Source(q, n)] \in Nat /\ notified'[Source(q, n)] \in Nat
          /\ notified'[Source(q, n)] >= notified[Source(q, n)]
      BY <2>1, NotifiedGrows, TypeStep DEF TypeOK
    <3>3. QED
      BY <3>1, <3>2
  <2>3. reports' = Append(reports, row)
    BY <1>4 DEF InsertRow
  <2>. HIDE DEF row
  <2>4. /\ Len(reports') = Len(reports) + 1 /\ Len(reports) \in Nat
        /\ \A i \in 1..Len(reports) : reports'[i] = reports[i]
        /\ reports'[Len(reports) + 1] = row
    BY <2>1, <2>3
  <2>5. QED
    BY <1>2, <2>2, <2>4 DEF UrgentReportsAnnounced
<1>5. QED
  BY <1>3, <1>4, ReportsStep

\* A key is passed when it is found stored or when its row is committed.
LEMMA PassedIsStoredStep ==
  ASSUME TypeOK, IdxInRange, PassedIsStored, [Next]_vars
  PROVE  PassedIsStored'
<1>1. SUFFICES ASSUME NEW p \in Procs, NEW m \in Messages,
                      NEW i \in 1..Len(KeysOf[m]),
                      i < idx'[p][m] \/ pc'[p][m] = "acking"
               PROVE  Stored(SourceOf[KeysOf[m][i]])'
  BY DEF PassedIsStored
<1>. DEFINE s == SourceOf[KeysOf[m][i]]
<1>2. s \in Sources /\ KeysOf[m] \in Seq(Objects)
  BY IngestAssumption
<1>3. Stored(s) => Stored(s)'
  BY <1>2, StoredStep
<1>4. idx[p][m] \in Nat \ {0} /\ idx'[p][m] \in Nat \ {0} /\ Len(KeysOf[m]) \in Nat
  BY <1>2, TypeStep DEF TypeOK
<1>5. CASE i < idx[p][m] \/ pc[p][m] = "acking"
  BY <1>3, <1>5 DEF PassedIsStored
<1>6. CASE ~(i < idx[p][m] \/ pc[p][m] = "acking")
  <2>1. \/ UpsertDuplicate(p, m) \/ Commit(p, m)
        \/ Acquire(p, m) /\ KeysOf[m] = <<>>
    BY <1>1, <1>4, <1>6, PassedStep
  <2>2. UpsertDuplicate(p, m) \/ Commit(p, m)
    BY <2>1
  <2>3. NextKey(p, m) /\ pc[p][m] \in Working
    BY <2>2 DEF UpsertDuplicate, Commit, Committable, Working
  <2>4. i = idx[p][m]
    BY <1>1, <1>4, <1>6, <2>3, KeyType DEF NextKey, TypeOK
  <2>5. Source(p, m) = s
    BY <2>4 DEF Source, Key
  <2>6. CASE UpsertDuplicate(p, m)
    BY <1>3, <2>5, <2>6 DEF UpsertDuplicate
  <2>7. CASE Commit(p, m)
    <3>. DEFINE row == [source |-> Source(p, m), urgency |-> verdict[p][m]]
    <3>1. reports \in Seq(Row) /\ row \in Row /\ row.source = s
      BY <1>2, <2>5 DEF TypeOK, Row
    <3>2. reports' = Append(reports, row)
      BY <2>7 DEF Commit, InsertRow
    <3>. HIDE DEF row, s
    <3>3. /\ Len(reports') = Len(reports) + 1 /\ Len(reports) \in Nat
          /\ reports'[Len(reports) + 1] = row
      BY <3>1, <3>2
    <3>4. Stored(s)'
      BY <3>1, <3>3 DEF Stored
    <3>5. QED
      BY <3>4 DEF s
  <2>8. QED
    BY <2>2, <2>6, <2>7
<1>7. QED
  BY <1>5, <1>6

\* A message is deleted when all its keys are passed, and rows are not removed.
LEMMA AcknowledgedStep ==
  ASSUME TypeOK, IdxInRange, PassedIsStored, AcknowledgedIsStored, [Next]_vars
  PROVE  AcknowledgedIsStored'
<1>1. SUFFICES ASSUME NEW m \in Messages, queue'[m] = "deleted",
                      NEW i \in 1..Len(KeysOf[m])
               PROVE  Stored(SourceOf[KeysOf[m][i]])'
  BY DEF AcknowledgedIsStored
<1>2. SourceOf[KeysOf[m][i]] \in Sources
  BY IngestAssumption
<1>3. Stored(SourceOf[KeysOf[m][i]])
  BY <1>1, DeletedStep DEF AcknowledgedIsStored, PassedIsStored
<1>4. QED
  BY <1>2, <1>3, StoredStep

-----------------------------------------------------------------------------
(* Deliveries. *)

\* What the queue's own counters say is kept by every step.
LEMMA QueueShapeStep ==
  ASSUME TypeOK, QueueShape, [Next]_vars
  PROVE  QueueShape'
<1>. USE IngestAssumption DEF TypeOK, QueueShape, queueVars, taskVars, dbVars, budget
<1>1. ASSUME NEW m \in Messages, S3Notify(m) PROVE QueueShape'
  BY <1>1 DEF S3Notify
<1>2. ASSUME NEW m \in Messages, Expire(m) PROVE QueueShape'
  BY <1>2 DEF Expire, Fault
<1>3. ASSUME NEW m \in Messages, DeadLetter(m) PROVE QueueShape'
  BY <1>3 DEF DeadLetter
<1>4. ASSUME NEW m \in Messages, Redrive(m) PROVE QueueShape'
  BY <1>4 DEF Redrive
<1>5. ASSUME NEW p \in Procs, Receive(p) PROVE QueueShape'
  BY <1>5 DEF Receive
<1>6. ASSUME NEW p \in Procs, EmptyPoll(p) PROVE QueueShape'
  BY <1>6 DEF EmptyPoll, vars
<1>7. ASSUME NEW p \in Procs, ReceiveFails(p) PROVE QueueShape'
  BY <1>7 DEF ReceiveFails, Fault
<1>8. ASSUME NEW p \in Procs, Stop(p) PROVE QueueShape'
  BY <1>8 DEF Stop, Fault
<1>9. ASSUME NEW p \in Procs, Crash(p) PROVE QueueShape'
  BY <1>9 DEF Crash, Die, Fault
<1>10. ASSUME NEW p \in Procs, Exit(p) PROVE QueueShape'
  BY <1>10 DEF Exit, Die
<1>11. ASSUME NEW p \in Procs, Restart(p) PROVE QueueShape'
  BY <1>11 DEF Restart
<1>12. ASSUME NEW p \in Procs, NEW m \in Messages, Acquire(p, m) PROVE QueueShape'
  BY <1>12 DEF Acquire
<1>13. ASSUME NEW p \in Procs, NEW m \in Messages, Classify(p, m) PROVE QueueShape'
  BY <1>13 DEF Classify
<1>14. ASSUME NEW p \in Procs, NEW m \in Messages, IngestFails(p, m) PROVE QueueShape'
  BY <1>14 DEF IngestFails, EndTask, Fault
<1>15. ASSUME NEW p \in Procs, NEW m \in Messages, UpsertNew(p, m) PROVE QueueShape'
  BY <1>15 DEF UpsertNew
<1>16. ASSUME NEW p \in Procs, NEW m \in Messages, UpsertDuplicate(p, m) PROVE QueueShape'
  BY <1>16 DEF UpsertDuplicate, NextKey
<1>17. ASSUME NEW p \in Procs, NEW m \in Messages, Notify(p, m) PROVE QueueShape'
  BY <1>17 DEF Notify
<1>18. ASSUME NEW p \in Procs, NEW m \in Messages, NotifyTimesOut(p, m) PROVE QueueShape'
  BY <1>18 DEF NotifyTimesOut, EndTask, Fault
<1>19. ASSUME NEW p \in Procs, NEW m \in Messages, Commit(p, m) PROVE QueueShape'
  BY <1>19 DEF Commit, NextKey
<1>20. ASSUME NEW p \in Procs, NEW m \in Messages, CommitAckLost(p, m) PROVE QueueShape'
  BY <1>20 DEF CommitAckLost, EndTask, Fault
<1>21. ASSUME NEW p \in Procs, NEW m \in Messages, Delete(p, m) PROVE QueueShape'
  BY <1>21 DEF Delete, EndTask
<1>22. ASSUME NEW p \in Procs, NEW m \in Messages, DeleteFails(p, m) PROVE QueueShape'
  BY <1>22 DEF DeleteFails, EndTask, Fault
<1>23. CASE UNCHANGED vars
  BY <1>23 DEF vars
<1>24. QED
  BY <1>1, <1>2, <1>3, <1>4, <1>5, <1>6, <1>7, <1>8, <1>9, <1>10, <1>11,
     <1>12, <1>13, <1>14, <1>15, <1>16, <1>17, <1>18, <1>19, <1>20, <1>21,
     <1>22, <1>23 DEF Next, TaskStep

\* A delivery of a sound message that ends without deleting it costs a fault:
\* the expiry under a live task, or what ended the task.
LEMMA DeliveriesStep ==
  ASSUME TypeOK, IdxInRange, QueueShape, DeliveriesAccounted, [Next]_vars
  PROVE  DeliveriesAccounted'
<1>. USE IngestAssumption DEF TypeOK, QueueShape, DeliveriesAccounted, Pending, queueVars, taskVars, dbVars, budget
<1>1. ASSUME NEW m \in Messages, S3Notify(m) PROVE DeliveriesAccounted'
  BY <1>1 DEF S3Notify
<1>2. ASSUME NEW m \in Messages, Expire(m) PROVE DeliveriesAccounted'
  BY <1>2 DEF Expire, Fault
<1>3. ASSUME NEW m \in Messages, DeadLetter(m) PROVE DeliveriesAccounted'
  BY <1>3 DEF DeadLetter
<1>4. ASSUME NEW m \in Messages, Redrive(m) PROVE DeliveriesAccounted'
  BY <1>4 DEF Redrive
<1>5. ASSUME NEW p \in Procs, Receive(p) PROVE DeliveriesAccounted'
  <2>1. PICK batch \in SUBSET {n \in Messages : queue[n] = "visible" /\ receives[n] < MaxReceive} :
          /\ queue'    = [n \in Messages |-> IF n \in batch THEN "inflight" ELSE queue[n]]
          /\ receives' = [n \in Messages |-> IF n \in batch THEN receives[n] + 1 ELSE receives[n]]
          /\ holder'   = [n \in Messages |-> IF n \in batch THEN p ELSE holder[n]]
          /\ pc'       = [pc EXCEPT ![p] = [n \in Messages |-> IF n \in batch THEN "waiting" ELSE "idle"]]
    BY <1>5 DEF Receive
  <2>2. ASSUME NEW n \in batch, Sound(n)
        PROVE  receives'[n] <= faults' + (IF Pending(n)' THEN 1 ELSE 0)
    <3>1. receives[n] <= faults /\ receives'[n] = receives[n] + 1
      BY <2>1, <2>2
    <3>2. Pending(n)' /\ faults' = faults
      BY <1>5, <2>1, <2>2 DEF Receive
    <3>3. QED
      BY <3>1, <3>2
  <2>3. ASSUME NEW n \in Messages \ batch, Sound(n), queue[n] \in {"visible", "inflight", "dead"}
        PROVE  receives'[n] <= faults' + (IF Pending(n)' THEN 1 ELSE 0)
    <3>1. receives'[n] = receives[n] /\ queue'[n] = queue[n] /\ holder'[n] = holder[n]
      BY <2>1, <2>3
    <3>2. faults' = faults /\ proc' = proc
      BY <1>5 DEF Receive
    <3>3. queue[n] = "inflight" => pc'[holder[n]][n] = pc[holder[n]][n]
      BY <1>5, <2>1, <2>3 DEF Receive, Quiet
    <3>4. QED
      BY <2>3, <3>1, <3>2, <3>3
  <2>4. QED
    BY <2>1, <2>2, <2>3
<1>6. ASSUME NEW p \in Procs, EmptyPoll(p) PROVE DeliveriesAccounted'
  BY <1>6 DEF EmptyPoll, vars
<1>7. ASSUME NEW p \in Procs, ReceiveFails(p) PROVE DeliveriesAccounted'
  BY <1>7 DEF ReceiveFails, Fault
<1>8. ASSUME NEW p \in Procs, Stop(p) PROVE DeliveriesAccounted'
  BY <1>8 DEF Stop, Fault
<1>9. ASSUME NEW p \in Procs, Crash(p) PROVE DeliveriesAccounted'
  BY <1>9 DEF Crash, Die, Fault
<1>10. ASSUME NEW p \in Procs, Exit(p) PROVE DeliveriesAccounted'
  <2>1. SUFFICES ASSUME NEW n \in Messages, Sound(n), queue[n] \in {"visible", "inflight", "dead"}
                 PROVE  receives[n] <= faults + (IF Pending(n)' THEN 1 ELSE 0)
    BY <1>10 DEF Exit, Die
  <2>2. CASE queue[n] = "inflight" /\ holder[n] = p
    BY <1>10, <2>1, <2>2 DEF Exit, Die, Quiet
  <2>3. CASE ~(queue[n] = "inflight" /\ holder[n] = p)
    BY <1>10, <2>1, <2>3 DEF Exit, Die
  <2>4. QED
    BY <2>2, <2>3
<1>11. ASSUME NEW p \in Procs, Restart(p) PROVE DeliveriesAccounted'
  BY <1>11 DEF Restart
<1>12. ASSUME NEW p \in Procs, NEW m \in Messages, Acquire(p, m) PROVE DeliveriesAccounted'
  BY <1>12 DEF Acquire
<1>13. ASSUME NEW p \in Procs, NEW m \in Messages, Classify(p, m) PROVE DeliveriesAccounted'
  BY <1>13 DEF Classify
<1>14. ASSUME NEW p \in Procs, NEW m \in Messages, IngestFails(p, m) PROVE DeliveriesAccounted'
  <2>1. Sound(m) => Key(p, m) \notin Broken
    BY <1>14, KeyType DEF IngestFails, Working, Sound, Key
  <2>2. QED
    BY <1>14, <2>1 DEF IngestFails, EndTask, Fault
<1>15. ASSUME NEW p \in Procs, NEW m \in Messages, UpsertNew(p, m) PROVE DeliveriesAccounted'
  BY <1>15 DEF UpsertNew
<1>16. ASSUME NEW p \in Procs, NEW m \in Messages, UpsertDuplicate(p, m) PROVE DeliveriesAccounted'
  BY <1>16 DEF UpsertDuplicate, NextKey
<1>17. ASSUME NEW p \in Procs, NEW m \in Messages, Notify(p, m) PROVE DeliveriesAccounted'
  BY <1>17 DEF Notify
<1>18. ASSUME NEW p \in Procs, NEW m \in Messages, NotifyTimesOut(p, m) PROVE DeliveriesAccounted'
  BY <1>18 DEF NotifyTimesOut, EndTask, Fault
<1>19. ASSUME NEW p \in Procs, NEW m \in Messages, Commit(p, m) PROVE DeliveriesAccounted'
  BY <1>19 DEF Commit, NextKey
<1>20. ASSUME NEW p \in Procs, NEW m \in Messages, CommitAckLost(p, m) PROVE DeliveriesAccounted'
  BY <1>20 DEF CommitAckLost, EndTask, Fault
<1>21. ASSUME NEW p \in Procs, NEW m \in Messages, Delete(p, m) PROVE DeliveriesAccounted'
  BY <1>21 DEF Delete, EndTask
<1>22. ASSUME NEW p \in Procs, NEW m \in Messages, DeleteFails(p, m) PROVE DeliveriesAccounted'
  BY <1>22 DEF DeleteFails, EndTask, Fault
<1>23. CASE UNCHANGED vars
  BY <1>23 DEF vars
<1>24. QED
  BY <1>1, <1>2, <1>3, <1>4, <1>5, <1>6, <1>7, <1>8, <1>9, <1>10, <1>11,
     <1>12, <1>13, <1>14, <1>15, <1>16, <1>17, <1>18, <1>19, <1>20, <1>21,
     <1>22, <1>23 DEF Next, TaskStep

-----------------------------------------------------------------------------
(* The theorems. *)

\* The first state satisfies the inductive invariant.
LEMMA IInvInit == Init => IInv
<1>. SUFFICES ASSUME Init PROVE IInv
  OBVIOUS
<1>. USE IngestAssumption DEF Init
<1>1. TypeOK /\ IdxInRange
  BY DEF TypeOK, IdxInRange, ProcStates, MsgStates, TaskStates, Urgencies, Row
<1>2. TxOwnsKey /\ TxKeyIsNew /\ AlertedIsAnnounced
  BY DEF TxOwnsKey, TxKeyIsNew, AlertedIsAnnounced, OpenTx
<1>3. PassedIsStored
  BY DEF PassedIsStored
<1>4. QueueShape /\ DeliveriesAccounted
  BY DEF QueueShape, DeliveriesAccounted
<1>5. OneReportPerSource /\ UrgentReportsAnnounced /\ AcknowledgedIsStored
  BY DEF OneReportPerSource, UrgentReportsAnnounced, AcknowledgedIsStored
<1>6. QED
  BY <1>1, <1>2, <1>3, <1>4, <1>5 DEF IInv

\* Every step preserves the inductive invariant.
LEMMA IInvStep == IInv /\ [Next]_vars => IInv'
BY TypeStep, IdxStep, TxOwnsKeyStep, TxKeyIsNewStep, AlertedIsAnnouncedStep,
   OneReportStep, UrgentStep, PassedIsStoredStep, AcknowledgedStep,
   QueueShapeStep, DeliveriesStep DEF IInv

\* The inductive invariant holds in every reachable state.
THEOREM InvariantHolds == Spec => []IInv
BY IInvInit, IInvStep, PTL DEF Spec

\* However often objects are delivered, and to however many workers, no
\* source_key has two committed reports.
THEOREM NoDoubleRegistration == Spec => []OneReportPerSource
<1>1. IInv => OneReportPerSource
  BY DEF IInv
<1>2. QED
  BY <1>1, InvariantHolds, PTL

\* No urgent report is in the database without its alert at Slack.
THEOREM NoLostAlert == Spec => []UrgentReportsAnnounced
<1>1. IInv => UrgentReportsAnnounced
  BY DEF IInv
<1>2. QED
  BY <1>1, InvariantHolds, PTL

\* No deleted message names an object without a committed report.
THEOREM NoLostMessage == Spec => []AcknowledgedIsStored
<1>1. IInv => AcknowledgedIsStored
  BY DEF IInv
<1>2. QED
  BY <1>1, InvariantHolds, PTL

\* A sound message in the dead letter queue has met MaxReceive faults: a dead
\* one has used its deliveries, and none of them is still at work.
THEOREM DeadLettersArePaid == Spec => []DeadLetteredOnlyAfterFaults
<1>1. ASSUME IInv PROVE DeadLetteredOnlyAfterFaults
  <2>1. SUFFICES ASSUME NEW m \in Messages, queue[m] = "dead", Sound(m)
                 PROVE  faults >= MaxReceive
    BY DEF DeadLetteredOnlyAfterFaults, Sound
  <2>2. receives[m] = MaxReceive /\ ~Pending(m)
    BY <1>1, <2>1 DEF IInv, QueueShape, Pending
  <2>3. receives[m] <= faults + (IF Pending(m) THEN 1 ELSE 0)
    BY <1>1, <2>1 DEF IInv, DeliveriesAccounted
  <2>4. QED
    BY <1>1, <2>2, <2>3, IngestAssumption DEF IInv, TypeOK
<1>2. QED
  BY <1>1, InvariantHolds, PTL

\* A stored key is not announced again: an alert belongs to an open transaction,
\* and the key of an open transaction is not stored.
THEOREM StoredIsQuiet == Spec => NoAlertAfterCommit
<1>1. ASSUME IInv, [Next]_vars
      PROVE  [\A s \in Sources : Stored(s) => notified'[s] = notified[s]]_vars
  <2>1. SUFFICES ASSUME NEW s \in Sources, Stored(s)
                 PROVE  notified'[s] = notified[s]
    OBVIOUS
  <2>2. CASE notified' = notified
    BY <2>2
  <2>3. ASSUME NEW p \in Procs, NEW m \in Messages, pc[p][m] = "inserted",
               notified' = [notified EXCEPT ![Source(p, m)] = @ + 1]
        PROVE  notified'[s] = notified[s]
    <3>1. Source(p, m) # s
      BY <1>1, <2>1, <2>3 DEF IInv, TxKeyIsNew, OpenTx
    <3>2. QED
      BY <1>1, <2>3, <3>1 DEF IInv, TypeOK
  <2>4. QED
    BY <1>1, <2>2, <2>3, NotifiedStep DEF IInv
<1>2. QED
  BY <1>1, InvariantHolds, PTL DEF Spec, NoAlertAfterCommit

-----------------------------------------------------------------------------
(* Refinement: every step of the pipeline is a step of IngestContract, or one *)
(* the contract does not see.                                                *)

\* The contract sees the move of one message in the queue as the move of its
\* status.
LEMMA StatusMoves ==
  ASSUME TypeOK, NEW m \in Messages, NEW x \in MsgStates,
         queue' = [queue EXCEPT ![m] = x]
  PROVE  Status' = [Status EXCEPT ![m] =
                      CASE x = "unsent"  -> "unsent"
                        [] x = "deleted" -> "acked"
                        [] x = "dead"    -> "parked"
                        [] OTHER         -> "offered"]
BY DEF Status, TypeOK

\* Deliveries and expiries move a message only within "offered".
LEMMA StatusStays ==
  ASSUME TypeOK, queue' \in [Messages -> MsgStates],
         \A m \in Messages : queue'[m] # queue[m] =>
           {queue[m], queue'[m]} \subseteq {"visible", "inflight"}
  PROVE  Status' = Status
<1>1. ASSUME NEW m \in Messages PROVE Status'[m] = Status[m]
  <2>1. CASE queue'[m] = queue[m]
    BY <2>1 DEF Status
  <2>2. CASE queue'[m] # queue[m]
    <3>1. queue[m] \in {"visible", "inflight"} /\ queue'[m] \in {"visible", "inflight"}
      BY <2>2
    <3>2. QED
      BY <3>1 DEF Status
  <2>3. QED
    BY <2>1, <2>2
<1>2. QED
  BY <1>1 DEF Status

\* The four moves of a message in the queue are the contract's four.
LEMMA QueueMoves ==
  ASSUME IInv, NEW m \in Messages
  PROVE  /\ S3Notify(m)   => Contract!Offer(m)
         /\ DeadLetter(m) => Contract!Park(m)
         /\ Redrive(m)    => Contract!Retry(m)
<1>. USE DEF dbVars, MsgStates, Contract!Move
<1>0. TypeOK
  BY DEF IInv
<1>1. ASSUME S3Notify(m) PROVE Contract!Offer(m)
  BY <1>0, <1>1, StatusMoves DEF S3Notify, Contract!Offer, Status
<1>2. ASSUME DeadLetter(m) PROVE Contract!Park(m)
  BY <1>0, <1>2, StatusMoves DEF DeadLetter, Contract!Park, Status
<1>3. ASSUME Redrive(m) PROVE Contract!Retry(m)
  BY <1>0, <1>3, StatusMoves DEF Redrive, Contract!Retry, Status
<1>4. QED
  BY <1>1, <1>2, <1>3

\* A deletion the queue takes is the contract's acknowledgement: the task has
\* passed every key.  One it ignores changes nothing the contract sees.
LEMMA DeleteAcknowledges ==
  ASSUME IInv, NEW p \in Procs, NEW m \in Messages, Delete(p, m)
  PROVE  Contract!Acknowledge(m) \/ UNCHANGED Contract!vars
<1>1. TypeOK /\ KeysOf[m] \in Seq(Objects)
  BY IngestAssumption DEF IInv
<1>2. UNCHANGED <<reports, notified>>
  BY DEF Delete, dbVars
<1>3. CASE queue' = queue
  BY <1>2, <1>3 DEF Contract!vars, Status
<1>4. CASE queue' # queue
  <2>1. queue[m] \in {"visible", "inflight"} /\ queue' = [queue EXCEPT ![m] = "deleted"]
    BY <1>1, <1>4 DEF Delete, TypeOK
  <2>2. Status[m] = "offered" /\ Status' = [Status EXCEPT ![m] = "acked"]
    BY <1>1, <2>1, StatusMoves DEF Status, MsgStates
  <2>3. ASSUME NEW s \in SourcesOf[m] PROVE Contract!Registered(s)
    <3>1. PICK i \in 1..Len(KeysOf[m]) : s = SourceOf[KeysOf[m][i]]
      BY DEF SourcesOf
    <3>2. Stored(s)
      BY <3>1 DEF IInv, PassedIsStored, Delete
    <3>3. QED
      BY <3>2 DEF Stored, Contract!Registered
  <2>4. QED
    BY <1>2, <2>2, <2>3 DEF Contract!Acknowledge, Contract!Move
<1>5. QED
  BY <1>3, <1>4

\* An alert is sent inside an open transaction, so for a key not yet stored.
LEMMA AlertAnnounces ==
  ASSUME IInv, NEW p \in Procs, NEW m \in Messages,
         Notify(p, m) \/ NotifyTimesOut(p, m)
  PROVE  Source(p, m) \in Sources /\ Contract!Announce(Source(p, m))
<1>1. pc[p][m] = "inserted"
  BY DEF Notify, NotifyTimesOut
<1>2. Source(p, m) \in Sources
  BY <1>1, KeyType DEF IInv, Working
<1>3. ~Contract!Registered(Source(p, m))
  BY <1>1 DEF IInv, TxKeyIsNew, OpenTx, Stored, Contract!Registered
<1>4. /\ notified' = [notified EXCEPT ![Source(p, m)] = @ + 1]
      /\ UNCHANGED <<queue, reports>>
  BY DEF Notify, NotifyTimesOut, queueVars
<1>5. UNCHANGED Status
  BY <1>4 DEF Status
<1>6. QED
  BY <1>2, <1>3, <1>4, <1>5 DEF Contract!Announce

\* A commit registers a key not yet stored, announced before if urgent.
LEMMA CommitRegisters ==
  ASSUME IInv, NEW p \in Procs, NEW m \in Messages,
         Commit(p, m) \/ CommitAckLost(p, m)
  PROVE  /\ Source(p, m) \in Sources /\ verdict[p][m] \in {"high", "low"}
         /\ Contract!Register(Source(p, m), verdict[p][m])
<1>1. Committable(p, m)
  BY DEF Commit, CommitAckLost
<1>2. Source(p, m) \in Sources /\ verdict[p][m] \in {"high", "low"}
  BY <1>1, KeyType DEF IInv, Working, Committable, TypeOK, Urgencies
<1>3. ~Contract!Registered(Source(p, m))
  BY <1>1 DEF IInv, TxKeyIsNew, OpenTx, Stored, Contract!Registered, Committable
<1>4. verdict[p][m] = "high" => notified[Source(p, m)] > 0
  BY <1>1 DEF IInv, AlertedIsAnnounced, Committable
<1>5. /\ reports' = Append(reports, [source  |-> Source(p, m),
                                     urgency |-> verdict[p][m]])
      /\ UNCHANGED <<queue, notified>>
  BY DEF Commit, CommitAckLost, InsertRow, queueVars
<1>6. UNCHANGED Status
  BY <1>5 DEF Status
<1>7. QED
  BY <1>2, <1>3, <1>4, <1>5, <1>6 DEF Contract!Register

\* Every step of the pipeline is a step of the contract or leaves its variables.
LEMMA ContractStep ==
  ASSUME IInv, [Next]_vars
  PROVE  [Contract!Next]_(Contract!vars)
<1>. DEFINE X == [Contract!Next]_(Contract!vars)
<1>0. TypeOK /\ TypeOK'
  BY TypeStep DEF IInv
<1>1. ASSUME UNCHANGED <<queue, dbVars>> PROVE X
  BY <1>1 DEF dbVars, Status, Contract!vars
<1>2. ASSUME NEW m \in Messages, S3Notify(m) \/ DeadLetter(m) \/ Redrive(m) PROVE X
  BY <1>2, QueueMoves DEF Contract!Next
<1>3. ASSUME NEW m \in Messages, Expire(m) PROVE X
  <2>1. UNCHANGED Status
    BY <1>0, <1>3, StatusStays DEF Expire, TypeOK
  <2>2. QED
    BY <1>3, <2>1 DEF Expire, dbVars, Contract!vars
<1>4. ASSUME NEW p \in Procs, Receive(p) PROVE X
  <2>1. UNCHANGED Status
    BY <1>0, <1>4, StatusStays DEF Receive, TypeOK
  <2>2. QED
    BY <1>4, <2>1 DEF Receive, dbVars, Contract!vars
<1>5. ASSUME NEW p \in Procs,
             EmptyPoll(p) \/ ReceiveFails(p) \/ Stop(p) \/ Crash(p) \/ Exit(p) \/ Restart(p)
      PROVE  X
  BY <1>1, <1>5 DEF EmptyPoll, ReceiveFails, Stop, Crash, Exit, Restart, Die,
                    vars, queueVars, dbVars
<1>6. ASSUME NEW p \in Procs, NEW m \in Messages,
             \/ Acquire(p, m) \/ Classify(p, m) \/ IngestFails(p, m)
             \/ UpsertNew(p, m) \/ UpsertDuplicate(p, m) \/ DeleteFails(p, m)
      PROVE  X
  BY <1>1, <1>6 DEF Acquire, Classify, IngestFails, UpsertNew, UpsertDuplicate,
                    DeleteFails, queueVars
<1>7. ASSUME NEW p \in Procs, NEW m \in Messages,
             Notify(p, m) \/ NotifyTimesOut(p, m)
      PROVE  X
  BY <1>7, AlertAnnounces DEF Contract!Next
<1>8. ASSUME NEW p \in Procs, NEW m \in Messages,
             Commit(p, m) \/ CommitAckLost(p, m)
      PROVE  X
  BY <1>8, CommitRegisters DEF Contract!Next
<1>9. ASSUME NEW p \in Procs, NEW m \in Messages, Delete(p, m) PROVE X
  BY <1>9, DeleteAcknowledges DEF Contract!Next
<1>10. CASE UNCHANGED vars
  BY <1>1, <1>10 DEF vars, dbVars
<1>11. QED
  BY <1>2, <1>3, <1>4, <1>5, <1>6, <1>7, <1>8, <1>9, <1>10 DEF Next, TaskStep

\* The pipeline implements the contract: whatever workers, queue and network do,
\* what an observer of message status, reports and alerts sees is a behaviour of
\* IngestContract.
THEOREM Refinement == Spec => ImplementsContract
<1>1. Init => Contract!Init
  BY DEF Init, Contract!Init, Status
<1>2. IInv /\ [Next]_vars => [Contract!Next]_(Contract!vars)
  BY ContractStep
<1>3. QED
  BY <1>1, <1>2, InvariantHolds, PTL DEF Spec, ImplementsContract, Contract!Spec
=============================================================================
