-------------------------- MODULE ApiProcessProofs --------------------------
(* Proofs about ApiProcess, for every value of its constants. *)
EXTENDS ApiProcess, FiniteSetTheorems, FunctionTheorems, TLAPS

-----------------------------------------------------------------------------
(* The inductive invariant. *)

\* Nothing is sent before the stream is opened.
SilentBefore ==
  \A r \in Requests :
    stage[r] \in {"idle", "authenticating", "auditing", "opening"} =>
      stream[r] = <<>>

\* A stream is opened after the audit entry is committed.
AuditedFirst ==
  \A r \in Requests :
    stage[r] \in {"opening", "streaming", "closing", "gone"} => r \in audit

\* While the LLM answers there are sources, and tokens after them.
SourcesThenTokens ==
  \A r \in Requests : stage[r] = "streaming" =>
    /\ stream[r] # <<>> /\ stream[r][1].type = "sources"
    /\ \A k \in 2..Len(stream[r]) : stream[r][k].type = "token"

\* The sessions of the pool are those of requests and jobs that are at work.
PoolShape ==
  /\ IsFiniteSet(conn) /\ Cardinality(conn) <= PoolSize
  /\ \A r \in Requests : r \in conn => stage[r] # "idle"
  /\ \A j \in Jobs : j \in conn => task[j] # "idle"

IInv == /\ TypeOK /\ SilentBefore /\ AuditedFirst /\ SourcesThenTokens
        /\ PoolShape /\ OnlyPermitted /\ CitedSourcesStand

-----------------------------------------------------------------------------
(* Retrieval and verification. *)

\* The chunks retrieved are of reports within the scope of the user.
LEMMA HitsArePermitted ==
  ASSUME NEW u, NEW f, NEW ids \in Hits(u, f)
  PROVE  /\ ids \subseteq DOMAIN reports
         /\ \A i \in ids : reports[i].property \in PermittedTo(u)
<1>. DEFINE chunks == UNION {{i} \X (1..reports[i].chunks) : i \in Matching(u, f)}
            n      == Min({TopK, Cardinality(chunks)})
<1>1. PICK C \in kSubset(n, chunks) : ids = {c[1] : c \in C}
  BY DEF Hits
<1>2. C \subseteq chunks
  BY DEF kSubset
<1>3. ASSUME NEW c \in chunks PROVE c[1] \in Matching(u, f)
  OBVIOUS
<1>4. ids \subseteq Matching(u, f)
  BY <1>1, <1>2, <1>3
<1>5. QED
  BY <1>4 DEF Matching

\* What is verified exists, within the scope of the user, and is cited.
LEMMA VerifiedArePermitted ==
  ASSUME NEW r \in Requests
  PROVE  /\ Verified(r) \subseteq DOMAIN reports
         /\ Verified(r) \subseteq Cited(r)
         /\ \A i \in Verified(r) : reports[i].property \in PermittedTo(asked[r].user)
BY DEF Verified

-----------------------------------------------------------------------------
(* Types. *)

\* A new event of a request keeps the streams well typed.
LEMMA EmitType ==
  ASSUME TypeOK, NEW r \in Requests,
         NEW type \in {"sources", "token", "done", "no_results"},
         NEW ids \in SUBSET Ids, Emit(r, type, ids)
  PROVE  stream' \in [Requests -> Seq(Event)]
<1>. DEFINE e == [type |-> type, ids |-> ids]
<1>1. e \in Event
  BY DEF Event
<1>2. stream[r] \in Seq(Event)
  BY DEF TypeOK
<1>3. Append(stream[r], e) \in Seq(Event)
  BY <1>1, <1>2
<1>4. stream' = [stream EXCEPT ![r] = Append(@, e)]
  BY DEF Emit
<1>5. QED
  BY <1>3, <1>4 DEF TypeOK

\* The table stays well typed, and only grows; a report keeps its property.
LEMMA ReportsStep ==
  ASSUME TypeOK, CommitReport \/ CommitOverride \/ UNCHANGED reports
  PROVE  /\ DOMAIN reports' \subseteq Ids
         /\ \A i \in DOMAIN reports' : reports'[i] \in Row
         /\ DOMAIN reports \subseteq DOMAIN reports'
         /\ \A i \in DOMAIN reports : reports'[i].property = reports[i].property
<1>. USE DEF TypeOK
<1>1. CASE CommitReport
  BY <1>1, StoreAssumption DEF CommitReport
<1>2. CASE CommitOverride
  <2>1. PICK i \in DOMAIN reports, l \in Labels :
          reports' = [reports EXCEPT ![i].label = l]
    BY <1>2 DEF CommitOverride
  <2>2. reports[i] \in Row
    OBVIOUS
  <2>3. /\ [reports[i] EXCEPT !.label = l] \in Row
        /\ [reports[i] EXCEPT !.label = l].property = reports[i].property
    BY <2>2 DEF Row
  <2>4. DOMAIN reports' = DOMAIN reports
    BY <2>1
  <2>5. \A k \in DOMAIN reports :
          reports'[k] = IF k = i THEN [reports[i] EXCEPT !.label = l] ELSE reports[k]
    BY <2>1
  <2>6. QED
    BY <2>3, <2>4, <2>5
<1>3. CASE UNCHANGED reports
  BY <1>3
<1>4. QED
  BY <1>1, <1>2, <1>3

\* Types are preserved by every step of the searches.
LEMMA SearchTypes ==
  ASSUME TypeOK, SearchNext, UNCHANGED figureVars PROVE TypeOK'
<1>. USE SearchAssumption, StoreAssumption
<1>. USE DEF TypeOK, Stages, Nobody, searchVars, figureVars
<1>. DEFINE NoEvent == stream' \in [Requests -> Seq(Event)]
<1>0. ASSUME NEW r \in Requests, Forget(r), UNCHANGED reports PROVE TypeOK'
  BY <1>0 DEF Forget, CheckIn, GoTo
<1>1. ASSUME NEW r \in Requests, Arrive(r) PROVE TypeOK'
  BY <1>1 DEF Arrive, GoTo
<1>2. ASSUME NEW r \in Requests, RequestConnects(r) PROVE TypeOK'
  BY <1>2 DEF RequestConnects, CheckOut
<1>3. ASSUME NEW r \in Requests, Authenticate(r) PROVE TypeOK'
  <2>1. CASE asked[r].user = NoUser
    BY <1>0, <1>3, <2>1 DEF Authenticate
  <2>2. CASE asked[r].user # NoUser
    BY <1>3, <2>2 DEF Authenticate, CheckIn, GoTo
  <2>3. QED
    BY <2>1, <2>2
<1>4. ASSUME NEW r \in Requests, RecordAudit(r) PROVE TypeOK'
  BY <1>4 DEF RecordAudit, CheckIn, GoTo
<1>5. ASSUME NEW r \in Requests, Retrieve(r) PROVE TypeOK'
  <2>1. PICK ids \in Hits(asked[r].user, asked[r].filter) :
          IF ids = {} THEN Emit(r, "no_results", {}) /\ GoTo(r, "closing")
          ELSE Emit(r, "sources", ids) /\ GoTo(r, "streaming")
    BY <1>5 DEF Retrieve
  <2>2. ids \in SUBSET Ids
    BY HitsArePermitted
  <2>3. NoEvent
    BY <2>1, <2>2, EmitType
  <2>4. stage' \in [Requests -> Stages]
    BY <2>1 DEF GoTo
  <2>5. QED
    BY <1>5, <2>3, <2>4 DEF Retrieve
<1>6. ASSUME NEW r \in Requests, Token(r) PROVE TypeOK'
  <2>1. PICK ids \in SUBSET Ids : Emit(r, "token", ids)
    BY <1>6 DEF Token
  <2>2. NoEvent
    BY <2>1, EmitType
  <2>3. QED
    BY <1>6, <2>2 DEF Token
<1>7. ASSUME NEW r \in Requests, Finish(r) PROVE TypeOK'
  <2>1. Verified(r) \in SUBSET Ids
    BY VerifiedArePermitted
  <2>2. NoEvent
    BY <1>7, <2>1, EmitType DEF Finish
  <2>3. QED
    BY <1>7, <2>2 DEF Finish, GoTo
<1>8. ASSUME NEW r \in Requests, Close(r) PROVE TypeOK'
  BY <1>0, <1>8 DEF Close
<1>9. ASSUME NEW r \in Requests, Collect(r) PROVE TypeOK'
  BY <1>0, <1>9 DEF Collect
<1>10. ASSUME NEW r \in Requests, RequestFails(r) PROVE TypeOK'
  BY <1>0, <1>10 DEF RequestFails
<1>11. ASSUME NEW r \in Requests, Disconnect(r) PROVE TypeOK'
  BY <1>11 DEF Disconnect, GoTo
<1>12. QED
  BY <1>1, <1>2, <1>3, <1>4, <1>5, <1>6, <1>7, <1>8, <1>9, <1>10, <1>11
     DEF SearchNext, RequestAdvances

\* Types are preserved by every step of the jobs.
LEMMA FigureTypes ==
  ASSUME TypeOK, FiguresNext, UNCHANGED searchVars PROVE TypeOK'
<1>. USE FiguresAssumption, StoreAssumption
<1>. USE DEF TypeOK, Tasks, searchVars, figureVars, Proceed
<1>1. ASSUME NEW j \in Jobs, StartJob(j) PROVE TypeOK'
  BY <1>1 DEF StartJob
<1>2. ASSUME NEW j \in Jobs, JobConnects(j) PROVE TypeOK'
  BY <1>2 DEF JobConnects, CheckOut
<1>3. ASSUME NEW j \in Jobs, CountCategories(j) PROVE TypeOK'
  BY <1>3 DEF CountCategories
<1>4. ASSUME NEW j \in Jobs, CountUrgencies(j) PROVE TypeOK'
  BY <1>4 DEF CountUrgencies
<1>5. ASSUME NEW j \in Jobs, CountActions(j) PROVE TypeOK'
  BY <1>5 DEF CountActions
<1>6. ASSUME NEW j \in Jobs, CommitDocument(j) PROVE TypeOK'
  BY <1>6 DEF CommitDocument, EndJob, CheckIn
<1>7. ASSUME NEW j \in Jobs, JobFails(j) PROVE TypeOK'
  BY <1>7 DEF JobFails, EndJob, CheckIn
<1>8. QED
  BY <1>1, <1>2, <1>3, <1>4, <1>5, <1>6, <1>7 DEF FiguresNext, JobAdvances

LEMMA TypeStep == TypeOK /\ [Next]_vars => TypeOK'
<1>. SUFFICES ASSUME TypeOK, [Next]_vars PROVE TypeOK'
  OBVIOUS
<1>1. CASE Elsewhere /\ UNCHANGED <<searchVars, figureVars>>
  BY <1>1, ReportsStep DEF TypeOK, Elsewhere, searchVars, figureVars
<1>2. CASE SearchNext /\ UNCHANGED figureVars
  BY <1>2, SearchTypes
<1>3. CASE FiguresNext /\ UNCHANGED searchVars
  BY <1>3, FigureTypes
<1>4. CASE UNCHANGED vars
  BY <1>4 DEF TypeOK, vars, searchVars, figureVars
<1>5. QED
  BY <1>1, <1>2, <1>3, <1>4 DEF Next

-----------------------------------------------------------------------------
(* The pool. *)

\* Taking a connection keeps the pool within its size.
LEMMA CheckOutBound ==
  ASSUME IsFiniteSet(conn), NEW a, CheckOut(a)
  PROVE  IsFiniteSet(conn') /\ Cardinality(conn') <= PoolSize
<1>1. /\ a \notin conn /\ Cardinality(conn) < PoolSize
      /\ conn' = conn \cup {a}
  BY DEF CheckOut
<1>2. IsFiniteSet(conn') /\ Cardinality(conn') = Cardinality(conn) + 1
  BY <1>1, FS_AddElement
<1>3. Cardinality(conn) \in Nat
  BY FS_CardinalityType
<1>4. QED
  BY <1>1, <1>2, <1>3, StoreAssumption

\* Giving one back does as well.
LEMMA CheckInBound ==
  ASSUME IsFiniteSet(conn), Cardinality(conn) <= PoolSize, NEW a, CheckIn(a)
  PROVE  IsFiniteSet(conn') /\ Cardinality(conn') <= PoolSize
<1>1. conn' \subseteq conn
  BY DEF CheckIn
<1>2. IsFiniteSet(conn') /\ Cardinality(conn') <= Cardinality(conn)
  BY <1>1, FS_Subset
<1>3. Cardinality(conn) \in Nat /\ Cardinality(conn') \in Nat
  BY <1>2, FS_CardinalityType
<1>4. QED
  BY <1>2, <1>3, StoreAssumption

\* Whatever way a session ends, its connection goes back.
LEMMA PoolStep == TypeOK /\ PoolShape /\ [Next]_vars => PoolShape'
<1>. SUFFICES ASSUME TypeOK, PoolShape, [Next]_vars PROVE PoolShape'
  OBVIOUS
<1>. USE StoreAssumption
<1>. USE DEF TypeOK, PoolShape
<1>. DEFINE Bounded == IsFiniteSet(conn') /\ Cardinality(conn') <= PoolSize
<1>1. CASE Elsewhere /\ UNCHANGED <<searchVars, figureVars>>
  BY <1>1 DEF Elsewhere, searchVars, figureVars
<1>2. CASE SearchNext /\ UNCHANGED figureVars
  <2>. task' = task
    BY <1>2 DEF figureVars
  <2>0. ASSUME NEW r \in Requests, Forget(r) PROVE PoolShape'
    <3>1. Bounded
      BY <2>0, CheckInBound DEF Forget
    <3>2. QED
      BY <2>0, <3>1 DEF Forget, CheckIn, GoTo
  <2>1. ASSUME NEW r \in Requests, Arrive(r) PROVE PoolShape'
    BY <2>1 DEF Arrive, GoTo
  <2>2. ASSUME NEW r \in Requests, RequestConnects(r) PROVE PoolShape'
    <3>1. Bounded
      BY <2>2, CheckOutBound DEF RequestConnects
    <3>2. QED
      BY <2>2, <3>1 DEF RequestConnects, CheckOut, Waiting, searchVars
  <2>3. ASSUME NEW r \in Requests, Authenticate(r) PROVE PoolShape'
    <3>1. CASE asked[r].user = NoUser
      BY <2>0, <2>3, <3>1 DEF Authenticate
    <3>2. CASE asked[r].user # NoUser
      <4>1. Bounded
        BY <2>3, <3>2, CheckInBound DEF Authenticate
      <4>2. QED
        BY <2>3, <3>2, <4>1 DEF Authenticate, CheckIn, GoTo
    <3>3. QED
      BY <3>1, <3>2
  <2>4. ASSUME NEW r \in Requests, RecordAudit(r) PROVE PoolShape'
    <3>1. Bounded
      BY <2>4, CheckInBound DEF RecordAudit
    <3>2. QED
      BY <2>4, <3>1 DEF RecordAudit, CheckIn, GoTo
  <2>5. ASSUME NEW r \in Requests, Retrieve(r) PROVE PoolShape'
    BY <2>5 DEF Retrieve, GoTo
  <2>6. ASSUME NEW r \in Requests, Token(r) PROVE PoolShape'
    BY <2>6 DEF Token
  <2>7. ASSUME NEW r \in Requests, Finish(r) PROVE PoolShape'
    BY <2>7 DEF Finish, GoTo
  <2>8. ASSUME NEW r \in Requests, Disconnect(r) PROVE PoolShape'
    BY <2>8 DEF Disconnect, GoTo
  <2>9. QED
    BY <1>2, <2>0, <2>1, <2>2, <2>3, <2>4, <2>5, <2>6, <2>7, <2>8
       DEF SearchNext, RequestAdvances, Close, Collect, RequestFails
<1>3. CASE FiguresNext /\ UNCHANGED searchVars
  <2>. stage' = stage
    BY <1>3 DEF searchVars
  <2>0. ASSUME NEW j \in Jobs, EndJob(j) PROVE PoolShape'
    <3>1. Bounded
      BY <2>0, CheckInBound DEF EndJob
    <3>2. QED
      BY <2>0, <3>1 DEF EndJob, CheckIn, Proceed
  <2>1. ASSUME NEW j \in Jobs, StartJob(j) PROVE PoolShape'
    BY <2>1 DEF StartJob, Proceed
  <2>2. ASSUME NEW j \in Jobs, JobConnects(j) PROVE PoolShape'
    <3>1. Bounded
      BY <2>2, CheckOutBound DEF JobConnects
    <3>2. QED
      BY <2>2, <3>1 DEF JobConnects, CheckOut, figureVars
  <2>3. ASSUME NEW j \in Jobs, CountCategories(j) PROVE PoolShape'
    BY <2>3 DEF CountCategories, Proceed
  <2>4. ASSUME NEW j \in Jobs, CountUrgencies(j) PROVE PoolShape'
    BY <2>4 DEF CountUrgencies, Proceed
  <2>5. ASSUME NEW j \in Jobs, CountActions(j) PROVE PoolShape'
    BY <2>5 DEF CountActions, Proceed
  <2>6. QED
    BY <1>3, <2>0, <2>1, <2>2, <2>3, <2>4, <2>5
       DEF FiguresNext, JobAdvances, CommitDocument, JobFails
<1>4. CASE UNCHANGED vars
  BY <1>4 DEF vars, searchVars, figureVars
<1>5. QED
  BY <1>1, <1>2, <1>3, <1>4 DEF Next

-----------------------------------------------------------------------------
(* Streams. *)

\* What a stream is after an event.
LEMMA EmitStream ==
  ASSUME stream \in [Requests -> Seq(Event)], NEW r \in Requests, NEW type, NEW ids, Emit(r, type, ids)
  PROVE  /\ \A q \in Requests \ {r} : stream'[q] = stream[q]
         /\ Len(stream'[r]) = Len(stream[r]) + 1
         /\ Len(stream[r]) \in Nat
         /\ stream'[r][Len(stream[r]) + 1].type = type
         /\ stream'[r][Len(stream[r]) + 1].ids = ids
         /\ \A k \in 1..Len(stream[r]) : stream'[r][k] = stream[r][k]
<1>1. stream[r] \in Seq(Event)
  OBVIOUS
<1>2. stream' = [stream EXCEPT ![r] = Append(@, [type |-> type, ids |-> ids])]
  BY DEF Emit
<1>3. stream'[r] = Append(stream[r], [type |-> type, ids |-> ids])
  BY <1>2
<1>4. \A q \in Requests \ {r} : stream'[q] = stream[q]
  BY <1>2
<1>5. QED
  BY <1>1, <1>3, <1>4

Order == SilentBefore /\ AuditedFirst /\ SourcesThenTokens

\* The order of the stages of a search, and of the events of its answer.
LEMMA OrderStep == TypeOK /\ Order /\ [Next]_vars => Order'
<1>. SUFFICES ASSUME TypeOK, Order, [Next]_vars PROVE Order'
  OBVIOUS
<1>. USE DEF TypeOK, Order, SilentBefore, AuditedFirst, SourcesThenTokens, GoTo
<1>0. ASSUME NEW r \in Requests, Forget(r) PROVE Order'
  BY <1>0 DEF Forget
<1>1. ASSUME NEW r \in Requests, Arrive(r) PROVE Order'
  BY <1>1 DEF Arrive
<1>2. ASSUME NEW r \in Requests, RequestConnects(r) PROVE Order'
  BY <1>2 DEF RequestConnects, searchVars
<1>3. ASSUME NEW r \in Requests, Authenticate(r) PROVE Order'
  <2>1. CASE asked[r].user = NoUser
    BY <1>0, <1>3, <2>1 DEF Authenticate
  <2>2. CASE asked[r].user # NoUser
    BY <1>3, <2>2 DEF Authenticate
  <2>3. QED
    BY <2>1, <2>2
<1>4. ASSUME NEW r \in Requests, RecordAudit(r) PROVE Order'
  BY <1>4 DEF RecordAudit
<1>5. ASSUME NEW r \in Requests, Retrieve(r) PROVE Order'
  <2>1. PICK ids \in Hits(asked[r].user, asked[r].filter) :
          IF ids = {} THEN Emit(r, "no_results", {}) /\ GoTo(r, "closing")
          ELSE Emit(r, "sources", ids) /\ GoTo(r, "streaming")
    BY <1>5 DEF Retrieve
  <2>2. Len(stream[r]) = 0 /\ r \in audit /\ audit' = audit
    BY <1>5 DEF Retrieve
  <2>3. PICK type \in {"no_results", "sources"} :
          /\ \E e : Emit(r, type, e)
          /\ stage' = [stage EXCEPT ![r] = IF type = "sources" THEN "streaming"
                                          ELSE "closing"]
    BY <2>1
  <2>4. PICK e : Emit(r, type, e)
    BY <2>3
  <2>5. /\ \A q \in Requests \ {r} : stream'[q] = stream[q] /\ stage'[q] = stage[q]
        /\ Len(stream'[r]) = Len(stream[r]) + 1
        /\ stream'[r][Len(stream[r]) + 1].type = type
    BY <2>3, <2>4, EmitStream
  <2>6. Len(stream'[r]) = 1 /\ stream'[r][1].type = type
    BY <2>2, <2>5
  <2>7. stream'[r] # <<>> /\ \A k \in 2..Len(stream'[r]) : FALSE
    BY <2>6
  <2>8. stage'[r] \in {"streaming", "closing"} /\ (stage'[r] = "streaming" => type = "sources")
    BY <2>3
  <2>9. SilentBefore' /\ AuditedFirst'
    BY <2>2, <2>5, <2>8
  <2>10. SourcesThenTokens'
    BY <2>5, <2>6, <2>7, <2>8
  <2>11. QED
    BY <2>9, <2>10
<1>6. ASSUME NEW r \in Requests, Token(r) PROVE Order'
  <2>1. PICK ids : Emit(r, "token", ids)
    BY <1>6 DEF Token
  <2>2. /\ stream[r] # <<>> /\ stream[r][1].type = "sources"
        /\ \A k \in 2..Len(stream[r]) : stream[r][k].type = "token"
    BY <1>6 DEF Token
  <2>3. stream[r] \in Seq(Event) /\ Len(stream[r]) # 0
    BY <2>2
  <2>4. /\ \A q \in Requests \ {r} : stream'[q] = stream[q]
        /\ Len(stream'[r]) = Len(stream[r]) + 1
        /\ Len(stream[r]) \in Nat
        /\ stream'[r][Len(stream[r]) + 1].type = "token"
        /\ \A k \in 1..Len(stream[r]) : stream'[r][k] = stream[r][k]
    BY <2>1, EmitStream
  <2>5. stream'[r] # <<>> /\ stream'[r][1].type = "sources"
    <3>1. 1 \in 1..Len(stream[r]) /\ Len(stream'[r]) # 0
      BY <2>3, <2>4
    <3>2. stream'[r][1] = stream[r][1]
      BY <2>4, <3>1
    <3>3. QED
      BY <2>2, <3>1, <3>2
  <2>6. \A k \in 2..Len(stream'[r]) : stream'[r][k].type = "token"
    BY <2>2, <2>4
  <2>7. stage' = stage /\ audit' = audit
    BY <1>6 DEF Token
  <2>8. SilentBefore' /\ AuditedFirst'
    BY <1>6, <2>4, <2>7 DEF Token
  <2>9. SourcesThenTokens'
    <3>1. ASSUME NEW q \in Requests \ {r}, stage'[q] = "streaming"
          PROVE  /\ stream'[q] # <<>> /\ stream'[q][1].type = "sources"
                 /\ \A k \in 2..Len(stream'[q]) : stream'[q][k].type = "token"
      <4>1. stream'[q] = stream[q] /\ stage'[q] = stage[q]
        BY <2>4, <2>7
      <4>2. QED
        BY <3>1, <4>1
    <3>2. QED
      BY <2>5, <2>6, <3>1
  <2>10. QED
    BY <2>8, <2>9
<1>7. ASSUME NEW r \in Requests, Finish(r) PROVE Order'
  <2>1. \A q \in Requests \ {r} : stream'[q] = stream[q]
    BY <1>7, EmitStream DEF Finish
  <2>2. QED
    BY <1>7, <2>1 DEF Finish
<1>8. ASSUME NEW r \in Requests, Disconnect(r) PROVE Order'
  BY <1>8 DEF Disconnect
<1>9. CASE UNCHANGED searchVars
  BY <1>9 DEF searchVars
<1>10. QED
  BY <1>0, <1>1, <1>2, <1>3, <1>4, <1>5, <1>6, <1>7, <1>8, <1>9
     DEF Next, SearchNext, RequestAdvances, Close, Collect, RequestFails, vars

-----------------------------------------------------------------------------
(* Scope. *)

\* An event that names only existing reports within the user's scope.
LEMMA EmitPermitted ==
  ASSUME TypeOK, OnlyPermitted, NEW r \in Requests, NEW type, NEW ids,
         Emit(r, type, ids), UNCHANGED <<reports, asked>>,
         type \in {"sources", "done"} =>
           \A i \in ids : /\ i \in DOMAIN reports
                          /\ reports[i].property \in PermittedTo(asked[r].user)
  PROVE  OnlyPermitted'
<1>. stream \in [Requests -> Seq(Event)]
  BY DEF TypeOK
<1>. SUFFICES ASSUME NEW q \in Requests, NEW k \in 1..Len(stream'[q]),
                     stream'[q][k].type \in {"sources", "done"},
                     NEW i \in stream'[q][k].ids
              PROVE  /\ i \in DOMAIN reports
                     /\ reports[i].property \in PermittedTo(asked[q].user)
  BY DEF OnlyPermitted, PermittedTo
<1>1. CASE q # r
  BY <1>1, EmitStream DEF OnlyPermitted
<1>2. CASE q = r /\ k \in 1..Len(stream[r])
  BY <1>2, EmitStream DEF OnlyPermitted
<1>3. CASE q = r /\ k = Len(stream[r]) + 1
  BY <1>3, EmitStream
<1>4. QED
  BY <1>1, <1>2, <1>3, EmitStream

\* Sources and done stay within the scope of the user, whatever is committed.
LEMMA ScopeStep ==
  TypeOK /\ Order /\ OnlyPermitted /\ [Next]_vars => OnlyPermitted'
<1>. SUFFICES ASSUME TypeOK, Order, OnlyPermitted, [Next]_vars PROVE OnlyPermitted'
  OBVIOUS
<1>. USE DEF TypeOK, OnlyPermitted, PermittedTo
<1>0. ASSUME NEW r \in Requests, Forget(r), UNCHANGED reports PROVE OnlyPermitted'
  <2>1. /\ stream'[r] = <<>> /\ Len(stream'[r]) = 0
        /\ \A q \in Requests \ {r} : stream'[q] = stream[q] /\ asked'[q] = asked[q]
    BY <1>0 DEF Forget
  <2>2. ASSUME NEW q \in Requests \ {r}, NEW k \in 1..Len(stream'[q]),
               stream'[q][k].type \in {"sources", "done"}, NEW i \in stream'[q][k].ids
        PROVE  i \in DOMAIN reports /\ reports[i].property \in PermittedTo(asked'[q].user)
    <3>1. stream'[q] = stream[q] /\ asked'[q] = asked[q]
      BY <2>1
    <3>2. k \in 1..Len(stream[q]) /\ i \in stream[q][k].ids
      BY <2>2, <3>1
    <3>3. stream[q][k].type \in {"sources", "done"}
      BY <2>2, <3>1
    <3>4. QED
      BY <3>1, <3>2, <3>3 DEF OnlyPermitted
  <2>3. \A k \in 1..Len(stream'[r]) : FALSE
    BY <2>1
  <2>4. QED
    BY <1>0, <2>2, <2>3
<1>1. ASSUME NEW r \in Requests, Arrive(r) PROVE OnlyPermitted'
  <2>1. /\ stream' = stream /\ Len(stream[r]) = 0 /\ reports' = reports
        /\ \A q \in Requests \ {r} : asked'[q] = asked[q]
    BY <1>1 DEF Arrive, Order, SilentBefore
  <2>2. ASSUME NEW q \in Requests \ {r}, NEW k \in 1..Len(stream'[q]),
               stream'[q][k].type \in {"sources", "done"}, NEW i \in stream'[q][k].ids
        PROVE  i \in DOMAIN reports /\ reports[i].property \in PermittedTo(asked'[q].user)
    <3>1. stream'[q] = stream[q] /\ asked'[q] = asked[q]
      BY <2>1
    <3>2. k \in 1..Len(stream[q]) /\ i \in stream[q][k].ids
      BY <2>2, <3>1
    <3>3. stream[q][k].type \in {"sources", "done"}
      BY <2>2, <3>1
    <3>4. QED
      BY <3>1, <3>2, <3>3 DEF OnlyPermitted
  <2>3. \A k \in 1..Len(stream'[r]) : FALSE
    BY <2>1
  <2>4. QED
    BY <2>1, <2>2, <2>3
<1>2. ASSUME NEW r \in Requests, Retrieve(r) PROVE OnlyPermitted'
  <2>1. PICK ids \in Hits(asked[r].user, asked[r].filter) :
          IF ids = {} THEN Emit(r, "no_results", {}) /\ GoTo(r, "closing")
          ELSE Emit(r, "sources", ids) /\ GoTo(r, "streaming")
    BY <1>2 DEF Retrieve
  <2>2. /\ ids \subseteq DOMAIN reports
        /\ \A i \in ids : reports[i].property \in PermittedTo(asked[r].user)
    BY HitsArePermitted
  <2>3. UNCHANGED <<reports, asked>>
    BY <1>2 DEF Retrieve
  <2>4. QED
    BY <2>1, <2>2, <2>3, EmitPermitted
<1>3. ASSUME NEW r \in Requests, Token(r) PROVE OnlyPermitted'
  <2>1. PICK ids : Emit(r, "token", ids)
    BY <1>3 DEF Token
  <2>2. UNCHANGED <<reports, asked>>
    BY <1>3 DEF Token
  <2>3. QED
    BY <2>1, <2>2, EmitPermitted
<1>4. ASSUME NEW r \in Requests, Finish(r) PROVE OnlyPermitted'
  <2>1. Emit(r, "done", Verified(r)) /\ UNCHANGED <<reports, asked>>
    BY <1>4 DEF Finish
  <2>2. QED
    BY <2>1, VerifiedArePermitted, EmitPermitted
<1>5. CASE UNCHANGED <<stream, asked>> /\ (Elsewhere \/ UNCHANGED reports)
  <2>1. /\ DOMAIN reports \subseteq DOMAIN reports'
        /\ \A i \in DOMAIN reports : reports'[i].property = reports[i].property
    BY <1>5, ReportsStep DEF Elsewhere
  <2>2. QED
    BY <1>5, <2>1
<1>6. ASSUME NEW r \in Requests, Authenticate(r) PROVE OnlyPermitted'
  <2>1. CASE asked[r].user = NoUser
    BY <1>0, <1>6, <2>1 DEF Authenticate
  <2>2. CASE asked[r].user # NoUser
    BY <1>5, <1>6, <2>2 DEF Authenticate
  <2>3. QED
    BY <2>1, <2>2
<1>7. CASE FiguresNext /\ UNCHANGED searchVars
  BY <1>5, <1>7 DEF FiguresNext, searchVars, JobAdvances, StartJob, JobConnects,
     CountCategories, CountUrgencies, CountActions, CommitDocument, JobFails
<1>8. CASE SearchNext
  BY <1>0, <1>1, <1>2, <1>3, <1>4, <1>5, <1>6, <1>8
     DEF SearchNext, RequestAdvances, RequestConnects, RecordAudit, Close, Collect,
         RequestFails, Disconnect, searchVars
<1>9. QED
  BY <1>5, <1>7, <1>8 DEF Next, vars, searchVars

-----------------------------------------------------------------------------
(* Citations. *)

\* An event other than done takes nothing from the streams that are done.
LEMMA EmitStands ==
  ASSUME TypeOK, CitedSourcesStand, NEW r \in Requests, NEW type, NEW ids,
         Emit(r, type, ids), type # "done"
  PROVE  CitedSourcesStand'
<1>1. stream \in [Requests -> Seq(Event)]
  BY DEF TypeOK
<1>2. /\ \A q \in Requests \ {r} : stream'[q] = stream[q]
      /\ stream'[r][Len(stream'[r])].type # "done"
  BY <1>1, EmitStream
<1>3. QED
  BY <1>2 DEF CitedSourcesStand

\* A citation of a source passes verification.
LEMMA FinishStands ==
  ASSUME TypeOK, Order, OnlyPermitted, CitedSourcesStand,
         NEW r \in Requests, Finish(r)
  PROVE  CitedSourcesStand'
<1>. DEFINE s == stream[r]   t == stream'[r]
<1>1. s \in Seq(Event) /\ stream \in [Requests -> Seq(Event)]
  BY DEF TypeOK
<1>2. /\ s # <<>> /\ s[1].type = "sources"
      /\ \A k \in 2..Len(s) : s[k].type = "token"
  BY DEF Finish, Order, SourcesThenTokens
<1>3. /\ \A q \in Requests \ {r} : stream'[q] = stream[q]
      /\ Len(t) = Len(s) + 1 /\ Len(s) \in Nat
      /\ t[Len(s) + 1].type = "done" /\ t[Len(s) + 1].ids = Verified(r)
      /\ \A k \in 1..Len(s) : t[k] = s[k]
  BY <1>1, EmitStream DEF Finish
<1>4. 1 \in 1..Len(s) /\ t[1] = s[1]
  BY <1>1, <1>2, <1>3
<1>5. ASSUME NEW k \in 1..Len(t), t[k].type = "token", NEW i \in t[k].ids \cap t[1].ids
      PROVE  i \in Verified(r)
  <2>1. k \in 2..Len(s) /\ t[k] = s[k]
    BY <1>2, <1>3, <1>4, <1>5
  <2>2. i \in Cited(r)
    BY <1>5, <2>1 DEF Cited
  <2>3. i \in DOMAIN reports /\ reports[i].property \in PermittedTo(asked[r].user)
    BY <1>2, <1>4, <1>5 DEF OnlyPermitted
  <2>4. QED
    BY <2>2, <2>3 DEF Verified
<1>6. \A k \in 1..Len(t) : t[k].type = "token" => t[k].ids \cap t[1].ids \subseteq t[Len(t)].ids
  BY <1>3, <1>5
<1>7. QED
  BY <1>3, <1>6 DEF CitedSourcesStand

LEMMA StandStep ==
  TypeOK /\ Order /\ OnlyPermitted /\ CitedSourcesStand /\ [Next]_vars
    => CitedSourcesStand'
<1>. SUFFICES ASSUME TypeOK, Order, OnlyPermitted, CitedSourcesStand, [Next]_vars
              PROVE  CitedSourcesStand'
  OBVIOUS
<1>0. ASSUME NEW r \in Requests, Forget(r) PROVE CitedSourcesStand'
  <2>1. /\ stream'[r] = <<>>
        /\ \A q \in Requests \ {r} : stream'[q] = stream[q]
    BY <1>0 DEF Forget, TypeOK
  <2>2. QED
    BY <2>1 DEF CitedSourcesStand
<1>1. ASSUME NEW r \in Requests, Retrieve(r) PROVE CitedSourcesStand'
  BY <1>1, EmitStands DEF Retrieve
<1>2. ASSUME NEW r \in Requests, Token(r) PROVE CitedSourcesStand'
  BY <1>2, EmitStands DEF Token
<1>3. ASSUME NEW r \in Requests, Finish(r) PROVE CitedSourcesStand'
  BY <1>3, FinishStands
<1>4. CASE UNCHANGED stream
  BY <1>4 DEF CitedSourcesStand
<1>5. ASSUME NEW r \in Requests, Authenticate(r) PROVE CitedSourcesStand'
  BY <1>0, <1>4, <1>5 DEF Authenticate
<1>6. QED
  BY <1>0, <1>1, <1>2, <1>3, <1>4, <1>5
     DEF Next, SearchNext, RequestAdvances, Arrive, RequestConnects, RecordAudit,
         Close, Collect, RequestFails, Disconnect, vars, searchVars

-----------------------------------------------------------------------------
(* The contract. *)

\* An event that the contract allows at this point.
LEMMA EmitSends ==
  ASSUME TypeOK, NEW r \in Requests, r \in audit, UNCHANGED audit,
         NEW type \in {"sources", "token", "done", "no_results"},
         NEW ids \in SUBSET Ids, Emit(r, type, ids),
         type \in Contract!Followers(Contract!LastType(stream[r])),
         type = "sources" => ids # {},
         type = "done" => ids \subseteq Contract!CitedIn(stream[r])
  PROVE  Contract!Next
<1>. DEFINE e == [type |-> type, ids |-> ids]
<1>1. e \in Contract!Event /\ e.type = type /\ e.ids = ids
  BY DEF Contract!Event
<1>2. stream' = [stream EXCEPT ![r] = Append(@, e)]
  BY DEF Emit
<1>3. Contract!Send(r)
  BY <1>1, <1>2 DEF Contract!Send
<1>4. QED
  BY <1>3 DEF Contract!Next

\* Every step is one of the contract or leaves its variables alone.
LEMMA ContractStep ==
  TypeOK /\ Order /\ [Next]_vars => [Contract!Next]_(Contract!vars)
<1>. SUFFICES ASSUME TypeOK, Order, [Next]_vars
              PROVE  Contract!Next \/ UNCHANGED <<stream, audit>>
  BY DEF Contract!vars
<1>0. ASSUME NEW r \in Requests, Forget(r) PROVE Contract!Next
  BY <1>0 DEF Forget, Contract!Close, Contract!Next
<1>1. ASSUME NEW r \in Requests, RecordAudit(r) PROVE Contract!Next
  BY <1>1 DEF RecordAudit, Contract!Record, Contract!Next
<1>2. ASSUME NEW r \in Requests, Retrieve(r) PROVE Contract!Next
  <2>1. stream[r] = <<>> /\ r \in audit /\ UNCHANGED audit
    BY <1>2 DEF Retrieve, Order, SilentBefore, AuditedFirst
  <2>2. Contract!Followers(Contract!LastType(stream[r])) = {"sources", "no_results"}
    BY <2>1 DEF Contract!Followers, Contract!LastType
  <2>3. PICK ids \in Hits(asked[r].user, asked[r].filter) :
          IF ids = {} THEN Emit(r, "no_results", {}) ELSE Emit(r, "sources", ids)
    BY <1>2 DEF Retrieve
  <2>4. ids \in SUBSET Ids
    BY HitsArePermitted DEF TypeOK
  <2>5. CASE ids = {}
    BY <2>1, <2>2, <2>3, <2>5, EmitSends
  <2>6. CASE ids # {}
    BY <2>1, <2>2, <2>3, <2>4, <2>6, EmitSends
  <2>7. QED
    BY <2>5, <2>6
<1>3. ASSUME NEW r \in Requests, stage[r] = "streaming"
      PROVE  /\ r \in audit /\ stream[r] \in Seq(Event)
             /\ Contract!Followers(Contract!LastType(stream[r])) = {"token", "done"}
             /\ Cited(r) \subseteq Contract!CitedIn(stream[r])
  <2>1. /\ stream[r] # <<>> /\ stream[r][1].type = "sources"
        /\ \A k \in 2..Len(stream[r]) : stream[r][k].type = "token"
    BY <1>3 DEF Order, SourcesThenTokens
  <2>2. stream[r] \in Seq(Event) /\ Len(stream[r]) \in Nat \ {0}
    BY <2>1 DEF TypeOK
  <2>3. Contract!LastType(stream[r]) \in {"sources", "token"}
    <3>. \A n \in Nat \ {0} : n = 1 \/ n \in 2..n
      OBVIOUS
    <3>1. Len(stream[r]) = 1 \/ Len(stream[r]) \in 2..Len(stream[r])
      BY <2>2
    <3>2. QED
      BY <2>1, <3>1 DEF Contract!LastType
  <2>4. Cited(r) \subseteq Contract!CitedIn(stream[r])
    <3>1. \A k \in 2..Len(stream[r]) :
            k \in {j \in 1..Len(stream[r]) : stream[r][j].type = "token"}
      BY <2>1, <2>2
    <3>2. QED
      BY <3>1 DEF Cited, Contract!CitedIn
  <2>5. QED
    BY <1>3, <2>2, <2>3, <2>4 DEF Order, AuditedFirst, Contract!Followers
<1>4. ASSUME NEW r \in Requests, Token(r) PROVE Contract!Next
  <2>1. PICK ids \in SUBSET Ids : Emit(r, "token", ids)
    BY <1>4 DEF Token
  <2>2. stage[r] = "streaming" /\ UNCHANGED audit
    BY <1>4 DEF Token
  <2>3. QED
    BY <1>3, <2>1, <2>2, EmitSends
<1>5. ASSUME NEW r \in Requests, Finish(r) PROVE Contract!Next
  <2>1. Verified(r) \in SUBSET Ids /\ Verified(r) \subseteq Cited(r)
    BY VerifiedArePermitted DEF TypeOK
  <2>2. stage[r] = "streaming" /\ UNCHANGED audit /\ Emit(r, "done", Verified(r))
    BY <1>5 DEF Finish
  <2>3. QED
    BY <1>3, <2>1, <2>2, EmitSends
<1>6. ASSUME NEW r \in Requests, Authenticate(r)
      PROVE  Contract!Next \/ UNCHANGED <<stream, audit>>
  BY <1>0, <1>6 DEF Authenticate
<1>7. QED
  BY <1>0, <1>1, <1>2, <1>4, <1>5, <1>6
     DEF Next, SearchNext, RequestAdvances, Arrive, RequestConnects, Close, Collect,
         RequestFails, Disconnect, vars, searchVars

-----------------------------------------------------------------------------
(* Theorems. *)

LEMMA InvInit == Init => IInv
<1>. SUFFICES ASSUME Init PROVE IInv
  OBVIOUS
<1>. USE DEF Init, SearchInit, FiguresInit
<1>1. TypeOK
  BY DEF TypeOK, Stages, Tasks, Nobody
<1>2. PoolShape
  BY FS_EmptySet, StoreAssumption DEF PoolShape
<1>3. \A r \in Requests : stream[r] = <<>> /\ Len(stream[r]) = 0
  OBVIOUS
<1>4. SilentBefore /\ AuditedFirst /\ SourcesThenTokens
  BY DEF SilentBefore, AuditedFirst, SourcesThenTokens
<1>5. OnlyPermitted /\ CitedSourcesStand
  BY <1>3 DEF OnlyPermitted, CitedSourcesStand
<1>6. QED
  BY <1>1, <1>2, <1>4, <1>5 DEF IInv

LEMMA InvStep == IInv /\ [Next]_vars => IInv'
BY TypeStep, PoolStep, OrderStep, ScopeStep, StandStep DEF IInv, Order

\* The invariant holds in every reachable state of the process.
THEOREM InvariantHolds == Spec => []IInv
BY InvInit, InvStep, PTL DEF Spec

\* Tables, sessions and responses are always of the shape of their schemas.
THEOREM TypeCorrect == Spec => []TypeOK
BY InvariantHolds, PTL DEF IInv

\* Whatever is committed meanwhile, sources and done name existing reports within
\* the scope of the user who asked (SearchService.search, existing_report_ids).
THEOREM ScopeIsKept == Spec => []OnlyPermitted
BY InvariantHolds, PTL DEF IInv

\* The verification after the stream refuses no citation of a source.
THEOREM SourcesStand == Spec => []CitedSourcesStand
BY InvariantHolds, PTL DEF IInv

\* The pool is never overdrawn, and only requests and jobs at work hold one of its
\* connections.
THEOREM NoLeak == Spec => []NoConnectionLeaks
<1>1. IInv => NoConnectionLeaks
  BY DEF IInv, TypeOK, PoolShape, NoConnectionLeaks
<1>2. QED
  BY <1>1, InvariantHolds, PTL

\* POST /search keeps its contract: audited before anything is sent, events in
\* order, sources never empty, done within what the answer cites.
THEOREM Refinement == Spec => ImplementsContract
<1>1. Init => Contract!Init
  BY DEF Init, SearchInit, Contract!Init
<1>2. IInv /\ [Next]_vars => [Contract!Next]_(Contract!vars)
  BY ContractStep DEF IInv, Order
<1>3. QED
  BY <1>1, <1>2, InvariantHolds, PTL DEF Spec, ImplementsContract, Contract!Spec
-----------------------------------------------------------------------------
(***************************************************************************)
(* The figures of monthly documents, for every interleaving of the three   *)
(* statements with the commits of the worker and of reviewers.             *)
(***************************************************************************)
-----------------------------------------------------------------------------
(* Counting by groups.                                                       *)

Group(C, key, v) == {i \in C : key[i] = v}

\* The groups of a statement count every row once, whatever it groups by.
LEMMA GroupsCountAll ==
  ASSUME NEW C, IsFiniteSet(C), NEW key, NEW f,
         f = [v \in {key[i] : i \in C} |-> Cardinality(Group(C, key, v))]
  PROVE  /\ \A v \in DOMAIN f : f[v] \in Nat
         /\ Total(f) \in Nat /\ Total(f) = Cardinality(C)
<1>. DEFINE V == {key[i] : i \in C}
            G(v) == Group(C, key, v)
            b == [v \in V |-> CHOOSE g \in Bijection(1..Cardinality(G(v)), G(v)) : TRUE]
            P == Pairs(f)
            h == [x \in P |-> b[x[1]][x[2]]]
<1>1. ASSUME NEW v \in V
      PROVE  /\ Cardinality(G(v)) \in Nat /\ f[v] = Cardinality(G(v))
             /\ b[v] \in Bijection(1..f[v], G(v))
  <2>1. G(v) \in SUBSET C
    BY DEF Group
  <2>2. IsFiniteSet(G(v))
    BY <2>1, FS_Subset
  <2>3. Cardinality(G(v)) \in Nat /\ ExistsBijection(1..Cardinality(G(v)), G(v))
    BY <2>2, FS_CardinalityType
  <2>4. \E g : g \in Bijection(1..Cardinality(G(v)), G(v))
    BY <2>3 DEF ExistsBijection
  <2>5. f[v] = Cardinality(G(v))
    OBVIOUS
  <2>6. b[v] \in Bijection(1..Cardinality(G(v)), G(v))
    BY <2>4
  <2>7. QED
    BY <2>3, <2>5, <2>6
<1>2. DOMAIN f = V
  OBVIOUS
<1>. HIDE DEF b, G
<1>3. ASSUME NEW v \in V, NEW k \in 1..f[v]
      PROVE  b[v][k] \in C /\ key[b[v][k]] = v
  <2>1. b[v] \in [1..f[v] -> G(v)]
    BY <1>1 DEF Bijection, Injection
  <2>2. b[v][k] \in G(v)
    BY <2>1
  <2>3. QED
    BY <2>2 DEF G, Group
<1>4. ASSUME NEW v \in V, NEW k \in 1..f[v], NEW l \in 1..f[v], b[v][k] = b[v][l]
      PROVE  k = l
  BY <1>1, <1>4 DEF Bijection, Injection, IsInjective
<1>5. ASSUME NEW i \in C PROVE \E v \in V : \E k \in 1..f[v] : b[v][k] = i
  <2>1. PICK v \in V : v = key[i]
    OBVIOUS
  <2>2. i \in G(v)
    BY <2>1 DEF G, Group
  <2>3. \E k \in 1..f[v] : b[v][k] = i
    BY <1>1, <2>2 DEF Bijection, Surjection
  <2>4. QED
    BY <2>3
<1>6. P = UNION {{v} \X (1..f[v]) : v \in V}
  BY <1>2 DEF Pairs
<1>. HIDE DEF V, P
<1>7. ASSUME NEW x \in P
      PROVE  \E v \in V : \E k \in 1..f[v] : x = <<v, k>>
  <2>1. PICK v \in V : x \in {v} \X (1..f[v])
    BY <1>6, <1>7, Zenon
  <2>2. \E k \in 1..f[v] : x = <<v, k>>
    BY <2>1
  <2>3. QED
    BY <2>2
<1>8. ASSUME NEW v \in V, NEW k \in 1..f[v] PROVE <<v, k>> \in P
  <2>1. <<v, k>> \in {v} \X (1..f[v])
    BY <1>8
  <2>2. QED
    BY <1>6, <2>1, Zenon
<1>9. h \in [P -> C]
  BY <1>3, <1>7
<1>10. ASSUME NEW x \in P, NEW y \in P, h[x] = h[y] PROVE x = y
  <2>1. PICK v \in V : \E k \in 1..f[v] : x = <<v, k>>
    BY <1>7
  <2>2. PICK w \in V : \E l \in 1..f[w] : y = <<w, l>>
    BY <1>7
  <2>3. PICK k \in 1..f[v], l \in 1..f[w] : x = <<v, k>> /\ y = <<w, l>>
    BY <2>1, <2>2
  <2>4. b[v][k] = b[w][l]
    BY <1>10, <2>3
  <2>5. v = w
    BY <1>3, <2>4
  <2>6. QED
    BY <1>4, <2>3, <2>4, <2>5
<1>11. ASSUME NEW i \in C PROVE \E x \in P : h[x] = i
  <2>0. PICK v \in V : \E k \in 1..f[v] : b[v][k] = i
    BY <1>5
  <2>1. PICK k \in 1..f[v] : b[v][k] = i
    BY <2>0
  <2>2. <<v, k>> \in P /\ h[<<v, k>>] = b[v][k]
    BY <1>8
  <2>3. QED
    BY <2>1, <2>2
<1>. HIDE DEF h
<1>12. h \in Bijection(P, C)
  BY <1>9, <1>10, <1>11 DEF Bijection, Injection, Surjection, IsInjective
<1>13. ExistsBijection(C, P)
  BY <1>12, Fun_ExistsBijSymmetric DEF ExistsBijection
<1>14. Cardinality(P) = Cardinality(C) /\ Cardinality(C) \in Nat
  BY <1>13, FS_Bijection, FS_CardinalityType
<1>15. QED
  BY <1>1, <1>2, <1>14 DEF Total, P

\* The lines with 0 that a table adds count nothing.
LEMMA TableTotal ==
  ASSUME NEW f, NEW labels, DOMAIN f \subseteq labels,
         \A v \in DOMAIN f : f[v] \in Nat
  PROVE  Total(Table(f, labels)) = Total(f)
<1>. DEFINE t == Table(f, labels)
<1>1. DOMAIN t = labels
  BY DEF Table
<1>2. \A x \in labels : t[x] = IF x \in DOMAIN f THEN f[x] ELSE 0
  BY DEF Table
<1>. HIDE DEF t
<1>3. ASSUME NEW z, z \in Pairs(t) PROVE z \in Pairs(f)
  <2>1. PICK x \in labels : z \in {x} \X (1..t[x])
    BY <1>1, <1>3 DEF Pairs
  <2>2. x \in DOMAIN f
    <3>1. CASE t[x] = 0
      BY <2>1, <3>1
    <3>2. QED
      BY <1>2, <3>1
  <2>3. z \in {x} \X (1..f[x])
    BY <1>2, <2>1, <2>2
  <2>4. QED
    BY <2>2, <2>3 DEF Pairs
<1>4. ASSUME NEW z, z \in Pairs(f) PROVE z \in Pairs(t)
  <2>1. PICK x \in DOMAIN f : z \in {x} \X (1..f[x])
    BY <1>4 DEF Pairs
  <2>2. x \in labels /\ z \in {x} \X (1..t[x])
    BY <1>2, <2>1
  <2>3. QED
    BY <1>1, <2>2 DEF Pairs
<1>5. Pairs(t) = Pairs(f)
  BY <1>3, <1>4
<1>6. QED
  BY <1>5 DEF Total, t

-----------------------------------------------------------------------------
(* The inductive invariant. *)

\* Counts of n rows at most, all of them of these labels.
CountsUpTo(counts, labels, n) ==
  /\ DOMAIN counts \subseteq labels
  /\ \A v \in DOMAIN counts : counts[v] \in Nat
  /\ Total(counts) \in Nat /\ Total(counts) <= n

\* What the statements of a job at task t have counted, of a table with n rows.
Progress(t, f, n) ==
  /\ t \in {"urgencies", "actions", "narrating"} =>
       CountsUpTo(f.categories, Categories, n)
  /\ t \in {"actions", "narrating"} =>
       /\ CountsUpTo(f.urgencies, Urgencies, n)
       /\ Total(f.categories) <= Total(f.urgencies)
  /\ t = "narrating" => f.action \in Nat /\ f.action <= n

\* What a document says of a table with n rows.
Bracket(d, n) ==
  /\ d.total = Total(d.categories) /\ d.total <= Total(d.urgencies)
  /\ Total(d.urgencies) \in Nat /\ Total(d.urgencies) <= n
  /\ d.action \in Nat /\ d.action <= n

Rows(p) == Cardinality(Counted(p))

TableFinite == IsFiniteSet(DOMAIN reports)

StatementsAhead ==
  \A j \in Jobs :
    /\ DOMAIN figures[j] = {"categories", "urgencies", "action"}
    /\ Progress(task[j], figures[j], Rows(subject[j]))

DocumentsStand ==
  \A j \in Jobs :
    document[j] # NoDocument => Bracket(document[j], Rows(document[j].property))

FiguresInv == TypeOK /\ TableFinite /\ StatementsAhead /\ DocumentsStand

-----------------------------------------------------------------------------
(* The table grows, and what was counted remains true. *)

LEMMA RowsAreFinite ==
  ASSUME TableFinite, NEW p
  PROVE  IsFiniteSet(Counted(p)) /\ Rows(p) \in Nat
<1>1. Counted(p) \subseteq DOMAIN reports
  BY DEF Counted
<1>2. IsFiniteSet(Counted(p))
  BY <1>1, FS_Subset DEF TableFinite
<1>3. QED
  BY <1>2, FS_CardinalityType DEF Rows

\* Commits of the worker and of reviewers keep every row that was counted.
LEMMA RowsGrow ==
  ASSUME TypeOK, TableFinite, CommitReport \/ CommitOverride \/ UNCHANGED reports
  PROVE  TableFinite' /\ \A p : Rows(p)' \in Nat /\ Rows(p) <= Rows(p)'
<1>1. TableFinite'
  <2>1. CASE CommitReport
    <3>1. PICK i \in Ids \ DOMAIN reports : DOMAIN reports' = DOMAIN reports \cup {i}
      BY <2>1 DEF CommitReport
    <3>2. QED
      BY <3>1, FS_AddElement DEF TableFinite
  <2>2. CASE CommitOverride
    BY <2>2 DEF CommitOverride, TableFinite
  <2>3. CASE UNCHANGED reports
    BY <2>3 DEF TableFinite
  <2>4. QED
    BY <2>1, <2>2, <2>3
<1>2. ASSUME NEW p PROVE Rows(p)' \in Nat /\ Rows(p) <= Rows(p)'
  <2>1. Counted(p) \subseteq Counted(p)'
    BY ReportsStep DEF Counted
  <2>2. Counted(p)' \subseteq DOMAIN reports'
    BY DEF Counted
  <2>3. IsFiniteSet(Counted(p)')
    BY <1>1, <2>2, FS_Subset DEF TableFinite
  <2>4. QED
    BY <2>1, <2>3, FS_Subset, FS_CardinalityType DEF Rows
<1>3. QED
  BY <1>1, <1>2

LEMMA ProgressStays ==
  ASSUME NEW t, NEW f, NEW n \in Nat, NEW m \in Nat, n <= m, Progress(t, f, n)
  PROVE  Progress(t, f, m)
BY DEF Progress, CountsUpTo

LEMMA BracketStays ==
  ASSUME NEW d, NEW n \in Nat, NEW m \in Nat, n <= m, Bracket(d, n)
  PROVE  Bracket(d, m)
BY DEF Bracket

-----------------------------------------------------------------------------
(* The statements. *)

\* A statement that groups by a column counts the rows of the property.
LEMMA GroupByCounts ==
  ASSUME TypeOK, TableFinite, NEW p,
         NEW field \in {"category", "urgency"}, NEW labels,
         labels = IF field = "category" THEN Categories ELSE Urgencies
  PROVE  /\ CountsUpTo(GroupBy(p, field), labels, Rows(p))
         /\ Total(GroupBy(p, field)) = Rows(p)
<1>. DEFINE C   == Counted(p)
            key == [i \in C |-> reports[i].label[field]]
            g   == GroupBy(p, field)
<1>1. IsFiniteSet(C) /\ Rows(p) \in Nat
  BY RowsAreFinite
<1>2. {reports[i].label[field] : i \in C} = {key[i] : i \in C}
  OBVIOUS
<1>3. ASSUME NEW v PROVE {i \in C : reports[i].label[field] = v} = Group(C, key, v)
  BY DEF Group
<1>4. g = [v \in {key[i] : i \in C} |-> Cardinality(Group(C, key, v))]
  BY <1>2, <1>3 DEF GroupBy
<1>5. ASSUME NEW i \in C PROVE reports[i].label[field] \in labels
  <2>1. reports[i].label \in Labels
    BY DEF Counted, TypeOK, Row
  <2>2. reports[i].label \in [category : Categories, urgency : Urgencies,
                              action : BOOLEAN]
    BY <2>1, FiguresAssumption
  <2>3. QED
    BY <2>2
<1>6. DOMAIN g \subseteq labels
  BY <1>5 DEF GroupBy
<1>. HIDE DEF C, key, g
<1>7. /\ \A v \in DOMAIN g : g[v] \in Nat
      /\ Total(g) = Cardinality(C)
  BY <1>1, <1>4, GroupsCountAll
<1>8. Total(g) = Rows(p)
  BY <1>7 DEF C, Rows
<1>9. QED
  BY <1>1, <1>6, <1>7, <1>8 DEF CountsUpTo, g

\* A document keeps what its statements have counted.
LEMMA RenderedBracket ==
  ASSUME NEW p, NEW f, NEW n \in Nat, Progress("narrating", f, n)
  PROVE  Bracket(Rendered(p, f), n) /\ Rendered(p, f).property = p
<1>1. /\ CountsUpTo(f.categories, Categories, n)
      /\ CountsUpTo(f.urgencies, Urgencies, n)
      /\ Total(f.categories) <= Total(f.urgencies)
      /\ f.action \in Nat /\ f.action <= n
  BY DEF Progress
<1>2. /\ Total(Table(f.categories, Categories)) = Total(f.categories)
      /\ Total(Table(f.urgencies, Urgencies)) = Total(f.urgencies)
  BY <1>1, TableTotal DEF CountsUpTo
<1>3. QED
  BY <1>1, <1>2 DEF Bracket, Rendered, CountsUpTo

-----------------------------------------------------------------------------
(* Every step preserves the invariant. *)

\* A step of a job leaves the table alone and changes nothing of the others.
Only(j) ==
  /\ UNCHANGED reports
  /\ \A k \in Jobs \ {j} : /\ task'[k] = task[k] /\ figures'[k] = figures[k]
                           /\ subject'[k] = subject[k] /\ document'[k] = document[k]

LEMMA OneJob ==
  ASSUME FiguresInv, TypeOK', NEW j \in Jobs, Only(j),
         DOMAIN figures'[j] = {"categories", "urgencies", "action"},
         Progress(task'[j], figures'[j], Rows(subject'[j])),
         \/ document'[j] \in {document[j], NoDocument}
         \/ Bracket(document'[j], Rows(document'[j].property))
  PROVE  FiguresInv'
<1>1. TableFinite' /\ \A p : Rows(p)' = Rows(p)
  BY DEF FiguresInv, TableFinite, Only, Rows, Counted
<1>2. StatementsAhead'
  <2>1. ASSUME NEW k \in Jobs
        PROVE  /\ DOMAIN figures'[k] = {"categories", "urgencies", "action"}
               /\ Progress(task'[k], figures'[k], Rows(subject'[k]))
    BY <2>1 DEF FiguresInv, StatementsAhead, Only
  <2>2. \A k \in Jobs : Rows(subject'[k]) = Rows(subject[k])'
    BY DEF Only, Rows, Counted
  <2>3. QED
    BY <2>1, <2>2 DEF StatementsAhead
<1>3. DocumentsStand'
  <2>1. ASSUME NEW k \in Jobs, document'[k] # NoDocument
        PROVE  Bracket(document'[k], Rows(document'[k].property))
    BY <2>1 DEF FiguresInv, DocumentsStand, Only
  <2>2. \A k \in Jobs : Rows(document'[k].property) = Rows(document[k].property)'
    BY DEF Only, Rows, Counted
  <2>3. QED
    BY <2>1, <2>2 DEF DocumentsStand
<1>4. QED
  BY <1>1, <1>2, <1>3 DEF FiguresInv

\* The steps of the jobs, one statement after the other.
LEMMA JobsStep ==
  ASSUME FiguresInv, TypeOK', FiguresNext PROVE FiguresInv'
<1>. USE DEF FiguresInv, TypeOK
<1>0. ASSUME NEW j \in Jobs
      PROVE  /\ DOMAIN figures[j] = {"categories", "urgencies", "action"}
             /\ Progress(task[j], figures[j], Rows(subject[j]))
             /\ Rows(subject[j]) \in Nat
  BY RowsAreFinite DEF StatementsAhead
<1>1. ASSUME NEW j \in Jobs, StartJob(j) PROVE FiguresInv'
  <2>1. Only(j) /\ document'[j] = NoDocument /\ figures'[j] = figures[j]
    BY <1>1 DEF StartJob, Only, Proceed
  <2>2. Progress(task'[j], figures'[j], Rows(subject'[j]))
    BY <1>1 DEF StartJob, Proceed, Progress
  <2>3. QED
    BY <1>0, <2>1, <2>2, OneJob
<1>2. ASSUME NEW j \in Jobs, JobConnects(j) PROVE FiguresInv'
  <2>1. UNCHANGED <<reports, task, subject, figures, document>>
    BY <1>2 DEF JobConnects, figureVars
  <2>2. QED
    BY <1>0, <2>1, OneJob DEF Only
<1>3. ASSUME NEW j \in Jobs, CountCategories(j) PROVE FiguresInv'
  <2>1. PICK g : g = GroupBy(subject[j], "category")
    OBVIOUS
  <2>2. CountsUpTo(g, Categories, Rows(subject[j]))
    BY <2>1, GroupByCounts
  <2>3. /\ Only(j) /\ subject' = subject /\ document' = document
        /\ task'[j] = "urgencies"
    BY <1>3 DEF CountCategories, Only, Proceed
  <2>4. figures'[j] = [figures[j] EXCEPT !.categories = g]
    BY <1>3, <2>1 DEF CountCategories
  <2>5. /\ DOMAIN figures'[j] = {"categories", "urgencies", "action"}
        /\ figures'[j].categories = g
    BY <1>0, <2>4
  <2>6. Progress(task'[j], figures'[j], Rows(subject'[j]))
    BY <2>2, <2>3, <2>5 DEF Progress
  <2>7. QED
    BY <2>3, <2>5, <2>6, OneJob
<1>4. ASSUME NEW j \in Jobs, CountUrgencies(j) PROVE FiguresInv'
  <2>1. PICK g : g = GroupBy(subject[j], "urgency")
    OBVIOUS
  <2>2. CountsUpTo(g, Urgencies, Rows(subject[j])) /\ Total(g) = Rows(subject[j])
    BY <2>1, GroupByCounts
  <2>3. /\ Only(j) /\ subject' = subject /\ document' = document
        /\ task[j] = "urgencies" /\ task'[j] = "actions"
    BY <1>4 DEF CountUrgencies, Only, Proceed
  <2>4. figures'[j] = [figures[j] EXCEPT !.urgencies = g]
    BY <1>4, <2>1 DEF CountUrgencies
  <2>5. /\ DOMAIN figures'[j] = {"categories", "urgencies", "action"}
        /\ figures'[j].urgencies = g
        /\ figures'[j].categories = figures[j].categories
    BY <1>0, <2>4
  <2>6. CountsUpTo(figures[j].categories, Categories, Rows(subject[j]))
    BY <1>0, <2>3 DEF Progress
  <2>7. Total(figures[j].categories) <= Total(g)
    BY <2>2, <2>6 DEF CountsUpTo
  <2>8. Progress(task'[j], figures'[j], Rows(subject'[j]))
    BY <2>2, <2>3, <2>5, <2>6, <2>7 DEF Progress
  <2>9. QED
    BY <2>3, <2>5, <2>8, OneJob
<1>5. ASSUME NEW j \in Jobs, CountActions(j) PROVE FiguresInv'
  <2>1. PICK a : a = Cardinality({i \in Counted(subject[j]) : reports[i].label.action})
    OBVIOUS
  <2>2. a \in Nat /\ a <= Rows(subject[j])
    <3>1. {i \in Counted(subject[j]) : reports[i].label.action} \subseteq Counted(subject[j])
      OBVIOUS
    <3>2. IsFiniteSet(Counted(subject[j]))
      BY RowsAreFinite
    <3>3. QED
      BY <2>1, <3>1, <3>2, FS_Subset, FS_CardinalityType DEF Rows
  <2>3. /\ Only(j) /\ subject' = subject /\ document' = document
        /\ task[j] = "actions" /\ task'[j] = "narrating"
    BY <1>5 DEF CountActions, Only, Proceed
  <2>4. figures'[j] = [figures[j] EXCEPT !.action = a]
    BY <1>5, <2>1 DEF CountActions
  <2>5. /\ DOMAIN figures'[j] = {"categories", "urgencies", "action"}
        /\ figures'[j].action = a
        /\ figures'[j].categories = figures[j].categories
        /\ figures'[j].urgencies = figures[j].urgencies
    BY <1>0, <2>4
  <2>6. Progress(task'[j], figures'[j], Rows(subject'[j]))
    BY <1>0, <2>2, <2>3, <2>5 DEF Progress
  <2>7. QED
    BY <2>3, <2>5, <2>6, OneJob
<1>6. ASSUME NEW j \in Jobs, EndJob(j), UNCHANGED reports,
             \A k \in Jobs \ {j} : document'[k] = document[k],
             \/ document'[j] \in {document[j], NoDocument}
             \/ Bracket(document'[j], Rows(document'[j].property))
      PROVE  FiguresInv'
  <2>1. Only(j) /\ task'[j] = "idle" /\ figures'[j] = Blank
    BY <1>6 DEF EndJob, Only, Proceed
  <2>2. DOMAIN figures'[j] = {"categories", "urgencies", "action"}
    BY <2>1 DEF Blank
  <2>3. Progress(task'[j], figures'[j], Rows(subject'[j]))
    BY <2>1 DEF Progress
  <2>4. QED
    BY <1>6, <2>1, <2>2, <2>3, OneJob
<1>7. ASSUME NEW j \in Jobs, CommitDocument(j) PROVE FiguresInv'
  <2>1. /\ task[j] = "narrating" /\ EndJob(j) /\ UNCHANGED reports
        /\ document'[j] = Rendered(subject[j], figures[j])
        /\ \A k \in Jobs \ {j} : document'[k] = document[k]
    BY <1>7 DEF CommitDocument
  <2>2. Progress("narrating", figures[j], Rows(subject[j])) /\ Rows(subject[j]) \in Nat
    BY <1>0, <2>1
  <2>3. Bracket(document'[j], Rows(document'[j].property))
    BY <2>1, <2>2, RenderedBracket
  <2>4. QED
    BY <1>6, <2>1, <2>3
<1>8. ASSUME NEW j \in Jobs, JobFails(j) PROVE FiguresInv'
  BY <1>6, <1>8 DEF JobFails
<1>9. QED
  BY <1>1, <1>2, <1>3, <1>4, <1>5, <1>7, <1>8 DEF FiguresNext, JobAdvances

\* The commits of the other processes, and the searches.
LEMMA OthersStep ==
  ASSUME FiguresInv, TypeOK', UNCHANGED figureVars,
         CommitReport \/ CommitOverride \/ UNCHANGED reports
  PROVE  FiguresInv'
<1>1. TableFinite' /\ \A p : Rows(p)' \in Nat /\ Rows(p) <= Rows(p)'
  BY RowsGrow DEF FiguresInv
<1>2. TableFinite /\ StatementsAhead /\ DocumentsStand
  BY DEF FiguresInv
<1>3. \A p : Rows(p) \in Nat /\ Rows(p)' \in Nat
  BY <1>1, <1>2, RowsAreFinite
<1>4. UNCHANGED <<task, subject, figures, document>>
  BY DEF figureVars
<1>5. StatementsAhead'
  <2>1. ASSUME NEW j \in Jobs PROVE Progress(task[j], figures[j], Rows(subject[j])')
    <3>1. PICK p : p = subject[j]
      OBVIOUS
    <3>2. subject'[j] = p
      BY <1>4, <3>1
    <3>3. Progress(task[j], figures[j], Rows(p)')
      BY <1>1, <1>2, <1>3, <3>1, ProgressStays DEF StatementsAhead
    <3>4. Rows(subject[j])' = Rows(p)'
      BY <3>2 DEF Rows, Counted
    <3>5. QED
      BY <3>3, <3>4
  <2>2. QED
    BY <1>2, <1>4, <2>1 DEF StatementsAhead
<1>6. DocumentsStand'
  BY <1>1, <1>2, <1>3, <1>4, BracketStays DEF DocumentsStand
<1>7. QED
  BY <1>1, <1>5, <1>6 DEF FiguresInv

LEMMA FiguresStart == Init => FiguresInv
<1>. SUFFICES ASSUME Init PROVE FiguresInv
  OBVIOUS
<1>1. TypeOK
  BY InvInit DEF IInv
<1>2. TableFinite
  BY FS_EmptySet DEF Init, TableFinite
<1>3. StatementsAhead /\ DocumentsStand
  BY DEF Init, FiguresInit, StatementsAhead, DocumentsStand, Progress, Blank
<1>4. QED
  BY <1>1, <1>2, <1>3 DEF FiguresInv

LEMMA FiguresStep == FiguresInv /\ [Next]_vars => FiguresInv'
<1>. SUFFICES ASSUME FiguresInv, [Next]_vars PROVE FiguresInv'
  OBVIOUS
<1>1. TypeOK'
  BY TypeStep DEF FiguresInv
<1>2. CASE FiguresNext
  BY <1>1, <1>2, JobsStep
<1>3. CASE Elsewhere /\ UNCHANGED <<searchVars, figureVars>>
  BY <1>1, <1>3, OthersStep DEF Elsewhere
<1>4. CASE SearchNext /\ UNCHANGED figureVars
  <2>1. UNCHANGED reports
    BY <1>4 DEF SearchNext, RequestAdvances, Arrive, RequestConnects, Authenticate,
       Forget, RecordAudit, Retrieve, Token, Finish, Close, Collect, RequestFails,
       Disconnect
  <2>2. QED
    BY <1>1, <1>4, <2>1, OthersStep
<1>5. CASE UNCHANGED vars
  BY <1>1, <1>5, OthersStep DEF vars
<1>6. QED
  BY <1>2, <1>3, <1>4, <1>5 DEF Next

\* The total of a document is the sum of its categories, its urgencies count every
\* report that its categories count, and nothing counts a report that does not
\* exist, whatever is committed between the three statements of compute_stats.
THEOREM FiguresAreBracketed == Spec => []FiguresBracketed
<1>1. FiguresInv => FiguresBracketed
  BY DEF FiguresInv, DocumentsStand, Bracket, Rows, FiguresBracketed
<1>2. QED
  BY <1>1, FiguresStart, FiguresStep, PTL DEF Spec
=============================================================================
