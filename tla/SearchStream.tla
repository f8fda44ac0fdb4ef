---------------------------- MODULE SearchStream ----------------------------
(***************************************************************************)
(* Search (F-2): POST /search, its event stream and SearchService          *)
(* (app/api/routers/search.py, app/services/search.py).                    *)
(*                                                                         *)
(* A request opens three sessions one after the other: for its user, for   *)
(* its audit entry, and for the stream, which keeps its connection while   *)
(* the LLM answers.  The response has begun (200) by then, so a failure    *)
(* only ends it.  An event is [type, ids]: the reports that sources lists, *)
(* a token cites or done names.  Distances are any; of the filters the     *)
(* property stands for all.  Users, branches and properties never change.  *)
(***************************************************************************)
EXTENDS ApiStore, FiniteSetsExt

CONSTANTS
  TopK,       \* SEARCH_TOP_K
  MaxTokens,  \* bound: tokens of one answer
  NoUser, NoFilter

ASSUME SearchAssumption ==
  /\ TopK \in Nat \ {0} /\ MaxTokens \in Nat
  /\ NoUser \notin Users /\ NoFilter \notin Properties

VARIABLES
  stage,   \* stage[r]: where request r stands
  asked,   \* asked[r]: its user and its filter
  stream,  \* stream[r]: the events sent
  audit    \* requests whose audit entry is committed

searchVars == <<stage, asked, stream, audit>>

Stages == {"idle", "authenticating", "auditing", "opening", "streaming",
           "closing", "gone"}

Event == [type : {"sources", "token", "done", "no_results"}, ids : SUBSET Ids]

Nobody == [user |-> NoUser, filter |-> NoFilter]

Contract == INSTANCE SearchContract

SearchInit ==
  /\ stage  = [r \in Requests |-> "idle"]
  /\ asked  = [r \in Requests |-> Nobody]
  /\ stream = [r \in Requests |-> <<>>]
  /\ audit  = {}

-----------------------------------------------------------------------------
GoTo(r, s) == stage' = [stage EXCEPT ![r] = s]

Emit(r, type, ids) ==
  stream' = [stream EXCEPT ![r] = Append(@, [type |-> type, ids |-> ids])]

\* The request is over: connection back, slot free.
Forget(r) ==
  /\ CheckIn(r)
  /\ GoTo(r, "idle")
  /\ asked'  = [asked EXCEPT ![r] = Nobody]
  /\ stream' = [stream EXCEPT ![r] = <<>>]
  /\ audit'  = audit \ {r}

\* A request with a query, a filter and the id of a user, known or not.
Arrive(r) ==
  /\ stage[r] = "idle"
  /\ \E u \in Users \cup {NoUser}, f \in Properties \cup {NoFilter} :
       asked' = [asked EXCEPT ![r] = [user |-> u, filter |-> f]]
  /\ GoTo(r, "authenticating")
  /\ UNCHANGED <<reports, conn, stream, audit>>

Waiting(r) == stage[r] \in {"authenticating", "auditing", "opening"}

\* The first statement of each of the three sessions.
RequestConnects(r) ==
  /\ Waiting(r)
  /\ CheckOut(r)
  /\ UNCHANGED <<reports, searchVars>>

\* get_current_user; an unknown user is refused (401).
Authenticate(r) ==
  /\ stage[r] = "authenticating" /\ r \in conn
  /\ IF asked[r].user = NoUser THEN Forget(r)
     ELSE CheckIn(r) /\ GoTo(r, "auditing") /\ UNCHANGED <<asked, stream, audit>>
  /\ UNCHANGED reports

\* Variant: the entry is added to a session nobody commits.
RecordAudit_Uncommitted(r) ==
  /\ stage[r] = "auditing" /\ r \in conn
  /\ CheckIn(r) /\ GoTo(r, "opening")
  /\ UNCHANGED <<reports, asked, stream, audit>>

\* The audit entry is committed in a unit of work of its own.
RecordAudit(r) ==
  /\ stage[r] = "auditing" /\ r \in conn
  /\ audit' = audit \cup {r}
  /\ CheckIn(r) /\ GoTo(r, "opening")
  /\ UNCHANGED <<reports, asked, stream>>

-----------------------------------------------------------------------------
(* Retrieval. *)

\* Variant: a filter replaces the scope of the user.
Matching_FilterWins(u, f) ==
  {i \in DOMAIN reports :
     IF f = NoFilter THEN reports[i].property \in PermittedTo(u)
     ELSE reports[i].property = f}

\* The reports within the scope of the user and the filter.
Matching(u, f) ==
  {i \in DOMAIN reports : /\ reports[i].property \in PermittedTo(u)
                          /\ f = NoFilter \/ reports[i].property = f}

\* Variant: the rows are taken for what they are, chunks.
Hits_Chunks(u, f) ==
  LET chunks == UNION {{i} \X (1..reports[i].chunks) : i \in Matching(u, f)}
  IN  kSubset(Min({TopK, Cardinality(chunks)}), chunks)

\* hybrid_search: the TopK nearest chunks, as the reports they are of.
Hits(u, f) ==
  LET chunks == UNION {{i} \X (1..reports[i].chunks) : i \in Matching(u, f)}
      n      == Min({TopK, Cardinality(chunks)})
  IN  {{c[1] : c \in C} : C \in kSubset(n, chunks)}

\* The scope is read, the query embedded, the chunks are retrieved; without any
\* the LLM is not called.
Retrieve(r) ==
  /\ stage[r] = "opening" /\ r \in conn
  /\ \E ids \in Hits(asked[r].user, asked[r].filter) :
       IF ids = {} THEN Emit(r, "no_results", {}) /\ GoTo(r, "closing")
       ELSE Emit(r, "sources", ids) /\ GoTo(r, "streaming")
  /\ UNCHANGED <<reports, conn, asked, audit>>

-----------------------------------------------------------------------------
(* Generation. *)

\* The LLM sends a token; the citation it completes is any number.
Token(r) ==
  /\ stage[r] = "streaming" /\ Len(stream[r]) <= MaxTokens
  /\ \E ids \in {{}} \cup {{i} : i \in Ids} : Emit(r, "token", ids)
  /\ UNCHANGED <<reports, conn, stage, asked, audit>>

\* The reports that the joined answer cites.
Cited(r) == UNION {e.ids : e \in {stream[r][k] : k \in 2..Len(stream[r])}}

\* Variant: the first citation of the answer is looked up only.
Verified_FirstOnly(r) ==
  LET first == Min({k \in 2..Len(stream[r]) : stream[r][k].ids # {}} \cup {1})
  IN  {i \in stream[r][first].ids \cap DOMAIN reports :
         first > 1 /\ reports[i].property \in PermittedTo(asked[r].user)}

\* existing_report_ids: those that exist by now within the scope of the user.
Verified(r) ==
  {i \in Cited(r) \cap DOMAIN reports :
     reports[i].property \in PermittedTo(asked[r].user)}

\* The answer is complete: its citations are verified.
Finish(r) ==
  /\ stage[r] = "streaming"
  /\ Emit(r, "done", Verified(r))
  /\ GoTo(r, "closing")
  /\ UNCHANGED <<reports, conn, asked, audit>>

\* The generator ends and its session is closed.
Close(r) ==
  /\ stage[r] = "closing"
  /\ Forget(r)
  /\ UNCHANGED reports

-----------------------------------------------------------------------------
(* Failures. *)

\* A statement, the embedding or the LLM raises, or the pool's timeout: the
\* response is an error, or a stream that has begun just ends.
RequestFails(r) ==
  /\ stage[r] \notin {"idle", "closing", "gone"}
  /\ r \in conn \/ Exhausted(r)
  /\ Forget(r)
  /\ UNCHANGED reports

\* The client has left; the generator, suspended at a yield, is collected later.
Disconnect(r) ==
  /\ stage[r] \in {"streaming", "closing"}
  /\ GoTo(r, "gone")
  /\ UNCHANGED <<reports, conn, asked, stream, audit>>

\* Variant: nobody closes the abandoned generator.
Collect_Never(r) == FALSE /\ UNCHANGED <<reports, conn, searchVars>>

Collect(r) ==
  /\ stage[r] = "gone"
  /\ Forget(r)
  /\ UNCHANGED reports

RequestAdvances(r) ==
  \/ RequestConnects(r) \/ Authenticate(r) \/ RecordAudit(r) \/ Retrieve(r)
  \/ Token(r) \/ Finish(r) \/ Close(r) \/ Collect(r)
  \/ Exhausted(r) /\ RequestFails(r)

SearchNext ==
  \E r \in Requests :
    Arrive(r) \/ RequestAdvances(r) \/ RequestFails(r) \/ Disconnect(r)
=============================================================================
