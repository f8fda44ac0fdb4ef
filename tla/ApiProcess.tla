----------------------------- MODULE ApiProcess -----------------------------
(***************************************************************************)
(* One API process: searches and monthly generations, run by one event     *)
(* loop over one pool of connections (app/api/main.py, app/core/di.py),    *)
(* while the worker commits reports and reviewers override them.           *)
(***************************************************************************)
EXTENDS SearchStream, MonthlyFigures

vars == <<reports, conn, searchVars, figureVars>>

Init ==
  /\ reports = [i \in {} |-> [property |-> {}, chunks |-> 0, label |-> {}]]
  /\ conn = {}
  /\ SearchInit
  /\ FiguresInit

\* Commits of the other processes.
Elsewhere == (CommitReport \/ CommitOverride) /\ UNCHANGED conn

Next ==
  \/ Elsewhere   /\ UNCHANGED <<searchVars, figureVars>>
  \/ SearchNext  /\ UNCHANGED figureVars
  \/ FiguresNext /\ UNCHANGED searchVars

Spec == Init /\ [][Next]_vars

(***************************************************************************)
(* Fairness.  The event loop resumes every task that can go on: statements *)
(* and LLM calls return or raise, an answer is at most max_tokens long, a  *)
(* statement waits for a connection at most pool_timeout, and a generator  *)
(* nobody refers to is closed.  Nothing makes a request arrive, or fail    *)
(* otherwise.                                                              *)
(***************************************************************************)
Fairness ==
  /\ \A r \in Requests : WF_vars(RequestAdvances(r) /\ UNCHANGED figureVars)
  /\ \A j \in Jobs     : WF_vars(JobAdvances(j) /\ UNCHANGED searchVars)

FairSpec == Spec /\ Fairness

-----------------------------------------------------------------------------
(* Properties. *)

\* The tables, sessions and responses have the shape of their schemas.
TypeOK ==
  /\ DOMAIN reports \subseteq Ids
  /\ \A i \in DOMAIN reports : reports[i] \in Row
  /\ conn     \subseteq Requests \cup Jobs
  /\ stage    \in [Requests -> Stages]
  /\ asked    \in [Requests -> [user   : Users \cup {NoUser},
                                filter : Properties \cup {NoFilter}]]
  /\ stream   \in [Requests -> Seq(Event)]
  /\ audit    \subseteq Requests
  /\ task     \in [Jobs -> Tasks]
  /\ subject  \in [Jobs -> Properties \cup {NoProperty}]
  /\ DOMAIN figures = Jobs /\ DOMAIN document = Jobs

\* Whoever asks, whatever filter is set and whatever the LLM cites, sources and
\* done name only existing reports of properties within the user's scope
\* (basic design 3; a report committed during the answer is no exception).
OnlyPermitted ==
  \A r \in Requests : \A k \in 1..Len(stream[r]) :
    stream[r][k].type \in {"sources", "done"} =>
      \A i \in stream[r][k].ids :
        /\ i \in DOMAIN reports
        /\ reports[i].property \in PermittedTo(asked[r].user)

\* Verification comes after the stream and on a later state of the table, yet
\* never refuses a citation of a report that was sent as a source.
CitedSourcesStand ==
  \A r \in Requests : LET s == stream[r] IN
    s # <<>> /\ s[Len(s)].type = "done" =>
      \A k \in 1..Len(s) : s[k].type = "token" =>
        s[k].ids \cap s[1].ids \subseteq s[Len(s)].ids

\* The pool is never overdrawn, and whatever way a request or a job ends its
\* connection goes back: failures, timeouts and clients that leave drain nothing.
NoConnectionLeaks ==
  /\ Cardinality(conn) <= PoolSize
  /\ \A a \in conn : IF a \in Requests THEN stage[a] # "idle" ELSE task[a] # "idle"

\* The client side of searches: the contract of the endpoint.
ImplementsContract == Contract!Spec

\* The figures of a document come from three states of the table.  Reports are
\* only added, so the tables of a document may differ but in one direction: the
\* urgencies count every report that the categories count, and neither counts a
\* report that does not exist.
FiguresBracketed ==
  \A j \in Jobs : LET d == document[j] IN d # NoDocument =>
    /\ d.total = Total(d.categories)
    /\ d.total <= Total(d.urgencies)
    /\ Total(d.urgencies) <= Cardinality(Counted(d.property))
    /\ d.action <= Cardinality(Counted(d.property))

\* Every request and every job ends and frees its slot, also when the pool is
\* exhausted by answers in progress or the client has left.
EverySessionEnds ==
  /\ \A r \in Requests : stage[r] # "idle" ~> stage[r] = "idle"
  /\ \A j \in Jobs     : task[j] # "idle" ~> task[j] = "idle"
=============================================================================
