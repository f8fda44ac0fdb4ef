------------------------------ MODULE ApiStore ------------------------------
(***************************************************************************)
(* What the sessions of one API process share (app/core/db.py): the table  *)
(* of reports, which the worker and the reviewers change meanwhile, and    *)
(* the connections of the engine's pool.  A session checks a connection    *)
(* out at its first statement and gives it back when it is closed; each    *)
(* statement sees what is committed by then (READ COMMITTED).              *)
(*                                                                         *)
(* The reports of the model are those of one month.                        *)
(***************************************************************************)
EXTENDS Naturals, FiniteSets, Sequences

CONSTANTS
  Requests,   \* searches in progress at one time
  Jobs,       \* monthly generations in progress at one time
  PoolSize,   \* connections the engine's pool opens at most
  Properties, Branches, Users,
  Qa,         \* the users of the quality department
  BranchOf,   \* BranchOf[p]: the branch of a property
  HomeOf,     \* HomeOf[u]: the branch of a user, or NoBranch
  NoBranch,
  Ids,        \* ids of reports
  Labels,     \* classifications: [category, urgency, action]
  Ingestible  \* bound: rows that the worker may commit

Row == [property : Properties, chunks : Nat \ {0}, label : Labels]

ASSUME StoreAssumption ==
  /\ PoolSize \in Nat \ {0} /\ Ingestible \subseteq Row
  /\ Requests \cap Jobs = {}
  /\ Qa \subseteq Users /\ NoBranch \notin Branches
  /\ BranchOf \in [Properties -> Branches]
  /\ HomeOf \in [Users -> Branches \cup {NoBranch}]

VARIABLES
  reports,  \* committed reports: a function from ids
  conn      \* the requests and jobs that hold a connection

\* permitted_property_ids.
PermittedTo(u) ==
  IF u \in Qa THEN Properties
  ELSE {p \in Properties : BranchOf[p] = HomeOf[u]}

\* The worker commits a report with its chunks and its classification.
CommitReport ==
  \E i \in Ids \ DOMAIN reports, row \in Ingestible :
    reports' = [k \in DOMAIN reports \cup {i} |->
                  IF k = i THEN row ELSE reports[k]]

\* A reviewer's override is committed.
CommitOverride ==
  \E i \in DOMAIN reports, l \in Labels :
    reports' = [reports EXCEPT ![i].label = l]

\* The first statement of a session takes a connection from the pool.
CheckOut(a) ==
  /\ a \notin conn /\ Cardinality(conn) < PoolSize
  /\ conn' = conn \cup {a}

\* The pool is exhausted until the waiting statement times out.
Exhausted(a) == a \notin conn /\ Cardinality(conn) >= PoolSize

\* Variant: the session is not closed.
CheckIn_Leak(a) == UNCHANGED conn

\* The session is closed.
CheckIn(a) == conn' = conn \ {a}
=============================================================================
