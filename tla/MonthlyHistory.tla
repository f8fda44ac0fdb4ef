--------------------------- MODULE MonthlyHistory ---------------------------
(***************************************************************************)
(* MonthlyReports with a history variable: it records which requests have  *)
(* been overtaken, and no step depends on it.  With it the units of work   *)
(* implement the life cycle that MonthlyContract states.                   *)
(***************************************************************************)
EXTENDS MonthlyReports

VARIABLE late  \* clients whose report has changed since they passed their check

historyVars == <<vars, late>>

Overtaken(c) == req[c].id # 0 /\ rows'[req[c].id] # rows[req[c].id]

HistoryInit == Init /\ late = {}

HistoryNext ==
  /\ Next
  /\ late' = {c \in Clients : req'[c] = req[c] /\ (c \in late \/ Overtaken(c))}

HistorySpec == HistoryInit /\ [][HistoryNext]_historyVars

FairHistorySpec == HistorySpec /\ Fairness

\* A request to create is no request on a report yet.
Open == [c \in Clients |-> IF req[c].op = "create" THEN NoReq ELSE req[c]]

Contract == INSTANCE MonthlyContract WITH
  May  <- [u \in Users |-> {s \in Slots : MayWrite(u, s)}],
  None <- NoReq,
  open <- Open

-----------------------------------------------------------------------------
(* Properties. *)

\* Every commit of a unit of work is one step in the life of its report: complete,
\* save or approve, exact unless another commit came between check and write
\* (monthly.py:6, the state machine; its checks and writes are statements of their
\* own).
ImplementsContract == Contract!Spec
=============================================================================
