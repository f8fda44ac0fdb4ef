--------------------------- MODULE IngestContract ---------------------------
(***************************************************************************)
(* What report ingestion promises, whatever happens to workers, queue and  *)
(* network: a source_key is registered at most once; an urgent report is   *)
(* announced before it is registered and never after; a message is         *)
(* acknowledged only when everything it names is registered, and a message *)
(* that is not acknowledged is still offered or parked for the operator.   *)
(* IngestPipeline implements this specification.                           *)
(***************************************************************************)
EXTENDS Naturals, Sequences

CONSTANTS
  Messages,   \* event messages
  Sources,    \* source_key values
  SourcesOf   \* SourcesOf[m]: the source_keys message m stands for

VARIABLES
  status,     \* message: unsent, offered, acked or parked
  reports,    \* the registered reports, in order
  notified    \* notified[s]: announcements made for s

vars == <<status, reports, notified>>

Registered(s) == \E i \in 1..Len(reports) : reports[i].source = s

Init ==
  /\ status   = [m \in Messages |-> "unsent"]
  /\ reports  = <<>>
  /\ notified = [s \in Sources |-> 0]

Move(m, from, to) ==
  /\ status[m] = from
  /\ status' = [status EXCEPT ![m] = to]
  /\ UNCHANGED <<reports, notified>>

Offer(m) == Move(m, "unsent", "offered")
Park(m)  == Move(m, "offered", "parked")
Retry(m) == Move(m, "parked", "offered")

Acknowledge(m) ==
  /\ \A s \in SourcesOf[m] : Registered(s)
  /\ Move(m, "offered", "acked")

Announce(s) ==
  /\ ~Registered(s)
  /\ notified' = [notified EXCEPT ![s] = @ + 1]
  /\ UNCHANGED <<status, reports>>

Register(s, u) ==
  /\ ~Registered(s)
  /\ u = "high" => notified[s] > 0
  /\ reports' = Append(reports, [source |-> s, urgency |-> u])
  /\ UNCHANGED <<status, notified>>

Next ==
  \/ \E m \in Messages : Offer(m) \/ Park(m) \/ Retry(m) \/ Acknowledge(m)
  \/ \E s \in Sources : Announce(s) \/ \E u \in {"high", "low"} : Register(s, u)

Spec == Init /\ [][Next]_vars
=============================================================================
