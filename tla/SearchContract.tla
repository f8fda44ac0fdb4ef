--------------------------- MODULE SearchContract ---------------------------
(***************************************************************************)
(* What POST /search promises its clients (docs/03_api_design.md:95-119,   *)
(* 09 section 6): a search is in the audit log before anything is sent;    *)
(* the events come in the order sources, token*, done, or are no_results   *)
(* alone; sources are never empty; done names only reports that the answer *)
(* cites.  A response may be cut off at any point.                         *)
(***************************************************************************)
EXTENDS Naturals, Sequences

CONSTANTS Requests, Ids

VARIABLES
  stream,  \* stream[r]: the events of r's response, each [type, ids]
  audit    \* the requests whose search is in the audit log

vars == <<stream, audit>>

Event == [type : {"sources", "token", "done", "no_results"}, ids : SUBSET Ids]

LastType(s) == IF s = <<>> THEN "nothing" ELSE s[Len(s)].type

\* The types that may follow a type.
Followers(t) ==
  CASE t = "nothing"            -> {"sources", "no_results"}
    [] t \in {"sources", "token"} -> {"token", "done"}
    [] OTHER                    -> {}

\* The reports that the tokens of a stream cite.
CitedIn(s) ==
  UNION {s[i].ids : i \in {j \in 1..Len(s) : s[j].type = "token"}}

Init == stream = [r \in Requests |-> <<>>] /\ audit = {}

Record(r) == audit' = audit \cup {r} /\ UNCHANGED stream

Send(r) ==
  /\ r \in audit
  /\ \E e \in Event :
       /\ e.type \in Followers(LastType(stream[r]))
       /\ e.type = "sources" => e.ids # {}
       /\ e.type = "done" => e.ids \subseteq CitedIn(stream[r])
       /\ stream' = [stream EXCEPT ![r] = Append(@, e)]
  /\ UNCHANGED audit

Close(r) == stream' = [stream EXCEPT ![r] = <<>>] /\ audit' = audit \ {r}

Next == \E r \in Requests : Record(r) \/ Send(r) \/ Close(r)

Spec == Init /\ [][Next]_vars
=============================================================================
