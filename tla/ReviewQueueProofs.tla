-------------------------- MODULE ReviewQueueProofs --------------------------
(* Proofs about the overrides of ReviewQueue, for every value of its constants. *)
EXTENDS ReviewQueue, TLAPS

-----------------------------------------------------------------------------
(* The inductive invariant. *)

\* The types of what overrides and ingestion work with.
Types ==
  /\ DOMAIN reports \subseteq 1..MaxId
  /\ \A i \in DOMAIN reports : reports[i] \in Row
  /\ nextId   \in 1..(MaxId + 1)
  /\ drawn    \in [Loaders -> 0..MaxId]
  /\ step     \in [Clerks -> {"idle", "loaded", "written"}]
  /\ target   \in [Clerks -> 0..MaxId]
  /\ decision \in [Clerks -> Decision \cup {NoDecision}]
  /\ loaded   \in [Clerks -> Row \cup {NoRow}]
  /\ image    \in [Clerks -> Row \cup {NoRow}]

\* An id is drawn by one transaction only, and has no report before its commit.
IdsAreFresh ==
  /\ \A i \in DOMAIN reports : i < nextId
  /\ \A l \in Loaders : drawn[l] < nextId /\ drawn[l] \notin DOMAIN reports
  /\ \A l, k \in Loaders : l # k /\ drawn[l] # 0 => drawn[l] # drawn[k]

\* The audit log names committed reports.
AuditInRange == \A a \in audit : a.id \in DOMAIN reports

Verified(i) == reports[i].status = "human_verified"

\* An override works on a report; until somebody verifies that one, it is as the
\* override has read it.
CopyIsCurrent(c) ==
  /\ step[c] = "idle" => target[c] = 0 /\ image[c] = NoRow
  /\ step[c] = "loaded" => image[c] = NoRow
  /\ step[c] # "idle" =>
       /\ target[c] \in DOMAIN reports /\ decision[c] \in Decision /\ loaded[c] \in Row
       /\ loaded[c].status = "human_verified" => Verified(target[c])
       /\ Verified(target[c]) \/ loaded[c] = reports[target[c]]

\* A written column is what this user decided, or what others did before.
ImageIsChosen(c) ==
  step[c] = "written" =>
    IF image[c] = NoRow THEN Verified(target[c])
    ELSE LET row == reports[target[c]] IN
      /\ image[c].status = "human_verified"
      /\ \/ image[c].category = decision[c].category
         \/ image[c].category = row.category /\ Verified(target[c])
      /\ \/ image[c].urgency = decision[c].urgency
         \/ image[c].urgency = row.urgency /\ Verified(target[c])

Clerical == \A c \in Clerks : CopyIsCurrent(c) /\ ImageIsChosen(c)

LocksExclude ==
  \A c, d \in Clerks :
    c # d /\ image[c] # NoRow /\ image[d] # NoRow => target[c] # target[d]

IInv == /\ Types /\ IdsAreFresh /\ AuditInRange /\ Clerical /\ LocksExclude
        /\ VerifiedIsAudited /\ EveryColumnWasChosen

-----------------------------------------------------------------------------
(* The flush. *)

\* A row with a decision set on it.
Set(old, d) == [old EXCEPT !.category = d.category, !.urgency = d.urgency,
                           !.status = "human_verified"]

\* What an override writes over the row as it is now: the columns it has changed.
Flushed(x, old, now, d) ==
  /\ x \in Row
  /\ x.category = IF d.category = old.category THEN now.category ELSE d.category
  /\ x.urgency = IF d.urgency = old.urgency THEN now.urgency ELSE d.urgency
  /\ x.status = IF old.status = "human_verified" THEN now.status ELSE "human_verified"

LEMMA Flush ==
  ASSUME NEW old \in Row, NEW now \in Row, NEW d \in Decision, NEW x,
         x = NetChange(old, Set(old, d), now)
  PROVE  Flushed(x, old, now, d)
<1>0. PICK new : new = Set(old, d) /\ x = NetChange(old, new, now)
  OBVIOUS
<1>1. /\ DOMAIN now = {"category", "urgency", "status"}
      /\ now.category \in Categories /\ now.urgency \in Urgencies
      /\ now.status \in {"auto_classified", "needs_review", "human_verified"}
      /\ d.category \in Categories /\ d.urgency \in Urgencies
  BY DEF Row, Decision
<1>2. /\ new.category = d.category /\ new.urgency = d.urgency
      /\ new.status = "human_verified"
  BY <1>0 DEF Row, Set
<1>3. x = [f \in {"category", "urgency", "status"} |->
             IF new[f] = old[f] THEN now[f] ELSE new[f]]
  BY <1>0, <1>1 DEF NetChange
<1>4. /\ x.category = IF d.category = old.category THEN now.category ELSE d.category
      /\ x.urgency = IF d.urgency = old.urgency THEN now.urgency ELSE d.urgency
      /\ x.status = IF old.status = "human_verified" THEN now.status
                    ELSE "human_verified"
  BY <1>2, <1>3
<1>5. x \in Row
  <2>1. x = [f \in {"category", "urgency", "status"} |-> x[f]]
    BY <1>3
  <2>2. QED
    BY <1>1, <1>4, <2>1 DEF Row
<1>6. QED
  BY <1>4, <1>5 DEF Flushed

-----------------------------------------------------------------------------
(* What a step does to the reports. *)

\* A new report, without decisions on it.
LEMMA NewReport ==
  ASSUME IInv, NEW l \in Loaders, CommitInsert(l)
  PROVE  /\ DOMAIN reports' = DOMAIN reports \cup {drawn[l]}
         /\ drawn[l] \notin DOMAIN reports /\ drawn[l] \in 1..MaxId
         /\ \A i \in DOMAIN reports : reports'[i] = reports[i]
         /\ reports'[drawn[l]] \in Row
         /\ reports'[drawn[l]].status # "human_verified"
<1>1. PICK d \in Decision, s \in {"auto_classified", "needs_review"} :
        reports' = [i \in DOMAIN reports \cup {drawn[l]} |->
                      IF i = drawn[l]
                        THEN [category |-> d.category, urgency |-> d.urgency,
                              status |-> s]
                        ELSE reports[i]]
  BY DEF CommitInsert
<1>2. drawn[l] \notin DOMAIN reports /\ drawn[l] \in 1..MaxId
  BY ReviewAssumption DEF CommitInsert, IInv, IdsAreFresh, Types
<1>3. QED
  BY <1>1, <1>2 DEF Decision, Row

\* A decided report.
LEMMA Decided ==
  ASSUME IInv, NEW c \in Clerks, CommitOverride(c)
  PROVE  /\ target[c] \in DOMAIN reports /\ decision[c] \in Decision
         /\ DOMAIN reports' = DOMAIN reports
         /\ \A i \in DOMAIN reports : i # target[c] => reports'[i] = reports[i]
         /\ image[c] = NoRow => reports' = reports
         /\ reports'[target[c]] \in Row
         /\ reports'[target[c]].status = "human_verified"
         /\ LET row == reports[target[c]] new == reports'[target[c]] IN
            /\ \/ new.category = decision[c].category
               \/ new.category = row.category /\ Verified(target[c])
            /\ \/ new.urgency = decision[c].urgency
               \/ new.urgency = row.urgency /\ Verified(target[c])
<1>1. /\ target[c] \in DOMAIN reports /\ decision[c] \in Decision
      /\ reports[target[c]] \in Row /\ image[c] \in Row \cup {NoRow}
      /\ ImageIsChosen(c) /\ step[c] = "written"
  BY DEF CommitOverride, IInv, Clerical, CopyIsCurrent, Types
<1>2. CASE image[c] = NoRow
  BY <1>1, <1>2 DEF CommitOverride, ImageIsChosen, Verified
<1>3. CASE image[c] # NoRow
  <2>1. reports' = [reports EXCEPT ![target[c]] = image[c]]
    BY <1>3 DEF CommitOverride
  <2>2. /\ DOMAIN reports' = DOMAIN reports /\ reports'[target[c]] = image[c]
        /\ \A i \in DOMAIN reports : i # target[c] => reports'[i] = reports[i]
    BY <1>1, <2>1
  <2>3. QED
    BY <1>1, <1>3, <2>2 DEF ImageIsChosen
<1>4. QED
  BY <1>2, <1>3

\* A report keeps its id for good, and once verified it stays so.
Evolves ==
  /\ DOMAIN reports \subseteq DOMAIN reports'
  /\ \A i \in DOMAIN reports : Verified(i) => reports'[i].status = "human_verified"

LEMMA ReportsStep == IInv /\ [Next]_vars => Evolves
<1>. SUFFICES ASSUME IInv, [Next]_vars PROVE Evolves
  OBVIOUS
<1>1. ASSUME NEW l \in Loaders, CommitInsert(l) PROVE Evolves
  BY <1>1, NewReport DEF Evolves, Verified
<1>2. ASSUME NEW c \in Clerks, CommitOverride(c) PROVE Evolves
  BY <1>2, Decided DEF Evolves, Verified
<1>3. CASE UNCHANGED reports
  BY <1>3 DEF Evolves, Verified
<1>4. QED
  BY <1>1, <1>2, <1>3
     DEF Next, vars, InsertAgain, Insert, AbortInsert, LoadAnalysis, WriteAnalysis,
         AbortOverride, FirstPage, NextPage, Close

-----------------------------------------------------------------------------
(* The conjuncts. *)

\* Nothing but the pagers changes.
Still == UNCHANGED <<reports, nextId, drawn, audit, step, target, decision, loaded, image>>

LEMMA StillStep == IInv /\ Still => IInv'
BY DEF IInv, Still, Types, IdsAreFresh, AuditInRange, Clerical, CopyIsCurrent,
       ImageIsChosen, Verified, LocksExclude, VerifiedIsAudited,
       EveryColumnWasChosen, DecisionsOn

LEMMA TypesStep == IInv /\ [Next]_vars => Types'
<1>. SUFFICES ASSUME IInv, [Next]_vars PROVE Types'
  OBVIOUS
<1>. USE ReviewAssumption DEF Go, clerkVars, ingestVars
<1>0. Types
  BY DEF IInv
<1>1. CASE InsertAgain
  BY <1>0, <1>1 DEF InsertAgain, Types
<1>2. ASSUME NEW l \in Loaders, Insert(l) PROVE Types'
  BY <1>0, <1>2 DEF Insert, Types
<1>3. ASSUME NEW l \in Loaders, CommitInsert(l) PROVE Types'
  <2>1. /\ DOMAIN reports' \subseteq 1..MaxId
        /\ \A i \in DOMAIN reports' : reports'[i] \in Row
    BY <1>0, <1>3, NewReport DEF Types
  <2>2. drawn' \in [Loaders -> 0..MaxId]
    BY <1>0, <1>3 DEF CommitInsert, Types
  <2>3. UNCHANGED <<nextId, step, target, decision, loaded, image>>
    BY <1>3 DEF CommitInsert
  <2>4. QED
    BY <1>0, <2>1, <2>2, <2>3 DEF Types
<1>4. ASSUME NEW l \in Loaders, AbortInsert(l) PROVE Types'
  BY <1>0, <1>4 DEF AbortInsert, Types
<1>5. ASSUME NEW c \in Clerks, LoadAnalysis(c) PROVE Types'
  BY <1>0, <1>5 DEF LoadAnalysis, Types
<1>6. ASSUME NEW c \in Clerks, WriteAnalysis(c) PROVE Types'
  <2>1. /\ loaded[c] \in Row /\ decision[c] \in Decision
        /\ reports[target[c]] \in Row
    BY <1>0, <1>6 DEF WriteAnalysis, IInv, Clerical, CopyIsCurrent, Types
  <2>2. NetChange(loaded[c], Confirmed(c), reports[target[c]]) \in Row
    <3>1. PICK x : x = NetChange(loaded[c], Confirmed(c), reports[target[c]])
      OBVIOUS
    <3>2. x = NetChange(loaded[c], Set(loaded[c], decision[c]), reports[target[c]])
      BY <3>1 DEF Confirmed, Set
    <3>3. x \in Row
      BY <2>1, <3>2, Flush DEF Flushed
    <3>4. QED
      BY <3>1, <3>3
  <2>3. QED
    BY <1>0, <1>6, <2>2 DEF WriteAnalysis, Types
<1>7. ASSUME NEW c \in Clerks, EndOverride(c), UNCHANGED <<nextId, drawn>>,
             DOMAIN reports' = DOMAIN reports,
             \A i \in DOMAIN reports : reports'[i] \in Row
      PROVE  Types'
  BY <1>0, <1>7 DEF EndOverride, Types
<1>8. ASSUME NEW c \in Clerks, CommitOverride(c) PROVE Types'
  <2>1. \A i \in DOMAIN reports : reports'[i] \in Row
    BY <1>0, <1>8, Decided DEF Types
  <2>2. QED
    BY <1>7, <1>8, <2>1, Decided DEF CommitOverride
<1>9. ASSUME NEW c \in Clerks, AbortOverride(c) PROVE Types'
  BY <1>0, <1>7, <1>9 DEF AbortOverride, Types
<1>10. CASE Still
  BY <1>10, StillStep DEF IInv
<1>11. QED
  BY <1>1, <1>2, <1>3, <1>4, <1>5, <1>6, <1>8, <1>9, <1>10
     DEF Next, vars, FirstPage, NextPage, Close, Still

\* Ids are drawn from a sequence that only grows.
LEMMA IdsStep == IInv /\ [Next]_vars => IdsAreFresh'
<1>. SUFFICES ASSUME IInv, [Next]_vars PROVE IdsAreFresh'
  OBVIOUS
<1>. USE DEF clerkVars, ingestVars
<1>0. /\ IdsAreFresh /\ nextId \in Nat \ {0} /\ drawn \in [Loaders -> Nat]
      /\ DOMAIN reports \subseteq Nat \ {0}
  BY ReviewAssumption DEF IInv, Types
<1>1. CASE InsertAgain
  BY <1>0, <1>1 DEF InsertAgain, IdsAreFresh
<1>2. ASSUME NEW l \in Loaders, Insert(l) PROVE IdsAreFresh'
  BY <1>0, <1>2 DEF Insert, IdsAreFresh
<1>3. ASSUME NEW l \in Loaders, CommitInsert(l) PROVE IdsAreFresh'
  <2>1. /\ DOMAIN reports' = DOMAIN reports \cup {drawn[l]}
        /\ drawn' = [drawn EXCEPT ![l] = 0] /\ nextId' = nextId /\ drawn[l] # 0
    BY <1>3, NewReport DEF CommitInsert
  <2>2. \A i \in DOMAIN reports' : i < nextId'
    BY <1>0, <2>1 DEF IdsAreFresh
  <2>3. \A k \in Loaders : drawn'[k] < nextId' /\ drawn'[k] \notin DOMAIN reports'
    BY <1>0, <2>1 DEF IdsAreFresh
  <2>4. \A k, m \in Loaders : k # m /\ drawn'[k] # 0 => drawn'[k] # drawn'[m]
    BY <1>0, <2>1 DEF IdsAreFresh
  <2>5. QED
    BY <2>2, <2>3, <2>4 DEF IdsAreFresh
<1>4. ASSUME NEW l \in Loaders, AbortInsert(l) PROVE IdsAreFresh'
  BY <1>0, <1>4 DEF AbortInsert, IdsAreFresh
<1>5. ASSUME NEW c \in Clerks, CommitOverride(c) PROVE IdsAreFresh'
  <2>1. DOMAIN reports' = DOMAIN reports /\ UNCHANGED <<nextId, drawn>>
    BY <1>5, Decided DEF CommitOverride
  <2>2. QED
    BY <1>0, <2>1 DEF IdsAreFresh
<1>6. CASE UNCHANGED <<reports, nextId, drawn>>
  BY <1>0, <1>6 DEF IdsAreFresh
<1>7. QED
  BY <1>1, <1>2, <1>3, <1>4, <1>5, <1>6
     DEF Next, vars, LoadAnalysis, WriteAnalysis, AbortOverride, FirstPage, NextPage,
         Close

\* Two clerks never hold one row.
LEMMA LockStep == IInv /\ [Next]_vars => LocksExclude'
<1>. SUFFICES ASSUME IInv, [Next]_vars PROVE LocksExclude'
  OBVIOUS
<1>. USE DEF clerkVars, ingestVars
<1>0. /\ LocksExclude /\ target \in [Clerks -> 0..MaxId]
      /\ image \in [Clerks -> Row \cup {NoRow}]
      /\ \A c \in Clerks : step[c] \in {"idle", "loaded"} => image[c] = NoRow
  BY DEF IInv, Types, Clerical, CopyIsCurrent
<1>1. ASSUME NEW c \in Clerks, LoadAnalysis(c) PROVE LocksExclude'
  BY <1>0, <1>1 DEF LoadAnalysis, LocksExclude
<1>2. ASSUME NEW c \in Clerks, WriteAnalysis(c) PROVE LocksExclude'
  BY <1>0, <1>2 DEF WriteAnalysis, RowFree, LocksExclude
<1>3. ASSUME NEW c \in Clerks, EndOverride(c) PROVE LocksExclude'
  BY <1>0, <1>3 DEF EndOverride, LocksExclude
<1>4. CASE UNCHANGED <<target, image>>
  BY <1>0, <1>4 DEF LocksExclude
<1>5. QED
  BY <1>1, <1>2, <1>3, <1>4
     DEF Next, vars, InsertAgain, Insert, CommitInsert, AbortInsert, CommitOverride,
         AbortOverride, FirstPage, NextPage, Close

\* What the others commit leaves the copy and the image of an override as they
\* should be.
LEMMA OthersClerical ==
  ASSUME IInv, NEW d \in Clerks, Evolves,
         step'[d] = step[d], target'[d] = target[d], decision'[d] = decision[d],
         loaded'[d] = loaded[d], image'[d] = image[d],
         step[d] # "idle" =>
           \/ reports'[target[d]] = reports[target[d]]
           \/ reports'[target[d]].status = "human_verified" /\ image[d] = NoRow
  PROVE  CopyIsCurrent(d)' /\ ImageIsChosen(d)'
<1>1. CopyIsCurrent(d) /\ ImageIsChosen(d)
  BY DEF IInv, Clerical
<1>2. CopyIsCurrent(d)'
  BY <1>1 DEF CopyIsCurrent, Evolves, Verified
<1>3. ImageIsChosen(d)'
  BY <1>1 DEF CopyIsCurrent, ImageIsChosen, Evolves, Verified
<1>4. QED
  BY <1>2, <1>3

LEMMA ClericalStep == IInv /\ [Next]_vars => Clerical'
<1>. SUFFICES ASSUME IInv, [Next]_vars PROVE Clerical'
  OBVIOUS
<1>. USE DEF Go, clerkVars, ingestVars
<1>0. /\ Types /\ Clerical /\ Evolves
  BY ReportsStep DEF IInv
<1>1. ASSUME NEW l \in Loaders, CommitInsert(l) PROVE Clerical'
  <2>1. \A d \in Clerks : step[d] # "idle" => reports'[target[d]] = reports[target[d]]
    BY <1>0, <1>1, NewReport DEF Clerical, CopyIsCurrent
  <2>2. \A d \in Clerks : CopyIsCurrent(d)' /\ ImageIsChosen(d)'
    BY <1>0, <1>1, <2>1, OthersClerical DEF CommitInsert
  <2>3. QED
    BY <2>2 DEF Clerical
<1>2. ASSUME NEW c \in Clerks, LoadAnalysis(c) PROVE Clerical'
  <2>1. PICK i \in DOMAIN reports, d \in Decision :
          /\ target'   = [target EXCEPT ![c] = i]
          /\ decision' = [decision EXCEPT ![c] = d]
          /\ loaded'   = [loaded EXCEPT ![c] = reports[i]]
    BY <1>2 DEF LoadAnalysis
  <2>2. /\ step'[c] = "loaded" /\ target'[c] = i /\ decision'[c] = d
        /\ loaded'[c] = reports[i] /\ image'[c] = NoRow /\ reports[i] \in Row
        /\ UNCHANGED <<reports, image>>
    BY <1>0, <1>2, <2>1 DEF LoadAnalysis, Types, Clerical, CopyIsCurrent
  <2>3. CopyIsCurrent(c)' /\ ImageIsChosen(c)'
    BY <2>2 DEF CopyIsCurrent, ImageIsChosen, Verified
  <2>4. \A e \in Clerks \ {c} : CopyIsCurrent(e)' /\ ImageIsChosen(e)'
    BY <1>0, <1>2, <2>1, OthersClerical DEF LoadAnalysis, Types
  <2>5. QED
    BY <2>3, <2>4 DEF Clerical
<1>3. ASSUME NEW c \in Clerks, WriteAnalysis(c) PROVE Clerical'
  <2>0. PICK row : row = reports[target[c]]
    OBVIOUS
  <2>1. /\ step[c] = "loaded" /\ CopyIsCurrent(c) /\ target[c] \in DOMAIN reports
        /\ loaded[c] \in Row /\ decision[c] \in Decision /\ row \in Row
        /\ image[c] = NoRow
    BY <1>0, <1>3, <2>0 DEF WriteAnalysis, Clerical, CopyIsCurrent, Types
  <2>2. /\ step'[c] = "written" /\ UNCHANGED <<reports, target, decision, loaded>>
    BY <1>0, <1>3 DEF WriteAnalysis, Types
  <2>3. CopyIsCurrent(c)'
    BY <2>1, <2>2 DEF CopyIsCurrent, Verified
  <2>4. ImageIsChosen(c)'
    <3>1. CASE Confirmed(c) = loaded[c]
      <4>1. loaded[c].status = "human_verified"
        BY <2>1, <3>1 DEF Row, Confirmed
      <4>2. image'[c] = NoRow /\ Verified(target[c])
        BY <1>3, <2>1, <3>1, <4>1 DEF WriteAnalysis, CopyIsCurrent
      <4>3. Verified(target[c])'
        BY <2>2, <4>2 DEF Verified
      <4>4. QED
        BY <4>2, <4>3 DEF ImageIsChosen
    <3>2. CASE Confirmed(c) # loaded[c]
      <4>1. PICK x : x = NetChange(loaded[c], Confirmed(c), row)
        OBVIOUS
      <4>2. image'[c] = x
        BY <1>0, <1>3, <2>0, <3>2, <4>1 DEF WriteAnalysis, Types
      <4>3. PICK old \in Row, d \in Decision : old = loaded[c] /\ d = decision[c]
        BY <2>1
      <4>4. x = NetChange(old, Set(old, d), row)
        BY <4>1, <4>3 DEF Confirmed, Set
      <4>5. Flushed(x, old, row, d)
        BY <2>1, <4>4, Flush
      <4>6. x # NoRow
        BY <4>5, ReviewAssumption DEF Flushed
      <4>7. QED
        BY <2>0, <2>1, <2>2, <4>2, <4>3, <4>5, <4>6
           DEF Flushed, ImageIsChosen, CopyIsCurrent, Verified
    <3>3. QED
      BY <3>1, <3>2
  <2>5. \A e \in Clerks \ {c} : CopyIsCurrent(e)' /\ ImageIsChosen(e)'
    <3>1. \A e \in Clerks \ {c} : step'[e] = step[e] /\ image'[e] = image[e]
      BY <1>0, <1>3 DEF WriteAnalysis, Types
    <3>2. QED
      BY <1>0, <2>2, <3>1, OthersClerical
  <2>6. QED
    BY <2>3, <2>4, <2>5 DEF Clerical
<1>4. ASSUME NEW c \in Clerks, EndOverride(c),
             \A e \in Clerks \ {c} : step[e] # "idle" =>
               \/ reports'[target[e]] = reports[target[e]]
               \/ reports'[target[e]].status = "human_verified" /\ image[e] = NoRow
      PROVE  Clerical'
  <2>1. CopyIsCurrent(c)' /\ ImageIsChosen(c)'
    BY <1>0, <1>4 DEF EndOverride, Types, CopyIsCurrent, ImageIsChosen
  <2>2. \A e \in Clerks \ {c} :
          /\ step'[e] = step[e] /\ target'[e] = target[e] /\ decision'[e] = decision[e]
          /\ loaded'[e] = loaded[e] /\ image'[e] = image[e]
    BY <1>0, <1>4 DEF EndOverride, Types
  <2>3. \A e \in Clerks \ {c} : CopyIsCurrent(e)' /\ ImageIsChosen(e)'
    BY <1>0, <1>4, <2>2, OthersClerical
  <2>4. QED
    BY <2>1, <2>3 DEF Clerical
<1>5. ASSUME NEW c \in Clerks, CommitOverride(c) PROVE Clerical'
  <2>1. ASSUME NEW e \in Clerks \ {c}, step[e] # "idle"
        PROVE  \/ reports'[target[e]] = reports[target[e]]
               \/ reports'[target[e]].status = "human_verified" /\ image[e] = NoRow
    <3>1. target[e] \in DOMAIN reports
      BY <1>0, <2>1 DEF Clerical, CopyIsCurrent
    <3>2. CASE target[e] # target[c] \/ image[c] = NoRow
      BY <1>5, <3>1, <3>2, Decided
    <3>3. CASE target[e] = target[c] /\ image[c] # NoRow
      BY <1>5, <3>3, Decided DEF IInv, LocksExclude
    <3>4. QED
      BY <3>2, <3>3
  <2>2. QED
    BY <1>4, <1>5, <2>1 DEF CommitOverride
<1>6. ASSUME NEW c \in Clerks, AbortOverride(c) PROVE Clerical'
  BY <1>4, <1>6 DEF AbortOverride
<1>7. CASE UNCHANGED <<reports, clerkVars>>
  BY <1>0, <1>7 DEF Clerical, CopyIsCurrent, ImageIsChosen, Verified
<1>8. QED
  BY <1>1, <1>2, <1>3, <1>5, <1>6, <1>7
     DEF Next, vars, InsertAgain, Insert, AbortInsert, FirstPage, NextPage, Close

-----------------------------------------------------------------------------
(* Decisions. *)

\* A row verified by a human is one that the log knows, and every column of it is
\* in the log.
Decent ==
  /\ AuditInRange
  /\ \A i \in DOMAIN reports :
       /\ reports[i].status = "human_verified" <=> DecisionsOn(i) # {}
       /\ reports[i].status = "human_verified" =>
            /\ \E d \in DecisionsOn(i) : d.category = reports[i].category
            /\ \E d \in DecisionsOn(i) : d.urgency = reports[i].urgency

LEMMA DecisionStep == IInv /\ [Next]_vars => Decent'
<1>. SUFFICES ASSUME IInv, [Next]_vars PROVE Decent'
  OBVIOUS
<1>. USE DEF clerkVars, ingestVars
<1>0. Decent
  BY DEF IInv, Decent, VerifiedIsAudited, EveryColumnWasChosen
<1>1. ASSUME NEW l \in Loaders, CommitInsert(l) PROVE Decent'
  <2>1. audit' = audit
    BY <1>1 DEF CommitInsert
  <2>2. \A i : DecisionsOn(i)' = DecisionsOn(i)
    BY <2>1 DEF DecisionsOn
  <2>3. DecisionsOn(drawn[l]) = {}
    BY <1>0, <1>1, NewReport DEF Decent, AuditInRange, DecisionsOn
  <2>4. PICK n : n = drawn[l]
    OBVIOUS
  <2>5. /\ DOMAIN reports' = DOMAIN reports \cup {n}
        /\ \A i \in DOMAIN reports : reports'[i] = reports[i]
        /\ reports'[n].status # "human_verified" /\ DecisionsOn(n) = {}
    BY <1>1, <2>3, <2>4, NewReport
  <2>6. QED
    BY <1>0, <2>1, <2>2, <2>5 DEF Decent, AuditInRange
<1>2. ASSUME NEW c \in Clerks, CommitOverride(c) PROVE Decent'
  <2>0. PICK t, k : t = target[c] /\ k = decision[c]
    OBVIOUS
  <2>1. audit' = audit \cup {[id |-> t, decision |-> k]}
    BY <1>2, <2>0 DEF CommitOverride, Logged
  <2>2. DecisionsOn(t)' = DecisionsOn(t) \cup {k}
    <3>. DEFINE e == [id |-> t, decision |-> k]
    <3>1. e.id = t /\ e.decision = k
      OBVIOUS
    <3>2. {b \in audit' : b.id = t} = {b \in audit : b.id = t} \cup {e}
      BY <2>1, <3>1
    <3>3. DecisionsOn(t)' = {a.decision : a \in {b \in audit' : b.id = t}}
      BY DEF DecisionsOn
    <3>4. QED
      BY <3>1, <3>2, <3>3 DEF DecisionsOn
  <2>3. \A i : i # t => DecisionsOn(i)' = DecisionsOn(i)
    BY <2>1 DEF DecisionsOn
  <2>4. /\ t \in DOMAIN reports /\ DOMAIN reports' = DOMAIN reports
        /\ \A i \in DOMAIN reports : i # t => reports'[i] = reports[i]
        /\ reports'[t].status = "human_verified"
        /\ \/ reports'[t].category = k.category
           \/ reports'[t].category = reports[t].category /\ Verified(t)
        /\ \/ reports'[t].urgency = k.urgency
           \/ reports'[t].urgency = reports[t].urgency /\ Verified(t)
    BY <1>2, <2>0, Decided
  <2>5. /\ \E d \in DecisionsOn(t)' : d.category = reports'[t].category
        /\ \E d \in DecisionsOn(t)' : d.urgency = reports'[t].urgency
    BY <1>0, <2>2, <2>4 DEF Decent, Verified
  <2>6. AuditInRange'
    BY <1>0, <2>1, <2>4 DEF Decent, AuditInRange
  <2>7. ASSUME NEW i \in DOMAIN reports'
        PROVE  /\ reports'[i].status = "human_verified" <=> DecisionsOn(i)' # {}
               /\ reports'[i].status = "human_verified" =>
                    /\ \E d \in DecisionsOn(i)' : d.category = reports'[i].category
                    /\ \E d \in DecisionsOn(i)' : d.urgency = reports'[i].urgency
    <3>1. CASE i = t
      BY <2>2, <2>4, <2>5, <3>1
    <3>2. CASE i # t
      BY <1>0, <2>3, <2>4, <3>2 DEF Decent
    <3>3. QED
      BY <3>1, <3>2
  <2>8. QED
    BY <2>6, <2>7 DEF Decent
<1>3. CASE UNCHANGED <<reports, audit>>
  BY <1>0, <1>3 DEF Decent, AuditInRange, DecisionsOn
<1>4. QED
  BY <1>1, <1>2, <1>3
     DEF Next, vars, InsertAgain, Insert, AbortInsert, LoadAnalysis, WriteAnalysis,
         AbortOverride, FirstPage, NextPage, Close

-----------------------------------------------------------------------------
(* Theorems. *)

LEMMA InvInit == Init => IInv
<1>. SUFFICES ASSUME Init PROVE IInv
  OBVIOUS
<1>. USE ReviewAssumption DEF Init
<1>1. DOMAIN reports = {}
  OBVIOUS
<1>2. Types
  BY <1>1 DEF Types
<1>3. IdsAreFresh /\ AuditInRange /\ VerifiedIsAudited /\ EveryColumnWasChosen
  BY <1>1 DEF IdsAreFresh, AuditInRange, VerifiedIsAudited, EveryColumnWasChosen
<1>4. Clerical /\ LocksExclude
  BY DEF Clerical, CopyIsCurrent, ImageIsChosen, LocksExclude
<1>5. QED
  BY <1>2, <1>3, <1>4 DEF IInv

LEMMA InvStep == IInv /\ [Next]_vars => IInv'
BY TypesStep, IdsStep, LockStep, ClericalStep, DecisionStep
   DEF IInv, Decent, VerifiedIsAudited, EveryColumnWasChosen

\* The invariant holds in every reachable state.
THEOREM InvariantHolds == Spec => []IInv
BY InvInit, InvStep, PTL DEF Spec

\* A verified report is one whose override the audit log holds, and the other way
\* round (override of ReviewService: decision and entry in one transaction).
THEOREM VerificationsAreAudited == Spec => []VerifiedIsAudited
BY InvariantHolds, PTL DEF IInv

\* However overrides race, each column of a verified report was confirmed by a user
\* (update_analysis writes only what differs from its copy).
THEOREM ColumnsWereChosen == Spec => []EveryColumnWasChosen
BY InvariantHolds, PTL DEF IInv

\* Neither a redelivery nor another override takes a verification back.
THEOREM VerificationsStay == Spec => VerifiedStays
<1>1. IInv /\ [Next]_vars =>
        [\A i \in DOMAIN reports : reports[i].status = "human_verified" =>
           reports'[i].status = "human_verified"]_vars
  BY ReportsStep DEF Evolves, Verified
<1>2. QED
  BY <1>1, InvariantHolds, PTL DEF Spec, VerifiedStays
=============================================================================
