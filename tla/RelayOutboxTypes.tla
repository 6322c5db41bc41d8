-------------------------- MODULE RelayOutboxTypes --------------------------
(***************************************************************************)
(* The type invariant of RelayOutbox, for every set of leads, days and     *)
(* workers and every bound.                                                *)
(***************************************************************************)
EXTENDS RelayOutbox, TLAPS

USE MaxAttemptsAssumption, NobodyAssumption, RouteAssumption

(* Where the rows of a lead are. *)
LEMMA AlertIsJob ==
  ASSUME NEW l \in Lead
  PROVE  AlertFor(l) \in Job /\ AlertFor(l)[1] = l /\ AlertFor(l)[2] = "sla_alert"
BY DEF AlertFor, Job, LeadKind

LEMMA AlertJobs ==
  ASSUME NEW j \in Job, j[2] = "sla_alert"
  PROVE  j[1] \in Lead /\ j = AlertFor(j[1])
BY DEF Job, LeadKind, AlertFor

LEMMA LeadJobs ==
  ASSUME NEW j \in LeadJob
  PROVE  j \in Job /\ j[1] \in Lead
BY DEF Job, LeadKind, LeadJob

(* The row operators stay within the table's columns. *)
LEMMA NewRowType == NewRow \in Row /\ EmptyRow("none") \in Row /\ EmptyRow("purged") \in Row
<1>1. \A s \in RowStatus : EmptyRow(s) \in Row
  BY DEF EmptyRow, Row
<1>2. NewRow \in Row
  BY <1>1 DEF NewRow, Row, RowStatus, EmptyRow
<1> QED BY <1>1, <1>2 DEF RowStatus

LEMMA ReleasedType ==
  ASSUME NEW row \in Row, NEW s \in RowStatus
  PROVE  /\ Released(row, s) \in Row
         /\ Released(row, s).status = s
         /\ Released(row, s).attempts = row.attempts
         /\ Released(row, s).owner = Nobody
         /\ Released(row, s).token = 0
         /\ Released(row, s).live = FALSE
BY DEF Released, Row

LEMMA SweptType ==
  ASSUME TypeOK, NEW j \in Job
  PROVE  /\ Swept(j) \in Row
         /\ Swept(j).attempts = outbox[j].attempts
         /\ \/ Swept(j) = outbox[j]
            \/ /\ Swept(j).status \in {"dead_letter", "cancelled"}
               /\ Swept(j).owner = Nobody /\ Swept(j).token = 0 /\ Swept(j).live = FALSE
               /\ Open(outbox[j])
<1>1. outbox[j] \in Row BY DEF TypeOK
<1> DEFINE Ends(s) == /\ Released(outbox[j], s) \in Row
                      /\ Released(outbox[j], s).status = s
                      /\ Released(outbox[j], s).attempts = outbox[j].attempts
                      /\ Released(outbox[j], s).owner = Nobody
                      /\ Released(outbox[j], s).token = 0
                      /\ Released(outbox[j], s).live = FALSE
<1>5. \A s \in RowStatus : Ends(s) BY <1>1, ReleasedType
<1>6. Ends("dead_letter") /\ Ends("cancelled") BY <1>5 DEF RowStatus, Final
<1>2. CASE Exhausted(outbox[j])
  <2>1. Swept(j) = Released(outbox[j], "dead_letter") BY <1>2 DEF Swept
  <2>2. Open(outbox[j]) BY <1>2 DEF Exhausted, Open
  <2> QED BY <1>6, <2>1, <2>2
<1>3. CASE ~Exhausted(outbox[j]) /\ Moot(j, outbox[j])
  <2>1. Swept(j) = Released(outbox[j], "cancelled") BY <1>3 DEF Swept
  <2>2. Open(outbox[j]) BY <1>3 DEF Moot
  <2> QED BY <1>6, <2>1, <2>2
<1>4. CASE ~Exhausted(outbox[j]) /\ ~Moot(j, outbox[j])
  BY <1>1, <1>4 DEF Swept
<1> QED BY <1>2, <1>3, <1>4

LEMMA LeasedToType ==
  ASSUME NEW row \in Row, NEW w \in Worker, NEW t \in Nat, Claimable(row)
  PROVE  /\ LeasedTo(row, w, t) \in Row
         /\ LeasedTo(row, w, t).status = "leased"
         /\ LeasedTo(row, w, t).attempts = row.attempts + 1
         /\ LeasedTo(row, w, t).owner = w
         /\ LeasedTo(row, w, t).token = t
<1>1. row.attempts + 1 \in 0..MaxAttempts /\ row.attempts \in 0..MaxAttempts BY DEF Claimable, Row
<1>2. "leased" \in RowStatus BY DEF RowStatus
<1> DEFINE new == LeasedTo(row, w, t)
<1>3. new.status = "leased" BY DEF LeasedTo, Row
<1>4. new.attempts = row.attempts + 1 BY DEF LeasedTo, Row
<1>5. new.owner = w /\ new.token = t BY DEF LeasedTo, Row
<1>6. new \in Row BY <1>1, <1>2 DEF LeasedTo, Row
<1> QED BY <1>3, <1>4, <1>5, <1>6

LEMMA LoggedType ==
  ASSUME TypeOK, NEW l \in Lead, NEW e \in EventType
  PROVE  Logged(l, e) \in [Lead -> [EventType -> Nat]]
BY DEF Logged, TypeOK

LEMMA LogDeliveryType ==
  ASSUME TypeOK, NEW j \in Job, NEW e \in EventType, LogDelivery(j, e)
  PROVE  activity' \in [Lead -> [EventType -> Nat]]
BY LoggedType, LeadJobs DEF LogDelivery, TypeOK

LEMMA EndedType ==
  ASSUME TypeOK, NEW j \in Job, NEW t \in 1..Len(leases[j]), NEW o \in Outcome, Ended(j, t, o)
  PROVE  /\ leases' \in [Job -> Seq(Lease)]
         /\ Len(leases'[j]) = Len(leases[j])
         /\ leases'[j][t].outcome = o
         /\ leases'[j][t].worker = leases[j][t].worker
         /\ \A i \in 1..Len(leases[j]) : i # t => leases'[j][i] = leases[j][i]
         /\ \A k \in Job : k # j => leases'[k] = leases[k]
<1> DEFINE new == [leases[j] EXCEPT ![t].outcome = o]
<1>1. leases[j] \in Seq(Lease) BY DEF TypeOK
<1>a. leases[j][t] \in Lease BY <1>1
<1>2. [leases[j][t] EXCEPT !.outcome = o] \in Lease
  BY <1>a DEF Lease
<1>3. new = [leases[j] EXCEPT ![t] = [leases[j][t] EXCEPT !.outcome = o]]
  OBVIOUS
<1>4. new \in Seq(Lease) /\ Len(new) = Len(leases[j])
  BY <1>1, <1>2, <1>3
<1>5. leases' = [leases EXCEPT ![j] = new] BY DEF Ended
<1>6. leases'[j] = new /\ \A k \in Job : k # j => leases'[k] = leases[k]
  BY <1>5 DEF TypeOK
<1>7. leases' \in [Job -> Seq(Lease)] BY <1>4, <1>5 DEF TypeOK
<1>8. new[t].outcome = o /\ new[t].worker = leases[j][t].worker
  BY <1>1, <1>a DEF Lease
<1>9. \A i \in 1..Len(leases[j]) : i # t => new[i] = leases[j][i]
  BY <1>1
<1> QED BY <1>4, <1>6, <1>7, <1>8, <1>9

----------------------------------------------------------------------------
(* Every step keeps every variable in its type. *)
LEMMA ClaimType ==
  ASSUME TypeOK, NEW w \in Worker, NEW locked \in SUBSET Job, ClaimOutbox(w, locked)
  PROVE  TypeOK'
<1>1. PICK batch \in Selections({j \in Job \ locked : Claimable(Swept(j))}) :
        /\ outbox' = [j \in Job |-> IF j \in batch THEN LeasedTo(Swept(j), w, FreshToken(j))
                                    ELSE Swept(j)]
        /\ leases' = [j \in Job |-> IF j \in batch
                                    THEN Append(leases[j], [worker |-> w, outcome |-> "open"])
                                    ELSE leases[j]]
        /\ UNCHANGED <<leadStatus, leadRoute, slaDue, escalated, leadAged, activity>>
  BY DEF ClaimOutbox
<1>2. \A j \in batch : j \in Job /\ Claimable(Swept(j))
  BY <1>1 DEF Selections
<1>3. \A j \in Job : leases[j] \in Seq(Lease) /\ FreshToken(j) \in Nat
  BY DEF TypeOK, FreshToken
<1>4. ASSUME NEW j \in Job PROVE outbox'[j] \in Row
  <2>1. Swept(j) \in Row BY SweptType
  <2>2. j \in batch => LeasedTo(Swept(j), w, FreshToken(j)) \in Row
    BY <1>2, <1>3, <2>1, LeasedToType
  <2> QED BY <1>1, <2>1, <2>2
<1>5. ASSUME NEW j \in Job PROVE leases'[j] \in Seq(Lease)
  <2>1. [worker |-> w, outcome |-> "open"] \in Lease BY DEF Lease, Outcome
  <2>2. Append(leases[j], [worker |-> w, outcome |-> "open"]) \in Seq(Lease)
    BY <1>3, <2>1
  <2> QED BY <1>1, <1>3, <2>2
<1> QED BY <1>1, <1>4, <1>5 DEF TypeOK

LEMMA DeliveryType ==
  ASSUME TypeOK, NEW j \in Job, NEW h \in Holders(j),
         \/ AuthorizeDelivery(j, h[2])
         \/ CompleteOutbox(j, h[1], h[2])
         \/ FailOutbox(j, h[1], h[2])
  PROVE  TypeOK'
<1>1. h[2] \in 1..Len(leases[j]) BY DEF Holders
<1>2. outbox[j] \in Row BY DEF TypeOK
<1>3. \A s \in RowStatus : Released(outbox[j], s) \in Row BY <1>2, ReleasedType
<1>4. \A row \in Row : [row EXCEPT !.ready = FALSE] \in Row BY DEF Row
<1>5. CASE AuthorizeDelivery(j, h[2])
  BY <1>3, <1>5 DEF AuthorizeDelivery, TypeOK, RowStatus, Final
<1>6. CASE CompleteOutbox(j, h[1], h[2])
  <2>1. "delivered" \in Outcome /\ "delivery_succeeded" \in EventType
    BY DEF Outcome, EventType
  <2>2. leases' \in [Job -> Seq(Lease)]
    BY <1>1, <1>6, <2>1, EndedType DEF CompleteOutbox
  <2>3. activity' \in [Lead -> [EventType -> Nat]]
    BY <1>6, <2>1, LogDeliveryType DEF CompleteOutbox
  <2> QED BY <1>3, <1>6, <2>2, <2>3 DEF CompleteOutbox, TypeOK, RowStatus, Final, leadVars
<1>7. CASE FailOutbox(j, h[1], h[2])
  <2>1. {"dead_letter", "deferred"} \subseteq Outcome
    BY DEF Outcome
  <2>2. {"delivery_dead_lettered", "delivery_deferred"} \subseteq EventType
    BY DEF EventType
  <2>3. leases' \in [Job -> Seq(Lease)]
    BY <1>1, <1>7, <2>1, EndedType DEF FailOutbox
  <2>4. activity' \in [Lead -> [EventType -> Nat]]
    BY <1>7, <2>2, LogDeliveryType DEF FailOutbox
  <2>5. /\ Released(outbox[j], "dead_letter") \in Row
        /\ [Released(outbox[j], "pending") EXCEPT !.ready = FALSE] \in Row
    BY <1>3, <1>4 DEF RowStatus, Final
  <2>6. outbox' \in [Job -> Row]
    BY <1>7, <2>5 DEF FailOutbox, TypeOK
  <2> QED BY <1>7, <2>3, <2>4, <2>6 DEF FailOutbox, TypeOK, leadVars
<1> QED BY <1>5, <1>6, <1>7

LEMMA IngestType ==
  ASSUME TypeOK, NEW l \in Lead, NEW r \in Route, NEW draft \in Drafted, IngestLead(l, r, draft)
  PROVE  TypeOK'
<1>1. activity' \in [Lead -> [EventType -> Nat]]
  BY LoggedType DEF IngestLead, EventType
<1>2. outbox' \in [Job -> Row]
  BY NewRowType DEF IngestLead, TypeOK
<1> QED BY <1>1, <1>2 DEF IngestLead, TypeOK

LEMMA ContactType ==
  ASSUME TypeOK, NEW l \in Lead, MarkLeadContacted(l)
  PROVE  TypeOK'
<1>1. activity' \in [Lead -> [EventType -> Nat]]
  BY LoggedType DEF MarkLeadContacted, EventType
<1>2. \A j \in Job : CancelledFor(l, j) \in Row
  BY ReleasedType DEF TypeOK, CancelledFor, RowStatus, Final
<1> QED BY <1>1, <1>2 DEF MarkLeadContacted, TypeOK

LEMMA MaintenanceType ==
  ASSUME TypeOK, Maintenance
  PROVE  TypeOK'
<1>1. ASSUME NEW locked \in SUBSET Lead, ScheduleDueFollowups(locked) PROVE TypeOK'
  <2>1. PICK batch : /\ outbox' = [j \in Job |-> IF j[2] = "sla_alert" /\ j[1] \in batch
                                                 THEN InsertedOnce(outbox[j]) ELSE outbox[j]]
                     /\ escalated' = [l \in Lead |-> escalated[l] \/ l \in batch]
                     /\ activity' = [l \in Lead |->
                                       IF l \in batch
                                       THEN [activity[l] EXCEPT !["sla_escalated"] = @ + 1]
                                       ELSE activity[l]]
                     /\ UNCHANGED <<leadStatus, leadRoute, slaDue, leadAged, leases>>
    BY <1>1 DEF ScheduleDueFollowups
  <2>2. outbox' \in [Job -> Row] BY <2>1, NewRowType DEF TypeOK, InsertedOnce
  <2>3. escalated' \in [Lead -> BOOLEAN]
    <3>1. \A l \in Lead : (escalated[l] \/ l \in batch) \in BOOLEAN OBVIOUS
    <3> QED BY <2>1, <3>1
  <2>4. activity' \in [Lead -> [EventType -> Nat]] BY <2>1 DEF TypeOK, EventType
  <2> QED BY <2>1, <2>2, <2>3, <2>4 DEF TypeOK
<1>2. ASSUME NEW d \in Day, EnqueueDailyDigest(d) PROVE TypeOK'
  <2>1. <<d, "daily_digest">> \in Job BY DEF Job
  <2> QED BY <1>2, <2>1, NewRowType DEF EnqueueDailyDigest, TypeOK, InsertedOnce
<1>3. CASE PurgeExpiredData
  <2>1. outbox' \in [Job -> Row] BY <1>3, NewRowType DEF PurgeExpiredData, TypeOK
  <2>2. activity' \in [Lead -> [EventType -> Nat]] BY <1>3 DEF PurgeExpiredData, TypeOK
  <2> QED BY <1>3, <2>1, <2>2 DEF PurgeExpiredData, TypeOK
<1> QED BY <1>1, <1>2, <1>3 DEF Maintenance

LEMMA FlaggedType ==
  ASSUME NEW row \in Row
  PROVE  /\ [row EXCEPT !.live = FALSE] \in Row
         /\ [row EXCEPT !.ready = TRUE] \in Row
         /\ [row EXCEPT !.aged = TRUE] \in Row
BY DEF Row

LEMMA ClockType ==
  ASSUME TypeOK, Clock
  PROVE  TypeOK'
<1>1. ASSUME NEW S \in SUBSET Job, LeasesExpire(S) PROVE TypeOK'
  <2>1. \A j \in Job : [outbox[j] EXCEPT !.live = FALSE] \in Row BY FlaggedType DEF TypeOK
  <2>2. outbox' \in [Job -> Row] BY <1>1, <2>1 DEF LeasesExpire, TypeOK
  <2> QED BY <1>1, <2>2 DEF LeasesExpire, TypeOK
<1>2. ASSUME NEW j \in Job, BackoffElapses(j) \/ RowAges(j) PROVE TypeOK'
  <2>1. outbox[j] \in Row BY DEF TypeOK
  <2>2. [outbox[j] EXCEPT !.ready = TRUE] \in Row /\ [outbox[j] EXCEPT !.aged = TRUE] \in Row
    BY <2>1, FlaggedType
  <2>3. \/ outbox' = [outbox EXCEPT ![j] = [outbox[j] EXCEPT !.ready = TRUE]]
        \/ outbox' = [outbox EXCEPT ![j] = [outbox[j] EXCEPT !.aged = TRUE]]
    BY <1>2 DEF BackoffElapses, RowAges
  <2>4. outbox' \in [Job -> Row] BY <2>2, <2>3 DEF TypeOK
  <2> QED BY <1>2, <2>4 DEF BackoffElapses, RowAges, TypeOK
<1>3. ASSUME NEW l \in Lead, SlaFallsDue(l) \/ LeadAges(l) PROVE TypeOK'
  BY <1>3 DEF SlaFallsDue, LeadAges, TypeOK
<1> QED BY <1>1, <1>2, <1>3 DEF Clock

LEMMA TypeStep == TypeOK /\ [Next]_vars => TypeOK'
<1> SUFFICES ASSUME TypeOK, [Next]_vars PROVE TypeOK'
  OBVIOUS
<1>1. CASE Dispatch BY <1>1, ClaimType, DeliveryType DEF Dispatch
<1>2. CASE Requests BY <1>2, IngestType, ContactType DEF Requests
<1>3. CASE Maintenance BY <1>3, MaintenanceType
<1>4. CASE Clock BY <1>4, ClockType
<1>5. CASE UNCHANGED vars BY <1>5 DEF vars, TypeOK
<1> QED BY <1>1, <1>2, <1>3, <1>4, <1>5 DEF Next

LEMMA TypeInit == Init => TypeOK
BY NewRowType DEF Init, TypeOK

(* Every reachable state of the database is well typed: no attempt counter *)
(* passes p_max_attempts and no row holds a status or owner outside the    *)
(* CHECK constraints of delivery_outbox.                                   *)
THEOREM TypeCorrect == Spec => []TypeOK
BY TypeInit, TypeStep, PTL DEF Spec

=============================================================================
