------------------------- MODULE RelayOutboxProofs -------------------------
(***************************************************************************)
(* The safety properties of RelayOutbox, for every set of leads, days and  *)
(* workers and every bound.  The inductive invariant speaks of one row and *)
(* its lease history at a time (GoodRow); the operations on a row are      *)
(* shown to keep it before the transactions are.                           *)
(***************************************************************************)
EXTENDS RelayOutboxTypes, FiniteSetTheorems

GoodRow(row, h) ==
  /\ row.status = "leased" =>
       /\ row.token = Len(h) /\ row.token > 0
       /\ row.owner = h[row.token].worker
       /\ h[row.token].outcome = "open"
  /\ row.status # "leased" => row.owner = Nobody /\ row.token = 0 /\ ~row.live
  /\ row.status = "pending" => row.attempts < MaxAttempts
  /\ Exists(row) => row.attempts = Len(h)
  /\ row.status = "none" => h = <<>>
  /\ \A t \in 1..Len(h) : h[t].outcome \in {"delivered", "dead_letter"} =>
       t = Len(h) /\ row.status \in {h[t].outcome, "purged"}

GoodRows == \A j \in Job : GoodRow(outbox[j], leases[j])

(* No row precedes its lead, no alert its escalation, no lease its row. *)
KeysAreFresh ==
  /\ \A j \in Job : outbox[j].status = "none" => leases[j] = <<>>
  /\ \A j \in LeadJob : leadStatus[j[1]] = "none" => outbox[j].status = "none"
  /\ \A l \in Lead : outbox[AlertFor(l)].status # "none" => escalated[l]

IInv == TypeOK /\ GoodRows /\ ContactSilencesAlert /\ KeysAreFresh

----------------------------------------------------------------------------
(* What each operation on a row does to GoodRow. *)

(* A row that ends without a record in its history: swept or cancelled. *)
LEMMA WithdrawnRow ==
  ASSUME NEW row \in Row, NEW h \in Seq(Lease), GoodRow(row, h), Open(row),
         NEW s \in {"dead_letter", "cancelled"}
  PROVE  GoodRow(Released(row, s), h)
<1>1. /\ Released(row, s).status = s
      /\ Released(row, s).attempts = row.attempts
      /\ Released(row, s).owner = Nobody
      /\ Released(row, s).token = 0
      /\ Released(row, s).live = FALSE
  <2>1. s \in RowStatus BY DEF RowStatus, Final
  <2> QED BY <2>1, ReleasedType
<1>2. row.attempts = Len(h) BY DEF GoodRow, Exists, Open
<1>3. \A t \in 1..Len(h) : h[t].outcome \notin {"delivered", "dead_letter"}
  BY DEF GoodRow, Open
<1> QED BY <1>1, <1>2, <1>3 DEF GoodRow

LEMMA LeasedRow ==
  ASSUME NEW row \in Row, NEW h \in Seq(Lease), GoodRow(row, h), Claimable(row), NEW w \in Worker
  PROVE  GoodRow(LeasedTo(row, w, Len(h) + 1), Append(h, [worker |-> w, outcome |-> "open"]))
<1> DEFINE new == LeasedTo(row, w, Len(h) + 1)
           g == Append(h, [worker |-> w, outcome |-> "open"])
<1>1. /\ new.status = "leased" /\ new.attempts = row.attempts + 1
      /\ new.owner = w /\ new.token = Len(h) + 1
  BY LeasedToType
<1>2. /\ Len(g) = Len(h) + 1 /\ g[Len(h) + 1] = [worker |-> w, outcome |-> "open"]
      /\ \A t \in 1..Len(h) : g[t] = h[t]
  OBVIOUS
<1>3. row.status \in {"pending", "leased"} BY DEF Claimable
<1>4. row.attempts = Len(h) BY <1>3 DEF GoodRow, Exists
<1>5. \A t \in 1..Len(h) : h[t].outcome \notin {"delivered", "dead_letter"}
  BY <1>3 DEF GoodRow
<1>6. \A t \in 1..Len(g) : g[t].outcome \notin {"delivered", "dead_letter"}
  BY <1>2, <1>5
<1> HIDE DEF new, g
<1>7. GoodRow(new, g) BY <1>1, <1>2, <1>4, <1>6 DEF GoodRow, Exists
<1> QED BY <1>7 DEF new, g

(* The holder of the newest lease records its outcome o. *)
LEMMA RecordedRow ==
  ASSUME NEW row \in Row, NEW h \in Seq(Lease), GoodRow(row, h), row.status = "leased",
         NEW g \in Seq(Lease), Len(g) = Len(h), NEW o \in {"delivered", "dead_letter", "deferred"},
         g[Len(h)].outcome = o,
         \A i \in 1..Len(h) : i # Len(h) => g[i] = h[i]
  PROVE  /\ o # "deferred" => GoodRow(Released(row, o), g)
         /\ o = "deferred" /\ ~OutOfAttempts(row)
              => GoodRow([Released(row, "pending") EXCEPT !.ready = FALSE], g)
<1>1. row.attempts = Len(h) /\ row.attempts \in Nat /\ Len(h) > 0
  BY DEF GoodRow, Exists, Row
<1>2. \A t \in 1..Len(h) : h[t].outcome \notin {"delivered", "dead_letter"}
  BY DEF GoodRow
<1>3. \A t \in 1..Len(g) : g[t].outcome \in {"delivered", "dead_letter"} => t = Len(g) /\ o = g[t].outcome
  BY <1>1, <1>2
<1>4. CASE o # "deferred"
  <2> DEFINE new == Released(row, o)
  <2>1. /\ new.status = o /\ new.attempts = row.attempts
        /\ new.owner = Nobody /\ new.token = 0 /\ new.live = FALSE
    BY <1>4, ReleasedType DEF RowStatus, Final
  <2> HIDE DEF new
  <2>2. GoodRow(new, g) BY <1>1, <1>3, <1>4, <2>1 DEF GoodRow, Exists
  <2> QED BY <1>4, <2>2 DEF new
<1>5. CASE o = "deferred" /\ ~OutOfAttempts(row)
  <2> DEFINE old == Released(row, "pending")
             new == [old EXCEPT !.ready = FALSE]
  <2>1. /\ old \in Row /\ old.status = "pending" /\ old.attempts = row.attempts
        /\ old.owner = Nobody /\ old.token = 0 /\ old.live = FALSE
    BY ReleasedType DEF RowStatus
  <2> HIDE DEF old
  <2>2. /\ new.status = "pending" /\ new.attempts = row.attempts
        /\ new.owner = Nobody /\ new.token = 0 /\ new.live = FALSE
    BY <2>1 DEF Row
  <2>3. row.attempts < MaxAttempts BY <1>1, <1>5, MaxAttemptsAssumption DEF OutOfAttempts
  <2> HIDE DEF new
  <2>4. GoodRow(new, g) BY <1>1, <1>3, <1>5, <2>2, <2>3 DEF GoodRow, Exists
  <2> QED BY <1>5, <2>4 DEF new, old
<1> QED BY <1>4, <1>5

LEMMA InsertedRow ==
  ASSUME NEW row \in Row, NEW h \in Seq(Lease), GoodRow(row, h), row.status # "purged"
  PROVE  GoodRow(InsertedOnce(row), h)
<1>1. CASE Exists(row) BY <1>1 DEF InsertedOnce
<1>2. CASE ~Exists(row)
  <2>1. InsertedOnce(row) = NewRow /\ h = <<>> BY <1>2 DEF InsertedOnce, Exists, GoodRow
  <2>2. /\ NewRow.status = "pending" /\ NewRow.attempts = 0 /\ NewRow.owner = Nobody
        /\ NewRow.token = 0 /\ NewRow.live = FALSE
    BY DEF NewRow, EmptyRow
  <2>3. Len(<<>>) = 0 /\ \A t \in 1..Len(<<>>) : FALSE OBVIOUS
  <2>4. GoodRow(NewRow, <<>>) BY <2>2, <2>3, MaxAttemptsAssumption DEF GoodRow, Exists
  <2> QED BY <2>1, <2>4
<1> QED BY <1>1, <1>2

LEMMA PurgedRow ==
  ASSUME NEW row \in Row, NEW h \in Seq(Lease), GoodRow(row, h), Exists(row)
  PROVE  GoodRow(EmptyRow("purged"), h)
BY DEF GoodRow, Exists, EmptyRow

(* The clock moves a row's flags only. *)
LEMMA FlaggedRow ==
  ASSUME NEW row \in Row, NEW h \in Seq(Lease), GoodRow(row, h)
  PROVE  /\ GoodRow([row EXCEPT !.live = FALSE], h)
         /\ GoodRow([row EXCEPT !.ready = TRUE], h)
         /\ GoodRow([row EXCEPT !.aged = TRUE], h)
BY DEF GoodRow, Exists, Row

----------------------------------------------------------------------------
(* What each transaction does to the rows. *)

(* No row is opened and no request comes back. *)
Quiet ==
  /\ \A j \in LeadJob :
       /\ outbox[j].status = "none" <=> outbox'[j].status = "none"
       /\ Open(outbox'[j]) => Open(outbox[j])
  /\ \A l \in Lead :
       /\ leadStatus'[l] = "contacted" => leadStatus[l] = "contacted"
       /\ leadStatus'[l] = "none" => leadStatus[l] = "none"
       /\ escalated'[l] = escalated[l]

LEMMA AlertsAreLeadJobs == \A l \in Lead : AlertFor(l) \in LeadJob
BY DEF AlertFor, LeadJob, LeadKind

LEMMA QuietStep ==
  ASSUME IInv, Quiet, TypeOK', GoodRows'
  PROVE  IInv'
<1>1. ASSUME NEW l \in Lead, leadStatus'[l] = "contacted" PROVE ~Open(outbox'[AlertFor(l)])
  <2>1. leadStatus[l] = "contacted" BY <1>1 DEF Quiet
  <2>2. ~Open(outbox[AlertFor(l)]) BY <2>1 DEF IInv, ContactSilencesAlert
  <2> QED BY <2>2, AlertsAreLeadJobs DEF Quiet
<1>2. ASSUME NEW j \in Job, outbox'[j].status = "none" PROVE leases'[j] = <<>>
  BY <1>2 DEF GoodRows, GoodRow
<1>3. ASSUME NEW j \in LeadJob, leadStatus'[j[1]] = "none" PROVE outbox'[j].status = "none"
  <2>1. j[1] \in Lead BY LeadJobs
  <2>2. leadStatus[j[1]] = "none" BY <1>3, <2>1 DEF Quiet
  <2>3. outbox[j].status = "none" BY <2>2 DEF IInv, KeysAreFresh
  <2> QED BY <2>3 DEF Quiet
<1>4. ASSUME NEW l \in Lead, outbox'[AlertFor(l)].status # "none" PROVE escalated'[l]
  <2>1. outbox[AlertFor(l)].status # "none" BY <1>4, AlertsAreLeadJobs DEF Quiet
  <2>2. escalated[l] BY <2>1 DEF IInv, KeysAreFresh
  <2> QED BY <2>2 DEF Quiet
<1>5. ContactSilencesAlert' BY <1>1 DEF ContactSilencesAlert
<1>6. KeysAreFresh' BY <1>2, <1>3, <1>4 DEF KeysAreFresh
<1> QED BY <1>5, <1>6 DEF IInv

(* A lease in hand that still holds its row is the newest one. *)
LEMMA HeldLease ==
  ASSUME IInv, NEW j \in Job, NEW w, NEW t, HoldsLease(j, w, t)
  PROVE  /\ outbox[j] \in Row /\ leases[j] \in Seq(Lease)
         /\ GoodRow(outbox[j], leases[j])
         /\ outbox[j].status = "leased"
         /\ t = Len(leases[j]) /\ t \in 1..Len(leases[j])
         /\ leases[j][t].outcome = "open"
BY DEF IInv, TypeOK, GoodRows, GoodRow, HoldsLease

LEMMA ClaimStep ==
  ASSUME IInv, NEW w \in Worker, NEW locked \in SUBSET Job, ClaimOutbox(w, locked)
  PROVE  IInv'
<1>1. PICK batch \in Selections({j \in Job \ locked : Claimable(Swept(j))}) :
        /\ outbox' = [j \in Job |-> IF j \in batch THEN LeasedTo(Swept(j), w, FreshToken(j))
                                    ELSE Swept(j)]
        /\ leases' = [j \in Job |-> IF j \in batch
                                    THEN Append(leases[j], [worker |-> w, outcome |-> "open"])
                                    ELSE leases[j]]
        /\ UNCHANGED <<leadStatus, leadRoute, slaDue, escalated, leadAged, activity>>
  BY DEF ClaimOutbox
<1>2. \A j \in batch : j \in Job /\ Claimable(Swept(j))
  BY <1>1 DEF Selections
<1>3. ASSUME NEW j \in Job
      PROVE  /\ GoodRow(outbox'[j], leases'[j])
             /\ Open(outbox'[j]) => Open(outbox[j])
             /\ outbox'[j].status = "none" <=> outbox[j].status = "none"
  <2>1. outbox[j] \in Row /\ leases[j] \in Seq(Lease) /\ GoodRow(outbox[j], leases[j])
    BY DEF IInv, TypeOK, GoodRows
  <2>2. Swept(j) = outbox[j] \/ (Open(outbox[j]) /\ Swept(j).status \in {"dead_letter", "cancelled"})
    BY SweptType DEF IInv
  <2>3. Swept(j) \in Row BY SweptType DEF IInv
  <2>4. GoodRow(Swept(j), leases[j])
    <3>1. CASE Exhausted(outbox[j])
      BY <2>1, <3>1, WithdrawnRow DEF Swept, Exhausted, Open
    <3>2. CASE ~Exhausted(outbox[j]) /\ Moot(j, outbox[j])
      BY <2>1, <3>2, WithdrawnRow DEF Swept, Moot
    <3>3. CASE ~Exhausted(outbox[j]) /\ ~Moot(j, outbox[j])
      BY <2>1, <3>3 DEF Swept
    <3> QED BY <3>1, <3>2, <3>3
  <2>5. CASE j \in batch
    <3>1. Claimable(Swept(j)) BY <1>2, <2>5
    <3>2. Open(Swept(j)) BY <3>1 DEF Claimable, Open
    <3>3. Open(outbox[j]) BY <2>2, <3>2 DEF Open
    <3>4. FreshToken(j) = Len(leases[j]) + 1 /\ FreshToken(j) \in Nat
      BY <2>1 DEF FreshToken
    <3>5. GoodRow(LeasedTo(Swept(j), w, FreshToken(j)),
                  Append(leases[j], [worker |-> w, outcome |-> "open"]))
      BY <2>1, <2>3, <2>4, <3>1, <3>4, LeasedRow
    <3>6. LeasedTo(Swept(j), w, FreshToken(j)).status = "leased"
      BY <2>3, <3>1, <3>4, LeasedToType
    <3> QED BY <1>1, <2>5, <3>3, <3>5, <3>6 DEF Open
  <2>6. CASE j \notin batch
    BY <1>1, <2>2, <2>4, <2>6 DEF Open
  <2> QED BY <2>5, <2>6
<1>4. TypeOK' BY ClaimType DEF IInv
<1>5. GoodRows' BY <1>3 DEF GoodRows
<1>6. Quiet BY <1>1, <1>3, LeadJobs DEF Quiet
<1> QED BY <1>4, <1>5, <1>6, QuietStep

LEMMA DeliveryStep ==
  ASSUME IInv, NEW j \in Job, NEW h \in Holders(j),
         \/ AuthorizeDelivery(j, h[2])
         \/ CompleteOutbox(j, h[1], h[2])
         \/ FailOutbox(j, h[1], h[2])
  PROVE  IInv'
<1>1. TypeOK' BY DeliveryType DEF IInv
<1>2. /\ outbox[j] \in Row /\ leases[j] \in Seq(Lease) /\ GoodRow(outbox[j], leases[j])
      /\ outbox[j].status = "leased"
  BY DEF IInv, TypeOK, GoodRows, AuthorizeDelivery, Authorizable, CompleteOutbox, FailOutbox, HoldsLease
<1>3. /\ \A k \in Job : k # j => outbox'[k] = outbox[k] /\ leases'[k] = leases[k]
      /\ leadStatus' = leadStatus /\ escalated' = escalated
  BY DEF IInv, TypeOK, AuthorizeDelivery, CompleteOutbox, FailOutbox, Ended, leadVars
<1>7. \A s \in {"cancelled", "delivered", "dead_letter"} : Released(outbox[j], s).status = s
  BY <1>2, ReleasedType DEF RowStatus, Final
<1>4. GoodRow(outbox'[j], leases'[j]) /\ outbox'[j].status # "none"
  <2>1. CASE AuthorizeDelivery(j, h[2])
    <3>1. outbox'[j] = Released(outbox[j], "cancelled") /\ leases'[j] = leases[j]
      BY <2>1 DEF AuthorizeDelivery, IInv, TypeOK
    <3> QED BY <1>2, <1>7, <3>1, WithdrawnRow DEF Open
  <2>2. CASE CompleteOutbox(j, h[1], h[2])
    <3>1. /\ HoldsLease(j, h[1], h[2]) /\ Ended(j, h[2], "delivered")
          /\ outbox'[j] = Released(outbox[j], "delivered")
      BY <2>2 DEF CompleteOutbox, IInv, TypeOK
    <3>2. h[2] = Len(leases[j]) /\ h[2] \in 1..Len(leases[j]) BY <3>1, HeldLease
    <3>3. /\ leases' \in [Job -> Seq(Lease)] /\ Len(leases'[j]) = Len(leases[j])
          /\ leases'[j][Len(leases[j])].outcome = "delivered"
          /\ \A i \in 1..Len(leases[j]) : i # Len(leases[j]) => leases'[j][i] = leases[j][i]
      BY <3>1, <3>2, EndedType DEF IInv, Outcome
    <3>4. GoodRow(Released(outbox[j], "delivered"), leases'[j])
      BY <1>2, <3>3, RecordedRow
    <3> QED BY <1>7, <3>1, <3>4
  <2>3. CASE FailOutbox(j, h[1], h[2])
    <3>1. HoldsLease(j, h[1], h[2]) BY <2>3 DEF FailOutbox
    <3>2. h[2] = Len(leases[j]) /\ h[2] \in 1..Len(leases[j]) BY <3>1, HeldLease
    <3>3. CASE OutOfAttempts(outbox[j])
      <4>1. outbox'[j] = Released(outbox[j], "dead_letter") /\ Ended(j, h[2], "dead_letter")
        BY <2>3, <3>3 DEF FailOutbox, IInv, TypeOK
      <4>2. /\ leases' \in [Job -> Seq(Lease)] /\ Len(leases'[j]) = Len(leases[j])
            /\ leases'[j][Len(leases[j])].outcome = "dead_letter"
            /\ \A i \in 1..Len(leases[j]) : i # Len(leases[j]) => leases'[j][i] = leases[j][i]
        BY <3>2, <4>1, EndedType DEF IInv, Outcome
      <4>3. GoodRow(Released(outbox[j], "dead_letter"), leases'[j])
        BY <1>2, <4>2, RecordedRow
      <4> QED BY <1>7, <4>1, <4>3
    <3>4. CASE ~OutOfAttempts(outbox[j])
      <4>1. /\ outbox'[j] = [Released(outbox[j], "pending") EXCEPT !.ready = FALSE]
            /\ Ended(j, h[2], "deferred")
        BY <2>3, <3>4 DEF FailOutbox, IInv, TypeOK
      <4>2. /\ leases' \in [Job -> Seq(Lease)] /\ Len(leases'[j]) = Len(leases[j])
            /\ leases'[j][Len(leases[j])].outcome = "deferred"
            /\ \A i \in 1..Len(leases[j]) : i # Len(leases[j]) => leases'[j][i] = leases[j][i]
        BY <3>2, <4>1, EndedType DEF IInv, Outcome
      <4>3. GoodRow([Released(outbox[j], "pending") EXCEPT !.ready = FALSE], leases'[j])
        BY <1>2, <3>4, <4>2, RecordedRow
      <4>4. /\ Released(outbox[j], "pending") \in Row
            /\ Released(outbox[j], "pending").status = "pending"
        BY <1>2, ReleasedType DEF RowStatus
      <4>5. outbox'[j].status = "pending" BY <4>1, <4>4 DEF Row
      <4> QED BY <4>1, <4>3, <4>5
    <3> QED BY <3>3, <3>4
  <2> QED BY <2>1, <2>2, <2>3
<1>5. GoodRows' BY <1>3, <1>4 DEF IInv, GoodRows
<1>6. Quiet BY <1>2, <1>3, <1>4, LeadJobs DEF Quiet, Open
<1> QED BY <1>1, <1>5, <1>6, QuietStep

LEMMA IngestStep ==
  ASSUME IInv, NEW l \in Lead, NEW r \in Route, NEW draft \in Drafted, IngestLead(l, r, draft)
  PROVE  IInv'
<1>1. TypeOK' BY IngestType DEF IInv
<1> DEFINE first == FirstDeliveries(l, r, draft)
<1>2. first \subseteq {<<l, "owner_alert">>, <<l, "customer_ack">>} BY DEF FirstDeliveries
<1>3. first \subseteq LeadJob /\ \A j \in first : j[1] = l /\ j[2] # "sla_alert"
  BY <1>2 DEF LeadJob, LeadKind
<1> HIDE DEF first
<1>4. /\ outbox' = [j \in Job |-> IF j \in first THEN NewRow ELSE outbox[j]]
      /\ leases' = leases /\ escalated' = escalated
      /\ leadStatus[l] = "none" /\ leadStatus' = [leadStatus EXCEPT ![l] = "new"]
  BY DEF IngestLead, first
<1>5. \A j \in first : outbox[j].status = "none"
  BY <1>3, <1>4 DEF IInv, KeysAreFresh
<1>6. ASSUME NEW j \in Job PROVE GoodRow(outbox'[j], leases'[j])
  <2>1. outbox[j] \in Row /\ leases[j] \in Seq(Lease) /\ GoodRow(outbox[j], leases[j])
    BY DEF IInv, TypeOK, GoodRows
  <2>2. CASE j \in first
    <3>1. InsertedOnce(outbox[j]) = NewRow BY <1>5, <2>2 DEF InsertedOnce, Exists
    <3>2. GoodRow(NewRow, leases[j]) BY <1>5, <2>1, <2>2, <3>1, InsertedRow
    <3> QED BY <1>4, <2>2, <3>2
  <2>3. CASE j \notin first BY <1>4, <2>1, <2>3
  <2> QED BY <2>2, <2>3
<1>7. \A m \in Lead : outbox'[AlertFor(m)] = outbox[AlertFor(m)]
  BY <1>3, <1>4, AlertIsJob
<1>8. \A m \in Lead : leadStatus'[m] = IF m = l THEN "new" ELSE leadStatus[m]
  BY <1>4 DEF IInv, TypeOK
<1>9. ContactSilencesAlert' BY <1>7, <1>8 DEF IInv, ContactSilencesAlert
<1>10. KeysAreFresh'
  <2>1. \A j \in Job : outbox'[j].status = "none" => leases'[j] = <<>>
    BY <1>6 DEF GoodRow
  <2>2. ASSUME NEW j \in LeadJob, leadStatus'[j[1]] = "none" PROVE outbox'[j].status = "none"
    <3>1. j[1] # l /\ leadStatus[j[1]] = "none" BY <1>8, <2>2, LeadJobs
    <3>2. j \notin first BY <1>3, <3>1
    <3> QED BY <1>4, <3>1, <3>2, LeadJobs DEF IInv, KeysAreFresh
  <2>3. \A m \in Lead : outbox'[AlertFor(m)].status # "none" => escalated'[m]
    BY <1>4, <1>7 DEF IInv, KeysAreFresh
  <2> QED BY <2>1, <2>2, <2>3 DEF KeysAreFresh
<1> QED BY <1>1, <1>6, <1>9, <1>10 DEF IInv, GoodRows

LEMMA ContactStep ==
  ASSUME IInv, NEW l \in Lead, MarkLeadContacted(l)
  PROVE  IInv'
<1>1. TypeOK' BY ContactType DEF IInv
<1>2. /\ outbox' = [j \in Job |-> CancelledFor(l, j)]
      /\ leases' = leases /\ escalated' = escalated
      /\ leadStatus[l] = "new" /\ leadStatus' = [leadStatus EXCEPT ![l] = "contacted"]
  BY DEF MarkLeadContacted
<1>3. ASSUME NEW j \in Job
      PROVE  /\ GoodRow(outbox'[j], leases'[j])
             /\ Open(outbox'[j]) => Open(outbox[j])
             /\ outbox'[j].status = "none" <=> outbox[j].status = "none"
             /\ j = AlertFor(l) => ~Open(outbox'[j])
  <2>1. outbox[j] \in Row /\ leases[j] \in Seq(Lease) /\ GoodRow(outbox[j], leases[j])
    BY DEF IInv, TypeOK, GoodRows
  <2>2. CASE j = AlertFor(l) /\ Open(outbox[j])
    <3>1. outbox'[j] = Released(outbox[j], "cancelled") BY <1>2, <2>2 DEF CancelledFor
    <3>2. GoodRow(Released(outbox[j], "cancelled"), leases[j]) BY <2>1, <2>2, WithdrawnRow
    <3>3. Released(outbox[j], "cancelled").status = "cancelled"
      BY <2>1, ReleasedType DEF RowStatus, Final
    <3> QED BY <1>2, <2>2, <3>1, <3>2, <3>3 DEF Open
  <2>3. CASE ~(j = AlertFor(l) /\ Open(outbox[j]))
    BY <1>2, <2>1, <2>3 DEF CancelledFor
  <2> QED BY <2>2, <2>3
<1>4. \A m \in Lead : leadStatus'[m] = IF m = l THEN "contacted" ELSE leadStatus[m]
  BY <1>2 DEF IInv, TypeOK
<1>5. ContactSilencesAlert'
  BY <1>3, <1>4, AlertIsJob DEF IInv, ContactSilencesAlert
<1>6. KeysAreFresh'
  <2>1. \A j \in Job : outbox'[j].status = "none" => leases'[j] = <<>>
    BY <1>3 DEF GoodRow
  <2>2. \A j \in LeadJob : leadStatus'[j[1]] = "none" => outbox'[j].status = "none"
    BY <1>3, <1>4, LeadJobs DEF IInv, KeysAreFresh
  <2>3. \A m \in Lead : outbox'[AlertFor(m)].status # "none" => escalated'[m]
    BY <1>2, <1>3, AlertIsJob DEF IInv, KeysAreFresh
  <2> QED BY <2>1, <2>2, <2>3 DEF KeysAreFresh
<1> QED BY <1>1, <1>3, <1>5, <1>6 DEF IInv, GoodRows

LEMMA MaintenanceStep ==
  ASSUME IInv, Maintenance
  PROVE  IInv'
<1>1. TypeOK' BY MaintenanceType DEF IInv
<1>2. ASSUME NEW locked \in SUBSET Lead, ScheduleDueFollowups(locked) PROVE IInv'
  <2>1. PICK batch \in SUBSET {l \in Lead \ locked : Overdue(l)} :
          /\ outbox' = [j \in Job |-> IF j[2] = "sla_alert" /\ j[1] \in batch
                                      THEN InsertedOnce(outbox[j]) ELSE outbox[j]]
          /\ escalated' = [l \in Lead |-> escalated[l] \/ l \in batch]
          /\ UNCHANGED <<leadStatus, leases>>
    BY <1>2 DEF ScheduleDueFollowups
  <2>2. \A l \in batch : l \in Lead /\ leadStatus[l] = "new" /\ ~escalated[l]
    BY <2>1 DEF Overdue
  <2>3. ASSUME NEW j \in Job
        PROVE  /\ GoodRow(outbox'[j], leases'[j])
               /\ outbox'[j] = outbox[j] \/ (j = AlertFor(j[1]) /\ j[1] \in batch)
    <3>1. outbox[j] \in Row /\ leases[j] \in Seq(Lease) /\ GoodRow(outbox[j], leases[j])
      BY DEF IInv, TypeOK, GoodRows
    <3>2. CASE j[2] = "sla_alert" /\ j[1] \in batch
      <4>1. j[1] \in Lead /\ j = AlertFor(j[1]) BY <3>2, AlertJobs
      <4>2. outbox[j].status = "none" BY <2>2, <3>2, <4>1 DEF IInv, KeysAreFresh
      <4>3. GoodRow(InsertedOnce(outbox[j]), leases[j]) BY <3>1, <4>2, InsertedRow
      <4> QED BY <2>1, <3>2, <4>1, <4>3
    <3>3. CASE ~(j[2] = "sla_alert" /\ j[1] \in batch) BY <2>1, <3>1, <3>3
    <3> QED BY <3>2, <3>3
  <2>4. ContactSilencesAlert'
    <3> SUFFICES ASSUME NEW l \in Lead, leadStatus'[l] = "contacted" PROVE ~Open(outbox'[AlertFor(l)])
      BY DEF ContactSilencesAlert
    <3>1. leadStatus[l] = "contacted" /\ l \notin batch BY <2>1, <2>2
    <3>2. outbox'[AlertFor(l)] = outbox[AlertFor(l)] BY <2>3, <3>1, AlertIsJob
    <3> QED BY <3>1, <3>2 DEF IInv, ContactSilencesAlert
  <2>5. KeysAreFresh'
    <3>1. \A j \in Job : outbox'[j].status = "none" => leases'[j] = <<>>
      BY <2>3 DEF GoodRow
    <3>2. ASSUME NEW j \in LeadJob, leadStatus'[j[1]] = "none" PROVE outbox'[j].status = "none"
      <4>1. leadStatus[j[1]] = "none" /\ j[1] \notin batch BY <2>1, <2>2, <3>2
      <4>2. outbox'[j] = outbox[j] BY <2>3, <4>1, LeadJobs
      <4> QED BY <4>1, <4>2 DEF IInv, KeysAreFresh
    <3>3. ASSUME NEW l \in Lead, outbox'[AlertFor(l)].status # "none" PROVE escalated'[l]
      <4>1. outbox'[AlertFor(l)] = outbox[AlertFor(l)] \/ l \in batch
        BY <2>3, AlertIsJob
      <4>2. escalated[l] \/ l \in batch BY <3>3, <4>1 DEF IInv, KeysAreFresh
      <4> QED BY <2>1, <4>2
    <3> QED BY <3>1, <3>2, <3>3 DEF KeysAreFresh
  <2> QED BY <1>1, <2>3, <2>4, <2>5 DEF IInv, GoodRows
<1>3. ASSUME NEW d \in Day, EnqueueDailyDigest(d) PROVE IInv'
  <2> DEFINE i == <<d, "daily_digest">>
  <2>1. i \in Job /\ i \notin LeadJob BY DEF Job, LeadJob, LeadKind
  <2>2. GoodRow(outbox[i], leases[i]) /\ outbox[i] \in Row /\ leases[i] \in Seq(Lease)
    BY <2>1 DEF IInv, TypeOK, GoodRows
  <2>3. GoodRow(InsertedOnce(outbox[i]), leases[i])
    BY <1>3, <2>2, InsertedRow DEF EnqueueDailyDigest
  <2>4. /\ \A j \in Job : outbox'[j] = IF j = i THEN InsertedOnce(outbox[i]) ELSE outbox[j]
        /\ leases' = leases /\ leadStatus' = leadStatus /\ escalated' = escalated
    BY <1>3 DEF EnqueueDailyDigest, IInv, TypeOK
  <2>5. GoodRows' BY <2>3, <2>4 DEF IInv, GoodRows
  <2>6. Quiet BY <2>1, <2>4, LeadJobs DEF Quiet
  <2> QED BY <1>1, <2>5, <2>6, QuietStep
<1>4. CASE PurgeExpiredData
  <2>1. /\ outbox' = [j \in Job |-> IF Purgeable(outbox[j]) THEN EmptyRow("purged") ELSE outbox[j]]
        /\ leases' = leases /\ escalated' = escalated
        /\ \A l \in Lead : leadStatus'[l] = leadStatus[l] \/ leadStatus'[l] = "purged"
    BY <1>4 DEF PurgeExpiredData
  <2>2. ASSUME NEW j \in Job
        PROVE  /\ GoodRow(outbox'[j], leases'[j])
               /\ Open(outbox'[j]) => Open(outbox[j])
               /\ outbox'[j].status = "none" <=> outbox[j].status = "none"
    <3>1. outbox[j] \in Row /\ leases[j] \in Seq(Lease) /\ GoodRow(outbox[j], leases[j])
      BY DEF IInv, TypeOK, GoodRows
    <3>2. CASE Purgeable(outbox[j])
      <4>1. outbox'[j] = EmptyRow("purged") BY <2>1, <3>2
      <4>2. Exists(outbox[j]) BY <3>2 DEF Purgeable
      <4>3. GoodRow(EmptyRow("purged"), leases[j]) BY <3>1, <4>2, PurgedRow
      <4>4. EmptyRow("purged").status = "purged" BY DEF EmptyRow
      <4> QED BY <2>1, <4>1, <4>2, <4>3, <4>4 DEF Open, Exists
    <3>3. CASE ~Purgeable(outbox[j]) BY <2>1, <3>1, <3>3
    <3> QED BY <3>2, <3>3
  <2>3. GoodRows' BY <2>2 DEF GoodRows
  <2>4. Quiet BY <2>1, <2>2, LeadJobs DEF Quiet
  <2> QED BY <1>1, <2>3, <2>4, QuietStep
<1> QED BY <1>2, <1>3, <1>4 DEF Maintenance

LEMMA ClockStep ==
  ASSUME IInv, Clock
  PROVE  IInv'
<1>1. TypeOK' BY ClockType DEF IInv
<1>2. ASSUME NEW j \in Job
      PROVE  /\ outbox[j] \in Row /\ leases[j] \in Seq(Lease)
             /\ GoodRow(outbox[j], leases[j])
             /\ GoodRow([outbox[j] EXCEPT !.live = FALSE], leases[j])
             /\ GoodRow([outbox[j] EXCEPT !.ready = TRUE], leases[j])
             /\ GoodRow([outbox[j] EXCEPT !.aged = TRUE], leases[j])
  BY FlaggedRow DEF IInv, TypeOK, GoodRows
<1>3. ASSUME NEW S \in SUBSET Job, LeasesExpire(S) PROVE IInv'
  <2>1. \A j \in Job : outbox'[j] = IF j \in S THEN [outbox[j] EXCEPT !.live = FALSE] ELSE outbox[j]
    BY <1>3 DEF LeasesExpire
  <2>2. leases' = leases /\ leadStatus' = leadStatus /\ escalated' = escalated
    BY <1>3 DEF LeasesExpire
  <2>3. GoodRows' BY <1>2, <2>1, <2>2 DEF GoodRows
  <2>4. \A j \in Job : outbox'[j].status = outbox[j].status BY <1>2, <2>1 DEF Row
  <2>5. Quiet BY <2>2, <2>4, LeadJobs DEF Quiet, Open
  <2> QED BY <1>1, <2>3, <2>5, QuietStep
<1>4. ASSUME NEW i \in Job, BackoffElapses(i) \/ RowAges(i) PROVE IInv'
  <2>1. \/ outbox' = [outbox EXCEPT ![i] = [outbox[i] EXCEPT !.ready = TRUE]]
        \/ outbox' = [outbox EXCEPT ![i] = [outbox[i] EXCEPT !.aged = TRUE]]
    BY <1>4 DEF BackoffElapses, RowAges
  <2>2. leases' = leases /\ leadStatus' = leadStatus /\ escalated' = escalated
    BY <1>4 DEF BackoffElapses, RowAges
  <2>3. ASSUME NEW j \in Job
        PROVE  GoodRow(outbox'[j], leases'[j]) /\ outbox'[j].status = outbox[j].status
    <3>1. CASE j = i
      <4>1. \/ outbox'[j] = [outbox[j] EXCEPT !.ready = TRUE]
            \/ outbox'[j] = [outbox[j] EXCEPT !.aged = TRUE]
        BY <2>1, <3>1 DEF IInv, TypeOK
      <4>2. GoodRow(outbox'[j], leases'[j]) BY <1>2, <2>2, <4>1
      <4>3. outbox'[j].status = outbox[j].status BY <1>2, <4>1 DEF Row
      <4> QED BY <4>2, <4>3
    <3>2. CASE j # i
      <4>1. outbox'[j] = outbox[j] BY <2>1, <3>2 DEF IInv, TypeOK
      <4> QED BY <1>2, <2>2, <4>1
    <3> QED BY <3>1, <3>2
  <2>4. GoodRows' BY <2>3 DEF GoodRows
  <2>5. Quiet BY <2>2, <2>3, LeadJobs DEF Quiet, Open
  <2> QED BY <1>1, <2>4, <2>5, QuietStep
<1>5. ASSUME NEW l \in Lead, SlaFallsDue(l) \/ LeadAges(l) PROVE IInv'
  <2>1. outbox' = outbox /\ leases' = leases /\ leadStatus' = leadStatus /\ escalated' = escalated
    BY <1>5 DEF SlaFallsDue, LeadAges
  <2>2. GoodRows' BY <2>1 DEF IInv, GoodRows
  <2>3. Quiet BY <2>1, LeadJobs DEF Quiet
  <2> QED BY <1>1, <2>2, <2>3, QuietStep
<1> QED BY <1>3, <1>4, <1>5 DEF Clock

----------------------------------------------------------------------------
(* The inductive invariant *)

LEMMA IInvInit == Init => IInv
<1> SUFFICES ASSUME Init PROVE IInv
  OBVIOUS
<1>1. EmptyRow("none").status = "none" /\ EmptyRow("none").owner = Nobody
      /\ EmptyRow("none").token = 0 /\ EmptyRow("none").live = FALSE
  BY DEF EmptyRow
<1>2. Len(<<>>) = 0 /\ \A t \in 1..Len(<<>>) : FALSE
  OBVIOUS
<1>3. GoodRow(EmptyRow("none"), <<>>) BY <1>1, <1>2 DEF GoodRow, Exists
<1>4. \A j \in Job : outbox[j] = EmptyRow("none") /\ leases[j] = <<>> BY DEF Init
<1>5. GoodRows BY <1>3, <1>4 DEF GoodRows
<1>6. ContactSilencesAlert BY DEF Init, ContactSilencesAlert
<1>7. KeysAreFresh BY <1>1, <1>4, LeadJobs, AlertIsJob DEF KeysAreFresh
<1> QED BY <1>5, <1>6, <1>7, TypeInit DEF IInv

LEMMA IInvStep == IInv /\ [Next]_vars => IInv'
<1> SUFFICES ASSUME IInv, [Next]_vars PROVE IInv'
  OBVIOUS
<1>1. CASE Dispatch BY <1>1, ClaimStep, DeliveryStep DEF Dispatch
<1>2. CASE Requests BY <1>2, IngestStep, ContactStep DEF Requests
<1>3. CASE Maintenance BY <1>3, MaintenanceStep
<1>4. CASE Clock BY <1>4, ClockStep
<1>5. CASE UNCHANGED vars
  BY <1>5 DEF vars, IInv, TypeOK, GoodRows, ContactSilencesAlert, KeysAreFresh
<1> QED BY <1>1, <1>2, <1>3, <1>4, <1>5 DEF Next

LEMMA IInvAlways == Spec => []IInv
BY IInvInit, IInvStep, PTL DEF Spec

(* A row holds a lease exactly while leased, under the newest token, and   *)
(* is never left pending without an attempt.                               *)
THEOREM LeaseDisciplineHolds == Spec => []LeaseDiscipline
<1>1. IInv => LeaseDiscipline BY DEF IInv, GoodRows, GoodRow, LeaseDiscipline
<1> QED BY <1>1, IInvAlways, PTL

(* mark_lead_contacted leaves no alert to send, and none comes later. *)
THEOREM ContactSilencesAlertHolds == Spec => []ContactSilencesAlert
<1>1. IInv => ContactSilencesAlert BY DEF IInv
<1> QED BY <1>1, IInvAlways, PTL

(* At most one lease ends a row, it is the last, and the row records it. *)
THEOREM OneOutcomePerRowHolds == Spec => []OneOutcomePerRow
<1>1. IInv => OneOutcomePerRow BY DEF IInv, GoodRows, GoodRow, OneOutcomePerRow
<1> QED BY <1>1, IInvAlways, PTL

----------------------------------------------------------------------------
(* What no step does, from the invariant *)

LEMMA StaleStep ==
  ASSUME IInv, [Next]_vars, NEW j \in Job, NEW t \in 1..(Len(leases[j]) - 1)
  PROVE  leases'[j][t] = leases[j][t]
<1>1. leases[j] \in Seq(Lease) BY DEF IInv, TypeOK
<1>2. ASSUME NEW w \in Worker, NEW locked \in SUBSET Job, ClaimOutbox(w, locked)
      PROVE  leases'[j][t] = leases[j][t]
  <2>1. \/ leases'[j] = leases[j]
        \/ leases'[j] = Append(leases[j], [worker |-> w, outcome |-> "open"])
    BY <1>2 DEF ClaimOutbox
  <2> QED BY <1>1, <2>1
<1>3. ASSUME NEW i \in Job, NEW h \in Holders(i),
             CompleteOutbox(i, h[1], h[2]) \/ FailOutbox(i, h[1], h[2])
      PROVE  leases'[j][t] = leases[j][t]
  <2>1. PICK o \in Outcome : Ended(i, h[2], o) /\ HoldsLease(i, h[1], h[2])
    BY <1>3 DEF CompleteOutbox, FailOutbox, Outcome
  <2>2. h[2] = Len(leases[i]) /\ h[2] \in 1..Len(leases[i]) BY <2>1, HeldLease
  <2>3. /\ \A k \in 1..Len(leases[i]) : k # h[2] => leases'[i][k] = leases[i][k]
        /\ \A k \in Job : k # i => leases'[k] = leases[k]
    BY <2>1, <2>2, EndedType DEF IInv
  <2>4. t \in 1..Len(leases[j]) /\ t # Len(leases[j]) BY <1>1
  <2> QED BY <2>2, <2>3, <2>4
<1>4. ASSUME NEW i \in Job, NEW h \in Holders(i), AuthorizeDelivery(i, h[2])
      PROVE  leases' = leases
  BY <1>4 DEF AuthorizeDelivery
<1>5. CASE Dispatch BY <1>2, <1>3, <1>4, <1>5 DEF Dispatch
<1>6. CASE Requests BY <1>6 DEF Requests, IngestLead, MarkLeadContacted
<1>7. CASE Maintenance
  BY <1>7 DEF Maintenance, ScheduleDueFollowups, EnqueueDailyDigest, PurgeExpiredData
<1>8. CASE Clock
  BY <1>8 DEF Clock, LeasesExpire, BackoffElapses, RowAges, SlaFallsDue, LeadAges
<1>9. CASE UNCHANGED vars BY <1>9 DEF vars
<1> QED BY <1>5, <1>6, <1>7, <1>8, <1>9 DEF Next

(* A worker whose lease was superseded changes neither its record nor the  *)
(* row's later history.                                                    *)
THEOREM StaleLeaseIsInertHolds == Spec => StaleLeaseIsInert
<1>1. IInv /\ [Next]_vars =>
        [\A j \in Job : \A t \in 1..(Len(leases[j]) - 1) : leases'[j][t] = leases[j][t]]_vars
  BY StaleStep
<1> QED BY <1>1, IInvAlways, PTL DEF Spec, StaleLeaseIsInert

(* What may happen to a row under a live lease. *)
Kept(j) == outbox'[j].status = "leased" /\ outbox'[j].token = outbox[j].token
Recorded(j) == leases'[j] # leases[j] /\ Len(leases'[j]) = Len(leases[j])
Silenced(j) == j[2] = "sla_alert" /\ outbox'[j].status = "cancelled" /\ leadStatus'[j[1]] # "new"

LEMMA LiveStep ==
  ASSUME IInv, [Next]_vars, NEW j \in Job, outbox[j].status = "leased", outbox[j].live
  PROVE  Kept(j) \/ Recorded(j) \/ Silenced(j)
<1>1. outbox[j] \in Row /\ leases[j] \in Seq(Lease) /\ GoodRow(outbox[j], leases[j])
  BY DEF IInv, TypeOK, GoodRows
<1>2. Released(outbox[j], "cancelled").status = "cancelled"
  BY <1>1, ReleasedType DEF RowStatus, Final
<1>3. ASSUME NEW w \in Worker, NEW locked \in SUBSET Job, ClaimOutbox(w, locked)
      PROVE  Kept(j) \/ Silenced(j)
  <2>1. PICK batch \in Selections({i \in Job \ locked : Claimable(Swept(i))}) :
          /\ outbox' = [i \in Job |-> IF i \in batch THEN LeasedTo(Swept(i), w, FreshToken(i))
                                      ELSE Swept(i)]
          /\ leadStatus' = leadStatus
    BY <1>3 DEF ClaimOutbox
  <2>2. j \in batch => Claimable(Swept(j)) BY <2>1 DEF Selections
  <2>3. CASE Moot(j, outbox[j])
    <3>1. Swept(j) = Released(outbox[j], "cancelled") BY <2>3 DEF Swept, Exhausted
    <3>2. j \notin batch BY <1>2, <2>2, <3>1 DEF Claimable
    <3> QED BY <1>2, <2>1, <2>3, <3>1, <3>2 DEF Moot, Silenced
  <2>4. CASE ~Moot(j, outbox[j])
    <3>1. Swept(j) = outbox[j] BY <2>4 DEF Swept, Exhausted
    <3>2. j \notin batch BY <2>2, <3>1 DEF Claimable
    <3> QED BY <2>1, <3>1, <3>2 DEF Kept
  <2> QED BY <2>3, <2>4
<1>4. ASSUME NEW i \in Job, NEW h \in Holders(i), AuthorizeDelivery(i, h[2])
      PROVE  Kept(j) \/ Silenced(j)
  <2>1. outbox' = [outbox EXCEPT ![i] = Released(outbox[i], "cancelled")] /\ leadStatus' = leadStatus
    BY <1>4 DEF AuthorizeDelivery
  <2>2. CASE j # i BY <2>1, <2>2 DEF Kept, IInv, TypeOK
  <2>3. CASE j = i
    <3>1. outbox'[j].status = "cancelled" BY <1>2, <2>1, <2>3 DEF IInv, TypeOK
    <3> QED BY <1>4, <2>1, <2>3, <3>1 DEF AuthorizeDelivery, AlertStale, Silenced
  <2> QED BY <2>2, <2>3
<1>5. ASSUME NEW i \in Job, NEW h \in Holders(i),
             CompleteOutbox(i, h[1], h[2]) \/ FailOutbox(i, h[1], h[2])
      PROVE  Kept(j) \/ Recorded(j)
  <2>1. PICK o \in Outcome \ {"open"} : Ended(i, h[2], o) /\ HoldsLease(i, h[1], h[2])
    BY <1>5 DEF CompleteOutbox, FailOutbox, Outcome
  <2>2. h[2] \in 1..Len(leases[i]) /\ leases[i][h[2]].outcome = "open" BY <2>1, HeldLease
  <2>3. leases'[i][h[2]].outcome = o /\ Len(leases'[i]) = Len(leases[i])
    BY <2>1, <2>2, EndedType DEF IInv
  <2>4. CASE j = i BY <2>1, <2>2, <2>3, <2>4 DEF Recorded
  <2>5. CASE j # i BY <1>5, <2>5 DEF CompleteOutbox, FailOutbox, Kept, IInv, TypeOK
  <2> QED BY <2>4, <2>5
<1>6. CASE Dispatch BY <1>3, <1>4, <1>5, <1>6 DEF Dispatch
<1>7. ASSUME NEW l \in Lead, NEW r \in Route, NEW draft \in Drafted, IngestLead(l, r, draft)
      PROVE  Kept(j)
  <2>1. \A i \in FirstDeliveries(l, r, draft) : i \in LeadJob /\ i[1] = l
    BY DEF FirstDeliveries, LeadJob, LeadKind
  <2>2. j \notin FirstDeliveries(l, r, draft)
    BY <1>7, <2>1 DEF IngestLead, IInv, KeysAreFresh
  <2> QED BY <1>7, <2>2 DEF IngestLead, Kept
<1>8. ASSUME NEW l \in Lead, MarkLeadContacted(l) PROVE Kept(j) \/ Silenced(j)
  <2>1. outbox'[j] = CancelledFor(l, j) /\ leadStatus' = [leadStatus EXCEPT ![l] = "contacted"]
    BY <1>8 DEF MarkLeadContacted
  <2>2. CASE j = AlertFor(l)
    <3>1. outbox'[j].status = "cancelled" BY <1>2, <2>1, <2>2 DEF CancelledFor, Open
    <3>2. leadStatus'[l] = "contacted" BY <2>1 DEF IInv, TypeOK
    <3> QED BY <2>2, <3>1, <3>2, AlertIsJob DEF Silenced
  <2>3. CASE j # AlertFor(l) BY <2>1, <2>3 DEF CancelledFor, Kept
  <2> QED BY <2>2, <2>3
<1>9. CASE Maintenance
  <2>1. Exists(outbox[j]) BY DEF Exists
  <2>2. \/ outbox'[j] = InsertedOnce(outbox[j])
        \/ outbox'[j] = outbox[j]
        \/ Purgeable(outbox[j])
    BY <1>9 DEF Maintenance, ScheduleDueFollowups, EnqueueDailyDigest, PurgeExpiredData, IInv, TypeOK
  <2>3. ~Purgeable(outbox[j]) BY DEF Purgeable
  <2> QED BY <2>1, <2>2, <2>3 DEF InsertedOnce, Kept
<1>10. CASE Clock
  <2>1. \/ outbox'[j] = outbox[j]
        \/ outbox'[j] = [outbox[j] EXCEPT !.live = FALSE]
        \/ outbox'[j] = [outbox[j] EXCEPT !.ready = TRUE]
        \/ outbox'[j] = [outbox[j] EXCEPT !.aged = TRUE]
    <3>1. ASSUME NEW S \in SUBSET Job, LeasesExpire(S)
          PROVE  outbox'[j] = outbox[j] \/ outbox'[j] = [outbox[j] EXCEPT !.live = FALSE]
      BY <3>1 DEF LeasesExpire
    <3>2. ASSUME NEW i \in Job, BackoffElapses(i)
          PROVE  outbox'[j] = outbox[j] \/ outbox'[j] = [outbox[j] EXCEPT !.ready = TRUE]
      BY <3>2 DEF BackoffElapses, IInv, TypeOK
    <3>3. ASSUME NEW i \in Job, RowAges(i)
          PROVE  outbox'[j] = outbox[j] \/ outbox'[j] = [outbox[j] EXCEPT !.aged = TRUE]
      BY <3>3 DEF RowAges, IInv, TypeOK
    <3>4. ASSUME NEW l \in Lead, SlaFallsDue(l) \/ LeadAges(l)
          PROVE  outbox'[j] = outbox[j]
      BY <3>4 DEF SlaFallsDue, LeadAges
    <3> QED BY <1>10, <3>1, <3>2, <3>3, <3>4 DEF Clock
  <2> QED BY <1>1, <2>1 DEF Kept, Row
<1>11. CASE UNCHANGED vars BY <1>11 DEF vars, Kept
<1> QED BY <1>6, <1>7, <1>8, <1>9, <1>10, <1>11 DEF Next, Requests

(* Neither a claim nor a purge takes a row from the holder of a live lease. *)
THEOREM LiveLeaseIsSafeHolds == Spec => LiveLeaseIsSafe
<1>1. IInv /\ [Next]_vars =>
        [\A j \in Job :
           (outbox[j].status = "leased" /\ outbox[j].live) =>
             \/ /\ outbox'[j].status = "leased" /\ outbox'[j].token = outbox[j].token
             \/ leases'[j] # leases[j] /\ Len(leases'[j]) = Len(leases[j])
             \/ j[2] = "sla_alert" /\ outbox'[j].status = "cancelled"
                  /\ leadStatus'[j[1]] # "new"]_vars
  BY LiveStep DEF Kept, Recorded, Silenced
<1> QED BY <1>1, IInvAlways, PTL DEF Spec, LiveLeaseIsSafe

(* A row that appears is one that was never there. *)
LEMMA InsertStep ==
  ASSUME IInv, [Next]_vars, NEW j \in Job, ~Exists(outbox[j]), Exists(outbox'[j])
  PROVE  outbox[j].status = "none" /\ leases[j] = <<>>
<1>1. outbox[j].status = "none" => leases[j] = <<>> BY DEF IInv, KeysAreFresh
<1>2. outbox'[j] # outbox[j] BY DEF Exists
<1>3. outbox[j].status \in {"none", "purged"} BY DEF Exists
<1>4. ~Exists(EmptyRow("purged")) BY DEF EmptyRow, Exists
<1>5. ASSUME NEW w \in Worker, NEW locked \in SUBSET Job, ClaimOutbox(w, locked) PROVE FALSE
  <2>1. Swept(j) = outbox[j] BY <1>3 DEF Swept, Exhausted, Moot, Open
  <2>2. ~Claimable(Swept(j)) BY <1>3, <2>1 DEF Claimable
  <2>3. outbox'[j] = Swept(j) BY <1>5, <2>2 DEF ClaimOutbox, Selections
  <2> QED BY <1>2, <2>1, <2>3
<1>6. ASSUME NEW i \in Job, NEW h \in Holders(i),
             \/ AuthorizeDelivery(i, h[2])
             \/ CompleteOutbox(i, h[1], h[2]) \/ FailOutbox(i, h[1], h[2])
      PROVE  FALSE
  <2>1. outbox[i].status = "leased"
    BY <1>6 DEF AuthorizeDelivery, Authorizable, CompleteOutbox, FailOutbox, HoldsLease
  <2>2. i # j BY <1>3, <2>1
  <2>3. outbox'[j] = outbox[j]
    BY <1>6, <2>2 DEF AuthorizeDelivery, CompleteOutbox, FailOutbox, IInv, TypeOK
  <2> QED BY <1>2, <2>3
<1>7. CASE Dispatch BY <1>5, <1>6, <1>7 DEF Dispatch
<1>8. ASSUME NEW l \in Lead, NEW r \in Route, NEW draft \in Drafted, IngestLead(l, r, draft)
      PROVE  outbox[j].status = "none"
  <2>1. j \in FirstDeliveries(l, r, draft) BY <1>2, <1>8 DEF IngestLead
  <2>2. j \in LeadJob /\ j[1] = l BY <2>1 DEF FirstDeliveries, LeadJob, LeadKind
  <2> QED BY <1>8, <2>2 DEF IngestLead, IInv, KeysAreFresh
<1>9. ASSUME NEW l \in Lead, MarkLeadContacted(l) PROVE FALSE
  <2>1. outbox'[j] = outbox[j] BY <1>3, <1>9 DEF MarkLeadContacted, CancelledFor, Open
  <2> QED BY <1>2, <2>1
<1>10. ASSUME NEW locked \in SUBSET Lead, ScheduleDueFollowups(locked)
       PROVE  outbox[j].status = "none"
  <2>1. PICK batch \in SUBSET {l \in Lead \ locked : Overdue(l)} :
          outbox' = [i \in Job |-> IF i[2] = "sla_alert" /\ i[1] \in batch
                                   THEN InsertedOnce(outbox[i]) ELSE outbox[i]]
    BY <1>10 DEF ScheduleDueFollowups
  <2>2. j[2] = "sla_alert" /\ j[1] \in batch BY <1>2, <2>1
  <2>3. j[1] \in Lead /\ j = AlertFor(j[1]) /\ ~escalated[j[1]] BY <2>2, AlertJobs DEF Overdue
  <2> QED BY <2>3 DEF IInv, KeysAreFresh
<1>11. ASSUME NEW d \in Day, EnqueueDailyDigest(d) PROVE outbox[j].status = "none"
  <2>1. j = <<d, "daily_digest">> BY <1>2, <1>11 DEF EnqueueDailyDigest, IInv, TypeOK
  <2> QED BY <1>3, <1>11, <2>1 DEF EnqueueDailyDigest
<1>12. CASE PurgeExpiredData
  <2>1. outbox'[j] = outbox[j] \/ outbox'[j] = EmptyRow("purged") BY <1>12 DEF PurgeExpiredData
  <2> QED BY <1>2, <1>4, <2>1
<1>13. CASE Clock
  <2>1. ASSUME NEW S \in SUBSET Job, LeasesExpire(S) PROVE FALSE
    BY <1>2, <1>3, <2>1 DEF LeasesExpire
  <2>2. ASSUME NEW i \in Job, BackoffElapses(i) \/ RowAges(i) PROVE FALSE
    <3>1. Exists(outbox[i]) BY <2>2 DEF BackoffElapses, RowAges, Exists
    <3>2. outbox'[j] = outbox[j] BY <2>2, <3>1 DEF BackoffElapses, RowAges, IInv, TypeOK
    <3> QED BY <1>2, <3>2
  <2>3. ASSUME NEW l \in Lead, SlaFallsDue(l) \/ LeadAges(l) PROVE FALSE
    BY <1>2, <2>3 DEF SlaFallsDue, LeadAges
  <2> QED BY <1>13, <2>1, <2>2, <2>3 DEF Clock
<1>14. CASE UNCHANGED vars BY <1>2, <1>14 DEF vars
<1> QED BY <1>1, <1>7, <1>8, <1>9, <1>10, <1>11, <1>12, <1>13, <1>14
        DEF Next, Requests, Maintenance

(* No dedupe key is inserted a second time, also when retention has deleted *)
(* its row: what is inserted never had a row nor a lease.                   *)
THEOREM NoKeyReturnsHolds == Spec => NoKeyReturns
<1>1. IInv /\ [Next]_vars =>
        [\A j \in Job :
           ~Exists(outbox[j]) /\ Exists(outbox'[j]) =>
             outbox[j].status = "none" /\ leases[j] = <<>>]_vars
  BY InsertStep
<1> QED BY <1>1, IInvAlways, PTL DEF Spec, NoKeyReturns

----------------------------------------------------------------------------
(* The activity of a request agrees with its history.  A request not yet   *)
(* created has neither; each transaction then adds the same to both.       *)

Unused ==
  \A l \in Lead : leadStatus[l] = "none" =>
    ~escalated[l] /\ \A e \in EventType : activity[l][e] = 0

AInv == IInv /\ Unused /\ ActivityTellsHistory

Recordable == Outcome \ {"open"}

OutcomesIn(h, l, o) ==
  UNION {{<<k, t>> : t \in {i \in 1..Len(h[<<l, k>>]) : h[<<l, k>>][i].outcome = o}} :
         k \in LeadKind}

(* In the history h, the lease t of l's row k recorded o. *)
RecordedIn(h, l, o, k, t) ==
  k \in LeadKind /\ t \in 1..Len(h[<<l, k>>]) /\ h[<<l, k>>][t].outcome = o

LEMMA OutcomePairs ==
  ASSUME NEW h, NEW l, NEW o
  PROVE  /\ \A k, t : <<k, t>> \in OutcomesIn(h, l, o) <=> RecordedIn(h, l, o, k, t)
         /\ \A x \in OutcomesIn(h, l, o) : \E k, t : x = <<k, t>>
<1>. DEFINE I(k) == {i \in 1..Len(h[<<l, k>>]) : h[<<l, k>>][i].outcome = o}
            T(k) == {<<k, t>> : t \in I(k)}
<1>1. \A k, t : <<k, t>> \in T(k) <=> t \in I(k)
  OBVIOUS
<1>2. \A k : \A x \in T(k) : \E t : x = <<k, t>>
  OBVIOUS
<1>3. OutcomesIn(h, l, o) = UNION {T(k) : k \in LeadKind}
  BY DEF OutcomesIn
<1>4. \A k, t : t \in I(k) <=> t \in 1..Len(h[<<l, k>>]) /\ h[<<l, k>>][t].outcome = o
  OBVIOUS
<1>. HIDE DEF T, I
<1>5. \A x : x \in UNION {T(k) : k \in LeadKind} <=> \E k \in LeadKind : x \in T(k)
  OBVIOUS
<1>6. ASSUME NEW k, NEW t
      PROVE  <<k, t>> \in OutcomesIn(h, l, o) <=> RecordedIn(h, l, o, k, t)
  <2>1. ASSUME NEW k1 \in LeadKind, <<k, t>> \in T(k1) PROVE k1 = k
    BY <1>2, <2>1
  <2>. QED BY <1>1, <1>3, <1>4, <1>5, <2>1 DEF RecordedIn
<1>7. \A x \in OutcomesIn(h, l, o) : \E k, t : x = <<k, t>>
  BY <1>2, <1>3, <1>5
<1>. QED BY <1>6, <1>7

LEMMA OutcomesNowAndThen ==
  ASSUME NEW l, NEW o
  PROVE  Outcomes(l, o) = OutcomesIn(leases, l, o) /\ Outcomes(l, o)' = OutcomesIn(leases', l, o)
BY DEF Outcomes, OutcomesIn

LEMMA OutcomesFinite ==
  ASSUME TypeOK, NEW l \in Lead, NEW o
  PROVE  IsFiniteSet(Outcomes(l, o)) /\ Cardinality(Outcomes(l, o)) \in Nat
<1>. DEFINE n(k) == Len(leases[<<l, k>>])
            top == n("customer_ack") + n("owner_alert") + n("sla_alert")
<1>1. \A k \in LeadKind : n(k) \in Nat
  BY DEF TypeOK, Job, LeadKind
<1>0. top \in Nat /\ \A k \in LeadKind : n(k) \in Nat /\ n(k) <= top
  <2>1. n("customer_ack") \in Nat /\ n("owner_alert") \in Nat /\ n("sla_alert") \in Nat
    BY <1>1 DEF LeadKind
  <2>. HIDE DEF n
  <2>2. top \in Nat
    BY <2>1
  <2>3. ASSUME NEW k \in LeadKind PROVE n(k) \in Nat /\ n(k) <= top
    BY <2>1 DEF LeadKind
  <2>. QED BY <2>2, <2>3
<1>. HIDE DEF n, top
<1>2. top \in Nat /\ \A k \in LeadKind : n(k) \in Nat /\ n(k) <= top
  BY <1>0
<1>3. IsFiniteSet(1..top)
  BY <1>2, FS_Interval
<1>4. IsFiniteSet(LeadKind)
  <2>1. LeadKind = (({} \cup {"customer_ack"}) \cup {"owner_alert"}) \cup {"sla_alert"}
    BY DEF LeadKind
  <2>. QED BY <2>1, FS_EmptySet, FS_AddElement
<1>5. IsFiniteSet(LeadKind \X (1..top))
  BY <1>3, <1>4, FS_Product
<1>6. Outcomes(l, o) \in SUBSET (LeadKind \X (1..top))
  <2>. SUFFICES ASSUME NEW x \in Outcomes(l, o) PROVE x \in LeadKind \X (1..top)
    OBVIOUS
  <2>0. x \in OutcomesIn(leases, l, o)
    BY OutcomesNowAndThen
  <2>1. PICK k, t : x = <<k, t>> /\ RecordedIn(leases, l, o, k, t)
    BY <2>0, OutcomePairs
  <2>3. k \in LeadKind /\ t \in 1..n(k)
    BY <2>1 DEF RecordedIn, n
  <2>2. t \in 1..top
    BY <1>2, <2>3
  <2>. QED BY <2>1, <2>2, <2>3
<1>. QED BY <1>5, <1>6, FS_Subset, FS_CardinalityType

LEMMA SamePairs ==
  ASSUME NEW l, NEW o,
         \A k, t : RecordedIn(leases', l, o, k, t) <=> RecordedIn(leases, l, o, k, t)
  PROVE  Outcomes(l, o)' = Outcomes(l, o)
<1>1. \A x : x \in OutcomesIn(leases', l, o) <=> x \in OutcomesIn(leases, l, o)
  BY OutcomePairs
<1>2. OutcomesIn(leases', l, o) = OutcomesIn(leases, l, o)
  BY <1>1
<1>. QED BY <1>2, OutcomesNowAndThen

OneMore(l, o, c, i) ==
  \A k, t : RecordedIn(leases', l, o, k, t)
             <=> RecordedIn(leases, l, o, k, t) \/ (k = c /\ t = i)

LEMMA OneMorePair ==
  ASSUME NEW l, NEW o, NEW c, NEW i, OneMore(l, o, c, i)
  PROVE  Outcomes(l, o)' = Outcomes(l, o) \cup {<<c, i>>}
<1>1. <<c, i>> \in OutcomesIn(leases', l, o)
  BY OutcomePairs DEF OneMore
<1>2. \A x : x \in OutcomesIn(leases', l, o) <=> x \in OutcomesIn(leases, l, o) \cup {<<c, i>>}
  <2>1. ASSUME NEW x \in OutcomesIn(leases', l, o)
        PROVE  x \in OutcomesIn(leases, l, o) \cup {<<c, i>>}
    BY OutcomePairs DEF OneMore
  <2>2. ASSUME NEW x \in OutcomesIn(leases, l, o) PROVE x \in OutcomesIn(leases', l, o)
    BY OutcomePairs DEF OneMore
  <2>. QED BY <1>1, <2>1, <2>2
<1>3. OutcomesIn(leases', l, o) = OutcomesIn(leases, l, o) \cup {<<c, i>>}
  BY <1>2
<1>. QED BY <1>3, OutcomesNowAndThen

(* Leases that are granted, and leases of other rows, change no outcome. *)
LEMMA SameOutcomes ==
  ASSUME TypeOK, NEW l \in Lead, NEW o \in Recordable,
         \A k \in LeadKind :
           \/ leases'[<<l, k>>] = leases[<<l, k>>]
           \/ \E w \in Worker :
                leases'[<<l, k>>] = Append(leases[<<l, k>>], [worker |-> w, outcome |-> "open"])
  PROVE  Outcomes(l, o)' = Outcomes(l, o)
<1>1. ASSUME NEW k \in LeadKind, NEW t
      PROVE  RecordedIn(leases', l, o, k, t) <=> RecordedIn(leases, l, o, k, t)
  <2>1. leases[<<l, k>>] \in Seq(Lease)
    BY DEF TypeOK, Job
  <2>2. CASE leases'[<<l, k>>] = leases[<<l, k>>]
    BY <2>2 DEF RecordedIn
  <2>3. ASSUME NEW w \in Worker,
               leases'[<<l, k>>] = Append(leases[<<l, k>>], [worker |-> w, outcome |-> "open"])
        PROVE  RecordedIn(leases', l, o, k, t) <=> RecordedIn(leases, l, o, k, t)
    <3>. DEFINE h == leases[<<l, k>>]  g == leases'[<<l, k>>]
    <3>1. /\ Len(g) = Len(h) + 1 /\ Len(h) \in Nat
          /\ g[Len(h) + 1] = [worker |-> w, outcome |-> "open"]
          /\ \A i \in 1..Len(h) : g[i] = h[i]
      BY <2>1, <2>3
    <3>2. o # "open"
      BY DEF Recordable
    <3>. HIDE DEF h, g
    <3>3. (t \in 1..Len(g) /\ g[t].outcome = o) <=> (t \in 1..Len(h) /\ h[t].outcome = o)
      BY <3>1, <3>2
    <3>. QED BY <3>3 DEF h, g, RecordedIn
  <2>. QED BY <2>2, <2>3
<1>2. \A k, t : RecordedIn(leases', l, o, k, t) <=> RecordedIn(leases, l, o, k, t)
  BY <1>1 DEF RecordedIn
<1>. QED BY <1>2, SamePairs

(* The newest lease of a row of l records o. *)
LEMMA OneMoreOutcome ==
  ASSUME TypeOK, NEW j \in Job, NEW t \in 1..Len(leases[j]), leases[j][t].outcome = "open",
         NEW p \in Recordable, Ended(j, t, p), NEW l \in Lead, NEW o \in Recordable
  PROVE  Cardinality(Outcomes(l, o))' =
           Cardinality(Outcomes(l, o)) + (IF j \in LeadJob /\ j[1] = l /\ o = p THEN 1 ELSE 0)
<1>1. /\ Len(leases'[j]) = Len(leases[j]) /\ leases'[j][t].outcome = p
      /\ \A i \in 1..Len(leases[j]) : i # t => leases'[j][i] = leases[j][i]
      /\ \A k \in Job : k # j => leases'[k] = leases[k]
  BY EndedType DEF Recordable
<1>2. IsFiniteSet(Outcomes(l, o)) /\ Cardinality(Outcomes(l, o)) \in Nat
  BY OutcomesFinite
<1>3. \A k \in LeadKind : <<l, k>> \in Job /\ <<l, k>> \in LeadJob
  BY DEF Job, LeadJob
<1>4. CASE j \in LeadJob /\ j[1] = l
  <2>. DEFINE c == j[2]
  <2>1. j = <<l, c>> /\ c \in LeadKind
    BY <1>4 DEF LeadJob
  <2>. HIDE DEF c
  <2>2. ASSUME NEW k, NEW i
        PROVE  RecordedIn(leases', l, o, k, i)
                 <=> RecordedIn(leases, l, o, k, i) \/ (o = p /\ k = c /\ i = t)
    <3>1. CASE k \in LeadKind /\ k # c
      <4>1. leases'[<<l, k>>] = leases[<<l, k>>]
        BY <1>1, <1>3, <2>1, <3>1
      <4>. QED BY <3>1, <4>1 DEF RecordedIn
    <3>2. CASE k = c
      BY <1>1, <2>1, <3>2 DEF RecordedIn, Recordable
    <3>3. CASE k \notin LeadKind
      BY <2>1, <3>3 DEF RecordedIn
    <3>. QED BY <3>1, <3>2, <3>3
  <2>3. ~RecordedIn(leases, l, o, c, t)
    BY <2>1 DEF RecordedIn, Recordable
  <2>4. <<c, t>> \notin Outcomes(l, o)
    BY <2>3, OutcomePairs, OutcomesNowAndThen
  <2>5. CASE o = p
    <3>1. Outcomes(l, o)' = Outcomes(l, o) \cup {<<c, t>>}
      <4>1. OneMore(l, o, c, t)
        BY <2>2, <2>5 DEF OneMore
      <4>. QED BY <4>1, OneMorePair
    <3>. QED BY <1>2, <1>4, <2>4, <2>5, <3>1, FS_AddElement
  <2>6. CASE o # p
    <3>1. Outcomes(l, o)' = Outcomes(l, o)
      BY <2>2, <2>6, SamePairs
    <3>. QED BY <1>2, <2>6, <3>1
  <2>. QED BY <2>5, <2>6
<1>5. CASE ~(j \in LeadJob /\ j[1] = l)
  <2>1. \A k \in LeadKind : leases'[<<l, k>>] = leases[<<l, k>>]
    BY <1>1, <1>3, <1>5
  <2>2. Outcomes(l, o)' = Outcomes(l, o)
    BY <2>1, SameOutcomes
  <2>. QED BY <1>2, <1>5, <2>2
<1>. QED BY <1>4, <1>5

LEMMA LoggedOnce ==
  ASSUME TypeOK, NEW l \in Lead, NEW e \in EventType
  PROVE  \A m \in Lead : \A f \in EventType :
           Logged(l, e)[m][f] = activity[m][f] + (IF m = l /\ f = e THEN 1 ELSE 0)
<1>1. activity \in [Lead -> [EventType -> Nat]]
  BY DEF TypeOK
<1>2. Logged(l, e) = [activity EXCEPT ![l] = [activity[l] EXCEPT ![e] = activity[l][e] + 1]]
  BY DEF Logged
<1>3. ASSUME NEW m \in Lead, NEW f \in EventType
      PROVE  Logged(l, e)[m][f] = activity[m][f] + (IF m = l /\ f = e THEN 1 ELSE 0)
  <2>1. activity[m][f] \in Nat
    BY <1>1
  <2>2. CASE m = l /\ f = e
    BY <1>1, <1>2, <2>2
  <2>3. CASE ~(m = l /\ f = e)
    <3>1. Logged(l, e)[m][f] = activity[m][f]
      BY <1>1, <1>2, <2>3
    <3>. QED BY <2>1, <2>3, <3>1
  <2>. QED BY <2>2, <2>3
<1>. QED BY <1>3

Tells(l) ==
  /\ activity[l]["accepted"] = 1
  /\ activity[l]["contacted"] = IF leadStatus[l] = "contacted" THEN 1 ELSE 0
  /\ activity[l]["sla_escalated"] = IF escalated[l] THEN 1 ELSE 0
  /\ activity[l]["delivery_succeeded"] = Cardinality(Outcomes(l, "delivered"))
  /\ activity[l]["delivery_deferred"] = Cardinality(Outcomes(l, "deferred"))
  /\ activity[l]["delivery_dead_lettered"] = Cardinality(Outcomes(l, "dead_letter"))

LEMMA TellsAll == ActivityTellsHistory <=> \A l \in Lead : LeadPresent(l) => Tells(l)
BY DEF ActivityTellsHistory, Tells

(* No lease records anything. *)
NothingRecorded == \A l \in Lead : \A o \in Recordable : Outcomes(l, o)' = Outcomes(l, o)

LEMMA KeptLeases ==
  ASSUME TypeOK, leases' = leases
  PROVE  NothingRecorded
BY SameOutcomes DEF NothingRecorded

LEMMA SameCounts ==
  ASSUME NothingRecorded, NEW l \in Lead
  PROVE  /\ Cardinality(Outcomes(l, "delivered"))' = Cardinality(Outcomes(l, "delivered"))
         /\ Cardinality(Outcomes(l, "deferred"))' = Cardinality(Outcomes(l, "deferred"))
         /\ Cardinality(Outcomes(l, "dead_letter"))' = Cardinality(Outcomes(l, "dead_letter"))
<1>1. {"delivered", "deferred", "dead_letter"} \subseteq Recordable
  BY DEF Recordable, Outcome
<1>2. \A o \in {"delivered", "deferred", "dead_letter"} : Outcomes(l, o)' = Outcomes(l, o)
  BY <1>1 DEF NothingRecorded
<1>. QED BY <1>2

(* A lead whose status, escalation and activity stay has its history told. *)
LEMMA TellsStill ==
  ASSUME NothingRecorded, NEW l \in Lead, Tells(l), leadStatus'[l] = leadStatus[l],
         escalated'[l] = escalated[l], activity'[l] = activity[l]
  PROVE  Tells(l)'
BY SameCounts DEF Tells

LEMMA AInvQuiet ==
  ASSUME AInv, IInv', NothingRecorded, activity' = activity, escalated' = escalated,
         leadStatus' = leadStatus
  PROVE  AInv'
<1>1. \A l \in Lead : LeadPresent(l)' => Tells(l)'
  BY TellsAll, TellsStill DEF AInv, LeadPresent
<1>2. ActivityTellsHistory'
  BY <1>1 DEF ActivityTellsHistory, Tells
<1>. QED BY <1>2 DEF AInv, Unused

(* complete_outbox and fail_outbox: one lease more, one event more. *)
Log == {<<"delivered", "delivery_succeeded">>, <<"deferred", "delivery_deferred">>,
        <<"dead_letter", "delivery_dead_lettered">>}

LEMMA RecordTells ==
  ASSUME AInv, IInv', NEW j \in Job, NEW w, NEW t, CompleteOutbox(j, w, t) \/ FailOutbox(j, w, t)
  PROVE  AInv'
<1>1. TypeOK /\ t \in 1..Len(leases[j]) /\ leases[j][t].outcome = "open"
  BY HeldLease DEF AInv, IInv, CompleteOutbox, FailOutbox
<1>2. leadStatus' = leadStatus /\ escalated' = escalated
  BY DEF CompleteOutbox, FailOutbox, leadVars
<1>3. PICK p, e : <<p, e>> \in Log /\ Ended(j, t, p) /\ LogDelivery(j, e)
  BY DEF CompleteOutbox, FailOutbox, Log
<1>4. /\ p \in Recordable /\ e \in EventType \ {"accepted", "contacted", "sla_escalated"}
      /\ {"delivered", "deferred", "dead_letter"} \subseteq Recordable
      /\ e = "delivery_succeeded" <=> p = "delivered"
      /\ e = "delivery_deferred" <=> p = "deferred"
      /\ e = "delivery_dead_lettered" <=> p = "dead_letter"
  BY <1>3 DEF Log, Recordable, Outcome, EventType
<1>5. ASSUME NEW l \in Lead, NEW o \in Recordable
      PROVE  Cardinality(Outcomes(l, o))' =
               Cardinality(Outcomes(l, o)) + (IF j \in LeadJob /\ j[1] = l /\ o = p THEN 1 ELSE 0)
  BY <1>1, <1>3, <1>4, OneMoreOutcome
<1>6. ASSUME NEW l \in Lead, NEW f \in EventType
      PROVE  activity'[l][f] = activity[l][f] +
               (IF j \in LeadJob /\ j[1] = l /\ LeadPresent(l) /\ f = e THEN 1 ELSE 0)
  <2>1. activity[l][f] \in Nat
    BY <1>1 DEF TypeOK
  <2>2. CASE j \in LeadJob /\ LeadPresent(j[1])
    <3>1. activity' = Logged(j[1], e) /\ j[1] \in Lead
      BY <1>3, <2>2, LeadJobs DEF LogDelivery
    <3>. QED BY <1>1, <1>4, <2>2, <3>1, LoggedOnce
  <2>3. CASE ~(j \in LeadJob /\ LeadPresent(j[1]))
    <3>1. activity' = activity
      BY <1>3, <2>3 DEF LogDelivery
    <3>. QED BY <2>1, <2>3, <3>1
  <2>. QED BY <2>2, <2>3
<1>7. ASSUME NEW l \in Lead, LeadPresent(l)
      PROVE  Tells(l)'
  <2>. DEFINE hit == j \in LeadJob /\ j[1] = l
              C(o) == Cardinality(Outcomes(l, o))
              D(o) == Cardinality(Outcomes(l, o))'
  <2>1. /\ C("delivered") \in Nat /\ C("deferred") \in Nat /\ C("dead_letter") \in Nat
        /\ \A f \in EventType : activity[l][f] \in Nat
    BY <1>1, OutcomesFinite DEF TypeOK
  <2>2. /\ D("delivered") = C("delivered") + (IF hit /\ p = "delivered" THEN 1 ELSE 0)
        /\ D("deferred") = C("deferred") + (IF hit /\ p = "deferred" THEN 1 ELSE 0)
        /\ D("dead_letter") = C("dead_letter") + (IF hit /\ p = "dead_letter" THEN 1 ELSE 0)
    BY <1>4, <1>5
  <2>3. /\ activity[l]["delivery_succeeded"] = C("delivered")
        /\ activity[l]["delivery_deferred"] = C("deferred")
        /\ activity[l]["delivery_dead_lettered"] = C("dead_letter")
    BY <1>7 DEF AInv, ActivityTellsHistory
  <2>. HIDE DEF C, D
  <2>4. /\ activity'[l]["delivery_succeeded"] = D("delivered")
        /\ activity'[l]["delivery_deferred"] = D("deferred")
        /\ activity'[l]["delivery_dead_lettered"] = D("dead_letter")
    BY <1>4, <1>6, <1>7, <2>1, <2>2, <2>3 DEF EventType
  <2>5. \A f \in {"accepted", "contacted", "sla_escalated"} : activity'[l][f] = activity[l][f]
    BY <1>4, <1>6, <2>1 DEF EventType
  <2>6. /\ activity[l]["accepted"] = 1
        /\ activity[l]["contacted"] = IF leadStatus[l] = "contacted" THEN 1 ELSE 0
        /\ activity[l]["sla_escalated"] = IF escalated[l] THEN 1 ELSE 0
    BY <1>7 DEF AInv, ActivityTellsHistory
  <2>7. /\ activity'[l]["accepted"] = 1
        /\ activity'[l]["contacted"] = IF leadStatus'[l] = "contacted" THEN 1 ELSE 0
        /\ activity'[l]["sla_escalated"] = IF escalated'[l] THEN 1 ELSE 0
    BY <1>2, <2>5, <2>6
  <2>. QED BY <2>4, <2>7 DEF Tells, D
<1>8. ActivityTellsHistory'
  BY <1>2, <1>7 DEF ActivityTellsHistory, Tells, LeadPresent
<1>9. Unused'
  <2>1. ASSUME NEW l \in Lead, leadStatus[l] = "none", NEW f \in EventType
        PROVE  activity'[l][f] = 0
    BY <1>6, <2>1 DEF AInv, Unused, LeadPresent
  <2>. QED BY <1>2, <2>1 DEF AInv, Unused
<1>. QED BY <1>8, <1>9 DEF AInv

LEMMA IngestTells ==
  ASSUME AInv, IInv', NEW l \in Lead, NEW r \in Route, NEW draft \in Drafted, IngestLead(l, r, draft)
  PROVE  AInv'
<1>1. /\ TypeOK /\ leadStatus[l] = "none" /\ leadStatus' = [leadStatus EXCEPT ![l] = "new"]
      /\ activity' = Logged(l, "accepted") /\ leases' = leases /\ escalated' = escalated
  BY DEF IngestLead, AInv, IInv
<1>2. NothingRecorded
  BY <1>1, KeptLeases
<1>3. \A m \in Lead : m # l => activity'[m] = activity[m] /\ leadStatus'[m] = leadStatus[m]
  BY <1>1 DEF TypeOK, Logged
<1>4. \A k \in LeadKind : leases[<<l, k>>] = <<>>
  <2>1. \A k \in LeadKind : <<l, k>> \in LeadJob /\ <<l, k>> \in Job /\ <<l, k>>[1] = l
    BY DEF LeadJob, Job
  <2>. QED BY <1>1, <2>1 DEF AInv, IInv, KeysAreFresh
<1>5. \A o \in Recordable : Cardinality(Outcomes(l, o))' = 0
  <2>. SUFFICES ASSUME NEW o \in Recordable PROVE Cardinality(Outcomes(l, o))' = 0
    OBVIOUS
  <2>1. \A k, t : ~RecordedIn(leases, l, o, k, t)
    BY <1>4 DEF RecordedIn
  <2>2. Outcomes(l, o) = {}
    BY <2>1, OutcomePairs, OutcomesNowAndThen
  <2>3. Outcomes(l, o)' = {}
    BY <1>2, <2>2 DEF NothingRecorded
  <2>. QED BY <2>3, FS_EmptySet
<1>6. Tells(l)'
  <2>1. \A f \in EventType : activity'[l][f] = IF f = "accepted" THEN 1 ELSE 0
    <3>1. \A f \in EventType : activity[l][f] = 0
      BY <1>1 DEF AInv, Unused
    <3>. QED BY <1>1, <3>1, LoggedOnce DEF EventType
  <2>2. /\ activity'[l]["accepted"] = 1 /\ activity'[l]["contacted"] = 0
        /\ activity'[l]["sla_escalated"] = 0 /\ activity'[l]["delivery_succeeded"] = 0
        /\ activity'[l]["delivery_deferred"] = 0 /\ activity'[l]["delivery_dead_lettered"] = 0
    BY <2>1 DEF EventType
  <2>3. leadStatus'[l] = "new" /\ ~escalated'[l]
    BY <1>1 DEF AInv, Unused, TypeOK
  <2>4. /\ Cardinality(Outcomes(l, "delivered"))' = 0
        /\ Cardinality(Outcomes(l, "deferred"))' = 0
        /\ Cardinality(Outcomes(l, "dead_letter"))' = 0
    BY <1>5 DEF Recordable, Outcome
  <2>. QED BY <2>2, <2>3, <2>4 DEF Tells
<1>7. \A m \in Lead : m # l /\ LeadPresent(m)' => Tells(m)'
  BY <1>1, <1>2, <1>3, TellsStill, TellsAll DEF AInv, LeadPresent
<1>8. ActivityTellsHistory'
  BY <1>6, <1>7 DEF ActivityTellsHistory, Tells
<1>9. Unused'
  BY <1>1, <1>3 DEF Unused, AInv, TypeOK
<1>. QED BY <1>8, <1>9 DEF AInv

LEMMA ContactTells ==
  ASSUME AInv, IInv', NEW l \in Lead, MarkLeadContacted(l)
  PROVE  AInv'
<1>1. /\ TypeOK /\ leadStatus[l] = "new" /\ leadStatus' = [leadStatus EXCEPT ![l] = "contacted"]
      /\ activity' = Logged(l, "contacted") /\ leases' = leases /\ escalated' = escalated
  BY DEF MarkLeadContacted, AInv, IInv
<1>2. NothingRecorded
  BY <1>1, KeptLeases
<1>3. \A m \in Lead : m # l => activity'[m] = activity[m] /\ leadStatus'[m] = leadStatus[m]
  BY <1>1 DEF TypeOK, Logged
<1>4. Tells(l)'
  <2>1. Tells(l) /\ leadStatus'[l] = "contacted"
    BY <1>1, TellsAll DEF AInv, LeadPresent, TypeOK
  <2>2. \A f \in EventType :
          activity'[l][f] = IF f = "contacted" THEN activity[l][f] + 1 ELSE activity[l][f]
    <3>1. \A f \in EventType : activity[l][f] \in Nat
      BY <1>1 DEF TypeOK
    <3>. QED BY <1>1, <3>1, LoggedOnce DEF EventType
  <2>3. /\ activity'[l]["accepted"] = activity[l]["accepted"]
        /\ activity'[l]["contacted"] = activity[l]["contacted"] + 1
        /\ activity'[l]["sla_escalated"] = activity[l]["sla_escalated"]
        /\ activity'[l]["delivery_succeeded"] = activity[l]["delivery_succeeded"]
        /\ activity'[l]["delivery_deferred"] = activity[l]["delivery_deferred"]
        /\ activity'[l]["delivery_dead_lettered"] = activity[l]["delivery_dead_lettered"]
    BY <2>2 DEF EventType
  <2>4. activity[l]["contacted"] = 0
    BY <1>1, <2>1 DEF Tells
  <2>. QED BY <1>1, <1>2, <2>1, <2>3, <2>4, SameCounts DEF Tells
<1>5. \A m \in Lead : m # l /\ LeadPresent(m)' => Tells(m)'
  BY <1>1, <1>2, <1>3, TellsStill, TellsAll DEF AInv, LeadPresent
<1>6. ActivityTellsHistory'
  BY <1>4, <1>5 DEF ActivityTellsHistory, Tells
<1>7. Unused'
  BY <1>1, <1>3 DEF Unused, AInv, TypeOK
<1>. QED BY <1>6, <1>7 DEF AInv

LEMMA ScheduleTells ==
  ASSUME AInv, IInv', NEW locked \in SUBSET Lead, ScheduleDueFollowups(locked)
  PROVE  AInv'
<1>1. PICK batch \in SUBSET {l \in Lead \ locked : Overdue(l)} :
        /\ escalated' = [l \in Lead |-> escalated[l] \/ l \in batch]
        /\ activity' = [l \in Lead |-> IF l \in batch
                                       THEN [activity[l] EXCEPT !["sla_escalated"] = @ + 1]
                                       ELSE activity[l]]
        /\ UNCHANGED <<leadStatus, leases>>
  BY DEF ScheduleDueFollowups
<1>2. TypeOK /\ NothingRecorded
  BY <1>1, KeptLeases DEF AInv, IInv
<1>3. \A l \in batch : leadStatus[l] = "new" /\ ~escalated[l]
  BY <1>1 DEF Overdue
<1>4. ASSUME NEW l \in Lead, l \notin batch
      PROVE  activity'[l] = activity[l] /\ escalated'[l] = escalated[l] /\ leadStatus'[l] = leadStatus[l]
  <2>1. escalated[l] \in BOOLEAN
    BY <1>2 DEF TypeOK
  <2>. QED BY <1>1, <1>4, <2>1
<1>5. ASSUME NEW l \in batch PROVE Tells(l)'
  <2>1. l \in Lead /\ Tells(l)
    BY <1>1, <1>3, TellsAll DEF AInv, LeadPresent
  <2>2. activity'[l] = [activity[l] EXCEPT !["sla_escalated"] = activity[l]["sla_escalated"] + 1]
        /\ escalated'[l] /\ leadStatus'[l] = leadStatus[l]
    BY <1>1, <2>1
  <2>3. activity[l] \in [EventType -> Nat]
    BY <1>2, <2>1 DEF TypeOK
  <2>4. /\ activity'[l]["accepted"] = activity[l]["accepted"]
        /\ activity'[l]["contacted"] = activity[l]["contacted"]
        /\ activity'[l]["sla_escalated"] = activity[l]["sla_escalated"] + 1
        /\ activity'[l]["delivery_succeeded"] = activity[l]["delivery_succeeded"]
        /\ activity'[l]["delivery_deferred"] = activity[l]["delivery_deferred"]
        /\ activity'[l]["delivery_dead_lettered"] = activity[l]["delivery_dead_lettered"]
    BY <2>2, <2>3 DEF EventType
  <2>5. activity[l]["sla_escalated"] = 0
    BY <1>3, <2>1 DEF Tells
  <2>. QED BY <1>2, <2>1, <2>2, <2>4, <2>5, SameCounts DEF Tells
<1>6. \A l \in Lead : l \notin batch /\ LeadPresent(l)' => Tells(l)'
  BY <1>1, <1>2, <1>4, TellsStill, TellsAll DEF AInv, LeadPresent
<1>7. ActivityTellsHistory'
  BY <1>5, <1>6 DEF ActivityTellsHistory, Tells
<1>8. Unused'
  BY <1>1, <1>3, <1>4 DEF Unused, AInv
<1>. QED BY <1>7, <1>8 DEF AInv

LEMMA PurgeTells ==
  ASSUME AInv, IInv', PurgeExpiredData
  PROVE  AInv'
<1>. DEFINE gone == {l \in Lead : LeadPresent(l) /\ leadAged[l]}
<1>1. /\ leadStatus' = [l \in Lead |-> IF l \in gone THEN "purged" ELSE leadStatus[l]]
      /\ activity' = [l \in Lead |-> IF l \in gone THEN [e \in EventType |-> 0] ELSE activity[l]]
      /\ escalated' = escalated /\ leases' = leases
  BY DEF PurgeExpiredData
<1>. HIDE DEF gone
<1>2. NothingRecorded
  BY <1>1, KeptLeases DEF AInv, IInv
<1>3. ASSUME NEW l \in Lead, LeadPresent(l)' PROVE Tells(l)'
  <2>1. l \notin gone
    BY <1>1, <1>3 DEF LeadPresent
  <2>2. leadStatus'[l] = leadStatus[l] /\ activity'[l] = activity[l] /\ escalated'[l] = escalated[l]
    BY <1>1, <2>1
  <2>3. Tells(l)
    BY <1>3, <2>2, TellsAll DEF AInv, LeadPresent
  <2>. QED BY <1>2, <2>2, <2>3, TellsStill
<1>4. ActivityTellsHistory'
  BY <1>3 DEF ActivityTellsHistory, Tells
<1>5. Unused'
  BY <1>1 DEF Unused, AInv
<1>. QED BY <1>4, <1>5 DEF AInv

LEMMA AInvInit == Init => AInv
<1>. SUFFICES ASSUME Init PROVE AInv
  OBVIOUS
<1>1. Unused /\ ActivityTellsHistory
  BY DEF Init, Unused, ActivityTellsHistory, LeadPresent
<1>. QED BY <1>1, IInvInit DEF AInv

LEMMA AInvStep == AInv /\ [Next]_vars => AInv'
<1>. SUFFICES ASSUME AInv, [Next]_vars PROVE AInv'
  OBVIOUS
<1>1. IInv' /\ TypeOK
  BY IInvStep DEF AInv, IInv
<1>2. ASSUME NEW w \in Worker, NEW locked \in SUBSET Job, ClaimOutbox(w, locked) PROVE AInv'
  <2>1. /\ \A j \in Job : \/ leases'[j] = leases[j]
                          \/ leases'[j] = Append(leases[j], [worker |-> w, outcome |-> "open"])
        /\ UNCHANGED <<activity, escalated, leadStatus>>
    BY <1>2 DEF ClaimOutbox
  <2>2. \A l \in Lead, k \in LeadKind : <<l, k>> \in Job
    BY DEF Job
  <2>3. NothingRecorded
    BY <1>1, <2>1, <2>2, SameOutcomes DEF NothingRecorded
  <2>. QED BY <1>1, <2>1, <2>3, AInvQuiet
<1>3. ASSUME UNCHANGED <<leases, activity, escalated, leadStatus>> PROVE AInv'
  BY <1>1, <1>3, KeptLeases, AInvQuiet
<1>4. CASE Dispatch
  <2>1. ASSUME NEW j \in Job, NEW t, AuthorizeDelivery(j, t) PROVE AInv'
    BY <1>3, <2>1 DEF AuthorizeDelivery
  <2>. QED BY <1>1, <1>2, <1>4, <2>1, RecordTells DEF Dispatch
<1>5. CASE Requests
  BY <1>1, <1>5, IngestTells, ContactTells DEF Requests
<1>6. CASE Maintenance
  <2>1. ASSUME NEW d \in Day, EnqueueDailyDigest(d) PROVE AInv'
    BY <1>3, <2>1 DEF EnqueueDailyDigest
  <2>. QED BY <1>1, <1>6, <2>1, ScheduleTells, PurgeTells DEF Maintenance
<1>7. CASE Clock \/ UNCHANGED vars
  BY <1>3, <1>7 DEF Clock, LeasesExpire, BackoffElapses, RowAges, SlaFallsDue, LeadAges, vars
<1>. QED BY <1>4, <1>5, <1>6, <1>7 DEF Next

(* The activity of a request agrees with what happened to it: it was       *)
(* contacted or escalated at most once, and every lease that was completed *)
(* or failed is told once.                                                 *)
THEOREM ActivityTellsHistoryHolds == Spec => []ActivityTellsHistory
<1>1. AInv => ActivityTellsHistory
  BY DEF AInv
<1>. QED BY <1>1, AInvInit, AInvStep, PTL DEF Spec
=============================================================================
