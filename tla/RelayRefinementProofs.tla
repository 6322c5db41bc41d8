----------------------- MODULE RelayRefinementProofs -----------------------
(***************************************************************************)
(* The outbox implements OutboxPromise, for every set of leads, days and   *)
(* workers and every bound: each transaction is a step of the promise or   *)
(* changes nothing it speaks of.                                           *)
(***************************************************************************)
EXTENDS RelayOutboxRefines, RelayOutboxProofs

(* The mapped variables, by name. *)
Items == [j \in Job |-> ItemOf(outbox[j])]
RequestStates == [a \in AlertJob |-> RequestOf(leadStatus[a[1]])]

LEMMA AlertJobIsJob ==
  /\ AlertJob \subseteq Job
  /\ \A a \in AlertJob : a[1] \in Lead /\ a = AlertFor(a[1]) /\ a[2] = "sla_alert"
  /\ \A l \in Lead : AlertFor(l) \in AlertJob
  /\ \A j \in Job : j[2] = "sla_alert" <=> j \in AlertJob
BY DEF AlertJob, Job, LeadKind, AlertFor

LEMMA ItemOfStatus ==
  ASSUME NEW row \in Row
  PROVE  /\ ItemOf(row) = "none" <=> row.status = "none"
         /\ ItemOf(row) = "owed" <=> Open(row)
         /\ row.status = "delivered" => ItemOf(row) = "delivered"
         /\ row.status = "dead_letter" => ItemOf(row) = "abandoned"
         /\ row.status = "cancelled" => ItemOf(row) = "withdrawn"
         /\ row.status = "purged" => ItemOf(row) = "forgotten"
BY DEF ItemOf, Open, Row, RowStatus, Final

LEMMA ReleasedStatus ==
  ASSUME NEW row \in Row
  PROVE  /\ Released(row, "cancelled").status = "cancelled"
         /\ Released(row, "delivered").status = "delivered"
         /\ Released(row, "dead_letter").status = "dead_letter"
BY DEF Released, Row

(* Rows are typed before and after a step. *)
LEMMA RowsTyped ==
  ASSUME IInv, TypeOK', NEW j \in Job
  PROVE  outbox[j] \in Row /\ outbox'[j] \in Row
BY DEF IInv, TypeOK

(* The new items, from what becomes of each row. *)
LEMMA Becomes ==
  ASSUME NEW S \in SUBSET Job, NEW s,
         \A j \in Job : ItemOf(outbox'[j]) = IF j \in S THEN s ELSE ItemOf(outbox[j])
  PROVE  P!Become(S, s)
BY DEF P!Become

LEMMA SameRequests ==
  ASSUME leadStatus' = leadStatus
  PROVE  RequestStates' = RequestStates
BY DEF RequestStates

LEMMA SameItems ==
  ASSUME \A j \in Job : ItemOf(outbox'[j]) = ItemOf(outbox[j])
  PROVE  Items' = Items
BY DEF Items

----------------------------------------------------------------------------
(* Each transaction *)

StepOK == P!Next \/ (Items' = Items /\ RequestStates' = RequestStates)

LEMMA ClaimRefines ==
  ASSUME IInv, TypeOK', NEW w \in Worker, NEW locked \in SUBSET Job, ClaimOutbox(w, locked)
  PROVE  StepOK
<1> DEFINE S == {j \in Job : Exhausted(outbox[j])}
<1>1. PICK batch \in Selections({j \in Job \ locked : Claimable(Swept(j))}) :
        /\ outbox' = [j \in Job |-> IF j \in batch THEN LeasedTo(Swept(j), w, FreshToken(j))
                                    ELSE Swept(j)]
        /\ leadStatus' = leadStatus
  BY DEF ClaimOutbox
<1>2. \A j \in batch : Claimable(Swept(j))
  BY <1>1 DEF Selections
<1>3. \A j \in Job : ~Moot(j, outbox[j])
  BY AlertJobs DEF IInv, ContactSilencesAlert, Moot, LeadPresent
<1>4. ASSUME NEW j \in Job
      PROVE  ItemOf(outbox'[j]) = IF j \in S THEN "abandoned" ELSE ItemOf(outbox[j])
  <2>1. outbox[j] \in Row /\ outbox'[j] \in Row BY RowsTyped
  <2>2. CASE Exhausted(outbox[j])
    <3>1. Swept(j).status = "dead_letter"
      BY <2>1, <2>2, ReleasedType DEF Swept, RowStatus, Final
    <3>2. j \notin batch BY <1>2, <3>1 DEF Claimable
    <3>3. outbox'[j].status = "dead_letter" BY <1>1, <3>1, <3>2
    <3> QED BY <2>1, <2>2, <3>3, ItemOfStatus
  <2>3. CASE ~Exhausted(outbox[j])
    <3>1. Swept(j) = outbox[j] BY <1>3, <2>3 DEF Swept
    <3>2. CASE j \in batch
      <4>1. Claimable(outbox[j]) BY <1>2, <3>1, <3>2
      <4>2. FreshToken(j) \in Nat BY DEF FreshToken, IInv, TypeOK
      <4>3. outbox'[j].status = "leased"
        BY <1>1, <2>1, <3>1, <3>2, <4>1, <4>2, LeasedToType
      <4>4. Open(outbox[j]) /\ Open(outbox'[j]) BY <4>1, <4>3 DEF Claimable, Open
      <4>5. ItemOf(outbox[j]) = "owed" /\ ItemOf(outbox'[j]) = "owed"
        BY <2>1, <4>4, ItemOfStatus
      <4> QED BY <2>3, <4>5
    <3>3. CASE j \notin batch
      <4>1. outbox'[j] = outbox[j] BY <1>1, <3>1, <3>3
      <4> QED BY <2>3, <4>1
    <3> QED BY <3>2, <3>3
  <2> QED BY <2>2, <2>3
<1>5. P!Become(S, "abandoned") BY <1>4, Becomes
<1>6. \A j \in S : Items[j] = "owed"
  BY ItemOfStatus DEF Items, IInv, TypeOK, Exhausted, Open
<1>7. RequestStates' = RequestStates BY <1>1, SameRequests
<1>8. P!Abandon(S) BY <1>5, <1>6, <1>7 DEF P!Abandon, Items, RequestStates
<1> QED BY <1>8 DEF P!Next, StepOK

LEMMA AuthorizeRefines ==
  ASSUME IInv, TypeOK', NEW j \in Job, NEW t, AuthorizeDelivery(j, t)
  PROVE  StepOK
<1>1. /\ outbox[j].status = "leased" /\ AlertStale(j)
      /\ outbox' = [outbox EXCEPT ![j] = Released(outbox[j], "cancelled")]
      /\ leadStatus' = leadStatus
  BY DEF AuthorizeDelivery, Authorizable
<1>2. j \in AlertJob /\ j[1] \in Lead /\ j = AlertFor(j[1]) /\ j \in LeadJob
  BY <1>1, AlertJobs, AlertJobIsJob, AlertsAreLeadJobs DEF AlertStale
<1>3. leadStatus[j[1]] = "purged"
  BY <1>1, <1>2 DEF AlertStale, IInv, TypeOK, ContactSilencesAlert, KeysAreFresh, Open
<1>4. RequestStates[j] = "forgotten" BY <1>2, <1>3 DEF RequestStates, RequestOf
<1>5. Items[j] = "owed"
  BY <1>1, ItemOfStatus DEF Items, IInv, TypeOK, Open
<1>6. Released(outbox[j], "cancelled").status = "cancelled"
  BY ReleasedStatus DEF IInv, TypeOK
<1>7. ASSUME NEW i \in Job
      PROVE  ItemOf(outbox'[i]) = IF i \in {j} THEN "withdrawn" ELSE ItemOf(outbox[i])
  <2>1. CASE i = j
    <3>1. outbox'[i].status = "cancelled" BY <1>1, <1>6, <2>1 DEF IInv, TypeOK
    <3> QED BY <2>1, <3>1, RowsTyped, ItemOfStatus
  <2>2. CASE i # j BY <1>1, <2>2 DEF IInv, TypeOK
  <2> QED BY <2>1, <2>2
<1>8. P!Become({j}, "withdrawn") BY <1>7, Becomes
<1>9. RequestStates' = RequestStates BY <1>1, SameRequests
<1>10. P!Withdraw(j) BY <1>4, <1>5, <1>8, <1>9 DEF P!Withdraw, Items, RequestStates
<1> QED BY <1>2, <1>10 DEF P!Next, StepOK

LEMMA RecordRefines ==
  ASSUME IInv, TypeOK', NEW j \in Job, NEW w, NEW t,
         CompleteOutbox(j, w, t) \/ FailOutbox(j, w, t)
  PROVE  StepOK
<1>1. outbox[j] \in Row /\ outbox'[j] \in Row BY RowsTyped
<1>2. outbox[j].status = "leased" /\ leadStatus' = leadStatus
  BY DEF CompleteOutbox, FailOutbox, HoldsLease, leadVars
<1>3. Items[j] = "owed" BY <1>1, <1>2, ItemOfStatus DEF Items, Open
<1>4. \A i \in Job : i # j => outbox'[i] = outbox[i]
  BY DEF CompleteOutbox, FailOutbox, IInv, TypeOK
<1>5. RequestStates' = RequestStates BY <1>2, SameRequests
<1>6. CASE CompleteOutbox(j, w, t)
  <2>1. outbox'[j] = Released(outbox[j], "delivered") BY <1>6 DEF CompleteOutbox, IInv, TypeOK
  <2>2. outbox'[j].status = "delivered" BY <1>1, <2>1, ReleasedStatus
  <2>3. \A i \in Job : ItemOf(outbox'[i]) = IF i \in {j} THEN "delivered" ELSE ItemOf(outbox[i])
    BY <1>1, <1>4, <2>2, ItemOfStatus
  <2>4. P!Become({j}, "delivered") BY <2>3, Becomes
  <2>5. P!Deliver(j) BY <1>3, <1>5, <2>4 DEF P!Deliver, Items, RequestStates
  <2> QED BY <2>5 DEF P!Next, StepOK
<1>7. CASE FailOutbox(j, w, t) /\ OutOfAttempts(outbox[j])
  <2>1. outbox'[j] = Released(outbox[j], "dead_letter") BY <1>7 DEF FailOutbox, IInv, TypeOK
  <2>2. outbox'[j].status = "dead_letter" BY <1>1, <2>1, ReleasedStatus
  <2>3. \A i \in Job : ItemOf(outbox'[i]) = IF i \in {j} THEN "abandoned" ELSE ItemOf(outbox[i])
    BY <1>1, <1>4, <2>2, ItemOfStatus
  <2>4. P!Become({j}, "abandoned") BY <2>3, Becomes
  <2>5. P!Abandon({j}) BY <1>3, <1>5, <2>4 DEF P!Abandon, Items, RequestStates
  <2> QED BY <2>5 DEF P!Next, StepOK
<1>8. CASE FailOutbox(j, w, t) /\ ~OutOfAttempts(outbox[j])
  <2>1. outbox'[j] = [Released(outbox[j], "pending") EXCEPT !.ready = FALSE]
    BY <1>8 DEF FailOutbox, IInv, TypeOK
  <2>2. Released(outbox[j], "pending") \in Row /\ Released(outbox[j], "pending").status = "pending"
    BY <1>1, ReleasedType DEF RowStatus
  <2>3. outbox'[j].status = "pending" BY <2>1, <2>2 DEF Row
  <2>4. ItemOf(outbox'[j]) = "owed" /\ ItemOf(outbox[j]) = "owed"
    BY <1>1, <1>2, <2>3, ItemOfStatus DEF Open
  <2>5. \A i \in Job : ItemOf(outbox'[i]) = ItemOf(outbox[i]) BY <1>4, <2>4
  <2> QED BY <1>5, <2>5, SameItems DEF StepOK
<1> QED BY <1>6, <1>7, <1>8

(* A row inserted where none was before. *)
LEMMA InsertedItem ==
  ASSUME NEW row \in Row
  PROVE  /\ row.status = "none" => ItemOf(InsertedOnce(row)) = "owed"
         /\ row.status \notin {"none", "purged"} => InsertedOnce(row) = row
<1>1. NewRow \in Row /\ NewRow.status = "pending" BY NewRowType DEF NewRow, EmptyRow
<1>2. ItemOf(NewRow) = "owed" BY <1>1, ItemOfStatus DEF Open
<1> QED BY <1>2 DEF InsertedOnce, Exists

LEMMA IngestRefines ==
  ASSUME IInv, TypeOK', NEW l \in Lead, NEW r \in Route, NEW draft \in Drafted,
         IngestLead(l, r, draft)
  PROVE  StepOK
<1> DEFINE S == FirstDeliveries(l, r, draft)
           a == AlertFor(l)
<1>1. /\ outbox' = [j \in Job |-> IF j \in S THEN NewRow ELSE outbox[j]]
      /\ leadStatus[l] = "none" /\ leadStatus' = [leadStatus EXCEPT ![l] = "new"]
  BY DEF IngestLead
<1>2. S \subseteq LeadJob /\ \A j \in S : j[1] = l /\ j[2] # "sla_alert"
  BY DEF FirstDeliveries, LeadJob, LeadKind
<1>3. S \in SUBSET (Job \ AlertJob) BY <1>2, LeadJobs, AlertJobIsJob
<1> HIDE DEF S
<1>4. \A j \in S : outbox[j].status = "none"
  BY <1>1, <1>2 DEF IInv, KeysAreFresh
<1>5. \A j \in S : Items[j] = "none"
  BY <1>3, <1>4, ItemOfStatus DEF Items, IInv, TypeOK
<1>6. NewRow \in Row /\ NewRow.status = "pending" BY NewRowType DEF NewRow, EmptyRow
<1>7. ItemOf(NewRow) = "owed" BY <1>6, ItemOfStatus DEF Open
<1>8. \A j \in Job : ItemOf(outbox'[j]) = IF j \in S THEN "owed" ELSE ItemOf(outbox[j])
  BY <1>1, <1>7
<1>9. P!Become(S, "owed") BY <1>3, <1>8, Becomes
<1>10. a \in AlertJob /\ a[1] = l BY AlertJobIsJob, AlertIsJob
<1>11. RequestStates[a] = "unknown" BY <1>1, <1>10 DEF RequestStates, RequestOf
<1>12. RequestStates' = [RequestStates EXCEPT ![a] = "waiting"]
  <2>1. RequestOf("new") = "waiting" BY DEF RequestOf
  <2>2. \A b \in AlertJob : b # a => b[1] # l /\ b[1] \in Lead BY AlertJobIsJob
  <2>3. \A m \in Lead : leadStatus'[m] = IF m = l THEN "new" ELSE leadStatus[m]
    BY <1>1 DEF IInv, TypeOK
  <2> QED BY <1>10, <2>1, <2>2, <2>3 DEF RequestStates
<1>13. P!Accept(a, S)
  BY <1>5, <1>9, <1>11, <1>12 DEF P!Accept, Items, RequestStates
<1> QED BY <1>3, <1>10, <1>13 DEF P!Next, StepOK

LEMMA ContactRefines ==
  ASSUME IInv, TypeOK', NEW l \in Lead, MarkLeadContacted(l)
  PROVE  StepOK
<1> DEFINE a == AlertFor(l)
           S == {a} \cap {i \in Job : Items[i] = "owed"}
<1>1. /\ outbox' = [j \in Job |-> CancelledFor(l, j)]
      /\ leadStatus[l] = "new" /\ leadStatus' = [leadStatus EXCEPT ![l] = "contacted"]
  BY DEF MarkLeadContacted
<1>2. a \in AlertJob /\ a[1] = l /\ a \in Job BY AlertJobIsJob, AlertIsJob
<1>3. ASSUME NEW j \in Job
      PROVE  ItemOf(outbox'[j]) = IF j \in S THEN "withdrawn" ELSE ItemOf(outbox[j])
  <2>1. outbox[j] \in Row /\ outbox'[j] \in Row BY RowsTyped
  <2>2. j \in S <=> j = a /\ Open(outbox[j]) BY <1>2, <2>1, ItemOfStatus DEF Items
  <2>3. CASE j \in S
    <3>1. outbox'[j] = Released(outbox[j], "cancelled") BY <1>1, <2>2, <2>3 DEF CancelledFor
    <3>2. outbox'[j].status = "cancelled" BY <2>1, <3>1, ReleasedStatus
    <3> QED BY <2>1, <2>3, <3>2, ItemOfStatus
  <2>4. CASE j \notin S BY <1>1, <2>2, <2>4 DEF CancelledFor
  <2> QED BY <2>3, <2>4
<1>4. P!Become(S, "withdrawn") BY <1>3, Becomes
<1>5. RequestStates[a] = "waiting" BY <1>1, <1>2 DEF RequestStates, RequestOf
<1>6. RequestStates' = [RequestStates EXCEPT ![a] = "answered"]
  <2>1. RequestOf("contacted") = "answered" BY DEF RequestOf
  <2>2. \A b \in AlertJob : b # a => b[1] # l /\ b[1] \in Lead BY AlertJobIsJob
  <2>3. \A m \in Lead : leadStatus'[m] = IF m = l THEN "contacted" ELSE leadStatus[m]
    BY <1>1 DEF IInv, TypeOK
  <2> QED BY <1>2, <2>1, <2>2, <2>3 DEF RequestStates
<1>7. P!Answer(a) BY <1>4, <1>5, <1>6 DEF P!Answer, Items, RequestStates
<1> QED BY <1>2, <1>7 DEF P!Next, StepOK

LEMMA FollowupsRefine ==
  ASSUME IInv, TypeOK', NEW locked \in SUBSET Lead, ScheduleDueFollowups(locked)
  PROVE  StepOK
<1>1. PICK batch \in SUBSET {l \in Lead \ locked : Overdue(l)} :
        /\ outbox' = [j \in Job |-> IF j[2] = "sla_alert" /\ j[1] \in batch
                                    THEN InsertedOnce(outbox[j]) ELSE outbox[j]]
        /\ leadStatus' = leadStatus
  BY DEF ScheduleDueFollowups
<1> DEFINE S == {a \in AlertJob : a[1] \in batch}
<1>2. \A l \in batch : l \in Lead /\ leadStatus[l] = "new" /\ ~escalated[l]
  BY <1>1 DEF Overdue
<1>3. ASSUME NEW a \in S
      PROVE  outbox[a].status = "none" /\ Items[a] = "none" /\ RequestStates[a] = "waiting"
  <2>1. a \in Job /\ a = AlertFor(a[1]) /\ a[1] \in batch BY AlertJobIsJob
  <2>2. outbox[a].status = "none" BY <1>2, <2>1 DEF IInv, KeysAreFresh
  <2>3. Items[a] = "none" BY <2>1, <2>2, ItemOfStatus DEF Items, IInv, TypeOK
  <2> QED BY <1>2, <2>1, <2>2, <2>3 DEF RequestStates, RequestOf
<1>4. ASSUME NEW j \in Job
      PROVE  ItemOf(outbox'[j]) = IF j \in S THEN "owed" ELSE ItemOf(outbox[j])
  <2>1. outbox[j] \in Row BY DEF IInv, TypeOK
  <2>2. CASE j \in S
    <3>1. outbox'[j] = InsertedOnce(outbox[j]) BY <1>1, <2>2, AlertJobIsJob
    <3>2. outbox[j].status = "none" BY <1>3, <2>2
    <3> QED BY <2>1, <2>2, <3>1, <3>2, InsertedItem
  <2>3. CASE j \notin S
    <3>1. outbox'[j] = outbox[j] BY <1>1, <2>3, AlertJobIsJob
    <3> QED BY <2>3, <3>1
  <2> QED BY <2>2, <2>3
<1>5. P!Become(S, "owed") BY <1>4, Becomes, AlertJobIsJob
<1>6. RequestStates' = RequestStates BY <1>1, SameRequests
<1>7. P!Remind(S) BY <1>3, <1>5, <1>6 DEF P!Remind, Items, RequestStates
<1> QED BY <1>7 DEF P!Next, StepOK

LEMMA DigestRefines ==
  ASSUME IInv, TypeOK', NEW d \in Day, EnqueueDailyDigest(d)
  PROVE  StepOK
<1> DEFINE i == <<d, "daily_digest">>
<1>1. i \in Job /\ i \notin AlertJob BY DEF Job, AlertJob
<1>2. /\ outbox[i] \in Row /\ outbox[i].status # "purged" /\ leadStatus' = leadStatus
      /\ \A j \in Job : outbox'[j] = IF j = i THEN InsertedOnce(outbox[i]) ELSE outbox[j]
  BY <1>1 DEF EnqueueDailyDigest, IInv, TypeOK
<1>3. RequestStates' = RequestStates BY <1>2, SameRequests
<1> HIDE DEF i
<1>4. CASE outbox[i].status = "none"
  <2>1. Items[i] = "none" BY <1>1, <1>2, <1>4, ItemOfStatus DEF Items
  <2>2. \A j \in Job : ItemOf(outbox'[j]) = IF j \in {i} THEN "owed" ELSE ItemOf(outbox[j])
    BY <1>2, <1>4, InsertedItem
  <2>3. P!Become({i}, "owed") BY <1>1, <2>2, Becomes
  <2>4. P!Report(i) BY <1>3, <2>1, <2>3 DEF P!Report, Items, RequestStates
  <2> QED BY <1>1, <2>4 DEF P!Next, StepOK
<1>5. CASE outbox[i].status # "none"
  <2>1. \A j \in Job : outbox'[j] = outbox[j] BY <1>2, <1>5, InsertedItem
  <2> QED BY <1>3, <2>1, SameItems DEF StepOK
<1> QED BY <1>4, <1>5

LEMMA PurgeRefines ==
  ASSUME IInv, TypeOK', PurgeExpiredData
  PROVE  StepOK
<1> DEFINE S == {j \in Job : Purgeable(outbox[j])}
           R == {a \in AlertJob : LeadPresent(a[1]) /\ leadAged[a[1]]}
<1>1. \A j \in S : Items[j] # "none"
  BY ItemOfStatus DEF Items, IInv, TypeOK, Purgeable, Exists
<1>2. \A a \in R : RequestStates[a] \in {"waiting", "answered"}
  BY DEF RequestStates, RequestOf, LeadPresent
<1>3. ASSUME NEW j \in Job
      PROVE  ItemOf(outbox'[j]) = IF j \in S THEN "forgotten" ELSE ItemOf(outbox[j])
  <2>1. outbox'[j] = IF j \in S THEN EmptyRow("purged") ELSE outbox[j] BY DEF PurgeExpiredData
  <2>2. EmptyRow("purged") \in Row /\ EmptyRow("purged").status = "purged"
    BY NewRowType DEF EmptyRow
  <2>3. ItemOf(EmptyRow("purged")) = "forgotten" BY <2>2, ItemOfStatus
  <2> QED BY <2>1, <2>3
<1>4. P!Become(S, "forgotten") BY <1>3, Becomes
<1>5. RequestStates' = [a \in AlertJob |-> IF a \in R THEN "forgotten" ELSE RequestStates[a]]
  <2>1. \A l \in Lead : leadStatus'[l] = IF LeadPresent(l) /\ leadAged[l] THEN "purged"
                                         ELSE leadStatus[l]
    BY DEF PurgeExpiredData
  <2>2. RequestOf("purged") = "forgotten" BY DEF RequestOf
  <2>3. \A a \in AlertJob : a[1] \in Lead BY AlertJobIsJob
  <2> QED BY <2>1, <2>2, <2>3 DEF RequestStates
<1>6. P!Forget(S, R)
  BY <1>1, <1>2, <1>4, <1>5 DEF P!Forget, Items, RequestStates
<1> QED BY <1>6 DEF P!Next, StepOK

LEMMA ClockRefines ==
  ASSUME IInv, TypeOK', Clock
  PROVE  StepOK
<1>1. ASSUME NEW j \in Job PROVE outbox'[j].status = outbox[j].status
  <2>1. outbox[j] \in Row BY DEF IInv, TypeOK
  <2>2. ASSUME NEW S \in SUBSET Job, LeasesExpire(S) PROVE outbox'[j].status = outbox[j].status
    BY <2>1, <2>2 DEF LeasesExpire, Row
  <2>3. ASSUME NEW i \in Job, BackoffElapses(i) \/ RowAges(i)
        PROVE  outbox'[j].status = outbox[j].status
    <3>1. \/ outbox' = [outbox EXCEPT ![i] = [outbox[i] EXCEPT !.ready = TRUE]]
          \/ outbox' = [outbox EXCEPT ![i] = [outbox[i] EXCEPT !.aged = TRUE]]
      BY <2>3 DEF BackoffElapses, RowAges
    <3>2. CASE j = i BY <2>1, <3>1, <3>2 DEF IInv, TypeOK, Row
    <3>3. CASE j # i BY <3>1, <3>3 DEF IInv, TypeOK
    <3> QED BY <3>2, <3>3
  <2>4. ASSUME NEW l \in Lead, SlaFallsDue(l) \/ LeadAges(l) PROVE outbox' = outbox
    BY <2>4 DEF SlaFallsDue, LeadAges
  <2> QED BY <2>2, <2>3, <2>4 DEF Clock
<1>2. leadStatus' = leadStatus
  BY DEF Clock, LeasesExpire, BackoffElapses, RowAges, SlaFallsDue, LeadAges
<1>3. \A j \in Job : ItemOf(outbox'[j]) = ItemOf(outbox[j])
  BY <1>1 DEF ItemOf, Open
<1> QED BY <1>2, <1>3, SameItems, SameRequests DEF StepOK

----------------------------------------------------------------------------
LEMMA StepRefines == IInv /\ TypeOK' /\ [Next]_vars => [P!Next]_(P!promiseVars)
<1> SUFFICES ASSUME IInv, TypeOK', [Next]_vars PROVE StepOK
  BY DEF StepOK, P!promiseVars, Items, RequestStates
<1>1. CASE Dispatch
  BY <1>1, ClaimRefines, AuthorizeRefines, RecordRefines DEF Dispatch
<1>2. CASE Requests BY <1>2, IngestRefines, ContactRefines DEF Requests
<1>3. CASE Maintenance BY <1>3, FollowupsRefine, DigestRefines, PurgeRefines DEF Maintenance
<1>4. CASE Clock BY <1>4, ClockRefines
<1>5. CASE UNCHANGED vars BY <1>5 DEF vars, StepOK, Items, RequestStates
<1> QED BY <1>1, <1>2, <1>3, <1>4, <1>5 DEF Next

LEMMA InitRefines == Init => P!Init
<1> SUFFICES ASSUME Init PROVE P!Init
  OBVIOUS
<1>1. EmptyRow("none") \in Row /\ EmptyRow("none").status = "none"
  BY NewRowType DEF EmptyRow
<1>2. ItemOf(EmptyRow("none")) = "none" BY <1>1, ItemOfStatus
<1>3. \A j \in Job : ItemOf(outbox[j]) = "none" BY <1>2 DEF Init
<1>4. \A a \in AlertJob : RequestOf(leadStatus[a[1]]) = "unknown"
  BY AlertJobIsJob DEF Init, RequestOf
<1> QED BY <1>3, <1>4 DEF P!Init

(* Whatever leases, retries, crashes and purges do underneath, a delivery  *)
(* is owed from its queueing until exactly one of its four ends, and an    *)
(* alert is withdrawn in the very step that answers its request.           *)
THEOREM OutboxKeepsPromise == Spec => KeepsPromise
<1>1. IInv => TypeOK BY DEF IInv
<1> QED BY <1>1, IInvAlways, InitRefines, StepRefines, PTL DEF Spec, KeepsPromise, P!Promise

=============================================================================
