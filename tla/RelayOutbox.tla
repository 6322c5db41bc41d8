---------------------------- MODULE RelayOutbox ----------------------------
(***************************************************************************)
(* The Relay database: requests ("leads") and the delivery outbox, as the  *)
(* functions of database/schema.sql change them.  Each SQL function is one *)
(* transaction and one action.  A call that raises or answers without      *)
(* writing is a stuttering step; Dispatcher models what its caller then    *)
(* does.                                                                   *)
(*                                                                         *)
(* An outbox row is identified by its dedupe key: <<lead, kind>>, or       *)
(* <<day, "daily_digest">>.  Clock comparisons are flags that only the     *)
(* environment's actions raise: a lease is live or expired, a backoff has  *)
(* elapsed, an SLA deadline has passed, a row is past its retention.       *)
(***************************************************************************)
EXTENDS Integers, Sequences, FiniteSets

CONSTANTS
  Lead,           \* tickets that may be created
  Day,            \* days a digest may be queued for
  Worker,         \* dispatcher executions (p_worker)
  Route,          \* routes the policy engine returns in this instance
  Drafted,        \* whether its decisions carry a draft reply: a subset of BOOLEAN
  MaxAttempts,    \* 6 in the code
  BatchLimit,     \* p_limit of claim_outbox
  FollowupLimit,  \* p_limit of schedule_due_followups
  Nobody          \* the NULL lease owner

AllRoutes == {"ROUTE_SPAM", "ROUTE_UNSUPPORTED", "ROUTE_INSUFFICIENT_INFORMATION",
              "ROUTE_STANDARD", "ROUTE_SPECIALIST", "ROUTE_URGENT",
              "ROUTE_LOCATION_REVIEW", "ROUTE_MANUAL_REVIEW"}

ASSUME RouteAssumption == Route \subseteq AllRoutes /\ Drafted \subseteq BOOLEAN
ASSUME MaxAttemptsAssumption == MaxAttempts \in Nat \ {0}
ASSUME LimitAssumption == BatchLimit \in Nat \ {0} /\ FollowupLimit \in Nat \ {0}
ASSUME NobodyAssumption == Nobody \notin Worker

VARIABLES
  leadStatus,  \* clientops.leads.status; "none" before ingest, "purged" after deletion
  leadRoute,   \* leads.route (and with it the priority copied into the rows)
  slaDue,      \* sla_due_at has passed
  escalated,   \* escalated_at is set
  leadAged,    \* created_at is older than the retention period
  outbox,      \* clientops.delivery_outbox, by dedupe key
  leases,      \* history: every lease ever granted on a row and what its holder made of it
  activity     \* clientops.lead_activity: number of events of each type

leadVars == <<leadStatus, leadRoute, slaDue, escalated, leadAged>>
vars == <<leadStatus, leadRoute, slaDue, escalated, leadAged, outbox, leases, activity>>

LeadKind == {"customer_ack", "owner_alert", "sla_alert"}
Job == (Lead \X LeadKind) \cup (Day \X {"daily_digest"})
LeadJob == Lead \X LeadKind
AlertFor(l) == <<l, "sla_alert">>

Final == {"delivered", "dead_letter", "cancelled"}
RowStatus == {"none", "purged", "pending", "leased"} \cup Final
Row == [status : RowStatus, attempts : 0..MaxAttempts, ready : BOOLEAN,
        owner : Worker \cup {Nobody}, token : Nat, live : BOOLEAN, aged : BOOLEAN]
Outcome == {"open", "delivered", "deferred", "dead_letter"}
Lease == [worker : Worker, outcome : Outcome]
EventType == {"accepted", "contacted", "sla_escalated", "delivery_succeeded",
              "delivery_deferred", "delivery_dead_lettered"}
NoRoute == "no_route"

----------------------------------------------------------------------------
(* Rows and leads *)

EmptyRow(s) == [status |-> s, attempts |-> 0, ready |-> FALSE, owner |-> Nobody,
                token |-> 0, live |-> FALSE, aged |-> FALSE]
NewRow == [EmptyRow("pending") EXCEPT !.ready = TRUE]

Exists(row) == row.status \notin {"none", "purged"}
Open(row) == row.status \in {"pending", "leased"}

(* Every update that ends a lease clears its three columns with the status. *)
Released(row, s) == [row EXCEPT !.status = s, !.owner = Nobody, !.token = 0, !.live = FALSE]

LeadPresent(l) == leadStatus[l] \in {"new", "contacted"}

LeadPriority(r) ==
  CASE r = "ROUTE_URGENT" -> "high"
    [] r \in {"ROUTE_SPECIALIST", "ROUTE_STANDARD"} -> "medium"
    [] OTHER -> "low"

HasSla(r) == r \in {"ROUTE_URGENT", "ROUTE_SPECIALIST", "ROUTE_STANDARD",
                    "ROUTE_INSUFFICIENT_INFORMATION", "ROUTE_MANUAL_REVIEW"}

(* The rank claim_outbox orders by; a row keeps its priority when its lead is purged. *)
Rank(j) ==
  LET p == CASE j[2] = "sla_alert" -> "high"
             [] j[2] = "customer_ack" -> "medium"
             [] j[2] = "daily_digest" -> "low"
             [] OTHER -> LeadPriority(leadRoute[j[1]])
  IN  CASE p = "high" -> 0 [] p = "medium" -> 1 [] OTHER -> 2

Smaller(a, b) == IF a <= b THEN a ELSE b

Logged(l, e) == [activity EXCEPT ![l][e] = @ + 1]

(* complete_outbox and fail_outbox log only while the row still refers to a lead. *)
LogDelivery(j, e) ==
  activity' = IF j \in LeadJob /\ LeadPresent(j[1]) THEN Logged(j[1], e) ELSE activity

TypeOK ==
  /\ leadStatus \in [Lead -> {"none", "new", "contacted", "purged"}]
  /\ leadRoute \in [Lead -> Route \cup {NoRoute}]
  /\ slaDue \in [Lead -> BOOLEAN]
  /\ escalated \in [Lead -> BOOLEAN]
  /\ leadAged \in [Lead -> BOOLEAN]
  /\ outbox \in [Job -> Row]
  /\ leases \in [Job -> Seq(Lease)]
  /\ activity \in [Lead -> [EventType -> Nat]]

Init ==
  /\ leadStatus = [l \in Lead |-> "none"]
  /\ leadRoute = [l \in Lead |-> NoRoute]
  /\ slaDue = [l \in Lead |-> FALSE]
  /\ escalated = [l \in Lead |-> FALSE]
  /\ leadAged = [l \in Lead |-> FALSE]
  /\ outbox = [j \in Job |-> EmptyRow("none")]
  /\ leases = [j \in Job |-> <<>>]
  /\ activity = [l \in Lead |-> [e \in EventType |-> 0]]

----------------------------------------------------------------------------
(* ingest_lead, the path that creates a request: the lead, its accepted    *)
(* event and its first deliveries commit together.                         *)

FirstDeliveries(l, r, draft) ==
  IF r = "ROUTE_SPAM" THEN {}
  ELSE {<<l, "owner_alert">>} \cup (IF draft THEN {<<l, "customer_ack">>} ELSE {})

(* Bug: a request that returns after its retention gets its old ticket. *)
IngestLeadAgain(l, r, draft) ==
  /\ ~LeadPresent(l)
  /\ leadStatus' = [leadStatus EXCEPT ![l] = "new"]
  /\ leadRoute' = [leadRoute EXCEPT ![l] = r]
  /\ activity' = Logged(l, "accepted")
  /\ outbox' = [j \in Job |-> IF j \in FirstDeliveries(l, r, draft) THEN NewRow ELSE outbox[j]]
  /\ UNCHANGED <<slaDue, escalated, leadAged, leases>>

(* The ticket is new (gen_random_uuid), and the keys of its rows with it. *)
IngestLead(l, r, draft) ==
  /\ leadStatus[l] = "none"
  /\ leadStatus' = [leadStatus EXCEPT ![l] = "new"]
  /\ leadRoute' = [leadRoute EXCEPT ![l] = r]
  /\ activity' = Logged(l, "accepted")
  /\ outbox' = [j \in Job |-> IF j \in FirstDeliveries(l, r, draft) THEN NewRow ELSE outbox[j]]
  /\ UNCHANGED <<slaDue, escalated, leadAged, leases>>

----------------------------------------------------------------------------
(* claim_outbox *)

(* Its first statement: the lease of a last attempt that expired. *)
Exhausted(row) == row.status = "leased" /\ ~row.live /\ row.attempts >= MaxAttempts

(* Its second statement: an alert whose request is no longer new.  The     *)
(* join drops a row whose lead is gone.                                    *)
Moot(j, row) ==
  /\ j[2] = "sla_alert"
  /\ Open(row)
  /\ LeadPresent(j[1])
  /\ leadStatus[j[1]] # "new"

Swept(j) ==
  IF Exhausted(outbox[j]) THEN Released(outbox[j], "dead_letter")
  ELSE IF Moot(j, outbox[j]) THEN Released(outbox[j], "cancelled")
  ELSE outbox[j]

(* Bug: the second chance of an expired lease is forgotten. *)
ClaimablePendingOnly(row) ==
  /\ row.status = "pending"
  /\ row.ready
  /\ row.attempts < MaxAttempts

(* Bug: a lease is taken over although it has not expired. *)
ClaimableWhileLive(row) ==
  /\ \/ row.status = "pending" /\ row.ready
     \/ row.status = "leased"
  /\ row.attempts < MaxAttempts

(* Bug: dead letters are claimed like rows that wait. *)
ClaimableDeadLetters(row) ==
  \/ row.status = "pending" /\ row.ready
  \/ row.status = "leased" /\ ~row.live
  \/ row.status = "dead_letter"

(* Its third statement: which rows the candidates query selects. *)
Claimable(row) ==
  /\ \/ row.status = "pending" /\ row.ready
     \/ row.status = "leased" /\ ~row.live
  /\ row.attempts < MaxAttempts

(* The selections ORDER BY priority ... LIMIT admits from a set of rows:   *)
(* as many as the limit allows, no row passed over for a less urgent one.  *)
(* The order among equals, by time, is left open.                          *)
Selections(from) ==
  {batch \in SUBSET from :
     /\ Cardinality(batch) = Smaller(BatchLimit, Cardinality(from))
     /\ \A j \in batch, k \in from \ batch : Rank(j) <= Rank(k)}

LeasedTo(row, w, t) ==
  [row EXCEPT !.status = "leased", !.attempts = @ + 1, !.owner = w, !.token = t, !.live = TRUE]

(* gen_random_uuid: a token not handed out before for this row. *)
FreshToken(j) == Len(leases[j]) + 1

(* locked: rows another transaction holds, passed over by SKIP LOCKED. *)
ClaimOutbox(w, locked) ==
  \E batch \in Selections({j \in Job \ locked : Claimable(Swept(j))}) :
    /\ outbox' = [j \in Job |-> IF j \in batch THEN LeasedTo(Swept(j), w, FreshToken(j))
                                ELSE Swept(j)]
    /\ leases' = [j \in Job |-> IF j \in batch
                                THEN Append(leases[j], [worker |-> w, outcome |-> "open"])
                                ELSE leases[j]]
    /\ UNCHANGED <<leadStatus, leadRoute, slaDue, escalated, leadAged, activity>>

----------------------------------------------------------------------------
(* authorize_delivery, complete_outbox and fail_outbox: called by whoever  *)
(* holds a token, however old.                                             *)

(* Bug: fencing by worker only. *)
HoldsByWorkerOnly(j, w, t) == outbox[j].status = "leased" /\ outbox[j].owner = w

HoldsLease(j, w, t) ==
  /\ outbox[j].status = "leased"
  /\ outbox[j].owner = w
  /\ outbox[j].token = t

Authorizable(j, t) == outbox[j].status = "leased" /\ outbox[j].token = t

(* The row's alert must not go out: its lead is contacted, or gone (IS     *)
(* DISTINCT FROM holds of NULL).                                           *)
AlertStale(j) == j[2] = "sla_alert" /\ leadStatus[j[1]] # "new"

AuthorizeDelivery(j, t) ==
  /\ Authorizable(j, t)
  /\ AlertStale(j)
  /\ outbox' = [outbox EXCEPT ![j] = Released(@, "cancelled")]
  /\ UNCHANGED <<leadStatus, leadRoute, slaDue, escalated, leadAged, leases, activity>>

Ended(j, t, o) == leases' = [leases EXCEPT ![j][t].outcome = o]

CompleteOutbox(j, w, t) ==
  /\ HoldsLease(j, w, t)
  /\ outbox' = [outbox EXCEPT ![j] = Released(@, "delivered")]
  /\ Ended(j, t, "delivered")
  /\ LogDelivery(j, "delivery_succeeded")
  /\ UNCHANGED leadVars

(* Bug: the last attempt is deferred like the others. *)
OutOfAttemptsTooLate(row) == row.attempts > MaxAttempts

OutOfAttempts(row) == row.attempts >= MaxAttempts

FailOutbox(j, w, t) ==
  /\ HoldsLease(j, w, t)
  /\ \/ /\ OutOfAttempts(outbox[j])
        /\ outbox' = [outbox EXCEPT ![j] = Released(@, "dead_letter")]
        /\ Ended(j, t, "dead_letter")
        /\ LogDelivery(j, "delivery_dead_lettered")
     \/ /\ ~OutOfAttempts(outbox[j])
        /\ outbox' = [outbox EXCEPT ![j] = [Released(@, "pending") EXCEPT !.ready = FALSE]]
        /\ Ended(j, t, "deferred")
        /\ LogDelivery(j, "delivery_deferred")
  /\ UNCHANGED leadVars

----------------------------------------------------------------------------
(* schedule_due_followups, enqueue_daily_digest, mark_lead_contacted *)

(* INSERT ... ON CONFLICT (dedupe_key) DO NOTHING *)
InsertedOnce(row) == IF Exists(row) THEN row ELSE NewRow

(* Bug: an escalated request is selected again at the next pass. *)
OverdueForever(l) ==
  /\ leadStatus[l] = "new"
  /\ HasSla(leadRoute[l])
  /\ slaDue[l]

(* Bug: only requests whose owner was told are escalated. *)
OverdueOnceAnnounced(l) ==
  /\ leadStatus[l] = "new"
  /\ slaDue[l]
  /\ ~escalated[l]
  /\ outbox[<<l, "owner_alert">>].status = "delivered"

Overdue(l) ==
  /\ leadStatus[l] = "new"
  /\ HasSla(leadRoute[l])
  /\ slaDue[l]
  /\ ~escalated[l]

ScheduleDueFollowups(locked) ==
  LET due == {l \in Lead \ locked : Overdue(l)} IN
  \E batch \in SUBSET due :
    /\ Cardinality(batch) = Smaller(FollowupLimit, Cardinality(due))
    /\ outbox' = [j \in Job |-> IF j[2] = "sla_alert" /\ j[1] \in batch
                                THEN InsertedOnce(outbox[j]) ELSE outbox[j]]
    /\ escalated' = [l \in Lead |-> escalated[l] \/ l \in batch]
    /\ activity' = [l \in Lead |-> IF l \in batch
                                   THEN [activity[l] EXCEPT !["sla_escalated"] = @ + 1]
                                   ELSE activity[l]]
    /\ UNCHANGED <<leadStatus, leadRoute, slaDue, leadAged, leases>>

(* The digest of a day is asked for on that day only, long before its row  *)
(* can be purged.                                                          *)
EnqueueDailyDigest(d) ==
  /\ outbox[<<d, "daily_digest">>].status # "purged"
  /\ outbox' = [outbox EXCEPT ![<<d, "daily_digest">>] = InsertedOnce(@)]
  /\ UNCHANGED <<leadStatus, leadRoute, slaDue, escalated, leadAged, leases, activity>>

(* Bug: an alert already leased is not cancelled. *)
CancelledPendingOnly(l, j) ==
  IF j = AlertFor(l) /\ outbox[j].status = "pending" THEN Released(outbox[j], "cancelled")
  ELSE outbox[j]

CancelledFor(l, j) ==
  IF j = AlertFor(l) /\ Open(outbox[j]) THEN Released(outbox[j], "cancelled") ELSE outbox[j]

(* A ticket already contacted is replayed without a change, an unknown one *)
(* is 404.                                                                 *)
MarkLeadContacted(l) ==
  /\ leadStatus[l] = "new"
  /\ leadStatus' = [leadStatus EXCEPT ![l] = "contacted"]
  /\ outbox' = [j \in Job |-> CancelledFor(l, j)]
  /\ activity' = Logged(l, "contacted")
  /\ UNCHANGED <<leadRoute, slaDue, escalated, leadAged, leases>>

----------------------------------------------------------------------------
(* purge_expired_data.  Deleting a lead cascades to its activity and sets  *)
(* the lead_id of its surviving rows to NULL: LeadPresent is false of it.  *)

(* Bug: a row with a live lease is purged under its holder. *)
PurgeableEvenLive(row) == Exists(row) /\ row.aged

(* Bug: dead letters are kept for ever. *)
PurgeableButDeadLetters(row) ==
  Exists(row) /\ row.aged /\ row.status \in {"pending", "delivered", "cancelled"}

Purgeable(row) == Exists(row) /\ row.aged /\ ~(row.status = "leased" /\ row.live)

PurgeExpiredData ==
  LET gone == {l \in Lead : LeadPresent(l) /\ leadAged[l]} IN
  /\ outbox' = [j \in Job |-> IF Purgeable(outbox[j]) THEN EmptyRow("purged") ELSE outbox[j]]
  /\ leadStatus' = [l \in Lead |-> IF l \in gone THEN "purged" ELSE leadStatus[l]]
  /\ activity' = [l \in Lead |-> IF l \in gone THEN [e \in EventType |-> 0] ELSE activity[l]]
  /\ UNCHANGED <<leadRoute, slaDue, escalated, leadAged, leases>>

----------------------------------------------------------------------------
(* The clock *)

(* Leases taken by one claim expire together or one by one. *)
LeasesExpire(S) ==
  /\ S # {} /\ \A j \in S : outbox[j].status = "leased" /\ outbox[j].live
  /\ outbox' = [j \in Job |-> IF j \in S THEN [outbox[j] EXCEPT !.live = FALSE] ELSE outbox[j]]
  /\ UNCHANGED <<leadStatus, leadRoute, slaDue, escalated, leadAged, leases, activity>>

BackoffElapses(j) ==
  /\ outbox[j].status = "pending" /\ ~outbox[j].ready
  /\ outbox' = [outbox EXCEPT ![j].ready = TRUE]
  /\ UNCHANGED <<leadStatus, leadRoute, slaDue, escalated, leadAged, leases, activity>>

SlaFallsDue(l) ==
  /\ LeadPresent(l) /\ HasSla(leadRoute[l]) /\ ~slaDue[l]
  /\ slaDue' = [slaDue EXCEPT ![l] = TRUE]
  /\ UNCHANGED <<leadStatus, leadRoute, escalated, leadAged, outbox, leases, activity>>

LeadAges(l) ==
  /\ LeadPresent(l) /\ ~leadAged[l]
  /\ leadAged' = [leadAged EXCEPT ![l] = TRUE]
  /\ UNCHANGED <<leadStatus, leadRoute, slaDue, escalated, outbox, leases, activity>>

(* A row is created with its lead or later, so it ages no sooner. *)
RowAges(j) ==
  /\ Exists(outbox[j]) /\ ~outbox[j].aged
  /\ j \in LeadJob => leadAged[j[1]]
  /\ outbox' = [outbox EXCEPT ![j].aged = TRUE]
  /\ UNCHANGED <<leadStatus, leadRoute, slaDue, escalated, leadAged, leases, activity>>

----------------------------------------------------------------------------
(* Calls that present a lease: any token ever granted, by its holder. *)
Holders(j) == {<<leases[j][t].worker, t>> : t \in 1..Len(leases[j])}

Dispatch ==
  \/ \E w \in Worker, locked \in SUBSET Job : ClaimOutbox(w, locked)
  \/ \E j \in Job : \E h \in Holders(j) :
       \/ AuthorizeDelivery(j, h[2])
       \/ CompleteOutbox(j, h[1], h[2])
       \/ FailOutbox(j, h[1], h[2])

Requests ==
  \/ \E l \in Lead, r \in Route, draft \in Drafted : IngestLead(l, r, draft)
  \/ \E l \in Lead : MarkLeadContacted(l)

Maintenance ==
  \/ \E locked \in SUBSET Lead : ScheduleDueFollowups(locked)
  \/ \E d \in Day : EnqueueDailyDigest(d)
  \/ PurgeExpiredData

Clock ==
  \/ \E S \in SUBSET Job : LeasesExpire(S)
  \/ \E j \in Job : BackoffElapses(j) \/ RowAges(j)
  \/ \E l \in Lead : SlaFallsDue(l) \/ LeadAges(l)

Next == Dispatch \/ Requests \/ Maintenance \/ Clock

Spec == Init /\ [][Next]_vars

(* The schedules keep running and time passes: some poll finds no row      *)
(* locked.  Nothing is assumed of the workers, which may all crash.        *)
Fairness ==
  /\ WF_vars(\E w \in Worker : ClaimOutbox(w, {}))
  /\ WF_vars(ScheduleDueFollowups({}))
  /\ WF_vars(PurgeExpiredData)
  /\ \A j \in Job : WF_vars(LeasesExpire({j})) /\ WF_vars(BackoffElapses(j))

FairSpec == Spec /\ Fairness

----------------------------------------------------------------------------
(* Safety *)

(* A row carries lease columns exactly while leased, the token is the      *)
(* newest one granted, its owner the worker it was granted to, and a row   *)
(* that waits for a worker still has an attempt left: fail_outbox and      *)
(* claim_outbox never leave a pending row no claim will ever select.       *)
LeaseDiscipline ==
  \A j \in Job :
    LET row == outbox[j] IN
    /\ row.status = "leased" =>
         /\ row.token = Len(leases[j]) /\ row.token > 0
         /\ row.owner = leases[j][row.token].worker
         /\ leases[j][row.token].outcome = "open"
    /\ row.status # "leased" => row.owner = Nobody /\ row.token = 0 /\ ~row.live
    /\ row.status = "pending" => row.attempts < MaxAttempts
    /\ Exists(row) => row.attempts = Len(leases[j])

(* mark_lead_contacted leaves no SLA alert that could still be sent, and   *)
(* none is queued afterwards, whoever held the alert's lease meanwhile.    *)
ContactSilencesAlert ==
  \A l \in Lead : leadStatus[l] = "contacted" => ~Open(outbox[AlertFor(l)])

(* Of all the leases granted on a row at most one ends it, it is the last, *)
(* and the row says so for as long as it is kept.                          *)
OneOutcomePerRow ==
  \A j \in Job : \A t \in 1..Len(leases[j]) :
    leases[j][t].outcome \in {"delivered", "dead_letter"} =>
      /\ t = Len(leases[j])
      /\ outbox[j].status \in {leases[j][t].outcome, "purged"}

(* lead_activity agrees with what happened: one contacted event exactly    *)
(* when contacted, one sla_escalated event exactly when escalated, and one *)
(* delivery event for each lease that was completed or failed.             *)
Outcomes(l, o) ==
  UNION {{<<k, t>> : t \in {i \in 1..Len(leases[<<l, k>>]) : leases[<<l, k>>][i].outcome = o}} :
         k \in LeadKind}

ActivityTellsHistory ==
  \A l \in Lead : LeadPresent(l) =>
    /\ activity[l]["accepted"] = 1
    /\ activity[l]["contacted"] = IF leadStatus[l] = "contacted" THEN 1 ELSE 0
    /\ activity[l]["sla_escalated"] = IF escalated[l] THEN 1 ELSE 0
    /\ activity[l]["delivery_succeeded"] = Cardinality(Outcomes(l, "delivered"))
    /\ activity[l]["delivery_deferred"] = Cardinality(Outcomes(l, "deferred"))
    /\ activity[l]["delivery_dead_lettered"] = Cardinality(Outcomes(l, "dead_letter"))

(* A worker whose lease was superseded by a later claim cannot change what *)
(* became of its own lease, nor the row (docs/architecture.md, "a stale    *)
(* worker cannot mutate a reclaimed row").                                 *)
StaleLeaseIsInert ==
  [][\A j \in Job : \A t \in 1..(Len(leases[j]) - 1) : leases'[j][t] = leases[j][t]]_vars

(* While a lease is live its row is taken from the holder only by the      *)
(* holder's own call, by a contact, or because the alert became stale: a   *)
(* claim or a purge never does.                                            *)
LiveLeaseIsSafe ==
  [][\A j \in Job :
       (outbox[j].status = "leased" /\ outbox[j].live) =>
         \/ /\ outbox'[j].status = "leased" /\ outbox'[j].token = outbox[j].token
         \/ leases'[j] # leases[j] /\ Len(leases'[j]) = Len(leases[j])
         \/ j[2] = "sla_alert" /\ outbox'[j].status = "cancelled"
              /\ leadStatus'[j[1]] # "new"]_vars

(* A delivery is queued only under a key that never had a row, and so never *)
(* a holder.  ON CONFLICT DO NOTHING sees to it while the row is kept; once *)
(* retention has deleted the row, nothing but escalated_at and the end of   *)
(* the request itself keep its key from being inserted again.  Of a digest  *)
(* it is assumed that its day is past by then.                              *)
NoKeyReturns ==
  [][\A j \in Job :
       ~Exists(outbox[j]) /\ Exists(outbox'[j]) =>
         outbox[j].status = "none" /\ leases[j] = <<>>]_vars

----------------------------------------------------------------------------
(* Liveness under FairSpec *)

(* Every queued delivery ends: no crash of the workers leaves a row        *)
(* pending or leased for ever.                                             *)
EveryJobSettles ==
  \A j \in Job : Open(outbox[j]) ~> ~Open(outbox[j])

(* An overdue request is escalated unless it is contacted or purged first. *)
OverdueIsEscalated ==
  \A l \in Lead : (leadStatus[l] = "new" /\ slaDue[l]) ~> (escalated[l] \/ leadStatus[l] # "new")

(* Data past its retention is deleted, also when a lease protected it for  *)
(* a while.                                                                *)
AgedRowsArePurged ==
  \A j \in Job : (Exists(outbox[j]) /\ outbox[j].aged) ~> ~Exists(outbox[j])

=============================================================================
