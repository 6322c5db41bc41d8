----------------------------- MODULE Dispatcher -----------------------------
(***************************************************************************)
(* The outbox dispatcher workflow (scripts/build-workflows.mjs, generated  *)
(* into workflows/core/20-outbox-dispatcher.json) run by n8n over the      *)
(* Relay database, with the mail and ntfy providers.                       *)
(*                                                                         *)
(* One execution claims a batch, authorizes every row of it, then takes    *)
(* the channels in turn: it sends all the channel's messages, records the  *)
(* accepted ones, then the refused ones.  A raising complete_outbox or     *)
(* fail_outbox ends the execution (their nodes have no error output).      *)
(* Several executions may run at once.  Whether the items of one node      *)
(* share a transaction is n8n's affair: they are recorded one by one here, *)
(* and a raising item may come before or after the others.                 *)
(*                                                                         *)
(* Time is counted in ticks: a lease lives LeaseTicks (5 minutes), an      *)
(* execution at most TimeoutTicks (executionTimeout, 2 minutes).           *)
(***************************************************************************)
EXTENDS RelayOutbox

CONSTANTS
  LeaseTicks,    \* lease_expires_at - now, when claimed
  TimeoutTicks,  \* executionTimeout of the dispatcher
  Faults         \* which of "crash" and "lost" (provider answers) may happen

ASSUME TicksAssumption ==
  LeaseTicks \in Nat /\ TimeoutTicks \in Nat /\ TimeoutTicks < LeaseTicks
ASSUME FaultsAssumption == Faults \subseteq {"crash", "lost"}

VARIABLES
  run,       \* per execution: the node it is at and its age
  hand,      \* per execution and row: the state of its item, and the token claimed
  leaseAge,  \* ticks since the row was leased, 0 without a live lease
  received   \* copies of the row's message the provider accepted, counted to 2

dispatchVars == <<run, hand, leaseAge, received>>
allVars == <<vars, dispatchVars>>

Phase == {"idle", "authorize", "smtp", "ntfy"}
ItemState == {"none", "claimed", "allowed", "accepted", "refused"}
NoItem == [state |-> "none", token |-> 0]
EmptyHand == [j \in Job |-> NoItem]
Idle == [phase |-> "idle", age |-> 0]

Running(w) == run[w].phase # "idle"
InHand(w, j) == hand[w][j].state # "none"

(* Which channel node sends a row; the CHECK on channel admits no other. *)
ChannelOf(j) ==
  IF j[2] \in {"owner_alert", "sla_alert"} /\ LeadPriority(leadRoute[j[1]]) = "high"
  THEN "ntfy" ELSE "smtp"

(* Items of the execution's present channel that are in a given state. *)
Waiting(w, s) == {j \in Job : hand[w][j].state = s /\ ChannelOf(j) = run[w].phase}

DispatchTypeOK ==
  /\ run \in [Worker -> [phase : Phase, age : 0..TimeoutTicks]]
  /\ hand \in [Worker -> [Job -> [state : ItemState, token : Nat]]]
  /\ leaseAge \in [Job -> 0..LeaseTicks]
  /\ received \in [Job -> 0..2]

DispatchInit ==
  /\ Init
  /\ run = [w \in Worker |-> Idle]
  /\ hand = [w \in Worker |-> EmptyHand]
  /\ leaseAge = [j \in Job |-> 0]
  /\ received = [j \in Job |-> 0]

----------------------------------------------------------------------------
(* One execution *)

Granted(j) == Len(leases'[j]) > Len(leases[j])

Claim(w, locked) ==
  /\ ~Running(w)
  /\ ClaimOutbox(w, locked)
  /\ \E j \in Job : Granted(j)
  /\ run' = [run EXCEPT ![w] = [phase |-> "authorize", age |-> 0]]
  /\ hand' = [hand EXCEPT ![w] =
                [j \in Job |-> IF Granted(j) THEN [state |-> "claimed", token |-> Len(leases'[j])]
                               ELSE NoItem]]
  /\ UNCHANGED received

(* A poll that finds nothing still sweeps the table and ends. *)
ClaimNothing(w, locked) ==
  /\ ~Running(w)
  /\ ClaimOutbox(w, locked)
  /\ \A j \in Job : ~Granted(j)
  /\ UNCHANGED <<run, hand, received>>

NowItem(w, j, s) == hand' = [hand EXCEPT ![w][j].state = s]
Dropped(w, j) == hand' = [hand EXCEPT ![w][j] = NoItem]

(* Bug: the answer of authorize_delivery is not looked at. *)
MayGoOutAnyway(j, t) == TRUE

MayGoOut(j, t) == Authorizable(j, t) /\ ~AlertStale(j)

Authorize(w, j) ==
  LET t == hand[w][j].token IN
  /\ run[w].phase = "authorize"
  /\ hand[w][j].state = "claimed"
  /\ \/ MayGoOut(j, t) /\ NowItem(w, j, "allowed") /\ UNCHANGED vars
     \/ ~MayGoOut(j, t) /\ AuthorizeDelivery(j, t) /\ Dropped(w, j)
     \/ ~MayGoOut(j, t) /\ ~Authorizable(j, t) /\ Dropped(w, j) /\ UNCHANGED vars
  /\ UNCHANGED <<run, received>>

(* A channel node with its retries: the provider may have taken more       *)
(* copies than the node knows of when answers are lost.                    *)
Send(w, j) ==
  /\ j \in Waiting(w, "allowed")
  /\ \E copies \in 0..2, ok \in BOOLEAN :
       /\ ok => copies >= 1
       /\ "lost" \notin Faults => copies = IF ok THEN 1 ELSE 0
       /\ received' = [received EXCEPT ![j] = Smaller(2, @ + copies)]
       /\ NowItem(w, j, IF ok THEN "accepted" ELSE "refused")
  /\ UNCHANGED <<vars, run>>

End(w) ==
  /\ run' = [run EXCEPT ![w] = Idle]
  /\ hand' = [hand EXCEPT ![w] = EmptyHand]
  /\ UNCHANGED <<vars, received>>

(* Bug: the success branch is also taken by refused messages. *)
SucceededEither(w) == Waiting(w, "accepted") \cup Waiting(w, "refused")

Succeeded(w) == Waiting(w, "accepted")

RecordSuccess(w, j) ==
  /\ j \in Succeeded(w)
  /\ Waiting(w, "allowed") = {}
  /\ CompleteOutbox(j, w, hand[w][j].token)
  /\ Dropped(w, j)
  /\ UNCHANGED <<run, received>>

RecordFailure(w, j) ==
  /\ j \in Waiting(w, "refused")
  /\ Waiting(w, "allowed") = {} /\ Succeeded(w) = {}
  /\ FailOutbox(j, w, hand[w][j].token)
  /\ Dropped(w, j)
  /\ UNCHANGED <<run, received>>

(* complete_outbox or fail_outbox raises: the lease is no longer this one. *)
RecordRaises(w) ==
  /\ Waiting(w, "allowed") = {}
  /\ \E j \in IF Succeeded(w) # {} THEN Succeeded(w) ELSE Waiting(w, "refused") :
       ~HoldsLease(j, w, hand[w][j].token)
  /\ End(w)

(* The next node, once the present one has no item left. *)
Advance(w) ==
  /\ UNCHANGED <<vars, hand, received>>
  /\ \/ /\ run[w].phase = "authorize"
        /\ \A j \in Job : hand[w][j].state # "claimed"
        /\ run' = [run EXCEPT ![w].phase = "smtp"]
     \/ /\ run[w].phase = "smtp"
        /\ \A s \in ItemState \ {"none"} : Waiting(w, s) = {}
        /\ run' = [run EXCEPT ![w].phase = "ntfy"]

Finish(w) ==
  /\ run[w].phase = "ntfy"
  /\ \A s \in ItemState \ {"none"} : Waiting(w, s) = {}
  /\ End(w)

(* The process stops, or n8n stops the execution at its time limit. *)
Crash(w) == "crash" \in Faults /\ Running(w) /\ End(w)

----------------------------------------------------------------------------
(* Time, and the database's other callers *)

(* Bug: an execution is never stopped (no executionTimeout). *)
MinuteWithoutTimeout ==
  /\ run' = [w \in Worker |-> IF Running(w) THEN [run[w] EXCEPT !.age = @ + 1] ELSE run[w]]
  /\ UNCHANGED <<hand, received>>

(* No execution outlives its limit: it has finished or is stopped first.   *)
Minute ==
  /\ \A w \in Worker : Running(w) => run[w].age < TimeoutTicks
  /\ run' = [w \in Worker |-> IF Running(w) THEN [run[w] EXCEPT !.age = @ + 1] ELSE run[w]]
  /\ UNCHANGED <<hand, received>>

HasLiveLease(j) == outbox[j].status = "leased" /\ outbox[j].live

(* A lease starts at age 0 and loses its age with its end. *)
LeaseClock(ticks) ==
  leaseAge' = [j \in Job |-> IF outbox'[j].status = "leased" /\ outbox'[j].live /\ ~Granted(j)
                             THEN leaseAge[j] + ticks ELSE 0]

Tick ==
  LET expiring == {j \in Job : HasLiveLease(j) /\ leaseAge[j] + 1 >= LeaseTicks} IN
  /\ Minute
  /\ \E j \in Job : HasLiveLease(j)
  /\ IF expiring = {} THEN UNCHANGED vars ELSE LeasesExpire(expiring)
  /\ LeaseClock(1)

(* Retention runs on another scale of time, and is left out here. *)
Elsewhere ==
  /\ \/ \E l \in Lead, r \in Route, draft \in Drafted : IngestLead(l, r, draft)
     \/ \E l \in Lead : MarkLeadContacted(l) \/ SlaFallsDue(l)
     \/ \E locked \in SUBSET Lead : ScheduleDueFollowups(locked)
     \/ \E d \in Day : EnqueueDailyDigest(d)
     \/ \E j \in Job : BackoffElapses(j)
  /\ UNCHANGED <<run, hand, received>>

ExecutionStep(w) ==
  \/ Advance(w) \/ Finish(w) \/ RecordRaises(w)
  \/ \E j \in Job : Authorize(w, j) \/ Send(w, j) \/ RecordSuccess(w, j) \/ RecordFailure(w, j)

Execution(w) == ExecutionStep(w) /\ LeaseClock(0)

Poll(w, locked) == (Claim(w, locked) \/ ClaimNothing(w, locked)) /\ LeaseClock(0)

DispatchNext ==
  \/ \E w \in Worker : Execution(w) \/ (Crash(w) /\ LeaseClock(0))
  \/ \E w \in Worker, locked \in SUBSET Job : Poll(w, locked)
  \/ Tick
  \/ (Elsewhere /\ LeaseClock(0))

DispatchSpec == DispatchInit /\ [][DispatchNext]_allVars

(* The minute schedule starts executions, n8n runs them, time passes.      *)
DispatchFairness ==
  /\ \A w \in Worker : WF_allVars(Execution(w))
  /\ WF_allVars(\E w \in Worker : Poll(w, {}))
  /\ WF_allVars(Tick)
  /\ \A j \in Job : WF_allVars(BackoffElapses(j) /\ UNCHANGED dispatchVars)

DispatchFairSpec == DispatchSpec /\ DispatchFairness

----------------------------------------------------------------------------
(* Properties *)

(* A running execution still holds every lease it has an item for, unless  *)
(* the item is an alert whose request was contacted meanwhile: no other    *)
(* execution can have claimed the row, because the lease outlives the      *)
(* execution.  So complete_outbox and fail_outbox raise only after a       *)
(* contact, and no row is ever in the hands of two executions.             *)
LeaseOutlivesExecution ==
  \A w \in Worker, j \in Job : InHand(w, j) =>
    \/ HoldsLease(j, w, hand[w][j].token) /\ outbox[j].live
    \/ j[2] = "sla_alert" /\ leadStatus[j[1]] = "contacted"

OneHolder ==
  \A w, v \in Worker, j \in Job : InHand(w, j) /\ InHand(v, j) => w = v

(* What the outbox records as delivered reached the provider (at least     *)
(* once), whichever crashes and lost answers preceded.                     *)
DeliveredWasReceived ==
  \A j \in Job : outbox[j].status = "delivered" => received[j] >= 1

(* Once a request is contacted, its alert goes out only if it had been     *)
(* authorized before: the race the documentation admits is the only one,   *)
(* and when nobody holds such an alert the provider never gets it again.   *)
AlertInFlight(l) == \E w \in Worker : hand[w][AlertFor(l)].state = "allowed"

AlertQuietAfterContact ==
  [][\A l \in Lead :
       (leadStatus[l] = "contacted" /\ ~AlertInFlight(l))
         => ~AlertInFlight(l)' /\ received'[AlertFor(l)] = received[AlertFor(l)]]_allVars

(* docs/architecture.md, the dispatcher "completes or defers that exact    *)
(* lease": an execution that called the provider for a row does not leave  *)
(* its lease behind, where the row would be sent again once it expires.    *)
(* Stated for an instance without crashes and lost answers.                *)
SentIsRecorded ==
  [][\A w \in Worker, j \in Job :
       (hand[w][j].state \in {"accepted", "refused"} /\ hand'[w][j].state = "none")
         => ~(outbox'[j].status = "leased" /\ outbox'[j].token = hand[w][j].token)]_allVars

=============================================================================
