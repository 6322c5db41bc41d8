--------------------------- MODULE DispatcherProofs ---------------------------
(***************************************************************************)
(* Proofs about Dispatcher, for any number of executions, rows and ticks:  *)
(* the database below the executions keeps its own specification, a lease  *)
(* outlives the execution that holds it, and what is recorded as delivered *)
(* was received.                                                           *)
(***************************************************************************)
EXTENDS Dispatcher, RelayOutboxProofs

USE TicksAssumption

(* The lease of an item is as young as its execution. *)
Held(w, j) ==
  /\ HoldsLease(j, w, hand[w][j].token) /\ outbox[j].live
  /\ leaseAge[j] <= run[w].age

(* An alert whose request was contacted. *)
Silent(j) == j[2] = "sla_alert" /\ leadStatus[j[1]] = "contacted"

HandsHold == \A w \in Worker, j \in Job : InHand(w, j) => Held(w, j) \/ Silent(j)
IdleHandsEmpty == \A w \in Worker, j \in Job : InHand(w, j) => Running(w)
AcceptedWasReceived ==
  \A w \in Worker, j \in Job : hand[w][j].state = "accepted" => received[j] >= 1

DInv ==
  /\ IInv /\ DispatchTypeOK
  /\ HandsHold /\ OneHolder /\ IdleHandsEmpty
  /\ AcceptedWasReceived /\ DeliveredWasReceived

----------------------------------------------------------------------------
(* Types *)

LEMMA HandTypes ==
  ASSUME DispatchTypeOK, NEW w \in Worker, NEW j \in Job
  PROVE  /\ run[w] \in [phase : Phase, age : 0..TimeoutTicks]
         /\ run[w].phase \in Phase /\ run[w].age \in 0..TimeoutTicks
         /\ hand[w] \in [Job -> [state : ItemState, token : Nat]]
         /\ hand[w][j] \in [state : ItemState, token : Nat]
         /\ hand[w][j].state \in ItemState /\ hand[w][j].token \in Nat
         /\ leaseAge[j] \in 0..LeaseTicks /\ received[j] \in 0..2
BY DEF DispatchTypeOK

LEMMA EmptyTypes ==
  /\ Idle \in [phase : Phase, age : 0..TimeoutTicks] /\ Idle.phase = "idle"
  /\ NoItem \in [state : ItemState, token : Nat] /\ NoItem.state = "none"
  /\ EmptyHand \in [Job -> [state : ItemState, token : Nat]]
  /\ \A j \in Job : EmptyHand[j].state = "none"
BY DEF Idle, Phase, NoItem, ItemState, EmptyHand

(* Nothing but time makes a lease older. *)
LEMMA ClockStands ==
  ASSUME DispatchTypeOK, LeaseClock(0)
  PROVE  /\ leaseAge' \in [Job -> 0..LeaseTicks]
         /\ \A j \in Job : leaseAge'[j] <= leaseAge[j]
<1>1. \A j \in Job : leaseAge'[j] = leaseAge[j] + 0 \/ leaseAge'[j] = 0
  BY DEF LeaseClock
<1>2. \A j \in Job : leaseAge[j] \in 0..LeaseTicks
  BY DEF DispatchTypeOK
<1>3. \A j \in Job : leaseAge'[j] \in 0..LeaseTicks /\ leaseAge'[j] <= leaseAge[j]
  BY <1>1, <1>2
<1>. QED BY <1>3 DEF LeaseClock

LEMMA NothingReceived ==
  ASSUME DispatchTypeOK, UNCHANGED received
  PROVE  received' \in [Job -> 0..2] /\ \A j \in Job : received'[j] >= received[j]
<1>1. received' \in [Job -> 0..2]
  BY DEF DispatchTypeOK
<1>2. \A j \in Job : received[j] \in 0..2
  BY DEF DispatchTypeOK
<1>3. \A j \in Job : received[j] >= received[j]
  BY <1>2
<1>. QED BY <1>1, <1>3

(* An item changes its state, or is dropped. *)
LEMMA ItemMoves ==
  ASSUME DispatchTypeOK, NEW w \in Worker, NEW j \in Job, NEW s \in ItemState, NowItem(w, j, s)
  PROVE  /\ hand' \in [Worker -> [Job -> [state : ItemState, token : Nat]]]
         /\ \A v \in Worker, k \in Job : v # w \/ k # j => hand'[v][k] = hand[v][k]
         /\ hand'[w][j].state = s /\ hand'[w][j].token = hand[w][j].token
<1>. DEFINE item == [hand[w][j] EXCEPT !.state = s]
<1>1. item \in [state : ItemState, token : Nat] /\ item.state = s /\ item.token = hand[w][j].token
  BY HandTypes
<1>2. hand \in [Worker -> [Job -> [state : ItemState, token : Nat]]]
  BY DEF DispatchTypeOK
<1>3. hand' = [hand EXCEPT ![w] = [hand[w] EXCEPT ![j] = item]]
  BY DEF NowItem
<1>. HIDE DEF item
<1>. QED BY <1>1, <1>2, <1>3

LEMMA ItemDropped ==
  ASSUME DispatchTypeOK, NEW w \in Worker, NEW j \in Job, Dropped(w, j)
  PROVE  /\ hand' \in [Worker -> [Job -> [state : ItemState, token : Nat]]]
         /\ \A v \in Worker, k \in Job : v # w \/ k # j => hand'[v][k] = hand[v][k]
         /\ hand'[w][j].state = "none"
<1>1. hand \in [Worker -> [Job -> [state : ItemState, token : Nat]]]
  BY DEF DispatchTypeOK
<1>2. hand' = [hand EXCEPT ![w] = [hand[w] EXCEPT ![j] = NoItem]]
  BY DEF Dropped
<1>. QED BY <1>1, <1>2, EmptyTypes

----------------------------------------------------------------------------
(* The database below.  Every call an execution makes is one that the      *)
(* database allows: a lease that authorizes or records is in its history.  *)
LEMMA LeasePresented ==
  ASSUME IInv, NEW j \in Job, NEW t, Authorizable(j, t)
  PROVE  <<outbox[j].owner, t>> \in Holders(j)
<1>1. leases[j] \in Seq(Lease) /\ outbox[j] \in Row /\ GoodRow(outbox[j], leases[j])
  BY DEF IInv, TypeOK, GoodRows
<1>2. t \in 1..Len(leases[j]) /\ outbox[j].owner = leases[j][t].worker
  BY <1>1 DEF GoodRow, Authorizable
<1>. QED BY <1>2 DEF Holders

LEMMA CallIsDispatch ==
  ASSUME IInv, NEW w \in Worker, NEW j \in Job, NEW t,
         AuthorizeDelivery(j, t) \/ CompleteOutbox(j, w, t) \/ FailOutbox(j, w, t)
  PROVE  Next
<1>1. Authorizable(j, t)
  BY DEF AuthorizeDelivery, CompleteOutbox, FailOutbox, HoldsLease, Authorizable
<1>2. CASE AuthorizeDelivery(j, t)
  <2>. DEFINE h == <<outbox[j].owner, t>>
  <2>1. h \in Holders(j) /\ AuthorizeDelivery(j, h[2])
    BY <1>1, <1>2, LeasePresented
  <2>. QED BY <2>1 DEF Next, Dispatch
<1>3. CASE CompleteOutbox(j, w, t) \/ FailOutbox(j, w, t)
  <2>. DEFINE h == <<w, t>>
  <2>1. h \in Holders(j)
    BY <1>1, <1>3, LeasePresented DEF CompleteOutbox, FailOutbox, HoldsLease
  <2>2. CompleteOutbox(j, h[1], h[2]) \/ FailOutbox(j, h[1], h[2])
    BY <1>3
  <2>. QED BY <2>1, <2>2 DEF Next, Dispatch
<1>. QED BY <1>2, <1>3

LEMMA StepBelow ==
  ASSUME IInv, [DispatchNext]_allVars
  PROVE  [Next]_vars
<1>1. ASSUME NEW w \in Worker, ExecutionStep(w) PROVE [Next]_vars
  <2>1. ASSUME NEW j \in Job, Authorize(w, j) PROVE [Next]_vars
    BY <2>1, CallIsDispatch DEF Authorize
  <2>2. ASSUME NEW j \in Job, RecordSuccess(w, j) \/ RecordFailure(w, j) PROVE [Next]_vars
    BY <2>2, CallIsDispatch DEF RecordSuccess, RecordFailure
  <2>3. ASSUME NEW j \in Job, Send(w, j) PROVE [Next]_vars
    BY <2>3 DEF Send
  <2>4. CASE Advance(w) \/ Finish(w) \/ RecordRaises(w)
    BY <2>4 DEF Advance, Finish, RecordRaises, End
  <2>. QED BY <1>1, <2>1, <2>2, <2>3, <2>4 DEF ExecutionStep
<1>2. ASSUME NEW w \in Worker, Crash(w) PROVE [Next]_vars
  BY <1>2 DEF Crash, End
<1>3. ASSUME NEW w \in Worker, NEW locked \in SUBSET Job, Poll(w, locked) PROVE [Next]_vars
  BY <1>3 DEF Poll, Claim, ClaimNothing, Next, Dispatch
<1>4. CASE Tick
  <2>. DEFINE expiring == {j \in Job : HasLiveLease(j) /\ leaseAge[j] + 1 >= LeaseTicks}
  <2>1. UNCHANGED vars \/ LeasesExpire(expiring)
    BY <1>4 DEF Tick
  <2>2. expiring \in SUBSET Job
    OBVIOUS
  <2>. QED BY <2>1, <2>2 DEF Next, Clock
<1>5. CASE Elsewhere
  BY <1>5 DEF Elsewhere, Next, Requests, Maintenance, Clock
<1>6. CASE UNCHANGED allVars
  BY <1>6 DEF allVars
<1>. QED BY <1>1, <1>2, <1>3, <1>4, <1>5, <1>6 DEF DispatchNext, Execution

LEMMA InvBelow ==
  ASSUME DInv, [DispatchNext]_allVars
  PROVE  IInv'
BY StepBelow, IInvStep DEF DInv

----------------------------------------------------------------------------
(* Steps that claim nothing and take no time *)

(* w's item of j is an old one, as old as it was. *)
OldItem(w, j) ==
  /\ InHand(w, j) /\ hand'[w][j].token = hand[w][j].token
  /\ run'[w].age = run[w].age

(* j's lease is what it was. *)
SameLease(j) ==
  /\ outbox'[j].status = outbox[j].status /\ outbox'[j].owner = outbox[j].owner
  /\ outbox'[j].token = outbox[j].token /\ outbox'[j].live = outbox[j].live
  /\ ~Granted(j)

StaysContacted == \A l \in Lead : leadStatus[l] = "contacted" => leadStatus'[l] = "contacted"

LEMMA StaysSilent ==
  ASSUME StaysContacted, NEW j \in Job, Silent(j)
  PROVE  Silent(j)'
BY AlertJobs DEF StaysContacted, Silent

LEMMA HandsStep ==
  ASSUME DInv, IInv', DispatchTypeOK', LeaseClock(0), StaysContacted,
         \A w \in Worker, j \in Job :
           InHand(w, j)' => OldItem(w, j) /\ (Held(w, j) => SameLease(j) \/ Silent(j)'),
         IdleHandsEmpty', AcceptedWasReceived', DeliveredWasReceived'
  PROVE  DInv'
<1>1. HandsHold'
  <2>. SUFFICES ASSUME NEW w \in Worker, NEW j \in Job, InHand(w, j)'
                PROVE  Held(w, j)' \/ Silent(j)'
    BY DEF HandsHold
  <2>1. OldItem(w, j) /\ (Held(w, j) => SameLease(j) \/ Silent(j)')
    OBVIOUS
  <2>2. CASE Held(w, j) /\ SameLease(j)
    <3>1. leaseAge[j] <= run[w].age /\ leaseAge'[j] <= leaseAge[j]
      BY <2>2, ClockStands DEF Held, DInv
    <3>2. leaseAge[j] \in Nat /\ run[w].age \in Nat /\ leaseAge'[j] \in Nat
      BY HandTypes, TicksAssumption, ClockStands DEF DInv
    <3>3. leaseAge'[j] <= run'[w].age
      BY <2>1, <3>1, <3>2 DEF OldItem
    <3>. QED BY <2>1, <2>2, <3>3 DEF OldItem, SameLease, Held, HoldsLease
  <2>3. CASE Silent(j)
    BY <2>3, StaysSilent
  <2>. QED BY <2>1, <2>2, <2>3 DEF DInv, HandsHold, OldItem
<1>2. OneHolder'
  BY DEF DInv, OneHolder, OldItem
<1>. QED BY <1>1, <1>2 DEF DInv

(* An execution by itself: the database does not change. *)
LEMMA AloneStep ==
  ASSUME DInv, UNCHANGED vars, LeaseClock(0),
         run' \in [Worker -> [phase : Phase, age : 0..TimeoutTicks]],
         hand' \in [Worker -> [Job -> [state : ItemState, token : Nat]]],
         received' \in [Job -> 0..2],
         \A w \in Worker, j \in Job : InHand(w, j)' => OldItem(w, j),
         \A j \in Job : received'[j] >= received[j],
         IdleHandsEmpty', AcceptedWasReceived'
  PROVE  DInv'
<1>1. IInv'
  BY IInvStep DEF DInv
<1>2. DispatchTypeOK'
  BY ClockStands DEF DInv, DispatchTypeOK
<1>3. StaysContacted
  BY DEF vars, StaysContacted
<1>4. \A j \in Job : SameLease(j)
  <2>1. \A j \in Job : leases'[j] = leases[j] /\ Len(leases[j]) \in Nat
    BY DEF vars, DInv, IInv, TypeOK
  <2>. QED BY <2>1 DEF vars, SameLease, Granted
<1>5. DeliveredWasReceived'
  <2>1. \A j \in Job : received[j] \in 0..2
    BY DEF DInv, DispatchTypeOK
  <2>2. \A j \in Job : received'[j] \in 0..2
    OBVIOUS
  <2>3. \A j \in Job : outbox'[j].status = "delivered" => received[j] >= 1
    BY DEF vars, DInv, DeliveredWasReceived
  <2>. QED BY <2>1, <2>2, <2>3 DEF DeliveredWasReceived
<1>. QED BY <1>1, <1>2, <1>3, <1>4, <1>5, HandsStep

LEMMA EndStep ==
  ASSUME DInv, NEW w \in Worker, End(w), LeaseClock(0)
  PROVE  DInv'
<1>1. /\ run' \in [Worker -> [phase : Phase, age : 0..TimeoutTicks]]
      /\ hand' \in [Worker -> [Job -> [state : ItemState, token : Nat]]]
      /\ \A v \in Worker : v # w => run'[v] = run[v] /\ hand'[v] = hand[v]
      /\ hand'[w] = EmptyHand
  BY EmptyTypes DEF End, DInv, DispatchTypeOK
<1>2. \A v \in Worker, j \in Job : InHand(v, j)' => v # w /\ OldItem(v, j)
  BY <1>1, EmptyTypes DEF InHand, OldItem
<1>3. IdleHandsEmpty'
  BY <1>1, <1>2 DEF DInv, IdleHandsEmpty, Running, InHand
<1>4. AcceptedWasReceived'
  BY <1>1, EmptyTypes DEF End, DInv, AcceptedWasReceived
<1>5. received' \in [Job -> 0..2] /\ \A j \in Job : received'[j] >= received[j]
  BY NothingReceived DEF End, DInv
<1>. QED BY <1>1, <1>2, <1>3, <1>4, <1>5, AloneStep DEF End

LEMMA AdvanceStep ==
  ASSUME DInv, NEW w \in Worker, Advance(w), LeaseClock(0)
  PROVE  DInv'
<1>1. PICK node \in {"smtp", "ntfy"} : run' = [run EXCEPT ![w].phase = node]
  BY DEF Advance
<1>2. /\ run' \in [Worker -> [phase : Phase, age : 0..TimeoutTicks]]
      /\ \A v \in Worker : run'[v].age = run[v].age /\ (run'[v].phase = "idle" => run[v].phase = "idle")
  <2>1. [run[w] EXCEPT !.phase = node] \in [phase : Phase, age : 0..TimeoutTicks]
        /\ [run[w] EXCEPT !.phase = node].age = run[w].age
        /\ [run[w] EXCEPT !.phase = node].phase = node
    <3>1. node \in Phase
      BY DEF Phase
    <3>2. run[w] \in [phase : Phase, age : 0..TimeoutTicks]
      BY DEF DInv, DispatchTypeOK
    <3>3. [run[w] EXCEPT !.phase = node] = [phase |-> node, age |-> run[w].age]
      BY <3>2
    <3>. QED BY <3>1, <3>2, <3>3
  <2>. QED BY <1>1, <2>1 DEF DInv, DispatchTypeOK
<1>3. UNCHANGED <<vars, hand, received>>
  BY DEF Advance
<1>4. \A v \in Worker, j \in Job : InHand(v, j)' => OldItem(v, j)
  BY <1>2, <1>3 DEF InHand, OldItem
<1>5. IdleHandsEmpty' /\ AcceptedWasReceived'
  BY <1>2, <1>3 DEF DInv, IdleHandsEmpty, Running, InHand, AcceptedWasReceived
<1>6. /\ received' \in [Job -> 0..2] /\ \A j \in Job : received'[j] >= received[j]
      /\ hand' \in [Worker -> [Job -> [state : ItemState, token : Nat]]]
  BY <1>3, NothingReceived DEF DInv, DispatchTypeOK
<1>. QED BY <1>2, <1>3, <1>4, <1>5, <1>6, AloneStep

LEMMA SendStep ==
  ASSUME DInv, NEW w \in Worker, NEW j \in Job, Send(w, j), LeaseClock(0)
  PROVE  DInv'
<1>1. PICK copies \in 0..2, ok \in BOOLEAN :
        /\ ok => copies >= 1
        /\ received' = [received EXCEPT ![j] = Smaller(2, @ + copies)]
        /\ NowItem(w, j, IF ok THEN "accepted" ELSE "refused")
  BY DEF Send
<1>. DEFINE s == IF ok THEN "accepted" ELSE "refused"
<1>2. hand[w][j].state = "allowed" /\ UNCHANGED <<vars, run>> /\ s \in ItemState
  BY DEF Send, Waiting, ItemState
<1>3. /\ received' \in [Job -> 0..2] /\ \A k \in Job : received'[k] >= received[k]
      /\ ok => received'[j] >= 1
  <2>1. \A k \in Job : received[k] \in 0..2
    BY HandTypes DEF DInv
  <2>2. /\ Smaller(2, received[j] + copies) \in 0..2
        /\ Smaller(2, received[j] + copies) >= received[j]
        /\ copies >= 1 => Smaller(2, received[j] + copies) >= 1
    BY <2>1 DEF Smaller
  <2>3. received' = [received EXCEPT ![j] = Smaller(2, received[j] + copies)]
    BY <1>1
  <2>4. \A k \in Job : received'[k] = IF k = j THEN Smaller(2, received[j] + copies) ELSE received[k]
    BY <2>3 DEF DInv, DispatchTypeOK
  <2>5. received' \in [Job -> 0..2]
    BY <2>2, <2>3 DEF DInv, DispatchTypeOK
  <2>6. \A k \in Job : received'[k] >= received[k]
    BY <2>1, <2>2, <2>4
  <2>. QED BY <1>1, <2>2, <2>4, <2>5, <2>6
<1>4. /\ hand' \in [Worker -> [Job -> [state : ItemState, token : Nat]]]
      /\ \A v \in Worker, k \in Job : v # w \/ k # j => hand'[v][k] = hand[v][k]
      /\ hand'[w][j].state = s /\ hand'[w][j].token = hand[w][j].token
  BY <1>1, <1>2, ItemMoves DEF DInv
<1>5. \A v \in Worker, k \in Job : InHand(v, k)' => OldItem(v, k)
  BY <1>2, <1>4 DEF InHand, OldItem
<1>6. IdleHandsEmpty'
  BY <1>2, <1>5 DEF DInv, IdleHandsEmpty, OldItem, Running
<1>7. AcceptedWasReceived'
  <2>. SUFFICES ASSUME NEW v \in Worker, NEW k \in Job, hand'[v][k].state = "accepted"
                PROVE  received'[k] >= 1
    BY DEF AcceptedWasReceived
  <2>1. CASE v = w /\ k = j
    BY <1>3, <1>4, <2>1
  <2>2. CASE v # w \/ k # j
    <3>1. received[k] >= 1
      BY <1>4, <2>2 DEF DInv, AcceptedWasReceived
    <3>2. received[k] \in Nat /\ received'[k] \in Nat
      BY <1>3, HandTypes DEF DInv
    <3>. QED BY <1>3, <3>1, <3>2
  <2>. QED BY <2>1, <2>2
<1>8. run' \in [Worker -> [phase : Phase, age : 0..TimeoutTicks]]
  BY <1>2 DEF DInv, DispatchTypeOK
<1>. QED BY <1>2, <1>3, <1>4, <1>5, <1>6, <1>7, <1>8, AloneStep

(* A call that ends the item, and with it at most the lease it presents. *)
LEMMA DroppedStep ==
  ASSUME DInv, IInv', LeaseClock(0), StaysContacted, UNCHANGED <<run, received>>,
         NEW w \in Worker, NEW j \in Job, InHand(w, j), Dropped(w, j),
         \A k \in Job : k # j => outbox'[k] = outbox[k],
         \A k \in Job : Len(leases'[k]) = Len(leases[k]),
         outbox'[j].status = "delivered" => received[j] >= 1
  PROVE  DInv'
<1>1. /\ hand' \in [Worker -> [Job -> [state : ItemState, token : Nat]]]
      /\ \A v \in Worker, k \in Job : v # w \/ k # j => hand'[v][k] = hand[v][k]
      /\ hand'[w][j].state = "none"
  BY ItemDropped DEF DInv
<1>2. DispatchTypeOK'
  BY <1>1, ClockStands DEF DInv, DispatchTypeOK
<1>3. \A k \in Job : ~Granted(k)
  <2>1. \A k \in Job : Len(leases[k]) \in Nat
    BY DEF DInv, IInv, TypeOK
  <2>. QED BY <2>1 DEF Granted
<1>4. ASSUME NEW v \in Worker, NEW k \in Job, InHand(v, k)'
      PROVE  OldItem(v, k) /\ SameLease(k)
  <2>1. v # w \/ k # j
    BY <1>1, <1>4 DEF InHand
  <2>2. hand'[v][k] = hand[v][k]
    BY <1>1, <2>1
  <2>3. OldItem(v, k)
    BY <1>4, <2>2 DEF InHand, OldItem
  <2>4. k # j
    BY <2>1, <2>3 DEF OldItem, DInv, OneHolder
  <2>. QED BY <1>3, <2>3, <2>4 DEF SameLease
<1>5. IdleHandsEmpty'
  BY <1>4 DEF DInv, IdleHandsEmpty, OldItem, Running
<1>6. AcceptedWasReceived'
  <2>. SUFFICES ASSUME NEW v \in Worker, NEW k \in Job, hand'[v][k].state = "accepted"
                PROVE  received[k] >= 1
    BY DEF AcceptedWasReceived
  <2>1. hand'[v][k] = hand[v][k]
    BY <1>1
  <2>. QED BY <2>1 DEF DInv, AcceptedWasReceived
<1>7. DeliveredWasReceived'
  BY DEF DInv, DeliveredWasReceived
<1>. QED BY <1>2, <1>4, <1>5, <1>6, <1>7, HandsStep

LEMMA AuthorizeStep ==
  ASSUME DInv, IInv', NEW w \in Worker, NEW j \in Job, Authorize(w, j), LeaseClock(0)
  PROVE  DInv'
<1>. DEFINE t == hand[w][j].token
<1>1. hand[w][j].state = "claimed" /\ UNCHANGED <<run, received>> /\ InHand(w, j)
  BY DEF Authorize, InHand
<1>2. CASE UNCHANGED vars /\ NowItem(w, j, "allowed")
  <2>1. /\ hand' \in [Worker -> [Job -> [state : ItemState, token : Nat]]]
        /\ \A v \in Worker, k \in Job : v # w \/ k # j => hand'[v][k] = hand[v][k]
        /\ hand'[w][j].state = "allowed" /\ hand'[w][j].token = hand[w][j].token
    BY <1>2, ItemMoves DEF DInv, ItemState
  <2>2. \A v \in Worker, k \in Job : InHand(v, k)' => OldItem(v, k)
    BY <1>1, <2>1 DEF InHand, OldItem
  <2>3. IdleHandsEmpty'
    BY <1>1, <2>2 DEF DInv, IdleHandsEmpty, OldItem, Running
  <2>4. AcceptedWasReceived'
    <3>. SUFFICES ASSUME NEW v \in Worker, NEW k \in Job, hand'[v][k].state = "accepted"
                  PROVE  received[k] >= 1
      BY <1>1 DEF AcceptedWasReceived
    <3>1. hand'[v][k] = hand[v][k]
      BY <2>1
    <3>. QED BY <3>1 DEF DInv, AcceptedWasReceived
  <2>5. run' \in [Worker -> [phase : Phase, age : 0..TimeoutTicks]]
    BY <1>1 DEF DInv, DispatchTypeOK
  <2>. QED BY <1>1, <1>2, <2>1, <2>2, <2>3, <2>4, <2>5, NothingReceived, AloneStep DEF DInv
<1>3. CASE AuthorizeDelivery(j, t) /\ Dropped(w, j)
  <2>1. /\ outbox' = [outbox EXCEPT ![j] = Released(outbox[j], "cancelled")]
        /\ leases' = leases /\ leadStatus' = leadStatus
    BY <1>3 DEF AuthorizeDelivery
  <2>2. outbox'[j].status = "cancelled"
    <3>1. outbox[j] \in Row /\ "cancelled" \in RowStatus
      BY DEF DInv, IInv, TypeOK, RowStatus, Final
    <3>. QED BY <2>1, <3>1, ReleasedType DEF DInv, IInv, TypeOK
  <2>3. \A k \in Job : k # j => outbox'[k] = outbox[k]
    BY <2>1 DEF DInv, IInv, TypeOK
  <2>. QED BY <1>1, <1>3, <2>1, <2>2, <2>3, DroppedStep DEF StaysContacted
<1>4. CASE Dropped(w, j) /\ UNCHANGED vars
  BY <1>1, <1>4, DroppedStep DEF vars, StaysContacted, DInv, DeliveredWasReceived
<1>. QED BY <1>2, <1>3, <1>4 DEF Authorize

(* What complete_outbox and fail_outbox do to the table. *)
LEMMA Recording ==
  ASSUME IInv, NEW w, NEW j \in Job, NEW t, CompleteOutbox(j, w, t) \/ FailOutbox(j, w, t)
  PROVE  /\ \A k \in Job : k # j => outbox'[k] = outbox[k]
         /\ \A k \in Job : Len(leases'[k]) = Len(leases[k])
         /\ FailOutbox(j, w, t) => outbox'[j].status # "delivered"
         /\ StaysContacted
<1>1. /\ outbox[j] \in Row /\ leases[j] \in Seq(Lease) /\ outbox \in [Job -> Row]
      /\ t \in 1..Len(leases[j])
  BY HeldLease DEF CompleteOutbox, FailOutbox, IInv, TypeOK
<1>2. PICK o \in Outcome : Ended(j, t, o)
  BY DEF CompleteOutbox, FailOutbox, Outcome
<1>3. \A k \in Job : Len(leases'[k]) = Len(leases[k])
  BY <1>1, <1>2, EndedType DEF IInv
<1>4. \A k \in Job : k # j => outbox'[k] = outbox[k]
  BY <1>1 DEF CompleteOutbox, FailOutbox
<1>5. ASSUME FailOutbox(j, w, t) PROVE outbox'[j].status # "delivered"
  <2>. DEFINE late == Released(outbox[j], "dead_letter")
              again == Released(outbox[j], "pending")
  <2>1. late \in Row /\ late.status = "dead_letter" /\ again \in Row /\ again.status = "pending"
    BY <1>1, ReleasedType DEF RowStatus, Final
  <2>2. outbox'[j] = late \/ outbox'[j] = [again EXCEPT !.ready = FALSE]
    BY <1>1, <1>5 DEF FailOutbox
  <2>. HIDE DEF late, again
  <2>. QED BY <2>1, <2>2 DEF Row
<1>6. StaysContacted
  BY DEF CompleteOutbox, FailOutbox, leadVars, StaysContacted
<1>. QED BY <1>3, <1>4, <1>5, <1>6

LEMMA RecordStep ==
  ASSUME DInv, IInv', NEW w \in Worker, NEW j \in Job,
         RecordSuccess(w, j) \/ RecordFailure(w, j), LeaseClock(0)
  PROVE  DInv'
<1>. DEFINE t == hand[w][j].token
<1>1. /\ Dropped(w, j) /\ UNCHANGED <<run, received>>
      /\ hand[w][j].state \in {"accepted", "refused"}
      /\ CompleteOutbox(j, w, t) \/ FailOutbox(j, w, t)
      /\ FailOutbox(j, w, t) \/ hand[w][j].state = "accepted"
  BY DEF RecordSuccess, RecordFailure, Succeeded, Waiting
<1>2. InHand(w, j) /\ (FailOutbox(j, w, t) \/ received[j] >= 1)
  BY <1>1 DEF InHand, DInv, AcceptedWasReceived
<1>3. /\ \A k \in Job : k # j => outbox'[k] = outbox[k]
      /\ \A k \in Job : Len(leases'[k]) = Len(leases[k])
      /\ FailOutbox(j, w, t) => outbox'[j].status # "delivered"
      /\ StaysContacted
  BY <1>1, Recording DEF DInv
<1>. QED BY <1>1, <1>2, <1>3, DroppedStep

----------------------------------------------------------------------------
(* A poll *)

(* A row in the hands of an execution is neither swept nor claimed. *)
LEMMA HeldRow ==
  ASSUME DInv, NEW v \in Worker, NEW j \in Job, InHand(v, j)
  PROVE  Swept(j) = outbox[j] /\ ~Claimable(outbox[j])
<1>1. CASE Held(v, j)
  <2>1. outbox[j].status = "leased" /\ outbox[j].live
    BY <1>1 DEF Held, HoldsLease
  <2>2. ~Moot(j, outbox[j])
    <3>. SUFFICES ASSUME Moot(j, outbox[j]) PROVE FALSE
      OBVIOUS
    <3>1. j[1] \in Lead /\ j = AlertFor(j[1]) /\ leadStatus[j[1]] = "contacted"
      BY AlertJobs DEF Moot, LeadPresent
    <3>. QED BY <3>1 DEF Moot, DInv, IInv, ContactSilencesAlert
  <2>. QED BY <2>1, <2>2 DEF Swept, Exhausted, Claimable
<1>2. CASE Silent(j)
  <2>1. ~Open(outbox[j])
    BY <1>2, AlertJobs DEF Silent, DInv, IInv, ContactSilencesAlert
  <2>. QED BY <2>1 DEF Swept, Exhausted, Moot, Claimable, Open
<1>. QED BY <1>1, <1>2 DEF DInv, HandsHold

LEMMA ClaimEffect ==
  ASSUME DInv, NEW w \in Worker, NEW locked \in SUBSET Job, ClaimOutbox(w, locked)
  PROVE  /\ \A j \in Job : Granted(j) => /\ outbox'[j].status = "leased" /\ outbox'[j].live
                                         /\ outbox'[j].owner = w
                                         /\ outbox'[j].token = Len(leases'[j])
         /\ \A v \in Worker, j \in Job : InHand(v, j) => ~Granted(j) /\ outbox'[j] = outbox[j]
         /\ \A j \in Job : Len(leases'[j]) \in Nat
         /\ \A j \in Job : outbox'[j].status = "delivered" => outbox[j].status = "delivered"
         /\ leadStatus' = leadStatus
<1>1. PICK batch \in Selections({j \in Job \ locked : Claimable(Swept(j))}) :
        /\ outbox' = [j \in Job |-> IF j \in batch THEN LeasedTo(Swept(j), w, FreshToken(j))
                                    ELSE Swept(j)]
        /\ leases' = [j \in Job |-> IF j \in batch
                                    THEN Append(leases[j], [worker |-> w, outcome |-> "open"])
                                    ELSE leases[j]]
        /\ leadStatus' = leadStatus
  BY DEF ClaimOutbox
<1>2. \A j \in batch : j \in Job /\ Claimable(Swept(j))
  BY <1>1 DEF Selections
<1>3. ASSUME NEW j \in Job
      PROVE  Len(leases'[j]) \in Nat /\ (Granted(j) <=> j \in batch)
             /\ (j \in batch => Len(leases'[j]) = FreshToken(j) /\ FreshToken(j) \in Nat)
  <2>1. leases[j] \in Seq(Lease) /\ [worker |-> w, outcome |-> "open"] \in Lease
    BY DEF DInv, IInv, TypeOK, Lease, Outcome
  <2>2. CASE j \in batch
    <3>1. leases'[j] = Append(leases[j], [worker |-> w, outcome |-> "open"])
      BY <1>1, <2>2
    <3>2. Len(leases'[j]) = Len(leases[j]) + 1 /\ Len(leases[j]) \in Nat
      BY <2>1, <3>1
    <3>. QED BY <2>2, <3>2 DEF Granted, FreshToken
  <2>3. CASE j \notin batch
    BY <1>1, <2>1, <2>3 DEF Granted
  <2>. QED BY <2>2, <2>3
<1>4. ASSUME NEW j \in batch
      PROVE  /\ outbox'[j].status = "leased" /\ outbox'[j].live
             /\ outbox'[j].owner = w /\ outbox'[j].token = Len(leases'[j])
  <2>1. j \in Job /\ Swept(j) \in Row /\ Claimable(Swept(j))
    BY <1>2, SweptType DEF DInv, IInv
  <2>2. outbox'[j] = LeasedTo(Swept(j), w, FreshToken(j)) /\ FreshToken(j) \in Nat
        /\ FreshToken(j) = Len(leases'[j])
    BY <1>1, <1>3, <2>1
  <2>3. LeasedTo(Swept(j), w, FreshToken(j)).live = TRUE
    BY <2>1 DEF LeasedTo, Row
  <2>. QED BY <2>1, <2>2, <2>3, LeasedToType
<1>5. ASSUME NEW v \in Worker, NEW j \in Job, InHand(v, j)
      PROVE  ~Granted(j) /\ outbox'[j] = outbox[j]
  BY <1>1, <1>2, <1>3, <1>5, HeldRow
<1>6. ASSUME NEW j \in Job, outbox'[j].status = "delivered"
      PROVE  outbox[j].status = "delivered"
  <2>1. j \notin batch
    BY <1>4, <1>6
  <2>2. Swept(j).status = "delivered"
    BY <1>1, <1>6, <2>1
  <2>. QED BY <2>2, SweptType DEF DInv, IInv
<1>. QED BY <1>1, <1>3, <1>4, <1>5, <1>6

LEMMA PollStep ==
  ASSUME DInv, IInv', NEW w \in Worker, NEW locked \in SUBSET Job, Poll(w, locked)
  PROVE  DInv'
<1>1. LeaseClock(0) /\ ClaimOutbox(w, locked) /\ ~Running(w) /\ UNCHANGED received
  BY DEF Poll, Claim, ClaimNothing
<1>2. /\ \A j \in Job : Granted(j) => /\ outbox'[j].status = "leased" /\ outbox'[j].live
                                      /\ outbox'[j].owner = w
                                      /\ outbox'[j].token = Len(leases'[j])
      /\ \A v \in Worker, j \in Job : InHand(v, j) => ~Granted(j) /\ outbox'[j] = outbox[j]
      /\ \A j \in Job : Len(leases'[j]) \in Nat
      /\ \A j \in Job : outbox'[j].status = "delivered" => outbox[j].status = "delivered"
      /\ leadStatus' = leadStatus
  BY <1>1, ClaimEffect
<1>3. StaysContacted
  BY <1>2 DEF StaysContacted
<1>4. DeliveredWasReceived'
  BY <1>1, <1>2 DEF DInv, DeliveredWasReceived
<1>5. leaseAge' \in [Job -> 0..LeaseTicks] /\ \A j \in Job : leaseAge'[j] <= leaseAge[j]
  BY <1>1, ClockStands DEF DInv
<1>6. CASE ClaimNothing(w, locked)
  <2>1. UNCHANGED <<run, hand, received>>
    BY <1>6 DEF ClaimNothing
  <2>2. DispatchTypeOK' /\ IdleHandsEmpty' /\ AcceptedWasReceived'
    BY <1>5, <2>1 DEF DInv, DispatchTypeOK, IdleHandsEmpty, AcceptedWasReceived, InHand, Running
  <2>3. \A v \in Worker, j \in Job : InHand(v, j)' => OldItem(v, j) /\ SameLease(j)
    BY <1>2, <2>1 DEF InHand, OldItem, SameLease
  <2>. QED BY <1>1, <1>3, <1>4, <2>2, <2>3, HandsStep
<1>7. CASE Claim(w, locked)
  <2>. DEFINE Item(j) == IF Granted(j) THEN [state |-> "claimed", token |-> Len(leases'[j])]
                         ELSE NoItem
  <2>1. /\ run' = [run EXCEPT ![w] = [phase |-> "authorize", age |-> 0]]
        /\ hand' = [hand EXCEPT ![w] = [j \in Job |-> Item(j)]]
    BY <1>7 DEF Claim
  <2>2. \A j \in Job : /\ Item(j) \in [state : ItemState, token : Nat]
                       /\ Item(j).state # "none" <=> Granted(j)
                       /\ Item(j).state # "accepted"
                       /\ Granted(j) => Item(j).token = Len(leases'[j])
    BY <1>2, EmptyTypes DEF ItemState
  <2>. HIDE DEF Item
  <2>3. /\ hand' \in [Worker -> [Job -> [state : ItemState, token : Nat]]]
        /\ \A v \in Worker : v # w => hand'[v] = hand[v]
        /\ \A j \in Job : hand'[w][j] = Item(j)
    BY <2>1, <2>2 DEF DInv, DispatchTypeOK
  <2>4. /\ run' \in [Worker -> [phase : Phase, age : 0..TimeoutTicks]]
        /\ \A v \in Worker : v # w => run'[v] = run[v]
        /\ run'[w].phase = "authorize" /\ run'[w].age = 0
    BY <2>1 DEF DInv, DispatchTypeOK, Phase
  <2>5. DispatchTypeOK'
    BY <1>1, <1>5, <2>3, <2>4 DEF DInv, DispatchTypeOK
  <2>6. HandsHold'
    <3>. SUFFICES ASSUME NEW v \in Worker, NEW j \in Job, InHand(v, j)'
                  PROVE  Held(v, j)' \/ Silent(j)'
      BY DEF HandsHold
    <3>1. CASE v = w
      <4>1. Granted(j) /\ hand'[w][j].token = Len(leases'[j])
        BY <2>2, <2>3, <3>1 DEF InHand
      <4>2. leaseAge'[j] = 0
        BY <1>1, <4>1 DEF LeaseClock
      <4>. QED BY <1>2, <2>4, <3>1, <4>1, <4>2 DEF Held, HoldsLease
    <3>2. CASE v # w
      <4>1. InHand(v, j) /\ hand'[v][j] = hand[v][j] /\ run'[v].age = run[v].age
        BY <2>3, <2>4, <3>2 DEF InHand
      <4>2. outbox'[j] = outbox[j] /\ leaseAge'[j] <= leaseAge[j]
        BY <1>2, <1>5, <4>1
      <4>3. CASE Held(v, j)
        <5>1. leaseAge[j] \in Nat /\ run[v].age \in Nat /\ leaseAge'[j] \in Nat
          BY <1>5, HandTypes, TicksAssumption DEF DInv
        <5>2. leaseAge'[j] <= run'[v].age
          BY <4>1, <4>2, <4>3, <5>1 DEF Held
        <5>. QED BY <4>1, <4>2, <4>3, <5>2 DEF Held, HoldsLease
      <4>4. CASE Silent(j)
        BY <1>3, <4>4, StaysSilent
      <4>. QED BY <4>1, <4>3, <4>4 DEF DInv, HandsHold
    <3>. QED BY <3>1, <3>2
  <2>7. OneHolder'
    <3>1. \A v \in Worker, j \in Job : InHand(v, j)' /\ v # w => InHand(v, j) /\ ~Granted(j)
      BY <1>2, <2>3 DEF InHand
    <3>2. \A j \in Job : InHand(w, j)' => Granted(j)
      BY <2>2, <2>3 DEF InHand
    <3>. QED BY <3>1, <3>2 DEF DInv, OneHolder
  <2>8. IdleHandsEmpty'
    BY <2>3, <2>4 DEF DInv, IdleHandsEmpty, InHand, Running
  <2>9. AcceptedWasReceived'
    <3>. SUFFICES ASSUME NEW v \in Worker, NEW j \in Job, hand'[v][j].state = "accepted"
                  PROVE  received[j] >= 1
      BY <1>1 DEF AcceptedWasReceived
    <3>1. hand'[v][j] = hand[v][j]
      BY <2>2, <2>3
    <3>. QED BY <3>1 DEF DInv, AcceptedWasReceived
  <2>. QED BY <1>4, <2>5, <2>6, <2>7, <2>8, <2>9 DEF DInv
<1>. QED BY <1>6, <1>7 DEF Poll

----------------------------------------------------------------------------
(* Time passes: no lease expires in the hands of an execution. *)

LEMMA MinuteEffect ==
  ASSUME DInv, Minute
  PROVE  /\ run' \in [Worker -> [phase : Phase, age : 0..TimeoutTicks]]
         /\ \A w \in Worker : run'[w].phase = run[w].phase
         /\ \A w \in Worker : Running(w) => run[w].age < TimeoutTicks /\ run'[w].age = run[w].age + 1
<1>. DEFINE Older(w) == [run[w] EXCEPT !.age = @ + 1]
<1>1. ASSUME NEW w \in Worker, Running(w)
      PROVE  /\ run[w].age < TimeoutTicks
             /\ Older(w) \in [phase : Phase, age : 0..TimeoutTicks]
             /\ Older(w).phase = run[w].phase /\ Older(w).age = run[w].age + 1
  <2>1. run[w] \in [phase : Phase, age : 0..TimeoutTicks] /\ run[w].age < TimeoutTicks
    BY <1>1 DEF DInv, DispatchTypeOK, Minute
  <2>2. Older(w) = [phase |-> run[w].phase, age |-> run[w].age + 1]
    BY <2>1
  <2>3. run[w].age + 1 \in 0..TimeoutTicks /\ run[w].phase \in Phase
    BY <2>1
  <2>. QED BY <2>1, <2>2, <2>3
<1>. HIDE DEF Older
<1>2. run' = [w \in Worker |-> IF Running(w) THEN Older(w) ELSE run[w]]
  BY DEF Minute, Older
<1>. QED BY <1>1, <1>2 DEF DInv, DispatchTypeOK

LEMMA TickStep ==
  ASSUME DInv, IInv', Tick
  PROVE  DInv'
<1>. DEFINE expiring == {j \in Job : HasLiveLease(j) /\ leaseAge[j] + 1 >= LeaseTicks}
<1>1. /\ run' \in [Worker -> [phase : Phase, age : 0..TimeoutTicks]]
      /\ \A w \in Worker : run'[w].phase = run[w].phase
      /\ \A w \in Worker : Running(w) => run[w].age < TimeoutTicks /\ run'[w].age = run[w].age + 1
      /\ UNCHANGED <<hand, received>>
  BY MinuteEffect DEF Tick, Minute
<1>2. /\ \A j \in Job : outbox'[j] = IF j \in expiring THEN [outbox[j] EXCEPT !.live = FALSE]
                                     ELSE outbox[j]
      /\ leadStatus' = leadStatus /\ leases' = leases
  <2>1. CASE expiring = {}
    BY <2>1 DEF Tick, vars
  <2>2. CASE LeasesExpire(expiring)
    BY <2>2 DEF LeasesExpire
  <2>. QED BY <2>1, <2>2 DEF Tick
<1>3. ASSUME NEW j \in Job
      PROVE  /\ outbox'[j].status = outbox[j].status /\ (outbox'[j].live => j \notin expiring)
             /\ ~Granted(j)
  <2>1. outbox[j] \in Row /\ Len(leases[j]) \in Nat
    BY DEF DInv, IInv, TypeOK
  <2>2. [outbox[j] EXCEPT !.live = FALSE].live = FALSE
        /\ [outbox[j] EXCEPT !.live = FALSE].status = outbox[j].status
    BY <2>1 DEF Row
  <2>3. outbox'[j].status = outbox[j].status
    BY <1>2, <2>2
  <2>4. CASE j \in expiring
    <3>1. outbox'[j].live = FALSE
      BY <1>2, <2>2, <2>4
    <3>. QED BY <1>2, <2>1, <2>3, <3>1 DEF Granted
  <2>5. CASE j \notin expiring
    BY <1>2, <2>1, <2>3, <2>5 DEF Granted
  <2>. QED BY <2>4, <2>5
<1>4. ASSUME NEW j \in Job
      PROVE  leaseAge'[j] \in 0..LeaseTicks /\ leaseAge'[j] <= leaseAge[j] + 1
  <2>1. leaseAge[j] \in 0..LeaseTicks
    BY DEF DInv, DispatchTypeOK
  <2>2. CASE outbox'[j].status = "leased" /\ outbox'[j].live
    <3>1. leaseAge'[j] = leaseAge[j] + 1
      BY <1>3, <2>2 DEF Tick, LeaseClock
    <3>2. HasLiveLease(j) /\ ~(leaseAge[j] + 1 >= LeaseTicks)
      <4>1. j \notin expiring /\ outbox'[j] = outbox[j]
        BY <1>2, <1>3, <2>2
      <4>. QED BY <2>2, <4>1 DEF HasLiveLease
    <3>. QED BY <2>1, <3>1, <3>2, TicksAssumption
  <2>3. CASE ~(outbox'[j].status = "leased" /\ outbox'[j].live)
    <3>1. leaseAge'[j] = 0
      BY <2>3 DEF Tick, LeaseClock
    <3>. QED BY <2>1, <3>1, TicksAssumption
  <2>. QED BY <2>2, <2>3
<1>5. DispatchTypeOK'
  <2>1. leaseAge' \in [Job -> 0..LeaseTicks]
    BY <1>4 DEF Tick, LeaseClock
  <2>. QED BY <1>1, <2>1 DEF DInv, DispatchTypeOK
<1>6. ASSUME NEW w \in Worker, NEW j \in Job, Held(w, j), Running(w)
      PROVE  Held(w, j)'
  <2>1. /\ leaseAge[j] \in Nat /\ run[w].age \in Nat /\ leaseAge'[j] \in Nat
        /\ leaseAge[j] <= run[w].age /\ run[w].age < TimeoutTicks
        /\ run'[w].age = run[w].age + 1 /\ leaseAge'[j] <= leaseAge[j] + 1
    BY <1>1, <1>4, <1>6, HandTypes DEF DInv, Held
  <2>2. ~(leaseAge[j] + 1 >= LeaseTicks) /\ leaseAge'[j] <= run'[w].age
    BY <2>1, TicksAssumption
  <2>3. outbox'[j] = outbox[j]
    BY <1>2, <2>2
  <2>. QED BY <1>1, <1>6, <2>2, <2>3 DEF Held, HoldsLease
<1>7. HandsHold'
  <2>. SUFFICES ASSUME NEW w \in Worker, NEW j \in Job, InHand(w, j)'
                PROVE  Held(w, j)' \/ Silent(j)'
    BY DEF HandsHold
  <2>1. InHand(w, j) /\ Running(w)
    BY <1>1 DEF InHand, DInv, IdleHandsEmpty
  <2>2. Silent(j) => Silent(j)'
    BY <1>2 DEF Silent
  <2>. QED BY <1>6, <2>1, <2>2 DEF DInv, HandsHold
<1>8. OneHolder' /\ IdleHandsEmpty' /\ AcceptedWasReceived'
  BY <1>1 DEF DInv, OneHolder, IdleHandsEmpty, AcceptedWasReceived, InHand, Running
<1>9. DeliveredWasReceived'
  BY <1>1, <1>3 DEF DInv, DeliveredWasReceived
<1>. QED BY <1>5, <1>7, <1>8, <1>9 DEF DInv

----------------------------------------------------------------------------
(* The database's other callers *)

LEMMA NewRowWaits ==
  NewRow.status = "pending"
BY DEF NewRow, EmptyRow

LEMMA InsertedKeeps ==
  ASSUME NEW row \in Row
  PROVE  /\ row.status = "leased" => InsertedOnce(row) = row
         /\ InsertedOnce(row).status = "delivered" => row.status = "delivered"
BY NewRowWaits DEF InsertedOnce, Exists

(* They leave a leased row alone, unless its request is contacted. *)
LEMMA ElsewhereEffect ==
  ASSUME IInv, Elsewhere
  PROVE  /\ leases' = leases /\ StaysContacted
         /\ \A j \in Job : outbox[j].status = "leased" => outbox'[j] = outbox[j] \/ Silent(j)'
         /\ \A j \in Job : outbox'[j].status = "delivered" => outbox[j].status = "delivered"
<1>. DEFINE Kind(j) == /\ outbox[j].status = "leased" => outbox'[j] = outbox[j] \/ Silent(j)'
                       /\ outbox'[j].status = "delivered" => outbox[j].status = "delivered"
            Goal == leases' = leases /\ StaysContacted /\ \A j \in Job : Kind(j)
<1>0. outbox \in [Job -> Row] /\ leadStatus \in [Lead -> {"none", "new", "contacted", "purged"}]
  BY DEF IInv, TypeOK
<1>1. ASSUME NEW l \in Lead, NEW r \in Route, NEW draft \in Drafted, IngestLead(l, r, draft)
      PROVE  Goal
  <2>1. \A j \in FirstDeliveries(l, r, draft) : j \in LeadJob /\ j[1] = l
    BY DEF FirstDeliveries, LeadJob, LeadKind
  <2>2. \A j \in FirstDeliveries(l, r, draft) : outbox[j].status = "none"
    BY <1>1, <2>1 DEF IngestLead, IInv, KeysAreFresh
  <2>3. \A j \in Job : Kind(j)
    BY <1>1, <2>2, NewRowWaits DEF IngestLead
  <2>4. StaysContacted
    BY <1>0, <1>1 DEF IngestLead, StaysContacted
  <2>. QED BY <1>1, <2>3, <2>4 DEF IngestLead
<1>2. ASSUME NEW l \in Lead, MarkLeadContacted(l) PROVE Goal
  <2>1. outbox' = [j \in Job |-> CancelledFor(l, j)] /\ leases' = leases
        /\ leadStatus' = [leadStatus EXCEPT ![l] = "contacted"]
    BY <1>2 DEF MarkLeadContacted
  <2>2. StaysContacted /\ leadStatus'[l] = "contacted"
    BY <1>0, <2>1 DEF StaysContacted
  <2>3. ASSUME NEW j \in Job PROVE Kind(j)
    <3>1. CASE j = AlertFor(l)
      <4>1. Silent(j)'
        BY <2>2, <3>1, AlertIsJob DEF Silent
      <4>2. Released(outbox[j], "cancelled").status = "cancelled"
        <5>1. outbox[j] \in Row /\ "cancelled" \in RowStatus
          BY <1>0 DEF RowStatus, Final
        <5>. QED BY <5>1, ReleasedType
      <4>3. outbox'[j].status = "cancelled" \/ outbox'[j] = outbox[j]
        BY <2>1, <4>2 DEF CancelledFor
      <4>. QED BY <4>1, <4>3
    <3>2. CASE j # AlertFor(l)
      BY <2>1, <3>2 DEF CancelledFor
    <3>. QED BY <3>1, <3>2
  <2>. QED BY <2>1, <2>2, <2>3
<1>3. ASSUME NEW l \in Lead, SlaFallsDue(l) PROVE Goal
  BY <1>3 DEF SlaFallsDue, StaysContacted
<1>4. ASSUME NEW locked \in SUBSET Lead, ScheduleDueFollowups(locked) PROVE Goal
  <2>1. \A j \in Job : outbox'[j] = InsertedOnce(outbox[j]) \/ outbox'[j] = outbox[j]
    BY <1>4 DEF ScheduleDueFollowups
  <2>2. \A j \in Job : Kind(j)
    BY <1>0, <2>1, InsertedKeeps
  <2>. QED BY <1>4, <2>2 DEF ScheduleDueFollowups, StaysContacted
<1>5. ASSUME NEW d \in Day, EnqueueDailyDigest(d) PROVE Goal
  <2>1. \A j \in Job : outbox'[j] = InsertedOnce(outbox[j]) \/ outbox'[j] = outbox[j]
    BY <1>0, <1>5 DEF EnqueueDailyDigest
  <2>2. \A j \in Job : Kind(j)
    BY <1>0, <2>1, InsertedKeeps
  <2>. QED BY <1>5, <2>2 DEF EnqueueDailyDigest, StaysContacted
<1>6. ASSUME NEW i \in Job, BackoffElapses(i) PROVE Goal
  <2>1. outbox[i].status = "pending" /\ outbox' = [outbox EXCEPT ![i] = [outbox[i] EXCEPT !.ready = TRUE]]
    BY <1>6 DEF BackoffElapses
  <2>2. [outbox[i] EXCEPT !.ready = TRUE].status = "pending"
    BY <1>0, <2>1 DEF Row
  <2>3. \A j \in Job : Kind(j)
    BY <1>0, <2>1, <2>2
  <2>. QED BY <1>6, <2>3 DEF BackoffElapses, StaysContacted
<1>. HIDE DEF Kind
<1>7. Goal
  BY <1>1, <1>2, <1>3, <1>4, <1>5, <1>6 DEF Elsewhere
<1>. QED BY <1>7 DEF Kind

LEMMA ElsewhereStep ==
  ASSUME DInv, IInv', Elsewhere, LeaseClock(0)
  PROVE  DInv'
<1>1. /\ leases' = leases /\ StaysContacted
      /\ \A j \in Job : outbox[j].status = "leased" => outbox'[j] = outbox[j] \/ Silent(j)'
      /\ \A j \in Job : outbox'[j].status = "delivered" => outbox[j].status = "delivered"
      /\ UNCHANGED <<run, hand, received>>
  BY ElsewhereEffect DEF DInv, Elsewhere
<1>2. DispatchTypeOK' /\ IdleHandsEmpty' /\ AcceptedWasReceived' /\ DeliveredWasReceived'
  BY <1>1, ClockStands
     DEF DInv, DispatchTypeOK, IdleHandsEmpty, AcceptedWasReceived, DeliveredWasReceived, InHand, Running
<1>3. \A j \in Job : ~Granted(j)
  <2>1. \A j \in Job : Len(leases[j]) \in Nat
    BY DEF DInv, IInv, TypeOK
  <2>. QED BY <1>1, <2>1 DEF Granted
<1>4. \A w \in Worker, j \in Job :
        InHand(w, j)' => OldItem(w, j) /\ (Held(w, j) => SameLease(j) \/ Silent(j)')
  BY <1>1, <1>3 DEF InHand, OldItem, Held, HoldsLease, SameLease
<1>. QED BY <1>1, <1>2, <1>4, HandsStep

----------------------------------------------------------------------------
(* The inductive invariant *)

LEMMA DInvInit == DispatchInit => DInv
<1>. SUFFICES ASSUME DispatchInit PROVE DInv
  OBVIOUS
<1>1. \A w \in Worker, j \in Job : hand[w][j].state = "none"
  BY EmptyTypes DEF DispatchInit
<1>2. DispatchTypeOK
  BY EmptyTypes, TicksAssumption DEF DispatchInit, DispatchTypeOK
<1>3. \A j \in Job : outbox[j].status = "none"
  BY DEF DispatchInit, Init, EmptyRow
<1>. QED BY <1>1, <1>2, <1>3, IInvInit
         DEF DispatchInit, DInv, HandsHold, OneHolder, IdleHandsEmpty, AcceptedWasReceived,
             DeliveredWasReceived, InHand

LEMMA DInvStep == DInv /\ [DispatchNext]_allVars => DInv'
<1>. SUFFICES ASSUME DInv, [DispatchNext]_allVars PROVE DInv'
  OBVIOUS
<1>1. IInv'
  BY InvBelow
<1>2. ASSUME NEW w \in Worker, Execution(w) PROVE DInv'
  <2>1. LeaseClock(0) /\ ExecutionStep(w)
    BY <1>2 DEF Execution
  <2>2. CASE Finish(w) \/ RecordRaises(w)
    BY <2>1, <2>2, EndStep DEF Finish, RecordRaises
  <2>3. CASE Advance(w)
    BY <2>1, <2>3, AdvanceStep
  <2>4. ASSUME NEW j \in Job, Authorize(w, j) \/ Send(w, j) \/ RecordSuccess(w, j) \/ RecordFailure(w, j)
        PROVE  DInv'
    BY <1>1, <2>1, <2>4, AuthorizeStep, SendStep, RecordStep
  <2>. QED BY <2>1, <2>2, <2>3, <2>4 DEF ExecutionStep
<1>3. ASSUME NEW w \in Worker, Crash(w), LeaseClock(0) PROVE DInv'
  BY <1>3, EndStep DEF Crash
<1>4. ASSUME NEW w \in Worker, NEW locked \in SUBSET Job, Poll(w, locked) PROVE DInv'
  BY <1>1, <1>4, PollStep
<1>5. CASE Tick
  BY <1>1, <1>5, TickStep
<1>6. CASE Elsewhere /\ LeaseClock(0)
  BY <1>1, <1>6, ElsewhereStep
<1>7. CASE UNCHANGED allVars
  <2>1. DispatchTypeOK' /\ HandsHold' /\ OneHolder' /\ IdleHandsEmpty'
    BY <1>7 DEF allVars, vars, dispatchVars, DInv, DispatchTypeOK, HandsHold, OneHolder,
                IdleHandsEmpty, Held, HoldsLease, Silent, InHand, Running
  <2>2. AcceptedWasReceived' /\ DeliveredWasReceived'
    BY <1>7 DEF allVars, vars, dispatchVars, DInv, AcceptedWasReceived, DeliveredWasReceived
  <2>. QED BY <1>1, <2>1, <2>2 DEF DInv
<1>. QED BY <1>2, <1>3, <1>4, <1>5, <1>6, <1>7 DEF DispatchNext

LEMMA DInvAlways == DispatchSpec => []DInv
BY DInvInit, DInvStep, PTL DEF DispatchSpec

(* Executions, leases and copies keep their types: no execution outlives   *)
(* its limit and no lease its five minutes.                                *)
THEOREM DispatchTypeCorrect == DispatchSpec => []DispatchTypeOK
<1>1. DInv => DispatchTypeOK
  BY DEF DInv
<1>. QED BY <1>1, DInvAlways, PTL

(* Whatever the executions do, the database below them behaves as          *)
(* RelayOutbox says: every theorem about Spec holds under the dispatcher.  *)
THEOREM DispatcherKeepsRelay == DispatchSpec => Spec
<1>1. DispatchInit => Init
  BY DEF DispatchInit
<1>2. DInv /\ [DispatchNext]_allVars => [Next]_vars
  BY StepBelow DEF DInv
<1>. QED BY <1>1, <1>2, DInvAlways, PTL DEF DispatchSpec, Spec

(* A running execution still holds the lease of every item it has, unless  *)
(* the item is an alert whose request was contacted meanwhile.             *)
THEOREM LeaseOutlivesExecutionHolds == DispatchSpec => []LeaseOutlivesExecution
<1>1. DInv => LeaseOutlivesExecution
  BY DEF DInv, HandsHold, Held, Silent, LeaseOutlivesExecution
<1>. QED BY <1>1, DInvAlways, PTL

(* No row is in the hands of two executions. *)
THEOREM OneHolderHolds == DispatchSpec => []OneHolder
<1>1. DInv => OneHolder
  BY DEF DInv
<1>. QED BY <1>1, DInvAlways, PTL

(* What the outbox records as delivered reached the provider. *)
THEOREM DeliveredWasReceivedHolds == DispatchSpec => []DeliveredWasReceived
<1>1. DInv => DeliveredWasReceived
  BY DEF DInv
<1>. QED BY <1>1, DInvAlways, PTL

----------------------------------------------------------------------------
(* Alerts after a contact *)

(* Only a granted authorization puts an item among those to send. *)
LEMMA AllowedStep ==
  ASSUME DInv, [DispatchNext]_allVars, NEW w \in Worker, NEW j \in Job,
         hand'[w][j].state = "allowed", hand[w][j].state # "allowed"
  PROVE  ~AlertStale(j)
<1>1. hand' # hand
  OBVIOUS
<1>2. ASSUME NEW v \in Worker, End(v) PROVE FALSE
  <2>1. hand'[w] = hand[w] \/ hand'[w] = EmptyHand
    BY <1>2 DEF End, DInv, DispatchTypeOK
  <2>. QED BY <2>1, EmptyTypes
<1>3. ASSUME NEW v \in Worker, NEW k \in Job, Dropped(v, k) PROVE FALSE
  BY <1>3, ItemDropped DEF DInv
<1>4. ASSUME NEW v \in Worker, NEW k \in Job, Authorize(v, k) PROVE ~AlertStale(j)
  <2>1. MayGoOut(k, hand[v][k].token) /\ NowItem(v, k, "allowed")
    BY <1>3, <1>4 DEF Authorize
  <2>2. v = w /\ k = j
    BY <2>1, ItemMoves DEF DInv, ItemState
  <2>. QED BY <2>1, <2>2 DEF MayGoOut
<1>5. ASSUME NEW v \in Worker, NEW k \in Job, Send(v, k) PROVE FALSE
  <2>1. PICK s \in {"accepted", "refused"} : NowItem(v, k, s)
    BY <1>5 DEF Send
  <2>2. s \in ItemState
    BY DEF ItemState
  <2>3. v # w \/ k # j => hand'[w][j] = hand[w][j]
    BY <2>1, <2>2, ItemMoves DEF DInv
  <2>4. hand'[v][k].state = s
    BY <2>1, <2>2, ItemMoves DEF DInv
  <2>. QED BY <2>3, <2>4
<1>6. ASSUME NEW v \in Worker, ExecutionStep(v) PROVE ~AlertStale(j)
  <2>1. ASSUME NEW k \in Job, RecordSuccess(v, k) \/ RecordFailure(v, k) PROVE FALSE
    BY <1>3, <2>1 DEF RecordSuccess, RecordFailure
  <2>2. CASE Advance(v) \/ Finish(v) \/ RecordRaises(v)
    BY <1>1, <1>2, <2>2 DEF Advance, Finish, RecordRaises
  <2>. QED BY <1>4, <1>5, <1>6, <2>1, <2>2 DEF ExecutionStep
<1>7. ASSUME NEW v \in Worker, NEW locked \in SUBSET Job, Poll(v, locked) PROVE FALSE
  <2>1. Claim(v, locked)
    BY <1>1, <1>7 DEF Poll, ClaimNothing
  <2>2. hand' = [hand EXCEPT ![v] =
                   [k \in Job |-> IF Granted(k) THEN [state |-> "claimed", token |-> Len(leases'[k])]
                                  ELSE NoItem]]
    BY <2>1 DEF Claim
  <2>. QED BY <2>2, EmptyTypes DEF DInv, DispatchTypeOK
<1>8. CASE Tick \/ Elsewhere \/ UNCHANGED allVars
  BY <1>1, <1>8 DEF Tick, Minute, Elsewhere, allVars, dispatchVars
<1>. QED BY <1>2, <1>6, <1>7, <1>8 DEF DispatchNext, Execution, Crash

(* Only items among those to send reach the provider. *)
LEMMA ReceivedStep ==
  ASSUME DInv, [DispatchNext]_allVars, NEW j \in Job,
         \A w \in Worker : hand[w][j].state # "allowed"
  PROVE  received'[j] = received[j]
<1>1. ASSUME NEW v \in Worker, NEW k \in Job, Send(v, k) PROVE received'[j] = received[j]
  <2>1. k # j
    BY <1>1 DEF Send, Waiting
  <2>2. PICK n : received' = [received EXCEPT ![k] = n]
    BY <1>1 DEF Send
  <2>. QED BY <2>1, <2>2 DEF DInv, DispatchTypeOK
<1>2. ASSUME NEW v \in Worker, ExecutionStep(v) PROVE received'[j] = received[j]
  BY <1>1, <1>2
     DEF ExecutionStep, Advance, Finish, RecordRaises, End, Authorize, RecordSuccess, RecordFailure
<1>3. ASSUME NEW v \in Worker, NEW locked \in SUBSET Job, Poll(v, locked)
      PROVE  received'[j] = received[j]
  BY <1>3 DEF Poll, Claim, ClaimNothing
<1>4. CASE Tick \/ Elsewhere \/ UNCHANGED allVars
  BY <1>4 DEF Tick, Minute, Elsewhere, allVars, dispatchVars
<1>. QED BY <1>2, <1>3, <1>4 DEF DispatchNext, Execution, Crash, End

(* Once a request is contacted and no authorized alert of it is in hand,   *)
(* no alert of it is authorized or sent again.                             *)
THEOREM AlertQuietAfterContactHolds == DispatchSpec => AlertQuietAfterContact
<1>1. ASSUME DInv, [DispatchNext]_allVars, NEW l \in Lead,
             leadStatus[l] = "contacted", ~AlertInFlight(l)
      PROVE  ~AlertInFlight(l)' /\ received'[AlertFor(l)] = received[AlertFor(l)]
  <2>1. AlertFor(l) \in Job /\ AlertStale(AlertFor(l))
    BY <1>1, AlertIsJob DEF AlertStale
  <2>2. \A w \in Worker : hand[w][AlertFor(l)].state # "allowed"
    BY <1>1 DEF AlertInFlight
  <2>3. \A w \in Worker : hand'[w][AlertFor(l)].state # "allowed"
    BY <1>1, <2>1, <2>2, AllowedStep
  <2>4. received'[AlertFor(l)] = received[AlertFor(l)]
    BY <1>1, <2>1, <2>2, ReceivedStep
  <2>. QED BY <2>3, <2>4 DEF AlertInFlight, AlertFor
<1>2. DInv /\ [DispatchNext]_allVars =>
        [\A l \in Lead :
           (leadStatus[l] = "contacted" /\ ~AlertInFlight(l))
             => ~AlertInFlight(l)' /\ received'[AlertFor(l)] = received[AlertFor(l)]]_allVars
  BY <1>1
<1>. QED BY <1>2, DInvAlways, PTL DEF DispatchSpec, AlertQuietAfterContact
=============================================================================
