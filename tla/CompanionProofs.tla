--------------------------- MODULE CompanionProofs ---------------------------
(***************************************************************************)
(* Proofs about Companion, for any number of callers and watchers, any     *)
(* limit and any timeouts: type correctness, that no slot leaks or is      *)
(* returned twice, that a stop forgets no engine process, that answers are *)
(* fresh, and that probes do not pile up.                                  *)
(***************************************************************************)
EXTENDS Companion, FiniteSetTheorems, TLAPS

Busy == {"engine", "version", "validate"}
Slots == {c \in Caller : stage[c] \in {"body", "engine"}}

(* The set of children has those that live, one per handler that waits for
   its own. *)
ActiveIsLive == activeChildren = {h \in Handler : Live(h)}
LiveIsBusy == \A h \in Handler : Live(h) <=> stage[h] \in Busy

(* Callers and watchers keep to their own path, and who runs a probe awaits it. *)
OwnPath ==
  /\ \A c \in Caller : stage[c] \in {"idle", "body", "engine"}
  /\ \A w \in Watcher : stage[w] \in {"idle", "version", "validate", "await"}
RunnerAwaits == \A w \in Watcher : stage[w] \in {"version", "validate"} => joined[w] = w

(* Only children started after the stop signal still run. *)
StoppedChildren ==
  server = "stopping" =>
    \A h \in Handler : child[h].fate = "running" => child[h].age <= stopAge

(* What each engine that an exit leaves is: killed, or started after the stop
   signal for a client that has gone. *)
EachAccounted ==
  /\ server = "killed" => \A h \in Handler : child[h].fate \in {"none", "killed"}
  /\ server = "exited" =>
       \A h \in Handler : child[h].fate = "running" =>
                           client[h] = "left" /\ child[h].age <= stopAge

IInv ==
  /\ CompanionTypeOK
  /\ ActiveIsLive /\ LiveIsBusy /\ OwnPath /\ RunnerAwaits
  /\ SlotsExact
  /\ StoppedChildren /\ EachAccounted
-----------------------------------------------------------------------------
(* Types *)

LEMMA ChildTypes ==
  /\ NoChild \in Child
  /\ engine \in Engines => Spawned \in Child
  /\ \A k \in Child, f \in Fate : [k EXCEPT !.fate = f] \in Child
BY LimitAssumption, EngineAssumption DEF NoChild, Spawned, Child, Fate, Good, Engine

LEMMA AtMostType ==
  ASSUME NEW limit \in Nat, NEW n \in 0..limit
  PROVE  /\ n \in 0..limit /\ AtMost(n + 1, limit) \in 0..limit
         /\ n # limit => AtMost(n + 1, limit) = n + 1
         /\ AtMost(n + 1, limit) <= n + 1
BY DEF AtMost

LEMMA HandlerKinds ==
  /\ \A c \in Caller : c \in Handler /\ c \notin Watcher
  /\ \A w \in Watcher : w \in Handler /\ w \notin Caller
BY HandlerAssumption DEF Handler

(* What a child's promise settles to. *)
LEMMA SettledType ==
  ASSUME NEW h \in Handler
  PROVE  Settled(h) \subseteq {"pinned", "other", "failed", "refused", "ok", "timeout"}
BY DEF Settled, Printed, Compatible

LEMMA LimitTypes ==
  /\ ProcessTimeout \in Nat /\ ReadinessCache \in Nat /\ ShutdownTimeout \in Nat
  /\ Longest \in Nat /\ MaxConcurrent \in Nat
  /\ 0 \in 0..ProcessTimeout /\ 0 \in 0..ReadinessCache /\ 0 \in 0..ShutdownTimeout
  /\ 0 \in 0..Longest /\ 0 \in 0..MaxConcurrent /\ ReadinessCache \in 0..ReadinessCache
BY LimitAssumption DEF Longest

LEMMA InitType == Init => CompanionTypeOK
<1>. SUFFICES ASSUME Init PROVE CompanionTypeOK
  OBVIOUS
<1>1. child \in [Handler -> Child] /\ engine \in Engines
  BY ChildTypes, EngineAssumption DEF Init
<1>2. /\ stopAge \in 0..ShutdownTimeout /\ inFlight \in 0..MaxConcurrent
      /\ checkedAge \in 0..ReadinessCache
      /\ sincePinned \in 0..Longest /\ sinceValid \in 0..Longest
  BY LimitTypes DEF Init
<1>3. /\ stage \in [Handler -> Stage] /\ client \in [Handler -> {"waiting", "left"}]
      /\ activeChildren \subseteq Handler
      /\ joined \in [Watcher -> Watcher \union {Nobody}] /\ seen \in [Watcher -> Version]
  BY DEF Init, Stage, Version
<1>4. /\ readinessPromise \in [by : Watcher \union {Nobody}, value : Outcome]
      /\ reply \in Status /\ server \in {"up", "stopping", "exited", "killed"}
  BY DEF Init, Outcome, Status
<1>. QED BY <1>1, <1>2, <1>3, <1>4 DEF CompanionTypeOK
-----------------------------------------------------------------------------
(* Slots *)

LEMMA SlotsFinite == IsFiniteSet(Slots) /\ Cardinality(Slots) \in Nat
<1>1. IsFiniteSet(Caller) /\ Slots \in SUBSET Caller
  BY HandlerAssumption, FS_Subset DEF Handler, Slots
<1>2. IsFiniteSet(Slots)
  BY <1>1, FS_Subset
<1>. QED BY <1>2, FS_CardinalityType

LEMMA SlotTaken ==
  ASSUME SlotsExact, NEW c \in Caller, c \notin Slots, Slots' = Slots \union {c},
         inFlight' = inFlight + 1
  PROVE  SlotsExact'
<1>1. Cardinality(Slots') = Cardinality(Slots) + 1
  BY SlotsFinite, FS_AddElement
<1>. QED BY <1>1 DEF SlotsExact, Slots

LEMMA SlotReturned ==
  ASSUME SlotsExact, NEW c \in Slots, Slots' = Slots \ {c}, inFlight' = inFlight - 1
  PROVE  SlotsExact' /\ inFlight > 0
<1>1. Cardinality(Slots') = Cardinality(Slots) - 1
  BY SlotsFinite, FS_RemoveElement
<1>2. Cardinality(Slots) # 0
  BY SlotsFinite, FS_EmptySet
<1>. QED BY <1>1, <1>2, SlotsFinite DEF SlotsExact, Slots

LEMMA SlotsKept ==
  ASSUME SlotsExact, Slots' = Slots, inFlight' = inFlight
  PROVE  SlotsExact'
BY DEF SlotsExact, Slots

(* The finally block: a request in a slot gives it back. *)
LEMMA ReleaseStep ==
  ASSUME IInv, NEW c \in Caller, stage[c] \in {"body", "engine"},
         NEW status \in Status, Release(c, status)
  PROVE  /\ SlotsExact'
         /\ inFlight' \in 0..MaxConcurrent /\ reply' \in Status
         /\ stage' \in [Handler -> Stage]
         /\ client' \in [Handler -> {"waiting", "left"}]
<1>. USE DEF IInv
<1>1. c \in Slots /\ Slots' = Slots \ {c}
  BY HandlerKinds DEF Slots, Release, CompanionTypeOK, Handler
<1>2. SlotsExact' /\ inFlight > 0
  BY <1>1, SlotReturned DEF Release
<1>3. inFlight' \in 0..MaxConcurrent
  BY <1>2, LimitTypes DEF Release, CompanionTypeOK
<1>. QED BY <1>2, <1>3, HandlerKinds DEF Release, CompanionTypeOK, Stage, Status
-----------------------------------------------------------------------------
(* Every step keeps the invariant *)

LEMMA ServingAccounts == server' \in {"up", "stopping"} => EachAccounted'
BY DEF EachAccounted

(* The invariant without slots and exits: what most steps can disturb. *)
Children == ActiveIsLive /\ LiveIsBusy /\ OwnPath /\ RunnerAwaits /\ StoppedChildren

LEMMA QualifyStep ==
  ASSUME IInv, NEW c \in Caller, NEW r \in Request, Qualify(c, r)
  PROVE  IInv'
<1>. USE DEF IInv
<1>1. EachAccounted' /\ Verdict(r) \in Status \union {"admitted"}
  BY ServingAccounts DEF Qualify, Serving, lifecycle, Verdict, Status
<1>2. CASE Verdict(r) = "admitted"
  <2>1. ~Full /\ inFlight' = inFlight + 1
    BY <1>2 DEF Qualify, Verdict, Request
  <2>2. inFlight' \in 0..MaxConcurrent
    BY <2>1, LimitTypes DEF Full, CompanionTypeOK
  <2>3. c \notin Slots /\ Slots' = Slots \union {c}
    BY <1>2, HandlerKinds DEF Qualify, Slots, CompanionTypeOK
  <2>4. SlotsExact'
    BY <2>1, <2>3, SlotTaken
  <2>5. CompanionTypeOK'
    BY <1>2, <2>2, HandlerKinds
       DEF Qualify, CompanionTypeOK, Stage, Status, readiness, lifecycle, world
  <2>6. Children'
    BY <1>2, HandlerKinds DEF Qualify, Children, ActiveIsLive, LiveIsBusy, OwnPath, RunnerAwaits,
                              StoppedChildren, Live, Busy, CompanionTypeOK, readiness, lifecycle
  <2>. QED BY <1>1, <2>4, <2>5, <2>6 DEF Children
<1>3. CASE Verdict(r) # "admitted"
  <2>1. /\ UNCHANGED <<stage, inFlight, child, activeChildren, client, readiness, lifecycle, world>>
        /\ reply' \in Status
    BY <1>1, <1>3 DEF Qualify
  <2>2. SlotsExact'
    BY <2>1 DEF SlotsExact
  <2>3. CompanionTypeOK'
    BY <2>1 DEF CompanionTypeOK, readiness, lifecycle, world
  <2>4. Children'
    BY <2>1 DEF Children, ActiveIsLive, LiveIsBusy, OwnPath, RunnerAwaits, StoppedChildren, Live,
                readiness, lifecycle
  <2>. QED BY <1>1, <2>2, <2>3, <2>4 DEF Children
<1>. QED BY <1>2, <1>3

LEMMA BodyStep ==
  ASSUME IInv, NEW c \in Caller, BodyEnds(c) \/ BodyAborts(c)
  PROVE  IInv'
<1>. USE DEF IInv
<1>1. EachAccounted' /\ stage[c] = "body" /\ UNCHANGED <<readiness, lifecycle, world>>
  BY ServingAccounts DEF BodyEnds, BodyAborts, Serving, lifecycle
<1>2. ASSUME NEW status \in Status, Release(c, status), UNCHANGED <<child, activeChildren>>
      PROVE  IInv'
  <2>1. /\ SlotsExact' /\ inFlight' \in 0..MaxConcurrent /\ reply' \in Status
        /\ stage' \in [Handler -> Stage] /\ client' \in [Handler -> {"waiting", "left"}]
    BY <1>1, <1>2, ReleaseStep
  <2>2. CompanionTypeOK'
    BY <1>1, <1>2, <2>1 DEF CompanionTypeOK, readiness, lifecycle, world
  <2>3. Children'
    BY <1>1, <1>2, HandlerKinds
       DEF Release, Children, ActiveIsLive, LiveIsBusy, OwnPath, RunnerAwaits, StoppedChildren,
           Live, Busy, CompanionTypeOK, readiness, lifecycle
  <2>. QED BY <1>1, <2>1, <2>2, <2>3 DEF Children
<1>3. CASE /\ stage' = [stage EXCEPT ![c] = "engine"]
           /\ child' = [child EXCEPT ![c] = Spawned]
           /\ activeChildren' = activeChildren \union {c}
           /\ reply' = "none"
           /\ UNCHANGED <<client, inFlight>>
  <2>1. Slots' = Slots
    BY <1>1, <1>3, HandlerKinds DEF Slots, CompanionTypeOK
  <2>2. CompanionTypeOK'
    BY <1>1, <1>3, HandlerKinds, ChildTypes
       DEF CompanionTypeOK, Stage, Status, readiness, lifecycle, world
  <2>3. Children'
    BY <1>1, <1>3, HandlerKinds, ChildTypes
       DEF Spawned, Children, ActiveIsLive, LiveIsBusy, OwnPath, RunnerAwaits, StoppedChildren,
           Live, Busy, CompanionTypeOK, readiness, lifecycle
  <2>. QED BY <1>1, <1>3, <2>1, <2>2, <2>3, SlotsKept DEF Children
<1>. QED BY <1>2, <1>3 DEF BodyEnds, BodyAborts, Status

LEMMA PolicyStep ==
  ASSUME IInv, NEW c \in Caller, PolicyAnswers(c)
  PROVE  IInv'
<1>. USE DEF IInv
<1>1. EachAccounted' /\ stage[c] = "engine" /\ UNCHANGED <<readiness, lifecycle, world>>
  BY ServingAccounts DEF PolicyAnswers, Serving, lifecycle
<1>2. PICK result \in Settled(c) : Release(c, IF result = "failed" THEN "unavailable" ELSE result)
  BY DEF PolicyAnswers
<1>3. (IF result = "failed" THEN "unavailable" ELSE result) \in Status
  BY <1>1, <1>2 DEF Settled, Printed, Compatible, Status
<1>4. /\ SlotsExact' /\ inFlight' \in 0..MaxConcurrent /\ reply' \in Status
      /\ stage' \in [Handler -> Stage] /\ client' \in [Handler -> {"waiting", "left"}]
  BY <1>1, <1>2, <1>3, ReleaseStep
<1>5. CompanionTypeOK'
  BY <1>1, <1>4, HandlerKinds, ChildTypes
     DEF PolicyAnswers, Closed, CompanionTypeOK, readiness, lifecycle, world
<1>6. Children'
  BY <1>1, <1>2, HandlerKinds
     DEF PolicyAnswers, Closed, NoChild, Release, Children, ActiveIsLive, LiveIsBusy, OwnPath,
         RunnerAwaits, StoppedChildren, Live, Busy, CompanionTypeOK, readiness, lifecycle
<1>. QED BY <1>1, <1>4, <1>5, <1>6 DEF Children

(* A client that leaves, a timer, an output that is too long. *)
LEMMA EventStep ==
  ASSUME IInv, NEW h \in Handler, ClientLeaves(h) \/ TimerFires(h) \/ OutputExceeds(h)
  PROVE  IInv'
<1>. USE DEF IInv
<1>1. EachAccounted' /\ UNCHANGED <<stage, activeChildren, inFlight, readiness, lifecycle, world>>
  BY ServingAccounts
     DEF ClientLeaves, TimerFires, OutputExceeds, Serving, lifecycle, process
<1>2. SlotsExact'
  BY <1>1 DEF SlotsExact
<1>3. CASE ClientLeaves(h)
  <2>1. CompanionTypeOK'
    BY <1>1, <1>3 DEF ClientLeaves, CompanionTypeOK, Status, process, readiness, lifecycle, world
  <2>2. Children'
    BY <1>1, <1>3
       DEF ClientLeaves, Children, ActiveIsLive, LiveIsBusy, OwnPath, RunnerAwaits,
           StoppedChildren, Live, process, readiness, lifecycle
  <2>. QED BY <1>1, <1>2, <2>1, <2>2 DEF Children
<1>4. CASE TimerFires(h) \/ OutputExceeds(h)
  <2>1. PICK f \in Fate \ {"none", "running"} :
          child[h].fate # "none" /\ child' = [child EXCEPT ![h].fate = f]
    BY <1>4 DEF TimerFires, OutputExceeds, Live, Fate
  <2>2. CompanionTypeOK'
    BY <1>1, <1>4, <2>1, ChildTypes
       DEF TimerFires, OutputExceeds, CompanionTypeOK, Status, readiness, lifecycle, world
  <2>3. Children'
    BY <1>1, <2>1
       DEF Children, ActiveIsLive, LiveIsBusy, OwnPath, RunnerAwaits, StoppedChildren, Live,
           CompanionTypeOK, Child, readiness, lifecycle
  <2>. QED BY <1>1, <1>2, <2>2, <2>3 DEF Children
<1>. QED BY <1>3, <1>4

LEMMA ReadyzStep ==
  ASSUME IInv, NEW w \in Watcher, Readyz(w)
  PROVE  IInv'
<1>. USE DEF IInv
<1>1. EachAccounted' /\ stage[w] = "idle" /\ UNCHANGED <<client, inFlight, lifecycle, world>>
  BY ServingAccounts DEF Readyz, Serving, lifecycle
<1>2. ASSUME UNCHANGED <<process, readiness>>, reply' \in Status
      PROVE  IInv'
  <2>1. CompanionTypeOK'
    BY <1>1, <1>2 DEF CompanionTypeOK, process, readiness, lifecycle, world
  <2>2. Children' /\ SlotsExact'
    BY <1>1, <1>2 DEF Children, ActiveIsLive, LiveIsBusy, OwnPath, RunnerAwaits,
                      StoppedChildren, Live, SlotsExact, process, readiness, lifecycle
  <2>. QED BY <1>1, <2>1, <2>2 DEF Children
<1>3. CASE JoinProbe(w)
  <2>1. Slots' = Slots
    BY <1>3, HandlerKinds DEF JoinProbe, Slots, CompanionTypeOK
  <2>2. CompanionTypeOK'
    BY <1>1, <1>3, HandlerKinds DEF JoinProbe, CompanionTypeOK, Stage, Status, lifecycle, world
  <2>3. Children'
    BY <1>1, <1>3, HandlerKinds
       DEF JoinProbe, Children, ActiveIsLive, LiveIsBusy, OwnPath, RunnerAwaits, StoppedChildren,
           Live, Busy, CompanionTypeOK, lifecycle
  <2>. QED BY <1>1, <2>1, <2>2, <2>3, SlotsKept DEF Children
<1>4. CASE StartProbe(w)
  <2>1. Slots' = Slots
    BY <1>4, HandlerKinds DEF StartProbe, Slots, CompanionTypeOK
  <2>2. CompanionTypeOK'
    BY <1>1, <1>4, HandlerKinds, ChildTypes, LimitTypes
       DEF StartProbe, CompanionTypeOK, Stage, Status, Outcome, lifecycle, world
  <2>3. Children'
    BY <1>1, <1>4, HandlerKinds
       DEF StartProbe, Spawned, Children, ActiveIsLive, LiveIsBusy, OwnPath, RunnerAwaits,
           StoppedChildren, Live, Busy, CompanionTypeOK, lifecycle
  <2>. QED BY <1>1, <2>1, <2>2, <2>3, SlotsKept DEF Children
<1>. QED BY <1>2, <1>3, <1>4 DEF Readyz, TakeSettled, Status

(* A probe that settles frees all who await it, and no other child's owner. *)
LEMMA SettlingStep ==
  ASSUME IInv, NEW w \in Watcher, stage[w] \in {"version", "validate"},
         NEW value \in Outcome, ProbeSettles(w, value), Closed(w), Serving,
         UNCHANGED <<inFlight, checkedAge, lifecycle, world>>
  PROVE  IInv'
<1>. USE DEF IInv
<1>1. EachAccounted'
  BY ServingAccounts DEF Serving, lifecycle
<1>2. w \in Waiters(w) /\ Waiters(w) \subseteq Watcher
      /\ \A v \in Waiters(w) : v # w => stage[v] \notin {"version", "validate"}
  BY DEF Waiters, RunnerAwaits
<1>3. Slots' = Slots
  BY <1>2, HandlerKinds DEF ProbeSettles, Slots, CompanionTypeOK
<1>4. CompanionTypeOK'
  BY <1>2, HandlerKinds, ChildTypes
     DEF ProbeSettles, Closed, CompanionTypeOK, Stage, Status, Version, lifecycle, world
<1>5. Children'
  <2>1. \A h \in Handler : Live(h)' <=> h # w /\ Live(h)
    BY HandlerKinds DEF Closed, Live, NoChild, CompanionTypeOK
  <2>2. \A h \in Handler : stage'[h] \in Busy <=> h # w /\ stage[h] \in Busy
    BY <1>2, HandlerKinds DEF ProbeSettles, OwnPath, Busy
  <2>3. ActiveIsLive' /\ LiveIsBusy'
    BY <2>1, <2>2 DEF Closed, ActiveIsLive, LiveIsBusy
  <2>4. OwnPath'
    BY <1>2, HandlerKinds DEF ProbeSettles, OwnPath
  <2>5. RunnerAwaits'
    BY <1>2, HandlerKinds DEF ProbeSettles, RunnerAwaits
  <2>6. StoppedChildren'
    BY HandlerKinds DEF Closed, NoChild, StoppedChildren, CompanionTypeOK, lifecycle
  <2>. QED BY <2>3, <2>4, <2>5, <2>6 DEF Children
<1>. QED BY <1>1, <1>3, <1>4, <1>5, SlotsKept DEF Children

LEMMA ProbeStep ==
  ASSUME IInv, NEW w \in Watcher, VersionCloses(w) \/ ValidationCloses(w)
  PROVE  IInv'
<1>. USE DEF IInv
<1>1. CASE VersionCloses(w)
  <2>1. PICK result \in Settled(w) :
          IF result \in {"pinned", "other"}
          THEN /\ stage' = [stage EXCEPT ![w] = "validate"]
               /\ seen' = [seen EXCEPT ![w] = result]
               /\ child' = [child EXCEPT ![w] = Spawned]
               /\ reply' = "none"
               /\ UNCHANGED <<activeChildren, client, readinessPromise, joined>>
          ELSE ProbeSettles(w, "failed") /\ Closed(w)
    BY <1>1 DEF VersionCloses
  <2>2. /\ Serving /\ stage[w] = "version"
        /\ UNCHANGED <<inFlight, checkedAge, lifecycle, world>>
    BY <1>1 DEF VersionCloses
  <2>3. CASE result \in {"pinned", "other"}
    <3>1. EachAccounted'
      BY <2>2, ServingAccounts DEF Serving, lifecycle
    <3>2. Slots' = Slots
      BY <2>1, <2>3, HandlerKinds DEF Slots, CompanionTypeOK
    <3>3. CompanionTypeOK'
      BY <2>1, <2>2, <2>3, HandlerKinds, ChildTypes
         DEF CompanionTypeOK, Stage, Status, Version, lifecycle, world
    <3>4. Children'
      BY <2>1, <2>2, <2>3, HandlerKinds
         DEF Spawned, Children, ActiveIsLive, LiveIsBusy, OwnPath, RunnerAwaits,
             StoppedChildren, Live, Busy, CompanionTypeOK, lifecycle
    <3>. QED BY <2>2, <3>1, <3>2, <3>3, <3>4, SlotsKept DEF Children
  <2>4. CASE result \notin {"pinned", "other"}
    BY <2>1, <2>2, <2>4, SettlingStep DEF Outcome
  <2>. QED BY <2>3, <2>4
<1>2. CASE ValidationCloses(w)
  <2>1. PICK result \in Settled(w) :
          ProbeSettles(w, IF result = "refused" THEN seen[w] ELSE "failed")
    BY <1>2 DEF ValidationCloses
  <2>2. (IF result = "refused" THEN seen[w] ELSE "failed") \in Outcome
    BY DEF CompanionTypeOK, Version, Outcome
  <2>. QED BY <1>2, <2>1, <2>2, SettlingStep DEF ValidationCloses
<1>. QED BY <1>1, <1>2

LEMMA ShutdownStep ==
  ASSUME IInv, BeginShutdown \/ GracefulExit \/ ForcedExit
  PROVE  IInv'
<1>. USE DEF IInv
<1>1. /\ UNCHANGED <<stage, activeChildren, client, inFlight, readiness, world>>
      /\ reply' = "none"
  BY DEF BeginShutdown, GracefulExit, ForcedExit, process
<1>2. SlotsExact' /\ OwnPath' /\ RunnerAwaits'
  BY <1>1 DEF SlotsExact, OwnPath, RunnerAwaits, readiness
<1>3. CASE BeginShutdown
  <2>1. child' \in [Handler -> Child] /\ \A h \in Handler : Live(h)' <=> Live(h)
    <3>1. \A h \in Handler : child[h] \in Child /\ [child[h] EXCEPT !.fate = "termed"] \in Child
      BY ChildTypes DEF CompanionTypeOK, Fate
    <3>2. \A h \in Handler : \/ child'[h] = child[h]
                            \/ /\ child[h].fate = "running"
                               /\ child'[h] = [child[h] EXCEPT !.fate = "termed"]
      BY <1>3 DEF BeginShutdown, Termed
    <3>3. child' = [h \in Handler |-> child'[h]]
      BY <1>3 DEF BeginShutdown, Termed
    <3>4. \A h \in Handler : child'[h] \in Child /\ (Live(h)' <=> Live(h))
      BY <3>1, <3>2 DEF Live, Child
    <3>. QED BY <3>3, <3>4
  <2>2. CompanionTypeOK'
    BY <1>1, <1>3, <2>1, LimitTypes DEF BeginShutdown, CompanionTypeOK, Status, readiness, world
  <2>3. ActiveIsLive' /\ LiveIsBusy'
    BY <1>1, <2>1 DEF ActiveIsLive, LiveIsBusy
  <2>4. \A h \in Handler : child'[h].fate # "running"
    BY <1>3 DEF BeginShutdown, Termed, ActiveIsLive, Live, CompanionTypeOK, Child
  <2>5. StoppedChildren' /\ EachAccounted'
    BY <1>3, <2>4 DEF BeginShutdown, StoppedChildren, EachAccounted
  <2>. QED BY <1>2, <2>2, <2>3, <2>5
<1>4. CASE GracefulExit
  <2>1. UNCHANGED <<child, stopAge>> /\ server = "stopping" /\ server' = "exited"
    BY <1>4 DEF GracefulExit, process
  <2>2. CompanionTypeOK'
    BY <1>1, <2>1 DEF CompanionTypeOK, Status, readiness, world
  <2>3. ActiveIsLive' /\ LiveIsBusy' /\ StoppedChildren'
    BY <1>1, <2>1 DEF ActiveIsLive, LiveIsBusy, StoppedChildren, Live
  <2>4. ASSUME NEW h \in Handler, child[h].fate = "running"
        PROVE  client[h] = "left" /\ child[h].age <= stopAge
    BY <1>4, <2>1, <2>4 DEF GracefulExit, LiveIsBusy, Live, Busy, StoppedChildren
  <2>5. EachAccounted'
    BY <1>1, <2>1, <2>4 DEF EachAccounted
  <2>. QED BY <1>2, <2>2, <2>3, <2>5
<1>5. CASE ForcedExit
  <2>1. UNCHANGED stopAge /\ server' = "killed"
    BY <1>5 DEF ForcedExit
  <2>2. child' \in [Handler -> Child] /\ \A h \in Handler : Live(h)' <=> Live(h)
    <3>1. \A h \in Handler : child[h] \in Child /\ [child[h] EXCEPT !.fate = "killed"] \in Child
      BY ChildTypes DEF CompanionTypeOK, Fate
    <3>2. \A h \in Handler : \/ child'[h] = child[h]
                            \/ /\ Live(h)
                               /\ child'[h] = [child[h] EXCEPT !.fate = "killed"]
      BY <1>5 DEF ForcedExit, ActiveIsLive
    <3>3. child' = [h \in Handler |-> child'[h]]
      BY <1>5 DEF ForcedExit
    <3>4. \A h \in Handler : child'[h] \in Child /\ (Live(h)' <=> Live(h))
      BY <3>1, <3>2 DEF Live, Child
    <3>. QED BY <3>3, <3>4
  <2>3. CompanionTypeOK'
    BY <1>1, <2>1, <2>2 DEF CompanionTypeOK, Status, readiness, world
  <2>4. ActiveIsLive' /\ LiveIsBusy' /\ StoppedChildren'
    BY <1>1, <2>1, <2>2 DEF ActiveIsLive, LiveIsBusy, StoppedChildren
  <2>5. \A h \in Handler : child'[h].fate \in {"none", "killed"}
    BY <1>5 DEF ForcedExit, ActiveIsLive, Live, CompanionTypeOK, Child
  <2>6. EachAccounted'
    BY <2>1, <2>5 DEF EachAccounted
  <2>. QED BY <1>2, <2>3, <2>4, <2>6
<1>. QED BY <1>3, <1>4, <1>5

LEMMA TickStep ==
  ASSUME IInv, Tick
  PROVE  IInv'
<1>. USE DEF IInv
<1>1. /\ UNCHANGED <<server, stage, activeChildren, client, inFlight, readinessPromise, joined,
                     seen, engine>>
      /\ reply' = "none" /\ server \in {"up", "stopping"}
  BY DEF Tick, Serving
<1>2. \A h \in Handler :
        /\ child[h].age \in 0..ProcessTimeout
        /\ child'[h] \in Child /\ child'[h].fate = child[h].fate
        /\ child'[h].age <= child[h].age + 1
  <2>1. ASSUME NEW h \in Handler
        PROVE  child[h] \in Child /\ child[h].age \in 0..ProcessTimeout
    BY DEF CompanionTypeOK, Child
  <2>2. ASSUME NEW h \in Handler
        PROVE  /\ AtMost(child[h].age + 1, ProcessTimeout) \in 0..ProcessTimeout
               /\ AtMost(child[h].age + 1, ProcessTimeout) <= child[h].age + 1
    BY <2>1, LimitTypes, AtMostType
  <2>. QED BY <2>1, <2>2 DEF Tick, Child
<1>3. /\ checkedAge' \in 0..ReadinessCache /\ stopAge' \in 0..ShutdownTimeout
      /\ sincePinned' \in 0..Longest /\ sinceValid' \in 0..Longest
  BY LimitTypes, AtMostType DEF Tick, CompanionTypeOK
<1>4. CompanionTypeOK'
  <2>1. child' \in [Handler -> Child]
    BY <1>2 DEF Tick
  <2>. QED BY <1>1, <1>3, <2>1 DEF CompanionTypeOK, Status
<1>5. ActiveIsLive' /\ LiveIsBusy' /\ OwnPath' /\ RunnerAwaits' /\ SlotsExact'
  BY <1>1, <1>2 DEF ActiveIsLive, LiveIsBusy, OwnPath, RunnerAwaits, SlotsExact, Live
<1>6. ASSUME server = "stopping"
      PROVE  stopAge' = stopAge + 1 /\ stopAge \in Nat
  BY <1>6, LimitTypes, AtMostType DEF Tick, Due, ShutdownDue, CompanionTypeOK
<1>7. StoppedChildren'
  <2>1. ASSUME server = "stopping", NEW h \in Handler, child'[h].fate = "running"
        PROVE  child'[h].age <= stopAge'
    <3>1. child[h].age <= stopAge /\ child[h].age \in Int /\ child'[h].age \in Int
      BY <1>2, <2>1, LimitTypes DEF StoppedChildren, Child
    <3>. QED BY <1>2, <1>6, <2>1, <3>1
  <2>. QED BY <1>1, <2>1 DEF StoppedChildren
<1>. QED BY <1>1, <1>4, <1>5, <1>7, ServingAccounts

LEMMA ReplaceStep ==
  ASSUME IInv, ReplaceEngine
  PROVE  IInv'
<1>. USE DEF IInv
<1>1. /\ UNCHANGED <<process, client, inFlight, readiness, lifecycle>>
      /\ engine' \in Engines /\ reply' = "none" /\ server \in {"up", "stopping"}
      /\ sincePinned' \in {0, sincePinned} /\ sinceValid' \in {0, sinceValid}
  BY DEF ReplaceEngine, Serving
<1>2. CompanionTypeOK'
  BY <1>1, LimitTypes DEF CompanionTypeOK, Status, process, readiness, lifecycle
<1>3. ActiveIsLive' /\ LiveIsBusy' /\ OwnPath' /\ RunnerAwaits' /\ SlotsExact' /\ StoppedChildren'
  BY <1>1 DEF ActiveIsLive, LiveIsBusy, OwnPath, RunnerAwaits, SlotsExact, StoppedChildren, Live,
              process, readiness, lifecycle
<1>. QED BY <1>1, <1>2, <1>3, ServingAccounts DEF lifecycle

LEMMA StutterStep ==
  ASSUME IInv, UNCHANGED vars
  PROVE  IInv'
<1>. USE DEF IInv, vars, process, readiness, lifecycle, world
<1>1. CompanionTypeOK'
  BY DEF CompanionTypeOK
<1>2. ActiveIsLive' /\ LiveIsBusy' /\ OwnPath' /\ RunnerAwaits' /\ SlotsExact' /\ StoppedChildren'
      /\ EachAccounted'
  BY DEF ActiveIsLive, LiveIsBusy, OwnPath, RunnerAwaits, SlotsExact, StoppedChildren,
         EachAccounted, Live
<1>. QED BY <1>1, <1>2

LEMMA NextInv ==
  ASSUME IInv, [Next]_vars
  PROVE  IInv'
BY QualifyStep, BodyStep, PolicyStep, ReadyzStep, ProbeStep, EventStep, ShutdownStep, TickStep,
   ReplaceStep, StutterStep DEF Next

LEMMA InitInv == Init => IInv
<1>. SUFFICES ASSUME Init PROVE IInv
  OBVIOUS
<1>1. Slots = {} /\ inFlight = 0
  BY HandlerKinds DEF Init, Slots
<1>2. SlotsExact
  BY <1>1, FS_EmptySet DEF SlotsExact, Slots
<1>3. ActiveIsLive /\ LiveIsBusy /\ OwnPath /\ RunnerAwaits /\ StoppedChildren /\ EachAccounted
  BY HandlerKinds DEF Init, ActiveIsLive, LiveIsBusy, OwnPath, RunnerAwaits, StoppedChildren,
                      EachAccounted, Live, NoChild, Busy
<1>. QED BY InitType, <1>2, <1>3 DEF IInv

LEMMA InvHolds == Spec => []IInv
BY InitInv, NextInv, PTL DEF Spec
-----------------------------------------------------------------------------
(* The theorems *)

(* Every reachable state is well typed; above all inFlight never exceeds
   MAX_CONCURRENT and never falls below zero (companion/server.mjs). *)
THEOREM CompanionTypeCorrect == Spec => []CompanionTypeOK
BY InvHolds, PTL DEF IInv

(* The admission counter is the number of admitted requests, whatever order
   bodies, children, timers and departing clients end in. *)
THEOREM SlotsExactHolds == Spec => []SlotsExact
BY InvHolds, PTL DEF IInv
-----------------------------------------------------------------------------
(* Fresh answers *)

(* The histories say now what is installed now. *)
WorldNow == (engine.pinned => sincePinned = 0) /\ (engine.valid => sinceValid = 0)

(* What a child's image was when it started was so at most its age ago; what
   the first child of a probe printed, one process timeout longer. *)
ImagesRecent ==
  \A h \in Handler : Live(h) =>
    /\ child[h].image.pinned => sincePinned <= child[h].age
    /\ child[h].image.valid => sinceValid <= child[h].age
SeenRecent ==
  \A w \in Watcher :
    /\ stage[w] # "validate" => seen[w] = "none"
    /\ seen[w] = "pinned" => sincePinned <= ProcessTimeout + child[w].age

(* While the shared probe is within its cache time, it and what it came to are
   no older than the time since it was started. *)
SharedRecent ==
  checkedAge < ReadinessCache =>
    /\ \A w \in Watcher : readinessPromise.by = w =>
         child[w].age <= checkedAge /\ (seen[w] = "pinned" => sincePinned <= checkedAge)
    /\ readinessPromise.value = "pinned" => sincePinned <= checkedAge /\ sinceValid <= checkedAge

FreshInv == WorldNow /\ ImagesRecent /\ SeenRecent /\ SharedRecent /\ AnswersAreFresh

(* The numbers of a state. *)
LEMMA Ages ==
  ASSUME IInv
  PROVE  /\ sincePinned \in Nat /\ sinceValid \in Nat /\ checkedAge \in Nat
         /\ \A h \in Handler : child[h].age \in Nat /\ child[h].age <= ProcessTimeout
BY LimitTypes DEF IInv, CompanionTypeOK, Child

(* Children end, start from what is installed, or keep age and image. *)
LEMMA KeptImages ==
  ASSUME FreshInv, UNCHANGED world,
         \A h \in Handler :
           \/ child'[h] \in {NoChild, Spawned}
           \/ /\ Live(h)' <=> Live(h)
              /\ child'[h].age = child[h].age /\ child'[h].image = child[h].image
  PROVE  WorldNow' /\ ImagesRecent'
<1>1. WorldNow'
  BY DEF FreshInv, WorldNow, world
<1>2. ASSUME NEW h \in Handler, Live(h)'
      PROVE  /\ child'[h].image.pinned => sincePinned' <= child'[h].age
             /\ child'[h].image.valid => sinceValid' <= child'[h].age
  <2>1. CASE child'[h] = NoChild
    BY <1>2, <2>1 DEF Live, NoChild
  <2>2. CASE child'[h] = Spawned
    BY <2>2 DEF Spawned, FreshInv, WorldNow, world
  <2>3. CASE /\ Live(h)' <=> Live(h)
             /\ child'[h].age = child[h].age /\ child'[h].image = child[h].image
    BY <1>2, <2>3 DEF FreshInv, ImagesRecent, world
  <2>. QED BY <2>1, <2>2, <2>3
<1>. QED BY <1>1, <1>2 DEF ImagesRecent

(* Nothing happens to a watcher. *)
LEMMA KeptProbes ==
  ASSUME FreshInv, UNCHANGED <<world, readiness>>,
         \A w \in Watcher : stage'[w] = stage[w] /\ child'[w].age = child[w].age
  PROVE  SeenRecent' /\ SharedRecent'
BY DEF FreshInv, SeenRecent, SharedRecent, world, readiness

LEMMA OtherReplies ==
  ASSUME reply' \notin {"ok", "ready"}
  PROVE  AnswersAreFresh'
BY DEF AnswersAreFresh

LEMMA CallerFresh ==
  ASSUME IInv, FreshInv, NEW c \in Caller,
         \/ \E r \in Request : Qualify(c, r)
         \/ BodyEnds(c) \/ BodyAborts(c) \/ PolicyAnswers(c)
  PROVE  FreshInv'
<1>1. /\ UNCHANGED <<world, readiness>>
      /\ \A w \in Watcher : stage'[w] = stage[w] /\ child'[w] = child[w]
      /\ \A h \in Handler : child'[h] \in {NoChild, Spawned} \/ child'[h] = child[h]
  BY HandlerKinds
     DEF Qualify, BodyEnds, BodyAborts, PolicyAnswers, Release, Closed, IInv, CompanionTypeOK
<1>2. WorldNow' /\ ImagesRecent' /\ SeenRecent' /\ SharedRecent'
  BY <1>1, KeptImages, KeptProbes DEF Live
<1>3. CASE PolicyAnswers(c)
  <2>1. PICK result \in Settled(c) :
          Release(c, IF result = "failed" THEN "unavailable" ELSE result)
    BY <1>3 DEF PolicyAnswers
  <2>2. reply' # "ready" /\ (reply' = "ok" => result = "ok")
    BY <1>3, <2>1 DEF PolicyAnswers, Release, Settled, Printed, Compatible
  <2>3. CASE result = "ok"
    <3>1. child[c].image.pinned /\ child[c].image.valid /\ Live(c)
      BY <1>3, <2>3 DEF PolicyAnswers, Settled, Printed, Compatible
    <3>2. sincePinned <= ProcessTimeout /\ sinceValid <= ProcessTimeout
      BY <3>1, Ages, LimitTypes, HandlerKinds DEF FreshInv, ImagesRecent
    <3>3. AnswersAreFresh'
      BY <1>1, <2>2, <3>2 DEF AnswersAreFresh, world
    <3>. QED BY <1>2, <3>3 DEF FreshInv
  <2>4. CASE result # "ok"
    BY <1>2, <2>2, <2>4, OtherReplies DEF FreshInv
  <2>. QED BY <2>3, <2>4
<1>4. CASE ~PolicyAnswers(c)
  <2>1. reply' \notin {"ok", "ready"}
    BY <1>4 DEF Qualify, Verdict, BodyEnds, BodyAborts, Release
  <2>. QED BY <1>2, <2>1, OtherReplies DEF FreshInv
<1>. QED BY <1>3, <1>4

(* What happens to a child that is waited for: it may be told to stop. *)
LEMMA EventKeeps ==
  ASSUME IInv,
         \/ \E h \in Handler : ClientLeaves(h) \/ TimerFires(h) \/ OutputExceeds(h)
         \/ BeginShutdown \/ GracefulExit \/ ForcedExit
  PROVE  /\ UNCHANGED <<world, readiness, stage>> /\ reply' = "none"
         /\ \A g \in Handler :
              /\ Live(g)' <=> Live(g)
              /\ child'[g].age = child[g].age /\ child'[g].image = child[g].image
<1>1. UNCHANGED <<world, readiness, stage>> /\ reply' = "none"
  BY DEF ClientLeaves, TimerFires, OutputExceeds, BeginShutdown, GracefulExit, ForcedExit, process
<1>2. ASSUME NEW g \in Handler
      PROVE  /\ Live(g)' <=> Live(g)
             /\ child'[g].age = child[g].age /\ child'[g].image = child[g].image
  <2>1. child[g] \in Child /\ child \in [Handler -> Child]
    BY DEF IInv, CompanionTypeOK
  <2>2. \/ child'[g] = child[g]
        \/ /\ Live(g)
           /\ \E f \in Fate \ {"none"} : child'[g] = [child[g] EXCEPT !.fate = f]
    <3>1. CASE \E h \in Handler : ClientLeaves(h) \/ TimerFires(h) \/ OutputExceeds(h)
      <4>1. PICK h \in Handler : ClientLeaves(h) \/ TimerFires(h) \/ OutputExceeds(h)
        BY <3>1
      <4>2. CASE ClientLeaves(h)
        BY <4>2 DEF ClientLeaves, process
      <4>3. CASE TimerFires(h) \/ OutputExceeds(h)
        <5>1. PICK f \in Fate \ {"none"} : Live(h) /\ child' = [child EXCEPT ![h].fate = f]
          BY <4>3 DEF TimerFires, OutputExceeds, Live, Fate
        <5>2. child'[g] = child[g] \/ (g = h /\ child'[g] = [child[g] EXCEPT !.fate = f])
          BY <2>1, <5>1
        <5>. QED BY <5>1, <5>2
      <4>. QED BY <4>1, <4>2, <4>3
    <3>2. CASE BeginShutdown
      <4>1. child'[g] = child[g] \/ (Live(g) /\ child'[g] = [child[g] EXCEPT !.fate = "termed"])
        BY <3>2 DEF BeginShutdown, Termed, Live
      <4>. QED BY <4>1 DEF Fate
    <3>3. CASE ForcedExit
      <4>1. child'[g] = child[g] \/ (Live(g) /\ child'[g] = [child[g] EXCEPT !.fate = "killed"])
        BY <3>3 DEF ForcedExit, Live, IInv, ActiveIsLive
      <4>. QED BY <4>1 DEF Fate
    <3>4. CASE GracefulExit
      BY <3>4 DEF GracefulExit, process
    <3>. QED BY <3>1, <3>2, <3>3, <3>4
  <2>. QED BY <2>1, <2>2 DEF Live, Child
<1>. QED BY <1>1, <1>2

LEMMA EventFresh ==
  ASSUME IInv, FreshInv,
         \/ \E h \in Handler : ClientLeaves(h) \/ TimerFires(h) \/ OutputExceeds(h)
         \/ BeginShutdown \/ GracefulExit \/ ForcedExit
  PROVE  FreshInv'
<1>1. /\ UNCHANGED <<world, readiness, stage>> /\ reply' = "none"
      /\ \A g \in Handler :
           /\ Live(g)' <=> Live(g)
           /\ child'[g].age = child[g].age /\ child'[g].image = child[g].image
  BY EventKeeps
<1>. QED BY <1>1, KeptImages, KeptProbes, OtherReplies, HandlerKinds DEF FreshInv

LEMMA ReadyzFresh ==
  ASSUME IInv, FreshInv, NEW w \in Watcher, Readyz(w)
  PROVE  FreshInv'
<1>1. UNCHANGED world /\ stage[w] = "idle"
  BY DEF Readyz
<1>2. CASE UNCHANGED <<process, readiness>>
  <2>1. WorldNow' /\ ImagesRecent' /\ SeenRecent' /\ SharedRecent'
    BY <1>1, <1>2, KeptImages, KeptProbes DEF process, Live
  <2>2. reply' # "ok"
    BY <1>1, <1>2 DEF Readyz, JoinProbe, TakeSettled, StartProbe
  <2>3. reply' = "ready" => readinessPromise.value = "pinned" /\ checkedAge < ReadinessCache
    BY <1>1, <1>2 DEF Readyz, JoinProbe, TakeSettled, StartProbe, SharesPromise
  <2>4. reply' = "ready" => sincePinned < ReadinessCache /\ sinceValid < ReadinessCache
    BY <2>3, Ages, LimitTypes DEF FreshInv, SharedRecent
  <2>5. AnswersAreFresh'
    BY <1>1, <2>2, <2>4 DEF AnswersAreFresh, world
  <2>. QED BY <2>1, <2>5 DEF FreshInv
<1>3. CASE JoinProbe(w)
  <2>1. UNCHANGED <<child, readinessPromise, checkedAge, seen>> /\ reply' = "none"
    BY <1>3 DEF JoinProbe
  <2>2. \A v \in Watcher : stage'[v] # "validate" => stage[v] # "validate"
    BY <1>1, <1>3, HandlerKinds DEF JoinProbe, IInv, CompanionTypeOK
  <2>3. WorldNow' /\ ImagesRecent'
    BY <1>1, <2>1, KeptImages DEF Live
  <2>4. SeenRecent' /\ SharedRecent'
    BY <1>1, <2>1, <2>2 DEF FreshInv, SeenRecent, SharedRecent, world
  <2>. QED BY <2>1, <2>3, <2>4, OtherReplies DEF FreshInv
<1>4. CASE StartProbe(w)
  <2>1. /\ checkedAge' = 0 /\ readinessPromise' = [by |-> w, value |-> "pending"]
        /\ UNCHANGED seen /\ reply' = "none"
        /\ child' = [child EXCEPT ![w] = Spawned] /\ stage' = [stage EXCEPT ![w] = "version"]
    BY <1>4 DEF StartProbe
  <2>2. seen[w] = "none" /\ child'[w].age = 0 /\ child'[w] = Spawned
        /\ \A v \in Handler : v # w => child'[v] = child[v] /\ stage'[v] = stage[v]
    BY <1>1, <2>1, HandlerKinds DEF Spawned, FreshInv, SeenRecent, IInv, CompanionTypeOK
  <2>3. WorldNow' /\ ImagesRecent'
    BY <1>1, <2>2, KeptImages, HandlerKinds DEF Live
  <2>4. SeenRecent'
    BY <1>1, <2>1, <2>2, HandlerKinds DEF FreshInv, SeenRecent, world
  <2>5. SharedRecent'
    BY <2>1, <2>2, HandlerKinds DEF SharedRecent
  <2>. QED BY <2>1, <2>3, <2>4, <2>5, OtherReplies DEF FreshInv
<1>. QED BY <1>2, <1>3, <1>4 DEF Readyz, TakeSettled

(* A probe that settles: what it came to is as old as its children say. *)
LEMMA SettlingFresh ==
  ASSUME IInv, FreshInv, NEW w \in Watcher, stage[w] \in {"version", "validate"},
         NEW value \in Outcome, ProbeSettles(w, value), Closed(w),
         UNCHANGED <<checkedAge, world>>,
         value = "pinned" =>
           /\ sincePinned <= ProcessTimeout + child[w].age /\ sinceValid <= child[w].age
           /\ seen[w] = "pinned"
  PROVE  FreshInv'
<1>1. w \in Waiters(w) /\ Waiters(w) \subseteq Watcher
      /\ \A v \in Waiters(w) : v # w => stage[v] \notin {"version", "validate"}
  BY DEF Waiters, IInv, RunnerAwaits
<1>2. /\ child'[w] = NoChild /\ seen'[w] = "none"
      /\ \A v \in Handler : v # w => child'[v] = child[v]
      /\ \A v \in Watcher : v # w => seen'[v] = seen[v]
  BY HandlerKinds DEF Closed, ProbeSettles, IInv, CompanionTypeOK
<1>3. WorldNow' /\ ImagesRecent'
  BY <1>2, KeptImages, HandlerKinds DEF Live
<1>4. \A v \in Watcher : v # w => (stage[v] = "validate" <=> stage'[v] = "validate")
  BY <1>1, HandlerKinds DEF ProbeSettles
<1>5. SeenRecent'
  BY <1>2, <1>4, HandlerKinds DEF FreshInv, SeenRecent, world
<1>6. SharedRecent'
  <2>. SUFFICES ASSUME checkedAge < ReadinessCache
                PROVE  SharedRecent'
    BY DEF SharedRecent
  <2>1. CASE readinessPromise.by = w
    <3>1. readinessPromise' = [by |-> Nobody, value |-> value] /\ Nobody \notin Watcher
      BY <2>1, HandlerAssumption DEF ProbeSettles, Handler
    <3>2. value = "pinned" => sincePinned <= checkedAge /\ sinceValid <= checkedAge
      BY <2>1, Ages, HandlerKinds DEF FreshInv, SharedRecent
    <3>. QED BY <3>1, <3>2 DEF SharedRecent, world
  <2>2. CASE readinessPromise.by # w
    <3>1. readinessPromise' = readinessPromise
      BY <2>2 DEF ProbeSettles
    <3>. QED BY <1>2, <2>2, <3>1, HandlerKinds DEF FreshInv, SharedRecent, world
  <2>. QED BY <2>1, <2>2
<1>7. AnswersAreFresh'
  <2>1. reply' # "ok" /\ (reply' = "ready" => value = "pinned")
    BY DEF ProbeSettles
  <2>2. value = "pinned" => /\ sincePinned < 2 * ProcessTimeout + 1
                            /\ sinceValid < ProcessTimeout + 1
    BY Ages, LimitTypes, HandlerKinds
  <2>. QED BY <2>1, <2>2 DEF AnswersAreFresh, world
<1>. QED BY <1>3, <1>5, <1>6, <1>7 DEF FreshInv

LEMMA ProbeFresh ==
  ASSUME IInv, FreshInv, NEW w \in Watcher, VersionCloses(w) \/ ValidationCloses(w)
  PROVE  FreshInv'
<1>1. CASE VersionCloses(w)
  <2>1. PICK result \in Settled(w) :
          IF result \in {"pinned", "other"}
          THEN /\ stage' = [stage EXCEPT ![w] = "validate"]
               /\ seen' = [seen EXCEPT ![w] = result]
               /\ child' = [child EXCEPT ![w] = Spawned]
               /\ reply' = "none"
               /\ UNCHANGED <<activeChildren, client, readinessPromise, joined>>
          ELSE ProbeSettles(w, "failed") /\ Closed(w)
    BY <1>1 DEF VersionCloses
  <2>2. stage[w] = "version" /\ Live(w) /\ UNCHANGED <<checkedAge, world>>
    BY <1>1 DEF VersionCloses
  <2>3. CASE result \in {"pinned", "other"}
    <3>1. result = "pinned" => child[w].image.pinned
      BY <2>2 DEF Settled, Printed
    <3>2. result = "pinned" => sincePinned <= child[w].age
      BY <2>2, <3>1, HandlerKinds DEF FreshInv, ImagesRecent
    <3>3. /\ child'[w] = Spawned /\ child'[w].age = 0 /\ seen'[w] = result
          /\ stage'[w] = "validate"
          /\ \A v \in Handler : v # w => child'[v] = child[v] /\ stage'[v] = stage[v]
          /\ \A v \in Watcher : v # w => seen'[v] = seen[v]
      BY <2>1, <2>3, HandlerKinds DEF Spawned, IInv, CompanionTypeOK
    <3>4. WorldNow' /\ ImagesRecent'
      BY <2>2, <3>3, KeptImages, HandlerKinds DEF Live
    <3>5. SeenRecent'
      BY <2>2, <3>2, <3>3, Ages, LimitTypes, HandlerKinds DEF FreshInv, SeenRecent, world
    <3>6. SharedRecent'
      BY <2>1, <2>2, <2>3, <3>2, <3>3, Ages, LimitTypes, HandlerKinds
         DEF FreshInv, SharedRecent, world
    <3>. QED BY <2>1, <2>3, <3>4, <3>5, <3>6, OtherReplies DEF FreshInv
  <2>4. CASE result \notin {"pinned", "other"}
    BY <2>1, <2>2, <2>4, SettlingFresh DEF Outcome
  <2>. QED BY <2>3, <2>4
<1>2. CASE ValidationCloses(w)
  <2>1. PICK result \in Settled(w) :
          ProbeSettles(w, IF result = "refused" THEN seen[w] ELSE "failed")
    BY <1>2 DEF ValidationCloses
  <2>2. /\ stage[w] = "validate" /\ Live(w) /\ Closed(w) /\ UNCHANGED <<checkedAge, world>>
    BY <1>2 DEF ValidationCloses
  <2>3. (IF result = "refused" THEN seen[w] ELSE "failed") \in Outcome
    BY DEF IInv, CompanionTypeOK, Version, Outcome
  <2>4. result = "refused" => child[w].image.valid
    BY <2>2 DEF Settled, Printed
  <2>5. result = "refused" => sinceValid <= child[w].age
    BY <2>2, <2>4, HandlerKinds DEF FreshInv, ImagesRecent
  <2>6. seen[w] = "pinned" => sincePinned <= ProcessTimeout + child[w].age
    BY DEF FreshInv, SeenRecent
  <2>. QED BY <2>1, <2>2, <2>3, <2>5, <2>6, SettlingFresh
<1>. QED BY <1>1, <1>2

(* Only a forced exit kills: while the process serves, no child is killed. *)
KilledOnExit == \A h \in Handler : child[h].fate = "killed" => server = "killed"

LEMMA KilledStep ==
  ASSUME IInv, KilledOnExit, [Next]_vars
  PROVE  KilledOnExit'
<1>1. CASE UNCHANGED <<child, server>>
  BY <1>1 DEF KilledOnExit
<1>2. CASE server' = "killed"
  BY <1>2 DEF KilledOnExit
<1>3. ASSUME server # "killed",
             \A h \in Handler : child'[h] = child[h] \/ child'[h].fate # "killed"
      PROVE  KilledOnExit'
  BY <1>3 DEF KilledOnExit
<1>4. ASSUME NEW c \in Caller, BodyEnds(c) \/ BodyAborts(c) \/ PolicyAnswers(c)
      PROVE  KilledOnExit'
  BY <1>3, <1>4, HandlerKinds
     DEF BodyEnds, BodyAborts, PolicyAnswers, Closed, NoChild, Spawned, Serving, IInv, CompanionTypeOK
<1>5. ASSUME NEW w \in Watcher, Readyz(w) \/ VersionCloses(w) \/ ValidationCloses(w)
      PROVE  KilledOnExit'
  BY <1>3, <1>5, HandlerKinds
     DEF Readyz, JoinProbe, TakeSettled, StartProbe, VersionCloses, ValidationCloses, Closed,
         NoChild, Spawned, Serving, IInv, CompanionTypeOK, process
<1>6. ASSUME NEW h \in Handler, TimerFires(h) \/ OutputExceeds(h)
      PROVE  KilledOnExit'
  <2>1. PICK f \in {"timedOut", "outputExceeded"} : child' = [child EXCEPT ![h].fate = f]
    BY <1>6 DEF TimerFires, OutputExceeds
  <2>2. \A g \in Handler : child'[g] = child[g] \/ child'[g].fate = f
    BY <2>1 DEF IInv, CompanionTypeOK, Child
  <2>. QED BY <1>3, <1>6, <2>2 DEF TimerFires, OutputExceeds, Serving
<1>7. CASE BeginShutdown
  <2>1. \A g \in Handler : child'[g] = child[g] \/ child'[g] = [child[g] EXCEPT !.fate = "termed"]
    BY <1>7 DEF BeginShutdown, Termed
  <2>. QED BY <1>3, <1>7, <2>1 DEF BeginShutdown, IInv, CompanionTypeOK, Child
<1>8. CASE Tick
  <2>1. \A g \in Handler : child'[g].fate = child[g].fate
    BY <1>8 DEF Tick, IInv, CompanionTypeOK, Child
  <2>. QED BY <1>8, <2>1 DEF Tick, KilledOnExit
<1>9. CASE ReplaceEngine \/ \E h \in Handler : ClientLeaves(h)
  BY <1>1, <1>9 DEF ReplaceEngine, ClientLeaves, process, lifecycle
<1>10. CASE GracefulExit
  BY <1>3, <1>10 DEF GracefulExit, process
<1>11. CASE ForcedExit
  BY <1>2, <1>11 DEF ForcedExit
<1>12. ASSUME NEW c \in Caller, NEW r \in Request, Qualify(c, r)
       PROVE  KilledOnExit'
  BY <1>1, <1>12 DEF Qualify, lifecycle
<1>13. CASE UNCHANGED vars
  BY <1>1, <1>13 DEF vars, process, lifecycle
<1>. QED BY <1>4, <1>5, <1>6, <1>7, <1>8, <1>9, <1>10, <1>11, <1>12, <1>13 DEF Next

(* While children run, no age reaches its cap unseen: Tick waits for timers. *)
LEMMA TickAges ==
  ASSUME IInv, KilledOnExit, Tick
  PROVE  \A h \in Handler :
           /\ Live(h)' <=> Live(h)
           /\ child'[h].image = child[h].image
           /\ Live(h) => child'[h].age = child[h].age + 1
           /\ ~Live(h) => child'[h] = child[h]
<1>1. \A h \in Handler : Live(h) => child[h].fate = "running" /\ child[h].age # ProcessTimeout
  BY DEF Tick, Serving, Due, TimerDue, Live, IInv, CompanionTypeOK, Child, Fate, KilledOnExit
<1>2. ASSUME NEW h \in Handler
      PROVE  child[h] \in Child /\ child[h].age \in 0..ProcessTimeout
  BY DEF IInv, CompanionTypeOK, Child
<1>3. ASSUME NEW h \in Handler, Live(h)
      PROVE  AtMost(child[h].age + 1, ProcessTimeout) = child[h].age + 1
  BY <1>1, <1>2, <1>3, LimitTypes, AtMostType
<1>4. ASSUME NEW h \in Handler
      PROVE  child'[h] = IF Live(h)
                         THEN [child[h] EXCEPT !.age = AtMost(child[h].age + 1, ProcessTimeout)]
                         ELSE child[h]
  BY DEF Tick
<1>. QED BY <1>2, <1>3, <1>4 DEF Live, Child

LEMMA TickFresh ==
  ASSUME IInv, FreshInv, KilledOnExit, Tick
  PROVE  FreshInv'
<1>1. /\ UNCHANGED <<stage, readinessPromise, seen, engine>> /\ reply' = "none"
      /\ sincePinned' <= sincePinned + 1 /\ sinceValid' <= sinceValid + 1
      /\ sincePinned' \in Nat /\ sinceValid' \in Nat
      /\ engine.pinned => sincePinned' = 0
      /\ engine.valid => sinceValid' = 0
  BY LimitTypes, AtMostType DEF Tick, IInv, CompanionTypeOK
<1>2. \A h \in Handler :
        /\ Live(h)' <=> Live(h)
        /\ child'[h].image = child[h].image
        /\ Live(h) => child'[h].age = child[h].age + 1
        /\ ~Live(h) => child'[h] = child[h]
  BY TickAges
<1>3. checkedAge' < ReadinessCache => checkedAge' = checkedAge + 1 /\ checkedAge < ReadinessCache
  BY LimitTypes, AtMostType, Ages DEF Tick, IInv, CompanionTypeOK, AtMost
<1>4. WorldNow'
  BY <1>1 DEF WorldNow
<1>5. ImagesRecent'
  BY <1>1, <1>2, Ages DEF FreshInv, ImagesRecent
<1>6. SeenRecent'
  <2>1. \A w \in Watcher : stage[w] = "validate" => Live(w)
    BY HandlerKinds DEF IInv, LiveIsBusy, Busy
  <2>. QED BY <1>1, <1>2, <2>1, Ages, LimitTypes, HandlerKinds DEF FreshInv, SeenRecent
<1>7. SharedRecent'
  <2>1. \A w \in Watcher : child'[w].age \in Nat /\ child'[w].age <= child[w].age + 1
    BY <1>2, Ages, HandlerKinds
  <2>. QED BY <1>1, <1>3, <2>1, Ages, HandlerKinds DEF FreshInv, SharedRecent
<1>. QED BY <1>1, <1>4, <1>5, <1>6, <1>7, OtherReplies DEF FreshInv

LEMMA ReplaceFresh ==
  ASSUME IInv, FreshInv, ReplaceEngine
  PROVE  FreshInv'
<1>1. /\ UNCHANGED <<process, readiness>> /\ reply' = "none"
      /\ engine'.pinned => sincePinned' = 0
      /\ engine'.valid => sinceValid' = 0
      /\ sincePinned' <= sincePinned /\ sinceValid' <= sinceValid
      /\ sincePinned' \in Nat /\ sinceValid' \in Nat
  BY Ages DEF ReplaceEngine
<1>2. WorldNow' /\ ImagesRecent' /\ SeenRecent' /\ SharedRecent'
  BY <1>1, Ages, LimitTypes, HandlerKinds
     DEF FreshInv, WorldNow, ImagesRecent, SeenRecent, SharedRecent, Live, process, readiness
<1>. QED BY <1>1, <1>2, OtherReplies DEF FreshInv

LEMMA NextFresh ==
  ASSUME IInv, FreshInv, KilledOnExit, [Next]_vars
  PROVE  FreshInv'
<1>1. CASE UNCHANGED vars
  BY <1>1 DEF vars, process, readiness, world, FreshInv, WorldNow, ImagesRecent, SeenRecent,
              SharedRecent, AnswersAreFresh, Live
<1>. QED BY <1>1, CallerFresh, ReadyzFresh, ProbeFresh, EventFresh, TickFresh, ReplaceFresh DEF Next

LEMMA InitFresh == Init => FreshInv /\ KilledOnExit
<1>. SUFFICES ASSUME Init PROVE FreshInv /\ KilledOnExit
  OBVIOUS
<1>. QED BY LimitTypes DEF Init, FreshInv, WorldNow, ImagesRecent, SeenRecent, SharedRecent,
                           AnswersAreFresh, KilledOnExit, Live, NoChild

(* An answer of the engine was true within one process timeout, readiness
   within two or within the cache time, although binary and configuration are
   replaced under the service (validateSuccessBody, coalescedReadinessProbe). *)
THEOREM AnswersAreFreshHolds == Spec => []AnswersAreFresh
<1>1. FreshInv => AnswersAreFresh
  BY DEF FreshInv
<1>. QED BY <1>1, InitFresh, InvHolds, NextFresh, KilledStep, PTL DEF Spec
-----------------------------------------------------------------------------
(* Probes in a row *)

Probes == {w \in Watcher : Live(w)}

(* f gives the time since each probe that runs was started, in a row with the
   time since the last of them: a probe is two children long at most, and
   starts a cache time after the one before.  No probe starts after the stop
   signal, and one whose child the signal did not reach was then at its first. *)
StartAges(f) ==
  /\ \A w \in Probes : /\ stage[w] = "version" => f[w] = child[w].age
                       /\ f[w] <= ProcessTimeout + child[w].age
                       /\ checkedAge <= f[w]
                       /\ server # "up" => stopAge <= f[w]
                       /\ server # "up" /\ child[w].fate = "running" =>
                            f[w] <= ProcessTimeout + stopAge
  /\ \A v, w \in Probes :
       v # w => f[v] + ReadinessCache <= f[w] \/ f[w] + ReadinessCache <= f[v]
Apart == \E f \in [Watcher -> Nat] : StartAges(f)

(* Without a promise no probe has been started, and a probe without a value
   has not come to its second child. *)
Promised ==
  /\ readinessPromise.value = "none" => Probes = {}
  /\ \A w \in Watcher : stage[w] = "validate" => seen[w] # "none"

RowInv == Promised /\ Apart

(* A step that may be the stop signal, which no running child survives; after
   it only the child that follows a version child is a new one. *)
Signalled ==
  server' # "up" =>
    \/ stopAge' = 0 /\ \A w \in Watcher : child'[w].fate # "running"
    \/ /\ server # "up" /\ stopAge' = stopAge
       /\ \A w \in Watcher : Live(w) /\ child'[w].fate = "running" =>
                               child[w].fate = "running" \/ stage[w] = "version"

(* No probe starts: those that run keep their start, and may come to their
   second child. *)
LEMMA NoneStarts ==
  ASSUME IInv, IInv', Apart, UNCHANGED checkedAge, Signalled,
         \A w \in Watcher : Live(w)' =>
           /\ Live(w)
           /\ \/ stage'[w] = stage[w] /\ child'[w].age = child[w].age
              \/ stage[w] = "version" /\ stage'[w] # "version"
  PROVE  Apart'
<1>1. PICK f \in [Watcher -> Nat] : StartAges(f)
  BY DEF Apart
<1>2. \A w \in Watcher : /\ child[w].age \in Nat /\ child[w].age <= ProcessTimeout
                         /\ child'[w].age \in Nat /\ stopAge' \in Nat
  BY Ages, HandlerKinds, LimitTypes DEF IInv, CompanionTypeOK, Child
<1>3. Probes' \subseteq Probes /\ Probes \subseteq Watcher
  BY DEF Probes
<1>4. ASSUME NEW w \in Probes'
      PROVE  /\ stage'[w] = "version" => f[w] = child'[w].age
             /\ f[w] <= ProcessTimeout + child'[w].age
             /\ checkedAge' <= f[w]
             /\ server' # "up" => stopAge' <= f[w]
             /\ server' # "up" /\ child'[w].fate = "running" =>
                  f[w] <= ProcessTimeout + stopAge'
  <2>1. w \in Watcher /\ w \in Probes /\ Live(w)' /\ Live(w) /\ f[w] \in Nat
    BY <1>3 DEF Probes
  <2>2. /\ stage[w] = "version" => f[w] = child[w].age
        /\ f[w] <= ProcessTimeout + child[w].age
        /\ checkedAge <= f[w]
        /\ server # "up" => stopAge <= f[w]
        /\ server # "up" /\ child[w].fate = "running" => f[w] <= ProcessTimeout + stopAge
    BY <1>1, <2>1 DEF StartAges
  <2>3. /\ stage'[w] = "version" => f[w] = child'[w].age
        /\ f[w] <= ProcessTimeout + child'[w].age
    <3>1. CASE stage'[w] = stage[w] /\ child'[w].age = child[w].age
      BY <2>2, <3>1
    <3>2. CASE stage[w] = "version" /\ stage'[w] # "version"
      BY <1>2, <2>1, <2>2, <3>2, LimitTypes
    <3>. QED BY <2>1, <3>1, <3>2
  <2>4. server' # "up" => stopAge' <= f[w]
    BY <2>1, <2>2 DEF Signalled
  <2>5. ASSUME server' # "up", child'[w].fate = "running"
        PROVE  f[w] <= ProcessTimeout + stopAge'
    <3>1. CASE stage[w] = "version"
      BY <1>2, <2>1, <2>2, <3>1, LimitTypes
    <3>2. CASE stage[w] # "version"
      BY <2>1, <2>2, <2>5, <3>2 DEF Signalled
    <3>. QED BY <3>1, <3>2
  <2>. QED BY <2>2, <2>3, <2>4, <2>5
<1>5. StartAges(f)'
  BY <1>1, <1>3, <1>4 DEF StartAges
<1>. QED BY <1>5 DEF Apart

(* Nothing happens to a watcher. *)
LEMMA RowKept ==
  ASSUME IInv, IInv', RowInv, UNCHANGED readiness, Signalled,
         \A w \in Watcher : /\ stage'[w] = stage[w] /\ child'[w].age = child[w].age
                            /\ Live(w)' <=> Live(w)
  PROVE  RowInv'
<1>1. Apart'
  BY NoneStarts DEF RowInv, readiness
<1>2. Promised'
  BY DEF RowInv, Promised, Probes, readiness
<1>. QED BY <1>1, <1>2 DEF RowInv

LEMMA StartRow ==
  ASSUME IInv, IInv', RowInv, NEW w \in Watcher, stage[w] = "idle",
         ~SharesPromise, StartProbe(w), server' = "up"
  PROVE  RowInv'
<1>1. /\ checkedAge' = 0 /\ readinessPromise' = [by |-> w, value |-> "pending"]
      /\ UNCHANGED seen
      /\ child' = [child EXCEPT ![w] = Spawned] /\ stage' = [stage EXCEPT ![w] = "version"]
  BY DEF StartProbe
<1>2. /\ child'[w] = Spawned /\ stage'[w] = "version"
      /\ \A v \in Watcher : v # w => child'[v] = child[v] /\ stage'[v] = stage[v]
  BY <1>1, HandlerKinds DEF IInv, CompanionTypeOK
<1>3. child'[w].age = 0
  BY <1>2 DEF Spawned
<1>4. \A v \in Probes' : v \in Watcher /\ (v # w => v \in Probes)
  BY <1>2 DEF Probes, Live
<1>5. Promised'
  BY <1>1, <1>2 DEF RowInv, Promised
<1>6. PICK f \in [Watcher -> Nat] : StartAges(f)
  BY DEF RowInv, Apart
<1>7. \A v \in Probes : ReadinessCache <= f[v]
  <2>1. CASE readinessPromise.value = "none"
    BY <2>1 DEF RowInv, Promised
  <2>2. CASE readinessPromise.value # "none"
    <3>1. checkedAge = ReadinessCache
      BY <2>2, LimitTypes DEF SharesPromise, IInv, CompanionTypeOK
    <3>. QED BY <1>6, <3>1 DEF StartAges
  <2>. QED BY <2>1, <2>2
<1>. DEFINE g == [f EXCEPT ![w] = 0]
<1>8. /\ g \in [Watcher -> Nat] /\ g[w] = 0
      /\ \A v \in Watcher : v # w => g[v] = f[v]
  OBVIOUS
<1>. HIDE DEF g
<1>9. ASSUME NEW v \in Probes'
      PROVE  /\ stage'[v] = "version" => g[v] = child'[v].age
             /\ g[v] <= ProcessTimeout + child'[v].age
             /\ checkedAge' <= g[v]
  <2>1. CASE v = w
    BY <1>1, <1>3, <1>8, <2>1, LimitTypes
  <2>2. CASE v # w
    <3>1. v \in Probes /\ v \in Watcher /\ g[v] = f[v] /\ g[v] \in Nat
          /\ child'[v] = child[v] /\ stage'[v] = stage[v]
      BY <1>2, <1>4, <1>8, <2>2
    <3>. QED BY <1>1, <1>6, <3>1 DEF StartAges
  <2>. QED BY <2>1, <2>2
<1>10. ASSUME NEW u \in Probes', NEW v \in Probes', u # v
       PROVE  g[u] + ReadinessCache <= g[v] \/ g[v] + ReadinessCache <= g[u]
  <2>1. u \in Watcher /\ v \in Watcher /\ g[u] \in Nat /\ g[v] \in Nat
    BY <1>4, <1>8
  <2>2. CASE u = w \/ v = w
    BY <1>4, <1>7, <1>8, <1>10, <2>1, <2>2, LimitTypes
  <2>3. CASE u # w /\ v # w
    BY <1>4, <1>6, <1>8, <1>10, <2>1, <2>3 DEF StartAges
  <2>. QED BY <2>2, <2>3
<1>11. StartAges(g)'
  BY <1>9, <1>10 DEF StartAges
<1>12. Apart'
  BY <1>8, <1>11 DEF Apart
<1>. QED BY <1>5, <1>12 DEF RowInv

LEMMA ReadyzRow ==
  ASSUME IInv, IInv', RowInv, NEW w \in Watcher, Readyz(w)
  PROVE  RowInv'
<1>1. stage[w] = "idle" /\ ~Live(w)
  BY HandlerKinds DEF Readyz, IInv, LiveIsBusy, Busy
<1>2. CASE UNCHANGED <<process, readiness>>
  <2>1. Signalled
    BY <1>2 DEF Readyz, Signalled, process, lifecycle
  <2>. QED BY <1>2, <2>1, RowKept DEF process, Live
<1>3. CASE JoinProbe(w)
  <2>1. /\ UNCHANGED <<child, readinessPromise, checkedAge, seen>> /\ stage'[w] = "await"
        /\ \A v \in Watcher : v # w => stage'[v] = stage[v]
    BY <1>3, HandlerKinds DEF JoinProbe, IInv, CompanionTypeOK
  <2>. Signalled
    BY <2>1 DEF Readyz, Signalled, lifecycle
  <2>2. Apart'
    BY <1>1, <2>1, NoneStarts DEF RowInv, Live
  <2>3. Promised'
    BY <1>1, <2>1 DEF RowInv, Promised, Probes, Live
  <2>. QED BY <2>2, <2>3 DEF RowInv
<1>. QED BY <1>1, <1>2, <1>3, StartRow DEF Readyz, TakeSettled, lifecycle

LEMMA SettlingRow ==
  ASSUME IInv, IInv', RowInv, NEW w \in Watcher, stage[w] \in {"version", "validate"},
         NEW value \in Outcome \ {"none"}, ProbeSettles(w, value), Closed(w),
         UNCHANGED <<checkedAge, lifecycle>>
  PROVE  RowInv'
<1>1. \A v \in Waiters(w) : v # w => stage[v] \notin {"version", "validate"}
  BY DEF Waiters, IInv, RunnerAwaits
<1>2. /\ child'[w] = NoChild
      /\ \A v \in Watcher : v # w => child'[v] = child[v] /\ seen'[v] = seen[v]
      /\ readinessPromise' = [by |-> Nobody, value |-> value] \/ readinessPromise' = readinessPromise
  BY HandlerKinds DEF Closed, ProbeSettles, IInv, CompanionTypeOK
<1>3. stage'[w] = "idle"
  BY HandlerKinds DEF ProbeSettles, Waiters, IInv, RunnerAwaits
<1>4. \A v \in Watcher : stage[v] \in {"version", "validate"} /\ v # w => stage'[v] = stage[v]
  BY <1>1, HandlerKinds DEF ProbeSettles
<1>5. \A v \in Watcher : Live(v)' => Live(v) /\ v # w /\ stage[v] \in {"version", "validate"}
  BY <1>2, HandlerKinds DEF Live, NoChild, IInv, LiveIsBusy, OwnPath, Busy
<1>6. Apart'
  <2>1. Signalled
    BY <1>2 DEF Signalled, NoChild, lifecycle
  <2>. QED BY <1>2, <1>4, <1>5, <2>1, NoneStarts DEF RowInv
<1>7. readinessPromise'.value = "none" => Probes' = {}
  BY <1>2, <1>5 DEF RowInv, Promised, Probes
<1>8. \A v \in Watcher : stage'[v] = "validate" => v # w /\ stage[v] = "validate"
  BY <1>3, HandlerKinds DEF ProbeSettles
<1>. QED BY <1>2, <1>6, <1>7, <1>8 DEF RowInv, Promised

LEMMA ProbeRow ==
  ASSUME IInv, IInv', RowInv, NEW w \in Watcher, VersionCloses(w) \/ ValidationCloses(w)
  PROVE  RowInv'
<1>1. CASE VersionCloses(w)
  <2>1. PICK result \in Settled(w) :
          IF result \in {"pinned", "other"}
          THEN /\ stage' = [stage EXCEPT ![w] = "validate"]
               /\ seen' = [seen EXCEPT ![w] = result]
               /\ child' = [child EXCEPT ![w] = Spawned]
               /\ reply' = "none"
               /\ UNCHANGED <<activeChildren, client, readinessPromise, joined>>
          ELSE ProbeSettles(w, "failed") /\ Closed(w)
    BY <1>1 DEF VersionCloses
  <2>2. stage[w] = "version" /\ Live(w) /\ UNCHANGED <<checkedAge, lifecycle>>
    BY <1>1 DEF VersionCloses
  <2>3. CASE result \in {"pinned", "other"}
    <3>1. /\ stage'[w] = "validate" /\ seen'[w] = result /\ UNCHANGED readinessPromise
          /\ \A v \in Watcher : v # w => /\ child'[v] = child[v] /\ stage'[v] = stage[v]
                                         /\ seen'[v] = seen[v]
      BY <2>1, <2>3, HandlerKinds DEF IInv, CompanionTypeOK
    <3>. Signalled
      BY <2>2, <3>1 DEF Signalled, lifecycle
    <3>2. Apart'
      BY <2>2, <3>1, NoneStarts DEF RowInv, Live
    <3>3. Promised'
      BY <2>2, <2>3, <3>1 DEF RowInv, Promised, Probes, Live
    <3>. QED BY <3>2, <3>3 DEF RowInv
  <2>4. CASE result \notin {"pinned", "other"}
    BY <2>1, <2>2, <2>4, SettlingRow DEF Outcome
  <2>. QED BY <2>3, <2>4
<1>2. CASE ValidationCloses(w)
  <2>1. PICK result \in Settled(w) :
          ProbeSettles(w, IF result = "refused" THEN seen[w] ELSE "failed")
    BY <1>2 DEF ValidationCloses
  <2>2. stage[w] = "validate" /\ Closed(w) /\ UNCHANGED <<checkedAge, lifecycle>>
    BY <1>2 DEF ValidationCloses
  <2>3. (IF result = "refused" THEN seen[w] ELSE "failed") \in Outcome \ {"none"}
    BY <2>2 DEF RowInv, Promised, IInv, CompanionTypeOK, Version, Outcome
  <2>. QED BY <2>1, <2>2, <2>3, SettlingRow
<1>. QED BY <1>1, <1>2

LEMMA TickRow ==
  ASSUME IInv, IInv', RowInv, KilledOnExit, Tick
  PROVE  RowInv'
<1>1. /\ UNCHANGED <<stage, readinessPromise, seen>>
      /\ checkedAge' \in Nat /\ checkedAge' <= checkedAge + 1 /\ checkedAge \in Nat
  BY LimitTypes, AtMostType, Ages DEF Tick, IInv, CompanionTypeOK
<1>2. \A w \in Watcher : /\ Live(w)' <=> Live(w)
                         /\ Live(w) => child'[w].age = child[w].age + 1
                         /\ child[w].age \in Nat
                         /\ child'[w].fate = child[w].fate
  BY TickAges, Ages, HandlerKinds DEF Tick, IInv, CompanionTypeOK, Child
<1>11. server' = server /\ stopAge \in Nat /\ stopAge' \in Nat
       /\ (server # "up" => stopAge' = stopAge + 1)
  <2>1. stopAge \in 0..ShutdownTimeout
    BY DEF IInv, CompanionTypeOK
  <2>2. server # "up" => server = "stopping" /\ stopAge # ShutdownTimeout
    BY DEF Tick, Serving, Due, ShutdownDue
  <2>. QED BY <2>1, <2>2, LimitTypes, AtMostType DEF Tick
<1>3. Probes' = Probes /\ \A w \in Probes : w \in Watcher /\ Live(w)
  BY <1>2 DEF Probes
<1>4. PICK f \in [Watcher -> Nat] : StartAges(f)
  BY DEF RowInv, Apart
<1>. DEFINE g == [w \in Watcher |-> f[w] + 1]
<1>5. g \in [Watcher -> Nat] /\ \A w \in Watcher : g[w] = f[w] + 1 /\ f[w] \in Nat
  OBVIOUS
<1>. HIDE DEF g
<1>6. ASSUME NEW w \in Probes
      PROVE  /\ stage'[w] = "version" => g[w] = child'[w].age
             /\ g[w] <= ProcessTimeout + child'[w].age
             /\ checkedAge' <= g[w]
             /\ server' # "up" => stopAge' <= g[w]
             /\ server' # "up" /\ child'[w].fate = "running" =>
                  g[w] <= ProcessTimeout + stopAge'
  <2>1. /\ stage[w] = "version" => f[w] = child[w].age
        /\ f[w] <= ProcessTimeout + child[w].age
        /\ checkedAge <= f[w]
        /\ server # "up" => stopAge <= f[w]
        /\ server # "up" /\ child[w].fate = "running" => f[w] <= ProcessTimeout + stopAge
    BY <1>4 DEF StartAges
  <2>2. /\ child'[w].age = child[w].age + 1 /\ child[w].age \in Nat
        /\ g[w] = f[w] + 1 /\ f[w] \in Nat /\ child'[w].fate = child[w].fate
    BY <1>2, <1>3, <1>5
  <2>3. /\ stage'[w] = "version" => g[w] = child'[w].age
        /\ g[w] <= ProcessTimeout + child'[w].age
        /\ checkedAge' <= g[w]
    BY <1>1, <2>1, <2>2, LimitTypes
  <2>4. /\ server' # "up" => stopAge' <= g[w]
        /\ server' # "up" /\ child'[w].fate = "running" => g[w] <= ProcessTimeout + stopAge'
    BY <1>11, <2>1, <2>2, LimitTypes
  <2>. QED BY <2>3, <2>4
<1>7. ASSUME NEW u \in Probes, NEW v \in Probes, u # v
      PROVE  g[u] + ReadinessCache <= g[v] \/ g[v] + ReadinessCache <= g[u]
  <2>1. f[u] + ReadinessCache <= f[v] \/ f[v] + ReadinessCache <= f[u]
    BY <1>4, <1>7 DEF StartAges
  <2>2. g[u] = f[u] + 1 /\ g[v] = f[v] + 1 /\ f[u] \in Nat /\ f[v] \in Nat
    BY <1>3, <1>5
  <2>. QED BY <2>1, <2>2, LimitTypes
<1>8. StartAges(g)'
  BY <1>3, <1>6, <1>7 DEF StartAges
<1>9. Apart'
  BY <1>5, <1>8 DEF Apart
<1>10. Promised'
  BY <1>1, <1>3 DEF RowInv, Promised
<1>. QED BY <1>9, <1>10 DEF RowInv

LEMMA EventSignalled ==
  ASSUME IInv,
         \/ \E h \in Handler : ClientLeaves(h) \/ TimerFires(h) \/ OutputExceeds(h)
         \/ BeginShutdown \/ GracefulExit \/ ForcedExit
  PROVE  Signalled
<1>1. CASE \E h \in Handler : ClientLeaves(h)
  BY <1>1 DEF ClientLeaves, Signalled, process, lifecycle
<1>2. ASSUME NEW h \in Handler, TimerFires(h) \/ OutputExceeds(h)
      PROVE  Signalled
  <2>1. PICK f \in {"timedOut", "outputExceeded"} : child' = [child EXCEPT ![h].fate = f]
    BY <1>2 DEF TimerFires, OutputExceeds
  <2>2. \A w \in Watcher : child'[w] = child[w] \/ child'[w].fate # "running"
    BY <2>1, HandlerKinds DEF IInv, CompanionTypeOK, Child
  <2>. QED BY <1>2, <2>2 DEF TimerFires, OutputExceeds, Signalled, lifecycle
<1>3. CASE BeginShutdown
  <2>1. \A h \in Handler : child'[h].fate # "running"
    BY <1>3 DEF BeginShutdown, Termed, IInv, ActiveIsLive, Live, CompanionTypeOK, Child
  <2>. QED BY <1>3, <2>1, HandlerKinds DEF BeginShutdown, Signalled
<1>4. CASE GracefulExit
  BY <1>4 DEF GracefulExit, Signalled, process
<1>5. CASE ForcedExit
  <2>1. \A h \in Handler : child'[h].fate # "running"
    BY <1>5 DEF ForcedExit, IInv, ActiveIsLive, Live, CompanionTypeOK, Child
  <2>. QED BY <1>5, <2>1, HandlerKinds DEF ForcedExit, Signalled
<1>. QED BY <1>1, <1>2, <1>3, <1>4, <1>5

LEMMA NextRow ==
  ASSUME IInv, RowInv, KilledOnExit, [Next]_vars
  PROVE  RowInv'
<1>1. IInv'
  BY NextInv
<1>2. ASSUME NEW c \in Caller,
             \/ \E r \in Request : Qualify(c, r)
             \/ BodyEnds(c) \/ BodyAborts(c) \/ PolicyAnswers(c)
      PROVE  RowInv'
  <2>1. UNCHANGED readiness /\ \A w \in Watcher : stage'[w] = stage[w] /\ child'[w] = child[w]
    BY <1>2, HandlerKinds
       DEF Qualify, BodyEnds, BodyAborts, PolicyAnswers, Release, Closed, IInv, CompanionTypeOK
  <2>2. Signalled
    BY <1>2, <2>1 DEF Qualify, BodyEnds, BodyAborts, PolicyAnswers, Signalled, lifecycle
  <2>. QED BY <1>1, <2>1, <2>2, RowKept DEF Live
<1>3. CASE \/ \E h \in Handler : ClientLeaves(h) \/ TimerFires(h) \/ OutputExceeds(h)
           \/ BeginShutdown \/ GracefulExit \/ ForcedExit
  <2>1. /\ UNCHANGED <<readiness, stage>>
        /\ \A w \in Watcher : (Live(w)' <=> Live(w)) /\ child'[w].age = child[w].age
    BY <1>3, EventKeeps, HandlerKinds
  <2>. QED BY <1>1, <1>3, <2>1, EventSignalled, RowKept
<1>4. CASE UNCHANGED vars \/ ReplaceEngine
  <2>1. UNCHANGED <<readiness, stage, child, lifecycle>>
    BY <1>4 DEF vars, process, ReplaceEngine
  <2>2. Signalled
    BY <2>1 DEF Signalled, lifecycle
  <2>. QED BY <1>1, <2>1, <2>2, RowKept DEF Live
<1>. QED BY <1>1, <1>2, <1>3, <1>4, ReadyzRow, ProbeRow, TickRow DEF Next

LEMMA InitRow == Init => RowInv
<1>. SUFFICES ASSUME Init PROVE RowInv
  OBVIOUS
<1>1. Probes = {} /\ \A w \in Watcher : stage[w] = "idle"
  BY HandlerKinds DEF Init, Probes, Live, NoChild
<1>2. Promised
  BY <1>1 DEF Promised
<1>3. [w \in Watcher |-> 0] \in [Watcher -> Nat] /\ StartAges([w \in Watcher |-> 0])
  BY <1>1 DEF StartAges
<1>. QED BY <1>2, <1>3 DEF RowInv, Apart

(* Two numbers d apart are in different intervals of length d. *)
LEMMA Intervals ==
  ASSUME NEW a \in Nat, NEW b \in Nat, NEW d \in Nat \ {0}
  PROVE  /\ a \div d \in Nat
         /\ a + d <= b => a \div d # b \div d
         /\ a <= b => a \div d <= b \div d
<1>1. PICK q \in Nat : q = a \div d /\ d * q <= a /\ a < d * q + d
  OBVIOUS
<1>2. PICK r \in Nat : r = b \div d /\ d * r <= b /\ b < d * r + d
  OBVIOUS
<1>3. ASSUME a <= b, r < q PROVE FALSE
  <2>1. PICK k \in Nat : q = (r + 1) + k
    <3>1. q - (r + 1) \in Nat /\ q = (r + 1) + (q - (r + 1))
      BY <1>3
    <3>. QED BY <3>1
  <2>2. d * q = (d * r + d) + d * k
    BY <2>1
  <2>3. d * k \in Nat /\ d * r \in Nat
    OBVIOUS
  <2>. QED BY <1>1, <1>2, <1>3, <2>2, <2>3
<1>. QED BY <1>1, <1>2, <1>3

(* So many numbers are up to a longest and ReadinessCache apart. *)
LEMMA SpacedBound ==
  ASSUME NEW S, IsFiniteSet(S), NEW f \in [S -> Nat], NEW longest \in Nat,
         \A w \in S : f[w] <= longest,
         \A v, w \in S : v # w => f[v] + ReadinessCache <= f[w] \/ f[w] + ReadinessCache <= f[v]
  PROVE  Cardinality(S) <= longest \div ReadinessCache + 1
<1>. DEFINE most == longest \div ReadinessCache
<1>1. ReadinessCache \in Nat \ {0} /\ most \in Nat
  BY LimitAssumption, Intervals
<1>. HIDE DEF most
<1>. DEFINE place == [w \in S |-> f[w] \div ReadinessCache]
<1>2. ASSUME NEW w \in S PROVE place[w] \in 0 .. most
  <2>1. f[w] \div ReadinessCache \in Nat /\ f[w] \div ReadinessCache <= longest \div ReadinessCache
    BY <1>1, Intervals
  <2>. QED BY <1>1, <2>1 DEF most
<1>3. ASSUME NEW v \in S, NEW w \in S, v # w PROVE place[v] # place[w]
  <2>1. f[v] \div ReadinessCache # f[w] \div ReadinessCache
    BY <1>1, <1>3, Intervals
  <2>. QED BY <2>1
<1>4. place \in Injection(S, 0 .. most)
  BY <1>2, <1>3 DEF Injection, IsInjective
<1>5. IsFiniteSet(0 .. most) /\ Cardinality(0 .. most) = most + 1
  <2>1. 0 <= most
    BY <1>1
  <2>. QED BY <1>1, <2>1, FS_Interval
<1>6. Cardinality(S) <= Cardinality(0 .. most)
  BY <1>4, <1>5, FS_Injection
<1>. QED BY <1>5, <1>6 DEF most

(* Probes that start a cache time apart and are two children long. *)
LEMMA RowBounds ==
  ASSUME IInv, RowInv
  PROVE  Cardinality(Probes) <= (2 * ProcessTimeout) \div ReadinessCache + 1
<1>1. PICK f \in [Watcher -> Nat] : StartAges(f)
  BY DEF RowInv, Apart
<1>2. Probes \subseteq Watcher /\ IsFiniteSet(Probes)
  <2>1. Probes \subseteq Watcher /\ Watcher \subseteq Handler
    BY DEF Probes, Handler
  <2>. QED BY <2>1, HandlerAssumption, FS_Subset
<1>. DEFINE g == [w \in Probes |-> f[w]]
<1>3. g \in [Probes -> Nat] /\ \A w \in Probes : g[w] = f[w]
  BY <1>2
<1>. HIDE DEF g
<1>4. 2 * ProcessTimeout \in Nat
  BY LimitTypes
<1>5. ASSUME NEW w \in Probes PROVE g[w] <= 2 * ProcessTimeout
  <2>1. f[w] <= ProcessTimeout + child[w].age /\ child[w].age \in Nat
        /\ child[w].age <= ProcessTimeout /\ f[w] \in Nat
    BY <1>1, <1>2, Ages, HandlerKinds DEF StartAges
  <2>. QED BY <1>3, <2>1, LimitTypes
<1>6. \A v, w \in Probes :
        v # w => g[v] + ReadinessCache <= g[w] \/ g[w] + ReadinessCache <= g[v]
  BY <1>1, <1>3 DEF StartAges
<1>. QED BY <1>2, <1>3, <1>4, <1>5, <1>6, SpacedBound

(* Probes whose child the stop signal did not reach had started within one
   process timeout before it. *)
LEMMA LeftBounds ==
  ASSUME IInv, RowInv, server # "up"
  PROVE  Cardinality(LeftBehind \intersect Watcher) <= ProcessTimeout \div ReadinessCache + 1
<1>. DEFINE S == LeftBehind \intersect Watcher
<1>1. PICK f \in [Watcher -> Nat] : StartAges(f)
  BY DEF RowInv, Apart
<1>2. /\ S \subseteq Probes /\ S \subseteq Watcher /\ IsFiniteSet(S)
      /\ \A w \in S : child[w].fate = "running"
  <2>1. S \subseteq Probes /\ S \subseteq Handler
    BY DEF LeftBehind, Probes, Live
  <2>2. IsFiniteSet(S)
    BY <2>1, HandlerAssumption, FS_Subset
  <2>. QED BY <2>1, <2>2 DEF LeftBehind
<1>3. stopAge \in Nat /\ ProcessTimeout \in Nat /\ ReadinessCache \in Nat
  BY LimitTypes DEF IInv, CompanionTypeOK
<1>. HIDE DEF S
<1>4. ASSUME NEW w \in S
      PROVE  f[w] \in Nat /\ stopAge <= f[w] /\ f[w] <= ProcessTimeout + stopAge
  BY <1>1, <1>2 DEF StartAges
<1>. DEFINE g == [w \in S |-> f[w] - stopAge]
<1>5. g \in [S -> Nat] /\ \A w \in S : g[w] = f[w] - stopAge
  BY <1>3, <1>4
<1>. HIDE DEF g
<1>6. \A w \in S : g[w] <= ProcessTimeout
  BY <1>3, <1>4, <1>5
<1>7. ASSUME NEW v \in S, NEW w \in S, v # w
      PROVE  g[v] + ReadinessCache <= g[w] \/ g[w] + ReadinessCache <= g[v]
  <2>1. f[v] + ReadinessCache <= f[w] \/ f[w] + ReadinessCache <= f[v]
    BY <1>1, <1>2, <1>7 DEF StartAges
  <2>. QED BY <1>3, <1>4, <1>5, <2>1
<1>8. Cardinality(S) <= ProcessTimeout \div ReadinessCache + 1
  BY <1>2, <1>3, <1>5, <1>6, <1>7, SpacedBound
<1>. QED BY <1>8 DEF S

(* activeChildren holds every live engine process, and no more probes run at
   once than the cache time lets start within the two process timeouts that a
   probe may take (coalescedReadinessProbe, executePolicy): with 2 s for both,
   three. *)
THEOREM EnginesBoundedHolds == Spec => []EnginesBounded
<1>1. ASSUME IInv, RowInv PROVE EnginesBounded
  <2>1. activeChildren = {h \in Handler : Live(h)}
    BY <1>1 DEF IInv, ActiveIsLive
  <2>2. activeChildren \intersect Watcher = Probes
    BY <2>1 DEF Probes, Handler
  <2>. QED BY <1>1, <2>1, <2>2, RowBounds DEF EnginesBounded
<1>. QED BY <1>1, InitRow, InitFresh, InvHolds, NextRow, KilledStep, PTL DEF Spec

(* A forced exit leaves only engines that were killed.  An exit with code 0 may
   leave engines that were started after the stop signal for clients that have
   gone: no more of them than there are slots for requests (MAX_CONCURRENT),
   and no more than the probes that one process timeout before the signal has
   room for (shutdown, executePolicy, verifyPolicyReady): with 2 s for both,
   two. *)
THEOREM NoEngineForgottenHolds == Spec => []NoEngineForgotten
<1>1. ASSUME IInv, RowInv, server = "exited"
      PROVE  Cardinality(LeftBehind \intersect Caller) <= MaxConcurrent
  <2>1. LeftBehind \intersect Caller \subseteq Slots
    BY <1>1, HandlerKinds DEF LeftBehind, Slots, IInv, LiveIsBusy, OwnPath, Live, Busy
  <2>2. Cardinality(LeftBehind \intersect Caller) <= Cardinality(Slots)
        /\ Cardinality(LeftBehind \intersect Caller) \in Nat
    BY <2>1, SlotsFinite, FS_Subset, FS_CardinalityType
  <2>3. Cardinality(Slots) <= MaxConcurrent
    BY <1>1, LimitTypes DEF IInv, CompanionTypeOK, SlotsExact, Slots
  <2>. QED BY <2>2, <2>3, SlotsFinite, LimitTypes
<1>2. ASSUME IInv, RowInv PROVE NoEngineForgotten
  BY <1>1, <1>2, LeftBounds DEF NoEngineForgotten, LeftBehind, IInv, EachAccounted
<1>. QED BY <1>2, InitRow, InitFresh, InvHolds, NextRow, KilledStep, PTL DEF Spec
=============================================================================
