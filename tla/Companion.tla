------------------------------ MODULE Companion ------------------------------
(***************************************************************************)
(* The companion service (companion/server.mjs): one Node process that     *)
(* runs the policy engine as a child process per request.  Callers ask for *)
(* POST /v2/qualify and compete for MaxConcurrent slots; watchers ask for  *)
(* GET /readyz and share one run of the readiness probe, two children in a *)
(* row.  Bodies, children, timers, departing clients and the stop signal   *)
(* come in any order.                                                      *)
(*                                                                         *)
(* A handler is one connection with one request at a time.  Time passes in *)
(* ticks: a timer that is due fires, and a killed child closes, before the *)
(* next tick.  The engine's binary and configuration may be replaced while *)
(* the service runs; the version of the start, checked before it listens,  *)
(* is the pinned one.  GET /healthz only reads the stop flag: left out.    *)
(***************************************************************************)
EXTENDS Integers, FiniteSets

CONSTANTS
  Caller,           \* connections that post requests
  Watcher,          \* connections that ask for readiness
  Engines,          \* what may be installed: a set of engine records
  MaxConcurrent,    \* 32 in the code
  ProcessTimeout,   \* in ticks; 2 s in the code
  ReadinessCache,   \* in ticks; 2 s
  ShutdownTimeout,  \* in ticks; 5 s
  Nobody

Engine == [pinned : BOOLEAN, valid : BOOLEAN]
Good == [pinned |-> TRUE, valid |-> TRUE]
Handler == Caller \union Watcher

ASSUME HandlerAssumption ==
  Caller \intersect Watcher = {} /\ Nobody \notin Handler /\ IsFiniteSet(Handler)
ASSUME EngineAssumption == Engines \subseteq Engine /\ Good \in Engines
ASSUME LimitAssumption ==
  /\ MaxConcurrent \in Nat \ {0}
  /\ ProcessTimeout \in Nat \ {0}
  /\ ReadinessCache \in Nat \ {0}
  /\ ShutdownTimeout \in Nat \ {0}

VARIABLES
  server,            \* "up", "stopping", "exited" (code 0) or "killed" (code 1)
  stopAge,           \* ticks since the stop signal
  stage,             \* where each handler waits
  client,            \* whether the client of its request still does
  child,             \* the engine process it runs
  activeChildren,    \* the set of that name, by handler
  inFlight,          \* the counter of that name
  readinessPromise,  \* the shared probe: who runs it and what it came to
  checkedAge,        \* ticks since readinessCheckedAt
  joined,            \* whose probe a watcher awaits
  seen,              \* what a probe's version child printed
  reply,             \* the status sent by the last step, or "none"
  engine,            \* what is installed
  sincePinned,       \* history: ticks since it had the pinned version ...
  sinceValid         \* ... and since its configuration was valid

process == <<stage, child, activeChildren>>
readiness == <<readinessPromise, checkedAge, joined, seen>>
lifecycle == <<server, stopAge>>
world == <<engine, sincePinned, sinceValid>>
vars == <<process, client, inFlight, readiness, lifecycle, reply, world>>

Stage == {"idle", "body", "engine", "version", "validate", "await"}
Fate == {"none", "running", "timedOut", "outputExceeded", "termed", "killed"}
Child == [fate : Fate, age : 0..ProcessTimeout, image : Engine]
NoChild == [fate |-> "none", age |-> 0, image |-> Good]
Version == {"none", "pinned", "other"}
Outcome == {"none", "pending", "pinned", "other", "failed"}
Status == {"none", "ok", "refused", "rejected", "tooLarge", "busy", "timeout",
           "unavailable", "ready", "notReady"}
Longest == 2 * ProcessTimeout + ReadinessCache

CompanionTypeOK ==
  /\ server \in {"up", "stopping", "exited", "killed"}
  /\ stopAge \in 0..ShutdownTimeout
  /\ stage \in [Handler -> Stage]
  /\ client \in [Handler -> {"waiting", "left"}]
  /\ child \in [Handler -> Child]
  /\ activeChildren \subseteq Handler
  /\ inFlight \in 0..MaxConcurrent
  /\ readinessPromise \in [by : Watcher \union {Nobody}, value : Outcome]
  /\ checkedAge \in 0..ReadinessCache
  /\ joined \in [Watcher -> Watcher \union {Nobody}]
  /\ seen \in [Watcher -> Version]
  /\ reply \in Status
  /\ engine \in Engines
  /\ sincePinned \in 0..Longest
  /\ sinceValid \in 0..Longest

(* The service listens once verifyPolicyReady has fixed the version. *)
Init ==
  /\ server = "up" /\ stopAge = 0
  /\ stage = [h \in Handler |-> "idle"]
  /\ client = [h \in Handler |-> "waiting"]
  /\ child = [h \in Handler |-> NoChild]
  /\ activeChildren = {}
  /\ inFlight = 0
  /\ readinessPromise = [by |-> Nobody, value |-> "none"]
  /\ checkedAge = ReadinessCache
  /\ joined = [w \in Watcher |-> Nobody]
  /\ seen = [w \in Watcher |-> "none"]
  /\ reply = "none"
  /\ engine = Good /\ sincePinned = 0 /\ sinceValid = 0

Serving == server \in {"up", "stopping"}
Live(h) == child[h].fate # "none"
Spawned == [fate |-> "running", age |-> 0, image |-> engine]
AtMost(n, limit) == IF n < limit THEN n ELSE limit
-----------------------------------------------------------------------------
(* POST /v2/qualify *)

(* Bug: the limit is exceeded by one. *)
FullTooLate == inFlight > MaxConcurrent

Full == inFlight >= MaxConcurrent

Request == {"foreign", "malformed", "declaredTooLarge", "proper"}

(* The checks before admission, in the order of the code: path, method and key,
   the stop flag, type and length, the limit. *)
Verdict(request) ==
  CASE request = "foreign" -> "rejected"
    [] request # "foreign" /\ server = "stopping" -> "unavailable"
    [] request = "malformed" /\ server = "up" -> "rejected"
    [] request = "declaredTooLarge" /\ server = "up" -> "tooLarge"
    [] OTHER -> IF Full THEN "busy" ELSE "admitted"

(* A connection kept alive still carries requests after the stop signal. *)
Qualify(c, request) ==
  /\ Serving /\ stage[c] = "idle"
  /\ IF Verdict(request) = "admitted"
     THEN /\ stage' = [stage EXCEPT ![c] = "body"]
          /\ inFlight' = inFlight + 1
          /\ reply' = "none"
     ELSE /\ reply' = Verdict(request)
          /\ UNCHANGED <<stage, inFlight>>
  /\ UNCHANGED <<child, activeChildren, client, readiness, lifecycle, world>>

(* The catch and finally blocks: one answer, one slot returned. *)
Release(c, status) ==
  /\ stage' = [stage EXCEPT ![c] = "idle"]
  /\ inFlight' = inFlight - 1
  /\ client' = [client EXCEPT ![c] = "waiting"]
  /\ reply' = IF client[c] = "waiting" THEN status ELSE "none"

(* The body's end: too large, not UTF-8, or a child is started for it, also
   when the stop signal has come meanwhile. *)
BodyEnds(c) ==
  /\ Serving /\ stage[c] = "body" /\ client[c] = "waiting"
  /\ \/ \E status \in {"tooLarge", "refused"} : Release(c, status)
        /\ UNCHANGED <<child, activeChildren>>
     \/ /\ stage' = [stage EXCEPT ![c] = "engine"]
        /\ child' = [child EXCEPT ![c] = Spawned]
        /\ activeChildren' = activeChildren \union {c}
        /\ reply' = "none"
        /\ UNCHANGED <<client, inFlight>>
  /\ UNCHANGED <<readiness, lifecycle, world>>

(* Bug: the slot of an aborted body is not returned. *)
BodyAbortsLeaking(c) ==
  /\ Serving /\ stage[c] = "body"
  /\ stage' = [stage EXCEPT ![c] = "idle"]
  /\ client' = [client EXCEPT ![c] = "waiting"]
  /\ reply' = "none"
  /\ UNCHANGED <<inFlight, child, activeChildren, readiness, lifecycle, world>>

(* The request is aborted, or exceeds requestTimeout: the connection is gone. *)
BodyAborts(c) ==
  /\ Serving /\ stage[c] = "body"
  /\ Release(c, "none")
  /\ UNCHANGED <<child, activeChildren, readiness, lifecycle, world>>

ClientLeaves(h) ==
  /\ Serving /\ stage[h] # "idle" /\ client[h] = "waiting"
  /\ client' = [client EXCEPT ![h] = "left"]
  /\ reply' = "none"
  /\ UNCHANGED <<process, inFlight, readiness, lifecycle, world>>
-----------------------------------------------------------------------------
(* executePolicy: a child process and its timer *)

(* Bug: the timer is cleared when the client goes. *)
TimerDueForClient(h) == child[h].age = ProcessTimeout /\ client[h] = "waiting"

TimerDue(h) == child[h].age = ProcessTimeout

TimerFires(h) ==
  /\ Serving /\ Live(h)
  /\ child[h].fate # "timedOut" /\ TimerDue(h)
  /\ child' = [child EXCEPT ![h].fate = "timedOut"]
  /\ reply' = "none"
  /\ UNCHANGED <<stage, activeChildren, client, inFlight, readiness, lifecycle, world>>

OutputExceeds(h) ==
  /\ Serving
  /\ child[h].fate = "running" /\ child[h].image # Good
  /\ child' = [child EXCEPT ![h].fate = "outputExceeded"]
  /\ reply' = "none"
  /\ UNCHANGED <<stage, activeChildren, client, inFlight, readiness, lifecycle, world>>

(* Bug: the body is compared with its own version. *)
CompatibleAlways(image) == TRUE

(* validateSuccessBody: the version is the one of the start. *)
Compatible(image) == image.pinned

(* What a child that runs to its end makes of its arguments and input: the
   probe's second child gets an empty object, which a usable engine refuses;
   a success body of another version is incompatible; another binary may not
   even tell its version. *)
Printed(h, image) ==
  CASE stage[h] = "version" -> IF image.pinned THEN {"pinned"} ELSE {"other", "failed"}
    [] stage[h] # "version" /\ ~image.valid -> {"failed"}
    [] stage[h] = "validate" /\ image.valid -> {"refused"}
    [] OTHER -> {"refused", IF Compatible(image) THEN "ok" ELSE "failed"}

(* What the promise of a child settles to when it closes.  A timeout wins;
   one that is told to stop may have finished already. *)
Settled(h) ==
  CASE child[h].fate = "timedOut" -> {"timeout"}
    [] child[h].fate = "outputExceeded" -> {"failed"}
    [] OTHER -> Printed(h, child[h].image)
                \union {r \in {"failed"} : child[h].fate = "termed"}

Closed(h) ==
  /\ child' = [child EXCEPT ![h] = NoChild]
  /\ activeChildren' = activeChildren \ {h}

(* evaluatePolicy: 200 only for a valid answer of the pinned version. *)
PolicyAnswers(c) ==
  /\ Serving /\ stage[c] = "engine" /\ Live(c)
  /\ \E result \in Settled(c) :
       Release(c, IF result = "failed" THEN "unavailable" ELSE result)
  /\ Closed(c)
  /\ UNCHANGED <<readiness, lifecycle, world>>
-----------------------------------------------------------------------------
(* GET /readyz *)

Waiters(w) == {v \in Watcher : joined[v] = w}

(* A probe's promise settles: everyone who awaits it is answered. *)
ProbeSettles(w, value) ==
  /\ stage' = [h \in Handler |-> IF h \in Waiters(w) THEN "idle" ELSE stage[h]]
  /\ joined' = [v \in Watcher |-> IF v \in Waiters(w) THEN Nobody ELSE joined[v]]
  /\ client' = [h \in Handler |-> IF h \in Waiters(w) THEN "waiting" ELSE client[h]]
  /\ seen' = [seen EXCEPT ![w] = "none"]
  /\ readinessPromise' = IF readinessPromise.by = w
                         THEN [by |-> Nobody, value |-> value]
                         ELSE readinessPromise
  /\ reply' = IF \A v \in Waiters(w) : client[v] = "left" THEN "none"
              ELSE IF value = "pinned" THEN "ready" ELSE "notReady"

(* Bug: only a settled promise is shared. *)
SharesSettled == readinessPromise.value \notin {"none", "pending"} /\ checkedAge < ReadinessCache

(* Bug: a rejected promise is kept until it is replaced. *)
SharesFailure ==
  readinessPromise.value # "none" /\ (checkedAge < ReadinessCache \/ readinessPromise.value = "failed")

(* coalescedReadinessProbe: a promise younger than the cache time is shared,
   whatever it came to; otherwise the caller starts a run of its own. *)
SharesPromise == readinessPromise.value # "none" /\ checkedAge < ReadinessCache

JoinProbe(w) ==
  /\ readinessPromise.value = "pending"
  /\ stage' = [stage EXCEPT ![w] = "await"]
  /\ joined' = [joined EXCEPT ![w] = readinessPromise.by]
  /\ reply' = "none"
  /\ UNCHANGED <<child, activeChildren, readinessPromise, checkedAge, seen>>

TakeSettled ==
  /\ readinessPromise.value \notin {"none", "pending"}
  /\ reply' = IF readinessPromise.value = "pinned" THEN "ready" ELSE "notReady"
  /\ UNCHANGED <<process, readiness>>

StartProbe(w) ==
  /\ checkedAge' = 0
  /\ readinessPromise' = [by |-> w, value |-> "pending"]
  /\ stage' = [stage EXCEPT ![w] = "version"]
  /\ joined' = [joined EXCEPT ![w] = w]
  /\ child' = [child EXCEPT ![w] = Spawned]
  /\ activeChildren' = activeChildren \union {w}
  /\ reply' = "none"
  /\ UNCHANGED seen

Readyz(w) ==
  /\ Serving /\ stage[w] = "idle"
  /\ \/ server = "stopping" /\ reply' = "notReady" /\ UNCHANGED <<process, readiness>>
     \/ server = "up" /\ SharesPromise /\ (JoinProbe(w) \/ TakeSettled)
     \/ server = "up" /\ ~SharesPromise /\ StartProbe(w)
  /\ UNCHANGED <<client, inFlight, lifecycle, world>>

(* verifyPolicyReady after its first child: a second one, on the same terms. *)
VersionCloses(w) ==
  /\ Serving /\ stage[w] = "version" /\ Live(w)
  /\ \E result \in Settled(w) :
       IF result \in {"pinned", "other"}
       THEN /\ stage' = [stage EXCEPT ![w] = "validate"]
            /\ seen' = [seen EXCEPT ![w] = result]
            /\ child' = [child EXCEPT ![w] = Spawned]
            /\ reply' = "none"
            /\ UNCHANGED <<activeChildren, client, readinessPromise, joined>>
       ELSE ProbeSettles(w, "failed") /\ Closed(w)
  /\ UNCHANGED <<inFlight, checkedAge, lifecycle, world>>

ValidationCloses(w) ==
  /\ Serving /\ stage[w] = "validate" /\ Live(w)
  /\ \E result \in Settled(w) :
       ProbeSettles(w, IF result = "refused" THEN seen[w] ELSE "failed")
  /\ Closed(w)
  /\ UNCHANGED <<inFlight, checkedAge, lifecycle, world>>
-----------------------------------------------------------------------------
(* The stop signal *)

(* Bug: the set is not signalled. *)
TermedNone == child

Termed == [h \in Handler |-> IF h \in activeChildren /\ child[h].fate = "running"
                             THEN [child[h] EXCEPT !.fate = "termed"] ELSE child[h]]

BeginShutdown ==
  /\ server = "up" /\ server' = "stopping" /\ stopAge' = 0
  /\ child' = Termed
  /\ reply' = "none"
  /\ UNCHANGED <<stage, activeChildren, client, inFlight, readiness, world>>

(* server.close calls back when the last connection has ended. *)
GracefulExit ==
  /\ server = "stopping"
  /\ \A h \in Handler : stage[h] = "idle" \/ client[h] = "left"
  /\ server' = "exited" /\ reply' = "none"
  /\ UNCHANGED <<stopAge, process, client, inFlight, readiness, world>>

(* Bug: the last resort waits for admitted requests. *)
ShutdownDueWhenIdle == stopAge = ShutdownTimeout /\ inFlight = 0

ShutdownDue == stopAge = ShutdownTimeout

ForcedExit ==
  /\ server = "stopping" /\ ShutdownDue
  /\ server' = "killed" /\ reply' = "none"
  /\ child' = [h \in Handler |->
                 IF h \in activeChildren
                 THEN [child[h] EXCEPT !.fate = "killed"] ELSE child[h]]
  /\ UNCHANGED <<stopAge, stage, activeChildren, client, inFlight, readiness, world>>
-----------------------------------------------------------------------------
(* The world: clocks, and an operator who replaces the engine. *)

Due ==
  \/ \E h \in Handler : child[h].fate \in {"timedOut", "outputExceeded", "termed"}
  \/ \E h \in Handler : child[h].fate = "running" /\ TimerDue(h)
  \/ server = "stopping" /\ ShutdownDue

Tick ==
  /\ Serving /\ ~Due
  /\ child' = [h \in Handler |->
                 IF Live(h) THEN [child[h] EXCEPT !.age = AtMost(@ + 1, ProcessTimeout)] ELSE child[h]]
  /\ checkedAge' = AtMost(checkedAge + 1, ReadinessCache)
  /\ stopAge' = IF server = "stopping" THEN AtMost(stopAge + 1, ShutdownTimeout) ELSE stopAge
  /\ sincePinned' = IF engine.pinned THEN 0 ELSE AtMost(sincePinned + 1, Longest)
  /\ sinceValid' = IF engine.valid THEN 0 ELSE AtMost(sinceValid + 1, Longest)
  /\ reply' = "none"
  /\ UNCHANGED <<server, stage, activeChildren, client, inFlight, readinessPromise,
                 joined, seen, engine>>

ReplaceEngine ==
  /\ Serving
  /\ engine' \in Engines \ {engine}
  /\ sincePinned' = IF engine'.pinned THEN 0 ELSE sincePinned
  /\ sinceValid' = IF engine'.valid THEN 0 ELSE sinceValid
  /\ reply' = "none"
  /\ UNCHANGED <<process, client, inFlight, readiness, lifecycle>>

Next ==
  \/ \E c \in Caller :
       \/ \E r \in Request : Qualify(c, r)
       \/ BodyEnds(c) \/ BodyAborts(c) \/ PolicyAnswers(c)
  \/ \E w \in Watcher : Readyz(w) \/ VersionCloses(w) \/ ValidationCloses(w)
  \/ \E h \in Handler : ClientLeaves(h) \/ TimerFires(h) \/ OutputExceeds(h)
  \/ BeginShutdown \/ GracefulExit \/ ForcedExit
  \/ Tick \/ ReplaceEngine

Spec == Init /\ [][Next]_vars

(* Time passes, due timers fire, a child that was killed closes, and Node ends
   a connection whose body does not come, until it stops listening and its
   checks with it.  Clients owe nothing, and neither does an engine: a child
   may hang until its timer. *)
Reaped(h) == child[h].fate # "running"

Reaping ==
  \/ \E c \in Caller : Reaped(c) /\ PolicyAnswers(c)
  \/ \E w \in Watcher : Reaped(w) /\ (VersionCloses(w) \/ ValidationCloses(w))

Fairness ==
  /\ SF_vars(Tick) /\ WF_vars(ForcedExit)
  /\ WF_vars(\E h \in Handler : TimerFires(h))
  /\ WF_vars(Reaping)
  /\ \A c \in Caller : WF_vars(server = "up" /\ BodyAborts(c))

FairSpec == Spec /\ Fairness
-----------------------------------------------------------------------------
(* Properties *)

(* The admission counter is the number of admitted requests, whichever way
   each of them ends: no slot leaks, none is returned twice. *)
SlotsExact == inFlight = Cardinality({c \in Caller : stage[c] \in {"body", "engine"}})

(* The set that a shutdown signals holds every live engine process, and probes
   that outlive their cache time do not pile up: requests and probes together
   bound the processes. *)
EnginesBounded ==
  /\ activeChildren = {h \in Handler : Live(h)}
  /\ Cardinality(activeChildren \intersect Watcher) <= (2 * ProcessTimeout) \div ReadinessCache + 1

(* What a client is told was so a moment ago: an answer of the engine within
   one process timeout, readiness within the two of a probe or the cache time,
   although binary and configuration are replaced under the running service. *)
AnswersAreFresh ==
  /\ reply = "ok" => sincePinned <= ProcessTimeout /\ sinceValid <= ProcessTimeout
  /\ reply = "ready" =>
       /\ sincePinned < 2 * ProcessTimeout + 1 \/ sincePinned < ReadinessCache
       /\ sinceValid < ProcessTimeout + 1 \/ sinceValid < ReadinessCache

(* A forced exit leaves no engine process that was not killed.  An exit with
   code 0 may leave several: a body that ends after the stop signal starts a
   child, a version child that finishes in spite of it is followed by a second
   one, and the exit waits for no client that has left.  Each of them was
   started after the signal, for a client that has left; together they are no
   more than the slots, and no more than the probes that one process timeout
   before the signal has room for. *)
LeftBehind == {h \in Handler : child[h].fate = "running"}

NoEngineForgotten ==
  /\ server = "killed" => \A h \in Handler : child[h].fate \in {"none", "killed"}
  /\ server = "exited" =>
       /\ \A h \in LeftBehind : client[h] = "left" /\ child[h].age <= stopAge
       /\ Cardinality(LeftBehind \intersect Caller) <= MaxConcurrent
       /\ Cardinality(LeftBehind \intersect Watcher) <= ProcessTimeout \div ReadinessCache + 1

(* Every request is answered or ends with its connection or the process,
   however its body, child and timers race. *)
EveryRequestEnds ==
  \A h \in Handler : stage[h] # "idle" ~> (stage[h] = "idle" \/ ~Serving)

(* A stop signal ends the process. *)
ShutdownEnds == server = "stopping" ~> ~Serving

(* A failure of the engine that has passed does not stick: if the pinned
   engine stays installed and its probes run to their end, readiness is no
   longer denied, although failures are shared too. *)
ReadinessRecovers ==
  <>[](/\ server = "up" /\ engine = Good
       /\ \A w \in Watcher : child[w].fate \in {"none", "running"})
  => <>[](reply # "notReady")
=============================================================================
