--------------------------- MODULE OutboxPromise ---------------------------
(***************************************************************************)
(* What the Relay outbox promises, without leases, attempts or time        *)
(* (docs/architecture.md, "Delivery leases, retry, and dead letters" and   *)
(* "SLA escalation").  An item is owed once queued, and leaves that state  *)
(* exactly once: delivered, abandoned, withdrawn, or forgotten with the    *)
(* data of its age.  An alert is owed only about a request nobody has      *)
(* answered, and answering a request withdraws its alert at once.          *)
(***************************************************************************)
CONSTANTS
  Item,   \* everything that may be queued
  Alert   \* those of them that remind of a request, one per request

VARIABLES
  item,     \* state of each item
  request   \* state of the request each alert is about

promiseVars == <<item, request>>

ItemState == {"none", "owed", "delivered", "abandoned", "withdrawn", "forgotten"}
RequestState == {"unknown", "waiting", "answered", "forgotten"}

Init ==
  /\ item = [i \in Item |-> "none"]
  /\ request = [a \in Alert |-> "unknown"]

Become(S, s) == item' = [i \in Item |-> IF i \in S THEN s ELSE item[i]]

(* A request arrives with the items that announce it. *)
Accept(a, S) ==
  /\ request[a] = "unknown"
  /\ \A i \in S : item[i] = "none"
  /\ request' = [request EXCEPT ![a] = "waiting"]
  /\ Become(S, "owed")

(* Alerts are queued about waiting requests only. *)
Remind(S) ==
  /\ \A a \in S : item[a] = "none" /\ request[a] = "waiting"
  /\ Become(S, "owed")
  /\ UNCHANGED request

Report(i) ==
  /\ item[i] = "none"
  /\ Become({i}, "owed")
  /\ UNCHANGED request

Deliver(i) ==
  /\ item[i] = "owed"
  /\ Become({i}, "delivered")
  /\ UNCHANGED request

Abandon(S) ==
  /\ \A i \in S : item[i] = "owed"
  /\ Become(S, "abandoned")
  /\ UNCHANGED request

Answer(a) ==
  /\ request[a] = "waiting"
  /\ request' = [request EXCEPT ![a] = "answered"]
  /\ Become({a} \cap {i \in Item : item[i] = "owed"}, "withdrawn")

(* An alert may outlive the record of its request; it is then withdrawn. *)
Withdraw(a) ==
  /\ item[a] = "owed"
  /\ request[a] = "forgotten"
  /\ Become({a}, "withdrawn")
  /\ UNCHANGED request

Forget(S, R) ==
  /\ \A i \in S : item[i] # "none"
  /\ \A a \in R : request[a] \in {"waiting", "answered"}
  /\ Become(S, "forgotten")
  /\ request' = [a \in Alert |-> IF a \in R THEN "forgotten" ELSE request[a]]

Next ==
  \/ \E a \in Alert, S \in SUBSET (Item \ Alert) : Accept(a, S)
  \/ \E S \in SUBSET Alert : Remind(S)
  \/ \E i \in Item \ Alert : Report(i)
  \/ \E i \in Item : Deliver(i)
  \/ \E S \in SUBSET Item : Abandon(S)
  \/ \E a \in Alert : Answer(a) \/ Withdraw(a)
  \/ \E S \in SUBSET Item, R \in SUBSET Alert : Forget(S, R)

Promise == Init /\ [][Next]_promiseVars

=============================================================================
