------------------------ MODULE RelayOutboxRefines ------------------------
(* The outbox of database/schema.sql keeps OutboxPromise: which states of  *)
(* the rows and leads stand for which states of the promise.               *)
EXTENDS RelayOutbox

ItemOf(row) ==
  CASE row.status = "none" -> "none"
    [] Open(row) -> "owed"
    [] row.status = "delivered" -> "delivered"
    [] row.status = "dead_letter" -> "abandoned"
    [] row.status = "cancelled" -> "withdrawn"
    [] row.status = "purged" -> "forgotten"

RequestOf(s) ==
  CASE s = "none" -> "unknown"
    [] s = "new" -> "waiting"
    [] s = "contacted" -> "answered"
    [] s = "purged" -> "forgotten"

AlertJob == Lead \X {"sla_alert"}

P == INSTANCE OutboxPromise WITH
       Item <- Job,
       Alert <- AlertJob,
       item <- [j \in Job |-> ItemOf(outbox[j])],
       request <- [a \in AlertJob |-> RequestOf(leadStatus[a[1]])]

(* Every step of the database is a step of the promise or changes nothing  *)
(* the promise speaks of: a delivery ends once, by exactly one of the four *)
(* ends, and an alert is queued only for a waiting request and withdrawn   *)
(* the moment it is answered.                                              *)
KeepsPromise == P!Promise

=============================================================================
