---------------------------- MODULE RelayIntake ----------------------------
(***************************************************************************)
(* API intake: clients that send a request again under its idempotency     *)
(* key, the n8n execution that serves each sending (01-api-lead-intake),   *)
(* and the database sessions its store node opens.  The node tries a       *)
(* statement again when its connection fails, and PostgreSQL may still     *)
(* run, and commit, a statement whose caller has gone: several sessions of *)
(* one sending and of several sendings compete for one key.                *)
(*                                                                         *)
(* A session is one call of ingest_lead, step by step: advisory lock,      *)
(* lookup, insert and commit.  The rows it inserts besides the ticket are  *)
(* the subject of RelayOutbox.  The policy node's tries read only, so they *)
(* are one step.                                                           *)
(***************************************************************************)
EXTENDS Integers, Sequences, FiniteSets

CONSTANTS
  Client,       \* callers; each sends one request
  Key,          \* idempotency keys
  Body,         \* request bodies
  KeyOf,        \* the key each client uses
  BodyOf,       \* the body it sends under that key
  Sends,        \* how often it may send it
  Invalid,      \* bodies the workflow's validation refuses
  Rejected,     \* bodies the policy engine answers with 422
  Fingerprint,  \* md5 of each body
  MaxTries,     \* tries of the store node: 3 in the code
  Nobody        \* no session

ASSUME ClientAssumption ==
  /\ KeyOf \in [Client -> Key]
  /\ BodyOf \in [Client -> Body]
  /\ Sends \in [Client -> Nat]
ASSUME TriesAssumption == MaxTries \in Nat \ {0}

(* One execution per sending, one session per try of its store node. *)
Exec == UNION {{c} \X (1..Sends[c]) : c \in Client}
Session == Exec \X (1..MaxTries)
ExecKey(e) == KeyOf[e[1]]
SessionKey(s) == ExecKey(s[1])
SessionBody(s) == BodyOf[s[1][1]]

ASSUME NobodyAssumption == Nobody \notin Session

VARIABLES
  sent,     \* sendings of each client so far; it listens to the last one only
  exec,     \* the execution of each sending
  session,  \* the database sessions
  lock,     \* holder of the advisory lock of each key
  issued,   \* history: every ticket ever committed, in order
  current   \* the row of clientops.leads under each key: an index of issued, or 0

vars == <<sent, exec, session, lock, issued, current>>

Stage == {"none", "received", "store", "respond", "ended"}
Running == {"received", "store", "respond"}
SessionStage == {"none", "begun", "locked", "insert", "over", "duplicate"}
OpenStage == {"begun", "locked", "insert"}
Code == {0, 200, 201, 409, 422, 503}
Reply == [code : Code, ticket : Nat]
NoReply == [code |-> 0, ticket |-> 0]
ReplyOf(c, t) == [code |-> c, ticket |-> t]

Execution == [stage : Stage, compatible : BOOLEAN, try : 1..MaxTries,
              reply : Reply, heard : BOOLEAN]
Idle(stage) == [stage |-> stage, compatible |-> FALSE, try |-> 1,
                reply |-> NoReply, heard |-> FALSE]
Ticket == [key : Key, body : Body, maker : Exec, peers : SUBSET Exec]

IntakeTypeOK ==
  /\ sent \in [Client -> Nat]
  /\ exec \in [Exec -> Execution]
  /\ session \in [Session -> [stage : SessionStage, reply : Reply]]
  /\ lock \in [Key -> Session \cup {Nobody}]
  /\ issued \in Seq(Ticket)
  /\ current \in [Key -> Nat]

Init ==
  /\ sent = [c \in Client |-> 0]
  /\ exec = [e \in Exec |-> Idle("none")]
  /\ session = [s \in Session |-> [stage |-> "none", reply |-> NoReply]]
  /\ lock = [k \in Key |-> Nobody]
  /\ issued = <<>>
  /\ current = [k \in Key |-> 0]

----------------------------------------------------------------------------
(* The client and the workflow *)

Decide(e, r) == exec' = [exec EXCEPT ![e].stage = "respond", ![e].reply = r]

(* A first sending, or the same request again after any answer or none. *)
Send(c) ==
  /\ sent[c] < Sends[c]
  /\ sent' = [sent EXCEPT ![c] = @ + 1]
  /\ exec' = [exec EXCEPT ![<<c, sent[c] + 1>>].stage = "received"]
  /\ UNCHANGED <<session, lock, issued, current>>

(* Validation refuses the body, or the policy node gets an answer: 422, or *)
(* a response that ingest_lead supports or not.                            *)
Qualify(e) ==
  /\ exec[e].stage = "received"
  /\ IF BodyOf[e[1]] \in Invalid \cup Rejected THEN Decide(e, ReplyOf(422, 0))
     ELSE \E supported \in BOOLEAN :
            exec' = [exec EXCEPT ![e].stage = "store", ![e].compatible = supported]
  /\ UNCHANGED <<sent, session, lock, issued, current>>

PolicyUnavailable(e) ==
  /\ exec[e].stage = "received"
  /\ BodyOf[e[1]] \notin Invalid
  /\ Decide(e, ReplyOf(503, 0))
  /\ UNCHANGED <<sent, session, lock, issued, current>>

SessionOf(e) == <<e, exec[e].try>>

(* The call of ingest_lead; a response it does not support raises before   *)
(* the lock is taken.                                                      *)
CallStore(e) ==
  /\ exec[e].stage = "store"
  /\ session[SessionOf(e)].stage = "none"
  /\ session' = [session EXCEPT ![SessionOf(e)].stage =
                   IF exec[e].compatible THEN "begun" ELSE "over"]
  /\ UNCHANGED <<sent, exec, lock, issued, current>>

(* What a session returns is gone once its caller has taken it or left. *)
Forgotten(e) == [session EXCEPT ![SessionOf(e)].reply = NoReply]

StoreReturns(e) ==
  /\ exec[e].stage = "store"
  /\ session[SessionOf(e)].reply # NoReply
  /\ Decide(e, session[SessionOf(e)].reply)
  /\ session' = Forgotten(e)
  /\ UNCHANGED <<sent, lock, issued, current>>

(* Bug: one try too many. *)
TriesLeftOneMore(e) == exec[e].try <= MaxTries

TriesLeft(e) == exec[e].try < MaxTries

(* The node sees an error: the session failed, or its connection was lost  *)
(* whatever becomes of the session.                                        *)
StoreFails(e) ==
  /\ exec[e].stage = "store"
  /\ session[SessionOf(e)].stage # "none"
  /\ IF TriesLeft(e) THEN exec' = [exec EXCEPT ![e].try = @ + 1]
     ELSE Decide(e, ReplyOf(503, 0))
  /\ session' = Forgotten(e)
  /\ UNCHANGED <<sent, lock, issued, current>>

(* The answer reaches the client, which listens to its last sending only. *)
Respond(e) ==
  /\ exec[e].stage = "respond"
  /\ sent[e[1]] = e[2]
  /\ exec' = [exec EXCEPT ![e] = [Idle("ended") EXCEPT !.heard = TRUE, !.reply = exec[e].reply]]
  /\ UNCHANGED <<sent, session, lock, issued, current>>

(* The execution's time limit, a stop of n8n, or an answer that is lost. *)
Stop(e) ==
  /\ exec[e].stage \in Running
  /\ exec' = [exec EXCEPT ![e] = Idle("ended")]
  /\ session' = Forgotten(e)
  /\ UNCHANGED <<sent, lock, issued, current>>

----------------------------------------------------------------------------
(* The database *)

Awaited(s) == exec[s[1]].stage = "store" /\ SessionOf(s[1]) = s

Finished(s, stage, r) ==
  [session EXCEPT ![s] = [stage |-> stage, reply |-> IF Awaited(s) THEN r ELSE NoReply]]

(* Bug: the lock is not waited for. *)
LockFreeAlways(k) == TRUE

LockFree(k) == lock[k] = Nobody

(* Bug: a lock of the session, which the end of the transaction keeps. *)
UnlockedByNobody(s) == lock

Unlocked(s) == [lock EXCEPT ![SessionKey(s)] = IF @ = s THEN Nobody ELSE @]

LockKey(s) ==
  /\ session[s].stage = "begun"
  /\ LockFree(SessionKey(s))
  /\ lock' = [lock EXCEPT ![SessionKey(s)] = s]
  /\ session' = [session EXCEPT ![s].stage = "locked"]
  /\ UNCHANGED <<sent, exec, issued, current>>

(* Bug: a digest decides. *)
SameDigest(s, t) == Fingerprint[issued[t].body] = Fingerprint[SessionBody(s)]

(* Bug: something of the sending is part of the request compared. *)
SameSending(s, t) == issued[t].maker = s[1]

SameRequest(s, t) ==
  /\ Fingerprint[issued[t].body] = Fingerprint[SessionBody(s)]
  /\ issued[t].body = SessionBody(s)

Lookup(s) ==
  /\ session[s].stage = "locked"
  /\ LET t == current[SessionKey(s)]
     IN  IF t = 0
         THEN /\ session' = [session EXCEPT ![s].stage = "insert"]
              /\ UNCHANGED lock
         ELSE /\ session' = Finished(s, "over", IF SameRequest(s, t) THEN ReplyOf(200, t)
                                                ELSE ReplyOf(409, 0))
              /\ lock' = Unlocked(s)
  /\ UNCHANGED <<sent, exec, issued, current>>

Alive(e) ==
  \/ exec[e].stage \in Running
  \/ \E s \in Session : s[1] = e /\ session[s].stage \in OpenStage

NewTicket(s) == [key |-> SessionKey(s), body |-> SessionBody(s), maker |-> s[1],
                 peers |-> {e \in Exec : Alive(e)}]

(* The inserts and the commit; the unique index on idempotency_key raises. *)
Insert(s) ==
  /\ session[s].stage = "insert"
  /\ lock' = Unlocked(s)
  /\ IF current[SessionKey(s)] # 0
     THEN /\ session' = Finished(s, "duplicate", NoReply)
          /\ UNCHANGED <<issued, current>>
     ELSE /\ issued' = Append(issued, NewTicket(s))
          /\ current' = [current EXCEPT ![SessionKey(s)] = Len(issued) + 1]
          /\ session' = Finished(s, "over", ReplyOf(201, Len(issued) + 1))
  /\ UNCHANGED <<sent, exec>>

(* Any other error before the commit, missing delivery settings included:  *)
(* the transaction rolls back.                                             *)
Abort(s) ==
  /\ session[s].stage \in OpenStage
  /\ session' = Finished(s, "over", NoReply)
  /\ lock' = Unlocked(s)
  /\ UNCHANGED <<sent, exec, issued, current>>

(* Bug: a retention of zero days is accepted. *)
ExpiredAtOnce(t) == TRUE

(* Retention is at least 7 days: what ran when the ticket was created has  *)
(* ended long before the ticket expires.                                   *)
Expired(t) == \A e \in issued[t].peers : ~Alive(e)

(* purge_expired_data deletes the ticket; its key is free again. *)
Purge(k) ==
  /\ current[k] # 0
  /\ Expired(current[k])
  /\ current' = [current EXCEPT ![k] = 0]
  /\ UNCHANGED <<sent, exec, session, lock, issued>>

----------------------------------------------------------------------------
Workflow(e) ==
  \/ Qualify(e) \/ PolicyUnavailable(e)
  \/ CallStore(e) \/ StoreReturns(e) \/ StoreFails(e) \/ Respond(e) \/ Stop(e)

IngestLead(s) == LockKey(s) \/ Lookup(s) \/ Insert(s) \/ Abort(s)

Next ==
  \/ \E c \in Client : Send(c)
  \/ \E e \in Exec : Workflow(e)
  \/ \E s \in Session : IngestLead(s)
  \/ \E k \in Key : Purge(k)

Spec == Init /\ [][Next]_vars

(* A session goes on by itself, and PostgreSQL grants a lock that is free  *)
(* to its waiters in turn.                                                 *)
Fairness ==
  \A s \in Session : SF_vars(LockKey(s)) /\ WF_vars(Lookup(s)) /\ WF_vars(Insert(s))

FairSpec == Spec /\ Fairness

----------------------------------------------------------------------------
(* What must hold *)

Accepted(r) == r.code \in {200, 201}
Heard(e) == exec[e].stage = "ended" /\ exec[e].heard

(* A client is told only of a ticket created for its own key and its own   *)
(* body, whatever other requests were sent under the key and whether or    *)
(* not their digests agree (docs/architecture.md, "Replay safety compares  *)
(* complete JSON").                                                        *)
AnswersOwnRequest ==
  \A e \in Exec : Heard(e) /\ Accepted(exec[e].reply) =>
    /\ exec[e].reply.ticket \in 1..Len(issued)
    /\ issued[exec[e].reply.ticket].key = ExecKey(e)
    /\ issued[exec[e].reply.ticket].body = BodyOf[e[1]]

(* A client is told of a conflict only when another body was accepted      *)
(* under its key: no retry of an unchanged request meets its own ticket as *)
(* a stranger.                                                             *)
ConflictIsReal ==
  \A e \in Exec : Heard(e) /\ exec[e].reply.code = 409 =>
    \E t \in 1..Len(issued) : issued[t].key = ExecKey(e) /\ issued[t].body # BodyOf[e[1]]

(* The advisory lock makes lookup and insert one step for a key: the       *)
(* unique index never refuses an insert, so no retry turns into a 503.     *)
UniqueIndexIsIdle == \A s \in Session : session[s].stage # "duplicate"

(* Nothing that ran while a ticket was created ever creates another one    *)
(* under the same key: neither a second try of the same execution, nor a   *)
(* session its caller has forgotten, nor an overlapping sending.           *)
NoTwinTicket ==
  \A t, u \in 1..Len(issued) :
    t < u /\ issued[t].key = issued[u].key => issued[u].maker \notin issued[t].peers

(* Every call of ingest_lead ends, however many wait for the same key.     *)
EveryCallEnds ==
  \A s \in Session : (session[s].stage \in OpenStage) ~> (session[s].stage \notin OpenStage)

=============================================================================
