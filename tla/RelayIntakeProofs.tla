------------------------- MODULE RelayIntakeProofs -------------------------
(***************************************************************************)
(* Proofs about RelayIntake, for any number of clients, keys, sendings and *)
(* tries: type correctness, then one inductive invariant that ties the     *)
(* advisory lock to the lookup, the replies to the tickets, and the age of *)
(* a ticket to the executions that ran when it was created.                *)
(***************************************************************************)
EXTENDS RelayIntake, TLAPS

LEMMA ExecFacts ==
  /\ \A e \in Exec : /\ e[1] \in Client /\ e[2] \in 1..Sends[e[1]]
                     /\ ExecKey(e) \in Key /\ BodyOf[e[1]] \in Body
  /\ \A c \in Client, n \in Nat :
       n \in 1..Sends[c] => <<c, n>> \in Exec
<1>1. \A e \in Exec : e[1] \in Client /\ e[2] \in 1..Sends[e[1]]
  BY DEF Exec
<1>2. \A e \in Exec : ExecKey(e) \in Key /\ BodyOf[e[1]] \in Body
  BY <1>1, ClientAssumption DEF ExecKey
<1>3. \A c \in Client, n \in Nat : n \in 1..Sends[c] => <<c, n>> \in Exec
  <2>. TAKE c \in Client, n \in Nat
  <2>. HAVE n \in 1..Sends[c]
  <2>1. <<c, n>> \in {c} \X (1..Sends[c])
    OBVIOUS
  <2>. QED BY <2>1 DEF Exec
<1>. QED BY <1>1, <1>2, <1>3

LEMMA SessionFacts ==
  \A s \in Session : /\ s[1] \in Exec
                     /\ SessionKey(s) \in Key
                     /\ SessionBody(s) \in Body
                     /\ s # Nobody
BY ExecFacts, NobodyAssumption DEF Session, SessionKey, SessionBody

LEMMA SessionOfType ==
  ASSUME IntakeTypeOK, NEW e \in Exec
  PROVE  SessionOf(e) \in Session /\ SessionOf(e)[1] = e
BY DEF IntakeTypeOK, SessionOf, Session, Execution

LEMMA ReplyTypes ==
  /\ NoReply \in Reply
  /\ \A c \in Code, t \in Nat : ReplyOf(c, t) \in Reply
BY DEF NoReply, ReplyOf, Reply, Code

LEMMA OverIsStage == "over" \in SessionStage /\ "duplicate" \in SessionStage
BY DEF SessionStage

LEMMA IdleType == \A st \in Stage : Idle(st) \in Execution
BY ReplyTypes, TriesAssumption DEF Idle, Execution

----------------------------------------------------------------------------
(* Type correctness *)

LEMMA ExecutionUpdates ==
  ASSUME NEW x \in Execution
  PROVE  /\ \A st \in Stage : [x EXCEPT !.stage = st] \in Execution
         /\ \A st \in Stage, r \in Reply : [x EXCEPT !.stage = st, !.reply = r] \in Execution
         /\ \A st \in Stage, b \in BOOLEAN : [x EXCEPT !.stage = st, !.compatible = b] \in Execution
         /\ \A n \in 1..MaxTries : [x EXCEPT !.try = n] \in Execution
BY DEF Execution

LEMMA ExecFunction == IntakeTypeOK => exec \in [Exec -> Execution]
BY DEF IntakeTypeOK

LEMMA StageNames == {"received", "store", "respond", "ended"} \subseteq Stage
BY DEF Stage

LEMMA DecideType ==
  ASSUME IntakeTypeOK, NEW e \in Exec, NEW r \in Reply, Decide(e, r)
  PROVE  exec' \in [Exec -> Execution]
<1>0. exec[e] \in Execution
  BY ExecFunction
<1>1. [exec[e] EXCEPT !.stage = "respond", !.reply = r] \in Execution
  BY <1>0, ExecutionUpdates, StageNames
<1>2. exec' = [exec EXCEPT ![e] = [exec[e] EXCEPT !.stage = "respond", !.reply = r]]
  BY ExecFunction DEF Decide
<1>. QED BY <1>1, <1>2, ExecFunction

LEMMA ForgottenType ==
  ASSUME IntakeTypeOK, NEW e \in Exec
  PROVE  Forgotten(e) \in [Session -> [stage : SessionStage, reply : Reply]]
BY ReplyTypes DEF IntakeTypeOK, Forgotten

LEMMA FinishedType ==
  ASSUME IntakeTypeOK, NEW s \in Session, NEW st \in SessionStage, NEW r \in Reply
  PROVE  Finished(s, st, r) \in [Session -> [stage : SessionStage, reply : Reply]]
BY ReplyTypes DEF IntakeTypeOK, Finished

LEMMA UnlockedType ==
  ASSUME IntakeTypeOK, NEW s \in Session
  PROVE  Unlocked(s) \in [Key -> Session \cup {Nobody}]
BY DEF IntakeTypeOK, Unlocked

LEMMA WorkflowType ==
  ASSUME IntakeTypeOK, NEW e \in Exec, Workflow(e)
  PROVE  IntakeTypeOK'
<1>1. CASE Qualify(e)
  <2>1. exec' \in [Exec -> Execution]
    <3>1. CASE BodyOf[e[1]] \in Invalid \cup Rejected
      BY <1>1, <3>1, DecideType, ReplyTypes DEF Qualify, Code
    <3>2. CASE BodyOf[e[1]] \notin Invalid \cup Rejected
      <4>1. PICK supported \in BOOLEAN :
              exec' = [exec EXCEPT ![e].stage = "store", ![e].compatible = supported]
        BY <1>1, <3>2 DEF Qualify
      <4>2. exec[e] \in Execution
        BY ExecFunction
      <4>3. [exec[e] EXCEPT !.stage = "store", !.compatible = supported] \in Execution
        BY <4>2, ExecutionUpdates, StageNames
      <4>. QED BY <4>1, <4>3, ExecFunction
    <3>. QED BY <3>1, <3>2
  <2>. QED BY <1>1, <2>1 DEF Qualify, IntakeTypeOK
<1>2. CASE PolicyUnavailable(e)
  <2>1. exec' \in [Exec -> Execution]
    BY <1>2, DecideType, ReplyTypes DEF PolicyUnavailable, Code
  <2>. QED BY <1>2, <2>1 DEF PolicyUnavailable, IntakeTypeOK
<1>3. CASE CallStore(e)
  <2>1. session' \in [Session -> [stage : SessionStage, reply : Reply]]
    BY <1>3 DEF CallStore, IntakeTypeOK, SessionStage
  <2>. QED BY <1>3, <2>1 DEF CallStore, IntakeTypeOK
<1>4. CASE StoreReturns(e)
  <2>1. session[SessionOf(e)].reply \in Reply
    BY SessionOfType DEF IntakeTypeOK
  <2>2. exec' \in [Exec -> Execution]
    BY <1>4, <2>1, DecideType DEF StoreReturns
  <2>. QED BY <1>4, <2>2, ForgottenType DEF StoreReturns, IntakeTypeOK
<1>5. CASE StoreFails(e)
  <2>1. exec' \in [Exec -> Execution]
    <3>1. CASE TriesLeft(e)
      <4>1. exec[e].try \in 1..MaxTries /\ exec[e].try + 1 \in 1..MaxTries
        BY <3>1, TriesAssumption DEF IntakeTypeOK, Execution, TriesLeft
      <4>2. exec[e] \in Execution
        BY ExecFunction
      <4>3. [exec[e] EXCEPT !.try = exec[e].try + 1] \in Execution
        BY <4>1, <4>2, ExecutionUpdates
      <4>4. exec' = [exec EXCEPT ![e] = [exec[e] EXCEPT !.try = exec[e].try + 1]]
        BY <1>5, <3>1, ExecFunction DEF StoreFails
      <4>. QED BY <4>3, <4>4, ExecFunction
    <3>2. CASE ~TriesLeft(e)
      BY <1>5, <3>2, DecideType, ReplyTypes DEF StoreFails, Code
    <3>. QED BY <3>1, <3>2
  <2>. QED BY <1>5, <2>1, ForgottenType DEF StoreFails, IntakeTypeOK
<1>6. CASE Respond(e)
  <2>1. Idle("ended") \in Execution /\ exec[e].reply \in Reply
    BY IdleType DEF Stage, IntakeTypeOK, Execution
  <2>2. [Idle("ended") EXCEPT !.heard = TRUE, !.reply = exec[e].reply] \in Execution
    BY <2>1 DEF Execution
  <2>. QED BY <1>6, <2>2 DEF Respond, IntakeTypeOK
<1>7. CASE Stop(e)
  <2>1. Idle("ended") \in Execution
    BY IdleType DEF Stage
  <2>. QED BY <1>7, <2>1, ForgottenType DEF Stop, IntakeTypeOK
<1>. QED BY <1>1, <1>2, <1>3, <1>4, <1>5, <1>6, <1>7 DEF Workflow

LEMMA IngestType ==
  ASSUME IntakeTypeOK, NEW s \in Session, IngestLead(s)
  PROVE  IntakeTypeOK'
<1>1. CASE LockKey(s)
  BY <1>1, SessionFacts DEF LockKey, IntakeTypeOK, SessionStage
<1>2. CASE Lookup(s)
  <2>. DEFINE t == current[SessionKey(s)]
  <2>0. t \in Nat
    BY SessionFacts DEF IntakeTypeOK
  <2>1. CASE t = 0
    BY <1>2, <2>1 DEF Lookup, IntakeTypeOK, SessionStage
  <2>2. CASE t # 0
    <3>1. ReplyOf(200, t) \in Reply /\ ReplyOf(409, 0) \in Reply
      BY <2>0, ReplyTypes DEF Code
    <3>2. PICK r \in Reply : session' = Finished(s, "over", r)
      BY <1>2, <2>2, <3>1 DEF Lookup
    <3>3. session' \in [Session -> [stage : SessionStage, reply : Reply]]
      BY <3>2, FinishedType, OverIsStage
    <3>4. lock' \in [Key -> Session \cup {Nobody}]
      BY <1>2, <2>2, UnlockedType DEF Lookup
    <3>. QED BY <1>2, <3>3, <3>4 DEF Lookup, IntakeTypeOK
  <2>. QED BY <2>1, <2>2
<1>3. CASE Insert(s)
  <2>1. lock' \in [Key -> Session \cup {Nobody}]
    BY <1>3, UnlockedType DEF Insert
  <2>2. CASE current[SessionKey(s)] # 0
    <3>1. session' \in [Session -> [stage : SessionStage, reply : Reply]]
      BY <1>3, <2>2, FinishedType, ReplyTypes, OverIsStage DEF Insert
    <3>. QED BY <1>3, <2>1, <2>2, <3>1 DEF Insert, IntakeTypeOK
  <2>3. CASE current[SessionKey(s)] = 0
    <3>1. NewTicket(s) \in Ticket
      BY SessionFacts DEF NewTicket, Ticket
    <3>2. /\ Len(issued) + 1 \in Nat
          /\ issued' = Append(issued, NewTicket(s))
          /\ issued' \in Seq(Ticket)
          /\ current' = [current EXCEPT ![SessionKey(s)] = Len(issued) + 1]
          /\ session' = Finished(s, "over", ReplyOf(201, Len(issued) + 1))
      <4>1. issued \in Seq(Ticket)
        BY DEF IntakeTypeOK
      <4>2. issued' = Append(issued, NewTicket(s))
        BY <1>3, <2>3 DEF Insert
      <4>. QED BY <1>3, <2>3, <3>1, <4>1, <4>2 DEF Insert
    <3>3. session' \in [Session -> [stage : SessionStage, reply : Reply]]
      <4>1. ReplyOf(201, Len(issued) + 1) \in Reply
        BY <3>2, ReplyTypes DEF Code
      <4>. QED BY <3>2, <4>1, FinishedType, OverIsStage
    <3>4. current' \in [Key -> Nat]
      BY <3>2 DEF IntakeTypeOK
    <3>. QED BY <1>3, <2>1, <3>2, <3>3, <3>4 DEF Insert, IntakeTypeOK
  <2>. QED BY <2>2, <2>3
<1>4. CASE Abort(s)
  <2>1. session' \in [Session -> [stage : SessionStage, reply : Reply]]
    BY <1>4, FinishedType, ReplyTypes, OverIsStage DEF Abort
  <2>. QED BY <1>4, <2>1, UnlockedType DEF Abort, IntakeTypeOK
<1>. QED BY <1>1, <1>2, <1>3, <1>4 DEF IngestLead

LEMMA SendType ==
  ASSUME IntakeTypeOK, NEW c \in Client, Send(c)
  PROVE  /\ IntakeTypeOK'
         /\ <<c, sent[c] + 1>> \in Exec
<1>1. sent[c] \in Nat /\ sent[c] + 1 \in 1..Sends[c]
  <2>1. sent[c] \in Nat /\ Sends[c] \in Nat
    BY ClientAssumption DEF IntakeTypeOK
  <2>2. sent[c] < Sends[c]
    BY DEF Send
  <2>. QED BY <2>1, <2>2
<1>2. <<c, sent[c] + 1>> \in Exec
  BY <1>1, ExecFacts
<1>3. sent' \in [Client -> Nat]
  BY <1>1 DEF Send, IntakeTypeOK
<1>4. exec' \in [Exec -> Execution]
  <2>. DEFINE e == <<c, sent[c] + 1>>
  <2>1. exec[e] \in Execution
    BY <1>2, ExecFunction
  <2>2. [exec[e] EXCEPT !.stage = "received"] \in Execution
    BY <2>1, ExecutionUpdates, StageNames
  <2>3. exec' = [exec EXCEPT ![e] = [exec[e] EXCEPT !.stage = "received"]]
    BY <1>2, ExecFunction DEF Send
  <2>. QED BY <1>2, <2>2, <2>3, ExecFunction
<1>. QED BY <1>2, <1>3, <1>4 DEF Send, IntakeTypeOK

LEMMA PurgeType ==
  ASSUME IntakeTypeOK, NEW k \in Key, Purge(k)
  PROVE  IntakeTypeOK'
BY DEF Purge, IntakeTypeOK

LEMMA InitType == Init => IntakeTypeOK
<1>. SUFFICES ASSUME Init PROVE IntakeTypeOK
  OBVIOUS
<1>1. exec \in [Exec -> Execution]
  BY IdleType DEF Init, Stage
<1>2. session \in [Session -> [stage : SessionStage, reply : Reply]]
  BY ReplyTypes DEF Init, SessionStage
<1>. QED BY <1>1, <1>2 DEF Init, IntakeTypeOK

LEMMA StepType == IntakeTypeOK /\ [Next]_vars => IntakeTypeOK'
<1>. SUFFICES ASSUME IntakeTypeOK, [Next]_vars PROVE IntakeTypeOK'
  OBVIOUS
<1>1. CASE UNCHANGED vars
  BY <1>1 DEF vars, IntakeTypeOK
<1>2. CASE Next
  BY <1>2, SendType, WorkflowType, IngestType, PurgeType DEF Next
<1>. QED BY <1>1, <1>2

(* Every state of the intake is well typed: no execution tries its store   *)
(* node more often than allowed, and the lock names real sessions only.    *)
THEOREM IntakeTypeCorrect == Spec => []IntakeTypeOK
BY InitType, StepType, PTL DEF Spec

----------------------------------------------------------------------------
(* The inductive invariant *)

(* What a reply says of the request e sent is true of the tickets. *)
GoodReply(e, r) ==
  /\ Accepted(r) => /\ r.ticket \in 1..Len(issued)
                    /\ issued[r.ticket].key = ExecKey(e)
                    /\ issued[r.ticket].body = BodyOf[e[1]]
  /\ r.code = 409 =>
       \E t \in 1..Len(issued) : issued[t].key = ExecKey(e) /\ issued[t].body # BodyOf[e[1]]

(* Between lookup and commit a session holds the lock, and nobody else can *)
(* make a ticket under its key.                                            *)
LockInv ==
  \A s \in Session :
    /\ session[s].stage \in {"locked", "insert"} => lock[SessionKey(s)] = s
    /\ session[s].stage = "insert" => current[SessionKey(s)] = 0
    /\ session[s].stage # "duplicate"

CurrentInv ==
  \A k \in Key : current[k] # 0 =>
    current[k] \in 1..Len(issued) /\ issued[current[k]].key = k

(* Executions start in the order of the sendings and open the sessions. *)
StartInv ==
  /\ \A e \in Exec : sent[e[1]] < e[2] => exec[e].stage = "none"
  /\ \A s \in Session : session[s].stage # "none" => exec[s[1]].stage # "none"

ReplyInv ==
  /\ \A e \in Exec : GoodReply(e, exec[e].reply)
  /\ \A s \in Session : GoodReply(s[1], session[s].reply)

(* Whoever ran when a ticket was created has ended once it is purged. *)
PeerInv ==
  \A t \in 1..Len(issued) : \A e \in issued[t].peers :
    /\ exec[e].stage # "none"
    /\ current[issued[t].key] # t => ~Alive(e)

IInv == IntakeTypeOK /\ LockInv /\ CurrentInv /\ StartInv /\ ReplyInv /\ PeerInv /\ NoTwinTicket

LEMMA NoReplyIsGood == \A e \in Exec : GoodReply(e, NoReply)
BY DEF GoodReply, NoReply, Accepted

LEMMA RefusalIsGood ==
  \A e \in Exec, c \in {422, 503} : GoodReply(e, ReplyOf(c, 0))
BY DEF GoodReply, ReplyOf, Accepted

LEMMA TicketFacts ==
  ASSUME IntakeTypeOK, NEW t \in 1..Len(issued)
  PROVE  /\ issued[t] \in Ticket
         /\ issued[t].key \in Key
         /\ issued[t].peers \subseteq Exec
<1>1. issued \in Seq(Ticket)
  BY DEF IntakeTypeOK
<1>2. issued[t] \in Ticket
  BY <1>1
<1>. QED BY <1>2 DEF Ticket

(* No step of this kind creates a ticket or brings back an execution. *)
LEMMA PeerFrame ==
  ASSUME IInv,
         UNCHANGED <<issued, current>>,
         \A e \in Exec : exec[e].stage # "none" =>
           exec'[e].stage # "none" /\ (~Alive(e) => ~Alive(e)')
  PROVE  PeerInv' /\ NoTwinTicket' /\ CurrentInv'
<1>1. PeerInv'
  <2>. SUFFICES ASSUME NEW t \in 1..Len(issued), NEW e \in issued[t].peers
                PROVE  /\ exec'[e].stage # "none"
                       /\ current[issued[t].key] # t => ~Alive(e)'
    BY DEF PeerInv
  <2>1. e \in Exec
    BY TicketFacts DEF IInv
  <2>2. exec[e].stage # "none" /\ (current[issued[t].key] # t => ~Alive(e))
    BY DEF IInv, PeerInv
  <2>. QED BY <2>1, <2>2
<1>2. NoTwinTicket' /\ CurrentInv'
  BY DEF IInv, NoTwinTicket, CurrentInv
<1>. QED BY <1>1, <1>2

----------------------------------------------------------------------------
(* Steps of the workflow *)

(* What every node but the store's call does: it moves its own execution   *)
(* on, and forgets at most a session's reply.                              *)
QuietStep(e) ==
  /\ exec[e].stage \in Running
  /\ \E x \in Execution : /\ exec' = [exec EXCEPT ![e] = x]
                          /\ x.stage # "none"
                          /\ GoodReply(e, x.reply)
  /\ \A s \in Session : /\ session'[s].stage = session[s].stage
                        /\ session'[s].reply \in {session[s].reply, NoReply}
  /\ UNCHANGED <<sent, lock, issued, current>>

LEMMA DecideStep ==
  ASSUME IntakeTypeOK, NEW e \in Exec, NEW r \in Reply, GoodReply(e, r), Decide(e, r)
  PROVE  \E x \in Execution : /\ exec' = [exec EXCEPT ![e] = x]
                              /\ x.stage # "none"
                              /\ GoodReply(e, x.reply)
<1>. DEFINE x == [exec[e] EXCEPT !.stage = "respond", !.reply = r]
<1>1. x \in Execution /\ x.stage = "respond" /\ x.reply = r
  BY DEF IntakeTypeOK, Execution, Stage
<1>2. exec' = [exec EXCEPT ![e] = x]
  BY DEF Decide, IntakeTypeOK
<1>. QED BY <1>1, <1>2

LEMMA ForgottenStep ==
  ASSUME IntakeTypeOK, NEW e \in Exec, session' = Forgotten(e)
  PROVE  \A s \in Session : /\ session'[s].stage = session[s].stage
                            /\ session'[s].reply \in {session[s].reply, NoReply}
BY DEF IntakeTypeOK, Forgotten

LEMMA WorkflowIsQuiet ==
  ASSUME IInv, NEW e \in Exec, Workflow(e), ~CallStore(e)
  PROVE  QuietStep(e)
<1>. USE DEF Running
<1>0. IntakeTypeOK /\ GoodReply(e, exec[e].reply)
  BY DEF IInv, ReplyInv
<1>1. CASE Qualify(e)
  <2>1. CASE BodyOf[e[1]] \in Invalid \cup Rejected
    <3>1. Decide(e, ReplyOf(422, 0))
      BY <1>1, <2>1 DEF Qualify
    <3>2. ReplyOf(422, 0) \in Reply
      BY ReplyTypes DEF Code
    <3>. QED BY <1>0, <1>1, <3>1, <3>2, RefusalIsGood, DecideStep DEF Qualify, QuietStep
  <2>2. CASE BodyOf[e[1]] \notin Invalid \cup Rejected
    <3>1. PICK supported \in BOOLEAN :
            exec' = [exec EXCEPT ![e].stage = "store", ![e].compatible = supported]
      BY <1>1, <2>2 DEF Qualify
    <3>. DEFINE x == [exec[e] EXCEPT !.stage = "store", !.compatible = supported]
    <3>2. x \in Execution /\ x.stage = "store" /\ x.reply = exec[e].reply
      BY <1>0 DEF IntakeTypeOK, Execution, Stage
    <3>3. exec' = [exec EXCEPT ![e] = x]
      BY <1>0, <3>1 DEF IntakeTypeOK
    <3>. QED BY <1>0, <1>1, <3>2, <3>3 DEF Qualify, QuietStep
  <2>. QED BY <2>1, <2>2
<1>2. CASE PolicyUnavailable(e)
  <2>1. ReplyOf(503, 0) \in Reply
    BY ReplyTypes DEF Code
  <2>. QED BY <1>0, <1>2, <2>1, RefusalIsGood, DecideStep DEF PolicyUnavailable, QuietStep
<1>3. CASE StoreReturns(e)
  <2>. DEFINE r == session[SessionOf(e)].reply
  <2>1. r \in Reply /\ GoodReply(e, r)
    BY <1>0, SessionOfType DEF IInv, IntakeTypeOK, ReplyInv
  <2>2. Decide(e, r) /\ session' = Forgotten(e) /\ exec[e].stage = "store"
    BY <1>3 DEF StoreReturns
  <2>. QED BY <1>0, <1>3, <2>1, <2>2, DecideStep, ForgottenStep DEF StoreReturns, QuietStep
<1>4. CASE StoreFails(e)
  <2>1. \E x \in Execution : /\ exec' = [exec EXCEPT ![e] = x]
                             /\ x.stage # "none"
                             /\ GoodReply(e, x.reply)
    <3>1. CASE TriesLeft(e)
      <4>. DEFINE x == [exec[e] EXCEPT !.try = exec[e].try + 1]
      <4>1. exec[e].try + 1 \in 1..MaxTries
        BY <1>0, <3>1, TriesAssumption DEF IntakeTypeOK, Execution, TriesLeft
      <4>2. x \in Execution /\ x.stage = exec[e].stage /\ x.reply = exec[e].reply
        BY <1>0, <4>1 DEF IntakeTypeOK, Execution
      <4>3. exec' = [exec EXCEPT ![e] = x] /\ exec[e].stage = "store"
        BY <1>0, <1>4, <3>1 DEF StoreFails, IntakeTypeOK
      <4>. QED BY <1>0, <4>2, <4>3
    <3>2. CASE ~TriesLeft(e)
      <4>1. ReplyOf(503, 0) \in Reply
        BY ReplyTypes DEF Code
      <4>2. Decide(e, ReplyOf(503, 0))
        BY <1>4, <3>2 DEF StoreFails
      <4>. QED BY <1>0, <4>1, <4>2, RefusalIsGood, DecideStep
    <3>. QED BY <3>1, <3>2
  <2>. QED BY <1>0, <1>4, <2>1, ForgottenStep DEF StoreFails, QuietStep
<1>5. CASE Respond(e)
  <2>. DEFINE x == [Idle("ended") EXCEPT !.heard = TRUE, !.reply = exec[e].reply]
  <2>1. x.stage = "ended" /\ x.reply = exec[e].reply
    BY DEF Idle
  <2>2. Idle("ended") \in Execution /\ exec[e].reply \in Reply
    BY <1>0, IdleType DEF Stage, IntakeTypeOK, Execution
  <2>3. x \in Execution
    BY <2>2 DEF Execution
  <2>. QED BY <1>0, <1>5, <2>1, <2>3 DEF Respond, QuietStep
<1>6. CASE Stop(e)
  <2>. DEFINE x == Idle("ended")
  <2>1. x \in Execution
    BY IdleType DEF Stage
  <2>2. x.stage = "ended" /\ x.reply = NoReply
    BY DEF Idle
  <2>3. exec' = [exec EXCEPT ![e] = x] /\ session' = Forgotten(e)
    BY <1>6 DEF Stop
  <2>. QED BY <1>0, <1>6, <2>1, <2>2, <2>3, NoReplyIsGood, ForgottenStep DEF Stop, QuietStep
<1>. QED BY <1>1, <1>2, <1>3, <1>4, <1>5, <1>6 DEF Workflow

(* A step of the workflow that opens no session revives nobody. *)
LEMMA QuietKeeps ==
  ASSUME IInv, NEW e \in Exec, QuietStep(e)
  PROVE  \A f \in Exec : exec[f].stage # "none" =>
           exec'[f].stage # "none" /\ (~Alive(f) => ~Alive(f)')
<1>. SUFFICES ASSUME NEW f \in Exec, exec[f].stage # "none"
              PROVE  exec'[f].stage # "none" /\ (~Alive(f) => ~Alive(f)')
  OBVIOUS
<1>1. PICK x \in Execution : exec' = [exec EXCEPT ![e] = x] /\ x.stage # "none"
  BY DEF QuietStep
<1>2. \A s \in Session : session'[s].stage = session[s].stage
  BY DEF QuietStep
<1>3. exec \in [Exec -> Execution]
  BY DEF IInv, IntakeTypeOK
<1>4. CASE f = e
  <2>1. Alive(f)
    BY <1>4 DEF QuietStep, Alive
  <2>. QED BY <1>1, <1>3, <1>4, <2>1
<1>5. CASE f # e
  <2>1. exec'[f] = exec[f]
    BY <1>1, <1>3, <1>5
  <2>. QED BY <1>2, <2>1 DEF Alive
<1>. QED BY <1>4, <1>5

LEMMA QuietSafe ==
  ASSUME IInv, NEW e \in Exec, QuietStep(e), IntakeTypeOK'
  PROVE  IInv'
<1>1. PICK x \in Execution : /\ exec' = [exec EXCEPT ![e] = x]
                             /\ x.stage # "none"
                             /\ GoodReply(e, x.reply)
  BY DEF QuietStep
<1>2. \A s \in Session : /\ session'[s].stage = session[s].stage
                         /\ session'[s].reply \in {session[s].reply, NoReply}
  BY DEF QuietStep
<1>3. UNCHANGED <<sent, lock, issued, current>> /\ exec[e].stage # "none"
  BY DEF QuietStep, Running
<1>4. exec \in [Exec -> Execution]
  BY DEF IInv, IntakeTypeOK
<1>5. LockInv'
  BY <1>2, <1>3 DEF IInv, LockInv
<1>6. StartInv'
  <2>1. \A f \in Exec : f # e => exec'[f] = exec[f]
    BY <1>1, <1>4
  <2>2. exec'[e].stage # "none"
    BY <1>1, <1>4
  <2>. QED BY <1>2, <1>3, <2>1, <2>2, SessionFacts DEF IInv, StartInv
<1>7. ReplyInv'
  <2>1. \A f \in Exec : \A r : GoodReply(f, r) => GoodReply(f, r)'
    BY <1>3 DEF GoodReply
  <2>2. \A f \in Exec : GoodReply(f, exec'[f].reply)
    BY <1>1, <1>4 DEF IInv, ReplyInv
  <2>3. \A s \in Session : GoodReply(s[1], session'[s].reply)
    BY <1>2, NoReplyIsGood, SessionFacts DEF IInv, ReplyInv
  <2>. QED BY <1>3, <2>2, <2>3 DEF ReplyInv, GoodReply
<1>8. PeerInv' /\ NoTwinTicket' /\ CurrentInv'
  BY <1>3, QuietKeeps, PeerFrame
<1>. QED BY <1>5, <1>6, <1>7, <1>8 DEF IInv

(* The store node opens a session for an execution that runs already. *)
LEMMA CallStoreSafe ==
  ASSUME IInv, NEW e \in Exec, CallStore(e), IntakeTypeOK'
  PROVE  IInv'
<1>0. IntakeTypeOK /\ SessionOf(e) \in Session /\ SessionOf(e)[1] = e
  BY SessionOfType DEF IInv
<1>1. UNCHANGED <<sent, exec, lock, issued, current>> /\ exec[e].stage = "store"
  BY DEF CallStore
<1>2. \A s \in Session :
        /\ session'[s].reply = session[s].reply
        /\ s = SessionOf(e) => session'[s].stage \in {"begun", "over"}
        /\ s # SessionOf(e) => session'[s] = session[s]
  BY <1>0 DEF CallStore, IntakeTypeOK
<1>3. LockInv'
  BY <1>1, <1>2 DEF IInv, LockInv
<1>4. StartInv'
  BY <1>0, <1>1, <1>2 DEF IInv, StartInv
<1>5. ReplyInv'
  BY <1>1, <1>2 DEF IInv, ReplyInv, GoodReply
<1>6. \A f \in Exec : exec[f].stage # "none" =>
        exec'[f].stage # "none" /\ (~Alive(f) => ~Alive(f)')
  <2>1. Alive(e)
    BY <1>1 DEF Alive, Running
  <2>2. \A f \in Exec : f # e /\ Alive(f)' => Alive(f)
    BY <1>0, <1>1, <1>2 DEF Alive
  <2>. QED BY <1>1, <2>1, <2>2
<1>7. PeerInv' /\ NoTwinTicket' /\ CurrentInv'
  BY <1>1, <1>6, PeerFrame
<1>. QED BY <1>3, <1>4, <1>5, <1>7 DEF IInv

(* A sending uses an execution that never ran. *)
LEMMA SendSafe ==
  ASSUME IInv, NEW c \in Client, Send(c)
  PROVE  IInv'
<1>. DEFINE e == <<c, sent[c] + 1>>
<1>0. IntakeTypeOK /\ IntakeTypeOK' /\ e \in Exec
  BY SendType DEF IInv
<1>1. UNCHANGED <<session, lock, issued, current>>
  BY DEF Send
<1>2. exec[e].stage = "none"
  <2>1. sent[c] \in Nat
    BY <1>0 DEF IntakeTypeOK
  <2>2. sent[e[1]] < e[2]
    BY <2>1
  <2>. QED BY <1>0, <2>2 DEF IInv, StartInv
<1>3. /\ \A f \in Exec : f # e => exec'[f] = exec[f]
      /\ exec'[e].stage = "received"
      /\ exec'[e].reply = exec[e].reply
  BY <1>0 DEF Send, IntakeTypeOK, Execution
<1>4. LockInv'
  BY <1>1 DEF IInv, LockInv
<1>5. StartInv'
  <2>1. ASSUME NEW f \in Exec, sent'[f[1]] < f[2]
        PROVE  exec'[f].stage = "none"
    <3>1. f[1] \in Client /\ f[2] \in Nat /\ sent \in [Client -> Nat]
      <4>1. f[1] \in Client /\ f[2] \in 1..Sends[f[1]]
        BY ExecFacts
      <4>2. Sends[f[1]] \in Nat
        BY <4>1, ClientAssumption
      <4>3. sent \in [Client -> Nat]
        BY <1>0 DEF IntakeTypeOK
      <4>. QED BY <4>1, <4>2, <4>3
    <3>2. sent' = [sent EXCEPT ![c] = sent[c] + 1]
      BY DEF Send
    <3>3. sent[f[1]] < f[2] /\ f # e
      BY <2>1, <3>1, <3>2
    <3>. QED BY <1>3, <3>3 DEF IInv, StartInv
  <2>2. ASSUME NEW s \in Session, session'[s].stage # "none"
        PROVE  exec'[s[1]].stage # "none"
    BY <1>1, <1>3, <2>2, SessionFacts DEF IInv, StartInv
  <2>. QED BY <2>1, <2>2 DEF StartInv
<1>6. ReplyInv'
  <2>1. \A f \in Exec : exec'[f].reply = exec[f].reply
    BY <1>3
  <2>. QED BY <1>1, <2>1 DEF IInv, ReplyInv, GoodReply
<1>7. \A f \in Exec : exec[f].stage # "none" =>
        exec'[f].stage # "none" /\ (~Alive(f) => ~Alive(f)')
  BY <1>1, <1>2, <1>3 DEF Alive
<1>8. PeerInv' /\ NoTwinTicket' /\ CurrentInv'
  BY <1>1, <1>7, PeerFrame
<1>. QED BY <1>0, <1>4, <1>5, <1>6, <1>8 DEF IInv

----------------------------------------------------------------------------
(* Steps of the database *)

LEMMA SessionKeeps ==
  ASSUME NEW s \in Session, session[s].stage \in OpenStage, UNCHANGED exec,
         \A u \in Session : u # s => session'[u] = session[u]
  PROVE  \A f \in Exec : exec[f].stage # "none" =>
           exec'[f].stage # "none" /\ (~Alive(f) => ~Alive(f)')
BY DEF Alive

LEMMA FinishedFacts ==
  ASSUME IntakeTypeOK, NEW s \in Session, NEW st, NEW r, session' = Finished(s, st, r)
  PROVE  /\ session'[s].stage = st
         /\ session'[s].reply \in {r, NoReply}
         /\ \A u \in Session : u # s => session'[u] = session[u]
BY DEF IntakeTypeOK, Finished

(* The lock is kept by whoever holds it, unless it is s. *)
LEMMA UnlockedFacts ==
  ASSUME IntakeTypeOK, NEW s \in Session, lock' = Unlocked(s)
  PROVE  \A u \in Session : u # s /\ lock[SessionKey(u)] = u => lock'[SessionKey(u)] = u
BY SessionFacts DEF IntakeTypeOK, Unlocked

LEMMA LockKeySafe ==
  ASSUME IInv, NEW s \in Session, LockKey(s), IntakeTypeOK'
  PROVE  IInv'
<1>0. IntakeTypeOK
  BY DEF IInv
<1>1. UNCHANGED <<sent, exec, issued, current>> /\ session[s].stage = "begun"
  BY DEF LockKey
<1>2. /\ session'[s].stage = "locked"
      /\ session'[s].reply = session[s].reply
      /\ \A u \in Session : u # s => session'[u] = session[u]
  BY <1>0 DEF LockKey, IntakeTypeOK
<1>3. LockInv'
  <2>1. SessionKey(s) \in Key /\ s # Nobody
    BY SessionFacts
  <2>2. lock[SessionKey(s)] = Nobody /\ lock' = [lock EXCEPT ![SessionKey(s)] = s]
    BY DEF LockKey, LockFree
  <2>3. lock'[SessionKey(s)] = s
    BY <1>0, <2>1, <2>2 DEF IntakeTypeOK
  <2>4. ASSUME NEW u \in Session, u # s, lock[SessionKey(u)] = u
        PROVE  lock'[SessionKey(u)] = u
    BY <1>0, <2>2, <2>4, SessionFacts DEF IntakeTypeOK
  <2>. QED BY <1>1, <1>2, <2>3, <2>4 DEF IInv, LockInv
<1>4. StartInv'
  BY <1>1, <1>2 DEF IInv, StartInv
<1>5. ReplyInv'
  BY <1>1, <1>2 DEF IInv, ReplyInv, GoodReply
<1>6. PeerInv' /\ NoTwinTicket' /\ CurrentInv'
  BY <1>1, <1>2, SessionKeeps, PeerFrame DEF OpenStage
<1>. QED BY <1>3, <1>4, <1>5, <1>6 DEF IInv

(* A session that ends without a ticket, with a reply that is true. *)
LEMMA EndSafe ==
  ASSUME IInv, IntakeTypeOK', NEW s \in Session, NEW r, GoodReply(s[1], r),
         session[s].stage \in OpenStage,
         session' = Finished(s, "over", r),
         lock' = Unlocked(s),
         UNCHANGED <<sent, exec, issued, current>>
  PROVE  IInv'
<1>0. IntakeTypeOK
  BY DEF IInv
<1>1. /\ session'[s].stage = "over"
      /\ session'[s].reply \in {r, NoReply}
      /\ \A u \in Session : u # s => session'[u] = session[u]
  BY <1>0, FinishedFacts
<1>2. LockInv'
  BY <1>0, <1>1, UnlockedFacts DEF IInv, LockInv
<1>3. StartInv'
  BY <1>1 DEF IInv, StartInv, OpenStage
<1>4. ReplyInv'
  <2>1. \A u \in Session : GoodReply(u[1], session'[u].reply)
    BY <1>1, NoReplyIsGood, SessionFacts DEF IInv, ReplyInv
  <2>. QED BY <2>1 DEF IInv, ReplyInv, GoodReply
<1>5. PeerInv' /\ NoTwinTicket' /\ CurrentInv'
  BY <1>1, SessionKeeps, PeerFrame
<1>. QED BY <1>2, <1>3, <1>4, <1>5 DEF IInv

LEMMA LookupSafe ==
  ASSUME IInv, NEW s \in Session, Lookup(s), IntakeTypeOK'
  PROVE  IInv'
<1>. DEFINE t == current[SessionKey(s)]
<1>0. IntakeTypeOK
  BY DEF IInv
<1>1. UNCHANGED <<sent, exec, issued, current>> /\ session[s].stage = "locked"
  BY DEF Lookup
<1>2. CASE t = 0
  <2>1. session' = [session EXCEPT ![s].stage = "insert"] /\ UNCHANGED lock
    BY <1>2 DEF Lookup
  <2>2. /\ session'[s].stage = "insert"
        /\ session'[s].reply = session[s].reply
        /\ \A u \in Session : u # s => session'[u] = session[u]
    BY <1>0, <2>1 DEF IntakeTypeOK
  <2>3. LockInv'
    BY <1>1, <1>2, <2>1, <2>2 DEF IInv, LockInv
  <2>4. StartInv'
    BY <1>1, <2>2 DEF IInv, StartInv
  <2>5. ReplyInv'
    BY <1>1, <2>2 DEF IInv, ReplyInv, GoodReply
  <2>6. PeerInv' /\ NoTwinTicket' /\ CurrentInv'
    BY <1>1, <2>2, SessionKeeps, PeerFrame DEF OpenStage
  <2>. QED BY <2>3, <2>4, <2>5, <2>6 DEF IInv
<1>3. CASE t # 0
  <2>1. t \in 1..Len(issued) /\ issued[t].key = ExecKey(s[1])
    BY <1>3, SessionFacts DEF IInv, CurrentInv, SessionKey
  <2>2. CASE SameRequest(s, t)
    <3>1. GoodReply(s[1], ReplyOf(200, t))
      BY <2>1, <2>2 DEF GoodReply, ReplyOf, Accepted, SameRequest, SessionBody
    <3>2. session' = Finished(s, "over", ReplyOf(200, t)) /\ lock' = Unlocked(s)
      BY <1>3, <2>2 DEF Lookup
    <3>. QED BY <1>1, <3>1, <3>2, EndSafe DEF OpenStage
  <2>3. CASE ~SameRequest(s, t)
    <3>1. issued[t].body # BodyOf[s[1][1]]
      BY <2>3 DEF SameRequest, SessionBody
    <3>2. GoodReply(s[1], ReplyOf(409, 0))
      BY <2>1, <3>1 DEF GoodReply, ReplyOf, Accepted
    <3>3. session' = Finished(s, "over", ReplyOf(409, 0)) /\ lock' = Unlocked(s)
      BY <1>3, <2>3 DEF Lookup
    <3>. QED BY <1>1, <3>2, <3>3, EndSafe DEF OpenStage
  <2>. QED BY <2>2, <2>3
<1>. QED BY <1>2, <1>3

LEMMA AbortSafe ==
  ASSUME IInv, NEW s \in Session, Abort(s), IntakeTypeOK'
  PROVE  IInv'
BY NoReplyIsGood, SessionFacts, EndSafe DEF Abort

(* Retention outlives every execution that saw the ticket being made. *)
LEMMA PurgeSafe ==
  ASSUME IInv, NEW k \in Key, Purge(k), IntakeTypeOK'
  PROVE  IInv'
<1>0. IntakeTypeOK
  BY DEF IInv
<1>1. UNCHANGED <<sent, exec, session, lock, issued>>
  BY DEF Purge
<1>2. /\ current[k] # 0
      /\ current'[k] = 0
      /\ \A j \in Key : j # k => current'[j] = current[j]
  BY <1>0 DEF Purge, IntakeTypeOK
<1>3. LockInv'
  BY <1>1, <1>2, SessionFacts DEF IInv, LockInv
<1>4. CurrentInv'
  BY <1>1, <1>2 DEF IInv, CurrentInv
<1>5. StartInv' /\ ReplyInv' /\ NoTwinTicket'
  BY <1>1 DEF IInv, StartInv, ReplyInv, GoodReply, NoTwinTicket
<1>6. PeerInv'
  <2>. SUFFICES ASSUME NEW t \in 1..Len(issued), NEW e \in issued[t].peers
                PROVE  /\ exec[e].stage # "none"
                       /\ current'[issued[t].key] # t => ~Alive(e)
    BY <1>1 DEF PeerInv, Alive
  <2>1. exec[e].stage # "none" /\ (current[issued[t].key] # t => ~Alive(e))
    BY DEF IInv, PeerInv
  <2>2. issued[t].key \in Key
    BY <1>0, TicketFacts
  <2>3. CASE t = current[k]
    BY <2>1, <2>3 DEF Purge, Expired
  <2>4. CASE t # current[k]
    BY <1>2, <2>1, <2>2, <2>4
  <2>. QED BY <2>3, <2>4
<1>. QED BY <1>3, <1>4, <1>5, <1>6 DEF IInv

LEMMA InsertSafe ==
  ASSUME IInv, NEW s \in Session, Insert(s), IntakeTypeOK'
  PROVE  IInv'
<1>. DEFINE k == SessionKey(s)
            n == Len(issued) + 1
            new == NewTicket(s)
<1>0. IntakeTypeOK /\ k \in Key /\ s[1] \in Exec
  BY SessionFacts DEF IInv
<1>1. session[s].stage = "insert" /\ current[k] = 0 /\ lock[k] = s
  BY DEF Insert, IInv, LockInv
<1>2. /\ UNCHANGED <<sent, exec>>
      /\ lock' = Unlocked(s)
      /\ issued' = Append(issued, new)
      /\ current' = [current EXCEPT ![k] = n]
      /\ session' = Finished(s, "over", ReplyOf(201, n))
  BY <1>1 DEF Insert
<1>3. issued \in Seq(Ticket) /\ issued' \in Seq(Ticket)
  BY <1>0 DEF IntakeTypeOK
<1>4. /\ Len(issued) \in Nat
      /\ Len(issued') = n
      /\ issued'[n] = new
      /\ \A t \in 1..Len(issued) : t \in 1..Len(issued') /\ issued'[t] = issued[t]
      /\ \A t \in 1..Len(issued') : t \in 1..Len(issued) \/ t = n
  <2>1. new \in Ticket
    BY <1>0, SessionFacts DEF NewTicket, Ticket
  <2>. QED BY <1>2, <1>3, <2>1
<1>5. /\ current'[k] = n
      /\ \A j \in Key : j # k => current'[j] = current[j]
  BY <1>0, <1>2 DEF IntakeTypeOK
<1>6. /\ session'[s].stage = "over"
      /\ session'[s].reply \in {ReplyOf(201, n), NoReply}
      /\ \A u \in Session : u # s => session'[u] = session[u]
  BY <1>0, <1>2, FinishedFacts
<1>7. new.key = k /\ new.body = BodyOf[s[1][1]] /\ new.maker = s[1] /\ new.peers = {e \in Exec : Alive(e)}
  BY DEF NewTicket, SessionBody
<1>8. LockInv'
  <2>1. \A u \in Session : u # s /\ lock[SessionKey(u)] = u => lock'[SessionKey(u)] = u
    BY <1>0, <1>2, UnlockedFacts
  <2>2. ASSUME NEW u \in Session, u # s, session[u].stage = "insert"
        PROVE  SessionKey(u) # k
    BY <1>1, <2>2 DEF IInv, LockInv
  <2>. QED BY <1>5, <1>6, <2>1, <2>2, SessionFacts DEF IInv, LockInv
<1>9. CurrentInv'
  <2>. SUFFICES ASSUME NEW j \in Key, current'[j] # 0
                PROVE  current'[j] \in 1..Len(issued') /\ issued'[current'[j]].key = j
    BY DEF CurrentInv
  <2>1. CASE j = k
    BY <1>4, <1>5, <1>7, <2>1
  <2>2. CASE j # k
    BY <1>4, <1>5, <2>2 DEF IInv, CurrentInv
  <2>. QED BY <2>1, <2>2
<1>10. StartInv'
  BY <1>1, <1>2, <1>6 DEF IInv, StartInv
<1>11. ReplyInv'
  <2>. DEFINE Told(e, r) ==
                /\ Accepted(r) => /\ r.ticket \in 1..n
                                  /\ issued'[r.ticket].key = ExecKey(e)
                                  /\ issued'[r.ticket].body = BodyOf[e[1]]
                /\ r.code = 409 =>
                     \E t \in 1..n : /\ issued'[t].key = ExecKey(e)
                                     /\ issued'[t].body # BodyOf[e[1]]
  <2>1. ASSUME NEW e, NEW r, GoodReply(e, r)
        PROVE  Told(e, r)
    <3>1. ASSUME Accepted(r)
          PROVE  /\ r.ticket \in 1..n
                 /\ issued'[r.ticket].key = ExecKey(e)
                 /\ issued'[r.ticket].body = BodyOf[e[1]]
      BY <1>4, <2>1, <3>1 DEF GoodReply
    <3>2. ASSUME r.code = 409
          PROVE  \E t \in 1..n : /\ issued'[t].key = ExecKey(e)
                                 /\ issued'[t].body # BodyOf[e[1]]
      <4>1. PICK t \in 1..Len(issued) :
              issued[t].key = ExecKey(e) /\ issued[t].body # BodyOf[e[1]]
        BY <2>1, <3>2 DEF GoodReply
      <4>. QED BY <1>4, <4>1
    <3>. QED BY <3>1, <3>2
  <2>2. Told(s[1], ReplyOf(201, n))
    <3>1. n \in 1..n
      BY <1>4
    <3>. QED BY <1>4, <1>7, <3>1 DEF ReplyOf, Accepted, SessionKey
  <2>3. Told(s[1], NoReply)
    BY DEF NoReply, Accepted
  <2>4. \A e \in Exec : Told(e, exec'[e].reply)
    BY <1>2, <2>1 DEF IInv, ReplyInv
  <2>5. \A u \in Session : Told(u[1], session'[u].reply)
    <3>. TAKE u \in Session
    <3>1. CASE u = s
      BY <1>6, <2>2, <2>3, <3>1
    <3>2. CASE u # s
      BY <1>6, <2>1, <3>2 DEF IInv, ReplyInv
    <3>. QED BY <3>1, <3>2
  <2>. QED BY <1>4, <2>4, <2>5 DEF ReplyInv, GoodReply
<1>12. \A f \in Exec : exec[f].stage # "none" =>
         exec'[f].stage # "none" /\ (~Alive(f) => ~Alive(f)')
  BY <1>1, <1>2, <1>6, SessionKeeps DEF OpenStage
<1>13. \A e \in new.peers : e \in Exec /\ exec[e].stage # "none"
  BY <1>7 DEF IInv, StartInv, Alive, Running, OpenStage
<1>14. PeerInv'
  <2>. SUFFICES ASSUME NEW t \in 1..Len(issued'), NEW e \in issued'[t].peers
                PROVE  /\ exec'[e].stage # "none"
                       /\ current'[issued'[t].key] # t => ~Alive(e)'
    BY DEF PeerInv
  <2>1. CASE t = n
    BY <1>2, <1>4, <1>5, <1>7, <1>13, <2>1
  <2>2. CASE t \in 1..Len(issued)
    <3>1. issued'[t] = issued[t] /\ issued[t].key \in Key /\ e \in Exec /\ t # 0
      BY <1>0, <1>4, <2>2, TicketFacts
    <3>2. exec[e].stage # "none" /\ (current[issued[t].key] # t => ~Alive(e))
      BY <2>2, <3>1 DEF IInv, PeerInv
    <3>3. current'[issued[t].key] # t => current[issued[t].key] # t
      BY <1>1, <1>5, <3>1
    <3>. QED BY <1>12, <3>1, <3>2, <3>3
  <2>. QED BY <1>4, <2>1, <2>2
<1>15. NoTwinTicket'
  <2>. SUFFICES ASSUME NEW t \in 1..Len(issued'), NEW u \in 1..Len(issued'),
                       t < u, issued'[t].key = issued'[u].key
                PROVE  issued'[u].maker \notin issued'[t].peers
    BY DEF NoTwinTicket
  <2>1. t \in 1..Len(issued) /\ issued'[t] = issued[t]
    BY <1>4
  <2>2. CASE u = n
    <3>1. issued[t].key = k /\ t # 0
      BY <1>4, <1>7, <2>1, <2>2
    <3>2. \A e \in issued[t].peers : ~Alive(e)
      BY <1>1, <2>1, <3>1 DEF IInv, PeerInv
    <3>3. Alive(s[1])
      BY <1>1 DEF Alive, OpenStage
    <3>. QED BY <1>4, <1>7, <2>1, <2>2, <3>2, <3>3
  <2>3. CASE u \in 1..Len(issued)
    BY <1>4, <2>1, <2>3 DEF IInv, NoTwinTicket
  <2>. QED BY <1>4, <2>2, <2>3
<1>. QED BY <1>8, <1>9, <1>10, <1>11, <1>14, <1>15 DEF IInv

----------------------------------------------------------------------------
(* The theorems *)

LEMMA InitInv == Init => IInv
<1>. SUFFICES ASSUME Init PROVE IInv
  OBVIOUS
<1>1. /\ \A e \in Exec : exec[e].stage = "none" /\ exec[e].reply = NoReply
      /\ \A s \in Session : session[s].stage = "none" /\ session[s].reply = NoReply
      /\ issued = <<>>
      /\ \A k \in Key : current[k] = 0
  BY DEF Init, Idle
<1>2. LockInv /\ CurrentInv /\ StartInv
  BY <1>1, SessionFacts DEF LockInv, CurrentInv, StartInv
<1>3. ReplyInv
  BY <1>1, NoReplyIsGood, SessionFacts DEF ReplyInv
<1>4. PeerInv /\ NoTwinTicket
  BY <1>1 DEF PeerInv, NoTwinTicket
<1>. QED BY <1>2, <1>3, <1>4, InitType DEF IInv

LEMMA StepInv == IInv /\ [Next]_vars => IInv'
<1>. SUFFICES ASSUME IInv, [Next]_vars PROVE IInv'
  OBVIOUS
<1>0. IntakeTypeOK'
  BY StepType DEF IInv
<1>1. ASSUME NEW c \in Client, Send(c) PROVE IInv'
  BY <1>1, SendSafe
<1>2. ASSUME NEW e \in Exec, Workflow(e) PROVE IInv'
  <2>1. CASE CallStore(e)
    BY <1>0, <2>1, CallStoreSafe
  <2>2. CASE ~CallStore(e)
    BY <1>0, <1>2, <2>2, WorkflowIsQuiet, QuietSafe
  <2>. QED BY <2>1, <2>2
<1>3. ASSUME NEW s \in Session, IngestLead(s) PROVE IInv'
  BY <1>0, <1>3, LockKeySafe, LookupSafe, InsertSafe, AbortSafe DEF IngestLead
<1>4. ASSUME NEW k \in Key, Purge(k) PROVE IInv'
  BY <1>0, <1>4, PurgeSafe
<1>5. CASE UNCHANGED vars
  <2>1. LockInv' /\ CurrentInv' /\ StartInv' /\ NoTwinTicket'
    BY <1>5 DEF vars, IInv, LockInv, CurrentInv, StartInv, NoTwinTicket
  <2>2. ReplyInv' /\ PeerInv'
    BY <1>5 DEF vars, IInv, ReplyInv, GoodReply, PeerInv, Alive
  <2>. QED BY <1>0, <2>1, <2>2 DEF IInv
<1>. QED BY <1>1, <1>2, <1>3, <1>4, <1>5 DEF Next

(* Every reachable state satisfies the inductive invariant: the keys'      *)
(* locks, the rows under them and the answers on their way agree.          *)
THEOREM Invariance == Spec => []IInv
BY InitInv, StepInv, PTL DEF Spec

(* No insert ever meets the unique index on idempotency_key: the advisory  *)
(* lock makes lookup and insert of ingest_lead one step for its key.       *)
THEOREM UniqueIndexIsIdleHolds == Spec => []UniqueIndexIsIdle
<1>1. IInv => UniqueIndexIsIdle
  BY DEF IInv, LockInv, UniqueIndexIsIdle
<1>. QED BY <1>1, Invariance, PTL

(* An accepted client is told of a ticket made for its own key and body.   *)
THEOREM AnswersOwnRequestHolds == Spec => []AnswersOwnRequest
<1>1. IInv => AnswersOwnRequest
  BY DEF IInv, ReplyInv, GoodReply, AnswersOwnRequest
<1>. QED BY <1>1, Invariance, PTL

(* A 409 always has another body, accepted under the same key, behind it.  *)
THEOREM ConflictIsRealHolds == Spec => []ConflictIsReal
<1>1. IInv => ConflictIsReal
  BY DEF IInv, ReplyInv, GoodReply, ConflictIsReal
<1>. QED BY <1>1, Invariance, PTL

(* Tries and sendings that overlap never make two tickets under one key,   *)
(* whatever is lost, repeated or left behind by its caller.                *)
THEOREM NoTwinTicketHolds == Spec => []NoTwinTicket
<1>1. IInv => NoTwinTicket
  BY DEF IInv
<1>. QED BY <1>1, Invariance, PTL
=============================================================================
