------------------------------ MODULE CrmProofs ------------------------------
(***************************************************************************)
(* Proofs about CrmSessions, for any number of processes, leads and        *)
(* commands: type correctness and the write lock, that conversions and     *)
(* imports are whole, that nothing closed is reopened, and that the        *)
(* timeline tells of what was done.                                        *)
(***************************************************************************)
EXTENDS CrmSessions, FiniteSetTheorems, TLAPS

LeadRow(l) == <<"lead", l>>
DealRow(l) == <<"deal", l>>

(* A command that runs has a number. *)
Numbered == \A p \in Proc : proc[p].step # "idle" => proc[p].no # 0

(* The statuses after an import of all leads but `rest`. *)
Imported(rest) ==
  [x \in Record |-> IF x[1] = "lead" /\ x[2] \notin rest /\ db.status[x] = "absent"
                    THEN "new" ELSE db.status[x]]

(* How far the open transaction has come from the committed file, which it
   alone can replace. *)
ConvertFits(step, l) ==
  /\ step = "resolve" =>
       pending.status = db.status /\ pending.contacts = db.contacts
  /\ step # "resolve" =>
       /\ pending.contacts = db.contacts \union {EmailOf[l]}
       /\ db.status[LeadRow(l)] \in {"new", "qualified"}
  /\ step = "deal" => pending.status = db.status
  /\ step = "link" =>
       /\ db.status[DealRow(l)] = "absent"
       /\ pending.status = [db.status EXCEPT ![DealRow(l)] = "open"]
  /\ step = "commit" =>
       /\ db.status[DealRow(l)] = "absent"
       /\ pending.status = [db.status EXCEPT ![DealRow(l)] = "open", ![LeadRow(l)] = "converted"]

ImportFits(step, rest) ==
  /\ pending.contacts = db.contacts /\ pending.status = Imported(rest)
  /\ step = "commit" => rest = {}

Fit(p) ==
  \/ /\ proc[p].cmd.op = "convert" /\ proc[p].step \in {"resolve", "deal", "link", "commit"}
     /\ ConvertFits(proc[p].step, proc[p].cmd.lead)
  \/ /\ proc[p].cmd.op = "import" /\ proc[p].step \in {"rows", "commit"}
     /\ ImportFits(proc[p].step, proc[p].rows)
PendingFits == \A p \in Proc : writer = p => Fit(p)

(* Rows are still to be read only by an import, all of them before it begins;
   an UPDATE is run by the commands that have one. *)
StepFit(c) ==
  /\ c.step = "begin" => Transactional(c.cmd.op)
  /\ c.step \in {"actor", "begin"} /\ c.cmd.op = "import" => c.rows = Lead
  /\ c.step \in {"read", "update", "log", "insert"} => Guarded(c.cmd.op)
StepFits == \A p \in Proc : StepFit(proc[p])

IInv == CrmTypeOK /\ Numbered /\ PendingFits /\ StepFits /\ TransactionsAreWhole
-----------------------------------------------------------------------------
(* Records, entries, files *)

LEMMA Rows ==
  /\ \A l \in Lead : LeadRow(l) \in Record /\ DealRow(l) \in Record
  /\ \A l, m \in Lead : LeadRow(l) # DealRow(m)
  /\ \A l, m \in Lead : LeadRow(l) = LeadRow(m) => l = m
  /\ \A l, m \in Lead : DealRow(l) = DealRow(m) => l = m
  /\ \A l \in Lead : LeadRow(l)[1] = "lead" /\ LeadRow(l)[2] = l /\ DealRow(l)[1] = "deal"
  /\ \A x \in Record : x[2] \in Lead /\ (x[1] = "lead" => x = LeadRow(x[2]))
BY DEF LeadRow, DealRow, Record

LEMMA CommandRecord ==
  ASSUME NEW cmd \in Command
  PROVE  RecordOf(cmd) \in Record
<1>1. cmd.lead \in Lead /\ KindOf(cmd.op) \in {"lead", "deal", "task"}
  BY DEF Command, KindOf
<1>. QED BY <1>1 DEF RecordOf, Record

LEMMA EntryType ==
  ASSUME CrmTypeOK, Numbered, NEW p \in Proc, proc[p].step # "idle",
         NEW op \in AllOps, NEW actor \in Proc \union {Nobody}
  PROVE  EntryOf(p, op, actor) \in Entry
<1>1. proc[p].no \in 1 .. MaxCommands
  BY MaxCommandsAssumption DEF CrmTypeOK, Process, Numbered
<1>. QED BY <1>1 DEF EntryOf, Entry

LEMMA ChangedFile ==
  ASSUME CrmTypeOK, Numbered, NEW p \in Proc, proc[p].step # "idle", NEW op \in AllOps,
         NEW file \in File, NEW x \in Record, NEW status \in Status
  PROVE  /\ Changed(file, p, x, op, status) \in File
         /\ Changed(file, p, x, op, status).status = [file.status EXCEPT ![x] = status]
         /\ Changed(file, p, x, op, status).contacts = file.contacts
         /\ Changed(file, p, x, op, status).actor \in Proc \union {Nobody}
<1>1. EntryOf(p, op, file.actor) \in Entry
  BY EntryType DEF File
<1>2. file.audit[x] \in Seq(Entry)
  BY DEF File
<1>3. Append(file.audit[x], EntryOf(p, op, file.actor)) \in Seq(Entry)
  BY <1>1, <1>2
<1>. QED BY <1>3 DEF Changed, File

LEMMA ToldFile ==
  ASSUME CrmTypeOK, Numbered, NEW p \in Proc, proc[p].step # "idle", NEW op \in AllOps,
         NEW file \in File, NEW x \in Record, NEW actor \in Proc \union {Nobody}
  PROVE  /\ Told(file, p, x, op, actor) \in File
         /\ Told(file, p, x, op, actor).status = file.status
         /\ Told(file, p, x, op, actor).contacts = file.contacts
<1>1. EntryOf(p, op, actor) \in Entry
  BY EntryType
<1>2. file.timeline[x] \in Seq(Entry)
  BY DEF File
<1>3. Append(file.timeline[x], EntryOf(p, op, actor)) \in Seq(Entry)
  BY <1>1, <1>2
<1>. QED BY <1>3 DEF Told, File

LEMMA InitializedFile == Initialized \in File
<1>1. [x \in Record |-> IF x[1] = "task" THEN "open" ELSE "absent"] \in [Record -> Status]
  BY DEF Status
<1>2. [x \in Record |-> <<>>] \in [Record -> Seq(Entry)]
  OBVIOUS
<1>. QED BY <1>1, <1>2 DEF Initialized, File

LEMMA EndedType ==
  ASSUME NEW n \in 0 .. MaxCommands
  PROVE  NotRunning(n) \in Process /\ NotRunning(n).step = "idle"
<1>1. (CHOOSE l \in Lead : TRUE) \in Lead
  BY LeadAssumption
<1>. QED BY <1>1 DEF NotRunning, Process, Step, Command, AllOps
-----------------------------------------------------------------------------
(* What a step of one process does to the others *)

(* q's command is where it was. *)
Undisturbed(q) ==
  /\ proc'[q].step = proc[q].step /\ proc'[q].cmd = proc[q].cmd
  /\ proc'[q].no = proc[q].no /\ proc'[q].rows = proc[q].rows

LEMMA OutdatedProcess ==
  ASSUME CrmTypeOK, NEW q \in Proc, NEW file
  PROVE  /\ Outdated(q, file) \in Process
         /\ Outdated(q, file).step = proc[q].step /\ Outdated(q, file).cmd = proc[q].cmd
         /\ Outdated(q, file).no = proc[q].no /\ Outdated(q, file).rows = proc[q].rows
BY DEF Outdated, CrmTypeOK, Process

LEMMA WriteTypes ==
  ASSUME CrmTypeOK, NEW p \in Proc, NEW file \in File, NEW next \in Process,
         Write(p, file, next), next.step \in InTransaction <=> writer = p
  PROVE  /\ CrmTypeOK'
         /\ proc'[p] = next /\ \A q \in Proc \ {p} : Undisturbed(q)
<1>1. CASE writer = p
  <2>1. proc' = [proc EXCEPT ![p] = next] /\ pending' = file /\ UNCHANGED <<db, writer>>
    BY <1>1 DEF Write
  <2>. QED BY <1>1, <2>1 DEF CrmTypeOK, Undisturbed
<1>2. CASE writer # p
  <2>1. /\ proc' = [q \in Proc |-> IF q = p THEN next ELSE Outdated(q, file)]
        /\ db' = file /\ UNCHANGED <<pending, writer>>
    BY <1>2 DEF Write
  <2>2. proc' \in [Proc -> Process] /\ proc'[p] = next /\ \A q \in Proc \ {p} : Undisturbed(q)
    BY <2>1, OutdatedProcess DEF Undisturbed
  <2>. QED BY <1>2, <2>1, <2>2 DEF CrmTypeOK, Undisturbed
<1>. QED BY <1>1, <1>2

LEMMA GivesUpTypes ==
  ASSUME CrmTypeOK, NEW p \in Proc, GivesUp(p)
  PROVE  /\ CrmTypeOK' /\ UNCHANGED db
         /\ proc'[p].step = "idle" /\ \A q \in Proc \ {p} : Undisturbed(q)
         /\ writer' # p /\ (writer # p => UNCHANGED <<writer, pending>>)
<1>1. proc[p].no \in 0 .. MaxCommands
  BY DEF CrmTypeOK, Process
<1>2. Ended(p) \in Process /\ Ended(p).step = "idle"
  BY <1>1, EndedType DEF Ended
<1>3. /\ proc'[p].step = "idle" /\ \A q \in Proc \ {p} : proc'[q] = proc[q]
      /\ proc' \in [Proc -> Process]
  BY <1>2 DEF GivesUp, CrmTypeOK
<1>4. writer' # p /\ (writer # p => UNCHANGED <<writer, pending>>)
      /\ (writer = p => writer' = Nobody /\ pending' = Initialized)
  BY NobodyAssumption DEF GivesUp
<1>5. \A q \in Proc : proc'[q].step \in InTransaction <=> writer' = q
  <2>1. proc'[p].step \notin InTransaction
    BY <1>3 DEF InTransaction
  <2>. QED BY <1>3, <1>4, <2>1, NobodyAssumption DEF CrmTypeOK
<1>. QED BY <1>3, <1>4, <1>5, InitializedFile DEF GivesUp, CrmTypeOK, Undisturbed
-----------------------------------------------------------------------------
(* The forms of a step *)

WholeFile(file) ==
  /\ \A l \in Lead : file.status[LeadRow(l)] = "converted" <=> file.status[DealRow(l)] # "absent"
  /\ file.contacts = {EmailOf[l] : l \in {m \in Lead : file.status[LeadRow(m)] = "converted"}}
  /\ \A l, m \in Lead : file.status[LeadRow(l)] = "absent" <=> file.status[LeadRow(m)] = "absent"

LEMMA WholeMeans ==
  /\ TransactionsAreWhole <=> WholeFile(db)
  /\ TransactionsAreWhole' <=> WholeFile(db')
BY DEF TransactionsAreWhole, WholeFile, LeadRow, DealRow

(* What is left to show once p's own record is known to fit. *)
LEMMA OthersFit ==
  ASSUME IInv, NEW p \in Proc, \A q \in Proc \ {p} : Undisturbed(q),
         proc'[p].step # "idle" => proc'[p].no # 0, StepFit(proc'[p])
  PROVE  Numbered' /\ StepFits'
BY DEF IInv, Numbered, StepFits, StepFit, Undisturbed

(* The transaction of another process is not touched. *)
LEMMA TransactionKept ==
  ASSUME IInv, NEW p \in Proc, \A q \in Proc \ {p} : Undisturbed(q),
         writer' # p, UNCHANGED <<db, writer, pending>>
  PROVE  PendingFits'
BY DEF IInv, PendingFits, Fit, ConvertFits, ImportFits, Imported, Undisturbed

(* A step of p's own, without a statement that writes. *)
LEMMA QuietStep ==
  ASSUME IInv, NEW p \in Proc, NEW next \in Process, writer # p,
         proc' = [proc EXCEPT ![p] = next], UNCHANGED <<db, writer, pending>>,
         next.step \notin InTransaction, next.no # 0, StepFit(next)
  PROVE  IInv'
<1>1. proc'[p] = next /\ \A q \in Proc \ {p} : Undisturbed(q)
  BY DEF IInv, CrmTypeOK, Undisturbed
<1>2. CrmTypeOK'
  BY DEF IInv, CrmTypeOK
<1>3. Numbered' /\ StepFits' /\ PendingFits'
  BY <1>1, OthersFit, TransactionKept
<1>4. TransactionsAreWhole'
  BY WholeMeans DEF IInv
<1>. QED BY <1>2, <1>3, <1>4 DEF IInv

(* A statement outside a transaction: nobody is in one. *)
LEMMA LoneWrite ==
  ASSUME IInv, NEW p \in Proc, NEW file \in File, NEW next \in Process, writer # p,
         Write(p, file, next), next.step \notin InTransaction,
         next.step # "idle" => next.no # 0, StepFit(next), WholeFile(file)
  PROVE  IInv'
<1>1. CrmTypeOK' /\ proc'[p] = next /\ \A q \in Proc \ {p} : Undisturbed(q)
  BY WriteTypes DEF IInv
<1>2. Numbered' /\ StepFits'
  BY <1>1, OthersFit
<1>3. PendingFits'
  BY NobodyAssumption DEF Write, Locked, PendingFits
<1>4. TransactionsAreWhole'
  BY WholeMeans DEF Write
<1>. QED BY <1>1, <1>2, <1>3, <1>4 DEF IInv

(* A statement in p's transaction: what is committed stays as it is. *)
LEMMA InnerWrite ==
  ASSUME IInv, NEW p \in Proc, NEW file \in File, NEW next \in Process, writer = p,
         Write(p, file, next), next.step \in InTransaction, next.no # 0
  PROVE  /\ UNCHANGED db /\ pending' = file /\ proc'[p] = next
         /\ Fit(p)' => IInv'
<1>1. CrmTypeOK' /\ proc'[p] = next /\ \A q \in Proc \ {p} : Undisturbed(q)
  BY WriteTypes DEF IInv
<1>2. UNCHANGED <<db, writer>> /\ pending' = file
  BY DEF Write
<1>3. StepFit(next)
  BY DEF StepFit, InTransaction
<1>4. Numbered' /\ StepFits'
  BY <1>1, <1>3, OthersFit
<1>5. TransactionsAreWhole'
  BY <1>2, WholeMeans DEF IInv
<1>6. Fit(p)' => PendingFits'
  BY <1>2 DEF PendingFits
<1>. QED BY <1>1, <1>2, <1>4, <1>5, <1>6 DEF IInv

LEMMA GivesUpStep ==
  ASSUME IInv, NEW p \in Proc, GivesUp(p)
  PROVE  IInv' /\ UNCHANGED db
<1>1. /\ CrmTypeOK' /\ UNCHANGED db
      /\ proc'[p].step = "idle" /\ \A q \in Proc \ {p} : Undisturbed(q)
      /\ writer' # p /\ (writer # p => UNCHANGED <<writer, pending>>)
  BY GivesUpTypes DEF IInv
<1>2. Numbered' /\ StepFits'
  BY <1>1, OthersFit DEF StepFit
<1>3. PendingFits'
  <2>1. CASE writer = p
    BY <2>1, NobodyAssumption DEF GivesUp, PendingFits
  <2>2. CASE writer # p
    BY <1>1, <2>2, TransactionKept
  <2>. QED BY <2>1, <2>2
<1>4. TransactionsAreWhole'
  BY <1>1, WholeMeans DEF IInv
<1>. QED BY <1>1, <1>2, <1>3, <1>4 DEF IInv
-----------------------------------------------------------------------------
(* The commands outside a transaction *)

LEMMA ProcessTypes ==
  ASSUME CrmTypeOK, NEW p \in Proc
  PROVE  /\ proc[p] \in Process /\ proc[p].no \in 0 .. MaxCommands
         /\ proc[p].cmd \in Command /\ proc[p].cmd.op \in AllOps /\ proc[p].cmd.lead \in Lead
         /\ db \in File /\ pending \in File /\ Seen(p) \in File
         /\ db.actor \in Proc \union {Nobody}
         /\ proc[p].step \in InTransaction <=> writer = p
         /\ \A s \in Step : /\ GoesTo(p, s) \in Process /\ GoesTo(p, s).step = s
                            /\ GoesTo(p, s).cmd = proc[p].cmd /\ GoesTo(p, s).no = proc[p].no
                            /\ GoesTo(p, s).rows = proc[p].rows
         /\ Ended(p) \in Process /\ Ended(p).step = "idle"
<1>1. proc[p] \in Process /\ proc[p].no \in 0 .. MaxCommands
  BY DEF CrmTypeOK, Process
<1>2. Ended(p) \in Process /\ Ended(p).step = "idle"
  BY <1>1, EndedType DEF Ended
<1>3. \A s \in Step : /\ GoesTo(p, s) \in Process /\ GoesTo(p, s).step = s
                      /\ GoesTo(p, s).cmd = proc[p].cmd /\ GoesTo(p, s).no = proc[p].no
                      /\ GoesTo(p, s).rows = proc[p].rows
  BY <1>1 DEF GoesTo, Process
<1>. QED BY <1>1, <1>2, <1>3 DEF CrmTypeOK, Process, Command, Seen, File

LEMMA StartStep ==
  ASSUME IInv, NEW p \in Proc, NEW op \in Ops, NEW l \in Lead, Start(p, [op |-> op, lead |-> l])
  PROVE  IInv' /\ UNCHANGED db
<1>. DEFINE cmd == [op |-> op, lead |-> l]
            next == [step |-> "actor", cmd |-> cmd, no |-> proc[p].no + 1,
                     snapshot |-> "none", seen |-> Nobody,
                     rows |-> IF cmd.op = "import" THEN Lead ELSE {}]
<1>1. proc' = [proc EXCEPT ![p] = next] /\ UNCHANGED <<db, writer, pending>>
  BY DEF Start
<1>2. writer # p
  BY ProcessTypes DEF Start, At, IInv, InTransaction
<1>3. proc[p].no + 1 \in 1 .. MaxCommands
  BY ProcessTypes, MaxCommandsAssumption DEF Start, IInv
<1>4. next \in Process /\ next.no # 0 /\ next.step = "actor" /\ next.cmd.op = op
      /\ (op = "import" => next.rows = Lead)
  <2>1. cmd \in Command /\ cmd.op = op
    BY OpsAssumption DEF Command
  <2>2. "actor" \in Step /\ (IF cmd.op = "import" THEN Lead ELSE {}) \in SUBSET Lead
    BY DEF Step
  <2>. HIDE DEF cmd
  <2>. QED BY <1>3, <2>1, <2>2, MaxCommandsAssumption DEF Process
<1>5. next.step \notin InTransaction /\ StepFit(next)
  BY <1>4 DEF InTransaction, StepFit
<1>. QED BY <1>1, <1>2, <1>4, <1>5, QuietStep

LEMMA SetActorStep ==
  ASSUME IInv, NEW p \in Proc, SetActor(p)
  PROVE  IInv' /\ db'.status = db.status
<1>. DEFINE first == FirstStep(proc[p].cmd.op)
            next == IF first = "idle" THEN Ended(p) ELSE GoesTo(p, first)
            file == [db EXCEPT !.actor = p]
<1>1. Write(p, file, next) /\ proc[p].step = "actor"
  BY DEF SetActor, At
<1>2. writer # p /\ proc[p].no # 0
  BY <1>1, ProcessTypes DEF IInv, InTransaction, Numbered
<1>3. first \in {"begin", "read", "update", "idle"}
      /\ (first = "begin" => Transactional(proc[p].cmd.op))
      /\ (first \in {"read", "update"} => Guarded(proc[p].cmd.op))
  BY DEF FirstStep, Transactional, Guarded
<1>4. next \in Process /\ next.step = first
      /\ (first # "idle" => next.no # 0 /\ next.cmd = proc[p].cmd /\ next.rows = proc[p].rows)
  BY <1>2, <1>3, ProcessTypes DEF IInv, Step
<1>5. next.step \notin InTransaction
  BY <1>3, <1>4 DEF InTransaction
<1>6. StepFit(next)
  BY <1>1, <1>3, <1>4 DEF StepFit, IInv, StepFits
<1>7. file \in File /\ file.status = db.status /\ file.contacts = db.contacts
  BY ProcessTypes DEF IInv, File
<1>8. WholeFile(file)
  BY <1>7, WholeMeans DEF IInv, WholeFile
<1>9. IInv'
  BY <1>1, <1>2, <1>4, <1>5, <1>6, <1>7, <1>8, LoneWrite
<1>. QED BY <1>1, <1>2, <1>7, <1>9 DEF Write

LEMMA ReadStep ==
  ASSUME IInv, NEW p \in Proc, Read(p)
  PROVE  IInv' /\ UNCHANGED db
<1>. DEFINE next == [proc[p] EXCEPT !.step = "update", !.snapshot = Pinned]
<1>1. proc' = [proc EXCEPT ![p] = next] /\ UNCHANGED <<db, writer, pending>>
      /\ proc[p].step = "read"
  BY DEF Read, At
<1>2. writer # p /\ proc[p].no # 0 /\ Guarded(proc[p].cmd.op)
  BY <1>1, ProcessTypes DEF IInv, InTransaction, Numbered, StepFits, StepFit
<1>3. next \in Process /\ next.no # 0 /\ next.step = "update" /\ next.cmd = proc[p].cmd
  <2>1. proc[p] \in Process
    BY ProcessTypes DEF IInv
  <2>. QED BY <1>2, <2>1 DEF Process, Step, Pinned
<1>4. next.step \notin InTransaction /\ StepFit(next)
  BY <1>2, <1>3 DEF InTransaction, StepFit
<1>. QED BY <1>1, <1>2, <1>3, <1>4, QuietStep

LEMMA ReadActorStep ==
  ASSUME IInv, NEW p \in Proc, ReadActor(p)
  PROVE  IInv' /\ UNCHANGED db
<1>. DEFINE next == [proc[p] EXCEPT !.step = "insert", !.seen = db.actor]
<1>1. proc' = [proc EXCEPT ![p] = next] /\ UNCHANGED <<db, writer, pending>>
      /\ proc[p].step = "log"
  BY DEF ReadActor, At
<1>2. writer # p /\ proc[p].no # 0 /\ Guarded(proc[p].cmd.op)
  BY <1>1, ProcessTypes DEF IInv, InTransaction, Numbered, StepFits, StepFit
<1>3. next \in Process /\ next.no # 0 /\ next.step = "insert" /\ next.cmd = proc[p].cmd
  <2>1. proc[p] \in Process /\ db.actor \in Proc \union {Nobody}
    BY ProcessTypes DEF IInv
  <2>. QED BY <1>2, <2>1 DEF Process, Step
<1>4. next.step \notin InTransaction /\ StepFit(next)
  BY <1>2, <1>3 DEF InTransaction, StepFit
<1>. QED BY <1>1, <1>2, <1>3, <1>4, QuietStep

(* A guarded UPDATE moves one record one legal step, and neither converts a
   lead nor creates one. *)
LEMMA GuardedChange ==
  ASSUME NEW op \in AllOps, Guarded(op)
  PROVE  /\ To(op) \in Status \ {"absent", "converted", "new"}
         /\ From(op) \subseteq Status \ {"absent", "converted"}
         /\ KindOf(op) # "lead" => From(op) = {"open"}
         /\ \A s \in From(op) : s = To(op) \/ <<s, To(op)>> \in Legal
BY DEF Guarded, ReadsFirst, Closers, AllOps, To, From, KindOf, Status, Legal

LEMMA UpdateStep ==
  ASSUME IInv, NEW p \in Proc, Update(p)
  PROVE  /\ IInv'
         /\ \A x \in Record : db'.status[x] # db.status[x]
                                => <<db.status[x], db'.status[x]>> \in Legal
<1>. DEFINE op == proc[p].cmd.op
            x == RecordOf(proc[p].cmd)
            hit == db.status[x] \in From(op)
            file == IF hit THEN Changed(db, p, x, op, To(op)) ELSE db
            next == IF hit \/ ReadsFirst(op) THEN GoesTo(p, "log") ELSE Ended(p)
<1>1. Write(p, file, next) /\ proc[p].step = "update"
  BY DEF Update, At
<1>2. writer # p /\ proc[p].no # 0 /\ op \in AllOps /\ Guarded(op) /\ x \in Record
  BY <1>1, ProcessTypes, CommandRecord DEF IInv, InTransaction, Numbered, StepFits, StepFit
<1>3. next \in Process /\ next.step \in {"log", "idle"} /\ (next.step # "idle" => next.no # 0)
      /\ (next.step = "log" => next.cmd = proc[p].cmd)
  BY <1>2, ProcessTypes DEF IInv, Step
<1>4. next.step \notin InTransaction /\ StepFit(next)
  BY <1>2, <1>3 DEF InTransaction, StepFit
<1>5. file \in File /\ file.contacts = db.contacts
      /\ file.status = IF hit THEN [db.status EXCEPT ![x] = To(op)] ELSE db.status
  BY <1>1, <1>2, ProcessTypes, ChangedFile, GuardedChange DEF IInv
<1>6. db.status \in [Record -> Status]
  BY ProcessTypes DEF IInv, File
<1>7. \A y \in Record :
        \/ file.status[y] = db.status[y]
        \/ /\ y = x /\ db.status[y] \in From(op) /\ file.status[y] = To(op)
  BY <1>2, <1>5, <1>6
<1>8. \A y \in Record : /\ file.status[y] = "absent" <=> db.status[y] = "absent"
                        /\ file.status[y] = "converted" <=> db.status[y] = "converted"
  BY <1>2, <1>7, GuardedChange
<1>9. WholeFile(file)
  <2>1. {m \in Lead : file.status[LeadRow(m)] = "converted"}
          = {m \in Lead : db.status[LeadRow(m)] = "converted"}
    BY <1>8, Rows
  <2>2. WholeFile(db) /\ file.contacts = db.contacts
    BY <1>5, WholeMeans DEF IInv
  <2>. HIDE DEF file
  <2>. QED BY <1>8, <2>1, <2>2, Rows DEF WholeFile
<1>10. IInv'
  BY <1>1, <1>2, <1>3, <1>4, <1>5, <1>9, LoneWrite
<1>11. db' = file
  BY <1>1, <1>2 DEF Write
<1>12. \A y \in Record : file.status[y] # db.status[y] => <<db.status[y], file.status[y]>> \in Legal
  BY <1>2, <1>7, GuardedChange
<1>. QED BY <1>10, <1>11, <1>12

LEMMA InsertActivityStep ==
  ASSUME IInv, NEW p \in Proc, InsertActivity(p)
  PROVE  IInv' /\ db'.status = db.status
<1>. DEFINE file == Told(db, p, RecordOf(proc[p].cmd), proc[p].cmd.op, proc[p].seen)
<1>1. Write(p, file, Ended(p)) /\ proc[p].step = "insert"
  BY DEF InsertActivity, At
<1>2. writer # p /\ proc[p].seen \in Proc \union {Nobody}
  BY <1>1, ProcessTypes DEF IInv, InTransaction, Process
<1>3. file \in File /\ file.status = db.status /\ file.contacts = db.contacts
  BY <1>1, <1>2, ProcessTypes, CommandRecord, ToldFile DEF IInv
<1>4. Ended(p) \in Process /\ Ended(p).step = "idle"
  BY ProcessTypes DEF IInv
<1>5. Ended(p).step \notin InTransaction /\ StepFit(Ended(p))
  BY <1>4 DEF InTransaction, StepFit
<1>6. WholeFile(file)
  BY <1>3, WholeMeans DEF IInv, WholeFile
<1>7. IInv'
  BY <1>1, <1>2, <1>3, <1>4, <1>5, <1>6, LoneWrite
<1>. QED BY <1>1, <1>2, <1>3, <1>7 DEF Write
-----------------------------------------------------------------------------
(* Transactions *)

LEMMA BeginStep ==
  ASSUME IInv, NEW p \in Proc, Begin(p)
  PROVE  IInv' /\ UNCHANGED db
<1>. DEFINE s == IF proc[p].cmd.op = "convert" THEN "resolve" ELSE "rows"
<1>1. /\ proc[p].step = "begin" /\ writer' = p /\ pending' = db
      /\ proc' = [proc EXCEPT ![p].step = s] /\ UNCHANGED db
  BY DEF Begin, At
<1>2. /\ writer = Nobody /\ proc[p].no # 0 /\ Transactional(proc[p].cmd.op)
      /\ proc[p].cmd.op = "import" => proc[p].rows = Lead
  BY <1>1, ProcessTypes DEF Begin, Locked, IInv, InTransaction, Numbered, StepFits, StepFit
<1>3. proc'[p] = [proc[p] EXCEPT !.step = s] /\ \A q \in Proc \ {p} : proc'[q] = proc[q]
  BY <1>1 DEF IInv, CrmTypeOK
<1>4. /\ proc'[p] \in Process /\ proc'[p].step = s /\ proc'[p].cmd = proc[p].cmd
      /\ proc'[p].no = proc[p].no /\ proc'[p].rows = proc[p].rows
  <2>1. proc[p] \in Process /\ s \in Step
    BY ProcessTypes DEF IInv, Step, InTransaction
  <2>. QED BY <1>3, <2>1 DEF Process
<1>5. CrmTypeOK'
  <2>1. \A q \in Proc : proc'[q].step \in InTransaction <=> writer' = q
    BY <1>1, <1>2, <1>3, <1>4, NobodyAssumption DEF IInv, CrmTypeOK, InTransaction
  <2>. QED BY <1>1, <1>3, <1>4, <2>1 DEF IInv, CrmTypeOK
<1>6. Numbered' /\ StepFits'
  <2>1. StepFit(proc'[p])
    BY <1>4 DEF StepFit
  <2>. QED BY <1>2, <1>3, <1>4, <2>1, OthersFit DEF Undisturbed
<1>7. Fit(p)'
  <2>1. CASE proc[p].cmd.op = "convert"
    BY <1>1, <1>4, <2>1 DEF Fit, ConvertFits
  <2>2. CASE proc[p].cmd.op = "import"
    <3>1. db.status = [x \in Record |-> db.status[x]]
      BY DEF IInv, CrmTypeOK, File
    <3>2. db.status = [x \in Record |-> IF x[1] = "lead" /\ x[2] \notin Lead /\ db.status[x] = "absent"
                                        THEN "new" ELSE db.status[x]]
      BY <3>1, Rows
    <3>. QED BY <1>1, <1>2, <1>4, <2>2, <3>2 DEF Fit, ImportFits, Imported
  <2>. QED BY <1>2, <2>1, <2>2 DEF Transactional
<1>8. PendingFits'
  BY <1>1, <1>7 DEF PendingFits
<1>9. TransactionsAreWhole'
  BY <1>1, WholeMeans DEF IInv
<1>. QED BY <1>1, <1>5, <1>6, <1>8, <1>9 DEF IInv

(* Where p is in a transaction, and of which command. *)
LEMMA Within ==
  ASSUME IInv, NEW p \in Proc, proc[p].step \in InTransaction
  PROVE  /\ writer = p /\ Seen(p) = pending /\ pending \in File /\ db \in File
         /\ proc[p].no # 0 /\ proc[p].cmd.lead \in Lead
         /\ Fit(p)
<1>1. writer = p
  BY ProcessTypes DEF IInv
<1>. QED BY <1>1, ProcessTypes DEF IInv, Seen, Numbered, InTransaction, PendingFits

LEMMA ResolveStep ==
  ASSUME IInv, NEW p \in Proc, Resolve(p)
  PROVE  IInv' /\ UNCHANGED db
<1>. DEFINE l == proc[p].cmd.lead
            file == [pending EXCEPT !.contacts = @ \union {EmailOf[l]}]
<1>1. proc[p].step = "resolve"
  BY DEF Resolve, At
<1>2. writer = p /\ Seen(p) = pending /\ pending \in File /\ proc[p].no # 0 /\ l \in Lead /\ Fit(p)
  BY <1>1, Within DEF InTransaction
<1>3. Write(p, file, GoesTo(p, "deal")) /\ pending.status[LeadRow(l)] \in {"new", "qualified"}
  BY <1>2 DEF Resolve, Convertible, LeadRow
<1>4. file \in File /\ file.status = pending.status
      /\ file.contacts = pending.contacts \union {EmailOf[l]}
  BY <1>2, EmailAssumption DEF File
<1>5. /\ GoesTo(p, "deal") \in Process /\ GoesTo(p, "deal").step = "deal"
      /\ GoesTo(p, "deal").cmd = proc[p].cmd /\ GoesTo(p, "deal").no = proc[p].no
  BY ProcessTypes DEF IInv, Step, InTransaction
<1>6. proc[p].cmd.op = "convert" /\ pending.status = db.status /\ pending.contacts = db.contacts
  BY <1>1, <1>2 DEF Fit, ConvertFits
<1>7. UNCHANGED db /\ pending' = file /\ proc'[p] = GoesTo(p, "deal") /\ (Fit(p)' => IInv')
  BY <1>2, <1>3, <1>4, <1>5, InnerWrite DEF InTransaction
<1>8. Fit(p)'
  <2>. HIDE DEF file
  <2>. QED BY <1>3, <1>4, <1>5, <1>6, <1>7 DEF Fit, ConvertFits
<1>. QED BY <1>7, <1>8

LEMMA InsertDealStep ==
  ASSUME IInv, NEW p \in Proc, InsertDeal(p)
  PROVE  IInv' /\ UNCHANGED db
<1>. DEFINE l == proc[p].cmd.lead
            file == Changed(pending, p, DealRow(l), "convert", "open")
<1>1. proc[p].step = "deal"
  BY DEF InsertDeal, At
<1>2. writer = p /\ Seen(p) = pending /\ pending \in File /\ proc[p].no # 0 /\ l \in Lead /\ Fit(p)
  BY <1>1, Within DEF InTransaction
<1>3. Write(p, file, GoesTo(p, "link")) /\ pending.status[DealRow(l)] = "absent"
  BY <1>2 DEF InsertDeal, DealTaken, DealRow
<1>4. file \in File /\ file.status = [pending.status EXCEPT ![DealRow(l)] = "open"]
      /\ file.contacts = pending.contacts
  <2>1. "convert" \in AllOps /\ "open" \in Status /\ DealRow(l) \in Record
    BY <1>2, Rows DEF AllOps, Status
  <2>. QED BY <1>1, <1>2, <2>1, ChangedFile DEF IInv
<1>5. /\ GoesTo(p, "link") \in Process /\ GoesTo(p, "link").step = "link"
      /\ GoesTo(p, "link").cmd = proc[p].cmd /\ GoesTo(p, "link").no = proc[p].no
  BY ProcessTypes DEF IInv, Step, InTransaction
<1>6. /\ proc[p].cmd.op = "convert" /\ pending.status = db.status
      /\ pending.contacts = db.contacts \union {EmailOf[l]}
      /\ db.status[LeadRow(l)] \in {"new", "qualified"}
  BY <1>1, <1>2 DEF Fit, ConvertFits
<1>7. UNCHANGED db /\ pending' = file /\ proc'[p] = GoesTo(p, "link") /\ (Fit(p)' => IInv')
  BY <1>2, <1>3, <1>4, <1>5, InnerWrite DEF InTransaction
<1>8. Fit(p)'
  <2>. HIDE DEF file
  <2>. QED BY <1>3, <1>4, <1>5, <1>6, <1>7 DEF Fit, ConvertFits
<1>. QED BY <1>7, <1>8

LEMMA LinkStep ==
  ASSUME IInv, NEW p \in Proc, Link(p)
  PROVE  IInv' /\ UNCHANGED db
<1>. DEFINE l == proc[p].cmd.lead
            linked == Changed(pending, p, LeadRow(l), "convert", "converted")
            told == Told(linked, p, LeadRow(l), "convert", linked.actor)
            file == Told(told, p, DealRow(l), "convert", linked.actor)
<1>1. proc[p].step = "link"
  BY DEF Link, At
<1>2. writer = p /\ Seen(p) = pending /\ pending \in File /\ proc[p].no # 0 /\ l \in Lead /\ Fit(p)
  BY <1>1, Within DEF InTransaction
<1>3. Write(p, file, GoesTo(p, "commit"))
  BY <1>2 DEF Link, LeadRow, DealRow
<1>4. "convert" \in AllOps /\ "converted" \in Status /\ DealRow(l) \in Record /\ LeadRow(l) \in Record
  BY <1>2, Rows DEF AllOps, Status
<1>5. /\ linked \in File /\ linked.status = [pending.status EXCEPT ![LeadRow(l)] = "converted"]
      /\ linked.contacts = pending.contacts /\ linked.actor \in Proc \union {Nobody}
  BY <1>1, <1>2, <1>4, ChangedFile DEF IInv
<1>6. told \in File /\ told.status = linked.status /\ told.contacts = linked.contacts
  <2>. HIDE DEF linked
  <2>. QED BY <1>1, <1>4, <1>5, ToldFile DEF IInv
<1>7. file \in File /\ file.status = told.status /\ file.contacts = told.contacts
  <2>. HIDE DEF told, linked
  <2>. QED BY <1>1, <1>4, <1>5, <1>6, ToldFile DEF IInv
<1>8. /\ GoesTo(p, "commit") \in Process /\ GoesTo(p, "commit").step = "commit"
      /\ GoesTo(p, "commit").cmd = proc[p].cmd /\ GoesTo(p, "commit").no = proc[p].no
  BY ProcessTypes DEF IInv, Step, InTransaction
<1>. HIDE DEF file, told, linked
<1>9. /\ proc[p].cmd.op = "convert" /\ db.status[DealRow(l)] = "absent"
      /\ pending.status = [db.status EXCEPT ![DealRow(l)] = "open"]
      /\ pending.contacts = db.contacts \union {EmailOf[l]}
      /\ db.status[LeadRow(l)] \in {"new", "qualified"}
  BY <1>1, <1>2 DEF Fit, ConvertFits
<1>10. UNCHANGED db /\ pending' = file /\ proc'[p] = GoesTo(p, "commit") /\ (Fit(p)' => IInv')
  BY <1>2, <1>3, <1>7, <1>8, InnerWrite DEF InTransaction
<1>11. Fit(p)'
  BY <1>5, <1>6, <1>7, <1>8, <1>9, <1>10 DEF Fit, ConvertFits
<1>. QED BY <1>10, <1>11

(* One lead more is imported. *)
LEMMA ImportedOne ==
  ASSUME NEW rows, NEW l \in Lead, l \in rows
  PROVE  /\ Imported(rows)[LeadRow(l)] = "absent" =>
              Imported(rows \ {l}) = [Imported(rows) EXCEPT ![LeadRow(l)] = "new"]
         /\ Imported(rows)[LeadRow(l)] # "absent" => Imported(rows \ {l}) = Imported(rows)
<1>1. LeadRow(l) \in Record /\ LeadRow(l)[1] = "lead" /\ LeadRow(l)[2] = l
  BY Rows
<1>2. Imported(rows)[LeadRow(l)] = db.status[LeadRow(l)]
  BY <1>1 DEF Imported
<1>3. \A x \in Record : x # LeadRow(l) => (x[1] = "lead" => x[2] # l)
  BY Rows
<1>4. \A x \in Record : x # LeadRow(l) => Imported(rows \ {l})[x] = Imported(rows)[x]
  BY <1>3 DEF Imported
<1>5. Imported(rows \ {l})[LeadRow(l)]
        = IF db.status[LeadRow(l)] = "absent" THEN "new" ELSE db.status[LeadRow(l)]
  BY <1>1 DEF Imported
<1>6. /\ Imported(rows) = [x \in Record |-> Imported(rows)[x]]
      /\ Imported(rows \ {l}) = [x \in Record |-> Imported(rows \ {l})[x]]
  BY DEF Imported
<1>. QED BY <1>1, <1>2, <1>4, <1>5, <1>6

LEMMA ImportRowStep ==
  ASSUME IInv, NEW p \in Proc, NEW l \in Lead, ImportRow(p, l)
  PROVE  IInv' /\ UNCHANGED db
<1>. DEFINE inserted == Changed(pending, p, LeadRow(l), "import", "new")
            file == IF Known(pending, l) THEN pending
                    ELSE Told(inserted, p, LeadRow(l), "import", inserted.actor)
            rest == proc[p].rows \ {l}
            next == [proc[p] EXCEPT !.rows = rest,
                                    !.step = IF rest = {} THEN "commit" ELSE "rows"]
<1>1. proc[p].step = "rows" /\ l \in proc[p].rows
  BY DEF ImportRow, At
<1>2. writer = p /\ Seen(p) = pending /\ pending \in File /\ proc[p].no # 0 /\ Fit(p)
  BY <1>1, Within DEF InTransaction
<1>3. Write(p, file, next)
  BY <1>2 DEF ImportRow, LeadRow
<1>4. "import" \in AllOps /\ "new" \in Status /\ LeadRow(l) \in Record
  BY Rows DEF AllOps, Status
<1>5. /\ inserted \in File /\ inserted.status = [pending.status EXCEPT ![LeadRow(l)] = "new"]
      /\ inserted.contacts = pending.contacts /\ inserted.actor \in Proc \union {Nobody}
  BY <1>1, <1>2, <1>4, ChangedFile DEF IInv
<1>6. /\ file \in File /\ file.contacts = pending.contacts
      /\ file.status = IF Known(pending, l) THEN pending.status ELSE inserted.status
  <2>. HIDE DEF inserted
  <2>. QED BY <1>1, <1>2, <1>4, <1>5, ToldFile DEF IInv
<1>7. /\ next \in Process /\ next.step \in {"rows", "commit"} /\ next.cmd = proc[p].cmd
      /\ next.no = proc[p].no /\ next.rows = rest /\ (next.step = "commit" => rest = {})
  <2>1. proc[p] \in Process
    BY ProcessTypes DEF IInv
  <2>. QED BY <2>1 DEF Process, Step, InTransaction
<1>8. /\ proc[p].cmd.op = "import" /\ pending.contacts = db.contacts
      /\ pending.status = Imported(proc[p].rows)
  BY <1>1, <1>2 DEF Fit, ImportFits
<1>9. file.status = Imported(rest)
  <2>. HIDE DEF file, inserted
  <2>. QED BY <1>1, <1>5, <1>6, <1>8, ImportedOne DEF Known, LeadRow
<1>. HIDE DEF file, inserted, next
<1>10. UNCHANGED db /\ pending' = file /\ proc'[p] = next /\ (Fit(p)' => IInv')
  BY <1>2, <1>3, <1>6, <1>7, InnerWrite DEF InTransaction
<1>11. Imported(rest)' = Imported(rest')
  BY <1>10 DEF Imported
<1>12. Fit(p)'
  <2>1. pending'.contacts = db'.contacts /\ proc'[p].rows = rest
    BY <1>6, <1>7, <1>8, <1>10
  <2>2. pending'.status = [x \in Record |-> IF x[1] = "lead" /\ x[2] \notin proc'[p].rows
                                               /\ db'.status[x] = "absent"
                                            THEN "new" ELSE db'.status[x]]
    BY <1>9, <1>10, <2>1 DEF Imported
  <2>. QED BY <1>7, <1>8, <1>10, <2>1, <2>2 DEF Fit, ImportFits, Imported
<1>. QED BY <1>10, <1>12

(* The transaction that commits leaves a whole file, each record one legal
   step on. *)
LEMMA CommitsWhole ==
  ASSUME IInv, NEW p \in Proc, proc[p].step = "commit"
  PROVE  /\ WholeFile(pending)
         /\ \A x \in Record : pending.status[x] # db.status[x]
                                => <<db.status[x], pending.status[x]>> \in Legal
<1>. DEFINE l == proc[p].cmd.lead
<1>1. pending \in File /\ db \in File /\ l \in Lead /\ Fit(p) /\ WholeFile(db)
  BY Within, WholeMeans DEF InTransaction, IInv
<1>2. db.status \in [Record -> Status]
  BY <1>1 DEF File
<1>3. CASE proc[p].cmd.op = "convert"
  <2>. HIDE DEF l
  <2>1. /\ db.status[DealRow(l)] = "absent" /\ db.status[LeadRow(l)] \in {"new", "qualified"}
        /\ pending.status = [db.status EXCEPT ![DealRow(l)] = "open", ![LeadRow(l)] = "converted"]
        /\ pending.contacts = db.contacts \union {EmailOf[l]}
    BY <1>1, <1>3 DEF Fit, ConvertFits, l
  <2>2. /\ \A x \in Record : x # DealRow(l) /\ x # LeadRow(l) => pending.status[x] = db.status[x]
        /\ pending.status[DealRow(l)] = "open" /\ pending.status[LeadRow(l)] = "converted"
    BY <1>1, <1>2, <2>1, Rows
  <2>3. \A m \in Lead : m # l => /\ pending.status[LeadRow(m)] = db.status[LeadRow(m)]
                                 /\ pending.status[DealRow(m)] = db.status[DealRow(m)]
    BY <1>1, <2>2, Rows
  <2>4. {m \in Lead : pending.status[LeadRow(m)] = "converted"}
          = {m \in Lead : db.status[LeadRow(m)] = "converted"} \union {l}
    BY <1>1, <2>2, <2>3
  <2>5. pending.contacts = {EmailOf[k] : k \in {m \in Lead : pending.status[LeadRow(m)] = "converted"}}
    BY <1>1, <2>1, <2>4 DEF WholeFile
  <2>6. \A k, m \in Lead : pending.status[LeadRow(k)] = "absent" <=> pending.status[LeadRow(m)] = "absent"
    BY <1>1, <2>1, <2>2, <2>3 DEF WholeFile
  <2>7. \A m \in Lead : pending.status[LeadRow(m)] = "converted" <=> pending.status[DealRow(m)] # "absent"
    BY <1>1, <2>2, <2>3 DEF WholeFile
  <2>. QED BY <2>1, <2>2, <2>5, <2>6, <2>7 DEF WholeFile, Legal
<1>4. CASE proc[p].cmd.op # "convert"
  <2>1. pending.contacts = db.contacts /\ pending.status = Imported({})
    BY <1>1, <1>4 DEF Fit, ImportFits
  <2>2. /\ \A m \in Lead : /\ pending.status[DealRow(m)] = db.status[DealRow(m)]
                           /\ pending.status[LeadRow(m)] = IF db.status[LeadRow(m)] = "absent" THEN "new"
                                                           ELSE db.status[LeadRow(m)]
        /\ \A x \in Record : pending.status[x] # db.status[x]
                               => db.status[x] = "absent" /\ pending.status[x] = "new"
    BY <2>1, Rows DEF Imported
  <2>3. \A m \in Lead : /\ pending.status[LeadRow(m)] = "converted" <=> db.status[LeadRow(m)] = "converted"
                        /\ pending.status[LeadRow(m)] # "absent"
    BY <2>2
  <2>4. {m \in Lead : pending.status[LeadRow(m)] = "converted"}
          = {m \in Lead : db.status[LeadRow(m)] = "converted"}
    BY <2>3
  <2>5. WholeFile(pending)
    BY <1>1, <2>1, <2>2, <2>3, <2>4 DEF WholeFile
  <2>. QED BY <2>2, <2>5 DEF Legal
<1>. QED BY <1>3, <1>4

LEMMA CommitStep ==
  ASSUME IInv, NEW p \in Proc, Commit(p)
  PROVE  /\ IInv'
         /\ \A x \in Record : db'.status[x] # db.status[x]
                                => <<db.status[x], db'.status[x]>> \in Legal
<1>1. proc[p].step = "commit"
  BY DEF Commit, At
<1>2. writer = p /\ Seen(p) = pending /\ pending \in File
  BY <1>1, Within DEF InTransaction
<1>3. /\ db' = pending /\ writer' = Nobody /\ pending' = Initialized
      /\ proc' = [q \in Proc |-> IF q = p THEN Ended(p) ELSE Outdated(q, pending)]
  BY <1>2 DEF Commit
<1>4. Ended(p) \in Process /\ Ended(p).step = "idle"
  BY ProcessTypes DEF IInv
<1>5. /\ proc' \in [Proc -> Process] /\ proc'[p] = Ended(p)
      /\ \A q \in Proc \ {p} : Undisturbed(q)
  BY <1>3, <1>4, OutdatedProcess DEF IInv, Undisturbed
<1>6. CrmTypeOK'
  <2>1. \A q \in Proc : proc'[q].step \in InTransaction <=> writer' = q
    BY <1>2, <1>3, <1>4, <1>5, NobodyAssumption DEF IInv, CrmTypeOK, Undisturbed, InTransaction
  <2>. QED BY <1>2, <1>3, <1>5, <2>1, InitializedFile DEF CrmTypeOK
<1>7. Numbered' /\ StepFits'
  <2>1. StepFit(Ended(p))
    BY <1>4 DEF StepFit
  <2>. QED BY <1>4, <1>5, <2>1, OthersFit
<1>8. PendingFits'
  BY <1>3, NobodyAssumption DEF PendingFits
<1>9. WholeFile(db')
  BY <1>1, <1>3, CommitsWhole
<1>. QED BY <1>1, <1>3, <1>6, <1>7, <1>8, <1>9, CommitsWhole, WholeMeans DEF IInv
-----------------------------------------------------------------------------
(* All steps *)

LEMMA InitInv == Init => IInv
<1>. SUFFICES ASSUME Init PROVE IInv
  OBVIOUS
<1>1. \A p \in Proc : proc[p] = NotRunning(0)
  BY DEF Init
<1>2. 0 \in 0 .. MaxCommands
  BY MaxCommandsAssumption
<1>3. NotRunning(0) \in Process /\ NotRunning(0).step = "idle"
  BY <1>2, EndedType
<1>4. CrmTypeOK
  <2>1. \A p \in Proc : proc[p].step \in InTransaction <=> writer = p
    BY <1>1, <1>3, NobodyAssumption DEF Init, InTransaction
  <2>. QED BY <1>3, <2>1, InitializedFile DEF Init, CrmTypeOK
<1>5. Numbered /\ StepFits
  BY <1>1, <1>3 DEF Numbered, StepFits, StepFit
<1>6. PendingFits
  BY NobodyAssumption DEF Init, PendingFits
<1>7. WholeFile(Initialized)
  <2>1. Initialized.status = [x \in Record |-> IF x[1] = "task" THEN "open" ELSE "absent"]
        /\ Initialized.contacts = {}
    BY DEF Initialized
  <2>2. \A l \in Lead : /\ Initialized.status[LeadRow(l)] = "absent"
                        /\ Initialized.status[DealRow(l)] = "absent"
    BY <2>1, Rows
  <2>3. {m \in Lead : Initialized.status[LeadRow(m)] = "converted"} = {}
    BY <2>2
  <2>. QED BY <2>1, <2>2, <2>3 DEF WholeFile
<1>. QED BY <1>4, <1>5, <1>6, <1>7, WholeMeans DEF Init, IInv

(* A step keeps the invariant and moves each record by one legal step, if it
   moves it. *)
LEMMA NextInv ==
  ASSUME IInv, [Next]_vars
  PROVE  /\ IInv'
         /\ \A x \in Record : db'.status[x] # db.status[x]
                                => <<db.status[x], db'.status[x]>> \in Legal
<1>1. ASSUME NEW p \in Proc, NEW op \in Ops, NEW l \in Lead, Start(p, [op |-> op, lead |-> l])
      PROVE  IInv' /\ UNCHANGED db
  BY <1>1, StartStep
<1>2. ASSUME NEW p \in Proc,
             SetActor(p) \/ Read(p) \/ ReadActor(p) \/ InsertActivity(p)
      PROVE  IInv' /\ db'.status = db.status
  BY <1>2, SetActorStep, ReadStep, ReadActorStep, InsertActivityStep
<1>3. ASSUME NEW p \in Proc, Begin(p) \/ Resolve(p) \/ InsertDeal(p) \/ Link(p)
      PROVE  IInv' /\ UNCHANGED db
  BY <1>3, BeginStep, ResolveStep, InsertDealStep, LinkStep
<1>4. ASSUME NEW p \in Proc, NEW l \in Lead, ImportRow(p, l)
      PROVE  IInv' /\ UNCHANGED db
  BY <1>4, ImportRowStep
<1>5. ASSUME NEW p \in Proc, Update(p) \/ Commit(p)
      PROVE  /\ IInv'
             /\ \A x \in Record : db'.status[x] # db.status[x]
                                    => <<db.status[x], db'.status[x]>> \in Legal
  BY <1>5, UpdateStep, CommitStep
<1>6. ASSUME NEW p \in Proc, Refused(p) \/ Rejected(p) \/ Crash(p)
      PROVE  IInv' /\ UNCHANGED db
  BY <1>6, GivesUpStep DEF Refused, Rejected, Crash
<1>7. CASE UNCHANGED vars
  <2>1. CrmTypeOK' /\ Numbered' /\ StepFits'
    BY <1>7 DEF vars, IInv, CrmTypeOK, Numbered, StepFits, StepFit
  <2>2. PendingFits'
    BY <1>7 DEF vars, IInv, PendingFits, Fit, ConvertFits, ImportFits, Imported
  <2>3. TransactionsAreWhole'
    BY <1>7, WholeMeans DEF vars, IInv, WholeFile
  <2>4. IInv'
    BY <2>1, <2>2, <2>3 DEF IInv
  <2>. QED BY <1>7, <2>4 DEF vars
<1>. QED BY <1>1, <1>2, <1>3, <1>4, <1>5, <1>6, <1>7 DEF Next

LEMMA InvHolds == Spec => []IInv
<1>1. IInv /\ [Next]_vars => IInv'
  BY NextInv
<1>. QED BY InitInv, <1>1, PTL DEF Spec

(* Every state of every number of processes has its type, and whoever is past
   BEGIN IMMEDIATE, and nobody else, holds the write lock. *)
THEOREM CrmTypeCorrect == Spec => []CrmTypeOK
<1>1. IInv => CrmTypeOK
  BY DEF IInv
<1>. QED BY InvHolds, <1>1, PTL

(* A conversion or an import is whole or leaves nothing (class Transaction,
   lead convert and lead import-csv), however many processes write, are
   refused or are killed. *)
THEOREM TransactionsAreWholeHolds == Spec => []TransactionsAreWhole
<1>1. IInv => TransactionsAreWhole
  BY DEF IInv
<1>. QED BY InvHolds, <1>1, PTL

(* No command, raced by any number of others, reopens what is closed or skips
   a step of a lead's, a deal's or a task's life (the guarded UPDATEs). *)
THEOREM ClosedStaysClosedHolds == Spec => ClosedStaysClosed
<1>1. IInv /\ [Next]_vars =>
        [\A x \in Record : db'.status[x] # db.status[x] => <<db.status[x], db'.status[x]>> \in Legal]_db
  BY NextInv
<1>. QED BY InvHolds, <1>1, PTL DEF Spec, ClosedStaysClosed
-----------------------------------------------------------------------------
(* The timeline.  An entry names its command by process and number; a
   record's audit has at most one entry of a command, and so has its
   timeline, whose entry follows the audit's. *)

Same(e, f) == e.by = f.by /\ e.no = f.no
Tells(f, e) == Same(f, e) /\ f.op = e.op

Once(s) == \A i, j \in DOMAIN s : Same(s[i], s[j]) => i = j
Sourced(a, t) == \A i \in DOMAIN t : \E k \in DOMAIN a : Tells(a[k], t[i])
InOrder(a, t) ==
  \A i, j \in DOMAIN t : i < j =>
    \A k, m \in DOMAIN a : Tells(a[k], t[i]) /\ Tells(a[m], t[j]) => k < m
Named(a, t) ==
  \A i \in DOMAIN t, k \in DOMAIN a : Tells(a[k], t[i]) => a[k].actor = t[i].actor

TrueTo(x, a, t) ==
  /\ Once(a) /\ Once(t) /\ Sourced(a, t)
  /\ x[1] # "lead" => InOrder(a, t) /\ Named(a, t)
TrueFile(file) == \A x \in Record : TrueTo(x, file.audit[x], file.timeline[x])

(* No entry is of a command not yet given. *)
Past(s, procs) == \A k \in DOMAIN s : s[k].no <= procs[s[k].by].no
PastFile(file, procs) ==
  \A x \in Record : Past(file.audit[x], procs) /\ Past(file.timeline[x], procs)

(* e is an entry of p's present command, c = proc[p]; s has none, or ends with one. *)
Mine(e, p, c) == e.by = p /\ e.no = c.no
None(s, p, c) == \A k \in DOMAIN s : ~Mine(s[k], p, c)
EndsMine(s, p, c, actor) ==
  /\ Len(s) > 0 /\ Mine(s[Len(s)], p, c) /\ s[Len(s)].op = c.cmd.op
  /\ s[Len(s)].actor = actor

(* How far p's command has come in a file that it does not hold open. *)
Outside(file, p, c) ==
  /\ c.step \in {"actor", "read", "update", "begin"} =>
       \A x \in Record : None(file.audit[x], p, c)
  /\ c.step \in {"log", "insert"} =>
       /\ None(file.timeline[RecordOf(c.cmd)], p, c)
       /\ \E k \in DOMAIN file.audit[RecordOf(c.cmd)] :
            /\ Mine(file.audit[RecordOf(c.cmd)][k], p, c)
            /\ file.audit[RecordOf(c.cmd)][k].op = c.cmd.op

(* Nothing was written since a snapshot that is still the newest. *)
Snapshot(file, p, c) ==
  ReadsFirst(c.cmd.op) =>
    /\ c.step \in {"update", "log", "insert"} => c.snapshot # "none"
    /\ c.snapshot = "newest" =>
         /\ c.step = "update" => file.status[RecordOf(c.cmd)] \in From(c.cmd.op)
         /\ c.step \in {"log", "insert"} => EndsMine(file.audit[RecordOf(c.cmd)], p, c, file.actor)
         /\ c.step = "insert" => c.seen = file.actor

(* How far p's transaction has come in the file it holds open. *)
Inside(file, p, c) ==
  /\ c.step \in {"resolve", "deal"} => \A x \in Record : None(file.audit[x], p, c)
  /\ c.step = "link" =>
       /\ \A x \in Record \ {DealRow(c.cmd.lead)} : None(file.audit[x], p, c)
       /\ None(file.timeline[DealRow(c.cmd.lead)], p, c)
       /\ EndsMine(file.audit[DealRow(c.cmd.lead)], p, c, file.actor)
  /\ c.step = "rows" => \A l \in c.rows : None(file.audit[LeadRow(l)], p, c)

TInv ==
  /\ IInv
  /\ TrueFile(db) /\ TrueFile(pending) /\ PastFile(db, proc) /\ PastFile(pending, proc)
  /\ \A p \in Proc : /\ Outside(db, p, proc[p]) /\ Snapshot(db, p, proc[p])
                     /\ writer \notin {p, Nobody} => Outside(pending, p, proc[p])
                     /\ writer = p => Inside(pending, p, proc[p])

(* Sequences of entries *)

LEMMA AuditAppend ==
  ASSUME NEW x, NEW a \in Seq(Entry), NEW t \in Seq(Entry), TrueTo(x, a, t),
         NEW e \in Entry, \A k \in DOMAIN a : ~Same(a[k], e)
  PROVE  TrueTo(x, Append(a, e), t)
<1>. DEFINE b == Append(a, e)
<1>1. /\ Len(a) \in Nat /\ DOMAIN a = 1 .. Len(a) /\ DOMAIN b = 1 .. Len(a) + 1
      /\ b[Len(a) + 1] = e /\ \A k \in 1 .. Len(a) : b[k] = a[k]
  OBVIOUS
<1>. HIDE DEF b
<1>2. \A i \in DOMAIN t : ~Tells(e, t[i])
  BY DEF TrueTo, Sourced, Tells, Same
<1>3. \A k \in DOMAIN b : (k \in DOMAIN a /\ b[k] = a[k]) \/ (k \notin DOMAIN a /\ b[k] = e)
  BY <1>1
<1>4. Once(b)
  BY <1>1, <1>3 DEF TrueTo, Once, Same
<1>5. Sourced(b, t)
  BY <1>1 DEF TrueTo, Sourced
<1>6. InOrder(a, t) => InOrder(b, t)
  BY <1>2, <1>3 DEF InOrder
<1>7. Named(a, t) => Named(b, t)
  BY <1>2, <1>3 DEF Named
<1>8. TrueTo(x, b, t)
  BY <1>4, <1>5, <1>6, <1>7 DEF TrueTo
<1>. QED BY <1>8 DEF b

LEMMA TimelineAppend ==
  ASSUME NEW x, NEW a \in Seq(Entry), NEW t \in Seq(Entry), TrueTo(x, a, t),
         NEW f \in Entry, \A i \in DOMAIN t : ~Same(t[i], f),
         NEW n \in DOMAIN a, Tells(a[n], f),
         x[1] # "lead" => n = Len(a) /\ a[n].actor = f.actor
  PROVE  TrueTo(x, a, Append(t, f))
<1>. DEFINE u == Append(t, f)
<1>1. /\ Len(t) \in Nat /\ DOMAIN t = 1 .. Len(t) /\ DOMAIN u = 1 .. Len(t) + 1
      /\ u[Len(t) + 1] = f /\ \A i \in 1 .. Len(t) : u[i] = t[i]
      /\ Len(a) \in Nat /\ DOMAIN a = 1 .. Len(a)
  OBVIOUS
<1>. HIDE DEF u
<1>2. \A i \in DOMAIN u : \/ i \in DOMAIN t /\ u[i] = t[i] /\ i < Len(t) + 1
                          \/ i = Len(t) + 1 /\ u[i] = f
  BY <1>1
<1>3. \A k \in DOMAIN a : Tells(a[k], f) => k = n
  BY DEF TrueTo, Once, Tells, Same
<1>4. \A i \in DOMAIN t, k \in DOMAIN a : Tells(a[k], t[i]) => k # n
  BY DEF Tells, Same
<1>5. Once(u)
  BY <1>1, <1>2 DEF TrueTo, Once, Same
<1>6. Sourced(a, u)
  BY <1>2 DEF TrueTo, Sourced
<1>7. x[1] # "lead" => InOrder(a, u)
  <2>. SUFFICES ASSUME x[1] # "lead", NEW i \in DOMAIN u, NEW j \in DOMAIN u, i < j,
                       NEW k \in DOMAIN a, NEW m \in DOMAIN a, Tells(a[k], u[i]), Tells(a[m], u[j])
                PROVE  k < m
    BY DEF InOrder
  <2>1. i \in DOMAIN t /\ u[i] = t[i]
    BY <1>1, <1>2
  <2>2. CASE j \in DOMAIN t /\ u[j] = t[j]
    BY <2>1, <2>2 DEF TrueTo, InOrder
  <2>3. CASE u[j] = f
    BY <1>1, <1>3, <1>4, <2>1, <2>3
  <2>. QED BY <1>2, <2>2, <2>3
<1>8. x[1] # "lead" => Named(a, u)
  BY <1>2, <1>3 DEF TrueTo, Named
<1>9. TrueTo(x, a, u)
  BY <1>5, <1>6, <1>7, <1>8 DEF TrueTo
<1>. QED BY <1>9 DEF u

(* What the audit does not have, the timeline does not tell. *)
LEMMA Untold ==
  ASSUME NEW file, TrueFile(file), NEW x \in Record, NEW p, NEW c, None(file.audit[x], p, c)
  PROVE  None(file.timeline[x], p, c)
BY DEF TrueFile, TrueTo, Sourced, Tells, Same, None, Mine
-----------------------------------------------------------------------------
(* Files that grow *)

(* t is s and then entries of p's present command. *)
Extends(s, t, p, c) ==
  /\ \A k \in DOMAIN s : k \in DOMAIN t /\ t[k] = s[k]
  /\ \A k \in DOMAIN t : k \in DOMAIN s \/ Mine(t[k], p, c)
Grows(old, new, p, c) ==
  \A x \in Record : /\ Extends(old.audit[x], new.audit[x], p, c)
                    /\ Extends(old.timeline[x], new.timeline[x], p, c)

LEMMA GrowsRefl == \A file, p, c : Grows(file, file, p, c)
BY DEF Grows, Extends

LEMMA GrowsOn ==
  ASSUME NEW old, NEW mid, NEW new, NEW p, NEW c, Grows(old, mid, p, c), Grows(mid, new, p, c)
  PROVE  Grows(old, new, p, c)
BY DEF Grows, Extends

LEMMA AppendExtends ==
  ASSUME NEW s \in Seq(Entry), NEW e \in Entry, NEW p, NEW c, Mine(e, p, c)
  PROVE  Extends(s, Append(s, e), p, c)
<1>1. /\ DOMAIN s = 1 .. Len(s) /\ DOMAIN Append(s, e) = 1 .. Len(s) + 1 /\ Len(s) \in Nat
      /\ Append(s, e)[Len(s) + 1] = e /\ \A k \in 1 .. Len(s) : Append(s, e)[k] = s[k]
  OBVIOUS
<1>. QED BY <1>1 DEF Extends

(* A change is audited: the file grows by an entry of the command, and stays
   true if the record's audit had none. *)
LEMMA ChangedGrows ==
  ASSUME CrmTypeOK, Numbered, NEW p \in Proc, proc[p].step # "idle", NEW op \in AllOps,
         NEW file \in File, NEW x \in Record, NEW status \in Status
  PROVE  LET new == Changed(file, p, x, op, status)
         IN  /\ Grows(file, new, p, proc[p])
             /\ op = proc[p].cmd.op => EndsMine(new.audit[x], p, proc[p], file.actor)
             /\ \A y \in Record \ {x} : new.audit[y] = file.audit[y]
             /\ new.timeline = file.timeline /\ new.actor = file.actor
             /\ TrueFile(file) /\ None(file.audit[x], p, proc[p]) => TrueFile(new)
<1>. DEFINE e == EntryOf(p, op, file.actor)
            new == Changed(file, p, x, op, status)
<1>1. e \in Entry
  BY EntryType DEF File
<1>2. /\ new.audit = [file.audit EXCEPT ![x] = Append(file.audit[x], e)]
      /\ new.timeline = file.timeline /\ new.actor = file.actor
      /\ Mine(e, p, proc[p]) /\ e.op = op /\ e.actor = file.actor
  BY DEF Changed, File, EntryOf, Mine
<1>3. /\ file.audit \in [Record -> Seq(Entry)] /\ file.timeline \in [Record -> Seq(Entry)]
      /\ file.audit[x] \in Seq(Entry) /\ file.timeline[x] \in Seq(Entry)
  BY DEF File
<1>. HIDE DEF e, new
<1>4. /\ new.audit[x] = Append(file.audit[x], e)
      /\ \A y \in Record \ {x} : new.audit[y] = file.audit[y]
  BY <1>2, <1>3
<1>5. Grows(file, new, p, proc[p])
  <2>1. Extends(file.audit[x], new.audit[x], p, proc[p])
    BY <1>1, <1>2, <1>3, <1>4, AppendExtends
  <2>. QED BY <1>2, <1>4, <2>1 DEF Grows, Extends
<1>6. op = proc[p].cmd.op => EndsMine(new.audit[x], p, proc[p], file.actor)
  <2>1. new.audit[x][Len(new.audit[x])] = e /\ Len(new.audit[x]) > 0
    BY <1>1, <1>3, <1>4
  <2>. QED BY <1>2, <2>1 DEF EndsMine
<1>7. ASSUME TrueFile(file), None(file.audit[x], p, proc[p]) PROVE TrueFile(new)
  <2>1. \A k \in DOMAIN file.audit[x] : ~Same(file.audit[x][k], e)
    BY <1>2, <1>7 DEF None, Mine, Same
  <2>2. TrueTo(x, file.audit[x], file.timeline[x])
    BY <1>7 DEF TrueFile
  <2>3. TrueTo(x, Append(file.audit[x], e), file.timeline[x])
    BY <1>1, <1>3, <2>1, <2>2, AuditAppend
  <2>. QED BY <1>2, <1>4, <1>7, <2>3 DEF TrueFile
<1>. QED BY <1>2, <1>4, <1>5, <1>6, <1>7 DEF new

(* What is told of a change that the audit has: of a deal or a task, the last. *)
LEMMA ToldGrows ==
  ASSUME CrmTypeOK, Numbered, NEW p \in Proc, proc[p].step # "idle", NEW op \in AllOps,
         NEW file \in File, NEW x \in Record, NEW actor \in Proc \union {Nobody}
  PROVE  LET new == Told(file, p, x, op, actor)
         IN  /\ Grows(file, new, p, proc[p])
             /\ \A y \in Record \ {x} : new.timeline[y] = file.timeline[y]
             /\ new.audit = file.audit /\ new.actor = file.actor
             /\ /\ TrueFile(file) /\ None(file.timeline[x], p, proc[p])
                /\ \E k \in DOMAIN file.audit[x] :
                     /\ Mine(file.audit[x][k], p, proc[p]) /\ file.audit[x][k].op = op
                     /\ x[1] # "lead" => k = Len(file.audit[x]) /\ file.audit[x][k].actor = actor
                => TrueFile(new)
<1>. DEFINE e == EntryOf(p, op, actor)
            new == Told(file, p, x, op, actor)
            Cause(k) == /\ Mine(file.audit[x][k], p, proc[p]) /\ file.audit[x][k].op = op
                        /\ x[1] # "lead" => k = Len(file.audit[x]) /\ file.audit[x][k].actor = actor
<1>1. e \in Entry
  BY EntryType
<1>2. /\ new.timeline = [file.timeline EXCEPT ![x] = Append(file.timeline[x], e)]
      /\ new.audit = file.audit /\ new.actor = file.actor
      /\ Mine(e, p, proc[p]) /\ e.op = op /\ e.actor = actor
  BY DEF Told, File, EntryOf, Mine
<1>3. /\ file.audit \in [Record -> Seq(Entry)] /\ file.timeline \in [Record -> Seq(Entry)]
      /\ file.audit[x] \in Seq(Entry) /\ file.timeline[x] \in Seq(Entry)
  BY DEF File
<1>. HIDE DEF e, new
<1>4. /\ new.timeline[x] = Append(file.timeline[x], e)
      /\ \A y \in Record \ {x} : new.timeline[y] = file.timeline[y]
  BY <1>2, <1>3
<1>5. Grows(file, new, p, proc[p])
  <2>1. Extends(file.timeline[x], new.timeline[x], p, proc[p])
    BY <1>1, <1>2, <1>3, <1>4, AppendExtends
  <2>. QED BY <1>2, <1>4, <2>1 DEF Grows, Extends
<1>6. ASSUME TrueFile(file), None(file.timeline[x], p, proc[p]),
             \E k \in DOMAIN file.audit[x] : Cause(k)
      PROVE  TrueFile(new)
  <2>1. PICK n \in DOMAIN file.audit[x] : Cause(n)
    BY <1>6
  <2>2. \A k \in DOMAIN file.timeline[x] : ~Same(file.timeline[x][k], e)
    BY <1>2, <1>6 DEF None, Mine, Same
  <2>3. TrueTo(x, file.audit[x], file.timeline[x])
    BY <1>6 DEF TrueFile
  <2>4. Tells(file.audit[x][n], e)
        /\ (x[1] # "lead" => n = Len(file.audit[x]) /\ file.audit[x][n].actor = e.actor)
    BY <1>2, <2>1 DEF Tells, Same, Mine
  <2>5. TrueTo(x, file.audit[x], Append(file.timeline[x], e))
    BY <1>1, <1>3, <2>2, <2>3, <2>4, TimelineAppend
  <2>. QED BY <1>2, <1>4, <1>6, <2>5 DEF TrueFile
<1>. QED BY <1>2, <1>4, <1>5, <1>6 DEF new
-----------------------------------------------------------------------------
(* What a step leaves of the others *)

LEMMA PastGrows ==
  ASSUME CrmTypeOK, CrmTypeOK', NEW p \in Proc, NEW old \in File, NEW new,
         Grows(old, new, p, proc[p]), PastFile(old, proc),
         \A q \in Proc : proc[q].no <= proc'[q].no
  PROVE  PastFile(new, proc')
<1>1. \A q \in Proc : proc[q].no \in Nat /\ proc'[q].no \in Nat
  BY MaxCommandsAssumption DEF CrmTypeOK, Process
<1>2. ASSUME NEW s \in Seq(Entry), NEW t, Extends(s, t, p, proc[p]), Past(s, proc)
      PROVE  Past(t, proc')
  <2>. SUFFICES ASSUME NEW k \in DOMAIN t PROVE t[k].no <= proc'[t[k].by].no
    BY DEF Past
  <2>1. CASE k \in DOMAIN s
    <3>1. t[k] = s[k] /\ s[k] \in Entry /\ s[k].no <= proc[s[k].by].no
      BY <1>2, <2>1 DEF Extends, Past
    <3>2. s[k].by \in Proc /\ s[k].no \in Nat
      BY <3>1, MaxCommandsAssumption DEF Entry
    <3>. QED BY <1>1, <3>1, <3>2
  <2>2. CASE k \notin DOMAIN s
    BY <1>1, <1>2, <2>2 DEF Extends, Mine
  <2>. QED BY <2>1, <2>2
<1>3. \A x \in Record : old.audit[x] \in Seq(Entry) /\ old.timeline[x] \in Seq(Entry)
  BY DEF File
<1>. QED BY <1>2, <1>3 DEF PastFile, Grows

(* d is where c was: p's entries are none of q's. *)
LEMMA OutsideGrows ==
  ASSUME NEW p, NEW q, q # p, NEW b, NEW c, NEW d, NEW old, NEW new,
         Grows(old, new, p, b), Outside(old, q, c), RecordOf(c.cmd) \in Record,
         d.step = c.step, d.cmd = c.cmd, d.no = c.no
  PROVE  Outside(new, q, d)
<1>1. ASSUME NEW s, NEW t, Extends(s, t, p, b), None(s, q, c) PROVE None(t, q, d)
  BY <1>1 DEF Extends, None, Mine
<1>2. \A x \in Record : (None(old.audit[x], q, c) => None(new.audit[x], q, d))
                     /\ (None(old.timeline[x], q, c) => None(new.timeline[x], q, d))
  BY <1>1 DEF Grows
<1>3. \A k \in DOMAIN old.audit[RecordOf(c.cmd)] :
        /\ k \in DOMAIN new.audit[RecordOf(c.cmd)]
        /\ new.audit[RecordOf(c.cmd)][k] = old.audit[RecordOf(c.cmd)][k]
  BY DEF Grows, Extends
<1>. QED BY <1>2, <1>3 DEF Outside, Mine

LEMMA SnapshotKept ==
  ASSUME NEW q, NEW c, NEW d, NEW file, Snapshot(file, q, c),
         d.step = c.step, d.cmd = c.cmd, d.no = c.no, d.seen = c.seen, d.snapshot = c.snapshot
  PROVE  Snapshot(file, q, d)
BY DEF Snapshot, EndsMine, Mine

(* A snapshot that something was written since is no longer the newest. *)
LEMMA SnapshotOutdated ==
  ASSUME CrmTypeOK, NEW q \in Proc, NEW file, Snapshot(db, q, proc[q])
  PROVE  Snapshot(file, q, Outdated(q, file))
<1>1. CASE file = db \/ proc[q].snapshot # "newest"
  <2>1. Outdated(q, file) = proc[q]
    BY <1>1 DEF Outdated
  <2>. QED BY <1>1, <2>1 DEF Snapshot
<1>2. CASE file # db /\ proc[q].snapshot = "newest"
  <2>1. /\ Outdated(q, file).snapshot = "old" /\ Outdated(q, file).cmd = proc[q].cmd
        /\ Outdated(q, file).step = proc[q].step
    BY <1>2 DEF Outdated, CrmTypeOK, Process
  <2>. QED BY <2>1 DEF Snapshot
<1>. QED BY <1>1, <1>2

(* What a transaction keeps is said of another step than of the rest. *)
LEMMA NotOutside ==
  ASSUME NEW c, c.step \in InTransaction \union {"idle"}
  PROVE  \A file, p : Outside(file, p, c) /\ Snapshot(file, p, c)
BY DEF Outside, Snapshot, InTransaction

LEMMA InsideKept ==
  ASSUME NEW q, NEW c, NEW d, NEW file, Inside(file, q, c),
         d.step = c.step, d.cmd = c.cmd, d.no = c.no, d.rows = c.rows
  PROVE  Inside(file, q, d)
BY DEF Inside, None, EndsMine, Mine
-----------------------------------------------------------------------------
(* The forms of a step, again *)

LEMMA OutdatedKeeps ==
  ASSUME CrmTypeOK, NEW q \in Proc, NEW file
  PROVE  /\ Outdated(q, file).step = proc[q].step /\ Outdated(q, file).cmd = proc[q].cmd
         /\ Outdated(q, file).no = proc[q].no /\ Outdated(q, file).rows = proc[q].rows
         /\ RecordOf(proc[q].cmd) \in Record
BY OutdatedProcess, CommandRecord, ProcessTypes

(* A statement outside of a transaction. *)
LEMMA LoneWriteTold ==
  ASSUME TInv, IInv', NEW p \in Proc, NEW file, NEW next, writer # p, Write(p, file, next),
         next.no = proc[p].no, Grows(db, file, p, proc[p]), TrueFile(file),
         Outside(file, p, next), Snapshot(file, p, next)
  PROVE  TInv'
<1>1. /\ writer = Nobody /\ writer' = Nobody /\ db' = file /\ pending' = pending
      /\ proc' = [q \in Proc |-> IF q = p THEN next ELSE Outdated(q, file)]
  BY DEF Write, Locked
<1>2. CrmTypeOK /\ CrmTypeOK' /\ db \in File /\ pending \in File
  BY DEF TInv, IInv, CrmTypeOK
<1>3. proc'[p] = next /\ \A q \in Proc \ {p} : proc'[q] = Outdated(q, file)
  BY <1>1
<1>4. \A q \in Proc : proc[q].no <= proc'[q].no
  <2>1. \A q \in Proc : proc[q].no \in Nat /\ proc'[q].no = proc[q].no
    BY <1>2, <1>3, OutdatedKeeps, MaxCommandsAssumption DEF CrmTypeOK, Process
  <2>. QED BY <2>1
<1>5. PastFile(db', proc') /\ PastFile(pending', proc')
  BY <1>1, <1>2, <1>4, PastGrows, GrowsRefl DEF TInv
<1>6. ASSUME NEW q \in Proc PROVE Outside(db', q, proc'[q]) /\ Snapshot(db', q, proc'[q])
  <2>1. CASE q = p
    BY <1>1, <1>3, <2>1
  <2>2. CASE q # p
    <3>1. Outside(db, q, proc[q]) /\ Snapshot(db, q, proc[q])
      BY DEF TInv
    <3>2. Outside(file, q, Outdated(q, file))
      BY <1>2, <2>2, <3>1, OutdatedKeeps, OutsideGrows
    <3>3. Snapshot(file, q, Outdated(q, file))
      BY <1>2, <3>1, SnapshotOutdated
    <3>. QED BY <1>1, <1>3, <2>2, <3>2, <3>3
  <2>. QED BY <2>1, <2>2
<1>7. \A q \in Proc : ~(writer' \notin {q, Nobody}) /\ writer' # q
  BY <1>1, NobodyAssumption
<1>. QED BY <1>1, <1>5, <1>6, <1>7 DEF TInv

(* A statement in p's transaction. *)
LEMMA InnerWriteTold ==
  ASSUME TInv, IInv', NEW p \in Proc, NEW file, NEW next, writer = p, Write(p, file, next),
         next.no = proc[p].no, Grows(pending, file, p, proc[p]), TrueFile(file),
         Inside(file, p, next)
  PROVE  TInv'
<1>1. /\ writer' = p /\ db' = db /\ pending' = file /\ proc' = [proc EXCEPT ![p] = next]
  BY DEF Write
<1>2. CrmTypeOK /\ CrmTypeOK' /\ db \in File /\ pending \in File
  BY DEF TInv, IInv, CrmTypeOK
<1>3. proc'[p] = next /\ \A q \in Proc \ {p} : proc'[q] = proc[q]
  BY <1>1, <1>2 DEF CrmTypeOK
<1>4. \A q \in Proc : proc[q].no <= proc'[q].no
  <2>1. \A q \in Proc : proc[q].no \in Nat /\ proc'[q].no = proc[q].no
    BY <1>2, <1>3, MaxCommandsAssumption DEF CrmTypeOK, Process
  <2>. QED BY <2>1
<1>5. PastFile(db', proc') /\ PastFile(pending', proc')
  BY <1>1, <1>2, <1>4, PastGrows, GrowsRefl DEF TInv
<1>6. next.step \in InTransaction
  BY <1>1, <1>2, <1>3 DEF CrmTypeOK
<1>7. ASSUME NEW q \in Proc
      PROVE  /\ Outside(db', q, proc'[q]) /\ Snapshot(db', q, proc'[q])
             /\ writer' \notin {q, Nobody} => Outside(pending', q, proc'[q])
             /\ writer' = q => Inside(pending', q, proc'[q])
  <2>1. CASE q = p
    BY <1>1, <1>3, <1>6, <2>1, NotOutside
  <2>2. CASE q # p
    <3>1. Outside(db, q, proc[q]) /\ Snapshot(db, q, proc[q]) /\ Outside(pending, q, proc[q])
      BY <2>2, NobodyAssumption DEF TInv
    <3>2. Outside(file, q, proc[q])
      BY <1>2, <2>2, <3>1, OutdatedKeeps, OutsideGrows
    <3>. QED BY <1>1, <1>3, <2>2, <3>1, <3>2
  <2>. QED BY <2>1, <2>2
<1>. QED BY <1>1, <1>5, <1>7 DEF TInv

(* A step of p's own, without a statement that writes. *)
LEMMA QuietTold ==
  ASSUME TInv, IInv', NEW p \in Proc, NEW next, writer # p,
         proc' = [proc EXCEPT ![p] = next], UNCHANGED <<db, writer, pending>>,
         proc[p].no <= next.no, Outside(db, p, next), Snapshot(db, p, next),
         writer # Nobody => Outside(pending, p, next)
  PROVE  TInv'
<1>1. CrmTypeOK /\ CrmTypeOK' /\ db \in File /\ pending \in File
  BY DEF TInv, IInv, CrmTypeOK
<1>2. proc'[p] = next /\ \A q \in Proc \ {p} : proc'[q] = proc[q]
  BY <1>1 DEF CrmTypeOK
<1>3. \A q \in Proc : proc[q].no <= proc'[q].no
  <2>1. \A q \in Proc : proc[q].no \in Nat
    BY <1>1, MaxCommandsAssumption DEF CrmTypeOK, Process
  <2>. QED BY <1>2, <2>1
<1>4. PastFile(db', proc') /\ PastFile(pending', proc')
  BY <1>1, <1>3, PastGrows, GrowsRefl DEF TInv
<1>5. ASSUME NEW q \in Proc
      PROVE  /\ Outside(db', q, proc'[q]) /\ Snapshot(db', q, proc'[q])
             /\ writer' \notin {q, Nobody} => Outside(pending', q, proc'[q])
             /\ writer' = q => Inside(pending', q, proc'[q])
  <2>1. CASE q = p
    BY <1>2, <2>1
  <2>2. CASE q # p
    BY <1>2, <2>2 DEF TInv
  <2>. QED BY <2>1, <2>2
<1>. QED BY <1>4, <1>5 DEF TInv
-----------------------------------------------------------------------------
(* The timeline and the commands outside a transaction *)

LEMMA InitializedTold == TrueFile(Initialized) /\ \A procs : PastFile(Initialized, procs)
<1>1. \A x \in Record : Initialized.audit[x] = <<>> /\ Initialized.timeline[x] = <<>>
  BY DEF Initialized
<1>2. \A x \in Record : TrueTo(x, <<>>, <<>>)
  BY DEF TrueTo, Once, Sourced, InOrder, Named
<1>3. \A procs : Past(<<>>, procs)
  BY DEF Past
<1>. QED BY <1>1, <1>2, <1>3 DEF TrueFile, PastFile

LEMMA StartTold ==
  ASSUME TInv, NEW p \in Proc, NEW op \in Ops, NEW l \in Lead, Start(p, [op |-> op, lead |-> l])
  PROVE  TInv'
<1>. DEFINE cmd == [op |-> op, lead |-> l]
            next == [step |-> "actor", cmd |-> cmd, no |-> proc[p].no + 1,
                     snapshot |-> "none", seen |-> Nobody,
                     rows |-> IF cmd.op = "import" THEN Lead ELSE {}]
<1>1. /\ proc' = [proc EXCEPT ![p] = next] /\ UNCHANGED <<db, writer, pending>>
      /\ proc[p].step = "idle"
  BY DEF Start, At
<1>2. IInv' /\ writer # p /\ proc[p].no \in Nat
  BY <1>1, StartStep, ProcessTypes, MaxCommandsAssumption DEF TInv, IInv, InTransaction
<1>3. next.step = "actor" /\ next.no = proc[p].no + 1
  OBVIOUS
<1>. HIDE DEF next
<1>4. ASSUME NEW file, PastFile(file, proc) PROVE Outside(file, p, next)
  <2>1. \A x \in Record : None(file.audit[x], p, next)
    BY <1>2, <1>3, <1>4 DEF PastFile, Past, None, Mine
  <2>. QED BY <1>3, <2>1 DEF Outside
<1>5. Snapshot(db, p, next)
  BY <1>3 DEF Snapshot
<1>6. proc[p].no <= next.no /\ Outside(db, p, next) /\ (writer # Nobody => Outside(pending, p, next))
  BY <1>2, <1>3, <1>4 DEF TInv
<1>. QED BY <1>1, <1>2, <1>5, <1>6, QuietTold

LEMMA SetActorTold ==
  ASSUME TInv, NEW p \in Proc, SetActor(p)
  PROVE  TInv'
<1>. DEFINE first == FirstStep(proc[p].cmd.op)
            next == IF first = "idle" THEN Ended(p) ELSE GoesTo(p, first)
            file == [db EXCEPT !.actor = p]
<1>1. Write(p, file, next) /\ proc[p].step = "actor"
  BY DEF SetActor, At
<1>2. IInv' /\ writer # p /\ db \in File /\ proc[p] \in Process
  BY <1>1, SetActorStep, ProcessTypes DEF TInv, IInv, InTransaction
<1>3. /\ file.audit = db.audit /\ file.timeline = db.timeline /\ file.status = db.status
  BY <1>2 DEF File
<1>4. first \in {"begin", "read", "update", "idle"} /\ (first = "update" => ~ReadsFirst(proc[p].cmd.op))
  BY DEF FirstStep, Transactional, ReadsFirst, Closers
<1>5. /\ next.step = first /\ next.no = proc[p].no
      /\ first # "idle" => next.cmd = proc[p].cmd
  BY <1>2 DEF Ended, NotRunning, GoesTo, Process
<1>. HIDE DEF next, file, first
<1>6. Grows(db, file, p, proc[p]) /\ TrueFile(file)
  BY <1>3 DEF Grows, Extends, TInv, TrueFile
<1>7. Outside(file, p, next)
  BY <1>1, <1>3, <1>4, <1>5 DEF TInv, Outside, None, Mine
<1>8. Snapshot(file, p, next)
  <2>1. CASE first = "idle"
    BY <1>5, <2>1, NotOutside
  <2>2. CASE first # "idle"
    BY <1>4, <1>5, <2>2 DEF Snapshot
  <2>. QED BY <2>1, <2>2
<1>. QED BY <1>1, <1>2, <1>5, <1>6, <1>7, <1>8, LoneWriteTold

LEMMA ReadTold ==
  ASSUME TInv, NEW p \in Proc, Read(p)
  PROVE  TInv'
<1>. DEFINE next == [proc[p] EXCEPT !.step = "update", !.snapshot = Pinned]
<1>1. /\ proc' = [proc EXCEPT ![p] = next] /\ UNCHANGED <<db, writer, pending>>
      /\ proc[p].step = "read" /\ db.status[RecordOf(proc[p].cmd)] \in From(proc[p].cmd.op)
  BY DEF Read, At
<1>2. IInv' /\ writer # p /\ proc[p] \in Process /\ proc[p].no \in Nat
  BY <1>1, ReadStep, ProcessTypes, MaxCommandsAssumption DEF TInv, IInv, InTransaction
<1>3. /\ next.step = "update" /\ next.snapshot = "newest"
      /\ next.cmd = proc[p].cmd /\ next.no = proc[p].no
  BY <1>2 DEF Process, Pinned
<1>. HIDE DEF next
<1>4. \A file : Outside(file, p, proc[p]) => Outside(file, p, next)
  BY <1>1, <1>3 DEF Outside, None, Mine
<1>5. Snapshot(db, p, next)
  BY <1>1, <1>3 DEF Snapshot
<1>6. proc[p].no <= next.no /\ Outside(db, p, next) /\ (writer # Nobody => Outside(pending, p, next))
  BY <1>2, <1>3, <1>4 DEF TInv
<1>. QED BY <1>1, <1>2, <1>5, <1>6, QuietTold

LEMMA ReadActorTold ==
  ASSUME TInv, NEW p \in Proc, ReadActor(p)
  PROVE  TInv'
<1>. DEFINE next == [proc[p] EXCEPT !.step = "insert", !.seen = db.actor]
<1>1. /\ proc' = [proc EXCEPT ![p] = next] /\ UNCHANGED <<db, writer, pending>>
      /\ proc[p].step = "log"
  BY DEF ReadActor, At
<1>2. IInv' /\ writer # p /\ proc[p] \in Process /\ proc[p].no \in Nat
  BY <1>1, ReadActorStep, ProcessTypes, MaxCommandsAssumption DEF TInv, IInv, InTransaction
<1>3. /\ next.step = "insert" /\ next.snapshot = proc[p].snapshot /\ next.seen = db.actor
      /\ next.cmd = proc[p].cmd /\ next.no = proc[p].no
  BY <1>2 DEF Process
<1>. HIDE DEF next
<1>4. \A file : Outside(file, p, proc[p]) => Outside(file, p, next)
  BY <1>1, <1>3 DEF Outside, None, Mine
<1>5. Snapshot(db, p, next)
  BY <1>1, <1>3 DEF TInv, Snapshot, EndsMine, Mine
<1>6. proc[p].no <= next.no /\ Outside(db, p, next) /\ (writer # Nobody => Outside(pending, p, next))
  BY <1>2, <1>3, <1>4 DEF TInv
<1>. QED BY <1>1, <1>2, <1>5, <1>6, QuietTold

LEMMA UpdateTold ==
  ASSUME TInv, NEW p \in Proc, Update(p)
  PROVE  TInv'
<1>. DEFINE op == proc[p].cmd.op
            x == RecordOf(proc[p].cmd)
            hit == db.status[x] \in From(op)
            changed == Changed(db, p, x, op, To(op))
            file == IF hit THEN changed ELSE db
            next == IF hit \/ ReadsFirst(op) THEN GoesTo(p, "log") ELSE Ended(p)
<1>1. Write(p, file, next) /\ proc[p].step = "update" /\ proc[p].snapshot # "old"
  BY DEF Update, At, Write, Locked
<1>2. /\ IInv' /\ writer # p /\ db \in File /\ proc[p] \in Process
      /\ op \in AllOps /\ Guarded(op) /\ x \in Record /\ To(op) \in Status
  BY <1>1, UpdateStep, ProcessTypes, CommandRecord, GuardedChange
     DEF TInv, IInv, InTransaction, StepFits, StepFit
<1>3. /\ GoesTo(p, "log").step = "log" /\ GoesTo(p, "log").cmd = proc[p].cmd
      /\ GoesTo(p, "log").no = proc[p].no /\ GoesTo(p, "log").snapshot = proc[p].snapshot
      /\ Ended(p).step = "idle" /\ Ended(p).no = proc[p].no
  BY <1>2 DEF Ended, NotRunning, GoesTo, Process
<1>4. None(db.audit[x], p, proc[p]) /\ None(db.timeline[x], p, proc[p])
  BY <1>1, <1>2, Untold DEF TInv, Outside
<1>5. ReadsFirst(op) => hit
  <2>1. proc[p].snapshot \in {"none", "newest", "old"}
    BY <1>2 DEF Process
  <2>. QED BY <1>1, <2>1 DEF TInv, Snapshot
<1>6. CASE hit
  <2>1. /\ Grows(db, changed, p, proc[p]) /\ EndsMine(changed.audit[x], p, proc[p], db.actor)
        /\ changed.timeline = db.timeline /\ changed.actor = db.actor /\ TrueFile(changed)
    BY <1>1, <1>2, <1>4, ChangedGrows DEF TInv, IInv
  <2>2. changed \in File
    BY <1>1, <1>2, ChangedFile DEF TInv, IInv
  <2>. HIDE DEF changed
  <2>3. Len(changed.audit[x]) \in DOMAIN changed.audit[x]
    <3>1. changed.audit[x] \in Seq(Entry) /\ Len(changed.audit[x]) > 0
      BY <1>2, <2>1, <2>2 DEF File, EndsMine
    <3>. QED BY <3>1
  <2>4. Outside(changed, p, GoesTo(p, "log"))
    <3>1. None(changed.timeline[x], p, GoesTo(p, "log"))
      BY <1>3, <1>4, <2>1 DEF None, Mine
    <3>2. \E k \in DOMAIN changed.audit[x] :
            /\ Mine(changed.audit[x][k], p, GoesTo(p, "log")) /\ changed.audit[x][k].op = op
      BY <1>3, <2>1, <2>3 DEF EndsMine, Mine
    <3>. QED BY <1>3, <3>1, <3>2 DEF Outside
  <2>5. Snapshot(changed, p, GoesTo(p, "log"))
    <3>1. ReadsFirst(op) => proc[p].snapshot # "none"
      BY <1>1 DEF TInv, Snapshot
    <3>2. EndsMine(changed.audit[x], p, GoesTo(p, "log"), changed.actor)
      BY <1>3, <2>1 DEF EndsMine, Mine
    <3>. QED BY <1>3, <3>1, <3>2 DEF Snapshot
  <2>. QED BY <1>1, <1>2, <1>3, <1>6, <2>1, <2>4, <2>5, LoneWriteTold
<1>7. CASE ~hit
  <2>1. Write(p, db, Ended(p))
    BY <1>1, <1>5, <1>7
  <2>. QED BY <1>2, <1>3, <2>1, NotOutside, GrowsRefl, LoneWriteTold DEF TInv
<1>. QED BY <1>6, <1>7

LEMMA InsertActivityTold ==
  ASSUME TInv, NEW p \in Proc, InsertActivity(p)
  PROVE  TInv'
<1>. DEFINE op == proc[p].cmd.op
            x == RecordOf(proc[p].cmd)
            file == Told(db, p, x, op, proc[p].seen)
<1>1. Write(p, file, Ended(p)) /\ proc[p].step = "insert" /\ proc[p].snapshot # "old"
  BY DEF InsertActivity, At, Write, Locked
<1>2. /\ IInv' /\ writer # p /\ db \in File /\ proc[p] \in Process
      /\ op \in AllOps /\ Guarded(op) /\ x \in Record /\ proc[p].seen \in Proc \union {Nobody}
  BY <1>1, InsertActivityStep, ProcessTypes, CommandRecord
     DEF TInv, IInv, InTransaction, StepFits, StepFit, Process
<1>3. Ended(p).step = "idle" /\ Ended(p).no = proc[p].no
  BY DEF Ended, NotRunning
<1>4. /\ None(db.timeline[x], p, proc[p])
      /\ \E k \in DOMAIN db.audit[x] : Mine(db.audit[x][k], p, proc[p]) /\ db.audit[x][k].op = op
  BY <1>1 DEF TInv, Outside
<1>5. \E k \in DOMAIN db.audit[x] :
        /\ Mine(db.audit[x][k], p, proc[p]) /\ db.audit[x][k].op = op
        /\ x[1] # "lead" => k = Len(db.audit[x]) /\ db.audit[x][k].actor = proc[p].seen
  <2>1. CASE ReadsFirst(op)
    <3>1. proc[p].snapshot \in {"none", "newest", "old"} /\ db.audit[x] \in Seq(Entry)
      BY <1>2 DEF Process, File
    <3>2. EndsMine(db.audit[x], p, proc[p], db.actor) /\ proc[p].seen = db.actor
      BY <1>1, <2>1, <3>1 DEF TInv, Snapshot
    <3>3. Len(db.audit[x]) \in DOMAIN db.audit[x]
      BY <3>1, <3>2 DEF EndsMine
    <3>. QED BY <3>2, <3>3 DEF EndsMine
  <2>2. CASE ~ReadsFirst(op)
    <3>1. x[1] = "lead"
      BY <1>2, <2>2 DEF Guarded, RecordOf, KindOf
    <3>. QED BY <1>4, <3>1
  <2>. QED BY <2>1, <2>2
<1>6. Grows(db, file, p, proc[p]) /\ TrueFile(file)
  BY <1>1, <1>2, <1>4, <1>5, ToldGrows DEF TInv, IInv
<1>. QED BY <1>1, <1>2, <1>3, <1>6, NotOutside, LoneWriteTold
-----------------------------------------------------------------------------
(* The timeline and transactions *)

LEMMA BeginTold ==
  ASSUME TInv, NEW p \in Proc, Begin(p)
  PROVE  TInv'
<1>. DEFINE s == IF proc[p].cmd.op = "convert" THEN "resolve" ELSE "rows"
            next == [proc[p] EXCEPT !.step = s]
<1>1. /\ proc[p].step = "begin" /\ writer' = p /\ pending' = db /\ db' = db
      /\ proc' = [proc EXCEPT ![p].step = s]
  BY DEF Begin, At
<1>2. IInv' /\ CrmTypeOK /\ CrmTypeOK' /\ db \in File /\ proc[p] \in Process
  BY BeginStep, ProcessTypes DEF TInv, IInv
<1>3. proc'[p] = next /\ \A q \in Proc \ {p} : proc'[q] = proc[q]
  BY <1>1, <1>2 DEF CrmTypeOK
<1>4. next.step = s /\ next.cmd = proc[p].cmd /\ next.no = proc[p].no /\ next.rows = proc[p].rows
  BY <1>2 DEF Process
<1>. HIDE DEF next
<1>5. \A q \in Proc : proc[q].no <= proc'[q].no
  <2>1. \A q \in Proc : proc[q].no \in Nat
    BY <1>2, MaxCommandsAssumption DEF CrmTypeOK, Process
  <2>. QED BY <1>3, <1>4, <2>1
<1>6. PastFile(db, proc')
  BY <1>2, <1>5, PastGrows, GrowsRefl DEF TInv
<1>7. Inside(db, p, next)
  <2>1. \A x \in Record : None(db.audit[x], p, proc[p])
    BY <1>1 DEF TInv, Outside
  <2>2. \A x \in Record : None(db.audit[x], p, next)
    BY <1>4, <2>1 DEF None, Mine
  <2>3. \A l \in next.rows : LeadRow(l) \in Record
    BY <1>2, <1>4, Rows DEF Process
  <2>. QED BY <1>4, <2>2, <2>3 DEF Inside
<1>8. ASSUME NEW q \in Proc
      PROVE  /\ Outside(db', q, proc'[q]) /\ Snapshot(db', q, proc'[q])
             /\ writer' \notin {q, Nobody} => Outside(pending', q, proc'[q])
             /\ writer' = q => Inside(pending', q, proc'[q])
  <2>1. CASE q = p
    <3>1. next.step \in InTransaction
      BY <1>4 DEF InTransaction
    <3>. QED BY <1>1, <1>3, <1>7, <2>1, <3>1, NotOutside
  <2>2. CASE q # p
    BY <1>1, <1>3, <2>2 DEF TInv
  <2>. QED BY <2>1, <2>2
<1>. QED BY <1>1, <1>2, <1>6, <1>8 DEF TInv

LEMMA ResolveTold ==
  ASSUME TInv, NEW p \in Proc, Resolve(p)
  PROVE  TInv'
<1>. DEFINE file == [pending EXCEPT !.contacts = @ \union {EmailOf[proc[p].cmd.lead]}]
            next == GoesTo(p, "deal")
<1>1. proc[p].step = "resolve"
  BY DEF Resolve, At
<1>2. writer = p /\ Seen(p) = pending /\ pending \in File /\ IInv' /\ proc[p] \in Process
  BY <1>1, Within, ResolveStep, ProcessTypes DEF InTransaction, TInv, IInv
<1>3. Write(p, file, next)
  BY <1>2 DEF Resolve
<1>4. file.audit = pending.audit /\ file.timeline = pending.timeline
  BY <1>2 DEF File
<1>5. next.step = "deal" /\ next.cmd = proc[p].cmd /\ next.no = proc[p].no
  BY <1>2 DEF GoesTo, Process
<1>. HIDE DEF next, file
<1>6. Grows(pending, file, p, proc[p]) /\ TrueFile(file)
  BY <1>4 DEF Grows, Extends, TInv, TrueFile
<1>7. Inside(file, p, next)
  BY <1>1, <1>2, <1>4, <1>5 DEF TInv, Inside, None, Mine
<1>. QED BY <1>2, <1>3, <1>5, <1>6, <1>7, InnerWriteTold

LEMMA InsertDealTold ==
  ASSUME TInv, NEW p \in Proc, InsertDeal(p)
  PROVE  TInv'
<1>. DEFINE l == proc[p].cmd.lead
            x == DealRow(l)
            file == Changed(pending, p, x, "convert", "open")
            next == GoesTo(p, "link")
<1>1. proc[p].step = "deal"
  BY DEF InsertDeal, At
<1>2. writer = p /\ Seen(p) = pending /\ pending \in File /\ l \in Lead /\ Fit(p) /\ IInv'
      /\ proc[p] \in Process
  BY <1>1, Within, InsertDealStep, ProcessTypes DEF InTransaction, TInv, IInv
<1>3. Write(p, file, next)
  BY <1>2 DEF InsertDeal, DealRow
<1>4. /\ proc[p].cmd.op = "convert" /\ x \in Record
      /\ "convert" \in AllOps /\ "open" \in Status
  BY <1>1, <1>2, Rows DEF Fit, AllOps, Status
<1>5. next.step = "link" /\ next.cmd = proc[p].cmd /\ next.no = proc[p].no
  BY <1>2 DEF GoesTo, Process
<1>6. \A y \in Record : /\ None(pending.audit[y], p, proc[p])
                        /\ None(pending.timeline[y], p, proc[p])
  BY <1>1, <1>2, Untold DEF TInv, Inside
<1>7. /\ Grows(pending, file, p, proc[p]) /\ EndsMine(file.audit[x], p, proc[p], pending.actor)
      /\ \A y \in Record \ {x} : file.audit[y] = pending.audit[y]
      /\ file.timeline = pending.timeline /\ file.actor = pending.actor /\ TrueFile(file)
  BY <1>1, <1>2, <1>4, <1>6, ChangedGrows DEF TInv, IInv
<1>. HIDE DEF next, file
<1>8. Inside(file, p, next)
  <2>1. /\ \A y \in Record \ {x} : None(file.audit[y], p, next)
        /\ None(file.timeline[x], p, next)
    BY <1>4, <1>5, <1>6, <1>7 DEF None, Mine
  <2>2. EndsMine(file.audit[x], p, next, file.actor)
    BY <1>5, <1>7 DEF EndsMine, Mine
  <2>. QED BY <1>5, <2>1, <2>2 DEF Inside
<1>. QED BY <1>2, <1>3, <1>5, <1>7, <1>8, InnerWriteTold

(* A row that is changed, and told of in the same transaction. *)
LEMMA ChangedAndTold ==
  ASSUME CrmTypeOK, Numbered, NEW p \in Proc, proc[p].step # "idle", NEW op \in AllOps,
         NEW file \in File, NEW x \in Record, NEW status \in Status,
         op = proc[p].cmd.op, TrueFile(file), None(file.audit[x], p, proc[p])
  PROVE  LET changed == Changed(file, p, x, op, status)
             new == Told(changed, p, x, op, changed.actor)
         IN  /\ new \in File /\ TrueFile(new) /\ Grows(file, new, p, proc[p])
             /\ \A y \in Record \ {x} : new.audit[y] = file.audit[y] /\ new.timeline[y] = file.timeline[y]
             /\ new.actor = file.actor /\ changed.actor = file.actor
<1>. DEFINE changed == Changed(file, p, x, op, status)
            new == Told(changed, p, x, op, changed.actor)
<1>1. changed \in File /\ changed.actor \in Proc \union {Nobody}
  BY ChangedFile
<1>2. /\ Grows(file, changed, p, proc[p]) /\ EndsMine(changed.audit[x], p, proc[p], file.actor)
      /\ \A y \in Record \ {x} : changed.audit[y] = file.audit[y]
      /\ changed.timeline = file.timeline /\ changed.actor = file.actor /\ TrueFile(changed)
  BY ChangedGrows
<1>3. None(changed.timeline[x], p, proc[p])
  BY <1>2, Untold
<1>. HIDE DEF changed
<1>4. \E k \in DOMAIN changed.audit[x] :
        /\ Mine(changed.audit[x][k], p, proc[p]) /\ changed.audit[x][k].op = op
        /\ x[1] # "lead" => k = Len(changed.audit[x]) /\ changed.audit[x][k].actor = changed.actor
  <2>1. changed.audit[x] \in Seq(Entry) /\ Len(changed.audit[x]) > 0
    BY <1>1, <1>2 DEF File, EndsMine
  <2>2. Len(changed.audit[x]) \in DOMAIN changed.audit[x]
    BY <2>1
  <2>. QED BY <1>2, <2>2 DEF EndsMine
<1>5. /\ Grows(changed, new, p, proc[p]) /\ TrueFile(new)
      /\ \A y \in Record \ {x} : new.timeline[y] = changed.timeline[y]
      /\ new.audit = changed.audit /\ new.actor = changed.actor
  BY <1>1, <1>2, <1>3, <1>4, ToldGrows
<1>6. new \in File
  BY <1>1, ToldFile
<1>. HIDE DEF new
<1>7. Grows(file, new, p, proc[p])
  BY <1>2, <1>5, GrowsOn
<1>8. /\ \A y \in Record \ {x} : new.audit[y] = file.audit[y] /\ new.timeline[y] = file.timeline[y]
      /\ new.actor = file.actor
  BY <1>2, <1>5
<1>. QED BY <1>2, <1>5, <1>6, <1>7, <1>8 DEF new, changed

LEMMA LinkTold ==
  ASSUME TInv, NEW p \in Proc, Link(p)
  PROVE  TInv'
<1>. DEFINE l == proc[p].cmd.lead
            linked == Changed(pending, p, LeadRow(l), "convert", "converted")
            told == Told(linked, p, LeadRow(l), "convert", linked.actor)
            file == Told(told, p, DealRow(l), "convert", linked.actor)
            next == GoesTo(p, "commit")
<1>1. proc[p].step = "link"
  BY DEF Link, At
<1>2. writer = p /\ Seen(p) = pending /\ pending \in File /\ l \in Lead /\ Fit(p) /\ IInv'
      /\ proc[p] \in Process /\ CrmTypeOK /\ Numbered
  BY <1>1, Within, LinkStep, ProcessTypes DEF InTransaction, TInv, IInv
<1>3. Write(p, file, next)
  BY <1>2 DEF Link, LeadRow, DealRow
<1>4. /\ proc[p].cmd.op = "convert" /\ LeadRow(l) \in Record \ {DealRow(l)}
      /\ DealRow(l) \in Record \ {LeadRow(l)}
      /\ "convert" \in AllOps /\ "converted" \in Status
  BY <1>1, <1>2, Rows DEF Fit, AllOps, Status
<1>5. next.step = "commit" /\ next.no = proc[p].no
  BY <1>2 DEF GoesTo, Process
<1>6. /\ None(pending.audit[LeadRow(l)], p, proc[p])
      /\ None(pending.timeline[DealRow(l)], p, proc[p])
      /\ EndsMine(pending.audit[DealRow(l)], p, proc[p], pending.actor)
  BY <1>1, <1>2, <1>4 DEF TInv, Inside
<1>7. /\ told \in File /\ TrueFile(told) /\ Grows(pending, told, p, proc[p])
      /\ told.audit[DealRow(l)] = pending.audit[DealRow(l)]
      /\ told.timeline[DealRow(l)] = pending.timeline[DealRow(l)]
      /\ linked.actor = pending.actor
  BY <1>1, <1>2, <1>4, <1>6, ChangedAndTold DEF TInv
<1>8. linked.actor \in Proc \union {Nobody}
  BY <1>2, <1>7 DEF File
<1>. HIDE DEF linked, told
<1>9. \E k \in DOMAIN told.audit[DealRow(l)] :
        /\ Mine(told.audit[DealRow(l)][k], p, proc[p]) /\ told.audit[DealRow(l)][k].op = "convert"
        /\ DealRow(l)[1] # "lead" => /\ k = Len(told.audit[DealRow(l)])
                                     /\ told.audit[DealRow(l)][k].actor = linked.actor
  <2>1. told.audit[DealRow(l)] \in Seq(Entry) /\ Len(told.audit[DealRow(l)]) > 0
    BY <1>4, <1>6, <1>7 DEF File, EndsMine
  <2>2. Len(told.audit[DealRow(l)]) \in DOMAIN told.audit[DealRow(l)]
    BY <2>1
  <2>. QED BY <1>4, <1>6, <1>7, <2>2 DEF EndsMine
<1>10. Grows(told, file, p, proc[p]) /\ TrueFile(file)
  BY <1>1, <1>2, <1>4, <1>6, <1>7, <1>8, <1>9, ToldGrows
<1>. HIDE DEF file, next
<1>11. Grows(pending, file, p, proc[p])
  BY <1>7, <1>10, GrowsOn
<1>12. Inside(file, p, next)
  BY <1>5 DEF Inside
<1>. QED BY <1>2, <1>3, <1>5, <1>10, <1>11, <1>12, InnerWriteTold

LEMMA ImportRowTold ==
  ASSUME TInv, NEW p \in Proc, NEW l \in Lead, ImportRow(p, l)
  PROVE  TInv'
<1>. DEFINE inserted == Changed(pending, p, LeadRow(l), "import", "new")
            new == Told(inserted, p, LeadRow(l), "import", inserted.actor)
            file == IF Known(pending, l) THEN pending ELSE new
            rest == proc[p].rows \ {l}
            next == [proc[p] EXCEPT !.rows = rest, !.step = IF rest = {} THEN "commit" ELSE "rows"]
<1>1. proc[p].step = "rows" /\ l \in proc[p].rows
  BY DEF ImportRow, At
<1>2. writer = p /\ Seen(p) = pending /\ pending \in File /\ Fit(p) /\ IInv'
      /\ proc[p] \in Process /\ CrmTypeOK /\ Numbered
  BY <1>1, Within, ImportRowStep, ProcessTypes DEF InTransaction, TInv, IInv
<1>3. Write(p, file, next)
  BY <1>2 DEF ImportRow, LeadRow
<1>4. /\ proc[p].cmd.op = "import" /\ LeadRow(l) \in Record
      /\ "import" \in AllOps /\ "new" \in Status
  BY <1>1, <1>2, Rows DEF Fit, AllOps, Status
<1>5. /\ next.step \in {"commit", "rows"} /\ next.no = proc[p].no /\ next.rows = rest
      /\ rest \subseteq Lead
  BY <1>2 DEF Process
<1>6. \A m \in proc[p].rows : None(pending.audit[LeadRow(m)], p, proc[p])
  BY <1>1, <1>2 DEF TInv, Inside
<1>7. /\ TrueFile(new) /\ Grows(pending, new, p, proc[p])
      /\ \A y \in Record \ {LeadRow(l)} : new.audit[y] = pending.audit[y]
  BY <1>1, <1>2, <1>4, <1>6, ChangedAndTold DEF TInv
<1>. HIDE DEF next, new
<1>8. TrueFile(file) /\ Grows(pending, file, p, proc[p])
  BY <1>7, GrowsRefl DEF TInv
<1>9. \A m \in rest : file.audit[LeadRow(m)] = pending.audit[LeadRow(m)]
  <2>1. \A m \in rest : LeadRow(m) \in Record \ {LeadRow(l)}
    BY <1>5, Rows
  <2>. QED BY <1>7, <2>1
<1>. HIDE DEF file
<1>10. Inside(file, p, next)
  BY <1>5, <1>6, <1>9 DEF Inside, None, Mine
<1>. QED BY <1>2, <1>3, <1>5, <1>8, <1>10, InnerWriteTold

LEMMA CommitTold ==
  ASSUME TInv, NEW p \in Proc, Commit(p)
  PROVE  TInv'
<1>1. writer = p /\ Seen(p) = pending
  BY Within DEF Commit, At, InTransaction, TInv
<1>2. /\ db' = pending /\ writer' = Nobody /\ pending' = Initialized
      /\ proc' = [q \in Proc |-> IF q = p THEN Ended(p) ELSE Outdated(q, pending)]
  BY <1>1 DEF Commit
<1>3. IInv' /\ CrmTypeOK /\ CrmTypeOK' /\ pending \in File
  BY CommitStep DEF TInv, IInv, CrmTypeOK
<1>4. proc'[p] = Ended(p) /\ \A q \in Proc \ {p} : proc'[q] = Outdated(q, pending)
  BY <1>2
<1>5. Ended(p).step = "idle" /\ Ended(p).no = proc[p].no
  BY DEF Ended, NotRunning
<1>6. \A q \in Proc : proc[q].no <= proc'[q].no
  <2>1. \A q \in Proc : proc[q].no \in Nat /\ proc'[q].no = proc[q].no
    BY <1>3, <1>4, <1>5, OutdatedKeeps, MaxCommandsAssumption DEF CrmTypeOK, Process
  <2>. QED BY <2>1
<1>7. PastFile(db', proc')
  BY <1>2, <1>3, <1>6, PastGrows, GrowsRefl DEF TInv
<1>8. ASSUME NEW q \in Proc PROVE Outside(db', q, proc'[q]) /\ Snapshot(db', q, proc'[q])
  <2>1. CASE q = p
    BY <1>4, <1>5, <2>1, NotOutside
  <2>2. CASE q # p
    <3>1. Outside(pending, q, proc[q]) /\ Snapshot(db, q, proc[q])
      BY <1>1, <2>2, NobodyAssumption DEF TInv
    <3>. DEFINE d == Outdated(q, pending)
    <3>2. /\ Grows(pending, pending, p, proc[p]) /\ RecordOf(proc[q].cmd) \in Record
          /\ d.step = proc[q].step /\ d.cmd = proc[q].cmd /\ d.no = proc[q].no
      BY <1>3, OutdatedKeeps, GrowsRefl
    <3>3. Outside(pending, q, d)
      <4>. HIDE DEF d
      <4>. QED BY <2>2, <3>1, <3>2, OutsideGrows
    <3>4. Snapshot(pending, q, d)
      BY <1>3, <3>1, SnapshotOutdated
    <3>. QED BY <1>2, <1>4, <2>2, <3>3, <3>4
  <2>. QED BY <2>1, <2>2
<1>9. \A q \in Proc : ~(writer' \notin {q, Nobody}) /\ writer' # q
  BY <1>2, NobodyAssumption
<1>. QED BY <1>2, <1>3, <1>7, <1>8, <1>9, InitializedTold DEF TInv

LEMMA GivesUpTold ==
  ASSUME TInv, NEW p \in Proc, GivesUp(p)
  PROVE  TInv'
<1>1. IInv' /\ CrmTypeOK /\ CrmTypeOK' /\ db \in File /\ proc[p].no \in Nat
  BY GivesUpStep, MaxCommandsAssumption DEF TInv, IInv, CrmTypeOK, Process
<1>2. Ended(p).step = "idle" /\ Ended(p).no = proc[p].no
  BY DEF Ended, NotRunning
<1>3. proc' = [proc EXCEPT ![p] = Ended(p)] /\ db' = db
  BY DEF GivesUp
<1>4. proc'[p] = Ended(p) /\ \A q \in Proc \ {p} : proc'[q] = proc[q]
  BY <1>1, <1>3 DEF CrmTypeOK
<1>5. CASE writer # p
  <2>1. UNCHANGED <<db, writer, pending>>
    BY <1>5 DEF GivesUp
  <2>2. /\ proc[p].no <= Ended(p).no /\ Snapshot(db, p, Ended(p))
        /\ \A file : Outside(file, p, Ended(p))
    BY <1>1, <1>2, NotOutside
  <2>. QED BY <1>1, <1>3, <1>5, <2>1, <2>2, QuietTold
<1>6. CASE writer = p
  <2>1. writer' = Nobody /\ pending' = Initialized
    BY <1>6 DEF GivesUp
  <2>2. \A q \in Proc : proc[q].no <= proc'[q].no
    <3>1. \A q \in Proc : proc[q].no \in Nat /\ proc'[q].no = proc[q].no
      BY <1>1, <1>2, <1>4, MaxCommandsAssumption DEF CrmTypeOK, Process
    <3>. QED BY <3>1
  <2>3. PastFile(db', proc')
    BY <1>1, <1>3, <2>2, PastGrows, GrowsRefl DEF TInv
  <2>4. \A q \in Proc : Outside(db', q, proc'[q]) /\ Snapshot(db', q, proc'[q])
    BY <1>2, <1>3, <1>4, NotOutside DEF TInv
  <2>5. \A q \in Proc : ~(writer' \notin {q, Nobody}) /\ writer' # q
    BY <2>1, NobodyAssumption
  <2>. QED BY <1>1, <1>3, <2>1, <2>3, <2>4, <2>5, InitializedTold DEF TInv
<1>. QED BY <1>5, <1>6
-----------------------------------------------------------------------------
(* The timeline and all steps *)

LEMMA InitTold == Init => TInv
<1>. SUFFICES ASSUME Init PROVE TInv
  OBVIOUS
<1>1. db = Initialized /\ pending = Initialized /\ writer = Nobody
      /\ \A p \in Proc : proc[p].step = "idle"
  BY DEF Init, NotRunning
<1>2. \A p \in Proc : Outside(db, p, proc[p]) /\ Snapshot(db, p, proc[p])
  BY <1>1, NotOutside
<1>3. \A p \in Proc : ~(writer \notin {p, Nobody}) /\ writer # p
  BY <1>1, NobodyAssumption
<1>. QED BY <1>1, <1>2, <1>3, InitInv, InitializedTold DEF TInv

LEMMA NextTold ==
  ASSUME TInv, [Next]_vars
  PROVE  TInv'
<1>1. ASSUME NEW p \in Proc, NEW op \in Ops, NEW l \in Lead, Start(p, [op |-> op, lead |-> l])
      PROVE  TInv'
  BY <1>1, StartTold
<1>2. ASSUME NEW p \in Proc, SetActor(p) \/ Read(p) \/ Update(p) \/ ReadActor(p) \/ InsertActivity(p)
      PROVE  TInv'
  BY <1>2, SetActorTold, ReadTold, UpdateTold, ReadActorTold, InsertActivityTold
<1>3. ASSUME NEW p \in Proc, Begin(p) \/ Resolve(p) \/ InsertDeal(p) \/ Link(p) \/ Commit(p)
      PROVE  TInv'
  BY <1>3, BeginTold, ResolveTold, InsertDealTold, LinkTold, CommitTold
<1>4. ASSUME NEW p \in Proc, NEW l \in Lead, ImportRow(p, l)
      PROVE  TInv'
  BY <1>4, ImportRowTold
<1>5. ASSUME NEW p \in Proc, Refused(p) \/ Rejected(p) \/ Crash(p)
      PROVE  TInv'
  BY <1>5, GivesUpTold DEF Refused, Rejected, Crash
<1>6. CASE UNCHANGED vars
  <2>1. IInv'
    BY NextInv DEF TInv
  <2>. QED BY <1>6, <2>1 DEF TInv, vars
<1>. QED BY <1>1, <1>2, <1>3, <1>4, <1>5, <1>6 DEF Next

LEMMA ToldHolds == Spec => []TInv
<1>1. TInv /\ [Next]_vars => TInv'
  BY NextTold
<1>. QED BY InitTold, <1>1, PTL DEF Spec

(* The timeline tells of changes that were made, each at most once; of deals
   and tasks also in their order and under the actor of the audit: the
   Statement of deal_stage and task_status, alive to the end of the command,
   refuses the UPDATE, and the INSERT of activity, once anybody wrote. *)
THEOREM TimelineIsTrueHolds == Spec => []TimelineIsTrue
<1>1. ASSUME TInv PROVE TimelineIsTrue
  <2>. SUFFICES ASSUME NEW x \in Record
                PROVE  LET t == db.timeline[x] IN
                         /\ \A i \in DOMAIN t : Cardinality(Source(x, t[i])) = 1
                         /\ \A i, j \in DOMAIN t : i < j =>
                              \A k \in Source(x, t[i]), m \in Source(x, t[j]) :
                                IF x[1] = "lead" THEN k # m ELSE k < m
                         /\ x[1] # "lead" =>
                              \A i \in DOMAIN t : \A k \in Source(x, t[i]) :
                                db.audit[x][k].actor = t[i].actor
    BY DEF TimelineIsTrue
  <2>. DEFINE a == db.audit[x]
              t == db.timeline[x]
  <2>1. TrueTo(x, a, t) /\ t \in Seq(Entry)
    BY <1>1 DEF TInv, TrueFile, IInv, CrmTypeOK, File
  <2>2. \A e : Source(x, e) = {k \in DOMAIN a : Tells(a[k], e)}
    BY DEF Source, Tells, Same
  <2>3. \A i \in DOMAIN t : \A k, m \in Source(x, t[i]) : k = m
    BY <2>1, <2>2 DEF TrueTo, Once, Tells, Same
  <2>4. ASSUME NEW i \in DOMAIN t PROVE Cardinality(Source(x, t[i])) = 1
    <3>1. PICK k \in DOMAIN a : Tells(a[k], t[i])
      BY <2>1 DEF TrueTo, Sourced
    <3>2. Source(x, t[i]) = {k}
      BY <2>2, <2>3, <3>1
    <3>. QED BY <3>2, FS_Singleton
  <2>5. ASSUME NEW i \in DOMAIN t, NEW j \in DOMAIN t, i < j,
               NEW k \in Source(x, t[i]), NEW m \in Source(x, t[j])
        PROVE  IF x[1] = "lead" THEN k # m ELSE k < m
    <3>1. k \in DOMAIN a /\ m \in DOMAIN a /\ Tells(a[k], t[i]) /\ Tells(a[m], t[j])
      BY <2>2
    <3>2. k # m
      <4>1. i # j
        BY <2>1, <2>5
      <4>. QED BY <2>1, <3>1, <4>1 DEF TrueTo, Once, Tells, Same
    <3>. QED BY <2>1, <2>5, <3>1, <3>2 DEF TrueTo, InOrder
  <2>6. x[1] # "lead" => \A i \in DOMAIN t : \A k \in Source(x, t[i]) : a[k].actor = t[i].actor
    BY <2>1, <2>2 DEF TrueTo, Named
  <2>. QED BY <2>4, <2>5, <2>6
<1>. QED BY ToldHolds, <1>1, PTL
=============================================================================
