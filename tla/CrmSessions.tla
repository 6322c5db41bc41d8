---------------------------- MODULE CrmSessions ----------------------------
(***************************************************************************)
(* Command processes of ClientOpsCRM (crm/src/clientops_crm.cpp) over one  *)
(* SQLite file in WAL mode.  A command is a few statements: outside of a   *)
(* transaction each commits by itself, and a SELECT that has returned its  *)
(* row without being finished pins the snapshot it read.  A connection     *)
(* whose snapshot is no longer the newest cannot write; neither can one    *)
(* beside a transaction.  A process may be killed between any two          *)
(* statements.                                                             *)
(*                                                                         *)
(* A record is a lead, the deal its conversion creates, or a task.  Of a   *)
(* deal's stage only the kind is kept: triggers tie it to the status.  The *)
(* activities of a task are kept under the task, not under what it is for. *)
(***************************************************************************)
EXTENDS Naturals, Sequences, FiniteSets

CONSTANTS Proc,         \* processes, each run under an --actor of its own
          Lead,         \* leads of the Relay, named by relay_ticket_id
          Email,
          EmailOf,      \* the normalized email of each lead
          Ops,          \* commands that are given
          MaxCommands,  \* bound on the commands of one process
          Nobody        \* no process; the actor of a file just initialized

ASSUME LeadAssumption == Lead # {}
ASSUME EmailAssumption == EmailOf \in [Lead -> Email]
ASSUME NobodyAssumption == Nobody \notin Proc
ASSUME MaxCommandsAssumption == MaxCommands \in Nat

Closers == {"win", "lost", "done", "cancel"}
AllOps == {"qualify", "disqualify", "move", "convert", "import", "list"} \union Closers
ASSUME OpsAssumption == Ops \subseteq AllOps

Status == {"absent", "new", "qualified", "disqualified", "converted",
           "open", "won", "lost", "done", "cancelled"}
Record == {"lead", "deal", "task"} \X Lead
KindOf(op) == CASE op \in {"win", "lost", "move"} -> "deal"
                [] op \in {"done", "cancel"} -> "task"
                [] OTHER -> "lead"
RecordOf(cmd) == <<KindOf(cmd.op), cmd.lead>>

Command == [op : AllOps, lead : Lead]

(* Bug: qualify matches by id alone. *)
FromAnyQualify(op) == CASE op = "qualify" -> Status \ {"absent"}
                        [] op = "disqualify" -> {"new", "qualified"}
                        [] OTHER -> {"open"}

(* The WHERE clause of each guarded UPDATE, and the status it sets. *)
From(op) == CASE op = "qualify" -> {"new"}
              [] op = "disqualify" -> {"new", "qualified"}
              [] OTHER -> {"open"}
To(op) == CASE op = "qualify" -> "qualified"
            [] op = "disqualify" -> "disqualified"
            [] op = "win" -> "won"
            [] op = "lost" -> "lost"
            [] op = "done" -> "done"
            [] op = "cancel" -> "cancelled"
            [] OTHER -> "open"

ReadsFirst(op) == op \in {"move"} \union Closers
Guarded(op) == ReadsFirst(op) \/ op \in {"qualify", "disqualify"}
(* Bugs: a conversion, or an import, without Transaction tx(db). *)
TransactionalImportOnly(op) == op = "import"
TransactionalConvertOnly(op) == op = "convert"
Transactional(op) == op \in {"convert", "import"}

(* A row of audit_log or activities; by and no name the command (history). *)
Entry == [op : AllOps, actor : Proc \union {Nobody}, by : Proc, no : 1 .. MaxCommands]
File == [actor : Proc \union {Nobody}, status : [Record -> Status],
         contacts : SUBSET Email,
         audit : [Record -> Seq(Entry)], timeline : [Record -> Seq(Entry)]]

VARIABLES db,       \* the file as last committed
          writer,   \* the process inside a transaction, or Nobody
          pending,  \* the file as that process sees it
          proc      \* each process: its step, its command, its snapshot

vars == <<db, writer, pending, proc>>

InTransaction == {"resolve", "deal", "link", "rows", "commit"}
Step == {"idle", "actor", "read", "update", "log", "insert", "begin"} \union InTransaction
Process == [step : Step, cmd : Command, no : 0 .. MaxCommands,
            snapshot : {"none", "newest", "old"},
            seen : Proc \union {Nobody}, rows : SUBSET Lead]

(* A file in use: no leads yet, an open task. *)
Initialized == [actor |-> Nobody,
                status |-> [x \in Record |-> IF x[1] = "task" THEN "open" ELSE "absent"],
                contacts |-> {},
                audit |-> [x \in Record |-> <<>>], timeline |-> [x \in Record |-> <<>>]]

NotRunning(n) == [step |-> "idle", cmd |-> [op |-> "list", lead |-> CHOOSE l \in Lead : TRUE],
                  no |-> n, snapshot |-> "none", seen |-> Nobody, rows |-> {}]

Init == /\ db = Initialized /\ pending = Initialized
        /\ writer = Nobody
        /\ proc = [p \in Proc |-> NotRunning(0)]
-----------------------------------------------------------------------------
(* SQLite *)

Seen(p) == IF writer = p THEN pending ELSE db

Locked(p) == writer \notin {p, Nobody} \/ proc[p].snapshot = "old"

(* What a commit of `file` does to the other connections. *)
Outdated(q, file) ==
  IF file # db /\ proc[q].snapshot = "newest" THEN [proc[q] EXCEPT !.snapshot = "old"] ELSE proc[q]

(* p's statement leaves `file`; p goes on as `next`. *)
Write(p, file, next) ==
  /\ ~Locked(p)
  /\ UNCHANGED writer
  /\ IF writer = p
     THEN /\ pending' = file /\ UNCHANGED db
          /\ proc' = [proc EXCEPT ![p] = next]
     ELSE /\ db' = file /\ UNCHANGED pending
          /\ proc' = [q \in Proc |-> IF q = p THEN next ELSE Outdated(q, file)]

(* The rows p writes: the audit triggers name the actor of crm_context. *)
EntryOf(p, op, actor) == [op |-> op, actor |-> actor, by |-> p, no |-> proc[p].no]
Changed(file, p, x, op, status) ==
  [file EXCEPT !.status[x] = status, !.audit[x] = Append(@, EntryOf(p, op, file.actor))]
Told(file, p, x, op, actor) ==
  [file EXCEPT !.timeline[x] = Append(@, EntryOf(p, op, actor))]

At(p, step) == proc[p].step = step
GoesTo(p, step) == [proc[p] EXCEPT !.step = step]
Ended(p) == NotRunning(proc[p].no)
-----------------------------------------------------------------------------
(* One command *)

Start(p, cmd) ==
  /\ At(p, "idle")
  /\ proc[p].no < MaxCommands
  /\ proc' = [proc EXCEPT ![p] = [step |-> "actor", cmd |-> cmd, no |-> proc[p].no + 1,
                                  snapshot |-> "none", seen |-> Nobody,
                                  rows |-> IF cmd.op = "import" THEN Lead ELSE {}]]
  /\ UNCHANGED <<db, writer, pending>>

FirstStep(op) ==
  IF Transactional(op) THEN "begin"
  ELSE CASE op = "convert" -> "resolve"
         [] op = "import" -> "rows"
         [] ReadsFirst(op) -> "read"
         [] op \in {"qualify", "disqualify"} -> "update"
         [] OTHER -> "idle"

(* set_actor, before any command: one row for all processes. *)
SetActor(p) ==
  /\ At(p, "actor")
  /\ LET first == FirstStep(proc[p].cmd.op)
     IN  Write(p, [db EXCEPT !.actor = p], IF first = "idle" THEN Ended(p) ELSE GoesTo(p, first))

(* Bug: a lookup that finishes its statement before it returns the row. *)
PinnedByNone == "none"

(* The SELECT of deal move, win, lost and of task done, cancel: its Statement
   lives on to the end of the command. *)
Pinned == "newest"

Read(p) ==
  /\ At(p, "read")
  /\ db.status[RecordOf(proc[p].cmd)] \in From(proc[p].cmd.op)
  /\ proc' = [proc EXCEPT ![p] = [@ EXCEPT !.step = "update", !.snapshot = Pinned]]
  /\ UNCHANGED <<db, writer, pending>>

(* The guarded UPDATE.  Only lead commands look at the number of rows. *)
Update(p) ==
  /\ At(p, "update")
  /\ LET op == proc[p].cmd.op
         x == RecordOf(proc[p].cmd)
         hit == db.status[x] \in From(op)
     IN  Write(p, IF hit THEN Changed(db, p, x, op, To(op)) ELSE db,
               IF hit \/ ReadsFirst(op) THEN GoesTo(p, "log") ELSE Ended(p))

(* activity: reads the actor, then inserts. *)
ReadActor(p) ==
  /\ At(p, "log")
  /\ proc[p].snapshot # "old"
  /\ proc' = [proc EXCEPT ![p] = [@ EXCEPT !.step = "insert", !.seen = db.actor]]
  /\ UNCHANGED <<db, writer, pending>>

InsertActivity(p) ==
  /\ At(p, "insert")
  /\ Write(p, Told(db, p, RecordOf(proc[p].cmd), proc[p].cmd.op, proc[p].seen), Ended(p))

(* BEGIN IMMEDIATE *)
Begin(p) ==
  /\ At(p, "begin")
  /\ ~Locked(p)
  /\ writer' = p /\ pending' = db
  /\ proc' = [proc EXCEPT ![p].step = IF proc[p].cmd.op = "convert" THEN "resolve" ELSE "rows"]
  /\ UNCHANGED db

(* lead convert: the lead's status, then its contact, found or created (the
   account goes the same way), then the deal, then the link to it. *)
Convertible(p) == Seen(p).status[<<"lead", proc[p].cmd.lead>>] \in {"new", "qualified"}

Resolve(p) ==
  /\ At(p, "resolve") /\ Convertible(p)
  /\ Write(p, [Seen(p) EXCEPT !.contacts = @ \union {EmailOf[proc[p].cmd.lead]}], GoesTo(p, "deal"))

DealTaken(p) == Seen(p).status[<<"deal", proc[p].cmd.lead>>] # "absent"

InsertDeal(p) ==
  /\ At(p, "deal") /\ ~DealTaken(p)
  /\ Write(p, Changed(Seen(p), p, <<"deal", proc[p].cmd.lead>>, "convert", "open"), GoesTo(p, "link"))

Link(p) ==
  /\ At(p, "link")
  /\ LET lead == <<"lead", proc[p].cmd.lead>>
         deal == <<"deal", proc[p].cmd.lead>>
         linked == Changed(Seen(p), p, lead, "convert", "converted")
         told == Told(linked, p, lead, "convert", linked.actor)
     IN  Write(p, Told(told, p, deal, "convert", linked.actor), GoesTo(p, "commit"))

(* One row of lead import-csv --skip-existing: the bridge sends every lead of
   the Relay, and those already here are passed over (without the option the
   unique index rejects them, and with them the import). *)
Known(file, l) == file.status[<<"lead", l>>] # "absent"

ImportRow(p, l) ==
  /\ At(p, "rows") /\ l \in proc[p].rows
  /\ LET x == <<"lead", l>>
         file == Seen(p)
         inserted == Changed(file, p, x, "import", "new")
         rest == proc[p].rows \ {l}
     IN  Write(p, IF Known(file, l) THEN file ELSE Told(inserted, p, x, "import", inserted.actor),
               [proc[p] EXCEPT !.rows = rest, !.step = IF rest = {} THEN "commit" ELSE "rows"])

Commit(p) ==
  /\ At(p, "commit")
  /\ LET file == Seen(p)
     IN  /\ db' = file
         /\ proc' = [q \in Proc |-> IF q = p THEN Ended(p) ELSE Outdated(q, file)]
  /\ writer' = IF writer = p THEN Nobody ELSE writer
  /\ pending' = IF writer = p THEN Initialized ELSE pending
-----------------------------------------------------------------------------
(* A process that ends early: its transaction is rolled back, its statements
   that committed stay. *)
GivesUp(p) ==
  /\ proc' = [proc EXCEPT ![p] = Ended(p)]
  /\ writer' = IF writer = p THEN Nobody ELSE writer
  /\ pending' = IF writer = p THEN Initialized ELSE pending
  /\ UNCHANGED db

(* "database is locked": at once if a snapshot is pinned, else after the busy
   timeout.  What activity reads from an old snapshot is never written. *)
Refused(p) ==
  /\ \/ proc[p].step \in {"actor", "update", "insert", "begin"} /\ Locked(p)
     \/ At(p, "log") /\ proc[p].snapshot = "old"
  /\ GivesUp(p)

(* A record in another status than the command needs, or an invalid option
   or row of input met inside the transaction. *)
Rejected(p) ==
  /\ \/ At(p, "read") /\ db.status[RecordOf(proc[p].cmd)] \notin From(proc[p].cmd.op)
     \/ At(p, "resolve") /\ ~Convertible(p)
     \/ proc[p].step \in {"deal", "rows"}
  /\ GivesUp(p)

Crash(p) == ~At(p, "idle") /\ GivesUp(p)

Next ==
  \E p \in Proc :
    \/ \E op \in Ops, l \in Lead : Start(p, [op |-> op, lead |-> l])
    \/ SetActor(p) \/ Read(p) \/ Update(p) \/ ReadActor(p) \/ InsertActivity(p)
    \/ Begin(p) \/ Resolve(p) \/ InsertDeal(p) \/ Link(p)
    \/ \E l \in Lead : ImportRow(p, l)
    \/ Commit(p)
    \/ Refused(p) \/ Rejected(p) \/ Crash(p)

Spec == Init /\ [][Next]_vars
-----------------------------------------------------------------------------
(* Properties *)

(* Types; whoever is past BEGIN holds the write lock, and only they. *)
CrmTypeOK ==
  /\ db \in File /\ pending \in File
  /\ proc \in [Proc -> Process]
  /\ \A p \in Proc : proc[p].step \in InTransaction <=> writer = p
  /\ writer \in Proc \union {Nobody}

(* The audit rows that a timeline event tells of. *)
Source(x, e) == {k \in DOMAIN db.audit[x] : /\ db.audit[x][k].by = e.by
                                            /\ db.audit[x][k].no = e.no
                                            /\ db.audit[x][k].op = e.op}

(* The timeline tells of changes that were made, each at most once; of deals
   and tasks also in the order in which they were made and under the actor
   the audit names, although nobody counts the rows that the UPDATE changed. *)
TimelineIsTrue ==
  \A x \in Record : LET t == db.timeline[x] IN
    /\ \A i \in DOMAIN t : Cardinality(Source(x, t[i])) = 1
    /\ \A i, j \in DOMAIN t : i < j =>
         \A k \in Source(x, t[i]), m \in Source(x, t[j]) : IF x[1] = "lead" THEN k # m ELSE k < m
    /\ x[1] # "lead" =>
         \A i \in DOMAIN t : \A k \in Source(x, t[i]) : db.audit[x][k].actor = t[i].actor

(* A conversion or an import is whole or leaves nothing, wherever its process
   is killed or refused: the lead is converted, its deal exists and its contact
   exists, or none of these; all leads of the export are here, or none. *)
TransactionsAreWhole ==
  /\ \A l \in Lead : db.status[<<"lead", l>>] = "converted" <=> db.status[<<"deal", l>>] # "absent"
  /\ db.contacts = {EmailOf[l] : l \in {m \in Lead : db.status[<<"lead", m>>] = "converted"}}
  /\ \A l, m \in Lead : db.status[<<"lead", l>>] = "absent" <=> db.status[<<"lead", m>>] = "absent"

(* Nothing closed is reopened and no step of a life is skipped, whichever
   commands race. *)
Legal == {<<"absent", "new">>, <<"new", "qualified">>, <<"new", "disqualified">>,
          <<"new", "converted">>, <<"qualified", "disqualified">>, <<"qualified", "converted">>,
          <<"absent", "open">>, <<"open", "won">>, <<"open", "lost">>,
          <<"open", "done">>, <<"open", "cancelled">>}
ClosedStaysClosed ==
  [][\A x \in Record : db'.status[x] # db.status[x] => <<db.status[x], db'.status[x]>> \in Legal]_db

(* docs/crm/03_CLI_API_REFERENCE.md:9: "`--actor` is written into audit
   provenance for mutations." *)
AuditNamesItsActor ==
  \A x \in Record : \A k \in DOMAIN db.audit[x] : db.audit[x][k].actor = db.audit[x][k].by
=============================================================================
