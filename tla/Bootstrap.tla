------------------------------ MODULE Bootstrap ------------------------------
(***************************************************************************)
(* `clientops up`: the upgrade of n8n's managed workflows and credentials  *)
(* (bootstrap-n8n.sh with bootstrap-n8n-state.mjs), run twice by compose:  *)
(* once as a preflight, then, after the database migration, to install.    *)
(* Every n8n command and every file operation may fail or be the last one  *)
(* before the container stops; the operator starts again, and between two  *)
(* attempts may edit, restore, publish, unpublish or delete workflows and  *)
(* credentials.  The upgrade starts from a stopped stack, as the runbook   *)
(* asks, and compose starts n8n only after n8n-init has succeeded: nobody  *)
(* edits during a run.                                                     *)
(*                                                                         *)
(* A workflow's content is its class of equal semantic fingerprints:       *)
(* node positions, order and the injected timezone do not count.  Its      *)
(* publication says which version is active: none, this one, or an older.  *)
(***************************************************************************)
EXTENDS Integers, FiniteSets

CONSTANTS
  Workflow,     \* the fixed workflow ids: seven in the code
  Credential,   \* the fixed credential ids: four
  MaxEdits,     \* bound on the operator's changes
  MaxStops      \* bound on failures and stops of a run

ASSUME BootstrapAssumption ==
  /\ IsFiniteSet(Workflow) /\ Workflow # {}
  /\ MaxEdits \in Nat /\ MaxStops \in Nat

VARIABLES
  installed,    \* n8n's workflows
  credentials,  \* n8n's credentials
  marker,       \* the marker file exists
  migrated,     \* the database has the current schema
  mode, pc,     \* the run under way and its next step
  plan,         \* plan.json: what its export found
  todo,         \* ids the present loop has still to handle
  saved,        \* history: contents of each workflow in complete backups
  edits, stops  \* history: for the bounds

n8n == <<installed, credentials>>
run == <<mode, pc, plan, todo>>
counters == <<edits, stops>>
vars == <<n8n, marker, migrated, run, saved, counters>>

Content == {"missing", "stock-v1", "current", "customized"}
Publication == {"none", "older", "this"}
Installed == [content : Content, published : Publication]
Secret == {"missing", "own", "edited", "rendered"}
Step == {"down", "export", "ready", "copy", "seal", "guard", "migrate",
         "credentials", "unpublish", "import", "publish", "verify", "mark", "up"}
Export == [workflows : [Workflow -> Installed], credentials : [Credential -> Secret]]

BootstrapTypeOK ==
  /\ installed \in [Workflow -> Installed]
  /\ \A w \in Workflow : installed[w].content = "missing" => installed[w].published = "none"
  /\ credentials \in [Credential -> Secret]
  /\ marker \in BOOLEAN /\ migrated \in BOOLEAN
  /\ mode \in {"preflight", "install"} /\ pc \in Step
  /\ plan \in Export
  /\ todo \subseteq Workflow
  /\ saved \in [Workflow -> SUBSET Content]
  /\ edits \in 0..MaxEdits /\ stops \in 0..MaxStops

Absent == [content |-> "missing", published |-> "none"]
Stock(c) == [content |-> c, published |-> "this"]
Found == [workflows |-> installed, credentials |-> credentials]

(* A new installation, or one of v1.0 that its operator may have changed. *)
Init ==
  /\ \/ /\ installed = [w \in Workflow |-> Absent]
        /\ credentials = [c \in Credential |-> "missing"]
     \/ /\ installed \in [Workflow -> {Stock("stock-v1"), Stock("customized")}]
        /\ credentials = [c \in Credential |-> "own"]
  /\ marker = FALSE /\ migrated = FALSE
  /\ mode = "preflight" /\ pc = "down"
  /\ plan = Found /\ todo = {}
  /\ saved = [w \in Workflow |-> {}]
  /\ edits = 0 /\ stops = 0

Running == pc \notin {"down", "up"}
-----------------------------------------------------------------------------
(* What the helper reads from a plan *)

Status(e, w) == e.workflows[w].content

(* Bug: which version is active is not compared. *)
PublishedSomehow(e, w) == e.workflows[w].published # "none"

PublishedCurrent(e, w) == e.workflows[w].published = "this"

(* Bug: only an active customization is respected. *)
CustomizedAndActive(e) == {w \in Workflow : Status(e, w) = "customized" /\ PublishedCurrent(e, w)}

Customized(e) == {w \in Workflow : Status(e, w) = "customized"}
(* Bug: a deleted workflow is taken for a deliberate change. *)
ImportableStock(e) == {w \in Workflow : Status(e, w) = "stock-v1"}

Importable(e) == {w \in Workflow : Status(e, w) \in {"missing", "stock-v1"}}
Replaceable(e) == {w \in Workflow : Status(e, w) = "stock-v1"}
(* Bug: only what was imported in this run is published. *)
PublishableImports(e) == Importable(e)

Publishable(e) ==
  {w \in Workflow : /\ Status(e, w) # "customized"
                    /\ w \in Importable(e) \/ ~PublishedCurrent(e, w)}
Ready(e) == \A w \in Workflow : Status(e, w) = "current" /\ PublishedCurrent(e, w)
CredentialsReady(e) == \A c \in Credential : e.credentials[c] # "missing"
Preserved(before, after) ==
  \A c \in Credential :
    before.credentials[c] # "missing" => after.credentials[c] = before.credentials[c]
-----------------------------------------------------------------------------
(* One run of the script *)

At(step) == pc = step
GoTo(step) == pc' = step /\ UNCHANGED <<mode, plan, todo>>
Loop(step, ids) == pc' = step /\ todo' = ids /\ UNCHANGED <<mode, plan>>

ExportAndPlan ==
  /\ At("export")
  /\ plan' = Found /\ pc' = "ready"
  /\ UNCHANGED <<n8n, marker, migrated, mode, todo, saved, counters>>

(* The last step of a run: compose goes on to the next service. *)
Succeed ==
  /\ pc' = IF mode = "preflight" THEN "migrate" ELSE "up"
  /\ UNCHANGED <<mode, plan, todo>>

FastPath == marker /\ Ready(plan) /\ CredentialsReady(plan)

(* Bug: an installation that was finished once is not backed up again. *)
BackupUnlessMarked == IF marker THEN GoTo("guard") ELSE GoTo("copy")

Backup == GoTo("copy")

CheckReady ==
  /\ At("ready")
  /\ IF FastPath THEN Succeed ELSE Backup
  /\ UNCHANGED <<n8n, marker, migrated, saved, counters>>

(* The copy and its manifest are made in a directory of another name. *)
CopyBackup ==
  /\ At("copy") /\ GoTo("seal")
  /\ UNCHANGED <<n8n, marker, migrated, saved, counters>>

SealBackup ==
  /\ At("seal") /\ GoTo("guard")
  /\ saved' = [w \in Workflow |-> saved[w] \union {Status(plan, w)}]
  /\ UNCHANGED <<n8n, marker, migrated, counters>>

Guard ==
  /\ At("guard")
  /\ IF Customized(plan) # {} THEN GoTo("down")
     ELSE IF mode = "preflight" THEN Succeed ELSE GoTo("credentials")
  /\ UNCHANGED <<n8n, marker, migrated, saved, counters>>

ImportCredentials ==
  /\ At("credentials") /\ Loop("unpublish", Replaceable(plan))
  /\ credentials' = [c \in Credential |->
       IF plan.credentials[c] = "missing" THEN "rendered" ELSE credentials[c]]
  /\ UNCHANGED <<installed, marker, migrated, saved, counters>>

(* One command per id, in the order of the plan; the model allows any. *)
Unpublish(w) ==
  /\ At("unpublish") /\ w \in todo
  /\ installed' = [installed EXCEPT ![w].published = "none"]
  /\ Loop("unpublish", todo \ {w})
  /\ UNCHANGED <<credentials, marker, migrated, saved, counters>>

Import(w) ==
  /\ At("import") /\ w \in todo
  /\ installed' = [installed EXCEPT ![w] = [content |-> "current", published |-> "none"]]
  /\ Loop("import", todo \ {w})
  /\ UNCHANGED <<credentials, marker, migrated, saved, counters>>

Publish(w) ==
  /\ At("publish") /\ w \in todo
  /\ installed' = [installed EXCEPT ![w].published = "this"]
  /\ Loop("publish", todo \ {w})
  /\ UNCHANGED <<credentials, marker, migrated, saved, counters>>

LoopEnds ==
  /\ todo = {}
  /\ \/ At("unpublish") /\ Loop("import", Importable(plan))
     \/ At("import") /\ Loop("publish", Publishable(plan))
     \/ At("publish") /\ GoTo("verify")
  /\ UNCHANGED <<n8n, marker, migrated, saved, counters>>

Verified(e) == Ready(e) /\ CredentialsReady(e) /\ Preserved(plan, e)

Verify ==
  /\ At("verify") /\ GoTo(IF Verified(Found) THEN "mark" ELSE "down")
  /\ UNCHANGED <<n8n, marker, migrated, saved, counters>>

WriteMarker ==
  /\ At("mark") /\ marker' = TRUE /\ Succeed
  /\ UNCHANGED <<n8n, migrated, saved, counters>>
-----------------------------------------------------------------------------
(* compose, the operator and what stops a run *)

StartUp ==
  /\ pc \in {"down", "up"}
  /\ pc' = "export" /\ mode' = "preflight"
  /\ UNCHANGED <<n8n, marker, migrated, plan, todo, saved, counters>>

(* database-migrate: a transaction that is a no-op the second time. *)
Migrate ==
  /\ At("migrate")
  /\ migrated' = TRUE /\ pc' = "export" /\ mode' = "install"
  /\ UNCHANGED <<n8n, marker, plan, todo, saved, counters>>

(* set -e: any failing command ends the run, as does a stop of the host. *)
Stop ==
  /\ Running /\ stops < MaxStops
  /\ stops' = stops + 1
  /\ pc' = "down" /\ todo' = {}
  /\ UNCHANGED <<n8n, marker, migrated, mode, plan, saved, edits>>

(* Saving leaves the older version active until the new one is published, also
   when the change is none of content: a node moved, the shipped one restored. *)
Draft(i, c) ==
  [content |-> c, published |-> IF i.published = "none" THEN "none" ELSE "older"]

Edited(i) ==
  IF i.content = "missing" THEN {}
  ELSE {Draft(i, "customized"), Draft(i, "stock-v1"), Draft(i, "current"), Absent,
        [i EXCEPT !.published = "this"], [i EXCEPT !.published = "none"]} \ {i}

OperatorChanges ==
  /\ ~Running /\ edits < MaxEdits /\ edits' = edits + 1
  /\ \/ \E w \in Workflow : \E i \in Edited(installed[w]) :
          installed' = [installed EXCEPT ![w] = i] /\ UNCHANGED credentials
     \/ \E c \in Credential : \E s \in {"missing", "edited"} \ {credentials[c]} :
          /\ credentials[c] # "missing"
          /\ credentials' = [credentials EXCEPT ![c] = s] /\ UNCHANGED installed
  /\ pc' = "down"
  /\ UNCHANGED <<marker, migrated, mode, plan, todo, saved, stops>>

Script ==
  \/ ExportAndPlan \/ CheckReady \/ CopyBackup \/ SealBackup \/ Guard
  \/ ImportCredentials \/ LoopEnds \/ Verify \/ WriteMarker
  \/ \E w \in Workflow : Unpublish(w) \/ Import(w) \/ Publish(w)

Next == StartUp \/ Script \/ Migrate \/ Stop \/ OperatorChanges

Spec == Init /\ [][Next]_vars

(* The operator runs it again until it succeeds; what runs goes on. *)
Fairness == WF_vars(StartUp) /\ WF_vars(Script) /\ WF_vars(Migrate)

FairSpec == Spec /\ Fairness
-----------------------------------------------------------------------------
(* Properties *)

SomeCustomized == \E w \in Workflow : installed[w].content = "customized"

(* No run replaces or changes an existing credential; and while a workflow
   under a fixed id is customized, no run changes anything in n8n nor lets the
   database be migrated, at whatever step an earlier run was stopped. *)
OperatorWorkIsKept ==
  [][Running =>
       /\ \A c \in Credential : credentials[c] # "missing" => credentials'[c] = credentials[c]
       /\ SomeCustomized => UNCHANGED <<n8n, migrated, marker>>]_vars

(* A workflow that is replaced is in a complete backup as it was. *)
SavedBeforeReplaced ==
  [][Running => \A w \in Workflow :
       installed[w].content \notin {"missing", installed'[w].content}
         => installed[w].content \in saved[w]]_vars

(* When `up` goes on to start n8n, every managed workflow is the current one
   and published, every credential is there and the database is migrated,
   whatever stopped runs and edits came before, by the short path too. *)
SuccessMeansInstalled ==
  pc = "up" => /\ migrated /\ marker
               /\ \A w \in Workflow : installed[w] = Stock("current")
               /\ \A c \in Credential : credentials[c] # "missing"

(* Once no fixed id is customized, starting again always ends in success: no
   stop leaves a state the next run does not repair. *)
UpgradeCompletes == <>[](~SomeCustomized) => []<>(pc = "up")
=============================================================================
