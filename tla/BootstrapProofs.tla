-------------------------- MODULE BootstrapProofs --------------------------
(***************************************************************************)
(* Proofs about Bootstrap, for any number of workflows, credentials,       *)
(* changes by the operator and stops: what a run may rely on at each of    *)
(* its steps, and from it type correctness, that success means installed,  *)
(* that the operator's work is kept, and that what is replaced is saved.   *)
(***************************************************************************)
EXTENDS Bootstrap, TLAPS

(* The steps after the guard of either mode, and those of an installation. *)
Past == {"migrate", "credentials", "unpublish", "import", "publish", "verify", "mark"}
Installing == {"credentials", "unpublish", "import", "publish", "verify", "mark"}

(* Nothing changes between the export and the first write. *)
PlanIsFound == pc \in {"ready", "copy", "seal", "guard", "credentials"} => plan = Found

(* No run goes past the guard beside a customized workflow. *)
GuardHolds == pc \in Past => ~SomeCustomized

(* A run that may replace anything has sealed its backup. *)
BackupIsSealed ==
  pc \in {"guard", "credentials", "unpublish", "import"} =>
    \A w \in Workflow : Status(plan, w) \in saved[w]

(* How far the loops have come: what is still to be replaced is as planned,
   and once its import is done no workflow is missing. *)
LoopsAsPlanned ==
  /\ pc = "unpublish" => \A w \in Workflow : installed[w].content = Status(plan, w)
  /\ pc = "import" =>
       \A w \in Workflow : IF w \in todo THEN installed[w].content = Status(plan, w)
                                         ELSE installed[w].content # "missing"
  /\ pc = "publish" => \A w \in Workflow : installed[w].content # "missing"

(* The installing run comes after the migration; its last step after the
   verification of what n8n then holds. *)
MigratedFirst == mode = "install" => migrated
InstallInMode == pc \in Installing => mode = "install"
VerifiedLast == pc = "mark" => Ready(Found) /\ CredentialsReady(Found)

IInv ==
  /\ BootstrapTypeOK
  /\ PlanIsFound /\ GuardHolds /\ BackupIsSealed /\ LoopsAsPlanned
  /\ MigratedFirst /\ InstallInMode /\ VerifiedLast
  /\ SuccessMeansInstalled

-----------------------------------------------------------------------------
(* Types *)

LEMMA RecordTypes ==
  /\ Absent \in Installed
  /\ \A c \in Content : Stock(c) \in Installed
  /\ \A i \in Installed, s \in Publication : [i EXCEPT !.published = s] \in Installed
BY DEF Absent, Stock, Installed, Content, Publication

LEMMA FoundType ==
  ASSUME BootstrapTypeOK
  PROVE  Found \in Export
BY DEF BootstrapTypeOK, Found, Export

LEMMA FoundStatus ==
  \A w \in Workflow : /\ Status(Found, w) = installed[w].content
                      /\ PublishedCurrent(Found, w) <=> installed[w].published = "this"
BY DEF Status, PublishedCurrent, Found

LEMMA PlanType ==
  ASSUME BootstrapTypeOK
  PROVE  /\ \A w \in Workflow : Status(plan, w) \in Content
         /\ \A c \in Credential : plan.credentials[c] \in Secret
BY DEF BootstrapTypeOK, Export, Installed, Status

LEMMA InstalledType ==
  ASSUME BootstrapTypeOK
  PROVE  \A w \in Workflow : /\ installed[w] \in Installed
                             /\ installed[w].content \in Content
                             /\ installed[w].published \in Publication
BY DEF BootstrapTypeOK, Installed

(* What the editor leaves is a workflow, and a deleted one is not active. *)
LEMMA EditedType ==
  ASSUME NEW i \in Installed, NEW j \in Edited(i)
  PROVE  j \in Installed /\ (j.content = "missing" => j.published = "none")
<1>1. i.content # "missing" /\ i.content \in Content
  BY DEF Edited, Installed
<1>2. CASE j \in {Draft(i, "customized"), Draft(i, "stock-v1"), Draft(i, "current")}
  BY <1>2 DEF Draft, Installed, Content, Publication
<1>3. CASE j = Absent
  BY <1>3, RecordTypes DEF Absent
<1>4. CASE j \in {[i EXCEPT !.published = "this"], [i EXCEPT !.published = "none"]}
  BY <1>1, <1>4 DEF Installed, Publication
<1>. QED BY <1>1, <1>2, <1>3, <1>4 DEF Edited

LEMMA InitType == Init => BootstrapTypeOK
<1>. SUFFICES ASSUME Init PROVE BootstrapTypeOK
  OBVIOUS
<1>1. installed \in [Workflow -> Installed]
  BY RecordTypes DEF Init, Content
<1>2. \A w \in Workflow : installed[w].content = "missing" => installed[w].published = "none"
  BY DEF Init, Absent, Stock
<1>3. credentials \in [Credential -> Secret]
  BY DEF Init, Secret
<1>4. plan \in Export
  BY <1>1, <1>3 DEF Init, Found, Export
<1>5. saved \in [Workflow -> SUBSET Content]
  BY DEF Init
<1>6. edits \in 0..MaxEdits /\ stops \in 0..MaxStops
  BY BootstrapAssumption DEF Init
<1>7. /\ marker \in BOOLEAN /\ migrated \in BOOLEAN
      /\ mode \in {"preflight", "install"} /\ pc \in Step /\ todo \subseteq Workflow
  BY DEF Init, Step
<1>. QED BY <1>1, <1>2, <1>3, <1>4, <1>5, <1>6, <1>7 DEF BootstrapTypeOK

(* A step of the script that writes nothing but its place. *)
LEMMA GoingType ==
  ASSUME BootstrapTypeOK, NEW step \in Step, NEW ids \in SUBSET Workflow,
         UNCHANGED <<n8n, marker, migrated, saved, counters>>,
         GoTo(step) \/ Loop(step, ids)
  PROVE  BootstrapTypeOK'
BY DEF GoTo, Loop, BootstrapTypeOK, n8n, counters

LEMMA SucceedType ==
  ASSUME BootstrapTypeOK, Succeed
  PROVE  pc' \in Step /\ UNCHANGED <<mode, plan, todo>>
BY DEF Succeed, Step

LEMMA LoopWorks ==
  ASSUME BootstrapTypeOK
  PROVE  /\ Replaceable(plan) \in SUBSET Workflow
         /\ Importable(plan) \in SUBSET Workflow
         /\ Publishable(plan) \in SUBSET Workflow
BY DEF Replaceable, Importable, Publishable

LEMMA StepNames == \A s \in {"export", "ready", "copy", "seal", "guard", "migrate",
                             "credentials", "unpublish", "import", "publish", "verify",
                             "mark", "up", "down"} : s \in Step
BY DEF Step

LEMMA ScriptType ==
  ASSUME IInv, Script
  PROVE  BootstrapTypeOK'
<1>. USE DEF IInv
<1>1. CASE ExportAndPlan
  BY <1>1, FoundType DEF ExportAndPlan, BootstrapTypeOK, Step, n8n, counters
<1>2. CASE CheckReady
  BY <1>2, SucceedType, GoingType, StepNames
     DEF CheckReady, Backup, GoTo, BootstrapTypeOK, n8n, counters
<1>3. CASE CopyBackup
  BY <1>3, StepNames DEF CopyBackup, GoTo, BootstrapTypeOK, n8n, counters
<1>4. CASE SealBackup
  <2>1. saved' \in [Workflow -> SUBSET Content]
    BY <1>4, PlanType DEF SealBackup, BootstrapTypeOK
  <2>. QED BY <1>4, <2>1, StepNames DEF SealBackup, GoTo, BootstrapTypeOK, n8n, counters
<1>5. CASE Guard
  <2>1. pc' \in Step /\ UNCHANGED <<mode, plan, todo>>
    BY <1>5, SucceedType, StepNames DEF Guard, GoTo
  <2>. QED BY <1>5, <2>1 DEF Guard, BootstrapTypeOK, n8n, counters
<1>6. CASE ImportCredentials
  <2>1. credentials' \in [Credential -> Secret]
    BY <1>6 DEF ImportCredentials, BootstrapTypeOK, Secret
  <2>. QED BY <1>6, <2>1, LoopWorks, StepNames
       DEF ImportCredentials, Loop, BootstrapTypeOK, counters
<1>7. CASE LoopEnds
  <2>1. pc' \in Step /\ todo' \subseteq Workflow /\ UNCHANGED <<mode, plan>>
    BY <1>7, LoopWorks, StepNames DEF LoopEnds, Loop, GoTo, BootstrapTypeOK
  <2>. QED BY <1>7, <2>1 DEF LoopEnds, BootstrapTypeOK, n8n, counters
<1>8. CASE Verify
  BY <1>8, StepNames DEF Verify, GoTo, BootstrapTypeOK, n8n, counters
<1>9. CASE WriteMarker
  BY <1>9, SucceedType DEF WriteMarker, BootstrapTypeOK, n8n, counters
<1>10. ASSUME NEW w \in Workflow, Unpublish(w) \/ Import(w) \/ Publish(w)
       PROVE  BootstrapTypeOK'
  <2>1. \A i \in Installed : installed' = [installed EXCEPT ![w] = i]
                               => installed' \in [Workflow -> Installed]
    BY DEF BootstrapTypeOK
  <2>2. /\ [installed[w] EXCEPT !.published = "none"] \in Installed
        /\ [installed[w] EXCEPT !.published = "this"] \in Installed
        /\ [content |-> "current", published |-> "none"] \in Installed
    BY InstalledType, RecordTypes DEF Installed, Content, Publication
  <2>3. installed' \in [Workflow -> Installed]
    BY <1>10, <2>1, <2>2 DEF Unpublish, Import, Publish
  <2>4. \A v \in Workflow : installed'[v].content = "missing" => installed'[v].published = "none"
    <3>1. CASE Unpublish(w)
      BY <3>1, InstalledType DEF Unpublish, BootstrapTypeOK, Installed
    <3>2. CASE Import(w)
      BY <3>2 DEF Import, BootstrapTypeOK
    <3>3. CASE Publish(w)
      BY <3>3 DEF Publish, At, LoopsAsPlanned, BootstrapTypeOK, Installed
    <3>. QED BY <1>10, <3>1, <3>2, <3>3
  <2>. QED BY <1>10, <2>3, <2>4, StepNames
       DEF Unpublish, Import, Publish, Loop, BootstrapTypeOK, counters
<1>. QED BY <1>1, <1>2, <1>3, <1>4, <1>5, <1>6, <1>7, <1>8, <1>9, <1>10 DEF Script

LEMMA NextType ==
  ASSUME IInv, [Next]_vars
  PROVE  BootstrapTypeOK'
<1>. USE DEF IInv
<1>1. CASE StartUp
  BY <1>1, StepNames DEF StartUp, BootstrapTypeOK, n8n, counters
<1>2. CASE Script
  BY <1>2, ScriptType
<1>3. CASE Migrate
  BY <1>3, StepNames DEF Migrate, BootstrapTypeOK, n8n, counters
<1>4. CASE Stop
  BY <1>4, StepNames, BootstrapAssumption DEF Stop, BootstrapTypeOK, n8n
<1>5. CASE OperatorChanges
  <2>1. /\ installed' \in [Workflow -> Installed]
        /\ \A w \in Workflow : installed'[w].content = "missing" => installed'[w].published = "none"
    <3>1. CASE UNCHANGED installed
      BY <3>1 DEF BootstrapTypeOK
    <3>2. ASSUME NEW w \in Workflow, NEW i \in Edited(installed[w]),
                 installed' = [installed EXCEPT ![w] = i]
          PROVE  <2>1!1 /\ <2>1!2
      BY <3>2, EditedType, InstalledType DEF BootstrapTypeOK
    <3>. QED BY <1>5, <3>1, <3>2 DEF OperatorChanges
  <2>2. credentials' \in [Credential -> Secret]
    BY <1>5 DEF OperatorChanges, BootstrapTypeOK, Secret
  <2>. QED BY <1>5, <2>1, <2>2, StepNames, BootstrapAssumption
       DEF OperatorChanges, BootstrapTypeOK
<1>6. CASE UNCHANGED vars
  BY <1>6 DEF vars, n8n, run, counters, BootstrapTypeOK
<1>. QED BY <1>1, <1>2, <1>3, <1>4, <1>5, <1>6 DEF Next
-----------------------------------------------------------------------------
(* What a run relies on *)

LEMMA InitInv == Init => IInv
<1>. SUFFICES ASSUME Init PROVE IInv
  OBVIOUS
<1>. QED BY InitType DEF Init, IInv, PlanIsFound, GuardHolds, BackupIsSealed, LoopsAsPlanned,
                         MigratedFirst, InstallInMode, VerifiedLast, SuccessMeansInstalled,
                         Past, Installing

(* A plan of the present state finds a customized workflow iff there is one. *)
LEMMA CustomizedFound == Customized(Found) = {} <=> ~SomeCustomized
BY FoundStatus DEF Customized, SomeCustomized

LEMMA ReadyFound ==
  /\ Ready(Found) => ~SomeCustomized
  /\ BootstrapTypeOK /\ Ready(Found) => \A w \in Workflow : installed[w] = Stock("current")
  /\ CredentialsReady(Found) => \A c \in Credential : credentials[c] # "missing"
<1>1. Ready(Found) => ~SomeCustomized
  BY FoundStatus DEF Ready, SomeCustomized
<1>2. ASSUME BootstrapTypeOK, Ready(Found), NEW w \in Workflow
      PROVE  installed[w] = Stock("current")
  BY <1>2, FoundStatus, InstalledType DEF Ready, Stock, Installed
<1>3. CredentialsReady(Found) => \A c \in Credential : credentials[c] # "missing"
  BY DEF CredentialsReady, Found
<1>. QED BY <1>1, <1>2, <1>3

(* Steps that leave n8n, the marker and the schema alone. *)
LEMMA QuietStep ==
  ASSUME UNCHANGED <<installed, credentials>>
  PROVE  Found' = Found /\ (SomeCustomized' <=> SomeCustomized)
BY DEF Found, SomeCustomized

LEMMA PlanStep ==
  ASSUME IInv, [Next]_vars
  PROVE  PlanIsFound'
<1>. USE DEF IInv, PlanIsFound
<1>1. CASE ExportAndPlan
  BY <1>1, QuietStep DEF ExportAndPlan, n8n
<1>2. CASE CheckReady \/ CopyBackup \/ SealBackup \/ Guard
  BY <1>2, QuietStep DEF CheckReady, CopyBackup, SealBackup, Guard, Backup, Succeed, At, GoTo, n8n
<1>3. CASE ImportCredentials \/ LoopEnds \/ Verify \/ WriteMarker
  BY <1>3 DEF ImportCredentials, LoopEnds, Verify, WriteMarker, Succeed, At, GoTo, Loop
<1>4. ASSUME NEW w \in Workflow, Unpublish(w) \/ Import(w) \/ Publish(w)
      PROVE  PlanIsFound'
  BY <1>4 DEF Unpublish, Import, Publish, Loop
<1>5. CASE StartUp \/ Migrate \/ Stop \/ OperatorChanges
  BY <1>5 DEF StartUp, Migrate, Stop, OperatorChanges
<1>6. CASE UNCHANGED vars
  BY <1>6, QuietStep DEF vars, run, n8n
<1>. QED BY <1>1, <1>2, <1>3, <1>4, <1>5, <1>6 DEF Next, Script

LEMMA GuardStep ==
  ASSUME IInv, [Next]_vars
  PROVE  GuardHolds'
<1>. USE DEF IInv, GuardHolds, Past
<1>1. CASE ExportAndPlan \/ CopyBackup \/ SealBackup
  BY <1>1 DEF ExportAndPlan, CopyBackup, SealBackup, GoTo
<1>2. CASE CheckReady
  BY <1>2, QuietStep, ReadyFound DEF CheckReady, Backup, FastPath, Succeed, At, GoTo, n8n, PlanIsFound
<1>3. CASE Guard
  BY <1>3, QuietStep, CustomizedFound DEF Guard, Succeed, At, GoTo, n8n, PlanIsFound
<1>4. CASE ImportCredentials
  BY <1>4 DEF ImportCredentials, At, Loop, SomeCustomized
<1>5. CASE LoopEnds \/ Verify \/ WriteMarker
  BY <1>5, QuietStep DEF LoopEnds, Verify, WriteMarker, Succeed, At, GoTo, Loop, n8n
<1>6. ASSUME NEW w \in Workflow, Unpublish(w) \/ Import(w) \/ Publish(w)
      PROVE  GuardHolds'
  <2>1. ~SomeCustomized
    BY <1>6 DEF Unpublish, Import, Publish, At
  <2>2. \A v \in Workflow : installed'[v].content \in {installed[v].content, "current"}
    BY <1>6, InstalledType DEF Unpublish, Import, Publish, BootstrapTypeOK, Installed
  <2>. QED BY <2>1, <2>2 DEF SomeCustomized
<1>7. CASE StartUp \/ Migrate \/ Stop \/ OperatorChanges
  BY <1>7 DEF StartUp, Migrate, Stop, OperatorChanges
<1>8. CASE UNCHANGED vars
  BY <1>8, QuietStep DEF vars, run, n8n
<1>. QED BY <1>1, <1>2, <1>3, <1>4, <1>5, <1>6, <1>7, <1>8 DEF Next, Script

LEMMA BackupStep ==
  ASSUME IInv, [Next]_vars
  PROVE  BackupIsSealed'
<1>. USE DEF IInv, BackupIsSealed, Status
<1>1. CASE ExportAndPlan \/ CheckReady \/ CopyBackup
  BY <1>1 DEF ExportAndPlan, CheckReady, CopyBackup, Backup, Succeed, GoTo
<1>2. CASE SealBackup
  BY <1>2 DEF SealBackup, GoTo, BootstrapTypeOK
<1>3. CASE Guard \/ ImportCredentials \/ LoopEnds \/ Verify \/ WriteMarker
  BY <1>3 DEF Guard, ImportCredentials, LoopEnds, Verify, WriteMarker, Succeed, At, GoTo, Loop
<1>4. ASSUME NEW w \in Workflow, Unpublish(w) \/ Import(w) \/ Publish(w)
      PROVE  BackupIsSealed'
  BY <1>4 DEF Unpublish, Import, Publish, At, Loop
<1>5. CASE StartUp \/ Migrate \/ Stop \/ OperatorChanges
  BY <1>5 DEF StartUp, Migrate, Stop, OperatorChanges
<1>6. CASE UNCHANGED vars
  BY <1>6 DEF vars, run
<1>. QED BY <1>1, <1>2, <1>3, <1>4, <1>5, <1>6 DEF Next, Script

LEMMA LoopStep ==
  ASSUME IInv, [Next]_vars
  PROVE  LoopsAsPlanned'
<1>. USE DEF IInv, LoopsAsPlanned
<1>1. CASE ExportAndPlan \/ CheckReady \/ CopyBackup \/ SealBackup \/ Guard \/ Verify \/ WriteMarker
  BY <1>1 DEF ExportAndPlan, CheckReady, CopyBackup, SealBackup, Guard, Verify, WriteMarker,
              Backup, Succeed, GoTo
<1>2. CASE ImportCredentials
  BY <1>2, FoundStatus DEF ImportCredentials, At, Loop, PlanIsFound, Status
<1>3. CASE LoopEnds
  <2>1. \A w \in Workflow : w \notin Importable(plan) => Status(plan, w) # "missing"
    BY DEF Importable
  <2>. QED BY <1>3, <2>1 DEF LoopEnds, At, Loop, GoTo, Status, n8n
<1>4. ASSUME NEW w \in Workflow, Unpublish(w) \/ Import(w) \/ Publish(w)
      PROVE  LoopsAsPlanned'
  <2>1. CASE Unpublish(w)
    BY <2>1, InstalledType DEF Unpublish, At, Loop, Status, BootstrapTypeOK, Installed
  <2>2. CASE Import(w)
    BY <2>2 DEF Import, At, Loop, Status, BootstrapTypeOK
  <2>3. CASE Publish(w)
    BY <2>3, InstalledType DEF Publish, At, Loop, BootstrapTypeOK, Installed
  <2>. QED BY <1>4, <2>1, <2>2, <2>3
<1>5. CASE StartUp \/ Migrate \/ Stop \/ OperatorChanges
  BY <1>5 DEF StartUp, Migrate, Stop, OperatorChanges
<1>6. CASE UNCHANGED vars
  BY <1>6 DEF vars, run, n8n, Status
<1>. QED BY <1>1, <1>2, <1>3, <1>4, <1>5, <1>6 DEF Next, Script

LEMMA OrderStep ==
  ASSUME IInv, [Next]_vars
  PROVE  MigratedFirst' /\ InstallInMode'
<1>. USE DEF IInv, MigratedFirst, InstallInMode, Installing
<1>1. CASE ExportAndPlan \/ CheckReady \/ CopyBackup \/ SealBackup \/ Verify \/ WriteMarker
  BY <1>1 DEF ExportAndPlan, CheckReady, CopyBackup, SealBackup, Verify, WriteMarker,
              Backup, Succeed, At, GoTo
<1>2. CASE Guard \/ ImportCredentials \/ LoopEnds
  BY <1>2 DEF Guard, ImportCredentials, LoopEnds, Succeed, At, GoTo, Loop, BootstrapTypeOK
<1>3. ASSUME NEW w \in Workflow, Unpublish(w) \/ Import(w) \/ Publish(w)
      PROVE  MigratedFirst' /\ InstallInMode'
  BY <1>3 DEF Unpublish, Import, Publish, At, Loop
<1>4. CASE StartUp \/ Migrate \/ Stop \/ OperatorChanges
  BY <1>4 DEF StartUp, Migrate, Stop, OperatorChanges
<1>5. CASE UNCHANGED vars
  BY <1>5 DEF vars, run
<1>. QED BY <1>1, <1>2, <1>3, <1>4, <1>5 DEF Next, Script

LEMMA VerifiedStep ==
  ASSUME IInv, [Next]_vars
  PROVE  VerifiedLast'
<1>. USE DEF IInv, VerifiedLast
<1>1. CASE Verify
  <2>1. pc' = "mark" => Verified(Found)
    BY <1>1 DEF Verify, GoTo
  <2>. QED BY <1>1, <2>1, QuietStep DEF Verify, Verified, n8n, Ready, CredentialsReady, Status,
                                        PublishedCurrent
<1>2. CASE ExportAndPlan \/ CheckReady \/ CopyBackup \/ SealBackup \/ Guard \/ WriteMarker
  BY <1>2 DEF ExportAndPlan, CheckReady, CopyBackup, SealBackup, Guard, WriteMarker,
              Backup, Succeed, GoTo
<1>3. CASE ImportCredentials \/ LoopEnds
  BY <1>3 DEF ImportCredentials, LoopEnds, GoTo, Loop
<1>4. ASSUME NEW w \in Workflow, Unpublish(w) \/ Import(w) \/ Publish(w)
      PROVE  VerifiedLast'
  BY <1>4 DEF Unpublish, Import, Publish, Loop
<1>5. CASE StartUp \/ Migrate \/ Stop \/ OperatorChanges
  BY <1>5 DEF StartUp, Migrate, Stop, OperatorChanges
<1>6. CASE UNCHANGED vars
  BY <1>6, QuietStep DEF vars, run, n8n, Ready, CredentialsReady, Status, PublishedCurrent
<1>. QED BY <1>1, <1>2, <1>3, <1>4, <1>5, <1>6 DEF Next, Script

LEMMA SuccessStep ==
  ASSUME IInv, [Next]_vars
  PROVE  SuccessMeansInstalled'
<1>. USE DEF IInv, SuccessMeansInstalled
<1>1. CASE CheckReady
  BY <1>1, ReadyFound DEF CheckReady, Backup, FastPath, Succeed, At, GoTo, n8n, PlanIsFound,
                          MigratedFirst, BootstrapTypeOK, Stock
<1>2. CASE WriteMarker
  BY <1>2, ReadyFound DEF WriteMarker, Succeed, At, n8n, VerifiedLast, InstallInMode, Installing,
                          MigratedFirst, Stock
<1>3. CASE Guard
  BY <1>3 DEF Guard, Succeed, GoTo
<1>4. CASE ExportAndPlan \/ CopyBackup \/ SealBackup \/ ImportCredentials \/ LoopEnds \/ Verify
  BY <1>4 DEF ExportAndPlan, CopyBackup, SealBackup, ImportCredentials, LoopEnds, Verify,
              GoTo, Loop
<1>5. ASSUME NEW w \in Workflow, Unpublish(w) \/ Import(w) \/ Publish(w)
      PROVE  SuccessMeansInstalled'
  BY <1>5 DEF Unpublish, Import, Publish, Loop
<1>6. CASE StartUp \/ Migrate \/ Stop \/ OperatorChanges
  BY <1>6 DEF StartUp, Migrate, Stop, OperatorChanges
<1>7. CASE UNCHANGED vars
  BY <1>7 DEF vars, run, n8n, Stock
<1>. QED BY <1>1, <1>2, <1>3, <1>4, <1>5, <1>6, <1>7 DEF Next, Script

LEMMA NextInv ==
  ASSUME IInv, [Next]_vars
  PROVE  IInv'
BY NextType, PlanStep, GuardStep, BackupStep, LoopStep, OrderStep, VerifiedStep, SuccessStep
   DEF IInv

LEMMA InvHolds == Spec => []IInv
BY InitInv, NextInv, PTL DEF Spec
-----------------------------------------------------------------------------
(* The theorems *)

(* Every reachable state is well typed: in particular a deleted workflow is
   never published (bootstrap-n8n-state.mjs, the lists of a plan). *)
THEOREM BootstrapTypeCorrect == Spec => []BootstrapTypeOK
BY InvHolds, PTL DEF IInv

(* When `up` goes on to start n8n, everything is installed and published: the
   short path of bootstrap-n8n.sh as well as the verified one. *)
THEOREM SuccessMeansInstalledHolds == Spec => []SuccessMeansInstalled
BY InvHolds, PTL DEF IInv

(* No run overwrites a credential, nor writes anything beside a customized
   workflow: assert-upgradable comes before every write. *)
THEOREM OperatorWorkIsKeptHolds == Spec => OperatorWorkIsKept
<1>1. ASSUME IInv, [Next]_vars, Running
      PROVE  /\ \A c \in Credential : credentials[c] # "missing" => credentials'[c] = credentials[c]
             /\ SomeCustomized => UNCHANGED <<n8n, migrated, marker>>
  <2>. USE <1>1 DEF IInv
  <2>1. CASE ImportCredentials
    BY <2>1 DEF ImportCredentials, At, PlanIsFound, Found, GuardHolds, Past, BootstrapTypeOK
  <2>2. CASE LoopEnds \/ Verify \/ ExportAndPlan \/ CheckReady \/ CopyBackup \/ SealBackup \/ Guard
    BY <2>2 DEF LoopEnds, Verify, ExportAndPlan, CheckReady, CopyBackup, SealBackup, Guard, n8n
  <2>3. CASE WriteMarker \/ Migrate
    BY <2>3 DEF WriteMarker, Migrate, At, n8n, GuardHolds, Past
  <2>4. ASSUME NEW w \in Workflow, Unpublish(w) \/ Import(w) \/ Publish(w)
        PROVE  /\ \A c \in Credential : credentials[c] # "missing" => credentials'[c] = credentials[c]
               /\ SomeCustomized => UNCHANGED <<n8n, migrated, marker>>
    BY <2>4 DEF Unpublish, Import, Publish, At, GuardHolds, Past
  <2>5. CASE StartUp \/ Stop \/ OperatorChanges
    BY <2>5 DEF StartUp, Stop, OperatorChanges, Running, n8n
  <2>6. CASE UNCHANGED vars
    BY <2>6 DEF vars, n8n
  <2>. QED BY <2>1, <2>2, <2>3, <2>4, <2>5, <2>6 DEF Next, Script
<1>. QED BY <1>1, InvHolds, PTL DEF Spec, OperatorWorkIsKept

(* A workflow is replaced only as it is in a complete backup (mv after
   verify-backup-manifest in bootstrap-n8n.sh). *)
THEOREM SavedBeforeReplacedHolds == Spec => SavedBeforeReplaced
<1>1. ASSUME IInv, [Next]_vars, Running, NEW v \in Workflow,
             installed[v].content \notin {"missing", installed'[v].content}
      PROVE  installed[v].content \in saved[v]
  <2>. USE <1>1 DEF IInv
  <2>1. CASE UNCHANGED installed
    BY <2>1
  <2>2. ASSUME NEW w \in Workflow, Unpublish(w) \/ Publish(w)
        PROVE  FALSE
    <3>1. installed \in [Workflow -> [content : Content, published : Publication]]
      BY DEF BootstrapTypeOK, Installed
    <3>2. CASE v = w
      <4>1. installed'[v].content = installed[v].content
        BY <2>2, <3>1, <3>2 DEF Unpublish, Publish
      <4>. QED BY <4>1, <1>1
    <3>3. CASE v # w
      <4>1. installed'[v] = installed[v]
        BY <2>2, <3>1, <3>3 DEF Unpublish, Publish
      <4>. QED BY <4>1, <1>1
    <3>. QED BY <3>2, <3>3
  <2>3. ASSUME NEW w \in Workflow, Import(w)
        PROVE  installed[v].content \in saved[v]
    BY <2>3 DEF Import, At, LoopsAsPlanned, BackupIsSealed, BootstrapTypeOK
  <2>4. CASE ~UNCHANGED installed
    <3>1. \E w \in Workflow : Unpublish(w) \/ Import(w) \/ Publish(w)
      BY <2>4 DEF Next, Script, StartUp, Migrate, Stop, OperatorChanges, Running, ExportAndPlan,
                  CheckReady, CopyBackup, SealBackup, Guard, ImportCredentials, LoopEnds, Verify,
                  WriteMarker, n8n, vars
    <3>. QED BY <3>1, <2>2, <2>3
  <2>. QED BY <2>1, <2>4
<1>2. ASSUME IInv, [Next]_vars
      PROVE  [Running => \A w \in Workflow :
                installed[w].content \notin {"missing", installed'[w].content}
                  => installed[w].content \in saved[w]]_vars
  BY <1>1, <1>2
<1>. QED BY <1>2, InvHolds, PTL DEF Spec, SavedBeforeReplaced
=============================================================================
