------------------------------ MODULE AppBackup ------------------------------
(***************************************************************************)
(* Application backups of one installation: createApplicationBackup and    *)
(* the checks a restore makes before it stops anything                     *)
(* (application_backup.go), with the archive format of internal/appbackup. *)
(* What a restore does after its checks is module AppRestore; here it is   *)
(* one step.                                                               *)
(*                                                                         *)
(* Component c owns slot c.  Components write in turn: component c + 1     *)
(* writes what refers to the last write of component c, so a copy whose    *)
(* slots were not read at one instant can be told from one that was.       *)
(* Hashes are collision free: a file's hash is its contents.               *)
(***************************************************************************)
EXTENDS Naturals, FiniteSets, FiniteSetsExt

CONSTANTS
    Components,     \* number of components, in start order
    Ephemeral,      \* slots the catalog excludes from backups
    Strategies,     \* backup strategies the application may declare
    MaxBackups,     \* bound: backup operations
    MaxRestores,    \* bound: restores that are accepted
    MaxWrites,      \* bound: version of a slot
    MaxChanges,     \* bound: changes of installation or catalog, damaged archives
    MaxFaults,      \* bound: calls that fail
    MaxCrashes      \* bound: helper crashes

C == 1..Components
Backups == 1..MaxBackups
Included == C \ Ephemeral

ASSUME AppBackupBounds ==
    /\ Components \in Nat \ {0} /\ Ephemeral \subseteq C
    /\ Strategies \subseteq {"metadata-only", "cold-filesystem", "cold-sqlite-filesystem"}
    /\ MaxBackups \in Nat \ {0} /\ MaxRestores \in Nat /\ MaxWrites \in Nat
    /\ MaxChanges \in Nat /\ MaxFaults \in Nat
    /\ MaxCrashes \in Nat

VARIABLES
    strategy,   \* backup strategy of the application
    data,       \* slot -> version of what it holds
    up,         \* components that run
    installed,  \* what the helper's store says is installed
    catalog,    \* what the embedded catalog expects of the installation
    archive,    \* backup -> the published file
    partial,    \* backups whose .partial file exists
    work,       \* backups whose workspace exists
    row,        \* backup -> row of application_backups
    receipt,    \* backup -> state in helper_operations
    cut,        \* ghost: backup -> disk and installation when it had stopped all
    stuck,      \* ghost: backups one of whose files could not be removed
    pc, op, plan, running, stage, slot,
    answer,     \* what the handler returns
    helper,
    restores, changes, faults, crashes

vars == <<strategy, data, up, installed, catalog, archive, partial, work, stuck, row, receipt,
          cut, pc, op, plan, running, stage, slot, answer, helper,
          restores, changes, faults, crashes>>
app == <<strategy, installed, catalog>>
files == <<archive, partial, work, stuck>>
frame == <<op, plan, running, helper>>
environment == <<restores, changes>>
bounds == <<restores, changes, faults, crashes>>

Versions == 0..MaxWrites
Bad == MaxWrites + 1        \* contents that are not what was written
Unread == MaxWrites + 2     \* a slot that was not copied
Slots == [C -> Versions \cup {Bad, Unread}]
NoSlots == [c \in C |-> Unread]

\* The facts a manifest records of an installation and a restore compares:
\* generation, component images, storage policy, trusted roots, secret names.
Identity == [generation : 1..(MaxChanges + 1), image : 0..1, storage : 0..1,
             roots : 0..1, secrets : 0..1]
First == [generation |-> 1, image |-> 0, storage |-> 0, roots |-> 0, secrets |-> 0]

NoFile == [exists |-> FALSE, of |-> First, data |-> NoSlots, index |-> NoSlots]
Files == [exists : BOOLEAN, of : Identity, data : Slots, index : Slots]
NoRow == [exists |-> FALSE, generation |-> 1, hash |-> NoFile]
NoCut == [of |-> First, data |-> NoSlots]

\* Shapes of the store, the files and the position of the handler.
TypeOK ==
    /\ strategy \in Strategies /\ data \in [C -> Versions] /\ up \subseteq C
    /\ installed \in Identity /\ catalog \in [image : 0..1, storage : 0..1, secrets : 0..1]
    /\ archive \in [Backups -> Files]
    /\ partial \subseteq Backups /\ work \subseteq Backups /\ stuck \subseteq Backups
    /\ row \in [Backups -> [exists : BOOLEAN, generation : 1..(MaxChanges + 1), hash : Files]]
    /\ receipt \in [Backups -> {"none", "running", "succeeded", "failed", "action_required"}]
    /\ cut \in [Backups -> [of : Identity, data : Slots]]
    /\ pc \in {"idle", "unsaved", "stop", "copy", "resume", "verify", "write", "publish",
               "sync", "hash", "discard", "clean", "reply"}
    /\ op \in 0..MaxBackups /\ plan \in Identity /\ running \subseteq C
    /\ stage \in Slots /\ slot \in 1..(Components + 1) /\ answer \in {"ok", "error"}
    /\ helper \in {"up", "down"}
    /\ restores \in 0..MaxRestores /\ changes \in 0..MaxChanges
    /\ faults \in 0..MaxFaults /\ crashes \in 0..MaxCrashes

Init ==
    /\ strategy \in Strategies /\ data = [c \in C |-> 0] /\ up \in {{}, {1}, C}
    /\ installed = First /\ catalog = [image |-> 0, storage |-> 0, secrets |-> 0]
    /\ archive = [b \in Backups |-> NoFile] /\ partial = {} /\ work = {} /\ stuck = {}
    /\ row = [b \in Backups |-> NoRow] /\ receipt = [b \in Backups |-> "none"]
    /\ cut = [b \in Backups |-> NoCut]
    /\ pc = "idle" /\ op = 0 /\ plan = First /\ running = {} /\ stage = NoSlots
    /\ slot = 1 /\ answer = "ok" /\ helper = "up"
    /\ restores = 0 /\ changes = 0 /\ faults = 0 /\ crashes = 0

Fault == faults < MaxFaults /\ faults' = faults + 1 /\ UNCHANGED <<crashes, environment>>

-----------------------------------------------------------------------------
(* The world around the helper.                                            *)

\* A running component writes its slot; it refers to what its predecessor wrote.
Write(c) ==
    /\ c \in up /\ data[c] < MaxWrites
    /\ IF c = 1 THEN data[c] = data[Components] ELSE data[c] < data[c - 1]
    /\ data' = [data EXCEPT ![c] = @ + 1]
    /\ UNCHANGED <<app, up, files, row, receipt, cut, pc, frame, stage, slot, answer, bounds>>

\* A KITPro upgrade ships a catalog with another digest, storage policy or secret.
UpgradeCatalog ==
    /\ pc = "idle" /\ changes < MaxChanges /\ changes' = changes + 1
    /\ \E f \in {"image", "storage", "secrets"} : catalog' = [catalog EXCEPT ![f] = 1 - @]
    /\ UNCHANGED <<strategy, installed, data, up, files, row, receipt, cut, pc, frame, stage, slot,
                   answer, restores, faults, crashes>>

\* Coordinator.Begin: the installation's lease is held until Complete, and kept by
\* an operation whose receipt asks for an administrator.  Releasing that one is
\* modelled in HelperOps.
LeaseFree == \A b \in Backups : receipt[b] \notin {"running", "action_required"}

\* resolvedEnvironment: secrets the catalog names are added, none is removed.
SecretsAfter == Max({installed.secrets, catalog.secrets})

\* createApplication stores the secrets and the bindings to trusted roots before
\* the runner starts: a replacement that fails leaves them.  Only a commit makes
\* the next generation (InstallationLifecycle, MultiLifecycle).
Replace ==
    /\ helper = "up" /\ pc = "idle" /\ LeaseFree
    /\ changes < MaxChanges /\ changes' = changes + 1
    /\ \E roots \in 0..1 :
          LET prepared == [installed EXCEPT !.secrets = SecretsAfter, !.roots = roots]
          IN installed' \in {prepared,
                             [prepared EXCEPT !.generation = @ + 1, !.image = catalog.image,
                                              !.storage = catalog.storage]}
    /\ UNCHANGED <<strategy, catalog, data, up, files, row, receipt, cut, pc, frame, stage, slot,
                   answer, restores, faults, crashes>>

\* The disk loses a file of an archive.
Damage(b) ==
    /\ changes < MaxChanges /\ changes' = changes + 1
    /\ archive[b].exists
    /\ \E c \in Included : archive' = [archive EXCEPT ![b].data[c] = Bad]
    /\ UNCHANGED <<app, data, up, partial, work, stuck, row, receipt, cut, pc, frame, stage,
                   slot, answer, restores, faults, crashes>>

-----------------------------------------------------------------------------
(* createApplicationBackup.                                                *)

\* backupStoragePlan, loadImportedBackupBindings, loadBackupSecrets: what the
\* catalog declares is what the store holds.
SecretsMatch == installed.secrets = catalog.secrets
ImagesMatch == installed.image = catalog.image

\* loadApplicationBackupPlan for the generation a request names.
PlanLoads(generation) ==
    installed.generation = generation /\ ImagesMatch /\ SecretsMatch

StopsForBackup == strategy # "metadata-only"

\* The handler returns and its deferred functions run.
Return(result) == pc' = "clean" /\ answer' = result

\* The first copy; the ghost notes the disk of this instant.
BeginCopy ==
    /\ pc' = "copy" /\ slot' = 1
    /\ cut' = [cut EXCEPT ![op] = [of |-> plan, data |-> data]]

Planned == [installed EXCEPT !.storage = catalog.storage]

\* The next request; Begin refuses it and records that while the lease is taken.
NextRequest(b) ==
    helper = "up" /\ receipt[b] = "none" /\ \A a \in Backups : a < b => receipt[a] # "none"

Refuse(b) ==
    /\ NextRequest(b) /\ ~LeaseFree
    /\ receipt' = [receipt EXCEPT ![b] = "failed"]
    /\ UNCHANGED <<app, data, up, files, row, cut, pc, frame, stage, slot, answer, bounds>>

\* Begin commits the receipt and the lease.
Admit(b) ==
    /\ NextRequest(b) /\ pc = "idle" /\ LeaseFree
    /\ op' = b /\ receipt' = [receipt EXCEPT ![b] = "running"]
    /\ plan' = Planned /\ stage' = NoSlots

\* The plan, the sizes and the free space, the workspace, the running set.  The
\* request names the generation the API knows, which may be an earlier one.  A
\* metadata-only application declares no storage: there is nothing to copy.
BeginBackup(b) ==
    /\ Admit(b)
    /\ \E generation \in 1..installed.generation :
          IF PlanLoads(generation)
          THEN /\ running' = up /\ answer' = "ok" /\ work' = work \cup {b}
               /\ pc' = IF StopsForBackup THEN "stop" ELSE "verify"
          ELSE running' = {} /\ answer' = "error" /\ pc' = "reply" /\ UNCHANGED work
    /\ UNCHANGED <<app, data, up, archive, partial, stuck, row, cut, slot, helper, bounds>>

\* AuthorizeMutation cannot read the lease, and the request is dropped; a size, the
\* space or the workspace is not to be had; the first inspection fails.
BeginBackupFails(b) ==
    /\ Admit(b) /\ Fault
    /\ running' = {} /\ answer' = "error"
    /\ \/ pc' \in {"unsaved", "reply"} /\ UNCHANGED work
       \/ pc' = "clean" /\ work' = work \cup {b}
    /\ UNCHANGED <<app, data, up, archive, partial, stuck, row, cut, slot, helper>>

\* Components still to stop.  One variant leaves the first one running, the other
\* goes by the recorded set and not by what still runs.
StopAllButFirst == (up \cap running) \ {1}
StopRecorded == running

ToStop == up \cap running

\* snapshotBackupRuntime: last started, first stopped, each confirmed.
StopNext ==
    /\ pc = "stop"
    /\ IF ToStop = {} THEN BeginCopy /\ UNCHANGED up
                      ELSE up' = up \ {Max(ToStop)} /\ UNCHANGED <<pc, slot, cut>>
    /\ UNCHANGED <<app, data, files, row, receipt, frame, stage, answer, bounds>>

\* A failed stop may have stopped the component; what ran is started again.
StopFails ==
    /\ pc = "stop" /\ ToStop # {} /\ Fault
    /\ up' \in {up, up \ {Max(ToStop)}}
    /\ pc' = "resume" /\ answer' = "error"
    /\ UNCHANGED <<app, data, files, row, receipt, cut, frame, stage, slot>>

\* The application is resumed as soon as the last slot is copied.  The variant
\* leaves it to the end.
AfterCopyStopped == "verify"

AfterCopy == "resume"

\* CopyTree of the next included slot into the workspace.
CopyNext ==
    /\ pc = "copy"
    /\ IF slot \in C
       THEN /\ stage' = IF slot \in Included THEN [stage EXCEPT ![slot] = data[slot]] ELSE stage
            /\ slot' = slot + 1 /\ UNCHANGED pc
       ELSE pc' = AfterCopy /\ UNCHANGED <<stage, slot>>
    /\ UNCHANGED <<app, data, up, files, row, receipt, cut, frame, answer, bounds>>

\* A copy fails; the deferred function resumes the application.
CopyFails ==
    /\ pc = "copy" /\ slot \in C /\ Fault
    /\ pc' = "resume" /\ answer' = "error"
    /\ UNCHANGED <<app, data, up, files, row, receipt, cut, frame, stage, slot>>

\* resumeBackupRuntime: in start order, each confirmed.
ResumeNext ==
    /\ pc = "resume"
    /\ LET rest == running \ up
       IN \/ rest # {} /\ up' = up \cup {Min(rest)} /\ UNCHANGED pc
          \/ rest = {} /\ pc' = (IF answer = "ok" THEN "verify" ELSE "clean") /\ UNCHANGED up
    /\ UNCHANGED <<app, data, files, row, receipt, cut, frame, stage, slot, answer, bounds>>

\* What the handler answers when a component does not come back.
AfterResumeFailed == Return("error")

\* A start fails, or the component does not report running: the rest stays down.
ResumeFails ==
    /\ pc = "resume" /\ running \ up # {} /\ Fault
    /\ up' \in {up, up \cup {Min(running \ up)}}
    /\ AfterResumeFailed
    /\ UNCHANGED <<app, data, files, row, receipt, cut, frame, stage, slot>>

\* DiscoverAndVerifySQLite on the staged copy.
Verify ==
    /\ pc = "verify" /\ pc' = "write"
    /\ UNCHANGED <<app, data, up, files, row, receipt, cut, frame, stage, slot, answer, bounds>>

VerifyFails ==
    /\ pc = "verify" /\ strategy = "cold-sqlite-filesystem" /\ Fault
    /\ Return("error")
    /\ UNCHANGED <<app, data, up, files, row, receipt, cut, frame, stage, slot>>

\* Create: ValidateManifest, then the .partial file is made and written.
WritePartial ==
    /\ pc = "write" /\ op \notin partial
    /\ partial' = partial \cup {op} /\ pc' = "publish"
    /\ UNCHANGED <<app, data, up, archive, work, stuck, row, receipt, cut, frame, stage, slot,
                   answer, bounds>>

\* The rename.  The index is hashed from what is written.
Publish ==
    /\ pc = "publish"
    /\ partial' = partial \ {op}
    /\ archive' = [archive EXCEPT ![op] = [exists |-> TRUE, of |-> plan,
                                           data |-> stage, index |-> stage]]
    /\ pc' = "sync"
    /\ UNCHANGED <<app, data, up, work, stuck, row, receipt, cut, frame, stage, slot, answer,
                   bounds>>

\* syncDirectory.
Sync ==
    /\ pc = "sync" /\ pc' = "hash"
    /\ UNCHANGED <<app, data, up, files, row, receipt, cut, frame, stage, slot, answer, bounds>>

\* No partial file can be made.
CreateFails ==
    /\ pc = "write" /\ Fault
    /\ Return("error")
    /\ UNCHANGED <<app, data, up, files, row, receipt, cut, frame, stage, slot>>

\* Writing, renaming or syncing the archive fails, or its hash or its row.
RecordFails ==
    /\ pc \in {"publish", "sync", "hash"} /\ Fault
    /\ pc' = "discard" /\ answer' = "error"
    /\ UNCHANGED <<app, data, up, files, row, receipt, cut, frame, stage, slot>>

\* What failed takes its file away.  The variant keeps the partial file.
PartialKept == partial

PartialAfterFailure == partial \ {op}

\* os.Remove of the partial file or of the archive, whose error is dropped.
Discard ==
    /\ pc = "discard" /\ pc' = "clean"
    /\ \/ /\ partial' = PartialAfterFailure /\ archive' = [archive EXCEPT ![op] = NoFile]
          /\ UNCHANGED stuck
       \/ stuck' = stuck \cup {op} /\ UNCHANGED <<partial, archive>>
    /\ UNCHANGED <<app, data, up, work, row, receipt, cut, frame, stage, slot, answer, bounds>>

\* fileSHA256 of the published file and the row, complete from the start.
RecordBackup ==
    /\ pc = "hash"
    /\ row' = [row EXCEPT ![op] = [exists |-> TRUE, generation |-> plan.generation,
                                   hash |-> archive[op]]]
    /\ Return("ok")
    /\ UNCHANGED <<app, data, up, files, receipt, cut, frame, stage, slot, bounds>>

\* The deferred removeBackupTree, whose error is dropped.
RemoveWorkspace ==
    /\ pc = "clean" /\ pc' = "reply"
    /\ \/ work' = work \ {op} /\ UNCHANGED stuck
       \/ stuck' = stuck \cup {op} /\ UNCHANGED work
    /\ UNCHANGED <<app, data, up, archive, partial, row, receipt, cut, frame, stage, slot, answer,
                   bounds>>

Complete ==
    /\ pc = "reply" /\ pc' = "idle"
    /\ receipt' = [receipt EXCEPT ![op] = IF answer = "ok" THEN "succeeded" ELSE "failed"]
    /\ UNCHANGED <<app, data, up, files, row, cut, frame, stage, slot, answer, bounds>>

\* The transaction of Complete fails: the receipt stays running and the lease held
\* until the helper starts again.
CompleteFails ==
    /\ pc = "reply" /\ pc' = "unsaved" /\ Fault
    /\ UNCHANGED <<app, data, up, files, row, receipt, cut, frame, stage, slot, answer>>

-----------------------------------------------------------------------------
(* The checks of a restore.                                                *)

\* fileSHA256 against the row.
HashMatches(b) == archive[b].exists /\ archive[b] = row[b].hash

\* Extract and verifyChecksums: every file has the recorded checksum.
ChecksumsMatch(b) == archive[b].data = archive[b].index

\* validateRestoreManifest and readRestoreSecrets; the variant leaves the images
\* and the roots out.
FitsLoosely(b) == archive[b].of.storage = catalog.storage

ManifestFits(b) ==
    /\ archive[b].of.image = installed.image
    /\ archive[b].of.storage = catalog.storage
    /\ archive[b].of.roots = installed.roots
    /\ archive[b].of.secrets = catalog.secrets

RestoreAccepted(b) ==
    /\ row[b].exists /\ HashMatches(b)
    /\ PlanLoads(row[b].generation)
    /\ ChecksumsMatch(b) /\ ManifestFits(b)

\* Included slots come from the archive; the others keep what they hold.
RestoreBackup(b) ==
    /\ helper = "up" /\ pc = "idle"
    /\ restores < MaxRestores /\ restores' = restores + 1
    /\ LeaseFree /\ RestoreAccepted(b)
    /\ data' = [c \in C |-> IF archive[b].data[c] = Unread THEN data[c] ELSE archive[b].data[c]]
    /\ UNCHANGED <<app, up, files, row, receipt, cut, pc, frame, stage, slot, answer,
                   changes, faults, crashes>>

-----------------------------------------------------------------------------
(* A crash: no deferred function runs.                                     *)

Crash ==
    /\ helper = "up" /\ crashes < MaxCrashes /\ crashes' = crashes + 1
    /\ helper' = "down" /\ pc' = "idle"
    /\ UNCHANGED <<app, data, up, files, row, receipt, cut, op, plan, running, stage, slot, answer,
                   faults, environment>>

\* Backups have no journal: RecoverInterrupted asks for an administrator.
Interrupted(state) == IF state = "running" THEN "action_required" ELSE state

Start ==
    /\ helper = "down" /\ helper' = "up"
    /\ receipt' = [b \in Backups |-> Interrupted(receipt[b])]
    /\ UNCHANGED <<app, data, up, files, row, cut, pc, op, plan, running, stage, slot, answer, bounds>>

Handler ==
    \/ StopNext \/ StopFails \/ CopyNext \/ CopyFails \/ ResumeNext \/ ResumeFails
    \/ Verify \/ VerifyFails \/ WritePartial \/ CreateFails \/ Publish \/ Sync
    \/ RecordBackup \/ RecordFails \/ Discard \/ RemoveWorkspace \/ Complete \/ CompleteFails

Wait == pc \in {"idle", "unsaved"} /\ helper = "up" /\ UNCHANGED vars

Next ==
    \/ \E c \in C : Write(c)
    \/ UpgradeCatalog \/ Replace
    \/ \E b \in Backups : \/ Damage(b) \/ RestoreBackup(b)
                          \/ Refuse(b) \/ BeginBackup(b) \/ BeginBackupFails(b)
    \/ Handler \/ Crash \/ Start \/ Wait

Spec == Init /\ [][Next]_vars
FairSpec == Spec /\ WF_vars(Handler) /\ WF_vars(Start)

-----------------------------------------------------------------------------
(* Properties.                                                             *)

Same(f, g) == \A c \in Included : f[c] = g[c]

\* A recorded backup is one instant of the application: the included slots are
\* what they were when the last component had stopped, whatever ran before and
\* whatever the components write once they run again.
ColdCopyIsOneInstant ==
    \A b \in Backups : row[b].exists /\ StopsForBackup
        => Same(archive[b].index, cut[b].data)

\* An accepted restore puts back exactly the instant its backup took, on the
\* installation it was taken of, however the archive, the catalog or the
\* installation changed in between.
RestoreIsExact ==
    [][\A b \in Backups : RestoreBackup(b) /\ StopsForBackup
         => /\ Same(data', cut[b].data)
            /\ cut[b].of = Planned]_vars

\* What a backup reports is true.  Success: its row and its file exist and every
\* component that ran before runs again.  Failure: no row a restore could name, and
\* no archive, partial file or workspace, except when a removal whose error the
\* handler drops (application_backup.go:112, 211, 215; archive.go:208, 225) failed.
RepliesAreTrue ==
    [][\A b \in Backups : receipt[b] = "running" =>
         /\ receipt'[b] = "succeeded"
              => running \subseteq up' /\ row'[b].exists /\ archive'[b].exists
         /\ receipt'[b] = "failed"
              => /\ ~row'[b].exists
                 /\ \/ b \in stuck'
                    \/ ~archive'[b].exists /\ b \notin partial' /\ b \notin work']_vars

\* An application is never left down in silence: while nobody works, what the
\* last backup found running runs, or its receipt says failed or asks for an
\* administrator; failed only when a call failed.  When the receipt could not be
\* written it still says running, and the next start asks for an administrator.
NeverSilentlyDown ==
    pc \in {"idle", "unsaved"} /\ helper = "up" /\ op # 0 /\ ~(running \subseteq up)
        => \/ receipt[op] = "action_required"
           \/ receipt[op] = "failed" /\ faults > 0
           \/ receipt[op] = "running" /\ pc = "unsaved"

\* Every backup ends, with the application running as before unless a call failed.
\* The one exception is a helper that lives on after it failed to write the receipt
\* (AuthorizeMutation, Complete): only its next start settles it.
BackupEnds ==
    \A b \in Backups : receipt[b] = "running" ~>
        \/ receipt[b] # "running" /\ (running \subseteq up \/ faults > 0 \/ crashes > 0)
        \/ helper = "up" /\ pc = "unsaved" /\ op = b
=============================================================================
