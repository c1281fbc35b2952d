----------------------------- MODULE AppRestore -----------------------------
(***************************************************************************)
(* The journalled application restore of one installation: the handler     *)
(* restoreApplicationBackupWithFence of application_backup.go, the journal *)
(* and its startup recovery in restore_journal.go, the gate in serve and   *)
(* the part of the operation coordinator they read.                        *)
(*                                                                         *)
(* A storage tree is the identity (device and inode) it had when it was    *)
(* made: 0 for the tree the application was installed with, o for the tree *)
(* that operation o staged, Made(o) for the empty one that a start of      *)
(* operation o found missing.  Generated secrets are versions too.  The    *)
(* per-slot phases of restore_storage_steps are written and never read     *)
(* back by a decision, so a slot's step is not state: recovery goes by the *)
(* identities found on disk.                                               *)
(***************************************************************************)
EXTENDS Naturals, FiniteSets, FiniteSetsExt

CONSTANTS
    Slots,          \* number of managed storage slots, swapped in order
    Components,     \* number of components, started in order
    Kinds,          \* kinds of operation clients ask for
    MaxOps,         \* bound: operations
    MaxFaults,      \* bound: calls and transactions that fail
    MaxCrashes,     \* bound: helper crashes
    MaxResolves     \* bound: --resolve-operation commands

ASSUME AppRestoreBounds ==
    /\ Slots \in Nat \ {0} /\ Components \in Nat \ {0} /\ MaxOps \in Nat \ {0}
    /\ Kinds \subseteq {"restore", "start", "stop", "repair"}
    /\ MaxFaults \in Nat /\ MaxCrashes \in Nat /\ MaxResolves \in Nat

VARIABLES
    host,       \* slot -> identity of the tree at its path, or Gone
    secrets,    \* version of the rows of installation_secrets
    up,         \* components that run
    row,        \* operation -> row of restore_operations
    staged,     \* operation -> slots whose .kitpro-restore-new- path exists
    kept,       \* operation -> slots whose .kitpro-restore-rollback- path exists
    receipt,    \* operation -> state in helper_operations
    kind,       \* operation -> what it asks for
    lease,      \* row of installation_leases
    asked,      \* requests that passed the gate and have not reached Begin
    helper,     \* the helper process
    pc,         \* the next call of the worker, or of startup recovery
    op,         \* the operation it works for
    slot,       \* the slot a loop is at
    deferred,   \* cleanupDeferred
    answer,     \* what the handler returns
    todo,       \* journals startup recovery still has to look at
    faults, crashes, resolves

vars == <<host, secrets, up, row, staged, kept, receipt, kind, lease, asked,
          helper, pc, op, slot, deferred, answer, todo, faults, crashes, resolves>>
disk == <<host, staged, kept>>
ledger == <<receipt, kind, lease, asked>>
bounds == <<faults, crashes, resolves>>
control == <<helper, op, answer, todo>>

Ops == 1..MaxOps
S == 1..Slots
C == 1..Components
Versions == 0..MaxOps
Made(o) == MaxOps + o
Trees == 0..(2 * MaxOps)
Gone == 2 * MaxOps + 1

Phases == {"none", "staged", "swapping", "runtime_restore_pending", "committed",
           "cleanup_pending", "completed", "rolled_back", "action_required"}

\* The phases that block the installation and that startup recovery reads.
Unresolved == {"staged", "swapping", "runtime_restore_pending", "committed",
               "action_required"}

NoRow == [phase |-> "none", running |-> {}, orig |-> [s \in S |-> 0], origSecrets |-> 0]
Free == [op |-> 0, state |-> "released"]

Blocks(o) == \E p \in Ops \ {o} : row[p].phase \in Unresolved

\* Shapes of the journal, the disk, the ledger and the positions of the worker.
TypeOK ==
    /\ host \in [S -> Trees \cup {Gone}] /\ secrets \in Versions
    /\ up \subseteq C
    /\ row \in [Ops -> [phase : Phases, running : SUBSET C,
                        orig : [S -> Trees \cup {Gone}], origSecrets : Versions]]
    /\ staged \in [Ops -> SUBSET S] /\ kept \in [Ops -> SUBSET S]
    /\ receipt \in [Ops -> {"none", "running", "succeeded", "failed",
                            "action_required", "superseded"}]
    /\ kind \in [Ops -> Kinds \cup {"none"}]
    /\ lease \in [op : 0..MaxOps, state : {"released", "held", "recovery_required"}]
    /\ asked \subseteq Ops
    /\ helper \in {"up", "starting", "down"}
    /\ pc \in {"idle", "unsaved", "lifecycle", "prepare", "journal", "intent", "quiesce",
               "requiesce", "out", "in", "pending", "secrets", "resume", "commit",
               "clean", "finish", "rbStop", "rbAside", "rbBack", "rbSecrets",
               "rbResume", "rbMark", "reply", "settle", "debts"}
    /\ op \in 0..MaxOps /\ slot \in 0..(Slots + 1)
    /\ deferred \in BOOLEAN /\ answer \in {"ok", "error"}
    /\ todo \subseteq Ops
    /\ faults \in 0..MaxFaults /\ crashes \in 0..MaxCrashes
    /\ resolves \in 0..MaxResolves

Init ==
    /\ host = [s \in S |-> 0] /\ secrets = 0 /\ up \in SUBSET C
    /\ row = [o \in Ops |-> NoRow]
    /\ staged = [o \in Ops |-> {}] /\ kept = [o \in Ops |-> {}]
    /\ receipt = [o \in Ops |-> "none"] /\ kind = [o \in Ops |-> "none"]
    /\ lease = Free /\ asked = {}
    /\ helper = "up" /\ pc = "idle" /\ op = 0 /\ slot = 0
    /\ deferred = FALSE /\ answer = "ok" /\ todo = {}
    /\ faults = 0 /\ crashes = 0 /\ resolves = 0

Fault == faults < MaxFaults /\ faults' = faults + 1 /\ UNCHANGED <<crashes, resolves>>
Serving == helper = "up"

-----------------------------------------------------------------------------
(* serve: the gate, Begin, and the other lifecycle operations.             *)

Ask(k) ==
    /\ Serving
    /\ \E o \in Ops :
          /\ kind[o] = "none" /\ \A p \in Ops : kind[p] = "none" => o <= p
          /\ ~Blocks(o)
          /\ kind' = [kind EXCEPT ![o] = k] /\ asked' = asked \cup {o}
    /\ UNCHANGED <<disk, secrets, up, row, receipt, lease, control, pc, slot, deferred, bounds>>

\* Begin.  An explicit repair may take over a recovery lease; anything else is
\* refused while the lease is not released.
TakesOver(o) ==
    /\ kind[o] = "repair" /\ lease.state = "recovery_required"
    /\ receipt[lease.op] = "action_required"

Admissible(o) == lease.state = "released" \/ TakesOver(o)

\* The lease is given; AuthorizeMutation may fail to read it, and then the
\* request is dropped with its receipt running and its lease held.
Begin(o) ==
    /\ Serving /\ o \in asked /\ Admissible(o)
    /\ asked' = asked \ {o}
    /\ receipt' = [p \in Ops |-> CASE p = o -> "running"
                                   [] p # o /\ TakesOver(o) /\ p = lease.op -> "superseded"
                                   [] OTHER -> receipt[p]]
    /\ lease' = [op |-> o, state |-> "held"]
    /\ op' = o
    /\ \/ pc' = (IF kind[o] = "restore" THEN "prepare" ELSE "lifecycle") /\ UNCHANGED bounds
       \/ pc' = "unsaved" /\ Fault
    /\ UNCHANGED <<disk, secrets, up, row, kind, helper, answer, todo, slot, deferred>>

Refuse(o) ==
    /\ Serving /\ o \in asked /\ ~Admissible(o)
    /\ asked' = asked \ {o}
    /\ receipt' = [receipt EXCEPT ![o] = "failed"]
    /\ UNCHANGED <<disk, secrets, up, row, kind, lease, control, pc, slot, deferred, bounds>>

\* Docker makes an empty directory where the source of a bind is missing
\* (HostConfig.Binds); Podman does not start the container.
Mountable == \A s \in S : host[s] # Gone
Mount == host' = [s \in S |-> IF host[s] = Gone THEN Made(op) ELSE host[s]]

\* A start, a stop or the start_active repair, as far as a restore sees it.
Lifecycle ==
    /\ pc = "lifecycle"
    /\ \/ kind[op] = "stop" /\ up' = {} /\ answer' = "ok" /\ UNCHANGED host
       \/ kind[op] # "stop" /\ up' = C /\ answer' = "ok" /\ Mount
       \/ kind[op] # "stop" /\ ~Mountable /\ answer' = "error" /\ UNCHANGED <<up, host>>
    /\ pc' = "reply"
    /\ UNCHANGED <<staged, kept, secrets, row, ledger, helper, op, todo, slot, deferred, bounds>>

-----------------------------------------------------------------------------
(* The restore handler up to the last swap.                                *)

\* The handler returns; unless told to preserve it, the deferred function
\* removes the staging of this operation.
Leave(result, preserve) ==
    /\ pc' = "reply" /\ answer' = result
    /\ staged' = IF preserve THEN staged ELSE [staged EXCEPT ![op] = {}]

\* Hash, measure, plan, extract, validate, copy beside the live tree, verify.
Prepare ==
    /\ pc = "prepare" /\ Mountable
    /\ staged' = [staged EXCEPT ![op] = S] /\ pc' = "journal"
    /\ UNCHANGED <<host, kept, secrets, up, row, ledger, control, slot, deferred, bounds>>

\* The deferred removal of the staging is set up after the last copy: what a
\* failed copy leaves behind stays.
PrepareFails ==
    /\ \/ /\ pc = "prepare" /\ pc' = "reply" /\ answer' = "error"
          /\ \E copied \in 0..Slots : staged' = [staged EXCEPT ![op] = 1..copied]
       \/ pc = "journal" /\ Leave("error", FALSE)
    /\ UNCHANGED <<host, kept, secrets, up, row, ledger, helper, op, todo, slot, deferred, bounds>>

BeginRestoreJournal ==
    /\ pc = "journal"
    /\ lease = [op |-> op, state |-> "held"]
    /\ row' = [row EXCEPT ![op] = [phase |-> "staged", running |-> {},
                                   orig |-> host, origSecrets |-> secrets]]
    /\ pc' = "intent"
    /\ UNCHANGED <<disk, secrets, up, ledger, control, slot, deferred, bounds>>

\* The running components are read and recorded before anything is stopped.
Recorded == up

UpdateRuntimeIntent ==
    /\ pc = "intent"
    /\ row' = [row EXCEPT ![op].phase = "swapping", ![op].running = Recorded]
    /\ pc' = "quiesce"
    /\ UNCHANGED <<disk, secrets, up, ledger, control, slot, deferred, bounds>>

IntentFails ==
    /\ pc = "intent" /\ Fault
    /\ Leave("error", FALSE)
    /\ UNCHANGED <<host, kept, secrets, up, row, ledger, helper, op, todo, slot, deferred>>

\* Recorded components stop one by one, last started first.
Quiesce ==
    /\ pc = "quiesce"
    /\ LET rest == up \cap row[op].running
       IN IF rest = {} THEN pc' = "out" /\ slot' = 1 /\ UNCHANGED up
                       ELSE up' = up \ {Max(rest)} /\ UNCHANGED <<pc, slot>>
    /\ UNCHANGED <<disk, secrets, row, ledger, control, deferred, bounds>>

\* A failed stop may have stopped the component; what was stopped is resumed.
QuiesceFails ==
    /\ pc = "quiesce" /\ up \cap row[op].running # {} /\ Fault
    /\ up' \in {up, up \ {Max(up \cap row[op].running)}}
    /\ pc' = "requiesce"
    /\ UNCHANGED <<disk, secrets, row, ledger, control, slot, deferred>>

\* resumeBackupRuntime starts the next recorded component in order.
StartNext == up' = up \cup {Min(row[op].running \ up)} /\ Mount
AllResumed == row[op].running \subseteq up

Requiesce ==
    /\ pc = "requiesce"
    /\ \/ ~AllResumed /\ StartNext /\ UNCHANGED <<pc, answer, staged, bounds>>
       \/ AllResumed /\ Leave("error", FALSE) /\ UNCHANGED <<up, host, bounds>>
       \/ ~AllResumed /\ Fault /\ Leave("error", FALSE) /\ UNCHANGED <<up, host>>
    /\ UNCHANGED <<kept, secrets, row, ledger, helper, op, todo, slot, deferred>>

\* The rollback names after a swap out; the variant removes the tree instead.
KeptAfterRemove == kept

KeptAfterOut == [kept EXCEPT ![op] = @ \cup {slot}]

SwapOut ==
    /\ pc = "out"
    /\ host' = [host EXCEPT ![slot] = Gone]
    /\ kept' = KeptAfterOut
    /\ pc' = "in"
    /\ UNCHANGED <<staged, secrets, up, row, ledger, control, slot, deferred, bounds>>

\* The rename, or the step record before it, fails: roll back in process.
SwapOutFails ==
    /\ pc = "out" /\ Fault
    /\ pc' = "rbStop"
    /\ UNCHANGED <<disk, secrets, up, row, ledger, control, slot, deferred>>

NextSlot == slot + 1

SwapIn ==
    /\ pc = "in"
    /\ host' = [host EXCEPT ![slot] = op]
    /\ staged' = [staged EXCEPT ![op] = @ \ {slot}]
    /\ slot' = NextSlot /\ pc' = IF slot = Slots THEN "pending" ELSE "out"
    /\ UNCHANGED <<kept, secrets, up, row, ledger, control, deferred, bounds>>

\* The second rename fails: the tree is put back, or that fails too and the
\* error is dropped.
SwapInFails ==
    /\ pc = "in"
    /\ \/ /\ Fault
          /\ host' = [host EXCEPT ![slot] = row[op].orig[slot]]
          /\ kept' = [kept EXCEPT ![op] = @ \ {slot}]
       \/ /\ faults + 2 <= MaxFaults /\ faults' = faults + 2
          /\ UNCHANGED <<host, kept, crashes, resolves>>
    /\ pc' = "rbStop"
    /\ UNCHANGED <<staged, secrets, up, row, ledger, control, slot, deferred>>

\* A rename happened and its confirmation was not recorded: the handler leaves
\* everything to recovery.
Unconfirmed ==
    /\ Serving /\ Fault
    /\ pc \in {"in", "pending"} \/ (pc = "out" /\ slot > 1)
    /\ Leave("error", TRUE)
    /\ UNCHANGED <<host, kept, secrets, up, row, ledger, helper, op, todo, slot, deferred>>

-----------------------------------------------------------------------------
(* Forward, in the handler and in finishRestoreForward.  An error after    *)
(* the swaps rolls back in the handler and asks for an administrator in    *)
(* recovery.                                                               *)

\* recoverInterruptedRestores gives up on this journal for this start.
GiveUp ==
    /\ row' = [row EXCEPT ![op].phase = "action_required"]
    /\ todo' = todo \ {op} /\ pc' = "idle"

RollBackOrGiveUp ==
    IF Serving THEN pc' = "rbStop" /\ UNCHANGED <<row, todo>> ELSE GiveUp

RuntimePending ==
    /\ pc = "pending"
    /\ row' = [row EXCEPT ![op].phase = "runtime_restore_pending"]
    /\ pc' = "secrets"
    /\ UNCHANGED <<disk, secrets, up, ledger, control, slot, deferred, bounds>>

\* The version the secrets rows get on the way forward.
SecretsForward == op

ReplaceSecrets ==
    /\ pc = "secrets"
    /\ secrets' = SecretsForward /\ pc' = "resume"
    /\ UNCHANGED <<disk, up, row, ledger, control, slot, deferred, bounds>>

Resume ==
    /\ pc = "resume"
    /\ IF AllResumed THEN pc' = "commit" /\ UNCHANGED <<up, host>> ELSE StartNext /\ UNCHANGED pc
    /\ UNCHANGED <<staged, kept, secrets, row, ledger, control, slot, deferred, bounds>>

\* A component that fails to start, or does not report running, may run.
ForwardFails ==
    /\ Fault
    /\ \/ pc = "secrets" /\ UNCHANGED <<up, host>>
       \/ pc = "resume" /\ ~AllResumed /\ (StartNext \/ UNCHANGED <<up, host>>)
    /\ RollBackOrGiveUp
    /\ UNCHANGED <<staged, kept, secrets, ledger, helper, op, answer, slot, deferred>>

Commit ==
    /\ pc = "commit"
    /\ row' = [row EXCEPT ![op].phase = "committed"]
    /\ pc' = "clean" /\ slot' = 1 /\ deferred' = FALSE
    /\ UNCHANGED <<disk, secrets, up, ledger, control, bounds>>

\* The journal update fails on the way forward: left to recovery, or given up
\* by it.  In the handler the pending update's failure is Unconfirmed, and a
\* failed update of a restore with debts is dropped.
UpdateFails ==
    /\ Fault
    /\ \/ pc \in {"commit", "finish"}
       \/ pc = "pending" /\ ~Serving
    /\ IF Serving THEN /\ Leave(IF pc = "finish" /\ deferred THEN "ok" ELSE "error", TRUE)
                       /\ UNCHANGED <<row, todo>>
                  ELSE GiveUp /\ UNCHANGED <<answer, staged>>
    /\ UNCHANGED <<host, kept, secrets, up, ledger, helper, op, slot, deferred>>

\* Rollback trees go only after the commit; one that cannot be removed is debt.
Clean ==
    /\ pc = "clean"
    /\ \/ kept' = [kept EXCEPT ![op] = @ \ {slot}] /\ UNCHANGED <<deferred, bounds>>
       \/ Fault /\ deferred' = TRUE /\ UNCHANGED kept
    /\ slot' = NextSlot /\ pc' = IF slot = Slots THEN "finish" ELSE "clean"
    /\ UNCHANGED <<host, staged, secrets, up, row, ledger, control>>

\* The phase a restore ends in: a tree that could not be removed is owed.
EndPhase == IF deferred THEN "cleanup_pending" ELSE "completed"

Finish ==
    /\ pc = "finish"
    /\ row' = [row EXCEPT ![op].phase = EndPhase]
    /\ IF Serving THEN Leave("ok", FALSE) /\ UNCHANGED todo
                  ELSE pc' = "settle" /\ answer' = "ok" /\ UNCHANGED <<staged, todo>>
    /\ UNCHANGED <<host, kept, secrets, up, ledger, helper, op, slot, deferred, bounds>>

-----------------------------------------------------------------------------
(* Rollback, in the handler (every error dropped) and in                   *)
(* finishRestoreRollback (every error given up on).                        *)

\* The slots to roll back are the ones swapped in completely.
RbStop ==
    /\ pc = "rbStop"
    /\ up' = {} /\ slot' = slot - 1 /\ pc' = "rbAside"
    /\ UNCHANGED <<disk, secrets, row, ledger, control, deferred, bounds>>

RbStopFails ==
    /\ pc = "rbStop" /\ Fault
    /\ up' \in SUBSET up
    /\ slot' = slot - 1 /\ pc' = "rbAside"
    /\ UNCHANGED <<disk, secrets, row, ledger, control, deferred>>

\* A restored tree is moved aside; what the slot held before comes back next.
RbAside ==
    /\ pc = "rbAside"
    /\ IF slot = 0 THEN pc' = "rbSecrets" /\ UNCHANGED host
       ELSE /\ host' = IF host[slot] = op THEN [host EXCEPT ![slot] = Gone] ELSE host
            /\ pc' = "rbBack"
    /\ UNCHANGED <<staged, kept, secrets, up, row, ledger, control, slot, deferred, bounds>>

\* The last slot comes back first; the variant stops short of the first one.
NextBackShort == IF slot = 2 THEN 0 ELSE slot - 1

NextBack == slot - 1

\* A rename onto a tree that is still there fails, as does a missing source.
RbBack ==
    /\ pc = "rbBack"
    /\ LET back == slot \in kept[op] /\ host[slot] = Gone
       IN /\ host' = IF back THEN [host EXCEPT ![slot] = row[op].orig[slot]] ELSE host
          /\ kept' = IF back THEN [kept EXCEPT ![op] = @ \ {slot}] ELSE kept
    /\ staged' = IF Serving THEN staged ELSE [staged EXCEPT ![op] = @ \ {slot}]
    /\ slot' = NextBack /\ pc' = "rbAside"
    /\ UNCHANGED <<secrets, up, row, ledger, control, deferred, bounds>>

RbRenameFails ==
    /\ pc \in {"rbAside", "rbBack"} /\ slot # 0 /\ Fault
    /\ IF Serving
       THEN /\ \/ pc = "rbAside" /\ pc' = "rbBack" /\ UNCHANGED slot
               \/ pc = "rbBack" /\ pc' = "rbAside" /\ slot' = slot - 1
            /\ UNCHANGED <<row, todo>>
       ELSE GiveUp /\ UNCHANGED slot
    /\ UNCHANGED <<disk, secrets, up, ledger, helper, op, answer, deferred>>

RbSecrets ==
    /\ pc = "rbSecrets"
    /\ secrets' = row[op].origSecrets
    /\ pc' = "rbResume"
    /\ UNCHANGED <<disk, up, row, ledger, control, slot, deferred, bounds>>

\* Recovery resumes only what was quiesced; the list of a journal that did not
\* get that far is empty.
RbResume ==
    /\ pc = "rbResume"
    /\ IF AllResumed THEN pc' = "rbMark" /\ UNCHANGED <<up, host>> ELSE StartNext /\ UNCHANGED pc
    /\ UNCHANGED <<staged, kept, secrets, row, ledger, control, slot, deferred, bounds>>

RbFails ==
    /\ IF pc = "rbResume" /\ ~Mountable THEN UNCHANGED bounds ELSE Fault
    /\ \/ pc = "rbSecrets" /\ UNCHANGED <<up, host>>
       \/ pc = "rbResume" /\ ~AllResumed /\ (StartNext \/ UNCHANGED <<up, host>>)
       \/ pc = "rbMark" /\ UNCHANGED <<up, host>>
    /\ IF Serving
       THEN /\ IF pc = "rbMark" THEN Leave("error", FALSE)
               ELSE /\ pc' = IF pc = "rbSecrets" THEN "rbResume" ELSE "rbMark"
                    /\ UNCHANGED <<answer, staged>>
            /\ UNCHANGED <<row, todo>>
       ELSE GiveUp /\ UNCHANGED <<answer, staged>>
    /\ UNCHANGED <<kept, secrets, ledger, helper, op, slot, deferred>>

RbMark ==
    /\ pc = "rbMark"
    /\ row' = [row EXCEPT ![op].phase = "rolled_back"]
    /\ IF Serving THEN Leave("error", FALSE)
                  ELSE pc' = "settle" /\ answer' = "error" /\ UNCHANGED staged
    /\ UNCHANGED <<host, kept, secrets, up, ledger, helper, op, todo, slot, deferred, bounds>>

-----------------------------------------------------------------------------
(* The end of an operation, in Complete and in CompleteRecovery.           *)

\* An error while the journal is unresolved keeps the lease for recovery; the
\* variant reports a plain failure.
NeedsRecoveryNever == FALSE

NeedsRecovery == row[op].phase \in Unresolved

Verdict == IF answer = "ok" THEN "succeeded" ELSE "failed"

Reply ==
    /\ pc = "reply"
    /\ IF answer = "error" /\ NeedsRecovery
       THEN /\ receipt' = [receipt EXCEPT ![op] = "action_required"]
            /\ lease' = [lease EXCEPT !.state = "recovery_required"]
       ELSE receipt' = [receipt EXCEPT ![op] = Verdict] /\ lease' = Free
    /\ pc' = "idle"
    /\ UNCHANGED <<disk, secrets, up, row, kind, asked, control, slot, deferred, bounds>>

\* Complete fails: the receipt stays running and the lease held until the helper
\* starts again.
ReplyFails ==
    /\ pc = "reply" /\ Fault
    /\ pc' = "unsaved"
    /\ UNCHANGED <<disk, secrets, up, row, ledger, control, slot, deferred>>

CompleteRecovery ==
    /\ pc = "settle"
    /\ receipt' = [receipt EXCEPT ![op] = Verdict] /\ lease' = Free
    /\ todo' = todo \ {op} /\ pc' = "idle"
    /\ UNCHANGED <<disk, secrets, up, row, kind, asked, helper, op, answer, slot, deferred, bounds>>

CompleteRecoveryFails ==
    /\ pc = "settle" /\ Fault
    /\ GiveUp
    /\ UNCHANGED <<disk, secrets, up, ledger, helper, op, answer, slot, deferred>>

-----------------------------------------------------------------------------
(* Crash, startup and the administrator.                                   *)

Crash ==
    /\ helper # "down" /\ crashes < MaxCrashes
    /\ crashes' = crashes + 1
    /\ helper' = "down" /\ pc' = "idle" /\ asked' = {} /\ todo' = {}
    /\ UNCHANGED <<disk, secrets, up, row, receipt, kind, lease, op, slot, deferred,
                   answer, faults, resolves>>

\* What RecoverInterrupted makes of a receipt; the variant leaves it alone.
ReceiptLeft(o) == receipt[o]

ReceiptAfterCrash(o) ==
    IF receipt[o] = "running" THEN "action_required" ELSE receipt[o]

\* RecoverInterrupted, then the list of recoverInterruptedRestores.
Start ==
    /\ helper = "down"
    /\ receipt' = [o \in Ops |-> ReceiptAfterCrash(o)]
    /\ lease' = IF lease.state = "held" THEN [lease EXCEPT !.state = "recovery_required"]
                                         ELSE lease
    /\ helper' = "starting"
    /\ todo' = {o \in Ops : row[o].phase \in Unresolved}
    /\ UNCHANGED <<disk, secrets, up, row, kind, asked, pc, op, slot, deferred, answer, bounds>>

HasRecoveryLease(o) == lease = [op |-> o, state |-> "recovery_required"]
Restored(o) == \A s \in S : host[s] = o

\* Every slot's original is in its place or under its rollback name, and no
\* path holds a tree the journal does not know.
CanRollBack(o) ==
    \A s \in S : /\ host[s] \in {row[o].orig[s], o, Gone}
                 /\ host[s] = row[o].orig[s] \/ s \in kept[o]

RecoverOne(o) ==
    /\ helper = "starting" /\ pc = "idle" /\ o \in todo
    /\ op' = o
    /\ IF HasRecoveryLease(o) /\ (Restored(o) \/ CanRollBack(o))
       THEN /\ IF Restored(o)
               THEN /\ pc' = IF row[o].phase = "committed" THEN "clean" ELSE "pending"
                    /\ slot' = 1
               ELSE pc' = "rbAside" /\ slot' = Slots
            /\ UNCHANGED <<row, todo>>
       ELSE /\ row' = [row EXCEPT ![o].phase = "action_required"]
            /\ todo' = todo \ {o} /\ UNCHANGED <<pc, slot>>
    /\ deferred' = FALSE
    /\ UNCHANGED <<disk, secrets, up, ledger, helper, answer, bounds>>

\* cleanupCommittedRestores pays the debts it can, one journal at a time.
Recovered ==
    /\ helper = "starting" /\ pc = "idle" /\ todo = {}
    /\ pc' = "debts"
    /\ todo' = {o \in Ops : row[o].phase \in {"committed", "cleanup_pending"}}
    /\ UNCHANGED <<disk, secrets, up, row, ledger, helper, op, answer, slot, deferred, bounds>>

PayDebt(o) ==
    /\ pc = "debts" /\ o \in todo
    /\ \/ /\ kept' = [kept EXCEPT ![o] = {}]
          /\ row' = [row EXCEPT ![o].phase = "completed"] /\ UNCHANGED bounds
       \/ Fault /\ UNCHANGED kept /\ row' = [row EXCEPT ![o].phase = "cleanup_pending"]
    /\ todo' = todo \ {o}
    /\ UNCHANGED <<host, staged, secrets, up, ledger, helper, pc, op, answer, slot, deferred>>

Listen ==
    /\ pc = "debts" /\ todo = {}
    /\ helper' = "up" /\ pc' = "idle"
    /\ UNCHANGED <<disk, secrets, up, row, ledger, op, answer, todo, slot, deferred, bounds>>

\* --resolve-operation --release-as-failed, a process of its own.
ResolveActionRequired(o) ==
    /\ resolves < MaxResolves /\ resolves' = resolves + 1
    /\ receipt[o] = "action_required" /\ HasRecoveryLease(o)
    /\ receipt' = [receipt EXCEPT ![o] = "failed"] /\ lease' = Free
    /\ UNCHANGED <<disk, secrets, up, row, kind, asked, control, pc, slot, deferred,
                   faults, crashes>>

\* The helper waits for requests.
Wait == Serving /\ pc \in {"idle", "unsaved"} /\ UNCHANGED vars

Work ==
    \/ Lifecycle \/ Prepare \/ PrepareFails \/ BeginRestoreJournal
    \/ UpdateRuntimeIntent \/ IntentFails \/ Quiesce \/ QuiesceFails \/ Requiesce
    \/ SwapOut \/ SwapOutFails \/ SwapIn \/ SwapInFails \/ Unconfirmed
    \/ RuntimePending \/ ReplaceSecrets \/ Resume \/ ForwardFails
    \/ Commit \/ UpdateFails \/ Clean \/ Finish
    \/ RbStop \/ RbStopFails \/ RbAside \/ RbBack \/ RbRenameFails
    \/ RbSecrets \/ RbResume \/ RbFails \/ RbMark
    \/ Reply \/ ReplyFails \/ CompleteRecovery \/ CompleteRecoveryFails

Startup == Start \/ Recovered \/ Listen \/ \E o \in Ops : RecoverOne(o) \/ PayDebt(o)

Next ==
    \/ \E k \in Kinds : Ask(k)
    \/ \E o \in Ops : Begin(o) \/ Refuse(o) \/ ResolveActionRequired(o)
    \/ Work \/ Startup \/ Crash \/ Wait

Spec == Init /\ [][Next]_vars

\* systemd restarts the helper; startup and a handler are finite sequences.
FairSpec == Spec /\ WF_vars(Work) /\ WF_vars(Startup)

-----------------------------------------------------------------------------
(* Properties.                                                             *)

OneVersion == \E v \in Versions : secrets = v /\ \A s \in S : host[s] = v

\* At most one call failed and nobody took the lease of an unresolved restore: the
\* code drops the errors of a second failure, and a repair or an administrator that
\* takes the lease is not held back by the journal.
Single == /\ faults' <= 1 /\ resolves' = 0
          /\ \A o \in Ops : receipt'[o] # "superseded"

\* Nothing is started on a mixture: when a restore, a rollback, startup recovery or
\* another operation starts a component, every slot and the secrets are of one
\* version, whatever single call failed and wherever the helper died.
NeverStartsMixed == [][Single /\ ~(up' \subseteq up) => OneVersion']_vars

\* Until the restored application is known to run, the old trees are on disk: while
\* a restore runs or waits for recovery every slot's old tree is in its place or
\* under its rollback name, or all of the restore is in place.
OldKept ==
    \A o \in Ops : /\ row[o].phase \in Unresolved \ {"committed"}
                    /\ receipt[o] \in {"running", "action_required"}
        => \/ Restored(o)
           \/ \A s \in S : host[s] = row[o].orig[s] \/ s \in kept[o]

\* What a restore answers is true.  Success: every slot and the secrets of its
\* archive are in place and what ran before runs again, however many calls failed on
\* the way.  A plain failure, where at most one call failed: every slot and the
\* secrets are what they were, and what ran before runs again.
RepliesAreTrue ==
    [][\A o \in Ops : receipt'[o] # receipt[o] /\ kind[o] = "restore" =>
         /\ receipt'[o] = "succeeded"
              => Restored(o)' /\ secrets' = o /\ row[o].running \subseteq up'
         /\ receipt'[o] = "failed" /\ row[o].phase # "none" /\ Single
              => /\ host' = row[o].orig /\ secrets' = row[o].origSecrets
                 /\ row[o].running \subseteq up']_vars

\* Every restore that runs is answered or handed to an administrator, whatever
\* crashes and fails, except while the helper lives on after it failed to write the
\* receipt: only its next start settles that one.
RestoreEnds ==
    \A o \in Ops : receipt[o] = "running" ~>
        (receipt[o] # "running" \/ (helper = "up" /\ pc = "unsaved" /\ op = o))

-----------------------------------------------------------------------------
(* What the manual and the comments say and the code does not keep: no run *)
(* checks these as invariants; the README says with which constants TLC    *)
(* finds the behaviour that breaks each.                                   *)

\* While a journal needs recovery no other operation works on the installation:
\* broken by a repair that passed the gate of serve before the journal was written.
OthersBlocked ==
    \A o \in Ops : receipt[o] = "running" /\ pc = "lifecycle" /\ op = o => ~Blocks(o)

\* After a restart an administrator is asked only about a restore whose journal is
\* unresolved: broken by a crash between the journal's last phase and the receipt.
RestartSettles ==
    helper = "up" /\ pc = "idle" =>
        \A o \in Ops : receipt[o] = "action_required" /\ kind[o] = "restore" /\ row[o].phase # "none"
            => row[o].phase \in Unresolved

\* An installation whose lease is released has no unresolved journal, so the gate of
\* serve lets its next operation pass: broken by --resolve-operation.
ReleasedIsOpen ==
    helper = "up" /\ pc = "idle" /\ lease.state = "released"
        => \A o \in Ops : row[o].phase \notin Unresolved
=============================================================================
