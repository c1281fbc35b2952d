----------------------- MODULE InstallationLifecycle -----------------------
(***************************************************************************)
(* One installation end to end: requests admitted under its lease, the     *)
(* worker that executes them (StagedReplacement, SingleLifecycle,          *)
(* Reconciliation), helper crashes and the recovery of helper startup, the *)
(* operator's --resolve-operation, and containers that change behind the   *)
(* helper.                                                                 *)
(***************************************************************************)
EXTENDS StagedReplacement, SingleLifecycle, Reconciliation

NoJob == [kind |-> "none", gen |-> 0, base |-> 0]

Init ==
    /\ gen = [g \in Gens |-> NoRow]
    /\ recon = [state |-> "none", action |-> "none", checked |-> 0]
    /\ box = [g \in Gens |-> "absent"]
    /\ nets = {}
    /\ lease = "free" /\ holder = 0 /\ receipt = "none" /\ yielded = {}
    /\ pc = "idle" /\ job = NoJob /\ todo = {} /\ dirty = FALSE /\ verdict = "none"
    /\ helper = "up"
    /\ used = [crashes |-> 0, faults |-> 0, drift |-> 0, flaps |-> 0, resolves |-> 0]

\* executeMutation: where a request of each kind starts.
Entry(kind) ==
    CASE kind \in Replacements -> "prepare"
      [] kind \in Operations -> "operate"
      [] kind = "reconcile" -> "reconcile"
      [] OTHER -> "repair"

\* Begin: a repair may also take over the lease of an operation that awaits
\* recovery; that operation is superseded.
LeaseOpen(kind) ==
    \/ lease = "free"
    \/ lease = "recovery" /\ kind \in Repairs \cup {"recreate"}

\* serve and Begin.  A replacement names the generation the API believes to be
\* next, which may be stale; a recreation without evidence is answered before
\* Begin.
Begin(kind, target) ==
    /\ helper = "up" /\ pc = "idle" /\ holder < MaxOps
    /\ LeaseOpen(kind)
    /\ kind = "recreate" => RecreationEvidence(target)
    /\ lease' = "held" /\ holder' = holder + 1 /\ receipt' = "executing"
    /\ yielded' = (IF lease = "recovery" THEN yielded \cup {holder} ELSE yielded)

Admit(kind, target) ==
    /\ Begin(kind, target)
    /\ job' = [kind |-> kind, gen |-> target, base |-> 0]
    /\ pc' = Entry(kind)
    /\ UNCHANGED <<store, runtime, todo, dirty, verdict, helper, used>>

\* AuthorizeMutation cannot read the lease: the request is answered and dropped,
\* its receipt still executing and its lease still held.
AdmitUnauthorized(kind, target) ==
    /\ Begin(kind, target) /\ Fault
    /\ pc' = "unsaved" /\ job' = NoJob
    /\ UNCHANGED <<store, runtime, todo, dirty, verdict, helper>>

\* Complete: an unknown outcome keeps the lease for recovery.
Complete ==
    /\ At("complete")
    /\ receipt' = (IF verdict = "unknown" THEN "action_required" ELSE verdict)
    /\ lease' = (IF verdict = "unknown" THEN "recovery" ELSE "free")
    /\ pc' = "idle" /\ job' = NoJob /\ verdict' = "none"
    /\ UNCHANGED <<store, runtime, holder, yielded, todo, dirty, helper, used>>

\* The transaction of Complete fails and serve only answers: the receipt stays
\* executing and the lease held until the helper starts again.
CompleteFails ==
    /\ At("complete") /\ Fault
    /\ pc' = "unsaved" /\ job' = NoJob /\ verdict' = "none"
    /\ UNCHANGED <<store, runtime, ledger, todo, dirty, helper>>

----------------------------------------------------------------------------
(* Crash and startup. *)

Crash ==
    /\ helper # "down" /\ Spend("crashes", MaxCrashes)
    /\ helper' = "down"
    /\ pc' = "idle" /\ job' = NoJob /\ todo' = {} /\ dirty' = FALSE /\ verdict' = "none"
    /\ UNCHANGED <<store, runtime, ledger>>

\* Mutant: the lease of the interrupted operation is not looked at.
RestartKeepsLease ==
    /\ helper \in {"down", "aborted"}
    /\ helper' = "recovering"
    /\ UNCHANGED <<store, runtime, ledger, work, used>>

\* main: the coordinator turns the interrupted operation into action_required.
Restart ==
    /\ helper \in {"down", "aborted"}
    /\ helper' = "recovering"
    /\ IF lease = "held" THEN lease' = "recovery" /\ receipt' = "action_required"
                         ELSE UNCHANGED <<lease, receipt>>
    /\ UNCHANGED <<store, runtime, holder, yielded, work, used>>

\* The rows lifecycle.RecoverInterrupted looks at, and those it finds exactly
\* running.
Interrupted == {g \in Having({"candidate", "active"}) : lease = "recovery" /\ gen[g].op = holder}
RunningExactly == {g \in Interrupted : Exact(g) /\ gen[g].net /\ box[g] = "running"}

\* Mutant: the observation alone decides, not the recorded verification.
ForwardableObserved(g) ==
    g > 1 => IF HasActive THEN Current = g - 1 ELSE gen[g - 1].status = "removed"

\* What RecoverForward asks of the candidate before it commits it.
Forwardable(g) ==
    /\ gen[g].state = "running" /\ gen[g].hash
    /\ g > 1 => IF HasActive THEN Current = g - 1 ELSE gen[g - 1].status = "removed"

Resolved(newReceipt) == lease' = "free" /\ receipt' = newReceipt

\* The generation is already committed: FinalizeCommittedRecovery.
FinalizeCommitted ==
    /\ helper = "recovering"
    /\ \E g \in RunningExactly : gen[g].status = "active"
    /\ Resolved("succeeded") /\ helper' = "reconciling"
    /\ UNCHANGED <<store, runtime, holder, yielded, work, used>>

\* The candidate runs: RecoverForward commits it.
RecoverForward ==
    /\ helper = "recovering"
    /\ \E g \in RunningExactly :
          /\ gen[g].status = "candidate" /\ Forwardable(g)
          /\ gen' = CommitRows(g, FALSE)
    /\ Resolved("succeeded") /\ helper' = "reconciling"
    /\ UNCHANGED <<recon, runtime, holder, yielded, work, used>>

\* RecoverForward refuses, RecoverInterrupted returns its error, main exits.
RecoveryAborts ==
    /\ helper = "recovering"
    /\ \E g \in RunningExactly : gen[g].status = "candidate" /\ ~Forwardable(g)
    /\ helper' = "aborted"
    /\ UNCHANGED <<store, runtime, ledger, work, used>>

\* Nothing to recover, or nothing that can be proved: the lease is left as it is.
RecoverySkips ==
    /\ helper = "recovering"
    /\ \/ RunningExactly = {} /\ Smooth
       \/ Fault
    /\ helper' = "reconciling"
    /\ UNCHANGED <<store, runtime, ledger, work>>

\* ReconcileAll, for an installation with rows that are not removed.  main exits
\* when a classification cannot be saved.
StartupReconcile ==
    /\ helper = "reconciling"
    /\ IF Having(Statuses \ {"none", "removed"}) = {}
       THEN UNCHANGED store /\ Smooth /\ helper' = "up"
       ELSE \/ Observe /\ Smooth /\ helper' = "up"
            \/ Unobserved /\ Fault /\ helper' = "up"
            \/ ReconcileFails /\ Fault /\ helper' = "aborted"
    /\ UNCHANGED <<runtime, ledger, work>>

\* kitpro-helper --resolve-operation, run by root with or without the helper.
ResolveOperation ==
    /\ lease = "recovery" /\ Spend("resolves", MaxResolves)
    /\ Resolved("failed") /\ yielded' = yielded \cup {holder}
    /\ UNCHANGED <<store, runtime, holder, work, helper>>

----------------------------------------------------------------------------
(* Docker and its users. *)

ContainerExits(g) ==
    /\ box[g] = "running" /\ Spend("drift", MaxDrift)
    /\ box' = Set(g, "stopped")
    /\ UNCHANGED <<store, nets, ledger, work, helper>>

ContainerLost(g) ==
    /\ box[g] # "absent" /\ Spend("drift", MaxDrift)
    /\ box' = Set(g, "absent")
    /\ UNCHANGED <<store, nets, ledger, work, helper>>

\* The restart policy keeps restarting a container whose process exits.
ContainerFlaps(g) ==
    /\ Spend("flaps", MaxFlaps)
    /\ \/ box[g] = "running" /\ box' = Set(g, "restarting")
       \/ box[g] = "restarting" /\ box' = Set(g, "running")
    /\ UNCHANGED <<store, nets, ledger, work, helper>>

Startup ==
    \/ Restart \/ FinalizeCommitted \/ RecoverForward \/ RecoveryAborts
    \/ RecoverySkips \/ StartupReconcile

\* Accept blocks while there is no request.
AwaitRequest == pc \in {"idle", "unsaved"} /\ UNCHANGED vars

Work == ReplaceStep \/ OperateStep \/ RepairStep \/ Complete \/ CompleteFails

\* Only a replacement names a generation.
Targets(kind) == IF kind \in Replacements THEN Gens ELSE {0}

Next ==
    \/ \E kind \in Requests : \E g \in Targets(kind) : Admit(kind, g) \/ AdmitUnauthorized(kind, g)
    \/ AwaitRequest \/ Work \/ Crash \/ Startup \/ ResolveOperation
    \/ \E g \in Gens : ContainerExits(g) \/ ContainerLost(g) \/ ContainerFlaps(g)

Spec == Init /\ [][Next]_vars

\* A goroutine runs each request to its end, and systemd starts a helper that is
\* down (Restart=on-failure and socket activation).
FairSpec == Spec /\ WF_vars(Work) /\ WF_vars(Startup)

----------------------------------------------------------------------------
(* Properties. *)

Outcomes ==
    [state : {"none", "runtime_unknown", "action_required", "repairable", "runtime_missing",
              "degraded", "cleanup_pending", "consistent"},
     action : {"none", "recreate_generation", "start_active", "cleanup_resources",
               "acknowledge_retained_missing"},
     checked : 0..MaxGen]

Steps ==
    {"idle", "unsaved", "complete", "prepare", "network", "recordNetwork", "container", "recordCreated",
     "verifyStopped", "precutover", "stopOld", "startCandidate", "recordRunning", "verifyRunning",
     "commit", "olderContainer", "olderNetwork", "olderMark", "abortContainer", "abortNetwork",
     "abortMark", "cutoverFailed", "rollback", "operate", "opStop", "opRecordStop", "opStart",
     "opRecordStart", "opRemove", "opRemoveNetwork", "opMarkRemoved", "reconcile", "repair",
     "start_active", "cleanup_resources", "acknowledge_retained_missing", "repairRecord",
     "repairNetwork", "repairMark", "repairVerify"}

\* Every row, container, lease and worker is in one of the states the code knows.
TypeOK ==
    /\ gen \in [Gens -> Rows] /\ recon \in Outcomes
    /\ box \in [Gens -> BoxStates] /\ nets \in SUBSET Gens
    /\ lease \in {"free", "held", "recovery"} /\ holder \in 0..MaxOps
    /\ yielded \in SUBSET (0..MaxOps)
    /\ receipt \in {"none", "executing", "succeeded", "failed", "action_required"}
    /\ pc \in Steps
    /\ job \in [kind : Kinds \cup {"none"}, gen : 0..MaxGen, base : 0..MaxGen]
    /\ todo \in SUBSET Gens /\ dirty \in BOOLEAN
    /\ verdict \in {"none", "succeeded", "failed", "unknown"}
    /\ helper \in {"up", "down", "recovering", "reconciling", "aborted"}
    /\ used \in [crashes : Nat, faults : Nat, drift : Nat, flaps : Nat, resolves : Nat]

\* Commit and RecoverForward are the only switches of authority: whatever crashes,
\* retries and repairs happen, an installation has at most one active generation
\* and at most one retained one, and the retained one is older.
OneAuthority ==
    /\ Cardinality(Having({"active"})) <= 1
    /\ Cardinality(Having({"retained"})) <= 1
    /\ \A r \in Having({"retained"}), g \in Having({"active"}) : r < g

Executing == {g \in Gens : box[g] \in {"running", "restarting"}}

\* Two generations share one data path.  Cutover, rollback, forward recovery, the
\* operations and the repairs never let two of them run at once, whichever call
\* fails and wherever the helper crashes, except when the newer one is the
\* candidate of an operation whose recovery lease a repair took over or an
\* administrator released (README, "What the code does not keep"), or Docker has
\* kept restarting a container.
OneGenerationRuns ==
    used.flaps = 0 =>
        \A g, h \in Executing : g < h => gen[h].op \in yielded

\* A container or network that exists is never forgotten: its generation has a row
\* that is neither removed nor failed and clean.  Cleanup state tracks runtime
\* truth through lost answers, crashes between effect and record, and repairs.
NothingForgotten ==
    \A g \in Gens : ~Absent(g) =>
        /\ gen[g].status \notin {"none", "removed"}
        /\ ~(gen[g].status = "failed" /\ gen[g].cleanup = "clean")

\* The reply of a finished replacement is true: success means the new generation is
\* authoritative; plain failure means that nothing of the candidate is left, that
\* the old generation is still authoritative and, unless it exited or was removed
\* behind the helper, that it runs.
RepliesAreTrue ==
    pc = "complete" /\ job.kind \in Replacements =>
        /\ verdict = "succeeded" => gen[job.gen].status = "active"
        /\ verdict = "failed" /\ job.base # 0 =>
              /\ gen[job.base].status = "active"
              /\ Absent(job.gen)
              /\ job.kind # "recreate" /\ used.drift + used.flaps = 0 => box[job.base] = "running"

\* The container of the active generation is removed only by a remove request, or
\* by someone else: no cleanup, repair, rollback or recovery touches it.
ActiveSurvives ==
    [][\A g \in Gens :
          gen[g].status = "active" /\ box[g] # "absent" /\ box'[g] = "absent" =>
              job.kind = "remove" \/ used'.drift > used.drift]_vars

\* A generation loses authority only to its successor, recorded running with a
\* verified configuration, or to a removal whose container and network are gone.
AuthorityMoves ==
    [][\A g \in Gens :
          gen[g].status = "active" /\ gen'[g].status # "active" =>
              \/ /\ g + 1 \in Gens /\ gen'[g + 1].status = "active"
                 /\ gen[g + 1].status = "candidate"
                 /\ gen[g + 1].state = "running" /\ gen[g + 1].hash
              \/ gen'[g].status = "removed" /\ Absent(g)]_vars

\* Every admitted request ends with a receipt that is final or awaits recovery,
\* even if the helper crashes while it cleans up or starts.  The one exception is a
\* helper that lives on after it failed to write the receipt (AuthorizeMutation,
\* Complete): it never tries again, and only its next start settles the receipt.
OperationsEnd == lease = "held" ~> (lease # "held" \/ (pc = "unsaved" /\ helper = "up"))

\* recovery.go:9-12: "Ambiguous and pre-start cutovers remain action_required", so
\* no interrupted cutover keeps the helper from starting.
\* The code does not keep it and no run checks it: see the README.
StartupCompletes == helper # "aborted"

\* lifecycle-recovery.md:47: for `repairable`, "The helper proved one bounded repair
\* is safe": the recommended start_active never starts a second generation.
\* The code does not keep it and no run checks it: see the README.
RepairStartIsSafe ==
    [][pc = "start_active" /\ box' # box /\ used'.drift = used.drift =>
          Cardinality(Executing') <= 1]_vars

\* lifecycle-recovery.md:46: `consistent` means that "The recorded generation and
\* fresh runtime observation agree": no resource of any other generation remains.
\* The code does not keep it and no run checks it: see the README.
ConsistentMeansSettled ==
    pc = "complete" /\ job.kind = "reconcile" /\ verdict = "succeeded"
      /\ recon.state = "consistent" =>
        \A g \in Gens : ~Absent(g) => gen[g].status \in {"active", "retained"}
=============================================================================
