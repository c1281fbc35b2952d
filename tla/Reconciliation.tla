--------------------------- MODULE Reconciliation ---------------------------
(***************************************************************************)
(* Reconciler and Repairer (lifecycle/reconciliation.go, repair.go): the   *)
(* recorded generations are compared with an observation of Docker, the    *)
(* differences are classified into one state with one recommended action,  *)
(* and a repair applies that action to exactly owned resources.            *)
(***************************************************************************)
EXTENDS GenerationStore

Repairs == {"start_active", "cleanup_resources", "acknowledge_retained_missing"}

Role(g) ==
    CASE gen[g].status = "active" -> "active"
      [] gen[g].status = "retained" -> "retained"
      [] gen[g].status = "cleanup_pending" -> "cleanup"
      [] gen[g].status \in {"candidate", "prepared", "failed"} -> "candidate"
      [] OTHER -> "none"

\* The state a generation is expected in.
ExpectedState(g) ==
    CASE Role(g) = "retained" -> "stopped"
      [] gen[g].state \in {"running", "stopped"} -> gen[g].state
      [] Role(g) = "active" -> "running"
      [] OTHER -> "stopped"

\* The container lost only its network attachment after a failed start.
DetachedExact(g) == box[g] = "detached" /\ g \in nets /\ gen[g].hash

\* observeGeneration: the mismatch codes of one generation.
MissingCodes(g) ==
    CASE Role(g) = "active" -> {"active_container_missing"}
      [] Role(g) = "retained" -> {"retained_generation_missing"}
      [] OTHER -> {}

NetworkCodes(g) ==
    CASE DetachedExact(g) /\ Role(g) = "active" -> {"active_container_detached"}
      [] DetachedExact(g) /\ Role(g) # "active" -> {"cleanup_pending"}
      [] ~DetachedExact(g) /\ box[g] = "detached" -> {"network_mismatch"}
      [] g \notin nets /\ ~(Role(g) \in {"candidate", "cleanup"} /\ box[g] = "stopped") ->
             {"network_mismatch"}
      [] OTHER -> {}

StateCodes(g) ==
    {k \in {"active_container_stopped", "active_container_running",
            "active_container_unstable", "retained_generation_running"} :
        CASE k = "active_container_stopped" ->
                 Role(g) = "active" /\ ExpectedState(g) = "running" /\ box[g] \in {"stopped", "detached"}
          [] k = "active_container_running" ->
                 Role(g) = "active" /\ ExpectedState(g) = "stopped" /\ box[g] = "running"
          [] k = "active_container_unstable" -> Role(g) = "active" /\ box[g] = "restarting"
          [] OTHER -> Role(g) = "retained" /\ box[g] = "running"}

GenerationCodes(g) ==
    IF box[g] = "absent" THEN MissingCodes(g) ELSE NetworkCodes(g) \cup StateCodes(g)

\* classifyNonActive: debt that is already gone, debt that remains, and exact
\* resources of a generation that was never committed.
Absent(g) == box[g] = "absent" /\ g \notin nets

\* Mutant: debt counts as gone when its container is.
ContainerAbsent ==
    {g \in Having({"cleanup_pending", "failed"}) : gen[g].cleanup = "pending" /\ box[g] = "absent"}

ReconciledAbsent ==
    {g \in Having({"cleanup_pending", "failed"}) : gen[g].cleanup = "pending" /\ Absent(g)}

NonActiveCodes(g) ==
       (IF gen[g].cleanup = "pending" /\ ~Absent(g) THEN {"cleanup_pending"} ELSE {})
  \cup (IF Role(g) = "candidate" /\ box[g] # "absent" /\ GenerationCodes(g) = {}
        THEN {"candidate_orphaned"} ELSE {})

Codes ==
    UNION {GenerationCodes(g) \cup (IF Role(g) = "active" THEN {} ELSE NonActiveCodes(g)) :
           g \in {h \in Gens : Role(h) # "none"}}

\* finish: the first code of this list decides.
Decide(codes) ==
    CASE codes \cap {"network_mismatch", "retained_generation_running", "active_container_running"} # {} ->
             [state |-> "action_required", action |-> "none"]
      [] "active_container_detached" \in codes ->
             [state |-> "repairable", action |-> "recreate_generation"]
      [] "active_container_missing" \in codes ->
             [state |-> "runtime_missing", action |-> "recreate_generation"]
      [] "active_container_unstable" \in codes -> [state |-> "degraded", action |-> "none"]
      [] "active_container_stopped" \in codes -> [state |-> "repairable", action |-> "start_active"]
      [] codes \cap {"candidate_orphaned", "cleanup_pending"} # {} ->
             [state |-> "cleanup_pending", action |-> "cleanup_resources"]
      [] "retained_generation_missing" \in codes ->
             [state |-> "degraded", action |-> "acknowledge_retained_missing"]
      [] OTHER -> [state |-> "consistent", action |-> "none"]

CheckedGeneration ==
    LET live == {g \in Gens : Role(g) # "none"}
        rank(g) == CASE gen[g].status = "active" -> 0 [] gen[g].status = "retained" -> 2
                     [] gen[g].status = "cleanup_pending" -> 3 [] OTHER -> 4
    IN  IF live = {} THEN Max({0} \cup Having({"removed"}))
        ELSE CHOOSE g \in live : \A h \in live :
                rank(g) < rank(h) \/ (rank(g) = rank(h) /\ g >= h)

HasRows == Having(Statuses \ {"none"}) # {}

\* Reconcile with its writes: debt found absent becomes a tombstone, one
\* transaction per generation, and then the classification is saved.
Tombstoned(S) == [g \in Gens |-> IF g \in S THEN Tombstone(gen[g]) ELSE gen[g]]
ReconciledRows == Tombstoned(ReconciledAbsent)
PartlyReconciled == {Tombstoned(S) : S \in SUBSET ReconciledAbsent}

Observe ==
    /\ gen' = ReconciledRows
    /\ recon' = [state |-> Decide(Codes).state, action |-> Decide(Codes).action,
                 checked |-> CheckedGeneration]

\* Docker cannot be observed, from the start or after some debt was dealt with.
\* The checked generation is not read when no action is recommended.
Unobserved ==
    /\ gen' \in PartlyReconciled
    /\ recon' = [state |-> "runtime_unknown", action |-> "none", checked |-> 0]

\* The rows cannot be read or the classification cannot be saved: the tombstones
\* written before stay.
ReconcileFails == gen' \in PartlyReconciled /\ UNCHANGED recon

ReconcileInstallation ==
    /\ At("reconcile")
    /\ \/ HasRows /\ Observe /\ Smooth /\ Finish("succeeded")
       \/ ~HasRows /\ UNCHANGED store /\ Smooth /\ Finish("failed")
       \/ Fault /\ HasRows /\ Unobserved /\ Finish("succeeded")
       \/ Fault /\ ReconcileFails /\ Finish("failed")
    /\ UNCHANGED runtime /\ Outside

----------------------------------------------------------------------------
(* Repairs. *)

Eligible == recon'.action = job.kind \/ recon'.state = "consistent"

\* Mutant: the active generation is cleaned as well.
CleanableWithActive(table) == {g \in Gens : table[g].status \notin {"none", "removed"}}

\* The generations cleanupNonActive looks at.
Cleanable(table) == {g \in Gens : table[g].status \notin {"none", "removed", "active"}}

\* Repair begins with a reconciliation of its own.
RepairValidate ==
    /\ At("repair")
    /\ \/ /\ HasRows /\ Observe /\ Eligible /\ Smooth
          /\ pc' = job.kind
          /\ todo' = (IF job.kind # "cleanup_resources" THEN {}
                      ELSE Cleanable(gen'))
          /\ UNCHANGED <<dirty, verdict>>
       \/ HasRows /\ Observe /\ ~Eligible /\ Smooth /\ Finish("failed")
       \/ ~HasRows /\ UNCHANGED store /\ Smooth /\ Finish("failed")
       \/ Fault /\ HasRows /\ (Observe \/ Unobserved \/ ReconcileFails) /\ Finish("failed")
    /\ UNCHANGED runtime /\ Outside

\* verifyExactComponent accepts a container that lost only its attachment.
VerifiedIn(g, states) == (Exact(g) \/ DetachedExact(g)) /\ box[g] \in states

\* startActive on the one component.
RepairStart ==
    /\ At("start_active")
    /\ \/ /\ HasActive /\ VerifiedIn(Current, {"stopped", "detached"})
          /\ box' = Set(Current, "running") /\ Smooth /\ Goto("repairRecord")
       \/ /\ HasActive /\ VerifiedIn(Current, {"running"})
          /\ UNCHANGED box /\ Smooth /\ Goto("repairVerify")
       \/ /\ ~(HasActive /\ VerifiedIn(Current, {"stopped", "detached", "running"}))
          /\ UNCHANGED box /\ Smooth /\ Finish("failed")
       \/ /\ Fault /\ HasActive /\ box' \in StartAfterError(Current)
          /\ \E v \in {"failed", "unknown"} : Finish(v)
    /\ UNCHANGED <<store, nets>> /\ Outside

RepairRecord ==
    /\ At("repairRecord")
    /\ \/ gen' = RecordStateRow(Current, "running") /\ Smooth /\ Goto("repairVerify")
       \/ Fault /\ UNCHANGED gen /\ Finish("failed")
    /\ UNCHANGED <<recon, runtime>> /\ Outside

\* cleanupNonActive: the generations in the order of ReconciliationGenerations.
debt ==
    LET rank(g) == CASE gen[g].status = "retained" -> 2
                     [] gen[g].status = "cleanup_pending" -> 3 [] OTHER -> 4
    IN  CHOOSE g \in todo : \A h \in todo : rank(g) < rank(h) \/ (rank(g) = rank(h) /\ g >= h)

RepairNext(left) ==
    /\ pc' = (IF left = {} THEN "repairVerify" ELSE "cleanup_resources")
    /\ todo' = left /\ UNCHANGED <<dirty, verdict>>

\* A retained generation is spared unless it is detached; one that cannot be
\* verified stops the repair.
Spared(g) == gen[g].status = "retained" /\ (g \notin nets \/ Exact(g))

Refused(g) ==
    \/ gen[g].status = "retained" /\ g \in nets /\ ~Exact(g) /\ ~DetachedExact(g)
    \/ box[g] = "restarting"
    \/ box[g] = "detached" /\ ~DetachedExact(g)

RepairRemoveContainer ==
    /\ At("cleanup_resources")
    /\ \/ todo = {} /\ UNCHANGED box /\ Smooth /\ Goto("repairVerify")
       \/ /\ todo # {} /\ Spared(debt)
          /\ UNCHANGED box /\ Smooth /\ RepairNext(todo \ {debt})
       \/ /\ todo # {} /\ ~Spared(debt) /\ Refused(debt)
          /\ UNCHANGED box /\ Smooth /\ Finish("failed")
       \/ /\ todo # {} /\ ~Spared(debt) /\ ~Refused(debt) /\ box[debt] = "running"
          /\ box' = Set(debt, "stopped") /\ Smooth /\ Goto("cleanup_resources")
       \/ /\ todo # {} /\ ~Spared(debt) /\ ~Refused(debt) /\ box[debt] # "running"
          /\ box' = Set(debt, "absent") /\ Smooth /\ Goto("repairNetwork")
       \/ /\ Fault /\ todo # {} /\ ~Spared(debt)
          /\ box' \in CASE Refused(debt) -> {box}
                       [] ~Refused(debt) /\ box[debt] = "running" -> StopAfterError(debt)
                       [] OTHER -> RemoveAfterError(debt)
          /\ \E v \in {"failed", "unknown"} : Finish(v)
    /\ UNCHANGED <<store, nets>> /\ Outside

RepairRemoveNetwork ==
    /\ At("repairNetwork")
    /\ \/ nets' = nets \ {debt} /\ Smooth /\ Goto("repairMark")
       \/ /\ Fault /\ nets' \in {nets, nets \ {debt}}
          /\ \E v \in {"failed", "unknown"} : Finish(v)
    /\ UNCHANGED <<store, box>> /\ Outside

RepairMark ==
    /\ At("repairMark")
    /\ \/ /\ gen' = [gen EXCEPT ![debt] = Tombstone(@)] /\ Smooth
          /\ RepairNext(todo \ {debt})
       \/ Fault /\ UNCHANGED gen /\ Finish("failed")
    /\ UNCHANGED <<recon, runtime>> /\ Outside

\* acknowledgeRetainedLoss: a network that is still there becomes debt.
LostRetained == {g \in Having({"retained"}) : box[g] = "absent"}

Acknowledge ==
    /\ At("acknowledge_retained_missing")
    /\ \/ /\ LostRetained # {} /\ Smooth /\ Goto("repairVerify")
          /\ gen' = [g \in Gens |->
                CASE g \in LostRetained /\ g \in nets ->
                         [gen[g] EXCEPT !.status = "cleanup_pending", !.cleanup = "pending"]
                  [] g \in LostRetained /\ g \notin nets -> Tombstone(gen[g])
                  [] OTHER -> gen[g]]
       \/ LostRetained = {} /\ UNCHANGED gen /\ Smooth /\ Finish("failed")
       \/ Fault /\ UNCHANGED gen /\ Finish("failed")
    /\ UNCHANGED <<recon, runtime>> /\ Outside

RepairVerify ==
    /\ At("repairVerify")
    /\ \/ Observe /\ Smooth /\ Finish("succeeded")
       \/ Fault /\ Unobserved /\ Finish("succeeded")
       \/ Fault /\ (Observe \/ Unobserved \/ ReconcileFails) /\ Finish("failed")
    /\ UNCHANGED runtime /\ Outside

RepairStep ==
    \/ ReconcileInstallation \/ RepairValidate \/ RepairStart \/ RepairRecord
    \/ RepairRemoveContainer \/ RepairRemoveNetwork \/ RepairMark \/ Acknowledge
    \/ RepairVerify
=============================================================================
