-------------------------- MODULE GenerationStore --------------------------
(***************************************************************************)
(* The durable state of one single-component installation and the Docker   *)
(* objects it owns: the rows of runtime_generations joined with            *)
(* runtime_components (lifecycle/store.go), the containers and networks,   *)
(* the installation's lease, and the position of the worker that executes  *)
(* the lease holder's request.  Leases make installations independent, so  *)
(* one installation is enough; the ledger itself is module HelperOps.      *)
(***************************************************************************)
EXTENDS Integers, FiniteSets, FiniteSetsExt

CONSTANTS Requests,     \* the kinds of request that clients make
          MaxGen,       \* generations an installation may reach
          MaxOps,       \* operations admitted
          MaxFaults,    \* failing Docker calls, observations or transactions
          MaxCrashes,   \* helper crashes
          MaxDrift,     \* containers that exit or are removed behind the helper
          MaxFlaps,     \* transitions of Docker's restart loop
          MaxResolves   \* uses of --resolve-operation --release-as-failed

Kinds == {"install", "update", "recreate", "start", "stop", "restart", "remove",
          "reconcile", "start_active", "cleanup_resources", "acknowledge_retained_missing"}

ASSUME LifecycleBounds ==
    /\ Requests \subseteq Kinds
    /\ MaxGen \in Nat \ {0}
    /\ {MaxOps, MaxFaults, MaxCrashes, MaxDrift, MaxFlaps, MaxResolves} \subseteq Nat

Gens == 1..MaxGen

VARIABLES
  gen,      \* the generation rows
  recon,    \* the saved reconciliation row
  box,      \* the container of each generation
  nets,     \* the generations whose network exists
  lease,    \* the installation's lease
  holder,   \* the operation that holds or last held it; 0 before the first
  receipt,  \* the state of that operation's receipt
  yielded,  \* the operations whose recovery lease a repair took over or
            \* --resolve-operation released
  pc,       \* the next step of the worker
  job,      \* the request the worker executes
  todo,     \* generations the worker still has to clean
  dirty,    \* the candidate's cleanup failed
  verdict,  \* how the executed request ended
  helper,   \* the helper process
  used      \* how much of each bound is spent

store == <<gen, recon>>
runtime == <<box, nets>>
ledger == <<lease, holder, receipt, yielded>>
work == <<pc, job, todo, dirty, verdict>>
vars == <<store, runtime, ledger, work, helper, used>>

----------------------------------------------------------------------------
(* Rows.  net, cid and hash say whether observed_network_id,               *)
(* observed_container_id and configuration_hash hold a value: names carry  *)
(* the generation and Prepare clears the identifiers of a reused row, so   *)
(* an identifier that is present is that of the container or network there. *)

Statuses == {"none", "prepared", "candidate", "active", "retained",
             "cleanup_pending", "failed", "removed"}
BoxStates == {"absent", "stopped", "detached", "restarting", "running"}

Rows == [status : Statuses, cleanup : {"not_required", "pending", "clean"},
         op : 0..MaxOps, net : BOOLEAN, cid : BOOLEAN, hash : BOOLEAN,
         state : {"unknown", "created", "stopped", "running", "removed"}]

NoRow == [status |-> "none", cleanup |-> "not_required", op |-> 0, net |-> FALSE,
          cid |-> FALSE, hash |-> FALSE, state |-> "unknown"]

Having(S) == {g \in Gens : gen[g].status \in S}

\* Store.Current and the baseline of Store.Commit: the active generation, else
\* the newest removed one, else 0.
Current ==
    IF Having({"active"}) # {} THEN Max(Having({"active"}))
    ELSE Max({0} \cup Having({"removed"}))

HasActive == Having({"active"}) # {}

----------------------------------------------------------------------------
(* Transactions of the store, as the table they leave. *)

\* Prepare reuses a row only when it is failed or removed, and clean.
Reusable(g) ==
    \/ gen[g].status = "none"
    \/ gen[g].status \in {"failed", "removed"} /\ gen[g].cleanup = "clean"

PrepareRow(g) ==
    [gen EXCEPT ![g] = [NoRow EXCEPT !.status = "prepared", !.op = holder]]

RecordNetworkRow(g) == [gen EXCEPT ![g].status = "candidate", ![g].net = TRUE]

\* RecordContainer stores "" for the hash until the stopped container is verified.
RecordContainerRow(g, state) ==
    [gen EXCEPT ![g].cid = TRUE, ![g].hash = (state = "stopped"), ![g].state = state]

RecordStateRow(g, state) == [gen EXCEPT ![g].state = state]

\* The fence of verifyGenerationFence: the operation still holds the lease.
FenceHolds == lease = "held"

\* What Commit requires of the baseline and of the candidate.
Committable(g) ==
    /\ FenceHolds
    /\ Current = g - 1
    /\ gen[g].status = "candidate" /\ gen[g].op = holder
    /\ gen[g].state = "running" /\ gen[g].hash

\* Mutant: the generation retained before is left retained.
SwitchKeepsOlder(g, expectedStatus, expectedCleanup) ==
    [h \in Gens |->
        CASE h = g -> [gen[h] EXCEPT !.status = "active", !.cleanup = "clean"]
          [] h = g - 1 /\ gen[h].status = "active" ->
                [gen[h] EXCEPT !.status = expectedStatus, !.cleanup = expectedCleanup]
          [] OTHER -> gen[h]]

\* Authority moves from expected = g - 1 to g in one transaction.  A baseline
\* replaced by recreation becomes debt, any other is retained.
Switch(g, expectedStatus, expectedCleanup) ==
    [h \in Gens |->
        CASE h = g -> [gen[h] EXCEPT !.status = "active", !.cleanup = "clean"]
          [] h = g - 1 /\ gen[h].status = "active" ->
                [gen[h] EXCEPT !.status = expectedStatus, !.cleanup = expectedCleanup]
          [] h # g - 1 /\ gen[h].status = "retained" ->
                [gen[h] EXCEPT !.status = "cleanup_pending", !.cleanup = "pending"]
          [] OTHER -> gen[h]]

CommitRows(g, recreate) ==
    IF recreate THEN Switch(g, "cleanup_pending", "pending")
                ELSE Switch(g, "retained", "not_required")

MarkFailedRow(g, cleanup) ==
    [gen EXCEPT ![g].status = "failed", ![g].cleanup = cleanup]

\* MarkRemoved, MarkNonActiveRemoved, MarkReconciledAbsent and
\* MarkActiveRemoved write the same tombstone over different guards.
Tombstone(row) ==
    [row EXCEPT !.status = "removed", !.cleanup = "clean", !.state = "removed"]

MarkCleanupPendingRow(g) ==
    IF gen[g].status = "retained"
    THEN [gen EXCEPT ![g].status = "cleanup_pending", ![g].cleanup = "pending"]
    ELSE gen

\* Generations cleaned after a commit that leaves table.
OlderRetained(table, keep) ==
    {h \in Gens : /\ h # keep
                  /\ \/ table[h].status \in {"retained", "cleanup_pending"}
                     \/ table[h].status = "failed" /\ table[h].cleanup = "pending"}

----------------------------------------------------------------------------
(* Docker, as the lifecycle code uses it.  A call that fails may have been *)
(* applied; a failed start may also leave the container without its        *)
(* network attachment (runner.go, detachedStoppedConfigurationMatches).    *)

Set(g, s) == [box EXCEPT ![g] = s]

StartAfterError(g) ==
    IF box[g] = "stopped" THEN {box, Set(g, "running"), Set(g, "detached")} ELSE {box}

StopAfterError(g) ==
    IF box[g] \in {"running", "restarting"} THEN {box, Set(g, "stopped")} ELSE {box}

\* Docker refuses to remove a running or restarting container without force.
Removable(g) == box[g] \in {"stopped", "detached"}

RemoveAfterError(g) ==
    IF Removable(g) THEN {box, Set(g, "absent")} ELSE {box}

\* The identity, network and configuration checks of verifyStoredGeneration and
\* observeExact, apart from the wanted state.
Exact(g) == gen[g].cid /\ g \in nets /\ box[g] \notin {"absent", "detached"}

\* observeRepairableActive: exactly gone, or an exact container that runs, is
\* stopped, or has only lost its attachment.
Repairable(g) == box[g] # "restarting"

----------------------------------------------------------------------------
(* The worker. *)

Spend(what, bound) ==
    used[what] < bound /\ used' = [used EXCEPT ![what] = @ + 1]

Fault == Spend("faults", MaxFaults)

Smooth == UNCHANGED used

At(p) == helper = "up" /\ pc = p

\* The parts of the state that a worker's step leaves to others.
Outside == UNCHANGED <<ledger, helper, job>>

Goto(p) == pc' = p /\ UNCHANGED <<todo, dirty, verdict>>

Finish(v) == pc' = "complete" /\ verdict' = v /\ todo' = {} /\ dirty' = FALSE
=============================================================================
