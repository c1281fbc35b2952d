--------------------------- MODULE MultiLifecycle ---------------------------
(***************************************************************************)
(* One installation of several components (lifecycle/multi_runner.go,      *)
(* multi_store.go and the multi-component half of kitpro-helper/main.go).  *)
(* A replacement builds a whole generation beside the active one, stops    *)
(* the old components in reverse start order, starts and verifies the new  *)
(* ones in start order and moves authority in one transaction; any one of  *)
(* these steps may fail.  Every Docker call and every record of it is a    *)
(* step of its own, so that a crash may fall between them.                 *)
(*                                                                         *)
(* Configuration drift and Docker's restart loop are checked for single    *)
(* containers in InstallationLifecycle and left out here: the identifier   *)
(* of a container stands for its identity, labels and configuration.       *)
(***************************************************************************)
EXTENDS Integers, FiniteSets, FiniteSetsExt

CONSTANTS N,            \* components of the application, numbered by start ordinal
          Deps,         \* the components each one depends on
          Requests,     \* the kinds of request that clients make
          MaxGen,       \* generations an installation may reach
          MaxOps,       \* operations admitted
          MaxFaults,    \* failing Docker calls, observations or transactions
          MaxLostSteps, \* results of component steps that cannot be recorded
          MaxCrashes,   \* helper crashes
          MaxDrift      \* containers that exit or are removed behind the helper

Comps == 1..N
Gens == 1..MaxGen
Kinds == {"install", "update", "recreate", "start", "stop", "restart", "remove"}

\* validateMultiPlan: a plan is dependency-first.
ASSUME MultiPlan ==
    /\ N \in Nat /\ N >= 2
    /\ Deps \in [Comps -> SUBSET Comps]
    /\ \A x \in Comps : \A d \in Deps[x] : d < x
    /\ Requests \subseteq Kinds
    /\ MaxGen \in Nat \ {0}
    /\ {MaxOps, MaxFaults, MaxLostSteps, MaxCrashes, MaxDrift} \subseteq Nat

VARIABLES
  gen,      \* rows of runtime_generations
  rec,      \* rows of runtime_components
  legacy,   \* rows of component_ownership, written by releases without generations
  evidence, \* the generation for which reconciliation recommends recreation
  box,      \* the containers
  nets,     \* the generations whose network exists
  lease, holder,  \* the installation's lease
  waiting,  \* the operations whose receipt says action_required
  pc,       \* the next step of the worker
  job,      \* its request, the generation it replaces and the mutation it applies
  todo,     \* components left in the current loop
  older,    \* generations left in cleanupOlder
  stopped,  \* old components stopped for the cutover
  started,  \* candidate components started and verified
  tried,    \* candidate components whose stop step is in the ledger
  cause,    \* the error the request failed with
  verdict,  \* how the request ended
  helper,   \* the helper process
  used      \* how much of each bound is spent

store == <<gen, rec, legacy, evidence>>
runtime == <<box, nets>>
ledger == <<lease, holder, waiting>>
progress == <<older, stopped, started, tried>>
work == <<pc, job, todo, progress, cause, verdict>>
vars == <<store, runtime, ledger, work, helper, used>>

----------------------------------------------------------------------------
(* Rows.  id and hash say whether observed_container_id and                *)
(* configuration_hash hold a value; net whether observed_network_id does.  *)

NoRow == [status |-> "none", cleanup |-> "not_required", op |-> 0, net |-> FALSE]
NoComponent == [id |-> FALSE, hash |-> FALSE, state |-> "unknown"]
NoJob == [kind |-> "none", gen |-> 0, base |-> 0, act |-> "none"]

Having(S) == {g \in Gens : gen[g].status \in S}

\* MultiCurrent: the active generation, else one that awaits verification, else
\* the newest removed one; 0 if there is none.
MultiCurrent ==
    LET live == Having({"active"}) IN
    IF live # {} THEN Max(live)
    ELSE IF Having({"verification_required"}) # {} THEN Max(Having({"verification_required"}))
    ELSE Max({0} \cup Having({"removed"}))

CurrentStatus == IF MultiCurrent = 0 THEN "none" ELSE gen[MultiCurrent].status
HasActive == Having({"active"}) # {}
c == job.gen

RollbackSafe == job.kind = "install"
AllowMissingActive == job.kind = "recreate"

\* PrepareMulti, RecordMultiNetwork, RecordMultiContainer, MarkMultiFailed.
PrepareMulti(g) ==
    /\ gen' = [gen EXCEPT ![g] = [NoRow EXCEPT !.status = "prepared", !.op = holder]]
    /\ rec' = [rec EXCEPT ![g] = [x \in Comps |-> NoComponent]]

Reusable(g) ==
    \/ gen[g].status = "none"
    \/ gen[g].status \in {"failed", "removed"} /\ gen[g].cleanup = "clean"

RecordMultiNetwork(g) == [gen EXCEPT ![g].status = "candidate", ![g].net = TRUE]

RecordMultiContainer(g, x, state, verified) ==
    [rec EXCEPT ![g][x] = [id |-> TRUE, hash |-> @.hash \/ verified, state |-> state]]

MarkMultiFailed(g, cleanup) ==
    IF gen[g].status \in {"prepared", "candidate"} /\ gen[g].op = holder
    THEN [gen EXCEPT ![g].status = "failed", ![g].cleanup = cleanup] ELSE gen

MarkCleanupPending(g) ==
    IF gen[g].status = "retained"
    THEN [gen EXCEPT ![g].status = "cleanup_pending", ![g].cleanup = "pending"] ELSE gen

MarkRemoved(g) ==
    /\ gen' = [gen EXCEPT ![g].status = "removed", ![g].cleanup = "clean"]
    /\ rec' = [rec EXCEPT ![g] = [x \in Comps |-> [@[x] EXCEPT !.state = "removed"]]]

AllVerified(g) == \A x \in Comps : rec[g][x].state = "running" /\ rec[g][x].hash

\* What CommitMulti requires inside its transaction.
Committable(g) ==
    /\ lease = "held"
    /\ g - 1 = (IF HasActive THEN Max(Having({"active"})) ELSE Max({0} \cup Having({"removed"})))
    /\ gen[g].status = "candidate" /\ gen[g].op = holder
    /\ AllVerified(g)

\* CommitMulti and RecoverForwardMulti: N is retired, or becomes debt when it was
\* recreated, and N+1 is activated; a generation retained before becomes debt.
CommitMulti(g, recreate) ==
    [h \in Gens |->
        CASE h = g -> [gen[h] EXCEPT !.status = "active", !.cleanup = "clean"]
          [] h = g - 1 /\ gen[h].status = "active" ->
                [gen[h] EXCEPT !.status = IF recreate THEN "cleanup_pending" ELSE "retained",
                               !.cleanup = IF recreate THEN "pending" ELSE "not_required"]
          [] h # g - 1 /\ gen[h].status = "retained" ->
                [gen[h] EXCEPT !.status = "cleanup_pending", !.cleanup = "pending"]
          [] OTHER -> gen[h]]

MultiOlderRetained(table, keep) ==
    {h \in Gens : /\ h # keep
                  /\ \/ table[h].status \in {"retained", "cleanup_pending"}
                     \/ table[h].status = "failed" /\ table[h].cleanup = "pending"}

----------------------------------------------------------------------------
(* Observation. *)

AllIn(g, state) == \A x \in Comps : box[g][x] = state
Absent(g) == AllIn(g, "absent") /\ g \notin nets

\* verifyGeneration: the network and every component, exactly, in one state.
VerifyGeneration(g, want) ==
    g \in nets /\ AllIn(g, want) /\ \A x \in Comps : rec[g][x].id

\* observeRepairableGeneration: components may be gone, the others must be exact
\* on the generation's network.
RepairableGeneration(g) == AllIn(g, "absent") \/ g \in nets

\* What loadActive and the pre-cutover check ask of the active generation.
BaseVerified(g) ==
    \/ VerifyGeneration(g, "running")
    \/ AllowMissingActive /\ gen[g].status = "active" /\ RepairableGeneration(g)

----------------------------------------------------------------------------
(* The worker. *)

Spend(what, bound) ==
    used[what] < bound /\ used' = [used EXCEPT ![what] = @ + 1]

Fault == Spend("faults", MaxFaults)
Smooth == UNCHANGED used
At(p) == helper = "up" /\ pc = p
Outside == UNCHANGED <<legacy, evidence, ledger, helper>>
Goto(p) == pc' = p /\ UNCHANGED <<job, progress, cause, verdict>>
Loop(p, S) == Goto(p) /\ todo' = S
Finish(v) ==
    /\ pc' = "complete" /\ verdict' = v /\ cause' = "none" /\ todo' = {}
    /\ older' = {} /\ stopped' = {} /\ started' = {} /\ tried' = {} /\ UNCHANGED job

\* failBeforeCutover: the candidate is removed before the error is reported.
Abort == pc' = "abort" /\ todo' = Comps /\ cause' = "failed" /\ UNCHANGED <<job, progress, verdict>>

\* afterCutoverFailure: the candidate components recorded as started are stopped
\* first.  e is the error that ended the cutover.
CutoverFailed(e) ==
    /\ pc' = "rollStop" /\ todo' = started /\ cause' = e
    /\ UNCHANGED <<job, progress, verdict>>

\* mutateExisting on one container: observe, write the step, call Docker, observe
\* again, write the result.
Set(g, x, s) == [box EXCEPT ![g][x] = s]
Owned(g, x) == rec[g][x].id /\ box[g][x] # "absent"
Mutated(g, x, s) == Owned(g, x) /\ box' = Set(g, x, s) /\ Smooth

\* Its errors: ownership is ambiguous or the call was not applied (plain), the
\* container cannot be observed after the call (unknown), or the result of an
\* applied call cannot be recorded (plain).
MutateFails(g, x, s, e) ==
    \/ e = "failed" /\ ~Owned(g, x) /\ UNCHANGED box /\ Smooth
    \/ e = "failed" /\ UNCHANGED box /\ Fault
    \/ e = "unknown" /\ Owned(g, x) /\ box' \in {box, Set(g, x, s)} /\ Fault
    \/ e = "failed" /\ Owned(g, x) /\ box' = Set(g, x, s) /\ Spend("lost", MaxLostSteps)

----------------------------------------------------------------------------
(* Legacy installations. *)

\* BackfillLegacyMulti keeps the identifiers and nothing else.
Backfilled ==
    /\ gen' = [gen EXCEPT ![1] = [NoRow EXCEPT !.status = "verification_required"]]
    /\ rec' = [rec EXCEPT ![1] = [x \in Comps |-> [NoComponent EXCEPT !.id = TRUE]]]

\* PromoteMigratedMulti: the observed network and configuration become the record.
Promoted(g, state) ==
    /\ gen' = [gen EXCEPT ![g].status = "active", ![g].cleanup = "clean", ![g].net = TRUE]
    /\ rec' = [rec EXCEPT ![g] = [x \in Comps |-> [id |-> TRUE, hash |-> TRUE, state |-> state]]]

\* backfillLegacyMulti and backfillLegacyMultiForLifecycle, as a request meets them:
\* rows that match no trusted topology exactly are never migrated.
LegacyAmbiguous == legacy = "mixed" /\ Having({"none"}) = Gens

----------------------------------------------------------------------------
(* Replace. *)

Replaceable ==
    /\ ~LegacyAmbiguous
    /\ c = MultiCurrent + 1
    /\ CurrentStatus \in {"active", "verification_required"} => BaseVerified(MultiCurrent)
    /\ Reusable(c)

\* createMultiApplication up to PrepareMulti.  A migrated generation that runs
\* exactly is promoted on the way.
Prepare ==
    /\ At("prepare")
    /\ \/ /\ LegacyAmbiguous /\ c = 2 /\ UNCHANGED <<gen, rec>> /\ Smooth /\ Finish("unknown")
       \/ /\ Replaceable /\ Smooth
          /\ IF CurrentStatus = "verification_required"
             THEN Promoted(MultiCurrent, "running") /\ Loop("prepare", {})
             ELSE /\ PrepareMulti(c) /\ pc' = "pull" /\ todo' = {}
                  /\ job' = [job EXCEPT !.base = IF HasActive THEN MultiCurrent ELSE 0]
                  /\ UNCHANGED <<progress, cause, verdict>>
       \/ /\ ~Replaceable /\ ~(LegacyAmbiguous /\ c = 2)
          /\ UNCHANGED <<gen, rec>> /\ Smooth /\ Finish("failed")
       \/ Fault /\ UNCHANGED <<gen, rec>> /\ Finish("failed")
    /\ UNCHANGED runtime /\ Outside

\* Every image is pulled before an active component is stopped.
Pull ==
    /\ At("pull")
    /\ \/ Smooth /\ Loop("network", {})
       \/ Fault /\ (Abort \/ Finish("unknown"))
    /\ UNCHANGED <<gen, rec, runtime>> /\ Outside

CreateNetwork ==
    /\ At("network")
    /\ \/ nets' = nets \cup {c} /\ Smooth /\ Loop("recordNetwork", {})
       \/ Fault /\ nets' = nets /\ Abort
       \/ Fault /\ nets' \in {nets, nets \cup {c}} /\ Finish("unknown")
    /\ UNCHANGED <<gen, rec, box>> /\ Outside

RecordNetwork ==
    /\ At("recordNetwork")
    /\ \/ gen' = RecordMultiNetwork(c) /\ Smooth /\ Loop("create", Comps)
       \/ Fault /\ UNCHANGED gen /\ Finish("unknown")
    /\ UNCHANGED <<rec, runtime>> /\ Outside

next == Min(todo)
last == Max(todo)

CreateComponent ==
    /\ At("create")
    /\ \/ box' = Set(c, next, "stopped") /\ Smooth /\ Loop("recordCreated", todo)
       \/ Fault /\ box' = box /\ Abort
       \/ Fault /\ box' \in {box, Set(c, next, "stopped")} /\ Finish("unknown")
    /\ UNCHANGED <<gen, rec, nets>> /\ Outside

\* Mutant: the identifier is recorded with the verified configuration only.
RecordNothing == rec' = rec /\ Smooth /\ Loop("verifyCreated", todo)

\* The identifier is recorded before the container is verified.
RecordCreatedRow ==
    rec' = RecordMultiContainer(c, next, "created", FALSE) /\ Smooth /\ Loop("verifyCreated", todo)

RecordCreated ==
    /\ At("recordCreated")
    /\ \/ RecordCreatedRow
       \/ Fault /\ UNCHANGED rec /\ Finish("unknown")
    /\ UNCHANGED <<gen, runtime>> /\ Outside

VerifyCreated ==
    /\ At("verifyCreated")
    /\ \/ /\ box[c][next] = "stopped" /\ Smooth
          /\ rec' = RecordMultiContainer(c, next, "stopped", TRUE)
          /\ IF todo = {next} THEN Loop("precutover", {}) ELSE Loop("create", todo \ {next})
       \/ box[c][next] # "stopped" /\ UNCHANGED rec /\ Smooth /\ Abort
       \/ Fault /\ UNCHANGED rec /\ (Abort \/ Finish("unknown"))
       \/ Fault /\ rec' = RecordMultiContainer(c, next, "stopped", TRUE) /\ Finish("unknown")
    /\ UNCHANGED <<gen, runtime>> /\ Outside

\* Fresh observations of both generations, before the first destructive call.
CutoverReady == (job.base # 0 => BaseVerified(job.base)) /\ VerifyGeneration(c, "stopped")

StopOldNext(S) == IF S = {} THEN Loop("startCandidate", Comps) ELSE Loop("stopOld", S)

PreCutover ==
    /\ At("precutover")
    /\ \/ /\ CutoverReady /\ Smooth
          /\ StopOldNext(IF job.base = 0 THEN {} ELSE {x \in Comps : box[job.base][x] = "running"})
       \/ ~CutoverReady /\ Smooth /\ Abort
       \/ Fault /\ Abort
    /\ UNCHANGED <<gen, rec, runtime>> /\ Outside

StopOld ==
    /\ At("stopOld")
    /\ \/ Mutated(job.base, last, "stopped") /\ Loop("recordOldStopped", todo)
       \/ \E e \in {"failed", "unknown"} :
              MutateFails(job.base, last, "stopped", e) /\ CutoverFailed(e)
    /\ UNCHANGED <<gen, rec, nets>> /\ Outside

\* Mutant: a component that was stopped is not noted for the rollback.
NoteStoppedNever(x) == stopped' = stopped

NoteStopped(x) == stopped' = stopped \cup {x}

RecordOldStopped ==
    /\ At("recordOldStopped")
    /\ NoteStopped(last)
    /\ \/ /\ rec' = RecordMultiContainer(job.base, last, "stopped", FALSE) /\ Smooth
          /\ todo' = (IF todo = {last} THEN Comps ELSE todo \ {last})
          /\ pc' = (IF todo = {last} THEN "startCandidate" ELSE "stopOld")
          /\ UNCHANGED cause
       \/ Fault /\ UNCHANGED rec /\ pc' = "rollStop" /\ todo' = {} /\ cause' = "failed"
    /\ UNCHANGED <<gen, runtime, job, older, started, tried, verdict>> /\ Outside

\* The rows of the candidate are read again for each component; without them the
\* outcome is unknown.
StartCandidate ==
    /\ At("startCandidate")
    /\ \/ Mutated(c, next, "running") /\ Loop("verifyStarted", todo)
       \/ Fault /\ UNCHANGED box /\ Finish("unknown")
       \/ \E e \in {"failed", "unknown"} : MutateFails(c, next, "running", e) /\ CutoverFailed(e)
    /\ UNCHANGED <<gen, rec, nets>> /\ Outside

VerifyStarted ==
    /\ At("verifyStarted")
    /\ \/ /\ box[c][next] = "running" /\ Smooth
          /\ rec' = RecordMultiContainer(c, next, "running", TRUE)
          /\ started' = started \cup {next} /\ todo' = todo \ {next}
          /\ pc' = (IF todo = {next} THEN "commit" ELSE "startCandidate")
          /\ UNCHANGED <<job, older, stopped, tried, cause, verdict>>
       \/ box[c][next] # "running" /\ UNCHANGED rec /\ Smooth /\ CutoverFailed("failed")
       \/ Fault /\ UNCHANGED rec /\ (CutoverFailed("failed") \/ Finish("unknown"))
    /\ UNCHANGED <<gen, runtime>> /\ Outside

\* cleanupOlder takes the next generation; debt that stays does not fail a
\* committed replacement.
CleanNext(left) ==
    IF left = {} THEN Finish("succeeded")
    ELSE pc' = "older" /\ older' = left /\ todo' = Comps
         /\ UNCHANGED <<job, stopped, started, tried, cause, verdict>>

Commit ==
    /\ At("commit")
    /\ LET table == IF Committable(c) THEN CommitMulti(c, AllowMissingActive) ELSE gen
       IN  \/ /\ gen' = table /\ Smooth
              /\ IF Committable(c)
                 THEN CleanNext(MultiOlderRetained(table, IF AllowMissingActive THEN 0 ELSE c - 1))
                 ELSE Finish("unknown")
           \/ Fault /\ gen' \in {gen, table} /\ Finish("unknown")
    /\ UNCHANGED <<rec, runtime>> /\ Outside

old == Min(older)

Defer == gen' = MarkCleanupPending(old) /\ UNCHANGED rec /\ CleanNext(older \ {old})

\* The generation is verified as a whole before its first container is removed.
OlderVerified ==
    IF AllowMissingActive /\ old = c - 1 THEN RepairableGeneration(old)
    ELSE VerifyGeneration(old, "stopped")

RemoveOlder ==
    /\ At("older")
    /\ LET blocked == (todo = Comps /\ ~OlderVerified) \/ box[old][last] = "running"
       IN  \/ blocked /\ UNCHANGED box /\ Smooth /\ Defer
           \/ /\ ~blocked /\ box' = Set(old, last, "absent") /\ Smooth /\ UNCHANGED <<gen, rec>>
              /\ IF todo = {last} THEN Loop("olderNetwork", {}) ELSE Loop("older", todo \ {last})
           \/ ~blocked /\ Fault /\ box' \in {box, Set(old, last, "absent")} /\ Defer
    /\ UNCHANGED nets /\ Outside

RemoveOlderNetwork ==
    /\ At("olderNetwork")
    /\ \/ /\ Smooth
          /\ IF old \in nets => gen[old].net
             THEN nets' = nets \ {old} /\ UNCHANGED <<gen, rec>> /\ Loop("olderMark", {})
             ELSE UNCHANGED nets /\ Defer
       \/ Fault /\ nets' \in {nets, nets \ {old}} /\ Defer
    /\ UNCHANGED box /\ Outside

MarkOlderRemoved ==
    /\ At("olderMark")
    /\ \/ MarkRemoved(old) /\ Smooth /\ CleanNext(older \ {old})
       \/ Fault /\ UNCHANGED <<gen, rec>> /\ CleanNext(older \ {old})
    /\ UNCHANGED runtime /\ Outside

----------------------------------------------------------------------------
(* failBeforeCutover and afterCutoverFailure. *)

\* A stop that fails during rollback is ignored; its step may be in the ledger.
RollStop ==
    /\ At("rollStop") /\ todo # {}
    /\ \/ Mutated(c, last, "stopped") /\ tried' = tried \cup {last}
       \/ /\ \E e \in {"failed", "unknown"} : MutateFails(c, last, "stopped", e)
          /\ tried' \in {tried, tried \cup {last}}
    /\ todo' = todo \ {last}
    /\ UNCHANGED <<gen, rec, nets, pc, job, older, stopped, started, cause, verdict>> /\ Outside

\* Only a change that kept the release goes back to the old generation.
RollDecide ==
    /\ At("rollStop") /\ todo = {}
    /\ IF job.base # 0 /\ RollbackSafe
       THEN /\ UNCHANGED gen
            /\ IF stopped = {} THEN Loop("abort", Comps) ELSE Loop("rollStart", stopped)
       ELSE gen' = MarkMultiFailed(c, "pending") /\ Finish("unknown")
    /\ Smooth /\ UNCHANGED <<rec, runtime>> /\ Outside

RollStart ==
    /\ At("rollStart")
    /\ \/ Mutated(job.base, next, "running") /\ UNCHANGED gen /\ Loop("recordRolled", todo)
       \/ /\ \E e \in {"failed", "unknown"} : MutateFails(job.base, next, "running", e)
          /\ gen' = MarkMultiFailed(c, "pending") /\ Finish("unknown")
    /\ UNCHANGED <<rec, nets>> /\ Outside

RecordRolled ==
    /\ At("recordRolled")
    /\ \/ /\ rec' = RecordMultiContainer(job.base, next, "running", TRUE) /\ Smooth /\ UNCHANGED gen
          /\ IF todo = {next} THEN Loop("abort", Comps) ELSE Loop("rollStart", todo \ {next})
       \/ Fault /\ UNCHANGED rec /\ gen' = MarkMultiFailed(c, "pending") /\ Finish("unknown")
    /\ UNCHANGED runtime /\ Outside

\* cleanupCandidate, in reverse start order: a running component is stopped, unless
\* the ledger already has that step, and removed.  Containers that were never
\* recorded are passed over.
AbortComponent ==
    /\ At("abort")
    /\ LET refused == box[c][last] = "running" /\ last \in tried
           goes == Owned(c, last) /\ ~refused
       IN  \/ /\ ~(Owned(c, last) /\ refused) /\ Smooth
              /\ box' = (IF goes THEN Set(c, last, "absent") ELSE box)
              /\ IF todo = {last} THEN Loop("abortNetwork", {}) ELSE Loop("abort", todo \ {last})
           \/ Owned(c, last) /\ refused /\ UNCHANGED box /\ Smooth /\ Loop("markPending", {})
           \/ /\ Fault /\ rec[c][last].id /\ Loop("markPending", {})
              /\ box' \in {box} \cup (IF goes THEN {Set(c, last, "stopped"), Set(c, last, "absent")} ELSE {})
    /\ UNCHANGED <<gen, rec, nets>> /\ Outside

AbortNetwork ==
    /\ At("abortNetwork")
    /\ \/ nets' = nets \ {c} /\ Smooth /\ Loop("markClean", {})
       \/ Fault /\ nets' \in {nets, nets \ {c}} /\ Loop("markPending", {})
    /\ UNCHANGED <<gen, rec, box>> /\ Outside

\* What is reported: the cause, unless the candidate could not be cleaned up.
FailedVerdict == IF pc = "markPending" THEN "unknown" ELSE cause

MarkFailed ==
    /\ At("markClean") \/ At("markPending")
    /\ \/ /\ gen' = MarkMultiFailed(c, IF pc = "markClean" THEN "clean" ELSE "pending")
          /\ Smooth /\ Finish(FailedVerdict)
       \/ Fault /\ UNCHANGED gen /\ Finish("unknown")
    /\ UNCHANGED <<rec, runtime>> /\ Outside

ReplaceStep ==
    \/ Prepare \/ Pull \/ CreateNetwork \/ RecordNetwork \/ CreateComponent
    \/ RecordCreated \/ VerifyCreated \/ PreCutover \/ StopOld \/ RecordOldStopped
    \/ StartCandidate \/ VerifyStarted \/ Commit \/ RemoveOlder \/ RemoveOlderNetwork
    \/ MarkOlderRemoved \/ RollStop \/ RollDecide \/ RollStart \/ RecordRolled
    \/ AbortComponent \/ AbortNetwork \/ MarkFailed

----------------------------------------------------------------------------
(* Operate: start, stop, restart and remove in the persisted order. *)

Want == [start |-> "running", stop |-> "stopped", remove |-> "absent"]

\* changeApplicationState: the runner needs a generation, which an ambiguous legacy
\* installation never gets.
ChangeApplicationState ==
    /\ At("change")
    /\ CASE LegacyAmbiguous -> Finish("unknown")
         [] CurrentStatus \in {"none", "removed"} /\ ~LegacyAmbiguous -> Finish("failed")
         [] OTHER -> Loop("operate", {})
    /\ Smooth /\ UNCHANGED <<gen, rec, runtime>> /\ Outside

\* The checks before the first mutation.  A migrated generation is promoted in the
\* state it is found in, if that is one state.
Operate ==
    /\ At("operate")
    /\ LET cur == MultiCurrent
       IN  \/ /\ CurrentStatus = "verification_required" /\ Smooth
              /\ \/ /\ \E s \in {"running", "stopped"} : VerifyGeneration(cur, s) /\ Promoted(cur, s)
                    /\ Loop("operate", {})
                 \/ /\ \A s \in {"running", "stopped"} : ~VerifyGeneration(cur, s)
                    /\ UNCHANGED <<gen, rec>> /\ Finish("failed")
           \/ /\ CurrentStatus = "active" /\ UNCHANGED <<gen, rec>> /\ Smooth
              /\ IF cur \in nets
                 THEN /\ pc' = "apply" /\ todo' = Comps /\ UNCHANGED <<progress, cause, verdict>>
                      /\ job' = [job EXCEPT !.gen = cur, !.act =
                                     IF job.kind = "start" THEN "start" ELSE "stop"]
                 ELSE Finish("unknown")
           \/ Fault /\ UNCHANGED <<gen, rec>> /\ \E v \in {"failed", "unknown"} : Finish(v)
    /\ UNCHANGED runtime /\ Outside

InOrder == IF job.act = "start" THEN next ELSE last

\* An error after the first mutation of the loop leaves an unknown outcome.
Apply ==
    /\ At("apply")
    /\ \/ Mutated(c, InOrder, Want[job.act]) /\ Loop("applied", todo)
       \/ \E e \in {"failed", "unknown"} :
              /\ MutateFails(c, InOrder, Want[job.act], e)
              /\ Finish(IF todo # Comps THEN "unknown" ELSE e)
    /\ UNCHANGED <<gen, rec, nets>> /\ Outside

NextAct ==
    CASE job.act = "stop" /\ job.kind = "restart" -> "start"
      [] job.act = "stop" /\ job.kind = "remove" -> "remove"
      [] OTHER -> "none"

Applied ==
    /\ At("applied")
    /\ \/ /\ Smooth
          /\ rec' = RecordMultiContainer(c, InOrder,
                        IF job.act = "remove" THEN "removed" ELSE Want[job.act], job.act = "start")
          /\ CASE todo # {InOrder} -> Loop("apply", todo \ {InOrder})
               [] todo = {InOrder} /\ NextAct # "none" ->
                      /\ pc' = "apply" /\ todo' = Comps /\ job' = [job EXCEPT !.act = NextAct]
                      /\ UNCHANGED <<progress, cause, verdict>>
               [] todo = {InOrder} /\ job.act = "remove" -> Loop("removeNetwork", {})
               [] OTHER -> Finish("succeeded")
       \/ Fault /\ UNCHANGED rec /\ Finish("unknown")
    /\ UNCHANGED <<gen, runtime>> /\ Outside

RemoveNetwork ==
    /\ At("removeNetwork")
    /\ \/ nets' = nets \ {c} /\ Smooth /\ Loop("markRemoved", {})
       \/ Fault /\ nets' \in {nets, nets \ {c}} /\ Finish("unknown")
    /\ UNCHANGED <<gen, rec, box>> /\ Outside

MarkActiveRemoved ==
    /\ At("markRemoved")
    /\ \/ /\ gen' = [gen EXCEPT ![c].status = "removed", ![c].cleanup = "clean"]
          /\ Smooth /\ Finish("succeeded")
       \/ Fault /\ UNCHANGED gen /\ Finish("failed")
    /\ UNCHANGED <<rec, runtime>> /\ Outside

OperateStep == ChangeApplicationState \/ Operate \/ Apply \/ Applied \/ RemoveNetwork \/ MarkActiveRemoved

----------------------------------------------------------------------------
(* Requests, crash, startup, and the world outside. *)

\* Releases without generations wrote component_ownership only; their containers
\* are in any state when the upgraded helper first starts.
Init ==
    /\ legacy \in {"none", "exact", "mixed"}
    /\ gen = [g \in Gens |-> NoRow]
    /\ rec = [g \in Gens |-> [x \in Comps |-> NoComponent]]
    /\ evidence = 0
    /\ \E b \in [Comps -> {"stopped", "running"}] :
           box = [g \in Gens |-> IF g = 1 /\ legacy # "none" THEN b
                                 ELSE [x \in Comps |-> "absent"]]
    /\ nets = (IF legacy = "none" THEN {} ELSE {1})
    /\ lease = "free" /\ holder = 0 /\ waiting = {}
    /\ pc = "idle" /\ job = NoJob /\ todo = {} /\ older = {} /\ stopped = {} /\ started = {}
    /\ tried = {} /\ cause = "none" /\ verdict = "none"
    /\ helper = "down"
    /\ used = [faults |-> 0, lost |-> 0, crashes |-> 0, drift |-> 0]

\* serve and Begin.  A recreation needs reconciliation's recommendation for the
\* generation it replaces, and may take over a lease that awaits recovery: the
\* receipt of the operation it takes it from is superseded.
Targets(kind) == IF kind \in {"install", "update", "recreate"} THEN Gens ELSE {0}

Begin(kind, target) ==
    /\ helper = "up" /\ pc = "idle" /\ holder < MaxOps
    /\ \/ lease = "free"
       \/ lease = "recovery" /\ kind = "recreate" /\ holder \in waiting
    /\ kind = "recreate" => evidence # 0 /\ evidence = target - 1
    /\ lease' = "held" /\ holder' = holder + 1
    /\ waiting' = (IF lease = "recovery" THEN waiting \ {holder} ELSE waiting)

Admit(kind, target) ==
    /\ Begin(kind, target)
    /\ job' = [NoJob EXCEPT !.kind = kind, !.gen = target]
    /\ pc' = (IF target = 0 THEN "change" ELSE "prepare")
    /\ UNCHANGED <<store, runtime, todo, progress, cause, verdict, helper, used>>

\* AuthorizeMutation fails: serve answers and the operation keeps its lease.
AdmitUnauthorized(kind, target) ==
    /\ Begin(kind, target) /\ Fault
    /\ pc' = "unsaved" /\ job' = NoJob
    /\ UNCHANGED <<store, runtime, todo, progress, cause, verdict, helper>>

\* Complete: an unknown outcome keeps the lease for recovery.
Complete ==
    /\ At("complete")
    /\ lease' = (IF verdict = "unknown" THEN "recovery" ELSE "free")
    /\ waiting' = (IF verdict = "unknown" THEN waiting \cup {holder} ELSE waiting)
    /\ pc' = "idle" /\ job' = NoJob /\ verdict' = "none"
    /\ UNCHANGED <<store, runtime, holder, todo, progress, cause, helper, used>>

\* Its transaction fails: the receipt stays executing and the lease held until the
\* helper starts again.
CompleteFails ==
    /\ At("complete") /\ Fault
    /\ pc' = "unsaved" /\ job' = NoJob /\ verdict' = "none"
    /\ UNCHANGED <<store, runtime, ledger, todo, progress, cause, helper>>

\* Reconcile: what it writes for later requests.  A missing component of the active
\* generation recommends recreation, unless a mismatch comes first; debt whose
\* resources are gone becomes a tombstone.
MissingEvidence ==
    IF /\ HasActive
       /\ \E x \in Comps : box[MultiCurrent][x] = "absent"
       /\ \A x \in Comps : ~(rec[MultiCurrent][x].state = "stopped" /\ box[MultiCurrent][x] = "running")
       /\ \A r \in Having({"retained"}), x \in Comps : box[r][x] # "running"
    THEN MultiCurrent ELSE 0

ReconciledAbsent ==
    {g \in Having({"cleanup_pending", "failed"}) : gen[g].cleanup = "pending" /\ Absent(g)}

Reconciled ==
    /\ evidence' = MissingEvidence
    /\ gen' = [g \in Gens |-> IF g \in ReconciledAbsent
                              THEN [gen[g] EXCEPT !.status = "removed", !.cleanup = "clean"] ELSE gen[g]]

Reconcile ==
    /\ helper = "up" /\ pc \in {"idle", "unsaved"}
    /\ Reconciled
    /\ UNCHANGED <<rec, legacy, runtime, ledger, work, helper, used>>

Crash ==
    /\ helper # "down" /\ Spend("crashes", MaxCrashes)
    /\ helper' = "down"
    /\ pc' = "idle" /\ job' = NoJob /\ todo' = {} /\ older' = {} /\ stopped' = {} /\ started' = {}
    /\ tried' = {} /\ cause' = "none" /\ verdict' = "none"
    /\ UNCHANGED <<store, runtime, ledger>>

\* main: the interrupted operation awaits recovery, and an exact legacy
\* installation without rows is backfilled.
Restart ==
    /\ helper \in {"down", "refused"} /\ helper' = "recovering"
    /\ IF lease = "held" THEN lease' = "recovery" /\ waiting' = waiting \cup {holder}
                         ELSE UNCHANGED <<lease, waiting>>
    /\ IF legacy = "exact" /\ Having({"none"}) = Gens THEN Backfilled ELSE UNCHANGED <<gen, rec>>
    /\ UNCHANGED <<legacy, evidence, runtime, holder, work, used>>

\* recoverInterruptedMulti: generations of an operation that awaits recovery which
\* are observed to run exactly.
Recoverable ==
    {g \in Having({"candidate", "active"}) :
        gen[g].op \in waiting /\ VerifyGeneration(g, "running")}

\* Mutant: the previous generation is not observed.
PreviousUnchecked(g) == TRUE

PreviousStopped(g) == g > 1 => VerifyGeneration(g - 1, "stopped")

\* A candidate is to be committed when RecordRecoveredMultiVerification accepts it.
ForwardCandidates ==
    {g \in Recoverable : /\ gen[g].status = "candidate" /\ PreviousStopped(g)
                         /\ \A x \in Comps : rec[g][x].hash}

\* Both recovery transactions check that the operation still has the lease; an
\* error of theirs, as one of RecoverForwardMulti's other checks, ends the helper.
Fenced(g) == lease = "recovery" /\ holder = gen[g].op /\ holder \in waiting

Baseline(g) ==
    g > 1 => IF HasActive THEN Max(Having({"active"})) = g - 1
             ELSE gen[g - 1].status = "removed"

Recovering(g, p) == helper = "recovering" /\ helper' = p /\ job' = [NoJob EXCEPT !.gen = g]
Resolved == lease' = "free" /\ waiting' = waiting \ {holder}

\* How one of the transactions ends: the administrator may have released the
\* operation since recovery selected it.
Settled(accepted) ==
    /\ job' = NoJob
    /\ IF accepted THEN Resolved /\ helper' = "reconciling"
                   ELSE UNCHANGED <<lease, waiting>> /\ helper' = "refused"

SelectCommitted ==
    /\ \E g \in Recoverable : gen[g].status = "active" /\ Recovering(g, "finalizing")
    /\ UNCHANGED <<store, runtime, ledger, pc, todo, progress, cause, verdict, used>>

FinalizeCommitted ==
    /\ helper = "finalizing" /\ Settled(Fenced(c))
    /\ UNCHANGED <<store, runtime, holder, pc, todo, progress, cause, verdict, used>>

RecordRecoveredMultiVerification ==
    /\ \E g \in ForwardCandidates :
          /\ Recovering(g, "committing")
          /\ rec' = [rec EXCEPT ![g] = [x \in Comps |-> [@[x] EXCEPT !.state = "running"]]]
    /\ UNCHANGED <<gen, legacy, evidence, runtime, ledger, pc, todo, progress, cause, verdict, used>>

RecoverForward ==
    /\ helper = "committing"
    /\ LET accepted == Fenced(c) /\ AllVerified(c) /\ Baseline(c)
       IN  Settled(accepted) /\ gen' = IF accepted THEN CommitMulti(c, FALSE) ELSE gen
    /\ UNCHANGED <<rec, legacy, evidence, runtime, holder, pc, todo, progress, cause, verdict, used>>

\* An error of the database ends it too, but may be gone at the next start.
RecoveryFails ==
    /\ helper \in {"recovering", "finalizing", "committing"} /\ Fault
    /\ helper' = "down" /\ job' = NoJob
    /\ UNCHANGED <<store, runtime, ledger, pc, todo, progress, cause, verdict>>

\* Evidence that is not exact, or cannot be had, leaves the operation to the
\* administrator.
RecoverySkips ==
    /\ helper = "recovering"
    /\ \/ ForwardCandidates = {} /\ (\A g \in Recoverable : gen[g].status # "active") /\ Smooth
       \/ Fault
    /\ helper' = "reconciling"
    /\ UNCHANGED <<store, runtime, ledger, work>>

\* An error of ReconcileAll ends the helper.
StartupReconcile ==
    /\ helper = "reconciling"
    /\ \/ helper' = "up" /\ Reconciled /\ Smooth
       \/ helper' = "down" /\ UNCHANGED <<gen, evidence>> /\ Fault
    /\ UNCHANGED <<rec, legacy, runtime, ledger, work>>

\* Mutant: the administrator's release leaves the receipt as it is.
ReleaseOnly ==
    /\ lease = "recovery" /\ holder \in waiting
    /\ lease' = "free" /\ UNCHANGED waiting
    /\ UNCHANGED <<store, runtime, holder, work, helper, used>>

\* kitpro-helper --resolve-operation.
ResolveOperation ==
    /\ lease = "recovery" /\ holder \in waiting /\ Resolved
    /\ UNCHANGED <<store, runtime, holder, work, helper, used>>

Drift(g, x) ==
    /\ Spend("drift", MaxDrift)
    /\ \/ box[g][x] = "running" /\ box' = Set(g, x, "stopped")
       \/ box[g][x] # "absent" /\ box' = Set(g, x, "absent")
    /\ UNCHANGED <<store, nets, ledger, work, helper>>

\* Accept blocks while there is no request.
AwaitRequest == helper = "up" /\ pc \in {"idle", "unsaved"} /\ UNCHANGED vars

Next ==
    \/ \E kind \in Requests : \E g \in Targets(kind) :
           Admit(kind, g) \/ AdmitUnauthorized(kind, g)
    \/ ReplaceStep \/ OperateStep \/ Complete \/ CompleteFails \/ Reconcile \/ AwaitRequest
    \/ Crash \/ Restart \/ SelectCommitted \/ FinalizeCommitted
    \/ RecordRecoveredMultiVerification \/ RecoverForward \/ RecoveryFails \/ RecoverySkips
    \/ StartupReconcile \/ ResolveOperation
    \/ \E g \in Gens, x \in Comps : Drift(g, x)

Spec == Init /\ [][Next]_vars

----------------------------------------------------------------------------
(* Properties. *)

\* Every row, container, lease and loop of the worker is in a state the code knows;
\* a loop never runs past its components.
TypeOK ==
    /\ gen \in [Gens -> [status : {"none", "verification_required", "prepared", "candidate",
                                   "active", "retained", "cleanup_pending", "failed", "removed"},
                         cleanup : {"not_required", "pending", "clean"},
                         op : 0..MaxOps, net : BOOLEAN]]
    /\ rec \in [Gens -> [Comps -> [id : BOOLEAN, hash : BOOLEAN,
                   state : {"unknown", "created", "stopped", "running", "removed"}]]]
    /\ box \in [Gens -> [Comps -> {"absent", "stopped", "running"}]]
    /\ todo \in SUBSET Comps /\ older \in SUBSET Gens
    /\ pc \in {"apply", "applied", "create", "stopOld", "startCandidate", "rollStart", "abort"}
          => todo # {}
    /\ verdict \in {"none", "succeeded", "failed", "unknown"}

\* Resources of any component are never forgotten: while a container or the network
\* of a generation exists, its row is neither missing, removed nor failed and clean,
\* whichever component's step failed or was cut off by a crash.  (Containers of a
\* legacy installation that matches no topology are known by component_ownership.)
NothingForgotten ==
    \A g \in Gens : ~Absent(g) =>
        \/ /\ gen[g].status \notin {"none", "removed"}
           /\ ~(gen[g].status = "failed" /\ gen[g].cleanup = "clean")
        \/ g = 1 /\ legacy # "none" /\ gen[1].status = "none"

Running(g) == {x \in Comps : box[g][x] = "running"}

\* Authority moves as a whole: a generation loses it only to its successor, every
\* component of which is recorded with a verified configuration, while none of its
\* own still runs; or to a removal that left nothing.  Unless a container changed
\* behind the helper, every component of the successor runs.
AuthorityMoves ==
    [][\A g \in Gens :
          gen[g].status = "active" /\ gen'[g].status # "active" =>
              \/ /\ g + 1 \in Gens /\ gen'[g + 1].status = "active"
                 /\ \A x \in Comps : rec[g + 1][x].id /\ rec[g + 1][x].hash
                 /\ Running(g) = {}
                 /\ used.drift = 0 => Running(g + 1) = Comps
              \/ gen'[g].status = "removed" /\ Absent(g)]_vars

\* Replies are true of every component.  Success of a replacement: the new
\* generation has authority, all of it runs and nothing of another one.  Plain
\* failure: the old generation has authority, nothing of the candidate is left and,
\* when every step's result could be recorded, all of the old generation runs.
\* Success of a lifecycle change: every component is in the state asked for.
RepliesAreTrue ==
    LET undisturbed == used.drift = 0
        replacement == job.kind \in {"install", "update", "recreate"}
    IN  pc = "complete" =>
            /\ replacement /\ verdict = "succeeded" =>
                  /\ gen[c].status = "active"
                  /\ undisturbed => \A g \in Gens : Running(g) = IF g = c THEN Comps ELSE {}
            /\ replacement /\ verdict = "failed" /\ job.base # 0 =>
                  /\ gen[job.base].status = "active" /\ Absent(c)
                  /\ undisturbed /\ used.lost = 0 /\ ~AllowMissingActive =>
                        Running(job.base) = Comps
            /\ ~replacement /\ verdict = "succeeded" =>
                  CASE job.kind = "remove" -> gen[c].status = "removed" /\ Absent(c)
                    [] job.kind # "remove" /\ undisturbed -> AllIn(c, Want[job.act])
                    [] OTHER -> TRUE

\* Startup is never stuck on an interrupted cutover.  A transaction of recovery that
\* refuses ends the helper, which an administrator's release at that moment can
\* cause; but the refusal is never left in the database for the next start: whatever
\* it would select passes the checks that the transactions repeat.
StartupNeverStuck ==
    helper = "refused" =>
        \A g \in Recoverable : Fenced(g) /\ (g \in ForwardCandidates => Baseline(g))

\* 0.1.0-alpha.12-release-notes.md:50: "Multi-component start and stop honor
\* dependency order": the helper starts a component only while those it depends on
\* run.
\* The code does not keep it and no run checks it: see the README.
StartsHonorDependencies ==
    [][\A g \in Gens, x \in Comps :
          box[g][x] # "running" /\ box'[g][x] = "running" =>
              \A d \in Deps[x] : box[g][d] = "running"]_vars
=============================================================================
