------------------------- MODULE StagedReplacement -------------------------
(***************************************************************************)
(* Runner.Replace (lifecycle/runner.go): a new generation is built beside  *)
(* the active one, the active one is stopped, the candidate is started and *)
(* verified, and one transaction moves authority.  Every Docker call and   *)
(* every transaction is a step of its own, so that a crash may fall        *)
(* between an effect and its record.  A checkpoint that cannot be written  *)
(* ends the request as the step around it would.                           *)
(***************************************************************************)
EXTENDS GenerationStore

Replacements == {"install", "update", "recreate"}

\* createApplication: an update of the release and a repair are never rolled back.
RollbackSafe == job.kind = "install"
AllowMissingActive == job.kind = "recreate"

c == job.gen

\* Store.Prepare after validateTrustedRecreation and loadAndVerifyActive.  job
\* remembers the active generation, if the baseline is one.
BaselineVerified ==
    HasActive => \/ Exact(Current) /\ box[Current] = "running"
                 \/ AllowMissingActive /\ Repairable(Current)

RecreationEvidence(g) == recon.action = "recreate_generation" /\ recon.checked = g - 1

Replaceable ==
    /\ c = Current + 1
    /\ AllowMissingActive => RecreationEvidence(c)
    /\ BaselineVerified
    /\ Reusable(c)

Prepare ==
    /\ At("prepare")
    /\ \/ /\ Replaceable
          /\ gen' = PrepareRow(c)
          /\ job' = [job EXCEPT !.base = IF HasActive THEN Current ELSE 0]
          /\ Smooth
          /\ Goto("network")
       \/ /\ ~Replaceable
          /\ UNCHANGED <<gen, job>> /\ Smooth
          /\ Finish("failed")
       \/ /\ Fault   \* a failing pull or transaction; an image that cannot be observed
          /\ UNCHANGED <<gen, job>>
          /\ \E v \in {"failed", "unknown"} : Finish(v)
    /\ UNCHANGED <<recon, runtime, ledger, helper>>

\* CreateLifecycleNetwork.  An error is a clean failure only if the network is
\* then observed to be absent.
CreateNetwork ==
    /\ At("network")
    /\ \/ nets' = nets \cup {c} /\ Smooth /\ Goto("recordNetwork")
       \/ Fault /\ nets' = nets /\ Goto("abortContainer")
       \/ Fault /\ nets' \in {nets, nets \cup {c}} /\ Finish("unknown")
    /\ UNCHANGED <<store, box>> /\ Outside

RecordNetwork ==
    /\ At("recordNetwork")
    /\ \/ gen' = RecordNetworkRow(c) /\ Smooth /\ Goto("container")
       \/ Fault /\ gen' \in {gen, RecordNetworkRow(c)} /\ Finish("unknown")
    /\ UNCHANGED <<recon, runtime>> /\ Outside

CreateContainer ==
    /\ At("container")
    /\ \/ box' = Set(c, "stopped") /\ Smooth /\ Goto("recordCreated")
       \/ Fault /\ box' = box /\ Goto("abortContainer")
       \/ Fault /\ box' \in {box, Set(c, "stopped")} /\ Finish("unknown")
    /\ UNCHANGED <<store, nets>> /\ Outside

RecordCreated ==
    /\ At("recordCreated")
    /\ \/ gen' = RecordContainerRow(c, "created") /\ Smooth /\ Goto("verifyStopped")
       \/ Fault /\ gen' \in {gen, RecordContainerRow(c, "created")} /\ Finish("unknown")
    /\ UNCHANGED <<recon, runtime>> /\ Outside

\* verifyCandidate on the stopped container, then its hash is recorded.
VerifyStopped ==
    /\ At("verifyStopped")
    /\ \/ /\ Exact(c) /\ box[c] = "stopped"
          /\ gen' = RecordContainerRow(c, "stopped") /\ Smooth /\ Goto("precutover")
       \/ ~(Exact(c) /\ box[c] = "stopped") /\ UNCHANGED gen /\ Smooth /\ Goto("abortContainer")
       \/ Fault /\ gen' \in {gen, RecordContainerRow(c, "stopped")} /\ Finish("unknown")
    /\ UNCHANGED <<recon, runtime>> /\ Outside

\* The fresh observation of both generations before the old one is touched.
CutoverReady ==
    /\ job.base # 0 => \/ Exact(job.base) /\ box[job.base] = "running"
                       \/ AllowMissingActive /\ Repairable(job.base)
    /\ Exact(c) /\ box[c] = "stopped"

PreCutover ==
    /\ At("precutover")
    /\ \/ /\ CutoverReady /\ Smooth
          /\ IF job.base # 0 /\ box[job.base] = "running"
             THEN Goto("stopOld") ELSE Goto("startCandidate")
       \/ ~CutoverReady /\ Smooth /\ Goto("abortContainer")
       \/ Fault /\ Goto("abortContainer")
    /\ UNCHANGED <<store, runtime>> /\ Outside

\* Mutant: a failed stop is taken for one that was not applied.
StopOldUnobserved ==
    /\ At("stopOld")
    /\ \/ /\ box[job.base] # "absent"
          /\ box' = IF box[job.base] = "detached" THEN box ELSE Set(job.base, "stopped")
          /\ Smooth /\ Goto("startCandidate")
       \/ box[job.base] = "absent" /\ UNCHANGED box /\ Smooth /\ Finish("unknown")
       \/ Fault /\ box' \in StopAfterError(job.base) /\ Goto("abortContainer")
    /\ UNCHANGED <<store, nets>> /\ Outside

\* StopContainer and WaitContainer on the old generation.  Stopping fails before
\* the cutover only if the container is then seen running.
StopOld ==
    /\ At("stopOld")
    /\ \/ /\ box[job.base] # "absent"
          /\ box' = IF box[job.base] = "detached" THEN box ELSE Set(job.base, "stopped")
          /\ Smooth /\ Goto("startCandidate")
       \/ box[job.base] = "absent" /\ UNCHANGED box /\ Smooth /\ Finish("unknown")
       \/ Fault /\ box[job.base] = "running" /\ UNCHANGED box /\ Goto("abortContainer")
       \/ Fault /\ box' \in StopAfterError(job.base) /\ Finish("unknown")
    /\ UNCHANGED <<store, nets>> /\ Outside

StartCandidate ==
    /\ At("startCandidate")
    /\ \/ box[c] # "absent" /\ box' = Set(c, "running") /\ Smooth /\ Goto("recordRunning")
       \/ box[c] = "absent" /\ UNCHANGED box /\ Smooth /\ Goto("cutoverFailed")
       \/ Fault /\ box' \in StartAfterError(c) /\ Goto("cutoverFailed")
    /\ UNCHANGED <<store, nets>> /\ Outside

\* WaitContainer for the running state, then RecordState.
RecordRunning ==
    /\ At("recordRunning")
    /\ \/ box[c] = "running" /\ gen' = RecordStateRow(c, "running") /\ Smooth /\ Goto("verifyRunning")
       \/ box[c] # "running" /\ UNCHANGED gen /\ Smooth /\ Goto("cutoverFailed")
       \/ Fault /\ UNCHANGED gen /\ Goto("cutoverFailed")
       \/ Fault /\ gen' \in {gen, RecordStateRow(c, "running")} /\ Finish("unknown")
    /\ UNCHANGED <<recon, runtime>> /\ Outside

VerifyRunning ==
    /\ At("verifyRunning")
    /\ \/ Exact(c) /\ box[c] = "running" /\ Smooth /\ Goto("commit")
       \/ ~(Exact(c) /\ box[c] = "running") /\ Smooth /\ Goto("cutoverFailed")
       \/ Fault /\ (Goto("cutoverFailed") \/ Finish("unknown"))
    /\ UNCHANGED <<store, runtime>> /\ Outside

\* The next generation cleanupOlder deals with, or the end of the request: debt
\* that stays behind does not fail a committed replacement.
CleanNext(left) ==
    IF left = {} THEN Finish("succeeded")
    ELSE pc' = "olderContainer" /\ todo' = left /\ UNCHANGED <<dirty, verdict>>

Commit ==
    /\ At("commit")
    /\ LET table == CommitRows(c, AllowMissingActive)
           keep == IF AllowMissingActive THEN 0 ELSE c - 1
       IN  \/ /\ Committable(c) /\ gen' = table /\ Smooth
              /\ CleanNext(OlderRetained(table, keep))
           \/ ~Committable(c) /\ UNCHANGED gen /\ Smooth /\ Finish("unknown")
           \/ Fault /\ UNCHANGED gen /\ Finish("unknown")
           \/ Fault /\ Committable(c) /\ gen' = table /\ Finish("unknown")
    /\ UNCHANGED <<recon, runtime>> /\ Outside

----------------------------------------------------------------------------
(* cleanupOlder, one generation at a time in ascending order. *)

older == Min(todo)

Defer == gen' = MarkCleanupPendingRow(older) /\ CleanNext(todo \ {older})

OlderVerified ==
    IF AllowMissingActive /\ older = c - 1 THEN Repairable(older)
    ELSE Exact(older) /\ box[older] = "stopped"

\* A row without a container identifier is observed by the empty identifier:
\* Docker may answer with an error.
RemoveOlderContainer ==
    /\ At("olderContainer")
    /\ \/ box[older] = "absent" /\ UNCHANGED <<gen, box>> /\ Smooth /\ Goto("olderNetwork")
       \/ ~gen[older].cid /\ UNCHANGED box /\ Smooth /\ Defer
       \/ /\ box[older] # "absent" /\ OlderVerified /\ Removable(older)
          /\ box' = Set(older, "absent") /\ UNCHANGED gen /\ Smooth /\ Goto("olderNetwork")
       \/ /\ box[older] # "absent" /\ ~(OlderVerified /\ Removable(older))
          /\ UNCHANGED box /\ Smooth /\ Defer
       \/ Fault /\ box' \in (IF OlderVerified THEN RemoveAfterError(older) ELSE {box}) /\ Defer
    /\ UNCHANGED <<recon, nets>> /\ Outside

RemoveOlderNetwork ==
    /\ At("olderNetwork")
    /\ \/ older \notin nets /\ UNCHANGED <<gen, nets>> /\ Smooth /\ Goto("olderMark")
       \/ /\ older \in nets /\ gen[older].net
          /\ nets' = nets \ {older} /\ UNCHANGED gen /\ Smooth /\ Goto("olderMark")
       \/ older \in nets /\ ~gen[older].net /\ UNCHANGED nets /\ Smooth /\ Defer
       \/ Fault /\ nets' \in {nets, IF gen[older].net THEN nets \ {older} ELSE nets} /\ Defer
    /\ UNCHANGED <<recon, box>> /\ Outside

MarkOlderRemoved ==
    /\ At("olderMark")
    /\ \/ /\ gen' = [gen EXCEPT ![older] = Tombstone(@)] /\ Smooth
          /\ CleanNext(todo \ {older})
       \/ Fault /\ Defer
       \/ Fault /\ UNCHANGED gen /\ CleanNext(todo \ {older})
    /\ UNCHANGED <<recon, runtime>> /\ Outside

----------------------------------------------------------------------------
(* failBeforeCutover and afterCutoverFailure. *)

\* The container part of cleanupCandidate.  A running candidate is stopped first;
\* a restarting one is not, and Docker then refuses to remove it.
AbortContainer ==
    /\ At("abortContainer")
    /\ \/ /\ gen[c].cid => box[c] = "absent"
          /\ UNCHANGED box /\ Smooth /\ Goto("abortNetwork")
       \/ /\ gen[c].cid /\ box[c] \notin {"absent", "restarting"}
          /\ box' = Set(c, "absent") /\ Smooth /\ Goto("abortNetwork")
       \/ /\ gen[c].cid /\ box[c] = "restarting"
          /\ UNCHANGED box /\ Smooth
          /\ pc' = "abortMark" /\ dirty' = TRUE /\ UNCHANGED <<todo, verdict>>
       \/ /\ Fault
          /\ box' \in (IF gen[c].cid
                       THEN (IF box[c] = "running" THEN {box, Set(c, "stopped"), Set(c, "absent")}
                             ELSE RemoveAfterError(c))
                       ELSE {box})
          /\ pc' = "abortMark" /\ dirty' = TRUE /\ UNCHANGED <<todo, verdict>>
    /\ UNCHANGED <<store, nets>> /\ Outside

\* The network part: a network whose identifier was never recorded is not removed.
AbortNetwork ==
    /\ At("abortNetwork")
    /\ \/ c \notin nets /\ UNCHANGED <<nets, dirty>> /\ Smooth
       \/ c \in nets /\ gen[c].net /\ nets' = nets \ {c} /\ UNCHANGED dirty /\ Smooth
       \/ c \in nets /\ ~gen[c].net /\ UNCHANGED nets /\ dirty' = TRUE /\ Smooth
       \/ Fault /\ nets' \in {nets, IF gen[c].net THEN nets \ {c} ELSE nets} /\ dirty' = TRUE
    /\ pc' = "abortMark" /\ UNCHANGED <<todo, verdict>>
    /\ UNCHANGED <<store, box>> /\ Outside

AbortMark ==
    /\ At("abortMark")
    /\ \/ /\ gen' = MarkFailedRow(c, IF dirty THEN "pending" ELSE "clean") /\ Smooth
          /\ Finish(IF dirty THEN "unknown" ELSE "failed")
       \/ Fault /\ UNCHANGED gen /\ Finish("unknown")
    /\ UNCHANGED <<recon, runtime>> /\ Outside

\* Mutant: the old generation is started before the candidate is stopped.
CutoverFailedRunning ==
    /\ At("cutoverFailed")
    /\ UNCHANGED box /\ Smooth
    /\ IF job.base # 0 /\ RollbackSafe THEN Goto("rollback") ELSE Finish("unknown")
    /\ UNCHANGED <<store, nets>> /\ Outside

\* afterCutoverFailure stops a candidate it sees running, and goes back to the old
\* generation only for a change that kept the release.
CutoverFailed ==
    /\ At("cutoverFailed")
    /\ \/ /\ box' = (IF box[c] = "running" THEN Set(c, "stopped") ELSE box) /\ Smooth
          /\ IF job.base # 0 /\ RollbackSafe THEN Goto("rollback") ELSE Finish("unknown")
       \/ /\ Fault /\ box' \in (IF box[c] = "running" THEN StopAfterError(c) ELSE {box})
          /\ Finish("unknown")
    /\ UNCHANGED <<store, nets>> /\ Outside

Rollback ==
    /\ At("rollback")
    /\ \/ /\ box[job.base] # "absent" /\ box' = Set(job.base, "running") /\ Smooth
          /\ Goto("abortContainer")
       \/ box[job.base] = "absent" /\ UNCHANGED box /\ Smooth /\ Finish("unknown")
       \/ Fault /\ box' \in StartAfterError(job.base) /\ Finish("unknown")
    /\ UNCHANGED <<store, nets>> /\ Outside

ReplaceStep ==
    \/ Prepare \/ CreateNetwork \/ RecordNetwork \/ CreateContainer \/ RecordCreated
    \/ VerifyStopped \/ PreCutover \/ StopOld \/ StartCandidate \/ RecordRunning
    \/ VerifyRunning \/ Commit \/ RemoveOlderContainer \/ RemoveOlderNetwork
    \/ MarkOlderRemoved \/ AbortContainer \/ AbortNetwork \/ AbortMark
    \/ CutoverFailed \/ Rollback
=============================================================================
