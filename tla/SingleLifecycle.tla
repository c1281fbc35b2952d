-------------------------- MODULE SingleLifecycle --------------------------
(***************************************************************************)
(* SingleRunner.Operate (lifecycle/single_runner.go): start, stop, restart *)
(* and remove of the active generation.  Each mutation is observed before  *)
(* and after; an outcome that cannot be observed is unknown, a mutation    *)
(* observed not to have happened is a plain failure.                       *)
(***************************************************************************)
EXTENDS GenerationStore

Operations == {"start", "stop", "restart", "remove"}

a == job.base

Stoppable(g) == box[g] \in {"running", "restarting"}

\* Where Operate goes first: remove stops only a container that is up.
FirstStep ==
    CASE job.kind = "start" -> "opStart"
      [] job.kind = "remove" /\ ~Stoppable(Current) -> "opRemove"
      [] OTHER -> "opStop"

Operate ==
    /\ At("operate")
    /\ \/ /\ HasActive /\ Exact(Current)
          /\ job' = [job EXCEPT !.base = Current] /\ Smooth /\ Goto(FirstStep)
       \/ ~(HasActive /\ Exact(Current)) /\ UNCHANGED job /\ Smooth /\ Finish("failed")
       \/ Fault /\ UNCHANGED job /\ \E v \in {"failed", "unknown"} : Finish(v)
    /\ UNCHANGED <<store, runtime, ledger, helper>>

AfterStop ==
    CASE job.kind = "restart" -> Goto("opStart")
      [] job.kind = "remove" -> Goto("opRemove")
      [] OTHER -> Finish("succeeded")

\* apply("stop").  A container found stopped is accepted without a new record.
\* mutateExisting reads the container again after a call: an applied stop goes on
\* to its record even if the call failed, one that was not applied is a plain
\* failure, one that cannot be read is unknown; evidence that cannot be written
\* fails the request, before or after the stop.
OpStop ==
    /\ At("opStop")
    /\ \/ Exact(a) /\ Stoppable(a) /\ box' = Set(a, "stopped") /\ Smooth /\ Goto("opRecordStop")
       \/ Exact(a) /\ ~Stoppable(a) /\ UNCHANGED box /\ Smooth /\ AfterStop
       \/ ~Exact(a) /\ UNCHANGED box /\ Smooth /\ Finish("failed")
       \/ /\ Fault /\ Exact(a) /\ box' \in StopAfterError(a)
          /\ \E v \in {"failed", "unknown"} : Finish(v)
    /\ UNCHANGED <<store, nets>> /\ Outside

OpRecordStop ==
    /\ At("opRecordStop")
    /\ \/ gen' = RecordStateRow(a, "stopped") /\ Smooth /\ AfterStop
       \/ Fault /\ UNCHANGED gen /\ Finish("unknown")
       \/ Fault /\ gen' = RecordStateRow(a, "stopped") /\ Finish("failed")
    /\ UNCHANGED <<recon, runtime>> /\ Outside

\* apply("start"): only a stopped container may be started.
OpStart ==
    /\ At("opStart")
    /\ \/ /\ Exact(a) /\ box[a] = "stopped"
          /\ box' = Set(a, "running") /\ Smooth /\ Goto("opRecordStart")
       \/ Exact(a) /\ box[a] = "running" /\ UNCHANGED box /\ Smooth /\ Finish("succeeded")
       \/ ~(Exact(a) /\ box[a] \in {"stopped", "running"}) /\ UNCHANGED box /\ Smooth /\ Finish("failed")
       \/ /\ Fault /\ Exact(a) /\ box' \in StartAfterError(a)
          /\ \E v \in {"failed", "unknown"} : Finish(v)
    /\ UNCHANGED <<store, nets>> /\ Outside

OpRecordStart ==
    /\ At("opRecordStart")
    /\ \/ gen' = RecordStateRow(a, "running") /\ Smooth /\ Finish("succeeded")
       \/ Fault /\ UNCHANGED gen /\ Finish("unknown")
       \/ Fault /\ gen' = RecordStateRow(a, "running") /\ Finish("failed")
    /\ UNCHANGED <<recon, runtime>> /\ Outside

OpRemove ==
    /\ At("opRemove")
    /\ \/ /\ gen[a].cid /\ box[a] = "stopped"
          /\ box' = Set(a, "absent") /\ Smooth /\ Goto("opRemoveNetwork")
       \/ ~(gen[a].cid /\ box[a] = "stopped") /\ UNCHANGED box /\ Smooth /\ Finish("failed")
       \/ /\ Fault /\ box' \in (IF box[a] = "stopped" THEN RemoveAfterError(a) ELSE {box})
          /\ \E v \in {"failed", "unknown"} : Finish(v)
    /\ UNCHANGED <<store, nets>> /\ Outside

OpRemoveNetwork ==
    /\ At("opRemoveNetwork")
    /\ \/ nets' = nets \ {a} /\ Smooth /\ Goto("opMarkRemoved")
       \/ Fault /\ UNCHANGED nets /\ Finish("failed")
       \/ Fault /\ nets' \in {nets, nets \ {a}} /\ Finish("unknown")
    /\ UNCHANGED <<store, box>> /\ Outside

\* MarkActiveRemoved: a failing transaction is reported as a plain failure.
OpMarkRemoved ==
    /\ At("opMarkRemoved")
    /\ \/ gen' = [gen EXCEPT ![a] = Tombstone(@)] /\ Smooth /\ Finish("succeeded")
       \/ Fault /\ UNCHANGED gen /\ Finish("failed")
    /\ UNCHANGED <<recon, runtime>> /\ Outside

OperateStep ==
    \/ Operate \/ OpStop \/ OpRecordStop \/ OpStart \/ OpRecordStart
    \/ OpRemove \/ OpRemoveNetwork \/ OpMarkRemoved
=============================================================================
