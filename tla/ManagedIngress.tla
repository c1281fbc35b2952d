--------------------------- MODULE ManagedIngress ---------------------------
(***************************************************************************)
(* Managed ingress end to end: the API's handlers for routes, ingress      *)
(* reconciliation and application restore (kitpro-api/alpha14.go and       *)
(* applicationBackupOperation in main.go) over the helper's generations.   *)
(* Handlers are goroutines of one process: each reads the routes to apply, *)
(* calls the helper and acts on the answer, and two of them interleave     *)
(* between these steps.  The helper runs one ingress operation at a time   *)
(* and refuses a second; an answer may be lost while the apply goes on.    *)
(***************************************************************************)
EXTENDS IngressGenerations

CONSTANTS Handlers,      \* requests the API may be serving at once
          Restored,      \* the routes of the installation that is restored
          Remote,        \* the routes that also exist at Cloudflare
          Kinds,         \* the requests that are made
          MaxRequests    \* requests altogether

AllKinds == {"create", "create_disabled", "delete", "reconcile", "restore"}

ASSUME IngressAssumption ==
    /\ Restored \subseteq Routes /\ Remote \subseteq Routes /\ Kinds \subseteq AllKinds
    /\ MaxGen \in Nat \ {0} /\ {MaxFaults, MaxRequests} \subseteq Nat

VARIABLES
  route,     \* control.db: the desired state of each route
  held,      \* control.db: the routes on hold for a restore
  recorded,  \* control.db: the ingress generation recorded as active, 0 if none
  api,       \* the handlers
  caller,    \* the handlers that wait for the helper's ingress operation
  restoring  \* the helper is restoring the application

apiVars == <<route, held, recorded, api>>
vars == <<ingressVars, used, apiVars, caller, restoring>>

\* kind, r: the request.  mine: the routes this request put on hold or released.
\* list: the routes it asks the helper to serve; left: those whose hold it has still
\* to read.  gen, prev: what the helper answered.  stage: which of its applies is
\* under way.  alone: no other request has overlapped it.
Idle == [pc |-> "idle", kind |-> "none", r |-> {}, mine |-> {}, list |-> {}, left |-> {},
         gen |-> 0, prev |-> 0, stage |-> "none", ok |-> FALSE, alone |-> TRUE, reply |-> "none"]

Enabled == {r \in Routes : route[r] = "enabled"}
Wanted == Enabled \ held

Goto(h, step) == api' = [api EXCEPT ![h].pc = step]
ThenApply(h, stage) == api' = [api EXCEPT ![h].pc = "list", ![h].stage = stage]
Reply(h, said) == api' = [api EXCEPT ![h] = [Idle EXCEPT !.reply = said]]
SetRoutes(S, state) == route' = [r \in Routes |-> IF r \in S THEN state ELSE route[r]]

\* DELETE FROM ingress_routes: the hold goes with the row.
DeleteRows(S) == SetRoutes(S, "absent") /\ held' = held \ S

\* setRouteHolds(true): one transaction, which a route that is gone makes fail.
Holdable(S) == \A r \in S : route[r] # "absent"

\* A statement that may fail.  Where the code drops its error it goes on all the
\* same.
Attempt(done, undone) == (done /\ NoFault) \/ (undone /\ Fault)

inIngress == UNCHANGED <<ingressVars, caller, restoring>>

----------------------------------------------------------------------------
(* A request arrives.                                                      *)

Arrive(h, kind, S, step, mine, left) ==
    LET others == {x \in Handlers \ {h} : api[x].pc # "idle"} IN
    /\ kind \in Kinds /\ api[h].pc = "idle" /\ used.requests < MaxRequests
    /\ api' = [x \in Handlers |->
                 IF x = h THEN [Idle EXCEPT !.pc = step, !.kind = kind, !.r = S, !.mine = mine,
                                            !.left = left, !.stage = "main",
                                            !.alone = others = {}]
                 ELSE [api[x] EXCEPT !.alone = @ /\ api[x].pc = "idle"]]
    /\ others # {} => used.faults < MaxFaults
    /\ used' = [used EXCEPT !.requests = @ + 1, !.faults = IF others = {} THEN @ ELSE @ + 1]
    /\ UNCHANGED recorded
    /\ inIngress

\* POST /api/v1/ingress: policy checks, then the row.
CreateRoute(h) ==
    \E r \in Routes :
      /\ route[r] = "absent"
      /\ SetRoutes({r}, "enabled") /\ UNCHANGED held
      /\ Arrive(h, "create", {r}, "list", {}, {})

CreateDisabledRoute(h) ==
    \E r \in Routes :
      /\ route[r] = "absent"
      /\ SetRoutes({r}, "disabled") /\ UNCHANGED held
      /\ Arrive(h, "create_disabled", {r}, "idle", {}, {})

\* Mutant: the route stays enabled until its row is deleted.
DeleteStillEnabled(h) ==
    \E r \in Routes :
      /\ route[r] # "absent"
      /\ UNCHANGED <<route, held>>
      /\ Arrive(h, "delete", {r}, "list", {}, {})

\* DELETE /api/v1/ingress/{route}: disabled first, removed once nginx has dropped it.
DeleteRoute(h) ==
    \E r \in Routes :
      /\ route[r] # "absent"
      /\ SetRoutes({r}, "disabled") /\ UNCHANGED held
      /\ Arrive(h, "delete", {r}, "list", {}, {})

\* POST /api/v1/ingress/reconcile: the enabled routes, then the hold of each, which
\* counts as absent if it cannot be read.
ReconcileIngress(h) ==
    /\ UNCHANGED <<route, held>>
    /\ Arrive(h, "reconcile", {}, "probe", {}, Enabled)

ProbeRoute(h) ==
    /\ api[h].pc = "probe"
    /\ \E r \in api[h].left :
         Attempt(api' = [api EXCEPT ![h].left = @ \ {r},
                                    ![h].mine = IF r \in held THEN @ \cup {r} ELSE @],
                 api' = [api EXCEPT ![h].left = @ \ {r}])
    /\ UNCHANGED <<route, held, recorded>> /\ inIngress

\* The backend of a route on hold is not ready: the request ends.
NotReady(h) ==
    /\ api[h].pc = "probe" /\ api[h].left \cap held # {}
    /\ Reply(h, "failed")
    /\ UNCHANGED <<route, held, recorded, used>> /\ inIngress

\* All holds go, those put on by a restore since the probe included.
ReleaseHolds(h) ==
    /\ api[h].pc = "probe" /\ api[h].left = {}
    /\ Attempt(held' = {} /\ ThenApply(h, "main"), UNCHANGED held /\ Reply(h, "failed"))
    /\ UNCHANGED <<route, recorded>> /\ inIngress

\* applicationBackupOperation and quiesceIngressForRestore: the enabled routes of the
\* installation are listed, put on hold and taken out of nginx before the helper
\* restores.
RestoreApplication(h) ==
    LET mine == Restored \cap Enabled IN
    /\ UNCHANGED <<route, held>>
    /\ Arrive(h, "restore", {}, IF mine = {} THEN "restore" ELSE "hold", mine, {})

\* Mutant: the helper is called once the holds are written.
HoldUnapplied(h) ==
    /\ api[h].pc = "hold" /\ Holdable(api[h].mine)
    /\ held' = held \cup api[h].mine /\ Goto(h, "restore") /\ NoFault
    /\ UNCHANGED <<route, recorded>> /\ inIngress

HoldRoutes(h) ==
    /\ api[h].pc = "hold"
    /\ \/ /\ Holdable(api[h].mine) /\ NoFault
          /\ held' = held \cup api[h].mine /\ ThenApply(h, "main")
       \/ ~Holdable(api[h].mine) /\ NoFault /\ UNCHANGED held /\ Reply(h, "failed")
       \/ Fault /\ UNCHANGED held /\ Reply(h, "failed")
    /\ UNCHANGED <<route, recorded>> /\ inIngress

----------------------------------------------------------------------------
(* applyIngress: read the routes and their holds, call the helper, take    *)
(* its answer, record it in control.db.                                    *)

Answered(h, ok) ==
    api' = [api EXCEPT ![h].pc = "answered", ![h].ok = ok, ![h].list = {}, ![h].left = {},
                       ![h].gen = 0, ![h].prev = 0]

ListRoutes(h) ==
    /\ api[h].pc = "list"
    /\ Attempt(api' = [api EXCEPT ![h].pc = "holds", ![h].list = Enabled, ![h].left = Enabled],
               Answered(h, FALSE))
    /\ UNCHANGED <<route, held, recorded>> /\ inIngress

\* One query for each route.
ReadHold(h) ==
    /\ api[h].pc = "holds"
    /\ \E r \in api[h].left :
         Attempt(api' = [api EXCEPT ![h].left = @ \ {r}, ![h].list = @ \ (held \cap {r})],
                 Answered(h, FALSE))
    /\ UNCHANGED <<route, held, recorded>> /\ inIngress

SendApply(h) ==
    /\ api[h].pc = "holds" /\ api[h].left = {}
    /\ ApplyIngressGeneration(api[h].list)
    /\ caller' = {h} /\ api' = [api EXCEPT ![h].pc = "wait", ![h].list = {}]
    /\ UNCHANGED <<route, held, recorded, restoring, used>>

Refused(h) ==
    /\ api[h].pc = "holds" /\ api[h].left = {} /\ Answered(h, FALSE)
    /\ UNCHANGED <<route, held, recorded>> /\ inIngress

\* The host-ingress lease is taken (or this model has no generation left).
ApplyBusy(h) ==
    /\ job.pc # "idle" \/ NextGeneration \notin Gens
    /\ Refused(h) /\ NoFault

\* The helper turns a route down before it writes anything: its installation has no
\* active generation or no loopback binding, or the catalog does not authorise it.
ApplyRejected(h) ==
    /\ job.pc = "idle" /\ NextGeneration \in Gens
    /\ Refused(h) /\ Fault

\* The answer, direct or by GetOperation.
TakeAnswer ==
    /\ job.pc = "answer"
    /\ api' = [h \in Handlers |->
                 IF h \notin caller THEN api[h]
                 ELSE IF job.ok THEN [api[h] EXCEPT !.pc = "record", !.gen = job.gen, !.prev = job.prev]
                 ELSE [api[h] EXCEPT !.pc = "answered", !.ok = FALSE]]
    /\ caller' = {} /\ job' = NoJob
    /\ UNCHANGED <<rows, disk, nginx, handshake, route, held, recorded, restoring, used>>

\* RecordGeneration and CommitGeneration in control.db: the generation that the
\* answer names as previous is no longer active and the new one is.  An index
\* allows one active row, so if control.db has another the transaction fails.
RecordGeneration(h) ==
    /\ api[h].pc = "record"
    /\ LET unique == recorded \in {0, api[h].prev, api[h].gen} IN
       \/ unique /\ recorded' = api[h].gen /\ Answered(h, TRUE) /\ NoFault
       \/ ~unique /\ UNCHANGED recorded /\ Answered(h, FALSE) /\ NoFault
       \/ UNCHANGED recorded /\ Answered(h, FALSE) /\ Fault
    /\ UNCHANGED <<route, held>> /\ inIngress

\* No answer: the lookup finds the operation still executing, or no helper at all.
\* Its placeholder has no generation, so the handler takes it for a refusal.
LoseAnswer(h) ==
    /\ h \in caller /\ Fault
    /\ caller' = {} /\ Answered(h, FALSE)
    /\ UNCHANGED <<ingressVars, route, held, recorded, restoring>>

----------------------------------------------------------------------------
(* What each handler does with the answer.                                 *)

After(h, kind, stage, ok) ==
    /\ api[h].pc = "answered" /\ api[h].kind = kind /\ api[h].stage = stage /\ api[h].ok = ok
    /\ UNCHANGED recorded /\ inIngress

Created(h) ==
    /\ After(h, "create", "main", TRUE)
    /\ IF api[h].r \subseteq Remote THEN Goto(h, "remote") ELSE Reply(h, "ok")
    /\ UNCHANGED <<route, held, used>>

CreateFailed(h) ==
    /\ After(h, "create", "main", FALSE)
    /\ Attempt(DeleteRows(api[h].r), UNCHANGED <<route, held>>)
    /\ Reply(h, "failed")

\* addCloudflareRemoteRoute; if it fails the route goes again.  The row may outlive
\* its failing delete.
AddRemoteRoute(h) ==
    /\ api[h].pc = "remote"
    /\ \/ Reply(h, "ok") /\ UNCHANGED <<route, held>> /\ NoFault
       \/ /\ DeleteRows(api[h].r) \/ UNCHANGED <<route, held>>
          /\ ThenApply(h, "undo") /\ Fault
    /\ UNCHANGED recorded /\ inIngress

RemoteUndone(h) ==
    /\ \E ok \in BOOLEAN :
         After(h, "create", "undo", ok) /\ Reply(h, IF ok THEN "failed" ELSE "attention")
    /\ UNCHANGED <<route, held, used>>

Deleted(h) ==
    /\ After(h, "delete", "main", TRUE)
    /\ Attempt(DeleteRows(api[h].r) /\ Reply(h, "ok"),
               UNCHANGED <<route, held>> /\ Reply(h, "attention"))

\* A route that still has its row is enabled again, whatever it was before.
DeleteFailed(h) ==
    /\ After(h, "delete", "main", FALSE)
    /\ Attempt(SetRoutes({r \in api[h].r : route[r] # "absent"}, "enabled"), UNCHANGED route)
    /\ Reply(h, "failed") /\ UNCHANGED held

Reconciled(h) ==
    /\ After(h, "reconcile", "main", TRUE) /\ Reply(h, "ok")
    /\ UNCHANGED <<route, held, used>>

\* setRouteHolds(true) and one more apply; neither error matters any more.
HoldAgain(h) ==
    /\ After(h, "reconcile", "main", FALSE) \/ After(h, "restore", "open", FALSE)
    /\ \/ Holdable(api[h].mine) /\ held' = held \cup api[h].mine /\ NoFault
       \/ ~Holdable(api[h].mine) /\ UNCHANGED held /\ NoFault
       \/ UNCHANGED held /\ Fault
    /\ ThenApply(h, "undo") /\ UNCHANGED route

Quiesced(h) ==
    /\ After(h, "restore", "main", TRUE) /\ Goto(h, "restore")
    /\ UNCHANGED <<route, held, used>>

\* setRouteHolds(false), whose error is dropped, and one more apply.
QuiesceFailed(h) ==
    /\ After(h, "restore", "main", FALSE)
    /\ Attempt(held' = held \ api[h].mine, UNCHANGED held)
    /\ ThenApply(h, "undo") /\ UNCHANGED route

Undone(h) ==
    /\ \E kind \in {"reconcile", "restore"}, ok \in BOOLEAN : After(h, kind, "undo", ok)
    /\ Reply(h, "failed")
    /\ UNCHANGED <<route, held, used>>

\* The helper restores the installation; its own steps are those of AppRestore.
CallRestore(h) ==
    /\ api[h].pc = "restore"
    /\ IF restoring THEN Reply(h, "failed") /\ UNCHANGED restoring   \* the installation is busy
       ELSE Goto(h, "restoring") /\ restoring' = TRUE
    /\ UNCHANGED <<ingressVars, used, route, held, recorded, caller>>

\* A failed restore leaves the routes on hold.
RestoreEnds(h) ==
    /\ api[h].pc = "restoring" /\ restoring' = FALSE
    /\ \/ IF api[h].mine = {} THEN Reply(h, "ok") ELSE Goto(h, "reopen")
       \/ Reply(h, "failed")
    /\ UNCHANGED <<ingressVars, used, route, held, recorded, caller>>

\* The answer is lost: the API replies accepted, the helper goes on.
RestoreAnswerLost(h) ==
    /\ api[h].pc = "restoring" /\ Fault
    /\ Reply(h, "accepted")
    /\ UNCHANGED <<ingressVars, route, held, recorded, caller, restoring>>

RestoreEndsUnseen ==
    /\ restoring /\ \A h \in Handlers : api[h].pc # "restoring"
    /\ restoring' = FALSE
    /\ UNCHANGED <<ingressVars, used, apiVars, caller>>

\* reactivateIngressAfterRestore: a backend that is not ready, or a transaction that
\* fails, leaves the routes on hold.
Reopen(h) ==
    /\ api[h].pc = "reopen"
    /\ \/ held' = held \ api[h].mine /\ ThenApply(h, "open")
       \/ UNCHANGED held /\ Reply(h, "failed")
    /\ UNCHANGED <<route, recorded, used>> /\ inIngress

Reopened(h) ==
    /\ After(h, "restore", "open", TRUE) /\ Reply(h, "ok")
    /\ UNCHANGED <<route, held, used>>

----------------------------------------------------------------------------
(* Crashes.  A handler that dies takes its clean-up with it.               *)

HelperCrashes ==
    /\ Fault
    /\ HelperStops /\ restoring' = FALSE /\ caller' = {}
    /\ api' = [h \in Handlers |->
                 IF h \in caller THEN [api[h] EXCEPT !.pc = "answered", !.ok = FALSE]
                 ELSE IF api[h].pc = "restoring" THEN [Idle EXCEPT !.reply = "accepted"]
                 ELSE api[h]]
    /\ UNCHANGED <<route, held, recorded>>

ApiCrashes ==
    /\ Fault
    /\ \E h \in Handlers : api[h].pc # "idle"
    /\ api' = [h \in Handlers |-> Idle] /\ caller' = {}
    /\ UNCHANGED <<ingressVars, route, held, recorded, restoring>>

\* The helper's state is restored, alone or with control.db (whose archive has the
\* same routes here): then every enabled route is on hold and no generation active.
HostRestored ==
    /\ RestoreHostState
    /\ ~restoring /\ \A h \in Handlers : api[h].pc = "idle"
    /\ \/ held' = held \cup Enabled /\ recorded' = 0
       \/ UNCHANGED <<held, recorded>>
    /\ UNCHANGED <<route, api, caller, restoring>>

----------------------------------------------------------------------------
Init ==
    /\ \E S \in {{}, Restored} :
         IngressInit(S) /\ route = [r \in Routes |-> IF r \in S THEN "enabled" ELSE "absent"]
    /\ held = {} /\ recorded = current
    /\ api = [h \in Handlers |-> Idle] /\ caller = {} /\ restoring = FALSE
    /\ used = [faults |-> 0, requests |-> 0]

Handle(h) ==
    \/ CreateRoute(h) \/ CreateDisabledRoute(h) \/ DeleteRoute(h)
    \/ ReconcileIngress(h) \/ ProbeRoute(h) \/ NotReady(h) \/ ReleaseHolds(h)
    \/ RestoreApplication(h) \/ HoldRoutes(h) \/ ListRoutes(h) \/ ReadHold(h)
    \/ RecordGeneration(h) \/ SendApply(h) \/ ApplyBusy(h) \/ ApplyRejected(h) \/ LoseAnswer(h)
    \/ Created(h) \/ CreateFailed(h) \/ AddRemoteRoute(h) \/ RemoteUndone(h)
    \/ Deleted(h) \/ DeleteFailed(h) \/ Reconciled(h) \/ HoldAgain(h)
    \/ Quiesced(h) \/ QuiesceFailed(h) \/ Undone(h) \/ CallRestore(h)
    \/ RestoreEnds(h) \/ RestoreAnswerLost(h) \/ Reopen(h) \/ Reopened(h)

Next ==
    \/ \E h \in Handlers : Handle(h)
    \/ (ApplySteps \/ RuntimeSteps) /\ UNCHANGED <<apiVars, caller, restoring>>
    \/ TakeAnswer \/ RestoreEndsUnseen \/ HelperCrashes \/ ApiCrashes \/ HostRestored

Spec == Init /\ [][Next]_vars

----------------------------------------------------------------------------
HandlerStates ==
    [pc : {"idle", "probe", "hold", "list", "holds", "wait", "record", "answered", "remote",
           "restore", "restoring", "reopen"},
     kind : {"none"} \cup AllKinds, r : SUBSET Routes, mine : SUBSET Routes, list : SUBSET Routes,
     left : SUBSET Routes, gen : 0..MaxGen, prev : 0..MaxGen,
     stage : {"none", "main", "undo", "open"}, ok : BOOLEAN, alone : BOOLEAN,
     reply : {"none", "ok", "failed", "attention", "accepted"}]

TypeOK ==
    /\ IngressTypeOK
    /\ route \in [Routes -> {"absent", "disabled", "enabled"}] /\ held \subseteq Routes
    /\ recorded \in 0..MaxGen
    /\ api \in [Handlers -> HandlerStates]
    /\ caller \subseteq Handlers /\ restoring \in BOOLEAN

\* An application restore that put routes on hold, and that no other request
\* overlapped, runs with all routes of the installation out of the linked
\* configuration, which nginx has loaded or was told to load (alpha14.go:284-310).
\* A refused load, or an acknowledgement meant for another request (amiss), is the
\* exception: the helper cannot see either.
QuietDuringRestore ==
    \A h \in Handlers :
      api[h].pc = "restoring" /\ api[h].alone /\ api[h].mine # {}
          => ServedBy(current) \cap Restored = {} /\ (amiss \/ Told)

\* Every restore that put routes on hold runs with all routes of the installation
\* out of nginx, as the threat model says (docs/security/threat-model.md:740-741).
\* The code does not keep it and no run checks it: see the README.
ClosedWhileRestoring ==
    \A h \in Handlers :
      api[h].pc = "restoring" /\ api[h].mine # {} => Served \cap Restored = {}

\* A request that changed routes, ran alone and was answered with success leaves the
\* link at a configuration of exactly the enabled routes that are not on hold,
\* control.db with that generation active, and nginx with it or told to load it,
\* whatever was lost, rolled back or restored before (alpha14.go:40-187, 239-282);
\* amiss is the exception again.
SuccessIsDelivered ==
    [][\A h \in Handlers :
         /\ api[h].pc # "idle" /\ api'[h].pc = "idle" /\ api'[h].reply = "ok"
         /\ api[h].alone /\ (api[h].kind = "restore" => api[h].mine # {})
         => /\ ServedBy(current)' = Wanted' /\ recorded' = current'
            /\ (amiss \/ Told)']_vars
=============================================================================
