-------------------------- MODULE ControlProjection --------------------------
(***************************************************************************)
(* The API's side of a lifecycle operation (kitpro-api/main.go): the row   *)
(* of the operation and the row of the installation in control.db, the     *)
(* call to the helper whose answer may be lost, and the projection of what *)
(* the helper committed.  Requests are goroutines that interleave between  *)
(* their reads, the helper's answer and their writes; the API process and  *)
(* the connection may die at any of these points while the helper goes on. *)
(* One installation; the helper is what its answers show of it: receipts,  *)
(* the generation it committed and one operation at a time.                *)
(***************************************************************************)
EXTENDS Integers, FiniteSets

CONSTANTS Handlers,      \* requests the API may be serving at once
          Operations,    \* operation ids
          MaxRequests,   \* requests altogether
          MaxFaults      \* lost messages, failing statements, crashes

ASSUME ProjectionAssumption == {MaxRequests, MaxFaults} \subseteq Nat

VARIABLES
  row,         \* control.db, installations: whether the application has components,
               \* generation, release, desired and runtime state
  op,          \* control.db, operations
  api,         \* the handlers
  inbox,       \* requests on their way to the helper
  receipt,     \* helper.db: the state of each operation
  result,      \* helper.db: what each operation committed
  active,      \* helper.db: the generation the helper holds, its release and state
  unsure,      \* operations whose outcome the helper left open or could not record
  overtaken,   \* a result was projected while its own handler was still to do so
  used         \* faults and requests so far

control == <<row, op>>
helper == <<receipt, result, active, unsure>>
vars == <<control, api, inbox, helper, overtaken, used>>

Releases == 1..2        \* releases of the catalog entry
Replacing == {"install", "replace", "update", "recreate"}
Operating == {"start", "stop", "remove"}
Lifecycle == Replacing \cup Operating
Checking == {"reconcile", "repair"}
Desired == [start |-> "running", stop |-> "stopped", remove |-> "runtime_removed"]

NoResult == [gen |-> 0, release |-> 1, state |-> "none", projects |-> FALSE]
Idle == [pc |-> "idle", kind |-> "none", o |-> "none", gen |-> 0, release |-> 1, sent |-> FALSE,
         answer |-> "none", status |-> "none"]

Spend(what) == used' = [used EXCEPT ![what] = @ + 1]
Fault == used.faults < MaxFaults /\ Spend("faults")
Goto(h, step) == api' = [api EXCEPT ![h].pc = step]
Answer(h, said) == api' = [api EXCEPT ![h].pc = "project", ![h].answer = said]
Settle(h, status) == api' = [api EXCEPT ![h].pc = "record", ![h].status = status]

inHelper == UNCHANGED <<helper, inbox>>

----------------------------------------------------------------------------
(* A request arrives.                                                      *)

\* Insert of operations.go: the row is accepted before the helper is asked.
Begin(h, kind, gen, release) ==
    \E o \in Operations :
      /\ api[h] = Idle /\ used.requests < MaxRequests /\ op[o].status = "none"
      /\ op' = [op EXCEPT ![o] = [kind |-> kind, status |-> "accepted"]]
      /\ api' = [api EXCEPT ![h] = [Idle EXCEPT !.pc = "send", !.kind = kind, !.o = o, !.gen = gen,
                                                !.release = release]]
      /\ Spend("requests")
      /\ inHelper /\ UNCHANGED overtaken

Install(h) ==
    /\ ~row.exists
    /\ \E composite \in BOOLEAN :
         row' = [exists |-> TRUE, composite |-> composite, gen |-> 0, release |-> 1,
                 desired |-> "runtime_removed", runtime |-> "none"]
    /\ Begin(h, "install", 1, 1)

\* The installation's row could not be written: the operation fails at once.
InstallUnsaved(h) ==
    \E o \in Operations :
      /\ ~row.exists /\ api[h] = Idle /\ used.requests < MaxRequests /\ op[o].status = "none"
      /\ op' = [op EXCEPT ![o] = [kind |-> "install", status |-> "failed"]]
      /\ Fault
      /\ inHelper /\ UNCHANGED <<row, api, overtaken>>

\* The next generation after the one in the control row, read before the helper
\* is asked.
NextGeneration(h, kind, release) ==
    /\ row.exists /\ UNCHANGED row
    /\ Begin(h, kind, row.gen + 1, release)

\* Recreate and configure exposure keep the release in the row.
Replace(h) == NextGeneration(h, "replace", row.release)

\* Update asks for another release of the catalog; the copy of the control
\* database it makes first changes nothing here.
Update(h) ==
    \E release \in Releases \ {row.release} : NextGeneration(h, "update", release)

Operate(h, action) ==
    /\ row.exists /\ UNCHANGED row
    /\ Begin(h, action, row.gen, 1)

Reconcile(h) ==
    /\ row.exists /\ UNCHANGED row
    /\ Begin(h, "reconcile", 0, 1)

\* installationRepair does not look at the installations table.
Repair(h) == UNCHANGED row /\ Begin(h, "repair", 0, 1)

\* Controlled recreation: allowed when the helper's stored reconciliation
\* recommends it, which is the helper's to say.
Recreate(h) == NextGeneration(h, "recreate", row.release)

\* GET of an operation: only an unsettled row is looked up.
Poll(h) ==
    \E o \in Operations :
      /\ api[h] = Idle /\ used.requests < MaxRequests
      /\ op[o].status \in {"accepted", "pending"}
      /\ api' = [api EXCEPT ![h] = [Idle EXCEPT !.pc = "lookup", !.kind = "poll", !.o = o,
                                                !.status = op[o].status]]
      /\ Spend("requests")
      /\ inHelper /\ UNCHANGED <<control, overtaken>>

\* The plan, the bindings or the storage are refused before the helper is asked.
Refuse(h) ==
    /\ api[h].pc = "send" /\ api[h].kind \in Replacing
    /\ Settle(h, "failed")
    /\ inHelper /\ UNCHANGED <<control, overtaken, used>>

----------------------------------------------------------------------------
(* The call: callHelper and callHelperOperation.                           *)

Send(h) ==
    /\ api[h].pc = "send"
    /\ inbox' = inbox \cup {[o |-> api[h].o, kind |-> api[h].kind, gen |-> api[h].gen,
                          release |-> api[h].release]}
    /\ api' = [api EXCEPT ![h].pc = "wait", ![h].sent = TRUE]
    /\ UNCHANGED <<control, helper, overtaken, used>>

DialFails(h) ==
    /\ api[h].pc = "send" /\ Fault /\ Goto(h, "lookup")
    /\ inHelper /\ UNCHANGED <<control, overtaken>>

\* The write fails part way and the helper never reads the request.
WriteFails(h) ==
    /\ api[h].pc = "wait" /\ Fault /\ Goto(h, "lookup")
    /\ \E q \in inbox : q.o = api[h].o /\ inbox' = inbox \ {q}
    /\ UNCHANGED <<control, helper, overtaken>>

\* The response deadline passes or the connection breaks.
LoseAnswer(h) ==
    /\ api[h].pc = "wait" /\ Fault /\ Goto(h, "lookup")
    /\ inHelper /\ UNCHANGED <<control, overtaken>>

Ended == {"succeeded", "failed", "action_required", "superseded"}

TakeAnswer(h) ==
    /\ api[h].pc = "wait" /\ receipt[api[h].o] \in Ended \cup {"refused"}
    /\ Answer(h, receipt[api[h].o])
    /\ inHelper /\ UNCHANGED <<control, overtaken, used>>

\* The handler finished but its receipt could not be completed.
TakeRecoveryRequired(h) ==
    /\ api[h].pc = "wait" /\ api[h].o \in unsure /\ receipt[api[h].o] = "executing"
    /\ Answer(h, "action_required")
    /\ inHelper /\ UNCHANGED <<control, overtaken, used>>

Found(o) == receipt[o] \in Ended \cup {"executing"}

SilenceIsFailure(h) == IF api[h].kind = "poll" THEN "unknown" ELSE "error"

\* What stands for an answer when the lookup has none either.
Unknown(h) ==
    CASE api[h].kind = "poll" -> "unknown"
      [] api[h].sent          -> "executing"
      [] OTHER                -> "error"

Lookup(h) ==
    /\ api[h].pc = "lookup"
    /\ Answer(h, IF Found(api[h].o) THEN receipt[api[h].o] ELSE Unknown(h))
    /\ inHelper /\ UNCHANGED <<control, overtaken, used>>

LookupFails(h) ==
    /\ api[h].pc = "lookup" /\ Fault
    /\ Answer(h, Unknown(h))
    /\ inHelper /\ UNCHANGED <<control, overtaken>>

----------------------------------------------------------------------------
(* The helper.                                                             *)

Busy(o) == {x \in Operations \ {o} : receipt[x] = "executing"}
Interrupted(o) == {x \in Operations \ {o} : receipt[x] = "action_required"}

\* One lease per installation; a repair takes over an interrupted holder's.  A
\* conflict is a failed receipt of its own, which a lookup finds.
HelperBegins ==
    \E q \in inbox :
      LET held == Busy(q.o) # {} \/ (Interrupted(q.o) # {} /\ q.kind \notin {"repair", "recreate"}) IN
      /\ inbox' = inbox \ {q}
      /\ receipt' = [o \in Operations |->
                       IF o = q.o THEN IF held THEN "failed" ELSE "executing"
                       ELSE IF ~held /\ o \in Interrupted(q.o) THEN "superseded" ELSE receipt[o]]
      /\ result' = [result EXCEPT ![q.o] = [NoResult EXCEPT !.gen = q.gen, !.release = q.release]]
      /\ UNCHANGED <<control, api, active, unsure, overtaken, used>>

\* A request the helper turns away before it opens a receipt.
HelperRejects ==
    \E q \in inbox :
      /\ inbox' = inbox \ {q}
      /\ receipt' = [receipt EXCEPT ![q.o] = "refused"]
      /\ UNCHANGED <<control, api, result, active, unsure, overtaken, used>>

IsActive == active.state \in {"running", "stopped"}

\* validateTrustedRecreation: the request names the next generation and, unless it
\* is an update, the release the helper already trusts.  Of an application with
\* components, which the API reads off the installation's row, only the generation
\* is compared (validateTrustedMultiRecreation).
Trusted(o) ==
    /\ result[o].gen = active.gen + 1
    /\ \/ op[o].kind = "update" \/ row.composite \/ active.gen = 0
       \/ result[o].release = active.release

\* What an operation may commit.  A replacement names its generation, the
\* others act on the active one whatever generation the request names.
Commits(o) ==
    CASE op[o].kind \in Replacing ->
           IF Trusted(o) THEN {[result[o] EXCEPT !.state = "running", !.projects = TRUE]} ELSE {}
      [] op[o].kind \in Operating ->
           IF IsActive THEN {[active EXCEPT !.state = Desired[op[o].kind], !.projects = TRUE]} ELSE {}
      [] op[o].kind = "reconcile" -> {[active EXCEPT !.projects = IsActive]}
      [] OTHER ->
           {[active EXCEPT !.projects = IsActive, !.state = s] :
               s \in IF IsActive THEN {active.state, "running"} ELSE {active.state}}

HelperSucceeds(o) ==
    /\ receipt[o] = "executing"
    /\ \E r \in Commits(o) : active' = r /\ result' = [result EXCEPT ![o] = r]
    /\ receipt' = [receipt EXCEPT ![o] = "succeeded"]
    /\ UNCHANGED <<control, api, inbox, unsure, overtaken, used>>

\* Failed: nothing committed.  Action required: nobody knows.
HelperFails(o) ==
    /\ receipt[o] = "executing"
    /\ \/ receipt' = [receipt EXCEPT ![o] = "failed"] /\ UNCHANGED <<active, unsure, used>>
       \/ /\ Fault
          /\ receipt' = [receipt EXCEPT ![o] = "action_required"]
          /\ active' \in {active} \cup Commits(o)
          /\ unsure' = unsure \cup {o}
    /\ UNCHANGED <<control, api, inbox, result, overtaken>>

\* --resolve-operation: the administrator releases the lease.
HelperResolves(o) ==
    /\ receipt[o] = "action_required"
    /\ receipt' = [receipt EXCEPT ![o] = "failed"]
    /\ UNCHANGED <<control, api, inbox, result, active, unsure, overtaken, used>>

\* AuthorizeMutation or Complete fails: the receipt stays as it is until the next
\* start recovers it, and the answer is an error.
HelperCannotRecord(o) ==
    /\ receipt[o] = "executing" /\ o \notin unsure /\ Fault
    /\ unsure' = unsure \cup {o}
    /\ UNCHANGED <<control, api, inbox, receipt, result, active, overtaken>>

----------------------------------------------------------------------------
(* The answer is projected into the installation's row.                    *)

\* Replacements whose handler has still to write what became of them.
Holding(h) ==
    {x \in Handlers \ {h} : /\ api[x].kind \in Replacing /\ api[x].pc # "record"
                            /\ api[x].kind = "install" \/ receipt[api[x].o] = "succeeded"}
Overtakes(h) == overtaken' = (overtaken \/ Holding(h) # {})

\* The statements of POST: no comparison with the generation in the row, and the
\* release of an application with components is written by an update only.  The
\* branch before them, for a result that does not decode, is not taken: the
\* helper's own results have a generation, a release and a state.
ProjectReplacement(h, r) ==
    /\ row' = [row EXCEPT !.gen = r.gen, !.desired = r.state, !.runtime = r.state,
                          !.release = IF api[h].kind = "update" \/ ~row.composite
                                      THEN r.release ELSE @]
    /\ Overtakes(h)

RepairUnguarded(h, r) ==
    /\ row' = [row EXCEPT !.gen = r.gen, !.release = r.release, !.desired = r.state,
                          !.runtime = r.state]
    /\ Overtakes(h)

RepairCommittedProjection(h, r) ==
    /\ row.exists /\ row.gen <= r.gen
    /\ row' = [row EXCEPT !.gen = r.gen, !.release = r.release, !.desired = r.state,
                          !.runtime = r.state]
    /\ Overtakes(h)

ProjectReconciliation(h, r) ==
    /\ row.exists /\ (r.projects => row.gen <= r.gen)
    /\ row' = [row EXCEPT !.gen = IF r.projects THEN r.gen ELSE @,
                          !.release = IF r.projects THEN r.release ELSE @, !.runtime = r.state]
    /\ IF r.projects THEN Overtakes(h) ELSE UNCHANGED overtaken

\* Which projection a handler makes of a success, and what it says when it cannot.
Projection(h, kind, r) ==
    IF api[h].kind \in Replacing THEN ProjectReplacement(h, r)
    ELSE IF kind \in Lifecycle THEN RepairCommittedProjection(h, r)
    ELSE ProjectReconciliation(h, r)

PendingForgotten(h, kind) == "succeeded"

Unprojected(h, kind) ==
    IF kind \in Lifecycle THEN "pending"
    ELSE IF api[h].kind = "poll" THEN "accepted" ELSE "failed"

Projects(h) ==
    LET kind == op[api[h].o].kind  r == result[api[h].o] IN
    /\ api[h].pc = "project" /\ api[h].answer = "succeeded"
    /\ Projection(h, kind, r)
    /\ Settle(h, "succeeded")
    /\ inHelper /\ UNCHANGED <<op, used>>

Guarded(h, kind, r) ==
    /\ api[h].kind \notin Replacing
    /\ ~row.exists \/ (row.gen > r.gen /\ (kind \in Lifecycle \/ r.projects))

ProjectionRefused(h) ==
    LET kind == op[api[h].o].kind  r == result[api[h].o] IN
    /\ api[h].pc = "project" /\ api[h].answer = "succeeded"
    /\ Guarded(h, kind, r)
    /\ Settle(h, Unprojected(h, kind))
    /\ inHelper /\ UNCHANGED <<control, overtaken, used>>

ProjectionFails(h) ==
    /\ api[h].pc = "project" /\ api[h].answer = "succeeded" /\ Fault
    /\ Settle(h, Unprojected(h, op[api[h].o].kind))
    /\ inHelper /\ UNCHANGED <<control, overtaken>>

\* A first installation that the helper turned down starts again at generation 0.
Fails(h) ==
    /\ api[h].pc = "project" /\ api[h].answer \in {"refused", "error"} \cup (Ended \ {"succeeded"})
    /\ row' = IF api[h].kind = "install" /\ api[h].answer # "error"
              THEN [row EXCEPT !.gen = 0, !.desired = "runtime_removed"] ELSE row
    /\ Settle(h, "failed")
    /\ inHelper /\ UNCHANGED <<op, overtaken, used>>

\* Still running, or nothing known: the row keeps its status.
Continues(h) ==
    /\ api[h].pc = "project" /\ api[h].answer = "executing"
    /\ Settle(h, IF api[h].kind = "poll" THEN api[h].status ELSE "accepted")
    /\ inHelper /\ UNCHANGED <<control, overtaken, used>>

PollLearnsNothing(h) ==
    /\ api[h].pc = "project" /\ api[h].answer = "unknown"
    /\ api' = [api EXCEPT ![h] = Idle]
    /\ inHelper /\ UNCHANGED <<control, overtaken, used>>

\* Update of operations.go: whatever the row says by now is overwritten.
Record(h) ==
    /\ api[h].pc = "record"
    /\ op' = [op EXCEPT ![api[h].o].status = api[h].status]
    /\ api' = [api EXCEPT ![h] = Idle]
    /\ inHelper /\ UNCHANGED <<row, overtaken, used>>

RecordFails(h) ==
    /\ api[h].pc = "record" /\ Fault
    /\ api' = [api EXCEPT ![h] = Idle]
    /\ inHelper /\ UNCHANGED <<control, overtaken>>

\* The API dies; RecoverAccepted leaves every status as it is.
Crash ==
    /\ \E h \in Handlers : api[h] # Idle
    /\ Fault
    /\ api' = [h \in Handlers |-> Idle]
    /\ inHelper /\ UNCHANGED <<control, overtaken>>

----------------------------------------------------------------------------
\* A host without the installation, or with one at rest.
Init ==
    /\ \/ /\ row = [exists |-> FALSE, composite |-> FALSE, gen |-> 0, release |-> 1,
                    desired |-> "none", runtime |-> "none"]
          /\ active = NoResult
       \/ /\ \E composite \in BOOLEAN :
               row = [exists |-> TRUE, composite |-> composite, gen |-> 1, release |-> 1,
                      desired |-> "running", runtime |-> "running"]
          /\ active = [gen |-> 1, release |-> 1, state |-> "running", projects |-> TRUE]
    /\ op = [o \in Operations |-> [kind |-> "none", status |-> "none"]]
    /\ api = [h \in Handlers |-> Idle]
    /\ inbox = {}
    /\ receipt = [o \in Operations |-> "none"]
    /\ result = [o \in Operations |-> NoResult]
    /\ unsure = {}
    /\ overtaken = FALSE
    /\ used = [faults |-> 0, requests |-> 0]

Serve(h) ==
    \/ Install(h) \/ InstallUnsaved(h) \/ Replace(h) \/ Update(h) \/ Reconcile(h) \/ Repair(h) \/ Recreate(h) \/ Poll(h)
    \/ \E action \in Operating : Operate(h, action)
    \/ Refuse(h) \/ Send(h) \/ DialFails(h) \/ WriteFails(h) \/ LoseAnswer(h)
    \/ TakeAnswer(h) \/ TakeRecoveryRequired(h) \/ Lookup(h) \/ LookupFails(h)
    \/ Projects(h) \/ ProjectionRefused(h) \/ ProjectionFails(h) \/ Fails(h)
    \/ Continues(h) \/ PollLearnsNothing(h) \/ Record(h) \/ RecordFails(h)

Next ==
    \/ \E h \in Handlers : Serve(h)
    \/ HelperBegins \/ HelperRejects \/ Crash
    \/ \E o \in Operations : HelperSucceeds(o) \/ HelperFails(o) \/ HelperCannotRecord(o) \/ HelperResolves(o)

Spec == Init /\ [][Next]_vars

----------------------------------------------------------------------------
States == {"none", "running", "stopped", "runtime_removed"}
Answers == {"none", "refused", "executing", "unknown", "error"} \cup Ended
Statuses == {"none", "accepted", "succeeded", "failed", "pending"}
Results == [gen : Nat, release : Releases, state : States, projects : BOOLEAN]
HandlerStates ==
    [pc : {"idle", "send", "wait", "lookup", "project", "record"},
     kind : {"none", "poll"} \cup Lifecycle \cup Checking, o : Operations \cup {"none"},
     gen : Nat, release : Releases, sent : BOOLEAN, answer : Answers, status : Statuses]

\* Types of the two databases, the handlers and the messages.
TypeOK ==
    /\ row \in [exists : BOOLEAN, composite : BOOLEAN, gen : Nat, release : Releases,
                desired : States, runtime : States]
    /\ op \in [Operations -> [kind : {"none"} \cup Lifecycle \cup Checking, status : Statuses]]
    /\ api \in [Handlers -> HandlerStates]
    /\ inbox \subseteq [o : Operations, kind : Lifecycle \cup Checking, gen : Nat,
                      release : Releases]
    /\ receipt \in [Operations -> {"none", "refused", "executing"} \cup Ended]
    /\ result \in [Operations -> Results] /\ active \in Results
    /\ unsure \subseteq Operations /\ overtaken \in BOOLEAN
    /\ used \in [faults : Nat, requests : Nat]

Lost(o) == ~\E q \in inbox : q.o = o

\* The status the API shows is true of the helper, whatever was lost on the way:
\* a succeeded operation was committed by the helper, and a lifecycle operation
\* shown as failed is not on its way, not running and not committed, unless the
\* helper itself answered that it could not record the outcome.
StatusIsTrue ==
    \A o \in Operations :
      /\ op[o].status \in {"succeeded", "pending"} => receipt[o] = "succeeded"
      /\ op[o].status = "failed" /\ op[o].kind \in Lifecycle =>
           \/ o \in unsure
           \/ Lost(o) /\ receipt[o] \notin {"executing", "succeeded"}

Serving(o) == \E h \in Handlers : api[h].o = o

\* The control row never shows a generation the helper has not committed, shows the
\* committed one with the release it was committed with, and does not forget one it
\* does not show yet: some operation that produced or saw it is still accepted or
\* pending, so a poll projects it, or a handler still has it in hand.  Excepted are
\* outcomes the helper itself left open, and a projection another request overtook:
\* it may leave the generation behind, and, where the application has components
\* and POST does not write the release of a recreation, the release.
CommittedIsOwed ==
    /\ row.gen <= active.gen
    /\ row.gen = active.gen /\ row.gen > 0 =>
         row.release = active.release \/ (row.composite /\ overtaken)
    /\ \/ row.gen = active.gen \/ overtaken
       \/ \E o \in Operations :
            \/ /\ op[o].kind \in Lifecycle /\ result[o].gen = active.gen
               /\ receipt[o] = "succeeded" /\ (op[o].status \in {"accepted", "pending"} \/ Serving(o))
            \/ o \in unsure

Quiet == inbox = {} /\ \A h \in Handlers : api[h] = Idle

\* When nothing is under way, every operation is settled and the helper left no
\* outcome open, the control row shows what the helper committed last.
\* The code does not keep it and no run checks it: see the README.
ControlAgrees ==
    Quiet /\ ~overtaken /\ unsure = {}
    /\ (\A o \in Operations : /\ op[o].status \in {"none", "succeeded", "failed"}
                              /\ op[o].kind \notin Checking)
    => row.gen = active.gen /\ (row.gen > 0 => row.desired = active.state)

\* Results projected late, twice or out of order never take the row back to an
\* older generation, unless a poll or another request projected a replacement
\* while the handler of that replacement was still to do so: POST does not compare
\* generations, and its late write then wins.
GenerationNeverBack == [][overtaken' \/ row'.gen >= row.gen]_vars
=============================================================================
