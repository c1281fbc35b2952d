------------------------------ MODULE HelperOps ------------------------------
(***************************************************************************)
(* The durable operation coordinator of the privileged helper              *)
(* (internal/helperops/coordinator.go) together with the request loop that *)
(* drives it (serve in cmd/kitpro-helper/main.go) and the startup          *)
(* classification of interrupted work.                                     *)
(*                                                                         *)
(* Every privileged mutation is one row of helper_operations, bound to an  *)
(* operation id and to the hash of its request.  A row of                  *)
(* installation_leases per scope (an installation, host-storage,           *)
(* host-ingress, host-provider or helper-state) names the one operation    *)
(* that may mutate the scope and carries a fencing token.  Connection      *)
(* goroutines ("workers") run the operations; each remembers the token it  *)
(* was given.  Both tables are SQLite, so one transaction is one action    *)
(* here, and a crash loses the workers and the startup work list but no    *)
(* committed transaction.                                                  *)
(***************************************************************************)
EXTENDS Naturals

CONSTANTS
    OpIds,        \* operation identifiers chosen by the API
    Scopes,       \* lease scopes (operationScope)
    Requests,     \* the semantic requests a client may bind to an operation id
    Workers,      \* connection goroutines of the helper process
    NoOp,         \* "no operation"
    NoRequest,    \* the request of an operation id that was never used
    MaxCrashes,   \* bound: how often the helper process dies
    MaxFaults     \* bound: how often a state transaction of a worker fails

ASSUME NoOpAssumption == NoOp \notin OpIds
ASSUME RequestsAssumption ==
    /\ Requests \subseteq [scope : Scopes, repair : BOOLEAN]
    /\ NoRequest \notin Requests
ASSUME BoundsAssumption == MaxCrashes \in Nat /\ MaxFaults \in Nat

VARIABLES
    \* helper_operations, one function per column
    opState, opReq, opToken, opOutcome, opStarted,
    \* installation_leases, one function per column
    leaseState, leaseHolder, leaseToken,
    \* the helper process: life-cycle stage, startup work list, workers
    helper, items, current, wPc, wOp, wToken,
    \* what the client was last told, and what really reached the runtime
    reply, touched,
    crashes, faults

opVars     == <<opState, opReq, opToken, opOutcome, opStarted>>
leaseVars  == <<leaseState, leaseHolder, leaseToken>>
startVars  == <<helper, items, current>>
workVars   == <<wPc, wOp, wToken>>
boundVars  == <<crashes, faults>>
vars == <<opVars, leaseVars, startVars, workVars, reply, touched, boundVars>>

Interruptible == {"accepted", "executing", "reconciling"}
Terminal      == {"succeeded", "failed", "superseded"}
OpStates      == {"none", "action_required"} \cup Interruptible \cup Terminal
Outcomes      == {"not_dispatched", "unknown", "confirmed_applied", "mixed",
                  "confirmed_absent"}
LeaseStates   == {"none", "held", "released", "recovery_required"}
Stages        == {"down", "classifying", "observing", "serving"}
WorkerPcs     == {"idle", "begun", "running", "intent"}
Replies       == OpStates \ Interruptible

Scope(o) == opReq[o].scope

TypeOK ==
    /\ opState   \in [OpIds -> OpStates]
    /\ opReq     \in [OpIds -> Requests \cup {NoRequest}]
    /\ opToken   \in [OpIds -> Nat]
    /\ opOutcome \in [OpIds -> Outcomes]
    /\ opStarted \subseteq OpIds             \* rows whose started_at is set
    /\ leaseState  \in [Scopes -> LeaseStates]
    /\ leaseHolder \in [Scopes -> OpIds \cup {NoOp}]
    /\ leaseToken  \in [Scopes -> Nat]
    /\ helper \in Stages
    /\ items  \in [OpIds -> OpStates]
    /\ current \in OpIds \cup {NoOp}
    /\ wPc    \in [Workers -> WorkerPcs]
    /\ wOp    \in [Workers -> OpIds \cup {NoOp}]
    /\ wToken \in [Workers -> Nat]
    /\ reply  \in [OpIds -> Replies]
    /\ touched \subseteq OpIds
    /\ crashes \in 0 .. MaxCrashes
    /\ faults  \in 0 .. MaxFaults

Init ==
    /\ opState   = [o \in OpIds |-> "none"]
    /\ opReq     = [o \in OpIds |-> NoRequest]
    /\ opToken   = [o \in OpIds |-> 0]
    /\ opOutcome = [o \in OpIds |-> "not_dispatched"]
    /\ opStarted = {}
    /\ leaseState  = [s \in Scopes |-> "none"]
    /\ leaseHolder = [s \in Scopes |-> NoOp]
    /\ leaseToken  = [s \in Scopes |-> 0]
    /\ helper = "down"
    /\ items  = [o \in OpIds |-> "none"]
    /\ current = NoOp
    /\ wPc    = [w \in Workers |-> "idle"]
    /\ wOp    = [w \in Workers |-> NoOp]
    /\ wToken = [w \in Workers |-> 0]
    /\ reply  = [o \in OpIds |-> "none"]
    /\ touched = {}
    /\ crashes = 0
    /\ faults  = 0

-----------------------------------------------------------------------------
(* Helpers shared by the transactions.                                     *)

\* verifyFence: the caller still owns its scope under exactly its token.
VerifyFence(o, token) ==
    /\ opState[o] # "none"
    /\ leaseHolder[Scope(o)] = o
    /\ opToken[o] = token
    /\ leaseToken[Scope(o)] = token
    /\ leaseState[Scope(o)] = "held"

SetLease(s, o, token, state) ==
    /\ leaseHolder' = [leaseHolder EXCEPT ![s] = o]
    /\ leaseToken'  = [leaseToken EXCEPT ![s] = token]
    /\ leaseState'  = [leaseState EXCEPT ![s] = state]

SetWorker(w, pc, o, token) ==
    /\ wPc'    = [wPc EXCEPT ![w] = pc]
    /\ wOp'    = [wOp EXCEPT ![w] = o]
    /\ wToken' = [wToken EXCEPT ![w] = token]

\* The goroutine writes its response and returns to protocol.Read.
ReleaseWorker(w) == SetWorker(w, "idle", NoOp, 0)

\* The response carries the state of the receipt.  What the client remembers is
\* the last answer other than "still in progress".
Tell(o, state) ==
    reply' = IF state \in Interruptible THEN reply ELSE [reply EXCEPT ![o] = state]

-----------------------------------------------------------------------------
(* Defective variants of single decisions below, each a mistake the code    *)
(* could have made.  No action uses them; they show which property would    *)
(* notice.                                                                  *)

ScopeFreeUnlessRecovery(s) == leaseState[s] # "recovery_required"
TakeOverHeld(r) == r.repair /\ leaseState[r.scope] \in {"held", "recovery_required"}
TokenReused(s) == leaseToken[s]
LeaseLeftHeld(s, o, token) == SetLease(s, o, leaseToken[s], "held")
InterruptedExceptReconciling(o) == opState[o] \in {"accepted", "executing"}
InterruptedEveryRow(o) == opState[o] \notin {"none", "action_required"}
SafeUnlessReconciling(o) == items[o] # "reconciling"
LostReceiptAsFailed == "failed"

-----------------------------------------------------------------------------
(* Begin: one acceptance transaction, serialised by the acceptance mutex.  *)

\* A worker that is reading from its connection receives request r for o.
Receives(w) == helper = "serving" /\ wPc[w] = "idle"

\* A scope without a lease row, or whose lease was released, can be acquired.
ScopeFree(s) == leaseState[s] \in {"none", "released"}

\* Only an explicit repair may take over a recovery lease, and only from an
\* operation that already awaits an administrator.
TakeOverAllowed(r) ==
    /\ r.repair
    /\ leaseState[r.scope] = "recovery_required"
    /\ opState[leaseHolder[r.scope]] = "action_required"

\* Every acquisition advances the fence of the scope.
NextToken(s) == leaseToken[s] + 1

\* The common tail of a successful Begin: bind the request, take the lease and
\* hand the token to the goroutine.
Acquire(w, o, r) ==
    /\ opReq'   = [opReq EXCEPT ![o] = r]
    /\ opToken' = [opToken EXCEPT ![o] = NextToken(r.scope)]
    /\ SetLease(r.scope, o, NextToken(r.scope), "held")
    /\ SetWorker(w, "begun", o, NextToken(r.scope))
    /\ UNCHANGED <<opOutcome, opStarted, startVars, reply, touched, boundVars>>

BeginAcquire(w, o, r) ==
    /\ Receives(w)
    /\ opState[o] = "none"
    /\ ScopeFree(r.scope)
    /\ opState' = [opState EXCEPT ![o] = "accepted"]
    /\ Acquire(w, o, r)

\* The repair's predecessor keeps its receipt, as superseded.
BeginSupersede(w, o, r) ==
    /\ Receives(w)
    /\ opState[o] = "none"
    /\ TakeOverAllowed(r)
    /\ opState' = [opState EXCEPT ![leaseHolder[r.scope]] = "superseded",
                                 ![o] = "accepted"]
    /\ Acquire(w, o, r)

ConflictState == "failed"

\* Somebody else owns the scope: the new id gets a failed receipt, no token.
BeginConflict(w, o, r) ==
    /\ Receives(w)
    /\ opState[o] = "none"
    /\ ~ScopeFree(r.scope)
    /\ ~(r.repair /\ leaseState[r.scope] = "recovery_required")
    /\ opState' = [opState EXCEPT ![o] = ConflictState]
    /\ opReq'   = [opReq EXCEPT ![o] = r]
    /\ Tell(o, "failed")
    /\ UNCHANGED <<opToken, opOutcome, opStarted, leaseVars, startVars, workVars,
                   touched, boundVars>>

\* The id is known.  With the same request the stored state is returned, with
\* another one the answer is OperationConflict; both carry the stored state
\* and neither executes anything.  GetOperation reads the same row.
BeginReplay(w, o) ==
    /\ Receives(w)
    /\ opState[o] # "none"
    /\ Tell(o, opState[o])
    /\ UNCHANGED <<opVars, leaseVars, startVars, workVars, touched, boundVars>>

-----------------------------------------------------------------------------
(* The accepted operation: authorise, execute in phases, complete.         *)

AuthorizeMutation(w) ==
    LET o == wOp[w] IN
    /\ wPc[w] = "begun"
    /\ VerifyFence(o, wToken[w])
    /\ opState[o] = "accepted"
    /\ opState'   = [opState EXCEPT ![o] = "executing"]
    /\ opOutcome' = [opOutcome EXCEPT ![o] = "unknown"]
    /\ opStarted' = opStarted \cup {o}
    /\ SetWorker(w, "running", o, wToken[w])
    /\ UNCHANGED <<opReq, opToken, leaseVars, startVars, reply, touched, boundVars>>

\* The transaction fails: OperationFenceRejected, the row stays as it is.
AuthorizeFails(w) ==
    /\ wPc[w] = "begun"
    /\ faults < MaxFaults
    /\ faults' = faults + 1
    /\ ReleaseWorker(w)
    /\ UNCHANGED <<opVars, leaseVars, startVars, reply, touched, crashes>>

\* The operation's handler records a phase intent under its fence ...
RecordPhase(w) ==
    LET o == wOp[w] IN
    /\ wPc[w] = "running"
    /\ VerifyFence(o, wToken[w])
    /\ opState[o] = "executing"
    /\ SetWorker(w, "intent", o, wToken[w])
    /\ UNCHANGED <<opVars, leaseVars, startVars, reply, touched, boundVars>>

\* ... and then dispatches the external mutation the phase stands for.
Dispatch(w) ==
    /\ wPc[w] = "intent"
    /\ touched' = touched \cup {wOp[w]}
    /\ SetWorker(w, "running", wOp[w], wToken[w])
    /\ UNCHANGED <<opVars, leaseVars, startVars, reply, boundVars>>

\* Complete with a plain result: the receipt is final, the lease released.
Complete(w, ok) ==
    LET o == wOp[w] IN
    /\ wPc[w] = "running"
    /\ VerifyFence(o, wToken[w])
    /\ opState[o] = "executing"
    /\ opState'   = [opState EXCEPT ![o] = IF ok THEN "succeeded" ELSE "failed"]
    /\ opOutcome' = [opOutcome EXCEPT ![o] = IF ok THEN "confirmed_applied"
                                                   ELSE "mixed"]
    /\ SetLease(Scope(o), o, wToken[w], "released")
    /\ Tell(o, IF ok THEN "succeeded" ELSE "failed")
    /\ ReleaseWorker(w)
    /\ UNCHANGED <<opReq, opToken, opStarted, startVars, touched, boundVars>>

\* Complete with RecoveryRequired: the lease keeps blocking under a new token.
CompleteUnknown(w) ==
    LET o == wOp[w]
        token == wToken[w] + 1 IN
    /\ wPc[w] = "running"
    /\ VerifyFence(o, wToken[w])
    /\ opState[o] = "executing"
    /\ opState'   = [opState EXCEPT ![o] = "action_required"]
    /\ opToken'   = [opToken EXCEPT ![o] = token]
    /\ opOutcome' = [opOutcome EXCEPT ![o] = "unknown"]
    /\ SetLease(Scope(o), o, token, "recovery_required")
    /\ Tell(o, "action_required")
    /\ ReleaseWorker(w)
    /\ UNCHANGED <<opReq, opStarted, startVars, touched, boundVars>>

LostReceiptReply == "action_required"

\* Complete itself fails (transaction error, oversized result): nothing is
\* stored, and serve answers with state action_required.
CompleteFails(w) ==
    /\ wPc[w] = "running"
    /\ faults < MaxFaults
    /\ faults' = faults + 1
    /\ Tell(wOp[w], LostReceiptReply)
    /\ ReleaseWorker(w)
    /\ UNCHANGED <<opVars, leaseVars, startVars, touched, crashes>>

-----------------------------------------------------------------------------
(* Crash, restart and the startup classification.                          *)

Crash ==
    /\ helper # "down"
    /\ crashes < MaxCrashes
    /\ crashes' = crashes + 1
    /\ helper' = "down"
    /\ items' = [o \in OpIds |-> "none"]
    /\ current' = NoOp
    /\ wPc'    = [w \in Workers |-> "idle"]
    /\ wOp'    = [w \in Workers |-> NoOp]
    /\ wToken' = [w \in Workers |-> 0]
    /\ UNCHANGED <<opVars, leaseVars, reply, touched, faults>>

\* RecoverInterrupted reads the interrupted rows, each with its state, before
\* it changes any of them.
Interrupted(o) == opState[o] \in Interruptible

Start ==
    /\ helper = "down"
    /\ helper' = "classifying"
    /\ items' = [o \in OpIds |-> IF Interrupted(o) THEN opState[o] ELSE "none"]
    /\ UNCHANGED <<opVars, leaseVars, current, workVars, reply, touched, boundVars>>

StaleLease(s, o, token) == SetLease(s, o, token, "recovery_required")

\* First transaction for one row: invalidate every token handed out before.
MarkReconciling(o) ==
    LET token == opToken[o] + 1
        s     == Scope(o) IN
    /\ helper = "classifying"
    /\ current = NoOp
    /\ items[o] # "none"
    /\ opState'   = [opState EXCEPT ![o] = "reconciling"]
    /\ opOutcome' = [opOutcome EXCEPT ![o] = "unknown"]
    /\ opToken'   = [opToken EXCEPT ![o] = token]
    /\ IF leaseHolder[s] = o THEN StaleLease(s, o, token) ELSE UNCHANGED leaseVars
    /\ current' = o
    /\ UNCHANGED <<opReq, opStarted, helper, items, workVars, reply, touched, boundVars>>

\* Only a row that was still accepted when the list was read is safe to fail.
SafeToFail(o) == items[o] = "accepted"

\* Second transaction: fail the row, or leave it to an administrator.
RecoverOne(o) ==
    LET safe == SafeToFail(o) IN
    /\ helper = "classifying"
    /\ current = o
    /\ leaseHolder[Scope(o)] = o
    /\ opState'   = [opState EXCEPT ![o] = IF safe THEN "failed" ELSE "action_required"]
    /\ opOutcome' = [opOutcome EXCEPT ![o] = IF safe THEN "confirmed_absent" ELSE "unknown"]
    /\ leaseState' = [leaseState EXCEPT ![Scope(o)] =
                        IF safe THEN "released" ELSE "recovery_required"]
    /\ items' = [items EXCEPT ![o] = "none"]
    /\ current' = NoOp
    /\ UNCHANGED <<opReq, opToken, opStarted, leaseHolder, leaseToken, helper,
                   workVars, reply, touched, boundVars>>

Classified ==
    /\ helper = "classifying"
    /\ current = NoOp
    /\ \A o \in OpIds : items[o] = "none"
    /\ helper' = "observing"
    /\ UNCHANGED <<opVars, leaseVars, items, current, workVars, reply, touched,
                   boundVars>>

\* CompleteRecovery: a startup observer proved that the requested result is in
\* place, or that everything was rolled back, and settles the operation.
CompleteRecovery(o, ok) ==
    /\ helper = "observing"
    /\ opState[o] = "action_required"
    /\ leaseHolder[Scope(o)] = o
    /\ leaseToken[Scope(o)] = opToken[o]
    /\ leaseState[Scope(o)] = "recovery_required"
    /\ opState'   = [opState EXCEPT ![o] = IF ok THEN "succeeded" ELSE "failed"]
    /\ opOutcome' = [opOutcome EXCEPT ![o] = IF ok THEN "confirmed_applied"
                                                   ELSE "confirmed_absent"]
    /\ leaseState' = [leaseState EXCEPT ![Scope(o)] = "released"]
    /\ touched' = IF ok THEN touched ELSE touched \ {o}
    /\ UNCHANGED <<opReq, opToken, opStarted, leaseHolder, leaseToken, startVars,
                   workVars, reply, boundVars>>

Listen ==
    /\ helper = "observing"
    /\ helper' = "serving"
    /\ UNCHANGED <<opVars, leaseVars, items, current, workVars, reply, touched,
                   boundVars>>

\* The root command --resolve-operation is a process of its own: it does not
\* take the helper's state lock and may run in any stage of the helper.
ResolveActionRequired(o) ==
    /\ opState[o] = "action_required"
    /\ leaseHolder[Scope(o)] = o
    /\ leaseState[Scope(o)] = "recovery_required"
    /\ opState'    = [opState EXCEPT ![o] = "failed"]
    /\ leaseState' = [leaseState EXCEPT ![Scope(o)] = "released"]
    /\ UNCHANGED <<opReq, opToken, opOutcome, opStarted, leaseHolder, leaseToken,
                   startVars, workVars, reply, touched, boundVars>>

-----------------------------------------------------------------------------
BeginAny(w) ==
    \E o \in OpIds :
        \/ BeginReplay(w, o)
        \/ \E r \in Requests : \/ BeginAcquire(w, o, r)
                               \/ BeginSupersede(w, o, r)
                               \/ BeginConflict(w, o, r)

Finish(w) == CompleteUnknown(w) \/ \E ok \in BOOLEAN : Complete(w, ok)

Worker(w) ==
    \/ BeginAny(w)
    \/ AuthorizeMutation(w)
    \/ AuthorizeFails(w)
    \/ RecordPhase(w)
    \/ Dispatch(w)
    \/ Finish(w)
    \/ CompleteFails(w)

StartupStep ==
    \/ Start
    \/ \E o \in OpIds : MarkReconciling(o) \/ RecoverOne(o)
    \/ Classified
    \/ Listen

Next ==
    \/ \E w \in Workers : Worker(w)
    \/ StartupStep
    \/ \E o \in OpIds, ok \in BOOLEAN : CompleteRecovery(o, ok)
    \/ \E o \in OpIds : ResolveActionRequired(o)
    \/ Crash

Spec == Init /\ [][Next]_vars

\* Fairness: systemd restarts the helper (Restart=on-failure) and the startup
\* sequence is a finite loop; a goroutine that holds an operation is always
\* scheduled, and a handler consists of finitely many phases, so it reaches
\* Complete (strong fairness: RecordPhase may disable it again and again).
Fairness ==
    /\ WF_vars(StartupStep)
    /\ \A w \in Workers : /\ WF_vars(AuthorizeMutation(w))
                          /\ WF_vars(Dispatch(w))
                          /\ SF_vars(Finish(w))

FairSpec == Spec /\ Fairness
-----------------------------------------------------------------------------
(* Properties.                                                             *)

\* A lease row and the receipt it names always agree, also between the two
\* startup transactions and after every lost or failed step: a held lease
\* belongs to a running operation, a recovery lease to one that awaits
\* classification or an administrator, both under the same fencing token, and
\* no unsettled operation is ever without the lease of its scope.
LeaseMatchesReceipt ==
    /\ \A s \in Scopes :
          leaseState[s] \in {"held", "recovery_required"} =>
             LET o == leaseHolder[s] IN
             /\ o \in OpIds
             /\ opReq[o] # NoRequest
             /\ Scope(o) = s
             /\ opToken[o] = leaseToken[s]
             /\ opState[o] \in IF leaseState[s] = "held"
                               THEN {"accepted", "executing"}
                               ELSE {"reconciling", "action_required"}
    /\ \A o \in OpIds :
          opState[o] \in Interruptible \cup {"action_required"} =>
             /\ leaseHolder[Scope(o)] = o
             /\ leaseState[Scope(o)] \in {"held", "recovery_required"}

\* Two goroutines never work on the same scope, whether they run the same
\* operation (a retried request) or different ones (the durable lease, not
\* the acceptance mutex, is what separates them).
ExclusiveExecutor ==
    \A v, w \in Workers :
        /\ wPc[v] # "idle"
        /\ wPc[w] # "idle"
        /\ Scope(wOp[v]) = Scope(wOp[w])
        => v = w

\* A receipt that says nothing was dispatched, or that the effect is absent,
\* is right about it: in particular the restart classification never calls an
\* operation safe to retry whose handler had reached the runtime.
NoFalseAbsence ==
    \A o \in OpIds :
        opOutcome[o] \in {"not_dispatched", "confirmed_absent"} => o \notin touched

\* A final answer given to a client is what the helper still has on record,
\* through crashes, retries, repairs and administrator commands.
DurableReply ==
    \A o \in OpIds : reply[o] \in Terminal => opState[o] = reply[o]

\* A receipt in a final state is never rewritten.
ReceiptsFinal ==
    [][\A o \in OpIds : opState[o] \in Terminal =>
            /\ opState'[o] = opState[o]
            /\ opOutcome'[o] = opOutcome[o]]_vars

\* Fencing tokens of a scope never decrease, and strictly increase when the
\* lease changes hands or starts to require recovery, so that no token an
\* earlier executor remembers can pass verifyFence again.
TokensMonotone ==
    [][\A s \in Scopes :
            /\ leaseToken'[s] >= leaseToken[s]
            /\ \/ leaseHolder'[s] # leaseHolder[s]
               \/ leaseState'[s] = "recovery_required" /\ leaseState[s] = "held"
               => leaseToken'[s] > leaseToken[s]]_vars

\* Every used operation id is bound to a request.
RequestsBound == \A o \in OpIds : opState[o] # "none" => opReq[o] \in Requests

\* A goroutine that still has work to do passes verifyFence, its operation is
\* where the goroutine believes it is, and no other goroutine runs it.
WorkersFenced ==
    /\ \A w \in Workers :
          wPc[w] # "idle" =>
             /\ helper = "serving"
             /\ wOp[w] \in OpIds
             /\ VerifyFence(wOp[w], wToken[w])
             /\ opState[wOp[w]] = IF wPc[w] = "begun" THEN "accepted" ELSE "executing"
    /\ \A v, w \in Workers :
          wPc[v] # "idle" /\ wPc[w] # "idle" /\ wOp[v] = wOp[w] => v = w

\* The startup work list is empty outside the classification; a listed row is
\* still as it was read, except the one between its two transactions.
WorkListExact ==
    /\ helper # "classifying" =>
          current = NoOp /\ \A o \in OpIds : items[o] = "none"
    /\ \A o \in OpIds :
          /\ items[o] # "none" =>
                /\ items[o] \in Interruptible
                /\ opState[o] = IF current = o THEN "reconciling" ELSE items[o]
          /\ current = o => items[o] # "none"

\* Only an authorised operation reaches the runtime, and its receipt has said
\* so (outcome unknown) since before the first dispatch.
EffectsAnnounced ==
    \A o \in OpIds :
        /\ opState[o] \in {"none", "accepted"} =>
              o \notin touched /\ opOutcome[o] = "not_dispatched"
        /\ opState[o] = "executing" => opOutcome[o] = "unknown"
        /\ items[o] = "accepted" => o \notin touched

\* The inductive invariant behind the safety theorems of HelperOpsProofs.
IndInv ==
    /\ TypeOK
    /\ LeaseMatchesReceipt
    /\ RequestsBound
    /\ WorkersFenced
    /\ WorkListExact
    /\ EffectsAnnounced
    /\ NoFalseAbsence
    /\ DurableReply

\* Every accepted operation is eventually settled or put in front of an
\* administrator, even when the helper dies during the startup classification.
\* (Checked without transaction faults: see the hazards for what a failed
\* AuthorizeMutation or Complete leaves behind until the next restart.)
Settles ==
    \A o \in OpIds :
        opState[o] \in Interruptible ~>
            opState[o] \in Terminal \cup {"action_required"}

\* What RecoverInterrupted documents: work that never reached
\* AuthorizeMutation fails safely at a restart instead of blocking its scope.
\* The code does not keep it and no run checks it: see the README.
AcceptedFailsSafely ==
    \A o \in OpIds : opState[o] = "action_required" => o \in opStarted

\* The refinement mapping: what the ledger's client sees of a receipt, and who
\* owns a scope.
LedgerPhase ==
    [o \in OpIds |-> CASE opState[o] = "none" -> "new"
                       [] opState[o] \in Interruptible -> "active"
                       [] opState[o] = "action_required" -> "uncertain"
                       [] OTHER -> opState[o]]

LedgerOwner ==
    [s \in Scopes |-> IF leaseState[s] \in {"held", "recovery_required"}
                      THEN leaseHolder[s] ELSE NoOp]

Ledger == INSTANCE OperationLedger
            WITH phase <- LedgerPhase, owner <- LedgerOwner, effects <- touched

\* Every step of the coordinator is a step of the ledger or invisible to it.
ImplementsLedger == Ledger!Spec

=============================================================================
