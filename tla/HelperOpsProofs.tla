--------------------------- MODULE HelperOpsProofs ---------------------------
(***************************************************************************)
(* Proofs about HelperOps for every set of operations, scopes, requests    *)
(* and goroutines and for any number of crashes and transaction faults:    *)
(* IndInv is inductive, hence the safety invariants hold; receipts are     *)
(* final, fencing tokens are monotone, and the coordinator implements the  *)
(* ledger of OperationLedger.                                              *)
(***************************************************************************)
EXTENDS HelperOps, TLAPS

\* The scope of a bound request is a scope.
LEMMA ScopeOfRequest ==
    ASSUME NEW r \in Requests
    PROVE  r.scope \in Scopes /\ r.repair \in BOOLEAN /\ r # NoRequest
BY RequestsAssumption

\* The empty database satisfies the inductive invariant.
LEMMA InitInv == Init => IndInv
<1> SUFFICES ASSUME Init PROVE IndInv
    OBVIOUS
<1>1. TypeOK
    BY NoOpAssumption, BoundsAssumption
    DEF Init, TypeOK, OpStates, Interruptible, Terminal, Outcomes, LeaseStates,
        Stages, WorkerPcs, Replies
<1>2. LeaseMatchesReceipt /\ RequestsBound /\ WorkersFenced
    BY DEF Init, LeaseMatchesReceipt, RequestsBound, WorkersFenced, Interruptible
<1>3. WorkListExact /\ EffectsAnnounced /\ NoFalseAbsence /\ DurableReply
    BY NoOpAssumption DEF Init, WorkListExact, EffectsAnnounced, NoFalseAbsence, DurableReply,
        Terminal
<1> QED BY <1>1, <1>2, <1>3 DEF IndInv

\* A free scope is acquired.
LEMMA BeginAcquireStep ==
    ASSUME IndInv, NEW w \in Workers, NEW o \in OpIds, NEW r \in Requests,
           BeginAcquire(w, o, r)
    PROVE  IndInv'
<1> USE NoOpAssumption, ScopeOfRequest, BoundsAssumption
    DEF BeginAcquire, Acquire, Receives, ScopeFree, NextToken, SetLease,
        SetWorker, opVars, leaseVars, startVars, workVars, boundVars
<1>1. TypeOK'
    BY DEF IndInv, TypeOK, OpStates, Interruptible, Terminal, Outcomes, LeaseStates,
           Stages, WorkerPcs, Replies, WorkersFenced, VerifyFence
<1>2. LeaseMatchesReceipt'
    BY DEF IndInv, TypeOK, LeaseMatchesReceipt, RequestsBound, WorkersFenced,
           VerifyFence, WorkListExact, Scope, Interruptible
<1>3. RequestsBound'
    BY DEF IndInv, TypeOK, RequestsBound, WorkListExact, WorkersFenced, VerifyFence
<1>4. WorkersFenced'
    BY DEF IndInv, TypeOK, WorkersFenced, VerifyFence, Scope, RequestsBound,
           LeaseMatchesReceipt, WorkListExact
<1>5. WorkListExact'
    BY DEF IndInv, TypeOK, WorkListExact, WorkersFenced, Interruptible
<1>6. EffectsAnnounced' /\ NoFalseAbsence'
    BY DEF IndInv, TypeOK, EffectsAnnounced, NoFalseAbsence, WorkListExact,
           WorkersFenced, Interruptible
<1>7. DurableReply'
    BY DEF IndInv, TypeOK, DurableReply, Terminal, WorkListExact, WorkersFenced,
           Interruptible
<1> QED BY <1>1, <1>2, <1>3, <1>4, <1>5, <1>6, <1>7 DEF IndInv

\* A repair takes over a recovery lease.
LEMMA BeginSupersedeStep ==
    ASSUME IndInv, NEW w \in Workers, NEW o \in OpIds, NEW r \in Requests,
           BeginSupersede(w, o, r)
    PROVE  IndInv'
<1> USE NoOpAssumption, ScopeOfRequest, BoundsAssumption
    DEF BeginSupersede, Acquire, Receives, TakeOverAllowed, NextToken,
        SetLease, SetWorker, opVars, leaseVars, startVars, workVars,
        boundVars
<1>1. TypeOK'
    BY DEF IndInv, TypeOK, OpStates, Interruptible, Terminal, Outcomes, LeaseStates,
           Stages, WorkerPcs, Replies, WorkersFenced, VerifyFence
<1>2. LeaseMatchesReceipt'
    BY DEF IndInv, TypeOK, LeaseMatchesReceipt, RequestsBound, WorkersFenced,
           VerifyFence, WorkListExact, Scope, Interruptible
<1>3. RequestsBound'
    BY DEF IndInv, TypeOK, RequestsBound, WorkListExact, WorkersFenced, VerifyFence
<1>4. WorkersFenced'
    BY DEF IndInv, TypeOK, WorkersFenced, VerifyFence, Scope, RequestsBound,
           LeaseMatchesReceipt, WorkListExact
<1>5. WorkListExact'
    BY DEF IndInv, TypeOK, WorkListExact, WorkersFenced, Interruptible
<1>6. EffectsAnnounced' /\ NoFalseAbsence'
    BY DEF IndInv, TypeOK, EffectsAnnounced, NoFalseAbsence, WorkListExact,
           WorkersFenced, Interruptible
<1>7. DurableReply'
    BY DEF IndInv, TypeOK, DurableReply, Terminal, WorkListExact, WorkersFenced,
           Interruptible
<1> QED BY <1>1, <1>2, <1>3, <1>4, <1>5, <1>6, <1>7 DEF IndInv

\* A busy scope: a failed receipt and no lease.
LEMMA BeginConflictStep ==
    ASSUME IndInv, NEW w \in Workers, NEW o \in OpIds, NEW r \in Requests,
           BeginConflict(w, o, r)
    PROVE  IndInv'
<1> USE NoOpAssumption, ScopeOfRequest, BoundsAssumption
    DEF BeginConflict, Receives, ScopeFree, ConflictState, Tell, opVars,
        leaseVars, startVars, workVars, boundVars
<1>1. TypeOK'
    BY DEF IndInv, TypeOK, OpStates, Interruptible, Terminal, Outcomes, LeaseStates,
           Stages, WorkerPcs, Replies, WorkersFenced, VerifyFence
<1>2. LeaseMatchesReceipt'
    BY DEF IndInv, TypeOK, LeaseMatchesReceipt, RequestsBound, WorkersFenced,
           VerifyFence, WorkListExact, Scope, Interruptible
<1>3. RequestsBound'
    BY DEF IndInv, TypeOK, RequestsBound, WorkListExact, WorkersFenced, VerifyFence
<1>4. WorkersFenced'
    BY DEF IndInv, TypeOK, WorkersFenced, VerifyFence, Scope, RequestsBound,
           LeaseMatchesReceipt, WorkListExact
<1>5. WorkListExact'
    BY DEF IndInv, TypeOK, WorkListExact, WorkersFenced, Interruptible
<1>6. EffectsAnnounced' /\ NoFalseAbsence'
    BY DEF IndInv, TypeOK, EffectsAnnounced, NoFalseAbsence, WorkListExact,
           WorkersFenced, Interruptible
<1>7. DurableReply'
    BY DEF IndInv, TypeOK, DurableReply, Terminal, WorkListExact, WorkersFenced,
           Interruptible
<1> QED BY <1>1, <1>2, <1>3, <1>4, <1>5, <1>6, <1>7 DEF IndInv

\* A replay only changes what the client knows.
LEMMA BeginReplayStep ==
    ASSUME IndInv, NEW w \in Workers, NEW o \in OpIds, BeginReplay(w, o)
    PROVE  IndInv'
<1> USE NoOpAssumption, ScopeOfRequest, BoundsAssumption
    DEF BeginReplay, Receives, Tell, opVars, leaseVars, startVars, workVars,
        boundVars
<1>1. TypeOK'
    BY DEF IndInv, TypeOK, OpStates, Interruptible, Terminal, Outcomes, LeaseStates,
           Stages, WorkerPcs, Replies, WorkersFenced, VerifyFence
<1>2. LeaseMatchesReceipt'
    BY DEF IndInv, TypeOK, LeaseMatchesReceipt, RequestsBound, WorkersFenced,
           VerifyFence, WorkListExact, Scope, Interruptible
<1>3. RequestsBound'
    BY DEF IndInv, TypeOK, RequestsBound, WorkListExact, WorkersFenced, VerifyFence
<1>4. WorkersFenced'
    BY DEF IndInv, TypeOK, WorkersFenced, VerifyFence, Scope, RequestsBound,
           LeaseMatchesReceipt, WorkListExact
<1>5. WorkListExact'
    BY DEF IndInv, TypeOK, WorkListExact, WorkersFenced, Interruptible
<1>6. EffectsAnnounced' /\ NoFalseAbsence'
    BY DEF IndInv, TypeOK, EffectsAnnounced, NoFalseAbsence, WorkListExact,
           WorkersFenced, Interruptible
<1>7. DurableReply'
    BY DEF IndInv, TypeOK, DurableReply, Terminal, WorkListExact, WorkersFenced,
           Interruptible
<1> QED BY <1>1, <1>2, <1>3, <1>4, <1>5, <1>6, <1>7 DEF IndInv

\* The operation starts executing.
LEMMA AuthorizeMutationStep ==
    ASSUME IndInv, NEW w \in Workers, AuthorizeMutation(w)
    PROVE  IndInv'
<1> USE NoOpAssumption, ScopeOfRequest, BoundsAssumption
    DEF AuthorizeMutation, SetWorker, opVars, leaseVars, startVars,
        workVars, boundVars
<1>1. TypeOK'
    BY DEF IndInv, TypeOK, OpStates, Interruptible, Terminal, Outcomes, LeaseStates,
           Stages, WorkerPcs, Replies, WorkersFenced, VerifyFence
<1>2. LeaseMatchesReceipt'
    BY DEF IndInv, TypeOK, LeaseMatchesReceipt, RequestsBound, WorkersFenced,
           VerifyFence, WorkListExact, Scope, Interruptible
<1>3. RequestsBound'
    BY DEF IndInv, TypeOK, RequestsBound, WorkListExact, WorkersFenced, VerifyFence
<1>4. WorkersFenced'
    BY DEF IndInv, TypeOK, WorkersFenced, VerifyFence, Scope, RequestsBound,
           LeaseMatchesReceipt, WorkListExact
<1>5. WorkListExact'
    BY DEF IndInv, TypeOK, WorkListExact, WorkersFenced, Interruptible
<1>6. EffectsAnnounced' /\ NoFalseAbsence'
    BY DEF IndInv, TypeOK, EffectsAnnounced, NoFalseAbsence, WorkListExact,
           WorkersFenced, Interruptible
<1>7. DurableReply'
    BY DEF IndInv, TypeOK, DurableReply, Terminal, WorkListExact, WorkersFenced,
           Interruptible
<1> QED BY <1>1, <1>2, <1>3, <1>4, <1>5, <1>6, <1>7 DEF IndInv

\* A failed authorisation loses the goroutine only.
LEMMA AuthorizeFailsStep ==
    ASSUME IndInv, NEW w \in Workers, AuthorizeFails(w)
    PROVE  IndInv'
<1> USE NoOpAssumption, ScopeOfRequest, BoundsAssumption
    DEF AuthorizeFails, ReleaseWorker, SetWorker, opVars, leaseVars,
        startVars, workVars, boundVars
<1>1. TypeOK'
    BY DEF IndInv, TypeOK, OpStates, Interruptible, Terminal, Outcomes, LeaseStates,
           Stages, WorkerPcs, Replies, WorkersFenced, VerifyFence
<1>2. LeaseMatchesReceipt'
    BY DEF IndInv, TypeOK, LeaseMatchesReceipt, RequestsBound, WorkersFenced,
           VerifyFence, WorkListExact, Scope, Interruptible
<1>3. RequestsBound'
    BY DEF IndInv, TypeOK, RequestsBound, WorkListExact, WorkersFenced, VerifyFence
<1>4. WorkersFenced'
    BY DEF IndInv, TypeOK, WorkersFenced, VerifyFence, Scope, RequestsBound,
           LeaseMatchesReceipt, WorkListExact
<1>5. WorkListExact'
    BY DEF IndInv, TypeOK, WorkListExact, WorkersFenced, Interruptible
<1>6. EffectsAnnounced' /\ NoFalseAbsence'
    BY DEF IndInv, TypeOK, EffectsAnnounced, NoFalseAbsence, WorkListExact,
           WorkersFenced, Interruptible
<1>7. DurableReply'
    BY DEF IndInv, TypeOK, DurableReply, Terminal, WorkListExact, WorkersFenced,
           Interruptible
<1> QED BY <1>1, <1>2, <1>3, <1>4, <1>5, <1>6, <1>7 DEF IndInv

\* A phase intent is recorded under the fence.
LEMMA RecordPhaseStep ==
    ASSUME IndInv, NEW w \in Workers, RecordPhase(w)
    PROVE  IndInv'
<1> USE NoOpAssumption, ScopeOfRequest, BoundsAssumption
    DEF RecordPhase, SetWorker, opVars, leaseVars, startVars, workVars,
        boundVars
<1>1. TypeOK'
    BY DEF IndInv, TypeOK, OpStates, Interruptible, Terminal, Outcomes, LeaseStates,
           Stages, WorkerPcs, Replies, WorkersFenced, VerifyFence
<1>2. LeaseMatchesReceipt'
    BY DEF IndInv, TypeOK, LeaseMatchesReceipt, RequestsBound, WorkersFenced,
           VerifyFence, WorkListExact, Scope, Interruptible
<1>3. RequestsBound'
    BY DEF IndInv, TypeOK, RequestsBound, WorkListExact, WorkersFenced, VerifyFence
<1>4. WorkersFenced'
    BY DEF IndInv, TypeOK, WorkersFenced, VerifyFence, Scope, RequestsBound,
           LeaseMatchesReceipt, WorkListExact
<1>5. WorkListExact'
    BY DEF IndInv, TypeOK, WorkListExact, WorkersFenced, Interruptible
<1>6. EffectsAnnounced' /\ NoFalseAbsence'
    BY DEF IndInv, TypeOK, EffectsAnnounced, NoFalseAbsence, WorkListExact,
           WorkersFenced, Interruptible
<1>7. DurableReply'
    BY DEF IndInv, TypeOK, DurableReply, Terminal, WorkListExact, WorkersFenced,
           Interruptible
<1> QED BY <1>1, <1>2, <1>3, <1>4, <1>5, <1>6, <1>7 DEF IndInv

\* The runtime is reached.
LEMMA DispatchStep ==
    ASSUME IndInv, NEW w \in Workers, Dispatch(w)
    PROVE  IndInv'
<1> USE NoOpAssumption, ScopeOfRequest, BoundsAssumption
    DEF Dispatch, SetWorker, opVars, leaseVars, startVars, workVars,
        boundVars
<1>1. TypeOK'
    BY DEF IndInv, TypeOK, OpStates, Interruptible, Terminal, Outcomes, LeaseStates,
           Stages, WorkerPcs, Replies, WorkersFenced, VerifyFence
<1>2. LeaseMatchesReceipt'
    BY DEF IndInv, TypeOK, LeaseMatchesReceipt, RequestsBound, WorkersFenced,
           VerifyFence, WorkListExact, Scope, Interruptible
<1>3. RequestsBound'
    BY DEF IndInv, TypeOK, RequestsBound, WorkListExact, WorkersFenced, VerifyFence
<1>4. WorkersFenced'
    BY DEF IndInv, TypeOK, WorkersFenced, VerifyFence, Scope, RequestsBound,
           LeaseMatchesReceipt, WorkListExact
<1>5. WorkListExact'
    BY DEF IndInv, TypeOK, WorkListExact, WorkersFenced, Interruptible
<1>6. EffectsAnnounced' /\ NoFalseAbsence'
    BY DEF IndInv, TypeOK, EffectsAnnounced, NoFalseAbsence, WorkListExact,
           WorkersFenced, Interruptible
<1>7. DurableReply'
    BY DEF IndInv, TypeOK, DurableReply, Terminal, WorkListExact, WorkersFenced,
           Interruptible
<1> QED BY <1>1, <1>2, <1>3, <1>4, <1>5, <1>6, <1>7 DEF IndInv

\* The result is stored and the lease released.
LEMMA CompleteStep ==
    ASSUME IndInv, NEW w \in Workers, NEW ok \in BOOLEAN, Complete(w, ok)
    PROVE  IndInv'
<1> USE NoOpAssumption, ScopeOfRequest, BoundsAssumption
    DEF Complete, ReleaseWorker, SetWorker, SetLease, Tell, opVars,
        leaseVars, startVars, workVars, boundVars
<1>1. TypeOK'
    BY DEF IndInv, TypeOK, OpStates, Interruptible, Terminal, Outcomes, LeaseStates,
           Stages, WorkerPcs, Replies, WorkersFenced, VerifyFence
<1>2. LeaseMatchesReceipt'
    BY DEF IndInv, TypeOK, LeaseMatchesReceipt, RequestsBound, WorkersFenced,
           VerifyFence, WorkListExact, Scope, Interruptible
<1>3. RequestsBound'
    BY DEF IndInv, TypeOK, RequestsBound, WorkListExact, WorkersFenced, VerifyFence
<1>4. WorkersFenced'
    BY DEF IndInv, TypeOK, WorkersFenced, VerifyFence, Scope, RequestsBound,
           LeaseMatchesReceipt, WorkListExact
<1>5. WorkListExact'
    BY DEF IndInv, TypeOK, WorkListExact, WorkersFenced, Interruptible
<1>6. EffectsAnnounced' /\ NoFalseAbsence'
    BY DEF IndInv, TypeOK, EffectsAnnounced, NoFalseAbsence, WorkListExact,
           WorkersFenced, Interruptible
<1>7. DurableReply'
    BY DEF IndInv, TypeOK, DurableReply, Terminal, WorkListExact, WorkersFenced,
           Interruptible
<1> QED BY <1>1, <1>2, <1>3, <1>4, <1>5, <1>6, <1>7 DEF IndInv

\* The outcome is in doubt and the lease keeps blocking.
LEMMA CompleteUnknownStep ==
    ASSUME IndInv, NEW w \in Workers, CompleteUnknown(w)
    PROVE  IndInv'
<1> USE NoOpAssumption, ScopeOfRequest, BoundsAssumption
    DEF CompleteUnknown, ReleaseWorker, SetWorker, SetLease, Tell, opVars,
        leaseVars, startVars, workVars, boundVars
<1>1. TypeOK'
    <2>1. wOp[w] \in OpIds /\ Scope(wOp[w]) \in Scopes /\ wToken[w] + 1 \in Nat
        BY DEF IndInv, TypeOK, WorkersFenced, VerifyFence, RequestsBound, Scope
    <2> QED
        BY <2>1 DEF IndInv, TypeOK, OpStates, Terminal, Outcomes, LeaseStates,
                    WorkerPcs, Replies, Interruptible
<1>2. LeaseMatchesReceipt'
    BY DEF IndInv, TypeOK, LeaseMatchesReceipt, RequestsBound, WorkersFenced,
           VerifyFence, WorkListExact, Scope, Interruptible
<1>3. RequestsBound'
    BY DEF IndInv, TypeOK, RequestsBound, WorkListExact, WorkersFenced, VerifyFence
<1>4. WorkersFenced'
    BY DEF IndInv, TypeOK, WorkersFenced, VerifyFence, Scope, RequestsBound,
           LeaseMatchesReceipt, WorkListExact
<1>5. WorkListExact'
    BY DEF IndInv, TypeOK, WorkListExact, WorkersFenced, Interruptible
<1>6. EffectsAnnounced' /\ NoFalseAbsence'
    BY DEF IndInv, TypeOK, EffectsAnnounced, NoFalseAbsence, WorkListExact,
           WorkersFenced, Interruptible
<1>7. DurableReply'
    BY DEF IndInv, TypeOK, DurableReply, Terminal, WorkListExact, WorkersFenced,
           Interruptible
<1> QED BY <1>1, <1>2, <1>3, <1>4, <1>5, <1>6, <1>7 DEF IndInv

\* A failed Complete loses the goroutine only.
LEMMA CompleteFailsStep ==
    ASSUME IndInv, NEW w \in Workers, CompleteFails(w)
    PROVE  IndInv'
<1> USE NoOpAssumption, ScopeOfRequest, BoundsAssumption
    DEF CompleteFails, ReleaseWorker, SetWorker, Tell, LostReceiptReply,
        opVars, leaseVars, startVars, workVars, boundVars
<1>1. TypeOK'
    BY DEF IndInv, TypeOK, OpStates, Interruptible, Terminal, Outcomes, LeaseStates,
           Stages, WorkerPcs, Replies, WorkersFenced, VerifyFence
<1>2. LeaseMatchesReceipt'
    BY DEF IndInv, TypeOK, LeaseMatchesReceipt, RequestsBound, WorkersFenced,
           VerifyFence, WorkListExact, Scope, Interruptible
<1>3. RequestsBound'
    BY DEF IndInv, TypeOK, RequestsBound, WorkListExact, WorkersFenced, VerifyFence
<1>4. WorkersFenced'
    BY DEF IndInv, TypeOK, WorkersFenced, VerifyFence, Scope, RequestsBound,
           LeaseMatchesReceipt, WorkListExact
<1>5. WorkListExact'
    BY DEF IndInv, TypeOK, WorkListExact, WorkersFenced, Interruptible
<1>6. EffectsAnnounced' /\ NoFalseAbsence'
    BY DEF IndInv, TypeOK, EffectsAnnounced, NoFalseAbsence, WorkListExact,
           WorkersFenced, Interruptible
<1>7. DurableReply'
    BY DEF IndInv, TypeOK, DurableReply, Terminal, WorkListExact, WorkersFenced,
           Interruptible
<1> QED BY <1>1, <1>2, <1>3, <1>4, <1>5, <1>6, <1>7 DEF IndInv

\* The helper process dies.
LEMMA CrashStep ==
    ASSUME IndInv, Crash
    PROVE  IndInv'
<1> USE NoOpAssumption, ScopeOfRequest, BoundsAssumption
    DEF Crash, opVars, leaseVars, startVars, workVars, boundVars
<1>1. TypeOK'
    BY DEF IndInv, TypeOK, OpStates, Interruptible, Terminal, Outcomes, LeaseStates,
           Stages, WorkerPcs, Replies, WorkersFenced, VerifyFence
<1>2. LeaseMatchesReceipt'
    BY DEF IndInv, TypeOK, LeaseMatchesReceipt, RequestsBound, WorkersFenced,
           VerifyFence, WorkListExact, Scope, Interruptible
<1>3. RequestsBound'
    BY DEF IndInv, TypeOK, RequestsBound, WorkListExact, WorkersFenced, VerifyFence
<1>4. WorkersFenced'
    BY DEF IndInv, TypeOK, WorkersFenced, VerifyFence, Scope, RequestsBound,
           LeaseMatchesReceipt, WorkListExact
<1>5. WorkListExact'
    BY DEF IndInv, TypeOK, WorkListExact, WorkersFenced, Interruptible
<1>6. EffectsAnnounced' /\ NoFalseAbsence'
    BY DEF IndInv, TypeOK, EffectsAnnounced, NoFalseAbsence, WorkListExact,
           WorkersFenced, Interruptible
<1>7. DurableReply'
    BY DEF IndInv, TypeOK, DurableReply, Terminal, WorkListExact, WorkersFenced,
           Interruptible
<1> QED BY <1>1, <1>2, <1>3, <1>4, <1>5, <1>6, <1>7 DEF IndInv

\* The interrupted rows are listed.
LEMMA StartStep ==
    ASSUME IndInv, Start
    PROVE  IndInv'
<1> USE NoOpAssumption, ScopeOfRequest, BoundsAssumption
    DEF Start, Interrupted, opVars, leaseVars, startVars, workVars,
        boundVars
<1>1. TypeOK'
    BY DEF IndInv, TypeOK, OpStates, Interruptible, Terminal, Outcomes, LeaseStates,
           Stages, WorkerPcs, Replies, WorkersFenced, VerifyFence
<1>2. LeaseMatchesReceipt'
    BY DEF IndInv, TypeOK, LeaseMatchesReceipt, RequestsBound, WorkersFenced,
           VerifyFence, WorkListExact, Scope, Interruptible
<1>3. RequestsBound'
    BY DEF IndInv, TypeOK, RequestsBound, WorkListExact, WorkersFenced, VerifyFence
<1>4. WorkersFenced'
    BY DEF IndInv, TypeOK, WorkersFenced, VerifyFence, Scope, RequestsBound,
           LeaseMatchesReceipt, WorkListExact
<1>5. WorkListExact'
    BY DEF IndInv, TypeOK, WorkListExact, WorkersFenced, Interruptible
<1>6. EffectsAnnounced' /\ NoFalseAbsence'
    BY DEF IndInv, TypeOK, EffectsAnnounced, NoFalseAbsence, WorkListExact,
           WorkersFenced, Interruptible
<1>7. DurableReply'
    BY DEF IndInv, TypeOK, DurableReply, Terminal, WorkListExact, WorkersFenced,
           Interruptible
<1> QED BY <1>1, <1>2, <1>3, <1>4, <1>5, <1>6, <1>7 DEF IndInv

\* The first startup transaction.
LEMMA MarkReconcilingStep ==
    ASSUME IndInv, NEW o \in OpIds, MarkReconciling(o)
    PROVE  IndInv'
<1> USE NoOpAssumption, ScopeOfRequest, BoundsAssumption
    DEF MarkReconciling, StaleLease, SetLease, opVars, leaseVars, startVars,
        workVars, boundVars
<1>1. TypeOK'
    BY DEF IndInv, TypeOK, OpStates, Interruptible, Terminal, Outcomes, LeaseStates,
           Stages, WorkerPcs, Replies, WorkersFenced, VerifyFence
<1>2. LeaseMatchesReceipt'
    BY DEF IndInv, TypeOK, LeaseMatchesReceipt, RequestsBound, WorkersFenced,
           VerifyFence, WorkListExact, Scope, Interruptible
<1>3. RequestsBound'
    BY DEF IndInv, TypeOK, RequestsBound, WorkListExact, WorkersFenced, VerifyFence
<1>4. WorkersFenced'
    BY DEF IndInv, TypeOK, WorkersFenced, VerifyFence, Scope, RequestsBound,
           LeaseMatchesReceipt, WorkListExact
<1>5. WorkListExact'
    BY DEF IndInv, TypeOK, WorkListExact, WorkersFenced, Interruptible
<1>6. EffectsAnnounced' /\ NoFalseAbsence'
    BY DEF IndInv, TypeOK, EffectsAnnounced, NoFalseAbsence, WorkListExact,
           WorkersFenced, Interruptible
<1>7. DurableReply'
    BY DEF IndInv, TypeOK, DurableReply, Terminal, WorkListExact, WorkersFenced,
           Interruptible
<1> QED BY <1>1, <1>2, <1>3, <1>4, <1>5, <1>6, <1>7 DEF IndInv

\* The second startup transaction.
LEMMA RecoverOneStep ==
    ASSUME IndInv, NEW o \in OpIds, RecoverOne(o)
    PROVE  IndInv'
<1> USE NoOpAssumption, ScopeOfRequest, BoundsAssumption
    DEF RecoverOne, SafeToFail, opVars, leaseVars, startVars, workVars,
        boundVars
<1>1. TypeOK'
    BY DEF IndInv, TypeOK, OpStates, Interruptible, Terminal, Outcomes, LeaseStates,
           Stages, WorkerPcs, Replies, WorkersFenced, VerifyFence
<1>2. LeaseMatchesReceipt'
    BY DEF IndInv, TypeOK, LeaseMatchesReceipt, RequestsBound, WorkersFenced,
           VerifyFence, WorkListExact, Scope, Interruptible
<1>3. RequestsBound'
    BY DEF IndInv, TypeOK, RequestsBound, WorkListExact, WorkersFenced, VerifyFence
<1>4. WorkersFenced'
    BY DEF IndInv, TypeOK, WorkersFenced, VerifyFence, Scope, RequestsBound,
           LeaseMatchesReceipt, WorkListExact
<1>5. WorkListExact'
    BY DEF IndInv, TypeOK, WorkListExact, WorkersFenced, Interruptible
<1>6. EffectsAnnounced' /\ NoFalseAbsence'
    BY DEF IndInv, TypeOK, EffectsAnnounced, NoFalseAbsence, WorkListExact,
           WorkersFenced, Interruptible
<1>7. DurableReply'
    BY DEF IndInv, TypeOK, DurableReply, Terminal, WorkListExact, WorkersFenced,
           Interruptible
<1> QED BY <1>1, <1>2, <1>3, <1>4, <1>5, <1>6, <1>7 DEF IndInv

\* The work list is empty.
LEMMA ClassifiedStep ==
    ASSUME IndInv, Classified
    PROVE  IndInv'
<1> USE NoOpAssumption, ScopeOfRequest, BoundsAssumption
    DEF Classified, opVars, leaseVars, startVars, workVars, boundVars
<1>1. TypeOK'
    BY DEF IndInv, TypeOK, OpStates, Interruptible, Terminal, Outcomes, LeaseStates,
           Stages, WorkerPcs, Replies, WorkersFenced, VerifyFence
<1>2. LeaseMatchesReceipt'
    BY DEF IndInv, TypeOK, LeaseMatchesReceipt, RequestsBound, WorkersFenced,
           VerifyFence, WorkListExact, Scope, Interruptible
<1>3. RequestsBound'
    BY DEF IndInv, TypeOK, RequestsBound, WorkListExact, WorkersFenced, VerifyFence
<1>4. WorkersFenced'
    BY DEF IndInv, TypeOK, WorkersFenced, VerifyFence, Scope, RequestsBound,
           LeaseMatchesReceipt, WorkListExact
<1>5. WorkListExact'
    BY DEF IndInv, TypeOK, WorkListExact, WorkersFenced, Interruptible
<1>6. EffectsAnnounced' /\ NoFalseAbsence'
    BY DEF IndInv, TypeOK, EffectsAnnounced, NoFalseAbsence, WorkListExact,
           WorkersFenced, Interruptible
<1>7. DurableReply'
    BY DEF IndInv, TypeOK, DurableReply, Terminal, WorkListExact, WorkersFenced,
           Interruptible
<1> QED BY <1>1, <1>2, <1>3, <1>4, <1>5, <1>6, <1>7 DEF IndInv

\* A startup observer settles an operation.
LEMMA CompleteRecoveryStep ==
    ASSUME IndInv, NEW o \in OpIds, NEW ok \in BOOLEAN, CompleteRecovery(o,
           ok)
    PROVE  IndInv'
<1> USE NoOpAssumption, ScopeOfRequest, BoundsAssumption
    DEF CompleteRecovery, opVars, leaseVars, startVars, workVars, boundVars
<1>1. TypeOK'
    BY DEF IndInv, TypeOK, OpStates, Interruptible, Terminal, Outcomes, LeaseStates,
           Stages, WorkerPcs, Replies, WorkersFenced, VerifyFence
<1>2. LeaseMatchesReceipt'
    BY DEF IndInv, TypeOK, LeaseMatchesReceipt, RequestsBound, WorkersFenced,
           VerifyFence, WorkListExact, Scope, Interruptible
<1>3. RequestsBound'
    BY DEF IndInv, TypeOK, RequestsBound, WorkListExact, WorkersFenced, VerifyFence
<1>4. WorkersFenced'
    BY DEF IndInv, TypeOK, WorkersFenced, VerifyFence, Scope, RequestsBound,
           LeaseMatchesReceipt, WorkListExact
<1>5. WorkListExact'
    BY DEF IndInv, TypeOK, WorkListExact, WorkersFenced, Interruptible
<1>6. EffectsAnnounced' /\ NoFalseAbsence'
    BY DEF IndInv, TypeOK, EffectsAnnounced, NoFalseAbsence, WorkListExact,
           WorkersFenced, Interruptible
<1>7. DurableReply'
    BY DEF IndInv, TypeOK, DurableReply, Terminal, WorkListExact, WorkersFenced,
           Interruptible
<1> QED BY <1>1, <1>2, <1>3, <1>4, <1>5, <1>6, <1>7 DEF IndInv

\* The helper starts to serve.
LEMMA ListenStep ==
    ASSUME IndInv, Listen
    PROVE  IndInv'
<1> USE NoOpAssumption, ScopeOfRequest, BoundsAssumption
    DEF Listen, opVars, leaseVars, startVars, workVars, boundVars
<1>1. TypeOK'
    BY DEF IndInv, TypeOK, OpStates, Interruptible, Terminal, Outcomes, LeaseStates,
           Stages, WorkerPcs, Replies, WorkersFenced, VerifyFence
<1>2. LeaseMatchesReceipt'
    BY DEF IndInv, TypeOK, LeaseMatchesReceipt, RequestsBound, WorkersFenced,
           VerifyFence, WorkListExact, Scope, Interruptible
<1>3. RequestsBound'
    BY DEF IndInv, TypeOK, RequestsBound, WorkListExact, WorkersFenced, VerifyFence
<1>4. WorkersFenced'
    BY DEF IndInv, TypeOK, WorkersFenced, VerifyFence, Scope, RequestsBound,
           LeaseMatchesReceipt, WorkListExact
<1>5. WorkListExact'
    BY DEF IndInv, TypeOK, WorkListExact, WorkersFenced, Interruptible
<1>6. EffectsAnnounced' /\ NoFalseAbsence'
    BY DEF IndInv, TypeOK, EffectsAnnounced, NoFalseAbsence, WorkListExact,
           WorkersFenced, Interruptible
<1>7. DurableReply'
    BY DEF IndInv, TypeOK, DurableReply, Terminal, WorkListExact, WorkersFenced,
           Interruptible
<1> QED BY <1>1, <1>2, <1>3, <1>4, <1>5, <1>6, <1>7 DEF IndInv

\* An administrator releases a recovery lease.
LEMMA ResolveActionRequiredStep ==
    ASSUME IndInv, NEW o \in OpIds, ResolveActionRequired(o)
    PROVE  IndInv'
<1> USE NoOpAssumption, ScopeOfRequest, BoundsAssumption
    DEF ResolveActionRequired, opVars, leaseVars, startVars, workVars,
        boundVars
<1>1. TypeOK'
    BY DEF IndInv, TypeOK, OpStates, Interruptible, Terminal, Outcomes, LeaseStates,
           Stages, WorkerPcs, Replies, WorkersFenced, VerifyFence
<1>2. LeaseMatchesReceipt'
    BY DEF IndInv, TypeOK, LeaseMatchesReceipt, RequestsBound, WorkersFenced,
           VerifyFence, WorkListExact, Scope, Interruptible
<1>3. RequestsBound'
    BY DEF IndInv, TypeOK, RequestsBound, WorkListExact, WorkersFenced, VerifyFence
<1>4. WorkersFenced'
    BY DEF IndInv, TypeOK, WorkersFenced, VerifyFence, Scope, RequestsBound,
           LeaseMatchesReceipt, WorkListExact
<1>5. WorkListExact'
    BY DEF IndInv, TypeOK, WorkListExact, WorkersFenced, Interruptible
<1>6. EffectsAnnounced' /\ NoFalseAbsence'
    BY DEF IndInv, TypeOK, EffectsAnnounced, NoFalseAbsence, WorkListExact,
           WorkersFenced, Interruptible
<1>7. DurableReply'
    BY DEF IndInv, TypeOK, DurableReply, Terminal, WorkListExact, WorkersFenced,
           Interruptible
<1> QED BY <1>1, <1>2, <1>3, <1>4, <1>5, <1>6, <1>7 DEF IndInv

\* Every step, and stuttering, preserves the inductive invariant.
LEMMA NextInv == IndInv /\ [Next]_vars => IndInv'
<1> SUFFICES ASSUME IndInv, [Next]_vars PROVE IndInv'
    OBVIOUS
<1>1. ASSUME NEW w \in Workers, Worker(w) PROVE IndInv'
    <2>1. CASE BeginAny(w)
        BY <2>1, BeginAcquireStep, BeginSupersedeStep, BeginConflictStep,
           BeginReplayStep DEF BeginAny
    <2>2. CASE Finish(w)
        BY <2>2, CompleteStep, CompleteUnknownStep DEF Finish
    <2> QED
        BY <1>1, <2>1, <2>2, AuthorizeMutationStep, AuthorizeFailsStep,
           RecordPhaseStep, DispatchStep, CompleteFailsStep DEF Worker
<1>2. CASE StartupStep
    BY <1>2, StartStep, MarkReconcilingStep, RecoverOneStep, ClassifiedStep,
       ListenStep DEF StartupStep
<1>3. CASE UNCHANGED vars
    BY <1>3 DEF vars, opVars, leaseVars, startVars, workVars, boundVars, IndInv,
       TypeOK, LeaseMatchesReceipt, RequestsBound, WorkersFenced, VerifyFence,
       Scope, WorkListExact, EffectsAnnounced, NoFalseAbsence, DurableReply
<1> QED
    BY <1>1, <1>2, <1>3, CompleteRecoveryStep, ResolveActionRequiredStep, CrashStep
    DEF Next

\* The inductive invariant holds in every reachable state of the coordinator.
THEOREM InductiveInvariance == Spec => []IndInv
BY InitInv, NextInv, PTL DEF Spec

\* Types: every column and every goroutine register keeps its range.
THEOREM TypeCorrect == Spec => []TypeOK
<1>1. IndInv => TypeOK
    BY DEF IndInv
<1> QED BY <1>1, InductiveInvariance, PTL

\* Receipts and leases always agree (Begin, Complete, the two startup
\* transactions, CompleteRecovery and ResolveActionRequired).
THEOREM LeasesMatch == Spec => []LeaseMatchesReceipt
<1>1. IndInv => LeaseMatchesReceipt
    BY DEF IndInv
<1> QED BY <1>1, InductiveInvariance, PTL

\* At most one goroutine works on a scope.
THEOREM Exclusion == Spec => []ExclusiveExecutor
<1>1. IndInv => ExclusiveExecutor
    <2> SUFFICES ASSUME IndInv, NEW v \in Workers, NEW w \in Workers,
                        wPc[v] # "idle", wPc[w] # "idle",
                        Scope(wOp[v]) = Scope(wOp[w])
                 PROVE  v = w
        BY DEF ExclusiveExecutor
    <2>1. wOp[v] = leaseHolder[Scope(wOp[v])] /\ wOp[w] = leaseHolder[Scope(wOp[w])]
        BY DEF IndInv, WorkersFenced, VerifyFence
    <2> QED BY <2>1 DEF IndInv, WorkersFenced
<1> QED BY <1>1, InductiveInvariance, PTL

\* A receipt never denies an effect that may be present.
THEOREM AbsenceIsTrue == Spec => []NoFalseAbsence
<1>1. IndInv => NoFalseAbsence
    BY DEF IndInv
<1> QED BY <1>1, InductiveInvariance, PTL

\* A final answer stays true.
THEOREM RepliesDurable == Spec => []DurableReply
<1>1. IndInv => DurableReply
    BY DEF IndInv
<1> QED BY <1>1, InductiveInvariance, PTL

\* A step changes a receipt only from a state that is not final.
LEMMA FinalStep ==
    ASSUME IndInv, Next, NEW o \in OpIds, opState[o] \in Terminal
    PROVE  opState'[o] = opState[o] /\ opOutcome'[o] = opOutcome[o]
<1> USE DEF Terminal, opVars, TypeOK
<1>1. ASSUME NEW w \in Workers, NEW q \in OpIds, NEW r \in Requests,
             \/ BeginAcquire(w, q, r)
             \/ BeginSupersede(w, q, r)
             \/ BeginConflict(w, q, r)
      PROVE  opState'[o] = opState[o] /\ opOutcome'[o] = opOutcome[o]
    BY <1>1 DEF IndInv, BeginAcquire, BeginSupersede, BeginConflict,
                Acquire, TakeOverAllowed
<1>2. ASSUME NEW w \in Workers,
             \/ AuthorizeMutation(w)
             \/ AuthorizeFails(w)
             \/ RecordPhase(w)
             \/ Dispatch(w)
             \/ Finish(w)
             \/ CompleteFails(w)
      PROVE  opState'[o] = opState[o] /\ opOutcome'[o] = opOutcome[o]
    BY <1>2 DEF IndInv, AuthorizeMutation, AuthorizeFails, RecordPhase, Dispatch,
                Finish, Complete, CompleteUnknown, CompleteFails
<1>3. ASSUME NEW q \in OpIds, MarkReconciling(q) \/ RecoverOne(q)
      PROVE  opState'[o] = opState[o] /\ opOutcome'[o] = opOutcome[o]
    BY <1>3, NoOpAssumption
    DEF IndInv, WorkListExact, Interruptible, MarkReconciling, RecoverOne
<1>4. ASSUME NEW q \in OpIds,
             (\E ok \in BOOLEAN : CompleteRecovery(q, ok)) \/ ResolveActionRequired(q)
      PROVE  opState'[o] = opState[o] /\ opOutcome'[o] = opOutcome[o]
    BY <1>4 DEF IndInv, CompleteRecovery, ResolveActionRequired
<1>5. ASSUME \/ Crash \/ Start \/ Classified \/ Listen
             \/ \E w \in Workers, q \in OpIds : BeginReplay(w, q)
      PROVE  opState'[o] = opState[o] /\ opOutcome'[o] = opOutcome[o]
    BY <1>5 DEF Crash, Start, Classified, Listen, BeginReplay
<1> QED
    BY <1>1, <1>2, <1>3, <1>4, <1>5
    DEF Next, Worker, BeginAny, StartupStep

\* Final receipts are never rewritten by any step of the helper, of a restarted
\* helper or of the administrator's command.
THEOREM Finality == Spec => ReceiptsFinal
<1>1. IndInv /\ [Next]_vars =>
        [\A o \in OpIds : opState[o] \in Terminal =>
            /\ opState'[o] = opState[o]
            /\ opOutcome'[o] = opOutcome[o]]_vars
    BY FinalStep
<1> QED BY <1>1, InductiveInvariance, PTL DEF Spec, ReceiptsFinal

\* What one step may do to the fence of one scope.
FenceStep(s) ==
    /\ leaseToken'[s] >= leaseToken[s]
    /\ \/ leaseHolder'[s] # leaseHolder[s]
       \/ leaseState'[s] = "recovery_required" /\ leaseState[s] = "held"
       => leaseToken'[s] > leaseToken[s]

\* Every step of the coordinator keeps each scope's fence monotone.
LEMMA FenceStepLemma ==
    ASSUME IndInv, Next, NEW s \in Scopes
    PROVE  FenceStep(s)
<1> USE ScopeOfRequest DEF FenceStep, TypeOK, leaseVars, SetLease
<1>1. ASSUME NEW w \in Workers, NEW q \in OpIds, NEW r \in Requests,
             \/ BeginAcquire(w, q, r)
             \/ BeginSupersede(w, q, r)
             \/ BeginConflict(w, q, r)
      PROVE  FenceStep(s)
    BY <1>1 DEF IndInv, BeginAcquire, BeginSupersede, BeginConflict,
                Acquire, NextToken
<1>2. ASSUME NEW w \in Workers,
             \/ AuthorizeMutation(w)
             \/ AuthorizeFails(w)
             \/ RecordPhase(w)
             \/ Dispatch(w)
             \/ Finish(w)
             \/ CompleteFails(w)
      PROVE  FenceStep(s)
    BY <1>2 DEF IndInv, AuthorizeMutation, AuthorizeFails, RecordPhase, Dispatch,
                Finish, Complete, CompleteUnknown, CompleteFails, VerifyFence
<1>3. ASSUME NEW q \in OpIds, MarkReconciling(q) \/ RecoverOne(q)
      PROVE  FenceStep(s)
    BY <1>3, NoOpAssumption
    DEF IndInv, WorkListExact, LeaseMatchesReceipt, Interruptible, MarkReconciling,
        RecoverOne, StaleLease, Scope
<1>4. ASSUME NEW q \in OpIds,
             (\E ok \in BOOLEAN : CompleteRecovery(q, ok)) \/ ResolveActionRequired(q)
      PROVE  FenceStep(s)
    BY <1>4 DEF IndInv, CompleteRecovery, ResolveActionRequired
<1>5. ASSUME \/ Crash \/ Start \/ Classified \/ Listen
             \/ \E w \in Workers, q \in OpIds : BeginReplay(w, q)
      PROVE  FenceStep(s)
    BY <1>5 DEF IndInv, Crash, Start, Classified, Listen, BeginReplay
<1> QED
    BY <1>1, <1>2, <1>3, <1>4, <1>5
    DEF Next, Worker, BeginAny, StartupStep

\* Fencing tokens never decrease, and grow whenever a lease changes hands or
\* starts to require recovery: an executor of the past cannot pass verifyFence.
THEOREM FencesMonotone == Spec => TokensMonotone
<1>1. IndInv /\ [Next]_vars =>
        [\A s \in Scopes :
            /\ leaseToken'[s] >= leaseToken[s]
            /\ \/ leaseHolder'[s] # leaseHolder[s]
               \/ leaseState'[s] = "recovery_required" /\ leaseState[s] = "held"
               => leaseToken'[s] > leaseToken[s]]_vars
    BY FenceStepLemma DEF FenceStep
<1> QED BY <1>1, InductiveInvariance, PTL DEF Spec, TokensMonotone

\* The initial states of the coordinator are initial states of the ledger.
LEMMA LedgerInit == Init => Ledger!Init
<1> SUFFICES ASSUME Init PROVE Ledger!Init
    OBVIOUS
<1>1. LedgerPhase = [o \in OpIds |-> "new"]
    BY DEF Init, LedgerPhase, Interruptible
<1>2. LedgerOwner = [s \in Scopes |-> NoOp]
    BY DEF Init, LedgerOwner
<1> QED BY <1>1, <1>2 DEF Init, Ledger!Init

\* Each of the ledger's actions is a step of the ledger.
LEMMA LedgerActions ==
    ASSUME NEW o \in OpIds, NEW s \in Scopes,
           \/ Ledger!Accept(o, s)
           \/ Ledger!Refuse(o, s)
           \/ \E p \in OpIds : Ledger!TakeOver(o, p, s)
           \/ Ledger!Act(o, s)
           \/ Ledger!Doubt(o, s)
           \/ Ledger!Settle(o, s, "succeeded")
           \/ Ledger!Settle(o, s, "failed")
           \/ Ledger!Undo(o, s)
    PROVE  Ledger!Next
BY DEF Ledger!Next

\* Begin maps to Accept, TakeOver or Refuse, and a replay to a stutter.
LEMMA LedgerBegin ==
    ASSUME IndInv, NEW w \in Workers, BeginAny(w)
    PROVE  Ledger!Next \/ UNCHANGED Ledger!vars
<1> USE ScopeOfRequest, NoOpAssumption DEF TypeOK, Interruptible, LedgerPhase, LedgerOwner, Receives
<1>1. ASSUME NEW o \in OpIds, NEW r \in Requests, BeginAcquire(w, o, r)
      PROVE  Ledger!Accept(o, r.scope)
    BY <1>1 DEF IndInv, BeginAcquire, Acquire, ScopeFree, SetLease, Ledger!Accept
<1>2. ASSUME NEW o \in OpIds, NEW r \in Requests, BeginSupersede(w, o, r)
      PROVE  Ledger!TakeOver(o, leaseHolder[r.scope], r.scope) /\ leaseHolder[r.scope] \in OpIds
    BY <1>2 DEF IndInv, BeginSupersede, Acquire, TakeOverAllowed, SetLease,
                LeaseMatchesReceipt, Ledger!TakeOver
<1>3. ASSUME NEW o \in OpIds, NEW r \in Requests, BeginConflict(w, o, r)
      PROVE  Ledger!Refuse(o, r.scope)
    <2>1. LedgerPhase[o] = "new" /\ LedgerOwner[r.scope] # NoOp
        BY <1>3 DEF IndInv, BeginConflict, ScopeFree, LeaseStates, LeaseMatchesReceipt
    <2>2. LedgerPhase' = [LedgerPhase EXCEPT ![o] = "failed"]
        BY <1>3 DEF IndInv, BeginConflict, ConflictState
    <2>3. UNCHANGED <<LedgerOwner, touched>>
        BY <1>3 DEF BeginConflict, leaseVars
    <2> QED BY <2>1, <2>2, <2>3 DEF Ledger!Refuse
<1>4. ASSUME NEW o \in OpIds, BeginReplay(w, o)
      PROVE  UNCHANGED Ledger!vars
    BY <1>4 DEF BeginReplay, opVars, leaseVars, Ledger!vars
<1> QED
    <2> HIDE DEF LedgerPhase, LedgerOwner
    <2> QED BY <1>1, <1>2, <1>3, <1>4, LedgerActions DEF BeginAny

\* An executing operation maps to Act, Doubt or Settle of the scope's owner.
LEMMA LedgerExecute ==
    ASSUME IndInv, NEW w \in Workers, Worker(w), ~BeginAny(w)
    PROVE  Ledger!Next \/ UNCHANGED Ledger!vars
<1> USE NoOpAssumption DEF TypeOK, Interruptible, LedgerPhase, LedgerOwner
<1> DEFINE o == wOp[w]
           s == Scope(o)
<1>0. wPc[w] # "idle" => o \in OpIds /\ s \in Scopes
    BY ScopeOfRequest DEF IndInv, WorkersFenced, VerifyFence, RequestsBound, Scope
<1>1. CASE AuthorizeMutation(w) \/ AuthorizeFails(w) \/ RecordPhase(w) \/ CompleteFails(w)
    BY <1>0, <1>1 DEF IndInv, AuthorizeMutation, AuthorizeFails, RecordPhase,
                CompleteFails, opVars, leaseVars, Ledger!vars
<1>2. CASE Dispatch(w)
    <2>1. Ledger!Act(o, s)
        BY <1>0, <1>2 DEF IndInv, Dispatch, WorkersFenced, VerifyFence, opVars,
                          leaseVars, Ledger!Act
    <2>2. o \in OpIds /\ s \in Scopes
        BY <1>0, <1>2 DEF Dispatch
    <2> HIDE DEF o, s, LedgerPhase, LedgerOwner
    <2> QED BY <2>1, <2>2, LedgerActions
<1>3. CASE CompleteUnknown(w)
    <2>1. Ledger!Doubt(o, s)
        BY <1>0, <1>3 DEF IndInv, CompleteUnknown, VerifyFence, SetLease, Ledger!Doubt
    <2>2. o \in OpIds /\ s \in Scopes
        BY <1>0, <1>3 DEF CompleteUnknown
    <2> HIDE DEF o, s, LedgerPhase, LedgerOwner
    <2> QED BY <2>1, <2>2, LedgerActions
<1>4. ASSUME NEW ok \in BOOLEAN, Complete(w, ok)
      PROVE  Ledger!Next
    <2>1. Ledger!Settle(o, s, IF ok THEN "succeeded" ELSE "failed")
        BY <1>0, <1>4 DEF IndInv, Complete, VerifyFence, SetLease, Ledger!Settle
    <2> QED BY <1>0, <1>4, <2>1, LedgerActions DEF Complete
<1> QED
    BY <1>1, <1>2, <1>3, <1>4 DEF Worker, Finish

\* The classification keeps the owner: it maps to Doubt, to Settle for work
\* that never started, or to nothing.
LEMMA LedgerStartup ==
    ASSUME IndInv, StartupStep
    PROVE  Ledger!Next \/ UNCHANGED Ledger!vars
<1> USE NoOpAssumption DEF TypeOK, Interruptible, LedgerPhase, LedgerOwner
<1>1. CASE Start \/ Classified \/ Listen
    BY <1>1 DEF Start, Classified, Listen, opVars, leaseVars, Ledger!vars
<1>2. ASSUME NEW o \in OpIds, MarkReconciling(o)
      PROVE  UNCHANGED Ledger!vars
    <2>1. opState[o] \in Interruptible /\ leaseHolder[Scope(o)] = o
          /\ leaseState[Scope(o)] \in {"held", "recovery_required"}
        BY <1>2 DEF IndInv, WorkListExact, LeaseMatchesReceipt, MarkReconciling
    <2>2. UNCHANGED LedgerPhase
        BY <1>2, <2>1 DEF IndInv, MarkReconciling
    <2>3. UNCHANGED LedgerOwner
        BY <1>2, <2>1 DEF IndInv, MarkReconciling, StaleLease, SetLease
    <2> QED BY <1>2, <2>2, <2>3 DEF MarkReconciling, Ledger!vars
<1>3. ASSUME NEW o \in OpIds, RecoverOne(o)
      PROVE  Ledger!Next
    <2>1. /\ opState[o] = "reconciling"
          /\ leaseHolder[Scope(o)] = o
          /\ leaseState[Scope(o)] \in {"held", "recovery_required"}
          /\ Scope(o) \in Scopes
        BY <1>3, ScopeOfRequest
        DEF IndInv, WorkListExact, LeaseMatchesReceipt, RecoverOne, RequestsBound, Scope
    <2>2. CASE SafeToFail(o)
        <3>1. Ledger!Settle(o, Scope(o), "failed")
            BY <1>3, <2>1, <2>2 DEF IndInv, RecoverOne, Ledger!Settle
        <3> QED BY <2>1, <3>1, LedgerActions
    <2>3. CASE ~SafeToFail(o)
        <3>1. Ledger!Doubt(o, Scope(o))
            BY <1>3, <2>1, <2>3 DEF IndInv, RecoverOne, Ledger!Doubt
        <3>2. Scope(o) \in Scopes
            BY <2>1
        <3> HIDE DEF LedgerPhase, LedgerOwner
        <3> QED BY <3>1, <3>2, LedgerActions
    <2> QED BY <2>2, <2>3
<1> QED
    BY <1>1, <1>2, <1>3 DEF StartupStep

\* A proven recovery and the administrator's command settle an owner in doubt.
LEMMA LedgerSettle ==
    ASSUME IndInv, NEW o \in OpIds,
           (\E ok \in BOOLEAN : CompleteRecovery(o, ok)) \/ ResolveActionRequired(o)
    PROVE  Ledger!Next
<1> USE NoOpAssumption DEF TypeOK, Interruptible, LedgerPhase, LedgerOwner
<1>0. opState[o] = "action_required" => Scope(o) \in Scopes
    BY ScopeOfRequest DEF IndInv, RequestsBound, Scope
<1>1. ASSUME CompleteRecovery(o, TRUE) PROVE Ledger!Settle(o, Scope(o), "succeeded")
    BY <1>0, <1>1 DEF IndInv, CompleteRecovery, Ledger!Settle
<1>2. ASSUME CompleteRecovery(o, FALSE) PROVE Ledger!Undo(o, Scope(o))
    BY <1>0, <1>2 DEF IndInv, CompleteRecovery, Ledger!Undo
<1>3. ASSUME ResolveActionRequired(o) PROVE Ledger!Settle(o, Scope(o), "failed")
    BY <1>0, <1>3 DEF IndInv, ResolveActionRequired, Ledger!Settle
<1>4. Scope(o) \in Scopes
    BY <1>0 DEF CompleteRecovery, ResolveActionRequired
<1>5. CompleteRecovery(o, TRUE) \/ CompleteRecovery(o, FALSE) \/ ResolveActionRequired(o)
    OBVIOUS
<1> HIDE DEF LedgerPhase, LedgerOwner
<1> QED
    BY <1>1, <1>2, <1>3, <1>4, <1>5, LedgerActions

\* The coordinator implements the ledger: every step of goroutines, startup and
\* administrator, under crashes and lost transactions, is a ledger step or
\* invisible to it.
THEOREM Refinement == Spec => ImplementsLedger
<1>1. IndInv /\ [Next]_vars => [Ledger!Next]_(Ledger!vars)
    <2> SUFFICES ASSUME IndInv, [Next]_vars
                 PROVE  Ledger!Next \/ UNCHANGED Ledger!vars
        OBVIOUS
    <2>1. CASE Crash
        BY <2>1 DEF Crash, opVars, leaseVars, LedgerPhase, LedgerOwner, Ledger!vars
    <2>2. CASE UNCHANGED vars
        BY <2>2 DEF vars, opVars, leaseVars, LedgerPhase, LedgerOwner, Ledger!vars
    <2> QED
        BY <2>1, <2>2, LedgerBegin, LedgerExecute, LedgerStartup, LedgerSettle
        DEF Next
<1> QED
    BY <1>1, LedgerInit, InductiveInvariance, PTL
    DEF Spec, ImplementsLedger, Ledger!Spec

=============================================================================
