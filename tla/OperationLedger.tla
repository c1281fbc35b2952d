--------------------------- MODULE OperationLedger ---------------------------
(***************************************************************************)
(* What the helper promises its clients about privileged operations,       *)
(* without tokens, goroutines, crashes or transactions: an operation id is *)
(* used once, a scope has at most one owner, only the owner of a scope may *)
(* have effects on it and only while it is active, an owner whose outcome  *)
(* is in doubt keeps the scope until it is settled or superseded by an     *)
(* operation that takes the scope over, and a settled operation stays      *)
(* settled.  HelperOps implements this specification.                      *)
(***************************************************************************)
CONSTANTS OpIds, Scopes, NoOp

VARIABLES
    phase,     \* the client's view of each operation id
    owner,     \* the operation that owns a scope, or NoOp
    effects    \* operations whose external effects may be present

vars == <<phase, owner, effects>>

Phases == {"new", "active", "uncertain", "succeeded", "failed", "superseded"}

Init ==
    /\ phase   = [o \in OpIds |-> "new"]
    /\ owner   = [s \in Scopes |-> NoOp]
    /\ effects = {}

Accept(o, s) ==
    /\ phase[o] = "new"
    /\ owner[s] = NoOp
    /\ phase' = [phase EXCEPT ![o] = "active"]
    /\ owner' = [owner EXCEPT ![s] = o]
    /\ UNCHANGED effects

Refuse(o, s) ==
    /\ phase[o] = "new"
    /\ owner[s] # NoOp
    /\ phase' = [phase EXCEPT ![o] = "failed"]
    /\ UNCHANGED <<owner, effects>>

TakeOver(o, p, s) ==
    /\ phase[o] = "new"
    /\ owner[s] = p
    /\ phase[p] = "uncertain"
    /\ phase' = [phase EXCEPT ![p] = "superseded", ![o] = "active"]
    /\ owner' = [owner EXCEPT ![s] = o]
    /\ UNCHANGED effects

Act(o, s) ==
    /\ owner[s] = o
    /\ phase[o] = "active"
    /\ effects' = effects \cup {o}
    /\ UNCHANGED <<phase, owner>>

Doubt(o, s) ==
    /\ owner[s] = o
    /\ phase[o] = "active"
    /\ phase' = [phase EXCEPT ![o] = "uncertain"]
    /\ UNCHANGED <<owner, effects>>

Settle(o, s, result) ==
    /\ owner[s] = o
    /\ phase[o] \in {"active", "uncertain"}
    /\ phase' = [phase EXCEPT ![o] = result]
    /\ owner' = [owner EXCEPT ![s] = NoOp]
    /\ UNCHANGED effects

\* The outcome was in doubt and turned out to be: everything rolled back.
Undo(o, s) ==
    /\ owner[s] = o
    /\ phase[o] = "uncertain"
    /\ phase' = [phase EXCEPT ![o] = "failed"]
    /\ owner' = [owner EXCEPT ![s] = NoOp]
    /\ effects' = effects \ {o}

Next ==
    \E o \in OpIds, s \in Scopes :
        \/ Accept(o, s)
        \/ Refuse(o, s)
        \/ \E p \in OpIds : TakeOver(o, p, s)
        \/ Act(o, s)
        \/ Doubt(o, s)
        \/ \E result \in {"succeeded", "failed"} : Settle(o, s, result)
        \/ Undo(o, s)

Spec == Init /\ [][Next]_vars
=============================================================================
