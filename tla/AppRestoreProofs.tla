-------------------------- MODULE AppRestoreProofs --------------------------
(***************************************************************************)
(* Proofs about AppRestore for any number of slots, components,            *)
(* operations, faults, crashes and administrator's commands: the old trees *)
(* are kept until the restored application runs, what a restore answers is *)
(* true, and nothing is started on a mixture of two versions.              *)
(***************************************************************************)
EXTENDS AppRestore, WellFoundedInduction, TLAPS

\* Positions of the worker: before the journal exists, on the way forward, on the
\* way back, and those startup recovery takes.
Before == {"lifecycle", "prepare", "journal"}
Stopping == {"intent", "quiesce", "requiesce"}
Ahead == {"pending", "secrets", "resume", "commit"}
Forward == Ahead \cup {"clean", "finish"}
Back == {"rbStop", "rbAside", "rbBack", "rbSecrets", "rbResume", "rbMark"}
Active == Stopping \cup {"out", "in"} \cup Forward \cup Back
InRecovery == (Forward \cup Back \cup {"settle"}) \ {"rbStop"}
Ended == {"committed", "cleanup_pending", "completed"}

\* Operation o has the lease.
Live(o) == lease.op = o /\ lease.state # "released"

\* Every slot's original is in its place or under its rollback name.
Undoable(o) == \A s \in S : host[s] = row[o].orig[s] \/ s \in kept[o]

\* All of the restore is in place and what ran before it runs.
Done(o) == Restored(o) /\ secrets = o /\ row[o].running \subseteq up

\* Slot s can be rolled back: it holds a tree the journal knows.
Fits(o, s) ==
    /\ host[s] = row[o].orig[s] \/ host[s] = o \/ host[s] = Gone
    /\ host[s] = row[o].orig[s] \/ s \in kept[o]

OrigFrom(o, n) == \A s \in S : s >= n => host[s] = row[o].orig[s]
FitsBelow(o, n) == \A s \in S : s < n => Fits(o, s)
NewBelow(o, n) == \A s \in S : s < n => host[s] = o /\ s \in kept[o]

\* Nothing of the restore is left.
Undone(o) == OrigFrom(o, 1) /\ secrets = row[o].origSecrets

\* Receipts, leases and journals name each other.
Ledger ==
    /\ lease.state # "released" =>
         lease.op \in Ops /\ receipt[lease.op] = IF lease.state = "held" THEN "running" ELSE "action_required"
    /\ \A o \in Ops : receipt[o] = "running" => lease = [op |-> o, state |-> "held"]
    /\ \A o \in Ops : receipt[o] = "action_required" => HasRecoveryLease(o)
    /\ \A o \in Ops : kind[o] = "none" \/ o \in asked => receipt[o] = "none"
    /\ \A o \in Ops : o \in asked => kind[o] # "none"
    /\ \A o \in Ops : receipt[o] = "none" => row[o].phase = "none"

\* The handler works under the lease of its operation; startup recovery too, unless
\* an administrator released it meanwhile.
Worker ==
    /\ helper = "up" => pc \notin {"debts", "settle"}
    /\ helper = "down" => pc = "idle"
    /\ helper = "up" /\ pc # "idle" =>
         op \in Ops /\ lease = [op |-> op, state |-> "held"] /\ receipt[op] = "running"
    /\ helper = "starting" => lease.state # "held" /\ pc \in InRecovery \cup {"idle", "debts"}
    /\ helper = "starting" /\ pc \in InRecovery =>
         /\ op \in Ops
         /\ HasRecoveryLease(op) \/ (lease.state = "released" /\ resolves > 0)

\* The journal the worker works for, the journals recovery still has to look at.
Journal ==
    /\ pc \in Before => row[op].phase = "none"
    /\ pc \in Active => row[op].phase \in Unresolved
    /\ pc \in Active /\ row[op].phase = "committed" => pc \in {"clean", "finish"}
    /\ pc = "settle" => row[op].phase # "none"
    /\ pc = "lifecycle" => kind[op] # "restore"
    /\ pc = "reply" /\ answer = "error" => row[op].phase \in Unresolved \cup {"none", "rolled_back"}
    /\ todo # {} => helper = "starting"
    /\ pc = "debts" => \A o \in todo : row[o].phase \in {"committed", "cleanup_pending"}
    /\ pc # "debts" => \A o \in todo : row[o].phase \in Unresolved \/ (o = op /\ pc = "settle")

\* The slot a loop is at.
Place ==
    /\ pc \in {"out", "in", "clean", "rbBack"} => slot \in S
    /\ pc = "rbAside" => slot \in 0..Slots
    /\ pc = "rbStop" => slot \in 1..(Slots + 1)
    /\ pc \in Ahead /\ helper = "up" => slot = Slots + 1

\* A journal's originals are older trees, and a tree on a path was staged by an
\* operation that has a journal.
Origins ==
    /\ \A o \in Ops, s \in S : row[o].phase # "none" =>
         /\ row[o].orig[s] # o /\ row[o].orig[s] # Gone
         /\ \A p \in Ops : row[o].orig[s] = p => row[p].phase # "none"
    /\ \A p \in Ops, s \in S : host[s] = p => row[p].phase # "none"
    /\ pc = "journal" => Mountable

\* What the disk holds at each position of the way forward.
Swapped ==
    /\ pc \in Stopping => Undone(op)
    /\ pc = "out" => NewBelow(op, slot) /\ OrigFrom(op, slot)
    /\ pc = "in" => NewBelow(op, slot) /\ OrigFrom(op, slot + 1) /\ slot \in kept[op]
    /\ pc \in Forward => Restored(op)
    /\ pc \in Ahead /\ helper = "up" => NewBelow(op, Slots + 1)
    /\ pc \in {"resume", "commit", "clean", "finish"} => secrets = op
    /\ pc \in {"commit", "clean", "finish"} => row[op].running \subseteq up
    /\ pc = "settle" /\ answer = "ok" => Done(op)
    /\ pc = "reply" /\ answer = "ok" =>
         Done(op) \/ (kind[op] # "restore" /\ row[op].phase = "none")

\* What it holds at each position of the way back; exactly, while at most the one
\* call failed that made the handler turn back, and in recovery always.
RolledBack ==
    /\ pc \in Back => Undoable(op)
    /\ pc \in Back /\ helper = "up" => faults > 0
    /\ faults <= 1 \/ helper = "starting" =>
         /\ pc = "rbStop" => FitsBelow(op, slot) /\ OrigFrom(op, slot)
         /\ pc = "rbAside" => FitsBelow(op, slot + 1) /\ OrigFrom(op, slot + 1)
         /\ pc = "rbBack" => FitsBelow(op, slot + 1) /\ OrigFrom(op, slot + 1) /\ host[slot] # op
         /\ pc = "rbSecrets" => OrigFrom(op, 1)
         /\ pc \in {"rbResume", "rbMark"} => Undone(op)
         /\ pc = "rbMark" => row[op].running \subseteq up
         /\ (pc = "settle" /\ answer = "error") \/ (pc = "reply" /\ row[op].phase = "rolled_back") =>
              Undone(op) /\ row[op].running \subseteq up

\* The journal of whoever has the lease can be undone or is complete.
Kept ==
    \A o \in Ops : Live(o) /\ row[o].phase # "none" =>
        /\ Restored(o) \/ Undoable(o)
        /\ row[o].phase \in Ended => Done(o)

\* No second call failed, no lease was released and none was taken over.
Calm == /\ faults <= 1 /\ resolves = 0
        /\ \A o \in Ops : receipt[o] # "superseded"

OrigIsOne(o) == \A s \in S : row[o].orig[s] = row[o].origSecrets
One == \A s \in S : host[s] = secrets

\* In calm the application is of one version whenever no restore is under way.
Whole ==
    Calm => /\ lease.state = "released" => One
            /\ \A o \in Ops : Live(o) => IF row[o].phase = "none" THEN One ELSE OrigIsOne(o)

IndInv ==
    /\ TypeOK /\ Ledger /\ Worker /\ Journal /\ Place /\ Origins /\ Swapped /\ RolledBack
    /\ Kept /\ Whole

-----------------------------------------------------------------------------
(* Shared facts.                                                           *)

Rows == [phase : Phases, running : SUBSET C, orig : [S -> Trees \cup {Gone}],
         origSecrets : Versions]

\* The smallest of a set of numbers is one of them.
LEMMA MinIn ==
    ASSUME NEW T, T \subseteq Nat, T # {}
    PROVE  Min(T) \in T
<1>1. PICK x \in T : \A y \in T : ~(<<y, x>> \in OpToRel(<, Nat))
  BY NatLessThanWellFounded, WFMin
<1>2. \A y \in T : x =< y
  <2>1. \A y \in T : ~(y < x)
    BY <1>1 DEF OpToRel
  <2> QED
    BY <2>1
<1> QED
  BY <1>2 DEF Min

\* An update of a journal's phase leaves the rest of the row and the other rows.
LEMMA PhaseSet ==
    ASSUME TypeOK, NEW o \in Ops, NEW p \in Phases, row' = [row EXCEPT ![o].phase = p]
    PROVE  /\ row' \in [Ops -> Rows] /\ row'[o].phase = p /\ row'[o].orig = row[o].orig
           /\ row'[o].origSecrets = row[o].origSecrets /\ row'[o].running = row[o].running
           /\ \A q \in Ops : q # o => row'[q] = row[q]
<1>1. row \in [Ops -> Rows] /\ row[o] \in Rows
  BY DEF TypeOK, Rows
<1>2. PICK n : n = [row[o] EXCEPT !.phase = p]
  OBVIOUS
<1>3. /\ n \in Rows /\ n.phase = p /\ n.orig = row[o].orig
      /\ n.origSecrets = row[o].origSecrets /\ n.running = row[o].running
  BY <1>1, <1>2 DEF Rows
<1>4. row' = [row EXCEPT ![o] = n]
  BY <1>2
<1> QED
  BY <1>1, <1>3, <1>4

\* A component that is resumed is one of the recorded ones.
LEMMA StartTyped ==
    ASSUME TypeOK, op \in Ops, StartNext, ~AllResumed
    PROVE  up' \subseteq C
<1>1. row[op].running \subseteq C /\ up \subseteq C
  BY DEF TypeOK
<1>2. row[op].running \ up \subseteq Nat /\ row[op].running \ up # {}
  BY <1>1, AppRestoreBounds DEF C, AllResumed
<1>3. Min(row[op].running \ up) \in C
  BY <1>1, <1>2, MinIn
<1> QED
  BY <1>1, <1>3 DEF StartNext

\* A start makes an empty tree where a path is missing and leaves the others.
LEMMA MountIs ==
    ASSUME TypeOK, op \in Ops, Mount
    PROVE  /\ host' \in [S -> Trees \cup {Gone}]
           /\ \A s \in S : host'[s] = host[s] \/ (host[s] = Gone /\ host'[s] = Made(op))
           /\ Mountable => host' = host
<1>1. Made(op) \in Trees
  BY AppRestoreBounds DEF Made, Trees, Ops
<1>2. host \in [S -> Trees \cup {Gone}]
  BY DEF TypeOK
<1> QED
  BY <1>1, <1>2 DEF Mount, Mountable

\* The tree a start makes is no staged tree and no missing one.
LEMMA MadeIsNew ==
    ASSUME NEW o \in Ops
    PROVE  Made(o) \notin Ops /\ Gone \notin Ops
BY AppRestoreBounds DEF Made, Gone, Ops

\* Whatever position the worker of a journal is at, its restore can be undone or is
\* complete.
LEMMA SafeAt ==
    ASSUME TypeOK, Worker, Place, Swapped, RolledBack, pc \in Active \cup {"settle"}, op \in Ops
    PROVE  Restored(op) \/ Undoable(op)
<1>1. TypeOK /\ Worker /\ Place /\ Swapped /\ RolledBack
  OBVIOUS
<1>2. CASE pc \in Stopping
  BY <1>1, <1>2 DEF Swapped, Undone, OrigFrom, Undoable, S
<1>3. CASE pc = "out"
  <2>1. NewBelow(op, slot) /\ OrigFrom(op, slot) /\ slot \in S
    BY <1>1, <1>3 DEF Swapped, Place
  <2> QED
    BY <2>1 DEF NewBelow, OrigFrom, Undoable, S
<1>4. CASE pc = "in"
  <2>1. NewBelow(op, slot) /\ OrigFrom(op, slot + 1) /\ slot \in S /\ slot \in kept[op]
    BY <1>1, <1>4 DEF Swapped, Place
  <2>2. \A s \in S : s < slot \/ s = slot \/ s >= slot + 1
    BY <2>1 DEF S
  <2> QED
    BY <2>1, <2>2 DEF NewBelow, OrigFrom, Undoable
<1>5. CASE pc \in Forward
  BY <1>1, <1>5 DEF Swapped
<1>6. CASE pc \in Back
  BY <1>1, <1>6 DEF RolledBack
<1>7. CASE pc = "settle"
  <2>1. helper = "starting" /\ answer \in {"ok", "error"}
    BY <1>1, <1>7 DEF TypeOK, Worker
  <2>2. Done(op) \/ Undone(op)
    BY <1>1, <1>7, <2>1 DEF Swapped, RolledBack
  <2> QED
    BY <2>2 DEF Done, Undone, OrigFrom, Undoable, S
<1> QED
  BY <1>2, <1>3, <1>4, <1>5, <1>6, <1>7 DEF Active

\* SafeAt as one formula.
LEMMA SafeNow ==
    TypeOK /\ Worker /\ Place /\ Swapped /\ RolledBack /\ pc \in Active \cup {"settle"} /\ op \in Ops
        => Restored(op) \/ Undoable(op)
BY SafeAt

\* The same formula of the state after a step.
LEMMA SafeNext ==
    (TypeOK /\ Worker /\ Place /\ Swapped /\ RolledBack /\ pc \in Active \cup {"settle"} /\ op \in Ops)'
        => (Restored(op) \/ Undoable(op))'
BY SafeNow, PTL

\* The end of calm is final.
LEMMA CalmBefore ==
    ASSUME TypeOK, Calm', faults' \in Nat, faults' >= faults, resolves' = resolves \/ resolves' > 0,
           \A o \in Ops : receipt[o] = "superseded" => receipt'[o] = "superseded"
    PROVE  Calm
<1>1. faults \in Nat /\ resolves \in Nat
  BY AppRestoreBounds DEF TypeOK
<1> QED
  BY <1>1 DEF Calm

\* A step of the worker of a journal, in the handler or in recovery: what concerns
\* the other operations, the ledger and the history follows from what the step
\* leaves alone, so an action only has to show its own position.
LEMMA WorkStep ==
    ASSUME IndInv, pc \in Active \cup {"settle"}, TypeOK',
           UNCHANGED <<kind, asked, receipt, lease, helper, op, todo, resolves>>,
           faults' >= faults,
           \A o \in Ops : o # op => row'[o] = row[o] /\ kept'[o] = kept[o],
           row'[op].phase # "none", row'[op].orig = row[op].orig,
           row'[op].origSecrets = row[op].origSecrets,
           \A s \in S : host'[s] \in {host[s], op, Gone, row[op].orig[s], Made(op)},
           pc' \in Active \cup {"settle", "reply"},
           helper = "up" => pc' # "settle", helper = "starting" => pc' \in InRecovery,
           Journal', Place', Swapped', RolledBack',
           pc' = "reply" => Restored(op)' \/ Undoable(op)',
           Live(op) /\ row'[op].phase \in Ended => Done(op)'
    PROVE  IndInv'
<1>1. TypeOK /\ Ledger /\ Worker /\ Journal /\ Origins /\ Kept /\ Whole
  BY DEF IndInv
<1>2. op \in Ops /\ row[op].phase # "none" /\ helper \in {"up", "starting"} /\ pc \notin {"idle", "debts", "journal"}
  BY <1>1 DEF TypeOK, Worker, Journal, Active, Stopping, Forward, Ahead, Back, InRecovery, Unresolved
<1>3. Live(op) \/ (lease.state = "released" /\ resolves > 0)
  BY <1>1, <1>2 DEF Worker, Live, HasRecoveryLease, Active, Stopping, Forward, Ahead, Back, InRecovery
<1>4. Ledger'
  BY <1>1, <1>2 DEF Ledger, HasRecoveryLease
<1>5. Worker'
  BY <1>1, <1>2 DEF Worker, HasRecoveryLease, Active, Stopping, Forward, Ahead, Back, InRecovery
<1>6. Origins'
  <2>1. \A o \in Ops : row[o].phase # "none" => row'[o].phase # "none"
    BY <1>2
  <2>2. \A o \in Ops : row'[o].orig = row[o].orig /\ (row'[o].phase # "none" => row[o].phase # "none")
    BY <1>2
  <2>3. pc' # "journal"
    BY DEF Active, Stopping, Forward, Ahead, Back
  <2>4. ASSUME NEW o \in Ops, NEW s \in S, row'[o].phase # "none"
        PROVE  /\ row'[o].orig[s] # o /\ row'[o].orig[s] # Gone
               /\ \A p \in Ops : row'[o].orig[s] = p => row'[p].phase # "none"
    BY <1>1, <2>1, <2>2, <2>4 DEF Origins
  <2>5. ASSUME NEW p \in Ops, NEW s \in S, host'[s] = p PROVE row'[p].phase # "none"
    <3>1. Gone \notin Ops /\ Made(op) \notin Ops
      BY <1>2, MadeIsNew
    <3> QED
      BY <1>1, <1>2, <2>1, <2>5, <3>1 DEF Origins
  <2> QED
    BY <2>3, <2>4, <2>5 DEF Origins
<1>7. Kept'
  <2> USE DEF Kept
  <2> TAKE o \in Ops
  <2> HAVE Live(o)' /\ row'[o].phase # "none"
  <2>1. o = op
    BY <1>3 DEF Live
  <2>2. Restored(op)' \/ Undoable(op)'
    BY <1>2, <1>5, SafeNext
  <2> QED
    BY <2>1, <2>2 DEF Live
<1>8. Whole'
  <2> USE DEF Whole
  <2> HAVE Calm'
  <2>1. Calm
    <3>1. faults' \in Nat
      BY AppRestoreBounds DEF TypeOK
    <3> QED
      BY <1>1, <3>1, CalmBefore
  <2>2. resolves = 0
    BY <2>1 DEF Calm
  <2>3. Live(op) /\ OrigIsOne(op)
    BY <1>1, <1>2, <1>3, <2>1, <2>2 DEF Whole
  <2>4. \A o \in Ops : Live(o)' => o = op
    BY <2>3 DEF Live
  <2>5. OrigIsOne(op)'
    BY <2>3 DEF OrigIsOne
  <2> QED
    BY <2>3, <2>4, <2>5 DEF Live, OrigIsOne
<1> QED
  BY <1>4, <1>5, <1>6, <1>7, <1>8 DEF IndInv

\* What a worker of a journal can count on.
LEMMA AtWork ==
    ASSUME IndInv, pc \in Active \cup {"settle"}
    PROVE  /\ TypeOK /\ Journal /\ Place /\ Origins /\ Swapped /\ RolledBack /\ Kept
           /\ op \in Ops /\ op \in Versions /\ op \in Trees /\ row[op].phase # "none" /\ row \in [Ops -> Rows]
           /\ Serving \/ (helper = "starting" /\ pc \in InRecovery)
           /\ pc # "settle" => row[op].phase \in Unresolved
           /\ pc \notin {"settle", "clean", "finish"} => row[op].phase \notin Ended
           /\ helper = "up" => todo = {} /\ Live(op)
           /\ \A o \in todo : row[o].phase \in Unresolved \/ (o = op /\ pc = "settle")
<1>1. TypeOK /\ Journal /\ Place /\ Origins /\ Swapped /\ RolledBack /\ Kept /\ Worker
  BY DEF IndInv
<1>2. pc \notin {"idle", "debts"}
  BY DEF Active, Stopping, Forward, Ahead, Back
<1>3. Serving \/ (helper = "starting" /\ pc \in InRecovery)
  BY <1>1, <1>2 DEF TypeOK, Worker, Serving
<1>4. op \in Ops /\ op \in Versions /\ op \in Trees
  BY <1>1, <1>2, <1>3, AppRestoreBounds DEF Worker, Serving, Ops, Versions, Trees
<1>5. helper = "up" => todo = {} /\ Live(op)
  BY <1>1, <1>2, <1>4 DEF Worker, Journal, Live
<1>6. row \in [Ops -> Rows]
  BY <1>1 DEF TypeOK, Rows
<1>7. pc # "settle" => row[op].phase \in Unresolved
  BY <1>1 DEF Journal
<1>8. row[op].phase # "none"
  BY <1>1, <1>7 DEF Journal, Unresolved
<1>9. \A o \in todo : row[o].phase \in Unresolved \/ (o = op /\ pc = "settle")
  BY <1>1, <1>2 DEF Journal
<1>10. pc \notin {"settle", "clean", "finish"} => row[op].phase \notin Ended
  BY <1>1, <1>7 DEF Journal, Unresolved, Ended
<1> QED
  BY <1>1, <1>3, <1>4, <1>5, <1>6, <1>7, <1>8, <1>9, <1>10

\* A fault is counted.
LEMMA Counted ==
    ASSUME TypeOK, Fault
    PROVE  /\ faults' \in 0..MaxFaults /\ faults' > 0 /\ faults' >= faults /\ UNCHANGED <<crashes, resolves>>
           /\ faults > 0 => ~(faults' <= 1)
<1>1. faults \in Nat /\ MaxFaults \in Nat
  BY AppRestoreBounds DEF TypeOK
<1> QED
  BY <1>1 DEF Fault

\* Recovery that gives up leaves everything where it was.
LEMMA GiveUpStep ==
    ASSUME IndInv, helper = "starting", pc \in InRecovery, GiveUp, up' \subseteq C,
           slot' \in 0..(Slots + 1), faults' \in 0..MaxFaults, faults' >= faults,
           UNCHANGED <<disk, secrets, ledger, helper, op, answer, deferred, crashes, resolves>>
    PROVE  IndInv'
<1> USE DEF disk, ledger
<1>1. pc \in Active \cup {"settle"}
  BY DEF InRecovery, Active
<1>2. /\ TypeOK /\ Journal /\ Origins /\ Kept /\ Ledger /\ Worker /\ Whole /\ op \in Ops
      /\ row[op].phase # "none" /\ row \in [Ops -> Rows]
      /\ \A o \in todo : row[o].phase \in Unresolved \/ (o = op /\ pc = "settle")
  BY <1>1, AtWork DEF IndInv
<1>3. Restored(op) \/ Undoable(op)
  BY <1>1, <1>2, SafeAt DEF IndInv
<1>4. pc' = "idle" /\ todo' = todo \ {op} /\ row' = [row EXCEPT ![op].phase = "action_required"]
  BY DEF GiveUp
<1>5. /\ row' \in [Ops -> Rows] /\ row'[op].phase = "action_required" /\ row'[op].orig = row[op].orig
      /\ row'[op].origSecrets = row[op].origSecrets /\ row'[op].running = row[op].running
      /\ \A q \in Ops : q # op => row'[q] = row[q]
  <2>1. "action_required" \in Phases
    BY DEF Phases
  <2> QED
    BY <1>2, <1>4, <2>1, PhaseSet
<1>6. Live(op) \/ (lease.state = "released" /\ resolves > 0)
  BY <1>2 DEF Worker, Live, HasRecoveryLease
<1>7. TypeOK'
  BY <1>2, <1>4, <1>5 DEF TypeOK, Rows
<1>8. Ledger'
  BY <1>2, <1>5 DEF Ledger, HasRecoveryLease
<1>9. Worker'
  BY <1>2, <1>4 DEF Worker, InRecovery, Forward, Ahead, Back
<1>10. Journal'
  BY <1>2, <1>4, <1>5 DEF Journal, Before, Active, Stopping, Forward, Ahead, Back, TypeOK
<1>11. Place' /\ Swapped' /\ RolledBack'
  BY <1>4 DEF Place, Swapped, RolledBack, Stopping, Forward, Ahead, Back
<1>12. Origins'
  <2>1. \A o \in Ops : row'[o].orig = row[o].orig /\ (row'[o].phase # "none" <=> row[o].phase # "none")
    BY <1>2, <1>5
  <2> QED
    BY <1>2, <1>4, <2>1 DEF Origins
<1>13. Kept'
  <2> USE DEF Kept
  <2> TAKE o \in Ops
  <2> HAVE Live(o)' /\ row'[o].phase # "none"
  <2>1. o = op
    BY <1>6 DEF Live
  <2>2. Restored(op)' \/ Undoable(op)'
    BY <1>3, <1>5 DEF Restored, Undoable
  <2> QED
    BY <1>5, <2>1, <2>2 DEF Ended
<1>14. Whole'
  <2> USE DEF Whole
  <2> HAVE Calm'
  <2>1. Calm
    <3>1. faults' \in Nat
      OBVIOUS
    <3> QED
      BY <1>2, <3>1, CalmBefore
  <2>2. Live(op) /\ OrigIsOne(op)
    BY <1>2, <1>6, <2>1 DEF Whole, Calm
  <2>3. \A o \in Ops : Live(o)' => o = op
    BY <2>2 DEF Live
  <2> QED
    BY <1>5, <2>2, <2>3 DEF Live, OrigIsOne
<1> QED
  BY <1>7, <1>8, <1>9, <1>10, <1>11, <1>12, <1>13, <1>14 DEF IndInv

\* A step within the way forward or back that leaves the journal alone.
LEMMA MoveStep ==
    ASSUME IndInv, pc \in Active \ {"clean", "finish"}, pc' \in Active \ {"clean", "finish"},
           helper = "starting" => pc' \in InRecovery,
           UNCHANGED <<row, ledger, control, deferred, crashes, resolves>>,
           host' \in [S -> Trees \cup {Gone}], secrets' \in Versions, up' \subseteq C,
           kept' \in [Ops -> SUBSET S], staged' \in [Ops -> SUBSET S], slot' \in 0..(Slots + 1),
           faults' \in 0..MaxFaults, faults' >= faults,
           \A o \in Ops : o # op => kept'[o] = kept[o],
           \A s \in S : host'[s] \in {host[s], op, Gone, row[op].orig[s], Made(op)},
           Place', Swapped', RolledBack'
    PROVE  IndInv'
<1> USE DEF ledger, control
<1>1. /\ TypeOK /\ Journal /\ op \in Ops /\ row[op].phase \in Unresolved /\ row[op].phase \notin Ended
      /\ row[op].phase # "none" /\ pc \in Active
      /\ \A o \in todo : row[o].phase \in Unresolved \/ (o = op /\ pc = "settle")
  BY AtWork DEF Active, Stopping, Forward, Ahead, Back
<1>2. TypeOK'
  BY <1>1 DEF TypeOK, Active, Stopping, Forward, Ahead, Back
<1>3. pc' \notin Before \cup {"settle", "reply", "lifecycle", "debts"} /\ pc # "settle"
  BY DEF Before, Active, Stopping, Forward, Ahead, Back
<1>4. Journal'
  BY <1>1, <1>3 DEF Journal, Ended
<1> QED
  BY <1>1, <1>2, <1>3, <1>4, WorkStep

-----------------------------------------------------------------------------
(* The restore handler up to the last swap.                                *)

\* The handler returns and leaves the journal unresolved, or has finished.
LEMMA LeaveStep ==
    ASSUME IndInv, Serving, pc \in Active, pc' = "reply", answer' \in {"ok", "error"},
           answer' = "ok" => pc = "finish",
           staged' \in [Ops -> SUBSET S], faults' \in 0..MaxFaults, faults' >= faults,
           UNCHANGED <<host, kept, secrets, up, row, ledger, helper, op, todo, slot, deferred,
                       crashes, resolves>>
    PROVE  IndInv'
<1> USE DEF ledger
<1>1. /\ TypeOK /\ Journal /\ Swapped /\ Kept /\ op \in Ops /\ row[op].phase \in Unresolved
      /\ Live(op) /\ todo = {}
  BY AtWork DEF Serving, Active, Stopping, Forward, Ahead, Back
<1>2. Restored(op) \/ Undoable(op)
  BY <1>1, SafeAt DEF IndInv
<1>3. TypeOK'
  BY <1>1 DEF TypeOK
<1>4. Journal'
  BY <1>1 DEF Journal, Before, Active, Stopping, Forward, Ahead, Back
<1>5. Place'
  BY DEF Place, Ahead
<1>6. Swapped'
  BY <1>1 DEF Swapped, Stopping, Forward, Ahead, Done, Restored
<1>7. RolledBack'
  BY <1>1 DEF RolledBack, Back, Unresolved
<1>8. /\ Restored(op)' \/ Undoable(op)'
      /\ row'[op].phase \in Ended => Done(op)'
  BY <1>1, <1>2 DEF Restored, Undoable, Kept, Done, Unresolved
<1>9. row'[op].phase # "none" /\ helper # "starting"
  BY <1>1 DEF Unresolved, Serving
<1> QED
  BY <1>1, <1>3, <1>4, <1>5, <1>6, <1>7, <1>8, <1>9, WorkStep

\* The recorded components are written before anything is stopped.
LEMMA StepIntent == ASSUME IndInv, UpdateRuntimeIntent PROVE IndInv'
<1> USE DEF disk, ledger, control, bounds
<1>1. pc = "intent" /\ pc \in Active
  BY DEF UpdateRuntimeIntent, Active, Stopping
<1>2. /\ TypeOK /\ Journal /\ Swapped /\ op \in Ops /\ row \in [Ops -> Rows] /\ row[op] \in Rows
      /\ helper = "up" /\ todo = {}
  BY <1>1, AtWork DEF Serving, InRecovery, Forward, Ahead, Back
<1>3. PICK n : n = [row[op] EXCEPT !.phase = "swapping", !.running = up]
  OBVIOUS
<1>4. /\ n \in Rows /\ n.phase = "swapping" /\ n.orig = row[op].orig
      /\ n.origSecrets = row[op].origSecrets
  BY <1>2, <1>3 DEF Rows, Phases, TypeOK
<1>5. /\ row' = [row EXCEPT ![op] = n] /\ pc' = "quiesce"
      /\ UNCHANGED <<disk, secrets, up, ledger, control, slot, deferred, bounds>>
  BY <1>3 DEF UpdateRuntimeIntent, Recorded
<1>6. row' \in [Ops -> Rows] /\ row'[op] = n /\ \A q \in Ops : q # op => row'[q] = row[q]
  BY <1>2, <1>4, <1>5
<1>7. TypeOK'
  BY <1>2, <1>5, <1>6 DEF TypeOK, Rows
<1>8. Journal' /\ Place'
  BY <1>2, <1>4, <1>5, <1>6 DEF Journal, Place, Before, Active, Stopping, Ahead, Unresolved
<1>9. Undone(op)'
  BY <1>1, <1>2, <1>4, <1>5, <1>6 DEF Swapped, Stopping, Undone, OrigFrom
<1>10. Swapped' /\ RolledBack'
  BY <1>5, <1>9 DEF Swapped, RolledBack, Stopping, Forward, Ahead, Back
<1>11. faults' >= faults
  BY <1>2, <1>5 DEF TypeOK
<1> QED
  BY <1>1, <1>2, <1>4, <1>5, <1>6, <1>7, <1>8, <1>10, <1>11, WorkStep DEF Active, Stopping, Ended

\* The runtime intent is not recorded: the handler leaves before any stop.
LEMMA StepIntentFails == ASSUME IndInv, IntentFails PROVE IndInv'
<1> USE DEF ledger
<1>1. pc = "intent" /\ Fault /\ Leave("error", FALSE) /\ pc \in Active
  BY DEF IntentFails, Active, Stopping
<1>2. TypeOK /\ Serving
  BY <1>1, AtWork DEF InRecovery, Forward, Ahead, Back
<1>3. staged' \in [Ops -> SUBSET S]
  BY <1>1, <1>2 DEF Leave, TypeOK
<1> QED
  BY <1>1, <1>2, <1>3, Counted, LeaveStep DEF IntentFails, Leave

\* Recorded components stop; when none is left the swaps begin.
LEMMA StepQuiesce == ASSUME IndInv, Quiesce PROVE IndInv'
<1> USE DEF disk, ledger, control, bounds
<1>1. pc = "quiesce" /\ pc \in Active
  BY DEF Quiesce, Active, Stopping
<1>2. TypeOK /\ Swapped /\ op \in Ops /\ helper = "up" /\ 1 \in S
  BY <1>1, AtWork, AppRestoreBounds DEF Serving, InRecovery, Forward, Ahead, Back, S
<1>3. /\ (pc' = "out" /\ slot' = 1) \/ (pc' = "quiesce" /\ slot' = slot)
      /\ up' \subseteq C
      /\ UNCHANGED <<disk, secrets, row, ledger, control, deferred, bounds>>
  BY <1>1, <1>2 DEF Quiesce, TypeOK
<1>4. slot' \in 0..(Slots + 1) /\ faults' >= faults
  BY <1>2, <1>3, AppRestoreBounds DEF TypeOK
<1>5. Undone(op)'
  BY <1>1, <1>2, <1>3 DEF Swapped, Stopping, Undone, OrigFrom
<1>6. pc' = "out" => NewBelow(op, slot)' /\ OrigFrom(op, slot)'
  BY <1>3, <1>5 DEF NewBelow, Undone, OrigFrom, S
<1>7. Place' /\ Swapped' /\ RolledBack'
  BY <1>2, <1>3, <1>5, <1>6 DEF Place, Swapped, RolledBack, Stopping, Forward, Ahead, Back
<1> QED
  BY <1>1, <1>2, <1>3, <1>4, <1>7, MoveStep DEF Active, Stopping, TypeOK

\* A stop fails: what was stopped is resumed.
LEMMA StepQuiesceFails == ASSUME IndInv, QuiesceFails PROVE IndInv'
<1> USE DEF disk, ledger, control
<1>1. pc = "quiesce" /\ pc \in Active /\ Fault
  BY DEF QuiesceFails, Active, Stopping
<1>2. TypeOK /\ Swapped /\ op \in Ops /\ helper = "up"
  BY <1>1, AtWork DEF Serving, InRecovery, Forward, Ahead, Back
<1>3. /\ pc' = "requiesce" /\ up' \subseteq C
      /\ UNCHANGED <<disk, secrets, row, ledger, control, slot, deferred>>
  BY <1>2 DEF QuiesceFails, TypeOK
<1>4. Undone(op)'
  BY <1>1, <1>2, <1>3 DEF Swapped, Stopping, Undone, OrigFrom
<1>5. Place' /\ Swapped' /\ RolledBack'
  BY <1>3, <1>4 DEF Place, Swapped, RolledBack, Stopping, Forward, Ahead, Back
<1> QED
  BY <1>1, <1>2, <1>3, <1>5, Counted, MoveStep DEF Active, Stopping, TypeOK

\* What was stopped is resumed, then the handler leaves.
LEMMA StepRequiesce == ASSUME IndInv, Requiesce PROVE IndInv'
<1> USE DEF ledger, control
<1>1. pc = "requiesce" /\ pc \in Active
  BY DEF Requiesce, Active, Stopping
<1>2. TypeOK /\ Swapped /\ Origins /\ op \in Ops /\ row[op].phase # "none" /\ helper = "up"
  BY <1>1, AtWork DEF Serving, InRecovery, Forward, Ahead, Back
<1>3. UNCHANGED <<host, kept, secrets, row, ledger, helper, op, todo, slot, deferred>>
  <2>1. Mountable
    BY <1>1, <1>2 DEF Swapped, Stopping, Origins, Undone, OrigFrom, Mountable, S
  <2>2. host' = host
    BY <1>2, <2>1, MountIs DEF Requiesce, StartNext
  <2> QED
    BY <2>2 DEF Requiesce
<1>4. CASE ~AllResumed /\ StartNext /\ UNCHANGED <<pc, answer, staged, bounds>>
  <2>1. up' \subseteq C /\ faults' \in 0..MaxFaults /\ faults' >= faults
    BY <1>2, <1>4, StartTyped DEF bounds, TypeOK
  <2>2. Undone(op)'
    BY <1>1, <1>2, <1>3 DEF Swapped, Stopping, Undone, OrigFrom
  <2>3. Place' /\ Swapped' /\ RolledBack'
    BY <1>1, <1>4, <2>2 DEF Place, Swapped, RolledBack, Stopping, Forward, Ahead, Back
  <2> QED
    BY <1>1, <1>2, <1>3, <1>4, <2>1, <2>3, MoveStep DEF Active, Stopping, TypeOK, bounds
<1>5. CASE Leave("error", FALSE) /\ UNCHANGED up /\ (UNCHANGED bounds \/ Fault)
  <2>1. faults' \in 0..MaxFaults /\ faults' >= faults /\ UNCHANGED <<crashes, resolves>>
    BY <1>2, <1>5, Counted DEF bounds, TypeOK
  <2>2. staged' \in [Ops -> SUBSET S]
    BY <1>2, <1>5 DEF Leave, TypeOK
  <2> QED
    BY <1>1, <1>2, <1>3, <1>5, <2>1, <2>2, LeaveStep DEF Leave, Serving
<1> QED
  BY <1>4, <1>5 DEF Requiesce

\* A live tree goes under its rollback name.
LEMMA StepSwapOut == ASSUME IndInv, SwapOut PROVE IndInv'
<1> USE DEF ledger, control, bounds
<1>1. pc = "out" /\ pc \in Active
  BY DEF SwapOut, Active
<1>2. /\ TypeOK /\ Swapped /\ op \in Ops /\ helper = "up" /\ slot \in S
      /\ host \in [S -> Trees \cup {Gone}] /\ kept \in [Ops -> SUBSET S]
      /\ NewBelow(op, slot) /\ OrigFrom(op, slot)
  BY <1>1, AtWork DEF Serving, InRecovery, Forward, Ahead, Back, Place, Swapped, TypeOK
<1>3. /\ host' = [host EXCEPT ![slot] = Gone] /\ kept' = [kept EXCEPT ![op] = @ \cup {slot}]
      /\ pc' = "in" /\ UNCHANGED <<staged, secrets, up, row, ledger, control, slot, deferred, bounds>>
  BY DEF SwapOut, KeptAfterOut
<1>4. /\ host' \in [S -> Trees \cup {Gone}] /\ host'[slot] = Gone
      /\ \A s \in S : s # slot => host'[s] = host[s]
  BY <1>2, <1>3
<1>5. /\ kept' \in [Ops -> SUBSET S] /\ kept'[op] = kept[op] \cup {slot}
      /\ \A o \in Ops : o # op => kept'[o] = kept[o]
  BY <1>2, <1>3
<1>6. NewBelow(op, slot)' /\ OrigFrom(op, slot + 1)' /\ slot \in kept'[op]
  <2>1. \A s \in S : (s < slot => s # slot) /\ (s >= slot + 1 => s # slot /\ s >= slot)
    BY <1>2 DEF S
  <2> QED
    BY <1>2, <1>3, <1>4, <1>5, <2>1 DEF NewBelow, OrigFrom
<1>7. Place' /\ Swapped' /\ RolledBack'
  BY <1>2, <1>3, <1>6 DEF Place, Swapped, RolledBack, Stopping, Forward, Ahead, Back
<1>8. faults' >= faults
  BY <1>2, <1>3 DEF TypeOK
<1> QED
  BY <1>1, <1>2, <1>3, <1>4, <1>5, <1>7, <1>8, MoveStep DEF Active, TypeOK

\* The slots below the one the handler is at can be rolled back, and nothing else
\* needs to be.
LEMMA TurnBack ==
    ASSUME TypeOK, op \in Ops, slot \in 1..(Slots + 1), NewBelow(op, slot), OrigFrom(op, slot)
    PROVE  FitsBelow(op, slot) /\ Undoable(op)
BY DEF NewBelow, OrigFrom, FitsBelow, Fits, Undoable, S

\* The first rename fails: the handler turns back.
LEMMA StepSwapOutFails == ASSUME IndInv, SwapOutFails PROVE IndInv'
<1> USE DEF disk, ledger, control
<1>1. pc = "out" /\ pc \in Active /\ Fault
  BY DEF SwapOutFails, Active
<1>2. /\ TypeOK /\ op \in Ops /\ helper = "up" /\ slot \in S
      /\ NewBelow(op, slot) /\ OrigFrom(op, slot)
  BY <1>1, AtWork DEF Serving, InRecovery, Forward, Ahead, Back, Place, Swapped
<1>3. slot \in 1..(Slots + 1)
  BY <1>2, AppRestoreBounds DEF S
<1>4. FitsBelow(op, slot) /\ Undoable(op)
  BY <1>2, <1>3, TurnBack
<1>5. pc' = "rbStop" /\ UNCHANGED <<disk, secrets, up, row, ledger, control, slot, deferred>>
  BY DEF SwapOutFails
<1>6. FitsBelow(op, slot)' /\ OrigFrom(op, slot)' /\ Undoable(op)'
  BY <1>2, <1>4, <1>5 DEF FitsBelow, Fits, OrigFrom, Undoable
<1>7. Place' /\ Swapped'
  BY <1>3, <1>5 DEF Place, Swapped, Stopping, Forward, Ahead
<1>8. RolledBack'
  BY <1>1, <1>2, <1>5, <1>6, Counted DEF RolledBack
<1> QED
  BY <1>1, <1>2, <1>5, <1>7, <1>8, Counted, MoveStep DEF Active, Back, TypeOK

\* The staged tree takes the path.
LEMMA StepSwapIn == ASSUME IndInv, SwapIn PROVE IndInv'
<1> USE DEF ledger, control, bounds
<1>1. pc = "in" /\ pc \in Active
  BY DEF SwapIn, Active
<1>2. /\ TypeOK /\ op \in Ops /\ op \in Trees /\ helper = "up" /\ slot \in S
      /\ host \in [S -> Trees \cup {Gone}] /\ staged \in [Ops -> SUBSET S]
      /\ NewBelow(op, slot) /\ OrigFrom(op, slot + 1) /\ slot \in kept[op]
  BY <1>1, AtWork DEF Serving, InRecovery, Forward, Ahead, Back, Place, Swapped, TypeOK
<1>3. /\ host' = [host EXCEPT ![slot] = op] /\ staged' = [staged EXCEPT ![op] = @ \ {slot}]
      /\ slot' = slot + 1 /\ pc' = IF slot = Slots THEN "pending" ELSE "out"
      /\ UNCHANGED <<kept, secrets, up, row, ledger, control, deferred, bounds>>
  BY DEF SwapIn, NextSlot
<1>4. /\ host' \in [S -> Trees \cup {Gone}] /\ host'[slot] = op
      /\ \A s \in S : s # slot => host'[s] = host[s]
  BY <1>2, <1>3
<1>5. staged' \in [Ops -> SUBSET S]
  BY <1>2, <1>3
<1>6. /\ slot' \in 1..(Slots + 1) /\ slot' = slot + 1
      /\ slot # Slots => slot' \in S
      /\ slot = Slots => slot' = Slots + 1
      /\ \A s \in S : (s < slot + 1 => s < slot \/ s = slot) /\ (s >= slot + 1 => s # slot)
      /\ \A s \in S : s < Slots + 1
  BY <1>2, <1>3, AppRestoreBounds DEF S
<1>7. NewBelow(op, slot)' /\ OrigFrom(op, slot)'
  <2>1. \A s \in S : s < slot' => host'[s] = op /\ s \in kept[op]
    BY <1>2, <1>4, <1>6 DEF NewBelow
  <2>2. \A s \in S : s >= slot' => host'[s] = row[op].orig[s]
    BY <1>2, <1>4, <1>6 DEF OrigFrom
  <2> QED
    BY <1>3, <2>1, <2>2 DEF NewBelow, OrigFrom
<1>8. pc' = "pending" => Restored(op)' /\ NewBelow(op, Slots + 1)'
  <2>1. pc' = "pending" => slot' = Slots + 1
    BY <1>3, <1>6
  <2> QED
    BY <1>3, <1>6, <1>7, <2>1 DEF NewBelow, Restored
<1>9. Place'
  BY <1>3, <1>6 DEF Place, Ahead
<1>10. Swapped'
  BY <1>3, <1>7, <1>8 DEF Swapped, Stopping, Forward, Ahead
<1>11. RolledBack'
  BY <1>3 DEF RolledBack, Back
<1>12. faults' >= faults /\ slot' \in 0..(Slots + 1)
  BY <1>2, <1>3, <1>6, AppRestoreBounds DEF TypeOK
<1> QED
  BY <1>1, <1>2, <1>3, <1>4, <1>5, <1>9, <1>10, <1>11, <1>12, MoveStep
  DEF Active, Forward, Ahead, TypeOK

\* The second rename fails: the original is put back, or that fails too.
LEMMA StepSwapInFails == ASSUME IndInv, SwapInFails PROVE IndInv'
<1> USE DEF ledger, control
<1>1. pc = "in" /\ pc \in Active
  BY DEF SwapInFails, Active
<1>2. /\ TypeOK /\ op \in Ops /\ helper = "up" /\ slot \in S /\ row \in [Ops -> Rows]
      /\ host \in [S -> Trees \cup {Gone}] /\ kept \in [Ops -> SUBSET S]
      /\ NewBelow(op, slot) /\ OrigFrom(op, slot + 1) /\ slot \in kept[op]
  BY <1>1, AtWork DEF Serving, InRecovery, Forward, Ahead, Back, Place, Swapped, TypeOK
<1>3. pc' = "rbStop" /\ UNCHANGED <<staged, secrets, up, row, ledger, control, slot, deferred>>
  BY DEF SwapInFails
<1>4. slot \in 1..(Slots + 1) /\ \A s \in S : (s < slot => s # slot) /\ (s >= slot => s = slot \/ s >= slot + 1)
  BY <1>2, AppRestoreBounds DEF S
<1>5. Place' /\ Swapped'
  BY <1>3, <1>4 DEF Place, Swapped, Stopping, Forward, Ahead
<1>6. CASE /\ Fault /\ host' = [host EXCEPT ![slot] = row[op].orig[slot]]
           /\ kept' = [kept EXCEPT ![op] = @ \ {slot}]
  <2>1. row[op].orig[slot] \in Trees \cup {Gone}
    BY <1>2 DEF Rows
  <2>2. /\ host' \in [S -> Trees \cup {Gone}] /\ host'[slot] = row[op].orig[slot]
        /\ \A s \in S : s # slot => host'[s] = host[s]
    BY <1>2, <1>6, <2>1
  <2>3. /\ kept' \in [Ops -> SUBSET S] /\ kept'[op] = kept[op] \ {slot}
        /\ \A o \in Ops : o # op => kept'[o] = kept[o]
    BY <1>2, <1>6
  <2>4. FitsBelow(op, slot)' /\ OrigFrom(op, slot)' /\ Undoable(op)'
    <3>1. \A s \in S : s < slot => host'[s] = op /\ s \in kept'[op]
      BY <1>2, <1>4, <2>2, <2>3 DEF NewBelow
    <3>2. \A s \in S : s >= slot => host'[s] = row[op].orig[s]
      BY <1>2, <1>4, <2>2 DEF OrigFrom
    <3> QED
      BY <1>2, <1>3, <3>1, <3>2 DEF FitsBelow, Fits, OrigFrom, Undoable, S
  <2>5. RolledBack'
    BY <1>2, <1>3, <1>6, <2>4, Counted DEF RolledBack
  <2> QED
    BY <1>1, <1>2, <1>3, <1>5, <1>6, <2>2, <2>3, <2>5, Counted, MoveStep DEF Active, Back, TypeOK
<1>7. CASE faults + 2 <= MaxFaults /\ faults' = faults + 2 /\ UNCHANGED <<host, kept, crashes, resolves>>
  <2>1. faults \in Nat /\ MaxFaults \in Nat
    BY <1>2, AppRestoreBounds DEF TypeOK
  <2>2. faults' \in 0..MaxFaults /\ faults' > 0 /\ faults' >= faults /\ ~(faults' <= 1)
    BY <1>7, <2>1
  <2>3. Undoable(op)'
    <3>1. Undoable(op)
      BY <1>2, <1>4 DEF NewBelow, OrigFrom, Undoable, S
    <3> QED
      BY <1>3, <1>7, <3>1 DEF Undoable
  <2>4. RolledBack'
    BY <1>2, <1>3, <2>2, <2>3 DEF RolledBack
  <2> QED
    BY <1>1, <1>2, <1>3, <1>5, <1>7, <2>2, <2>4, MoveStep DEF Active, Back, TypeOK
<1> QED
  BY <1>6, <1>7 DEF SwapInFails

\* A rename happened and was not recorded: everything is left to recovery.
LEMMA StepUnconfirmed == ASSUME IndInv, Unconfirmed PROVE IndInv'
<1> USE DEF ledger
<1>1. Serving /\ Fault /\ Leave("error", TRUE) /\ pc \in Active
  BY DEF Unconfirmed, Active, Forward, Ahead
<1>2. TypeOK
  BY DEF IndInv
<1>3. staged' \in [Ops -> SUBSET S]
  BY <1>1, <1>2 DEF Leave, TypeOK
<1> QED
  BY <1>1, <1>2, <1>3, Counted, LeaveStep DEF Unconfirmed, Leave

-----------------------------------------------------------------------------
(* Forward.                                                                *)

\* All slots are swapped: the journal says that the runtime is next.
LEMMA StepRuntimePending == ASSUME IndInv, RuntimePending PROVE IndInv'
<1> USE DEF disk, ledger, control, bounds
<1>1. pc = "pending" /\ pc \in Active /\ pc # "settle"
  BY DEF RuntimePending, Active, Forward, Ahead
<1>2. /\ TypeOK /\ Journal /\ Place /\ Swapped /\ op \in Ops /\ "runtime_restore_pending" \in Phases
      /\ \A o \in todo : row[o].phase \in Unresolved \/ (o = op /\ pc = "settle")
  BY <1>1, AtWork DEF Phases
<1>3. /\ row' = [row EXCEPT ![op].phase = "runtime_restore_pending"] /\ pc' = "secrets"
      /\ UNCHANGED <<disk, secrets, up, ledger, control, slot, deferred, bounds>>
  BY DEF RuntimePending
<1>4. /\ row' \in [Ops -> Rows] /\ row'[op].phase = "runtime_restore_pending"
      /\ row'[op].orig = row[op].orig /\ row'[op].origSecrets = row[op].origSecrets
      /\ row'[op].running = row[op].running /\ \A q \in Ops : q # op => row'[q] = row[q]
  BY <1>2, <1>3, PhaseSet
<1>5. TypeOK'
  BY <1>2, <1>3, <1>4 DEF TypeOK, Rows
<1>6. Journal'
  <2>1. \A o \in todo : row'[o].phase \in Unresolved
    BY <1>1, <1>2, <1>4 DEF Unresolved, TypeOK
  <2> QED
    BY <1>2, <1>3, <1>4, <2>1 DEF Journal, Before, Unresolved
<1>7. Place'
  BY <1>1, <1>2, <1>3 DEF Place, Ahead
<1>8. Swapped'
  <2>1. Restored(op)' /\ (helper = "up" => NewBelow(op, Slots + 1)')
    BY <1>1, <1>2, <1>3 DEF Swapped, Forward, Ahead, Restored, NewBelow
  <2> QED
    BY <1>3, <2>1 DEF Swapped, Stopping
<1>9. RolledBack'
  BY <1>3 DEF RolledBack, Back
<1>10. /\ pc' \in Active /\ pc' \in InRecovery /\ pc' \notin {"settle", "reply"} /\ row'[op].phase # "none"
       /\ row'[op].phase \notin Ended
  BY <1>3, <1>4 DEF Active, InRecovery, Forward, Ahead, Ended
<1>11. faults' >= faults
  BY <1>2, <1>3 DEF TypeOK
<1> QED
  BY <1>1, <1>2, <1>3, <1>4, <1>5, <1>6, <1>7, <1>8, <1>9, <1>10, <1>11, WorkStep

\* The secrets of the archive replace the rows.
LEMMA StepReplaceSecrets == ASSUME IndInv, ReplaceSecrets PROVE IndInv'
<1> USE DEF disk, ledger, control, bounds
<1>1. pc = "secrets" /\ pc \in Active
  BY DEF ReplaceSecrets, Active, Forward, Ahead
<1>2. TypeOK /\ Place /\ Swapped /\ op \in Ops /\ op \in Versions
  BY <1>1, AtWork
<1>3. /\ secrets' = op /\ pc' = "resume"
      /\ UNCHANGED <<disk, up, row, ledger, control, slot, deferred, bounds>>
  BY DEF ReplaceSecrets, SecretsForward
<1>4. Place'
  BY <1>1, <1>2, <1>3 DEF Place, Ahead
<1>5. Swapped'
  <2>1. Restored(op)' /\ (helper = "up" => NewBelow(op, Slots + 1)')
    BY <1>1, <1>2, <1>3 DEF Swapped, Forward, Ahead, Restored, NewBelow
  <2> QED
    BY <1>3, <2>1 DEF Swapped, Stopping
<1>6. RolledBack'
  BY <1>3 DEF RolledBack, Back
<1>7. faults' >= faults
  BY <1>2, <1>3 DEF TypeOK
<1>8. pc' \in Active \ {"clean", "finish"} /\ pc' \in InRecovery
  BY <1>3 DEF Active, InRecovery, Forward, Ahead
<1> QED
  BY <1>1, <1>2, <1>3, <1>4, <1>5, <1>6, <1>7, <1>8, MoveStep DEF TypeOK

\* A restore that is in place has every path.
LEMMA ForwardMountable ==
    ASSUME Swapped, op \in Ops, pc \in Forward
    PROVE  Mountable
<1>1. op # Gone
  BY MadeIsNew
<1> QED
  BY <1>1 DEF Swapped, Restored, Mountable

\* The recorded components start one by one on the restored application.
LEMMA StepResume == ASSUME IndInv, Resume PROVE IndInv'
<1> USE DEF disk, ledger, control, bounds
<1>1. pc = "resume" /\ pc \in Active
  BY DEF Resume, Active, Forward, Ahead
<1>2. TypeOK /\ Place /\ Swapped /\ op \in Ops
  BY <1>1, AtWork
<1>3. /\ UNCHANGED <<disk, secrets, row, ledger, control, slot, deferred, bounds>>
      /\ \/ pc' = "commit" /\ up' = up /\ row[op].running \subseteq up
         \/ pc' = "resume" /\ StartNext /\ ~AllResumed
  <2>1. Mountable
    BY <1>1, <1>2, ForwardMountable DEF Forward, Ahead
  <2>2. host' = host
    BY <1>2, <2>1, MountIs DEF Resume, StartNext
  <2> QED
    BY <1>1, <2>2 DEF Resume, AllResumed
<1>4. up' \subseteq C
  BY <1>2, <1>3, StartTyped DEF TypeOK
<1>5. Place'
  BY <1>1, <1>2, <1>3 DEF Place, Ahead
<1>6. Swapped'
  <2>1. Restored(op)' /\ (helper = "up" => NewBelow(op, Slots + 1)') /\ secrets' = op
    BY <1>1, <1>2, <1>3 DEF Swapped, Forward, Ahead, Restored, NewBelow
  <2> QED
    BY <1>3, <2>1 DEF Swapped, Stopping
<1>7. RolledBack'
  BY <1>3 DEF RolledBack, Back
<1>8. faults' >= faults
  BY <1>2, <1>3 DEF TypeOK
<1>9. pc' \in Active \ {"clean", "finish"} /\ pc' \in InRecovery
  BY <1>3 DEF Active, InRecovery, Forward, Ahead
<1> QED
  BY <1>1, <1>2, <1>3, <1>4, <1>5, <1>6, <1>7, <1>8, <1>9, MoveStep DEF TypeOK

\* The secrets or a start fail: the handler turns back, recovery gives up.
LEMMA StepForwardFails == ASSUME IndInv, ForwardFails PROVE IndInv'
<1> USE DEF disk, ledger
<1>1. pc \in {"secrets", "resume"} /\ pc \in Active /\ pc \in InRecovery /\ pc \in Ahead /\ Fault
  BY DEF ForwardFails, Active, InRecovery, Forward, Ahead
<1>2. TypeOK /\ Place /\ Swapped /\ op \in Ops /\ (Serving \/ helper = "starting")
  BY <1>1, AtWork
<1>3. up' \subseteq C
  BY <1>2, StartTyped DEF ForwardFails, TypeOK
<1>4. UNCHANGED <<disk, secrets, ledger, helper, op, answer, slot, deferred>> /\ RollBackOrGiveUp
  <2>1. Mountable
    BY <1>1, <1>2, ForwardMountable DEF Forward
  <2>2. host' = host
    BY <1>2, <2>1, MountIs DEF ForwardFails, StartNext
  <2> QED
    BY <2>2 DEF ForwardFails
<1>5. CASE Serving
  <2>1. pc' = "rbStop" /\ UNCHANGED <<row, todo>>
    BY <1>4, <1>5 DEF RollBackOrGiveUp
  <2>2. slot = Slots + 1 /\ NewBelow(op, Slots + 1)
    BY <1>1, <1>2, <1>5 DEF Place, Swapped, Serving
  <2>3. slot \in 1..(Slots + 1) /\ \A s \in S : s < Slots + 1 /\ ~(s >= Slots + 1)
    BY <2>2, AppRestoreBounds DEF S
  <2>4. FitsBelow(op, slot)' /\ OrigFrom(op, slot)' /\ Undoable(op)'
    BY <1>4, <2>1, <2>2, <2>3 DEF NewBelow, FitsBelow, Fits, OrigFrom, Undoable
  <2>5. Place' /\ Swapped'
    BY <1>4, <2>1, <2>3 DEF Place, Swapped, Stopping, Forward, Ahead
  <2>6. RolledBack'
    BY <1>1, <1>2, <2>1, <2>4, Counted DEF RolledBack
  <2> QED
    BY <1>1, <1>2, <1>3, <1>4, <1>5, <2>1, <2>5, <2>6, Counted, MoveStep
    DEF Active, Back, TypeOK, control, Serving
<1>6. CASE ~Serving
  BY <1>1, <1>2, <1>3, <1>4, <1>6, Counted, GiveUpStep DEF RollBackOrGiveUp, TypeOK
<1> QED
  BY <1>5, <1>6

\* The restored application runs: the journal is committed.
LEMMA StepCommit == ASSUME IndInv, Commit PROVE IndInv'
<1> USE DEF disk, ledger, control, bounds
<1>1. pc = "commit" /\ pc \in Active /\ pc # "settle"
  BY DEF Commit, Active, Forward, Ahead
<1>2. /\ TypeOK /\ Journal /\ Swapped /\ op \in Ops /\ "committed" \in Phases /\ 1 \in S
      /\ \A o \in todo : row[o].phase \in Unresolved \/ (o = op /\ pc = "settle")
  BY <1>1, AtWork, AppRestoreBounds DEF Phases, S
<1>3. /\ row' = [row EXCEPT ![op].phase = "committed"] /\ pc' = "clean" /\ slot' = 1
      /\ deferred' = FALSE /\ UNCHANGED <<disk, secrets, up, ledger, control, bounds>>
  BY DEF Commit
<1>4. /\ row' \in [Ops -> Rows] /\ row'[op].phase = "committed"
      /\ row'[op].orig = row[op].orig /\ row'[op].origSecrets = row[op].origSecrets
      /\ row'[op].running = row[op].running /\ \A q \in Ops : q # op => row'[q] = row[q]
  BY <1>2, <1>3, PhaseSet
<1>5. TypeOK'
  <2>1. slot' \in 0..(Slots + 1)
    BY <1>3, AppRestoreBounds
  <2>2. deferred' \in BOOLEAN
    BY <1>3
  <2> QED
    BY <1>2, <1>3, <1>4, <2>1, <2>2 DEF TypeOK, Rows
<1>6. Journal'
  <2>1. \A o \in todo : row'[o].phase \in Unresolved
    BY <1>1, <1>2, <1>4 DEF Unresolved, TypeOK
  <2> QED
    BY <1>2, <1>3, <1>4, <2>1 DEF Journal, Before, Unresolved
<1>7. Place'
  BY <1>2, <1>3 DEF Place, Ahead
<1>8. Done(op)'
  BY <1>1, <1>2, <1>3, <1>4 DEF Swapped, Forward, Ahead, Restored, Done
<1>9. Swapped' /\ RolledBack'
  BY <1>3, <1>8 DEF Swapped, RolledBack, Stopping, Ahead, Back, Done
<1>10. pc' \in Active /\ pc' \in InRecovery /\ pc' \notin {"settle", "reply"} /\ row'[op].phase # "none"
  BY <1>3, <1>4 DEF Active, InRecovery, Forward
<1>11. faults' >= faults
  BY <1>2, <1>3 DEF TypeOK
<1> QED
  BY <1>1, <1>2, <1>3, <1>4, <1>5, <1>6, <1>7, <1>8, <1>9, <1>10, <1>11, WorkStep

\* A journal update fails: left to recovery, or given up by it.
LEMMA StepUpdateFails == ASSUME IndInv, UpdateFails PROVE IndInv'
<1> USE DEF ledger
<1>1. pc \in {"commit", "finish", "pending"} /\ pc \in Active /\ pc \in InRecovery /\ Fault
  BY DEF UpdateFails, Active, InRecovery, Forward, Ahead
<1>2. TypeOK /\ (Serving \/ helper = "starting")
  BY <1>1, AtWork
<1>3. UNCHANGED <<host, kept, secrets, up, ledger, helper, op, slot, deferred>>
  BY DEF UpdateFails
<1>4. CASE Serving
  <2>1. /\ pc' = "reply" /\ answer' = (IF pc = "finish" /\ deferred THEN "ok" ELSE "error")
        /\ UNCHANGED <<row, todo, staged>>
    BY <1>4 DEF UpdateFails, Leave
  <2>2. answer' \in {"ok", "error"} /\ (answer' = "ok" => pc = "finish")
    BY <2>1
  <2> QED
    BY <1>1, <1>2, <1>3, <1>4, <2>1, <2>2, Counted, LeaveStep DEF TypeOK
<1>5. CASE ~Serving
  BY <1>1, <1>2, <1>3, <1>5, Counted, GiveUpStep DEF UpdateFails, TypeOK, disk
<1> QED
  BY <1>4, <1>5

\* The rollback trees go after the commit.
LEMMA StepClean == ASSUME IndInv, Clean PROVE IndInv'
<1> USE DEF ledger, control
<1>1. pc = "clean" /\ pc \in Active /\ pc # "settle"
  BY DEF Clean, Active, Forward
<1>2. /\ TypeOK /\ Journal /\ Swapped /\ op \in Ops /\ slot \in S /\ kept \in [Ops -> SUBSET S]
      /\ row[op].phase \in Unresolved /\ row[op].phase # "none"
      /\ \A o \in todo : row[o].phase \in Unresolved \/ (o = op /\ pc = "settle")
  BY <1>1, AtWork DEF Place, TypeOK
<1>3. /\ slot' = slot + 1 /\ pc' = IF slot = Slots THEN "finish" ELSE "clean"
      /\ UNCHANGED <<host, staged, secrets, up, row, ledger, control>>
  BY DEF Clean, NextSlot
<1>4. \/ kept' = [kept EXCEPT ![op] = @ \ {slot}] /\ deferred' = deferred /\ UNCHANGED bounds
      \/ kept' = kept /\ deferred' = TRUE /\ Fault
  BY DEF Clean
<1>5. kept' \in [Ops -> SUBSET S] /\ \A o \in Ops : o # op => kept'[o] = kept[o]
  BY <1>2, <1>4
<1> deferred' \in BOOLEAN
  BY <1>2, <1>4 DEF TypeOK
<1>6. faults' \in 0..MaxFaults /\ faults' >= faults /\ UNCHANGED <<crashes, resolves>>
  BY <1>2, <1>4, Counted DEF bounds, TypeOK
<1>7. slot' \in 0..(Slots + 1) /\ (slot # Slots => slot' \in S)
  BY <1>2, <1>3, AppRestoreBounds DEF S
<1>8. TypeOK'
  BY <1>2, <1>3, <1>5, <1>6, <1>7 DEF TypeOK
<1>9. Journal'
  BY <1>1, <1>2, <1>3 DEF Journal, Before
<1>10. Place'
  BY <1>3, <1>7 DEF Place, Ahead
<1>11. Done(op)'
  BY <1>1, <1>2, <1>3 DEF Swapped, Forward, Restored, Done
<1>12. Swapped' /\ RolledBack'
  BY <1>3, <1>11 DEF Swapped, RolledBack, Stopping, Ahead, Back, Done
<1>13. pc' \in Active /\ pc' \in InRecovery /\ pc' \notin {"settle", "reply"}
  BY <1>3 DEF Active, InRecovery, Forward
<1> QED
  BY <1>1, <1>2, <1>3, <1>5, <1>6, <1>8, <1>9, <1>10, <1>11, <1>12, <1>13, WorkStep

\* The journal of a restore that is in place ends.
LEMMA StepFinish == ASSUME IndInv, Finish PROVE IndInv'
<1> USE DEF ledger, bounds
<1>1. pc = "finish" /\ pc \in Active /\ pc # "settle"
  BY DEF Finish, Active, Forward
<1>2. /\ TypeOK /\ Journal /\ Swapped /\ op \in Ops /\ EndPhase \in Phases
      /\ helper = "up" => todo = {}
      /\ helper = "up" \/ helper = "starting"
      /\ \A o \in todo : row[o].phase \in Unresolved \/ (o = op /\ pc = "settle")
  BY <1>1, AtWork DEF Phases, EndPhase, Serving
<1>3. /\ row' = [row EXCEPT ![op].phase = EndPhase] /\ answer' = "ok" /\ todo' = todo
      /\ UNCHANGED <<host, kept, secrets, up, ledger, helper, op, slot, deferred, bounds>>
      /\ pc' = IF helper = "up" THEN "reply" ELSE "settle"
  BY DEF Finish, Leave, Serving
<1>4. /\ row' \in [Ops -> Rows] /\ row'[op].phase = EndPhase
      /\ row'[op].orig = row[op].orig /\ row'[op].origSecrets = row[op].origSecrets
      /\ row'[op].running = row[op].running /\ \A q \in Ops : q # op => row'[q] = row[q]
  BY <1>2, <1>3, PhaseSet
<1>5. staged' \in [Ops -> SUBSET S]
  BY <1>2 DEF Finish, Leave, TypeOK
<1>6. TypeOK'
  BY <1>2, <1>3, <1>4, <1>5 DEF TypeOK, Rows
<1>7. row'[op].phase \notin {"none", "rolled_back"}
  BY <1>4 DEF EndPhase
<1>8. Journal'
  BY <1>1, <1>2, <1>3, <1>4, <1>7 DEF Journal, Before, Active, Stopping, Forward, Ahead, Back, TypeOK
<1>9. Place'
  BY <1>3 DEF Place, Ahead
<1>10. Done(op)'
  BY <1>1, <1>2, <1>3, <1>4 DEF Swapped, Forward, Restored, Done
<1>11. Swapped' /\ RolledBack'
  BY <1>3, <1>7, <1>10 DEF Swapped, RolledBack, Stopping, Forward, Ahead, Back
<1>12. pc' \in {"settle", "reply"} /\ (helper = "starting" => pc' \in InRecovery)
  BY <1>3 DEF InRecovery
<1>13. faults' >= faults /\ Restored(op)'
  BY <1>2, <1>3, <1>10 DEF TypeOK, Done
<1> QED
  BY <1>1, <1>2, <1>3, <1>4, <1>6, <1>7, <1>8, <1>9, <1>10, <1>11, <1>12, <1>13, WorkStep

-----------------------------------------------------------------------------
(* Rollback.                                                               *)

\* What the positions of the way back have in common.
LEMMA AtBack ==
    ASSUME IndInv, pc \in Back
    PROVE  /\ TypeOK /\ Place /\ Origins /\ RolledBack /\ op \in Ops /\ op # Gone /\ Undoable(op)
           /\ pc \in Active \ {"clean", "finish"} /\ row \in [Ops -> Rows]
           /\ host \in [S -> Trees \cup {Gone}] /\ kept \in [Ops -> SUBSET S]
           /\ helper = "up" \/ (helper = "starting" /\ pc \in InRecovery)
           /\ helper = "up" => faults > 0
           /\ \A s \in S : row[op].orig[s] # op /\ row[op].orig[s] # Gone
           /\ Slots \in Nat /\ faults >= faults
<1>1. pc \in Active \ {"clean", "finish"}
  BY DEF Back, Active
<1>2. /\ TypeOK /\ Place /\ Origins /\ RolledBack /\ op \in Ops /\ row[op].phase # "none"
      /\ row \in [Ops -> Rows] /\ (helper = "up" \/ (helper = "starting" /\ pc \in InRecovery))
  BY <1>1, AtWork DEF Serving
<1>3. op # Gone /\ Slots \in Nat
  BY <1>2, AppRestoreBounds DEF Gone, Ops
<1>4. faults >= faults
  BY <1>2 DEF TypeOK
<1>5. \A s \in S : row[op].orig[s] # op /\ row[op].orig[s] # Gone
  BY <1>2 DEF Origins
<1>6. Undoable(op) /\ (helper = "up" => faults > 0)
  BY <1>2 DEF RolledBack
<1> QED
  BY <1>1, <1>2, <1>3, <1>4, <1>5, <1>6 DEF TypeOK

\* A position of the way back says nothing about the way forward.
LEMMA BackOnly == ASSUME pc' \in Back PROVE Swapped'
BY DEF Back, Swapped, Stopping, Forward, Ahead

\* The application is stopped before its slots go back.
LEMMA StepRbStop == ASSUME IndInv, RbStop \/ RbStopFails PROVE IndInv'
<1> USE DEF disk, ledger, control
<1>1. pc = "rbStop" /\ pc \in Back
  BY DEF RbStop, RbStopFails, Back
<1>2. /\ TypeOK /\ RolledBack /\ op \in Ops /\ Undoable(op) /\ Slots \in Nat /\ faults >= faults
      /\ pc \in Active \ {"clean", "finish"} /\ helper = "up" /\ faults > 0 /\ slot \in 1..(Slots + 1)
  BY <1>1, AtBack DEF InRecovery, Place
<1>3. /\ slot' = slot - 1 /\ pc' = "rbAside" /\ up' \subseteq C
      /\ UNCHANGED <<disk, secrets, row, ledger, control, deferred>>
      /\ UNCHANGED bounds \/ Fault
  BY <1>2 DEF RbStop, RbStopFails, TypeOK
<1>4. slot' \in 0..Slots /\ slot' \in 0..(Slots + 1) /\ slot' + 1 = slot
  BY <1>2, <1>3
<1>5. /\ faults' \in 0..MaxFaults /\ faults' >= faults /\ UNCHANGED <<crashes, resolves>> /\ faults' > 0
      /\ faults' <= 1 => UNCHANGED faults
  BY <1>2, <1>3, Counted DEF bounds, TypeOK
<1>6. Undoable(op)'
  BY <1>2, <1>3 DEF Undoable
<1>7. faults' <= 1 => FitsBelow(op, slot + 1)' /\ OrigFrom(op, slot + 1)'
  BY <1>1, <1>2, <1>3, <1>4, <1>5 DEF RolledBack, FitsBelow, Fits, OrigFrom
<1>8. RolledBack'
  BY <1>2, <1>3, <1>5, <1>6, <1>7 DEF RolledBack
<1>9. Place' /\ Swapped' /\ pc' \in Active \ {"clean", "finish"}
  BY <1>3, <1>4, BackOnly DEF Place, Ahead, Back, Active
<1> QED
  BY <1>2, <1>3, <1>4, <1>5, <1>8, <1>9, MoveStep DEF TypeOK

\* A restored tree is moved aside: its original has the rollback name.
LEMMA StepRbAside == ASSUME IndInv, RbAside PROVE IndInv'
<1> USE DEF ledger, control, bounds
<1>1. pc = "rbAside" /\ pc \in Back
  BY DEF RbAside, Back
<1>2. /\ TypeOK /\ RolledBack /\ op \in Ops /\ op # Gone /\ Undoable(op) /\ Slots \in Nat /\ faults >= faults
      /\ pc \in Active \ {"clean", "finish"} /\ slot \in 0..Slots
      /\ host \in [S -> Trees \cup {Gone}]
      /\ helper = "up" => faults > 0
      /\ \A s \in S : row[op].orig[s] # op /\ row[op].orig[s] # Gone
  BY <1>1, AtBack DEF Place
<1>3. UNCHANGED <<staged, kept, secrets, up, row, ledger, control, slot, deferred, bounds>>
  BY DEF RbAside
<1>4. CASE slot = 0
  <2>1. pc' = "rbSecrets" /\ host' = host
    BY <1>4 DEF RbAside
  <2>2. Undoable(op)'
    BY <1>2, <1>3, <2>1 DEF Undoable
  <2>3. faults <= 1 \/ helper = "starting" => OrigFrom(op, 1)'
    BY <1>1, <1>2, <1>3, <1>4, <2>1 DEF RolledBack, OrigFrom
  <2>4. RolledBack'
    BY <1>2, <1>3, <2>1, <2>2, <2>3 DEF RolledBack
  <2>5. Place' /\ Swapped' /\ pc' \in Active \ {"clean", "finish"} /\ pc' \in InRecovery
    BY <2>1, BackOnly DEF Place, Ahead, Back, Active, InRecovery
  <2> QED
    BY <1>2, <1>3, <2>1, <2>4, <2>5, MoveStep DEF TypeOK
<1>5. CASE slot # 0
  <2>1. slot \in S
    BY <1>2, <1>5 DEF S
  <2>2. pc' = "rbBack" /\ host' = IF host[slot] = op THEN [host EXCEPT ![slot] = Gone] ELSE host
    BY <1>5 DEF RbAside
  <2>3. /\ host' \in [S -> Trees \cup {Gone}] /\ host'[slot] # op
        /\ host'[slot] = host[slot] \/ (host[slot] = op /\ host'[slot] = Gone)
        /\ \A s \in S : s # slot => host'[s] = host[s]
    BY <1>2, <2>1, <2>2
  <2>4. host[slot] = op => slot \in kept[op]
    BY <1>2, <2>1 DEF Undoable
  <2>5. Undoable(op)'
    BY <1>2, <1>3, <2>3, <2>4 DEF Undoable
  <2>6. ASSUME faults <= 1 \/ helper = "starting"
        PROVE  FitsBelow(op, slot + 1)' /\ OrigFrom(op, slot + 1)'
    <3>1. FitsBelow(op, slot + 1) /\ OrigFrom(op, slot + 1)
      BY <1>1, <1>2, <2>6 DEF RolledBack
    <3>2. \A s \in S : s >= slot + 1 => s # slot
      BY <2>1 DEF S
    <3>3. OrigFrom(op, slot + 1)'
      BY <1>3, <2>3, <3>1, <3>2 DEF OrigFrom
    <3>4. FitsBelow(op, slot + 1)'
      BY <1>3, <2>1, <2>3, <2>4, <3>1 DEF FitsBelow, Fits
    <3> QED
      BY <3>3, <3>4
  <2>7. RolledBack'
    BY <1>2, <1>3, <2>2, <2>3, <2>5, <2>6 DEF RolledBack
  <2>8. Place' /\ Swapped' /\ pc' \in Active \ {"clean", "finish"} /\ pc' \in InRecovery
    BY <1>3, <2>1, <2>2, BackOnly DEF Place, Ahead, Back, Active, InRecovery
  <2> QED
    BY <1>2, <1>3, <2>3, <2>7, <2>8, MoveStep DEF TypeOK
<1> QED
  BY <1>4, <1>5

\* The original comes back when its path is free.
LEMMA StepRbBack == ASSUME IndInv, RbBack PROVE IndInv'
<1> USE DEF ledger, control, bounds
<1>1. pc = "rbBack" /\ pc \in Back
  BY DEF RbBack, Back
<1>2. /\ TypeOK /\ RolledBack /\ op \in Ops /\ Undoable(op) /\ Slots \in Nat /\ faults >= faults
      /\ pc \in Active \ {"clean", "finish"} /\ slot \in S /\ row \in [Ops -> Rows]
      /\ host \in [S -> Trees \cup {Gone}] /\ kept \in [Ops -> SUBSET S]
      /\ staged \in [Ops -> SUBSET S]
      /\ helper = "up" => faults > 0
      /\ \A s \in S : row[op].orig[s] # op /\ row[op].orig[s] # Gone
  BY <1>1, AtBack DEF Place, TypeOK
<1>3. /\ UNCHANGED <<secrets, up, row, ledger, control, deferred, bounds>>
      /\ slot' = slot - 1 /\ pc' = "rbAside"
  BY DEF RbBack, NextBack
<1>4. slot' \in 0..Slots /\ slot' \in 0..(Slots + 1) /\ slot' + 1 = slot
  BY <1>2, <1>3 DEF S
<1>5. staged' \in [Ops -> SUBSET S]
  BY <1>2 DEF RbBack
<1>6. /\ host' \in [S -> Trees \cup {Gone}]
      /\ \A s \in S : s # slot => host'[s] = host[s]
      /\ host'[slot] = IF slot \in kept[op] /\ host[slot] = Gone THEN row[op].orig[slot] ELSE host[slot]
  <2>1. row[op].orig[slot] \in Trees \cup {Gone}
    BY <1>2 DEF Rows
  <2> QED
    BY <1>2, <2>1 DEF RbBack
<1>7. /\ kept' \in [Ops -> SUBSET S] /\ \A o \in Ops : o # op => kept'[o] = kept[o]
      /\ \A s \in S : s # slot => (s \in kept'[op] <=> s \in kept[op])
      /\ ~(slot \in kept[op] /\ host[slot] = Gone) => kept' = kept
  BY <1>2 DEF RbBack
<1>8. Undoable(op)'
  BY <1>2, <1>3, <1>6, <1>7 DEF Undoable
<1>9. ASSUME faults <= 1 \/ helper = "starting"
      PROVE  FitsBelow(op, slot + 1)' /\ OrigFrom(op, slot + 1)'
  <2>1. FitsBelow(op, slot + 1) /\ OrigFrom(op, slot + 1) /\ host[slot] # op
    BY <1>1, <1>2, <1>9 DEF RolledBack
  <2>2. Fits(op, slot)
    BY <1>2, <2>1 DEF FitsBelow, S
  <2>3. host'[slot] = row[op].orig[slot]
    BY <1>2, <1>6, <2>1, <2>2 DEF Fits
  <2>4. \A s \in S : (s < slot => s # slot /\ s < slot + 1) /\ (s >= slot => s = slot \/ s >= slot + 1)
    BY <1>2 DEF S
  <2>5. \A s \in S : s >= slot => host'[s] = row[op].orig[s]
    BY <1>6, <2>1, <2>3, <2>4 DEF OrigFrom
  <2>6. \A s \in S : s < slot => host'[s] = host[s] /\ (s \in kept'[op] <=> s \in kept[op]) /\ Fits(op, s)
    BY <1>6, <1>7, <2>1, <2>4 DEF FitsBelow
  <2> QED
    BY <1>3, <1>4, <2>5, <2>6 DEF FitsBelow, Fits, OrigFrom
<1>10. RolledBack'
  BY <1>2, <1>3, <1>8, <1>9 DEF RolledBack
<1>11. Place' /\ Swapped' /\ pc' \in Active \ {"clean", "finish"} /\ pc' \in InRecovery
  BY <1>3, <1>4, BackOnly DEF Place, Ahead, Back, Active, InRecovery
<1>12. \A s \in S : host'[s] \in {host[s], op, Gone, row[op].orig[s]}
  BY <1>6
<1> QED
  BY <1>2, <1>3, <1>4, <1>5, <1>6, <1>7, <1>10, <1>11, <1>12, MoveStep DEF TypeOK

\* A rename of the rollback fails: the handler drops the error, recovery gives up.
LEMMA StepRbRenameFails == ASSUME IndInv, RbRenameFails PROVE IndInv'
<1> USE DEF disk, ledger
<1>1. pc \in {"rbAside", "rbBack"} /\ pc \in Back /\ slot # 0 /\ Fault
  BY DEF RbRenameFails, Back
<1>2. /\ TypeOK /\ op \in Ops /\ Undoable(op) /\ Slots \in Nat
      /\ pc \in Active \ {"clean", "finish"} /\ slot \in S
      /\ helper = "up" \/ (helper = "starting" /\ pc \in InRecovery)
      /\ helper = "up" => faults > 0
  BY <1>1, AtBack DEF Place, S
<1>3. UNCHANGED <<disk, secrets, up, ledger, helper, op, answer, deferred>>
  BY DEF RbRenameFails
<1>4. CASE Serving
  <2>1. /\ UNCHANGED <<row, todo>>
        /\ (pc' = "rbBack" /\ slot' = slot) \/ (pc' = "rbAside" /\ slot' = slot - 1)
    BY <1>4 DEF RbRenameFails
  <2>2. slot' \in 0..(Slots + 1) /\ slot' \in 0..Slots /\ (pc' = "rbBack" => slot' \in S)
    BY <1>2, <2>1 DEF S
  <2>3. Undoable(op)'
    BY <1>2, <1>3, <2>1 DEF Undoable
  <2>4. ~(faults' <= 1) /\ faults' > 0 /\ helper = "up"
    BY <1>1, <1>2, <1>4, Counted DEF Serving
  <2>5. RolledBack'
    BY <1>3, <2>1, <2>3, <2>4 DEF RolledBack
  <2>6. Place' /\ Swapped' /\ pc' \in Active \ {"clean", "finish"}
    BY <2>1, <2>2, BackOnly DEF Place, Ahead, Back, Active
  <2> QED
    BY <1>1, <1>2, <1>3, <2>1, <2>2, <2>4, <2>5, <2>6, Counted, MoveStep DEF TypeOK, control
<1>5. CASE ~Serving
  BY <1>1, <1>2, <1>3, <1>5, Counted, GiveUpStep DEF RbRenameFails, TypeOK, Serving
<1> QED
  BY <1>4, <1>5

\* The secrets come back.
LEMMA StepRbSecrets == ASSUME IndInv, RbSecrets PROVE IndInv'
<1> USE DEF disk, ledger, control, bounds
<1>1. pc = "rbSecrets" /\ pc \in Back
  BY DEF RbSecrets, Back
<1>2. /\ TypeOK /\ RolledBack /\ op \in Ops /\ Undoable(op) /\ faults >= faults
      /\ pc \in Active \ {"clean", "finish"} /\ row \in [Ops -> Rows]
      /\ helper = "up" => faults > 0
  BY <1>1, AtBack
<1>3. /\ secrets' = row[op].origSecrets /\ pc' = "rbResume"
      /\ UNCHANGED <<disk, up, row, ledger, control, slot, deferred, bounds>>
  BY DEF RbSecrets
<1>4. secrets' \in Versions
  BY <1>2, <1>3 DEF Rows
<1>5. Undoable(op)'
  BY <1>2, <1>3 DEF Undoable
<1>6. faults <= 1 \/ helper = "starting" => Undone(op)'
  BY <1>1, <1>2, <1>3 DEF RolledBack, OrigFrom, Undone
<1>7. RolledBack'
  BY <1>2, <1>3, <1>5, <1>6 DEF RolledBack
<1>8. Place' /\ Swapped' /\ pc' \in Active \ {"clean", "finish"} /\ pc' \in InRecovery
  BY <1>3, BackOnly DEF Place, Ahead, Back, Active, InRecovery
<1> QED
  BY <1>2, <1>3, <1>4, <1>7, <1>8, MoveStep DEF TypeOK

\* A rollback that went exactly has mountable slots.
LEMMA BackMountable ==
    ASSUME op \in Ops, Undone(op), \A s \in S : row[op].orig[s] # Gone
    PROVE  Mountable
BY DEF Undone, OrigFrom, Mountable, S

\* A start on the way back makes a tree only where the original has its rollback
\* name, and none where the rollback went exactly.
LEMMA BackMount ==
    ASSUME TypeOK, op \in Ops, pc = "rbResume", RolledBack, Undoable(op),
           \A s \in S : row[op].orig[s] # Gone, Mount \/ UNCHANGED host, UNCHANGED <<kept, row, op>>
    PROVE  /\ host' \in [S -> Trees \cup {Gone}] /\ Undoable(op)'
           /\ \A s \in S : host'[s] \in {host[s], Made(op)}
           /\ faults <= 1 \/ helper = "starting" => host' = host
<1>1. /\ host' \in [S -> Trees \cup {Gone}]
      /\ \A s \in S : host'[s] = host[s] \/ (host[s] = Gone /\ host'[s] = Made(op))
      /\ Mountable => host' = host
  BY MountIs DEF TypeOK
<1>2. Undoable(op)'
  BY <1>1 DEF Undoable
<1>3. faults <= 1 \/ helper = "starting" => Mountable
  BY BackMountable DEF RolledBack
<1> QED
  BY <1>1, <1>2, <1>3

\* The recorded components start again on what was there before.
LEMMA StepRbResume == ASSUME IndInv, RbResume PROVE IndInv'
<1> USE DEF disk, ledger, control, bounds
<1>1. pc = "rbResume" /\ pc \in Back
  BY DEF RbResume, Back
<1>2. /\ TypeOK /\ RolledBack /\ op \in Ops /\ Undoable(op) /\ faults >= faults
      /\ pc \in Active \ {"clean", "finish"}
      /\ helper = "up" => faults > 0
      /\ \A s \in S : row[op].orig[s] # Gone
  BY <1>1, AtBack
<1>3. /\ UNCHANGED <<staged, kept, secrets, row, ledger, control, slot, deferred, bounds>>
      /\ Mount \/ UNCHANGED host
      /\ \/ pc' = "rbMark" /\ up' = up /\ row[op].running \subseteq up
         \/ pc' = "rbResume" /\ StartNext /\ ~AllResumed
  BY <1>1 DEF RbResume, AllResumed, StartNext
<1>4. up' \subseteq C
  BY <1>2, <1>3, StartTyped DEF TypeOK
<1>5. /\ host' \in [S -> Trees \cup {Gone}] /\ Undoable(op)'
      /\ \A s \in S : host'[s] \in {host[s], Made(op)}
      /\ faults <= 1 \/ helper = "starting" => host' = host
  BY <1>1, <1>2, <1>3, BackMount
<1>6. faults <= 1 \/ helper = "starting" => Undone(op)'
  BY <1>1, <1>2, <1>3, <1>5 DEF RolledBack, OrigFrom, Undone
<1>7. RolledBack'
  BY <1>2, <1>3, <1>5, <1>6 DEF RolledBack
<1>8. Place' /\ Swapped' /\ pc' \in Active \ {"clean", "finish"} /\ pc' \in InRecovery
  BY <1>3, BackOnly DEF Place, Ahead, Back, Active, InRecovery
<1> QED
  BY <1>2, <1>3, <1>4, <1>5, <1>7, <1>8, MoveStep DEF TypeOK

\* A later call of the rollback fails: the handler goes on, recovery gives up.
LEMMA StepRbFails == ASSUME IndInv, RbFails PROVE IndInv'
<1> USE DEF disk, ledger
<1>1. pc \in {"rbSecrets", "rbResume", "rbMark"} /\ pc \in Back
  BY DEF RbFails, Back
<1>2. /\ TypeOK /\ RolledBack /\ op \in Ops /\ Undoable(op) /\ Slots \in Nat
      /\ pc \in Active \ {"clean", "finish"}
      /\ helper = "up" \/ (helper = "starting" /\ pc \in InRecovery)
      /\ helper = "up" => faults > 0
      /\ \A s \in S : row[op].orig[s] # Gone
  BY <1>1, AtBack
<1>3. UNCHANGED <<kept, secrets, ledger, helper, op, slot, deferred>> /\ up' \subseteq C
  BY <1>2, StartTyped DEF RbFails, TypeOK
<1>9. /\ host' \in [S -> Trees \cup {Gone}]
      /\ pc # "rbResume" => host' = host
      /\ row' = row => Undoable(op)'
      /\ \A s \in S : host'[s] \in {host[s], Made(op)}
      /\ helper = "starting" => host' = host
  <2>1. (pc = "rbResume" /\ Mount) \/ UNCHANGED host
    BY DEF RbFails, StartNext
  <2>2. CASE UNCHANGED host
    BY <1>2, <1>3, <2>2 DEF TypeOK, Undoable
  <2>3. CASE pc = "rbResume" /\ Mount
    <3>1. /\ host' \in [S -> Trees \cup {Gone}]
          /\ \A s \in S : host'[s] = host[s] \/ (host[s] = Gone /\ host'[s] = Made(op))
          /\ Mountable => host' = host
      BY <1>2, <2>3, MountIs
    <3>2. helper = "starting" => Mountable
      BY <1>2, <2>3, BackMountable DEF RolledBack
    <3>3. row' = row => Undoable(op)'
      BY <1>2, <1>3, <3>1 DEF Undoable
    <3> QED
      BY <2>3, <3>1, <3>2, <3>3
  <2> QED
    BY <2>1, <2>2, <2>3
<1>4. /\ faults' \in 0..MaxFaults /\ faults' >= faults /\ UNCHANGED <<crashes, resolves>>
      /\ helper = "up" => ~(faults' <= 1) /\ faults' > 0
  <2>1. CASE Fault
    BY <1>2, <2>1, Counted
  <2>2. CASE pc = "rbResume" /\ ~Mountable /\ UNCHANGED bounds
    <3>1. ~(faults <= 1 \/ helper = "starting")
      BY <1>2, <2>2, BackMountable DEF RolledBack
    <3> QED
      BY <1>2, <2>2, <3>1 DEF bounds, TypeOK
  <2> QED
    BY <2>1, <2>2 DEF RbFails
<1>5. CASE Serving /\ pc = "rbMark"
  <2>1. Leave("error", FALSE) /\ UNCHANGED <<up, row, todo>>
    BY <1>5 DEF RbFails
  <2>2. staged' \in [Ops -> SUBSET S]
    BY <1>2, <2>1 DEF Leave, TypeOK
  <2> QED
    BY <1>2, <1>3, <1>9, <1>4, <1>5, <2>1, <2>2, LeaveStep DEF Leave
<1>6. CASE Serving /\ pc # "rbMark"
  <2>1. pc' \in {"rbResume", "rbMark"} /\ UNCHANGED <<answer, staged, row, todo>> /\ helper = "up"
    BY <1>6 DEF RbFails, Serving
  <2>2. Undoable(op)'
    BY <1>9, <2>1
  <2>3. RolledBack'
    BY <1>3, <1>4, <2>1, <2>2 DEF RolledBack
  <2>4. Place' /\ Swapped' /\ pc' \in Active \ {"clean", "finish"}
    BY <2>1, BackOnly DEF Place, Ahead, Back, Active
  <2> QED
    BY <1>2, <1>3, <1>9, <1>4, <2>1, <2>3, <2>4, MoveStep DEF TypeOK, control
<1>7. CASE ~Serving
  BY <1>2, <1>3, <1>9, <1>4, <1>7, GiveUpStep DEF RbFails, TypeOK, Serving
<1> QED
  BY <1>5, <1>6, <1>7

\* The rollback is written to the journal.
LEMMA StepRbMark == ASSUME IndInv, RbMark PROVE IndInv'
<1> USE DEF ledger, bounds
<1>1. pc = "rbMark" /\ pc \in Back /\ pc \in Active /\ pc # "settle"
  BY DEF RbMark, Back, Active
<1>2. /\ TypeOK /\ Journal /\ RolledBack /\ op \in Ops /\ Undoable(op) /\ faults >= faults
      /\ helper = "up" => todo = {} /\ faults > 0
      /\ helper = "up" \/ helper = "starting"
      /\ "rolled_back" \in Phases
      /\ \A o \in todo : row[o].phase \in Unresolved \/ (o = op /\ pc = "settle")
  BY <1>1, AtBack, AtWork DEF Phases
<1>3. /\ row' = [row EXCEPT ![op].phase = "rolled_back"] /\ answer' = "error"
      /\ UNCHANGED <<host, kept, secrets, up, ledger, helper, op, todo, slot, deferred, bounds>>
      /\ pc' = IF helper = "up" THEN "reply" ELSE "settle"
  BY DEF RbMark, Leave, Serving
<1>4. /\ row' \in [Ops -> Rows] /\ row'[op].phase = "rolled_back"
      /\ row'[op].orig = row[op].orig /\ row'[op].origSecrets = row[op].origSecrets
      /\ row'[op].running = row[op].running /\ \A q \in Ops : q # op => row'[q] = row[q]
  BY <1>2, <1>3, PhaseSet
<1>5. staged' \in [Ops -> SUBSET S]
  BY <1>2 DEF RbMark, Leave, TypeOK
<1>6. TypeOK'
  BY <1>2, <1>3, <1>4, <1>5 DEF TypeOK, Rows
<1>7. Journal'
  BY <1>1, <1>2, <1>3, <1>4 DEF Journal, Before, Active, Stopping, Forward, Ahead, Back, TypeOK
<1>8. Place' /\ Swapped'
  BY <1>3 DEF Place, Swapped, Stopping, Forward, Ahead
<1>9. Undoable(op)'
  BY <1>2, <1>3, <1>4 DEF Undoable
<1>10. faults <= 1 \/ helper = "starting" => Undone(op)' /\ row'[op].running \subseteq up'
  BY <1>1, <1>2, <1>3, <1>4 DEF RolledBack, Undone, OrigFrom
<1>11. RolledBack'
  BY <1>3, <1>10 DEF RolledBack, Back
<1>12. /\ pc' \in {"settle", "reply"} /\ (helper = "starting" => pc' \in InRecovery)
       /\ row'[op].phase # "none" /\ row'[op].phase \notin Ended
  BY <1>3, <1>4 DEF InRecovery, Ended
<1> QED
  BY <1>1, <1>2, <1>3, <1>4, <1>6, <1>7, <1>8, <1>9, <1>11, <1>12, WorkStep

-----------------------------------------------------------------------------
(* Before the journal, and the ends of an operation.                       *)

\* The worker of an operation that has no journal touches no secret, and a tree
\* only where a path is missing.
LEMMA BeforeStep ==
    ASSUME IndInv, pc \in Before, pc' \in {"journal", "reply"}, pc' = "journal" => Mountable,
           answer' \in {"ok", "error"}, pc' = "reply" /\ answer' = "ok" => pc = "lifecycle",
           staged' \in [Ops -> SUBSET S], up' \subseteq C,
           UNCHANGED host \/ (Mount /\ pc' = "reply"),
           UNCHANGED <<kept, secrets, row, ledger, helper, op, todo, slot, deferred, bounds>>
    PROVE  IndInv'
<1> USE DEF ledger, bounds
<1>1. /\ TypeOK /\ Ledger /\ Worker /\ Journal /\ Origins /\ Kept /\ Whole
      /\ pc \notin {"idle", "debts"} /\ pc \notin InRecovery
  BY DEF IndInv, Before, InRecovery, Forward, Ahead, Back
<1>2. /\ helper = "up" /\ op \in Ops /\ lease = [op |-> op, state |-> "held"] /\ row[op].phase = "none"
      /\ receipt[op] = "running"
  BY <1>1 DEF TypeOK, Worker, Journal
<1>11. /\ host' \in [S -> Trees \cup {Gone}]
       /\ \A s \in S : host'[s] = host[s] \/ host'[s] = Made(op)
       /\ Mountable => host' = host
  BY <1>1, <1>2, MountIs DEF TypeOK
<1>3. TypeOK'
  BY <1>1, <1>11 DEF TypeOK
<1>4. Ledger' /\ Worker'
  BY <1>1, <1>2 DEF Ledger, Worker, HasRecoveryLease
<1>5. Journal'
  BY <1>1, <1>2 DEF Journal, Before, Active, Stopping, Forward, Ahead, Back
<1>6. Place' /\ RolledBack'
  BY <1>2 DEF Place, RolledBack, Ahead, Back
<1>7. Origins'
  <2>1. Made(op) \notin Ops
    BY <1>2, MadeIsNew
  <2>2. \A p \in Ops, s \in S : host'[s] = p => row'[p].phase # "none"
    BY <1>1, <1>11, <2>1 DEF Origins
  <2>3. pc' = "journal" => Mountable'
    BY DEF Mountable
  <2> QED
    BY <1>1, <2>2, <2>3 DEF Origins
<1>8. Swapped'
  BY <1>1, <1>2 DEF Swapped, Journal, Stopping, Forward, Ahead
<1>9. Kept'
  BY <1>1, <1>2 DEF Kept, Live
<1>10. Whole'
  <2> USE DEF Whole
  <2> HAVE Calm'
  <2>1. Calm /\ Live(op) /\ One
    BY <1>1, <1>2 DEF Whole, Calm, Live
  <2>2. Mountable
    BY <1>1, <2>1, AppRestoreBounds DEF One, Mountable, TypeOK, Versions, Gone
  <2>3. One' /\ lease'.state # "released"
    BY <1>2, <1>11, <2>1, <2>2 DEF One
  <2>4. \A o \in Ops : Live(o)' => o = op
    BY <1>2 DEF Live
  <2> QED
    BY <1>2, <2>3, <2>4
<1> QED
  BY <1>3, <1>4, <1>5, <1>6, <1>7, <1>8, <1>9, <1>10 DEF IndInv

\* A start, a stop or a repair.
LEMMA StepLifecycle == ASSUME IndInv, Lifecycle PROVE IndInv'
<1>1. /\ pc = "lifecycle" /\ pc' = "reply" /\ answer' \in {"ok", "error"}
      /\ UNCHANGED <<staged, kept, secrets, row, ledger, helper, op, todo, slot, deferred, bounds>>
      /\ UNCHANGED host \/ Mount
  BY DEF Lifecycle
<1>2. TypeOK
  BY DEF IndInv
<1>3. up' \subseteq C
  BY <1>2 DEF Lifecycle, TypeOK
<1> QED
  BY <1>1, <1>2, <1>3, BeforeStep DEF Before, TypeOK

\* The archive is extracted beside the live trees.
LEMMA StepPrepare == ASSUME IndInv, Prepare PROVE IndInv'
<1>1. /\ pc = "prepare" /\ pc' = "journal" /\ Mountable /\ staged' = [staged EXCEPT ![op] = S]
      /\ UNCHANGED <<host, kept, secrets, up, row, ledger, control, slot, deferred, bounds>>
  BY DEF Prepare
<1>2. TypeOK
  BY DEF IndInv
<1>3. staged' \in [Ops -> SUBSET S] /\ answer' \in {"ok", "error"} /\ up' \subseteq C
  BY <1>1, <1>2 DEF TypeOK, control
<1> QED
  BY <1>1, <1>3, BeforeStep DEF Before, control

\* An archive that cannot be staged is refused.
LEMMA StepPrepareFails == ASSUME IndInv, PrepareFails PROVE IndInv'
<1>1. /\ pc \in {"prepare", "journal"} /\ pc' = "reply" /\ answer' = "error"
      /\ UNCHANGED <<host, kept, secrets, up, row, ledger, helper, op, todo, slot, deferred, bounds>>
  BY DEF PrepareFails, Leave
<1>2. TypeOK /\ Slots \in Nat
  BY AppRestoreBounds DEF IndInv
<1>3. \A copied \in 0..Slots : 1..copied \subseteq S
  BY <1>2 DEF S
<1>4. \E T \in SUBSET S : staged' = [staged EXCEPT ![op] = T]
  <2>1. {} \in SUBSET S
    OBVIOUS
  <2>2. \A copied \in 0..Slots : 1..copied \in SUBSET S
    BY <1>3
  <2> QED
    BY <2>1, <2>2 DEF PrepareFails, Leave
<1>5. staged' \in [Ops -> SUBSET S]
  BY <1>2, <1>4 DEF TypeOK
<1> QED
  BY <1>1, <1>2, <1>5, BeforeStep DEF Before, TypeOK

\* The journal names the trees and the secrets of this moment.
LEMMA StepJournal == ASSUME IndInv, BeginRestoreJournal PROVE IndInv'
<1> USE DEF disk, ledger, control, bounds
<1>1. /\ TypeOK /\ Ledger /\ Worker /\ Journal /\ Origins /\ Kept /\ Whole /\ pc = "journal"
      /\ pc \notin InRecovery
  BY DEF IndInv, BeginRestoreJournal, InRecovery, Forward, Ahead, Back
<1>2. /\ helper = "up" /\ op \in Ops /\ lease = [op |-> op, state |-> "held"] /\ row[op].phase = "none"
      /\ receipt[op] = "running" /\ Mountable /\ todo = {}
  BY <1>1 DEF TypeOK, Worker, Journal, Before, Origins
<1>3. PICK n : n = [phase |-> "staged", running |-> {}, orig |-> host, origSecrets |-> secrets]
  OBVIOUS
<1>4. n \in Rows /\ n.phase = "staged" /\ n.orig = host /\ n.origSecrets = secrets
  BY <1>1, <1>3 DEF TypeOK, Rows, Phases
<1>5. /\ row' = [row EXCEPT ![op] = n] /\ pc' = "intent"
      /\ UNCHANGED <<disk, secrets, up, ledger, control, slot, deferred, bounds>>
  BY <1>3 DEF BeginRestoreJournal
<1>6. row \in [Ops -> Rows]
  BY <1>1 DEF TypeOK, Rows
<1>7. row' \in [Ops -> Rows] /\ row'[op] = n /\ \A q \in Ops : q # op => row'[q] = row[q]
  BY <1>2, <1>4, <1>5, <1>6
<1>8. TypeOK'
  BY <1>1, <1>5, <1>7 DEF TypeOK, Rows
<1>9. Ledger' /\ Worker'
  BY <1>1, <1>2, <1>5, <1>7 DEF Ledger, Worker, HasRecoveryLease
<1>10. Journal' /\ Place'
  BY <1>2, <1>4, <1>5, <1>7 DEF Journal, Place, Before, Ahead, Unresolved
<1>11. Undone(op)' /\ Undoable(op)' /\ OrigIsOne(op)' = One
  BY <1>4, <1>5, <1>7 DEF Undone, OrigFrom, Undoable, OrigIsOne, One
<1>12. Swapped' /\ RolledBack'
  BY <1>5, <1>11 DEF Swapped, RolledBack, Forward, Ahead, Back
<1>13. Origins'
  <2>1. \A o \in Ops : row[o].phase # "none" => row'[o].phase # "none" /\ o # op /\ row'[o] = row[o]
    BY <1>2, <1>7
  <2>2. \A s \in S : host[s] # op /\ host[s] # Gone
    BY <1>1, <1>2 DEF Origins, Mountable
  <2>3. \A s \in S, p \in Ops : host'[s] = p => row'[p].phase # "none"
    BY <1>1, <1>5, <2>1 DEF Origins
  <2>4. ASSUME NEW o \in Ops, NEW s \in S, row'[o].phase # "none"
        PROVE  /\ row'[o].orig[s] # o /\ row'[o].orig[s] # Gone
               /\ \A p \in Ops : row'[o].orig[s] = p => row'[p].phase # "none"
    <3>1. CASE o = op
      BY <1>4, <1>5, <1>7, <2>2, <2>3, <3>1
    <3>2. CASE o # op
      BY <1>1, <1>7, <2>1, <2>4, <3>2 DEF Origins
    <3> QED
      BY <3>1, <3>2
  <2> QED
    BY <1>5, <2>3, <2>4 DEF Origins
<1>14. Kept'
  <2>1. row'[op].phase \notin Ended
    BY <1>4, <1>7 DEF Ended
  <2>2. \A o \in Ops : Live(o)' => o = op
    BY <1>2, <1>5 DEF Live
  <2> QED
    BY <1>5, <1>11, <2>1, <2>2 DEF Kept
<1>15. Whole'
  <2>1. \A o \in Ops : Live(o)' => o = op
    BY <1>2, <1>5 DEF Live
  <2>2. Live(op) /\ lease'.state # "released" /\ (Calm' => Calm)
    BY <1>2, <1>5 DEF Live, Calm
  <2>3. row'[op].phase # "none" /\ op' = op
    BY <1>4, <1>5, <1>7
  <2> QED
    BY <1>1, <1>2, <1>11, <2>1, <2>2, <2>3 DEF Whole
<1> QED
  BY <1>8, <1>9, <1>10, <1>12, <1>13, <1>14, <1>15 DEF IndInv

\* What a step that leaves disk, secrets and journals alone keeps of a position at
\* which nobody works.
LEMMA IdleStep ==
    ASSUME Origins, pc' \in {"idle", "unsaved", "debts"}, UNCHANGED <<host, row>>
    PROVE  Place' /\ Swapped' /\ RolledBack' /\ Origins'
BY DEF Place, Swapped, RolledBack, Origins, Stopping, Forward, Ahead, Back

\* The handler's answer goes to the ledger, with the lease released or kept for
\* recovery.
LEMMA StepReply == ASSUME IndInv, Reply PROVE IndInv'
<1> USE DEF disk, control, bounds
<1>1. /\ TypeOK /\ Ledger /\ Worker /\ Journal /\ Origins /\ Swapped /\ RolledBack /\ Kept /\ Whole
      /\ pc = "reply" /\ pc \notin InRecovery
  BY DEF IndInv, Reply, InRecovery, Forward, Ahead, Back
<1>2. /\ helper = "up" /\ op \in Ops /\ lease = [op |-> op, state |-> "held"] /\ receipt[op] = "running"
      /\ todo = {} /\ receipt \in [Ops -> {"none", "running", "succeeded", "failed",
                                           "action_required", "superseded"}]
  BY <1>1 DEF TypeOK, Worker, Journal
<1>3. /\ pc' = "idle"
      /\ UNCHANGED <<disk, secrets, up, row, kind, asked, control, slot, deferred, bounds>>
  BY DEF Reply
<1>4. Place' /\ Swapped' /\ RolledBack' /\ Origins'
  BY <1>1, <1>3, IdleStep
<1>5. Journal'
  BY <1>2, <1>3 DEF Journal, Before, Active, Stopping, Forward, Ahead, Back
<1>6. \A o \in Ops : o # op => receipt[o] \notin {"running", "action_required"}
  BY <1>1, <1>2 DEF Ledger, HasRecoveryLease
<1>7. CASE answer = "error" /\ row[op].phase \in Unresolved
  <2>1. /\ receipt' = [receipt EXCEPT ![op] = "action_required"]
        /\ lease' = [op |-> op, state |-> "recovery_required"]
    BY <1>2, <1>7 DEF Reply, NeedsRecovery
  <2>2. TypeOK'
    <3>1. lease' \in [op : 0..MaxOps, state : {"released", "held", "recovery_required"}]
      BY <1>1, <2>1 DEF TypeOK
    <3> QED
      BY <1>1, <1>2, <1>3, <2>1, <3>1 DEF TypeOK
  <2>3. Ledger' /\ Worker'
    BY <1>1, <1>2, <1>3, <1>6, <2>1 DEF Ledger, Worker, HasRecoveryLease
  <2>4. \A o \in Ops : Live(o)' <=> Live(o)
    BY <1>2, <2>1 DEF Live
  <2>5. Kept'
    BY <1>1, <1>3, <2>4 DEF Kept, Restored, Undoable, Done
  <2>6. Whole'
    <3>1. Calm' => Calm
      BY <1>2, <1>3, <2>1 DEF Calm
    <3> QED
      BY <1>1, <1>3, <2>1, <2>4, <3>1 DEF Whole, One, OrigIsOne
  <2> QED
    BY <1>4, <1>5, <2>2, <2>3, <2>5, <2>6 DEF IndInv
<1>8. CASE ~(answer = "error" /\ row[op].phase \in Unresolved)
  <2>1. receipt' = [receipt EXCEPT ![op] = Verdict] /\ lease' = Free
    BY <1>8 DEF Reply, NeedsRecovery
  <2>2. Verdict \in {"succeeded", "failed"}
    BY DEF Verdict
  <2>3. TypeOK'
    <3>1. lease' \in [op : 0..MaxOps, state : {"released", "held", "recovery_required"}]
      BY <2>1, AppRestoreBounds DEF Free
    <3> QED
      BY <1>1, <1>2, <1>3, <2>1, <2>2, <3>1 DEF TypeOK
  <2>4. lease'.state = "released"
    BY <2>1 DEF Free
  <2>5. Ledger' /\ Worker'
    BY <1>1, <1>2, <1>3, <1>6, <2>1, <2>2, <2>4 DEF Ledger, Worker, HasRecoveryLease
  <2>6. Kept'
    BY <2>4 DEF Kept, Live
  <2>7. Whole'
    <3> USE DEF Whole
    <3> HAVE Calm'
    <3>1. Calm
      BY <1>2, <1>3, <2>1 DEF Calm
    <3>2. Live(op) /\ faults <= 1
      BY <1>2, <3>1 DEF Live, Calm
    <3>3. IF row[op].phase = "none" THEN One ELSE OrigIsOne(op)
      BY <1>1, <1>2, <3>1, <3>2 DEF Whole
    <3>4. answer \in {"ok", "error"}
      BY <1>1 DEF TypeOK
    <3>5. One
      <4>1. CASE answer = "ok"
        BY <1>1, <3>3, <4>1 DEF Swapped, Done, Restored, One
      <4>2. CASE answer = "error"
        <5>1. row[op].phase \in {"none", "rolled_back"}
          BY <1>1, <1>8, <4>2 DEF Journal
        <5>2. CASE row[op].phase = "rolled_back"
          <6>1. Undone(op)
            BY <1>1, <3>2, <5>2 DEF RolledBack
          <6> QED
            BY <3>3, <5>2, <6>1 DEF Undone, OrigFrom, OrigIsOne, One, S
        <5> QED
          BY <3>3, <5>1, <5>2
      <4> QED
        BY <3>4, <4>1, <4>2
    <3> QED
      BY <1>3, <2>4, <3>5 DEF One, Live
  <2> QED
    BY <1>4, <1>5, <2>3, <2>5, <2>6, <2>7 DEF IndInv
<1> QED
  BY <1>7, <1>8

\* The answer does not reach the ledger: the operation keeps its lease.
LEMMA StepReplyFails == ASSUME IndInv, ReplyFails PROVE IndInv'
<1> USE DEF disk, ledger, control
<1>1. /\ TypeOK /\ Ledger /\ Worker /\ Journal /\ Origins /\ Kept /\ Whole
      /\ pc = "reply" /\ pc \notin InRecovery /\ Fault
  BY DEF IndInv, ReplyFails, InRecovery, Forward, Ahead, Back
<1>2. /\ helper = "up" /\ op \in Ops /\ lease = [op |-> op, state |-> "held"] /\ receipt[op] = "running"
      /\ todo = {}
  BY <1>1 DEF TypeOK, Worker, Journal
<1>3. /\ pc' = "unsaved"
      /\ UNCHANGED <<disk, secrets, up, row, ledger, control, slot, deferred>>
  BY DEF ReplyFails
<1>4. faults' \in 0..MaxFaults /\ faults' \in Nat /\ faults' >= faults /\ UNCHANGED <<crashes, resolves>>
  BY <1>1, Counted
<1>5. TypeOK'
  BY <1>1, <1>3, <1>4 DEF TypeOK
<1>6. Ledger' /\ Worker'
  BY <1>1, <1>2, <1>3 DEF Ledger, Worker, HasRecoveryLease
<1>7. Journal'
  BY <1>2, <1>3 DEF Journal, Before, Active, Stopping, Forward, Ahead, Back
<1>8. Place' /\ Swapped' /\ RolledBack' /\ Origins'
  BY <1>1, <1>3, IdleStep
<1>9. Kept'
  BY <1>1, <1>3 DEF Kept, Live, Restored, Undoable, Done
<1>10. Whole'
  <2>1. Calm' => Calm
    BY <1>1, <1>3, <1>4, CalmBefore
  <2> QED
    BY <1>1, <1>3, <2>1 DEF Whole, Live, One, OrigIsOne
<1> QED
  BY <1>5, <1>6, <1>7, <1>8, <1>9, <1>10 DEF IndInv

\* Recovery ends an operation.
LEMMA StepCompleteRecovery == ASSUME IndInv, CompleteRecovery PROVE IndInv'
<1> USE DEF disk, bounds
<1>1. /\ TypeOK /\ Ledger /\ Worker /\ Journal /\ Origins /\ Swapped /\ RolledBack /\ Kept /\ Whole
      /\ pc = "settle"
  BY DEF IndInv, CompleteRecovery
<1>2. /\ helper = "starting" /\ op \in Ops /\ lease.state # "held" /\ row[op].phase # "none"
      /\ HasRecoveryLease(op) \/ (lease.state = "released" /\ resolves > 0)
      /\ receipt \in [Ops -> {"none", "running", "succeeded", "failed",
                              "action_required", "superseded"}]
  BY <1>1 DEF TypeOK, Worker, Journal, InRecovery
<1>3. /\ pc' = "idle" /\ receipt' = [receipt EXCEPT ![op] = Verdict] /\ lease' = Free
      /\ todo' = todo \ {op}
      /\ UNCHANGED <<disk, secrets, up, row, kind, asked, helper, op, answer, slot, deferred, bounds>>
  BY DEF CompleteRecovery
<1>4. Verdict \in {"succeeded", "failed"} /\ lease'.state = "released"
  BY <1>3 DEF Verdict, Free
<1>5. \A o \in Ops : o # op => receipt[o] \notin {"running", "action_required"}
  BY <1>1, <1>2 DEF Ledger, HasRecoveryLease
<1>6. Place' /\ Swapped' /\ RolledBack' /\ Origins'
  BY <1>1, <1>3, IdleStep
<1>7. TypeOK'
  <2>1. lease' \in [op : 0..MaxOps, state : {"released", "held", "recovery_required"}]
    BY <1>3, AppRestoreBounds DEF Free
  <2> QED
    BY <1>1, <1>2, <1>3, <1>4, <2>1 DEF TypeOK
<1>8. Ledger'
  <2>1. receipt[op] # "none"
    BY <1>1, <1>2 DEF Ledger
  <2> QED
    BY <1>1, <1>2, <1>3, <1>4, <1>5, <2>1 DEF Ledger
<1>9. Worker' /\ Journal'
  BY <1>1, <1>2, <1>3, <1>4
  DEF Worker, Journal, Before, Active, Stopping, Forward, Ahead, Back, InRecovery
<1>10. Kept'
  BY <1>4 DEF Kept, Live
<1>11. Whole'
  <2> USE DEF Whole
  <2> HAVE Calm'
  <2>1. Calm /\ resolves = 0
    <3>1. \A o \in Ops : receipt[o] = "superseded" => receipt'[o] = "superseded" \/ o = op
      BY <1>2, <1>3
    <3>2. resolves = 0
      BY <1>3 DEF Calm
    <3>3. receipt[op] # "superseded"
      BY <1>1, <1>2, <3>2 DEF Ledger, HasRecoveryLease
    <3> QED
      BY <1>3, <3>1, <3>2, <3>3 DEF Calm
  <2>2. Live(op) /\ OrigIsOne(op)
    BY <1>1, <1>2, <2>1 DEF Whole, Live, HasRecoveryLease
  <2>3. answer \in {"ok", "error"}
    BY <1>1 DEF TypeOK
  <2>4. Done(op) \/ Undone(op)
    BY <1>1, <1>2, <2>3 DEF Swapped, RolledBack
  <2>5. One
    BY <2>2, <2>4 DEF Done, Undone, Restored, OrigFrom, OrigIsOne, One, S
  <2> QED
    BY <1>3, <1>4, <2>5 DEF One, Live
<1> QED
  BY <1>6, <1>7, <1>8, <1>9, <1>10, <1>11 DEF IndInv

\* The ledger is not written: recovery gives up.
LEMMA StepCompleteRecoveryFails == ASSUME IndInv, CompleteRecoveryFails PROVE IndInv'
<1>1. /\ pc = "settle" /\ Fault /\ GiveUp
      /\ UNCHANGED <<disk, secrets, up, ledger, helper, op, answer, slot, deferred>>
  BY DEF CompleteRecoveryFails
<1>2. TypeOK /\ helper = "starting" /\ pc \in InRecovery
  BY <1>1 DEF IndInv, TypeOK, Worker, InRecovery
<1> QED
  BY <1>1, <1>2, Counted, GiveUpStep DEF TypeOK

-----------------------------------------------------------------------------
(* Requests, crashes, startup and the administrator.                       *)

\* A step that leaves the worker, the disk and the journals alone.
LEMMA AsideStep ==
    ASSUME Journal, Place, Origins, Swapped, RolledBack,
           UNCHANGED <<host, kept, secrets, up, row, pc, op, slot, helper, answer, todo, faults>>,
           pc \in {"lifecycle", "reply"} => kind'[op] = kind[op]
    PROVE  Journal' /\ Place' /\ Origins' /\ Swapped' /\ RolledBack'
<1>1. Journal' /\ Place'
  BY DEF Journal, Place
<1>2. Origins'
  BY DEF Origins, Mountable
<1>3. Swapped'
  BY DEF Swapped, Undone, NewBelow, OrigFrom, Restored, Done
<1>4. RolledBack'
  BY DEF RolledBack, Undoable, FitsBelow, Fits, OrigFrom, Undone
<1> QED
  BY <1>1, <1>2, <1>3, <1>4

\* A request passes the gate.
LEMMA StepAsk == ASSUME IndInv, NEW k \in Kinds, Ask(k) PROVE IndInv'
<1> USE DEF disk, control, bounds
<1>1. TypeOK /\ Ledger /\ Worker /\ Journal /\ Place /\ Origins /\ Swapped /\ RolledBack /\ Kept /\ Whole
  BY DEF IndInv
<1>2. PICK o \in Ops : kind[o] = "none" /\ kind' = [kind EXCEPT ![o] = k] /\ asked' = asked \cup {o}
  BY DEF Ask
<1>3. /\ helper = "up"
      /\ UNCHANGED <<disk, secrets, up, row, receipt, lease, control, pc, slot, deferred, bounds>>
  BY DEF Ask, Serving
<1>4. /\ kind' \in [Ops -> Kinds \cup {"none"}] /\ k # "none" /\ kind'[o] = k
      /\ \A p \in Ops : p # o => kind'[p] = kind[p]
  BY <1>1, <1>2, AppRestoreBounds DEF TypeOK
<1>5. pc # "idle" => op \in Ops /\ kind[op] # "none" /\ kind'[op] = kind[op]
  BY <1>1, <1>2, <1>3, <1>4 DEF Worker, Ledger
<1>6. TypeOK'
  BY <1>1, <1>2, <1>3, <1>4 DEF TypeOK
<1>7. Ledger'
  BY <1>1, <1>2, <1>3, <1>4 DEF Ledger, HasRecoveryLease
<1>8. Worker'
  BY <1>1, <1>3 DEF Worker, HasRecoveryLease
<1>9. Journal' /\ Place' /\ Origins' /\ Swapped' /\ RolledBack'
  BY <1>1, <1>3, <1>5, AsideStep
<1>10. Kept' /\ Whole'
  BY <1>1, <1>3 DEF Kept, Live, Restored, Undoable, Done, Whole, Calm, One, OrigIsOne
<1> QED
  BY <1>6, <1>7, <1>8, <1>9, <1>10 DEF IndInv

\* Begin: an operation gets the lease.
LEMMA StepBegin == ASSUME IndInv, NEW o \in Ops, Begin(o) PROVE IndInv'
<1> USE DEF disk
<1>1. TypeOK /\ Ledger /\ Worker /\ Journal /\ Place /\ Origins /\ Swapped /\ RolledBack /\ Kept /\ Whole
  BY DEF IndInv
<1>2. /\ helper = "up" /\ o \in asked /\ asked' = asked \ {o} /\ receipt[o] = "none"
      /\ row[o].phase = "none" /\ kind[o] # "none"
      /\ UNCHANGED <<disk, secrets, up, row, kind, helper, answer, todo, slot, deferred>>
      /\ receipt \in [Ops -> {"none", "running", "succeeded", "failed",
                              "action_required", "superseded"}]
  BY <1>1 DEF Begin, Serving, Ledger, TypeOK
<1>3. lease.state = "released" \/ TakesOver(o)
  BY DEF Begin, Admissible
<1>4. faults' \in 0..MaxFaults /\ faults' >= faults /\ UNCHANGED <<crashes, resolves>>
  BY <1>1, Counted DEF Begin, bounds, TypeOK
<1>5. IndInv'
  <2>1. /\ receipt' = [p \in Ops |-> CASE p = o -> "running"
                                       [] p # o /\ TakesOver(o) /\ p = lease.op -> "superseded"
                                       [] OTHER -> receipt[p]]
        /\ lease' = [op |-> o, state |-> "held"]
        /\ op' = o
        /\ pc' \in {IF kind[o] = "restore" THEN "prepare" ELSE "lifecycle", "unsaved"}
    BY DEF Begin
  <2>2. pc = "idle" /\ lease.state # "held" /\ todo = {}
    BY <1>1, <1>2, <1>3 DEF Worker, Journal, TakesOver
  <2>3. receipt'[o] = "running"
    BY <2>1
  <2>4. \A p \in Ops : p # o => receipt'[p] \in {receipt[p], "superseded"}
    BY <2>1
  <2>5. \A p \in Ops : p # o /\ Live(p) => TakesOver(o) /\ receipt'[p] = "superseded"
    BY <1>1, <1>3, <2>1 DEF Live, TakesOver
  <2>6. \A p \in Ops : p # o => receipt'[p] \notin {"running", "action_required"}
    BY <1>1, <2>2, <2>4, <2>5 DEF Ledger, HasRecoveryLease, Live
  <2>7. receipt' \in [Ops -> {"none", "running", "succeeded", "failed",
                              "action_required", "superseded"}]
    BY <1>2, <2>1
  <2>8. TypeOK'
    <3>1. lease' \in [op : 0..MaxOps, state : {"released", "held", "recovery_required"}] /\ op' \in 0..MaxOps
      BY <2>1 DEF Ops
    <3> QED
      BY <1>1, <1>2, <1>4, <2>1, <2>7, <3>1 DEF TypeOK
  <2>9. Ledger'
    <3>1. \A p \in Ops : receipt'[p] = "none" => p # o /\ receipt[p] = "none"
      BY <2>3, <2>4
    <3>2. \A p \in Ops : receipt[p] = "none" /\ p # o => receipt'[p] = "none"
      BY <1>1, <1>3, <2>1 DEF TakesOver
    <3> QED
      BY <1>1, <1>2, <2>1, <2>3, <2>6, <3>1, <3>2 DEF Ledger, HasRecoveryLease
  <2>10. Worker' /\ Journal' /\ Place'
    BY <1>1, <1>2, <2>1, <2>2, <2>3
    DEF Worker, Journal, Place, Before, Active, Stopping, Forward, Ahead, Back, InRecovery
  <2>11. Origins'
    BY <1>1, <1>2, <2>1 DEF Origins
  <2>12. Swapped' /\ RolledBack'
    BY <2>1 DEF Swapped, RolledBack, Stopping, Forward, Ahead, Back
  <2>13. Kept'
    BY <1>2, <2>1 DEF Kept, Live
  <2>14. Whole'
    <3> USE DEF Whole
    <3> HAVE Calm'
    <3>1. Calm /\ \A p \in Ops : ~Live(p)
      <4>1. \A p \in Ops : ~(Live(p) /\ p # o)
        BY <2>5 DEF Calm
      <4>2. ~Live(o)
        BY <1>1, <1>2 DEF Live, Ledger
      <4>3. \A p \in Ops : receipt[p] # "superseded"
        BY <1>2, <2>1 DEF Calm
      <4>4. resolves = 0 /\ faults <= 1
        BY <1>1, <1>4, AppRestoreBounds DEF Calm, TypeOK
      <4> QED
        BY <4>1, <4>2, <4>3, <4>4 DEF Calm
    <3>2. lease.state = "released"
      BY <1>1, <3>1 DEF Ledger, Live
    <3>3. One
      BY <1>1, <3>1, <3>2 DEF Whole
    <3> QED
      BY <1>2, <2>1, <3>3 DEF One, Live
  <2> QED
    BY <2>8, <2>9, <2>10, <2>11, <2>12, <2>13, <2>14 DEF IndInv
<1> QED
  BY <1>5

\* Begin refuses an operation while another has the lease.
LEMMA StepRefuse == ASSUME IndInv, NEW o \in Ops, Refuse(o) PROVE IndInv'
<1> USE DEF disk, bounds, control
<1>1. TypeOK /\ Ledger /\ Worker /\ Journal /\ Place /\ Origins /\ Swapped /\ RolledBack /\ Kept /\ Whole
  BY DEF IndInv
<1>2. /\ helper = "up" /\ o \in asked /\ asked' = asked \ {o} /\ receipt[o] = "none"
      /\ row[o].phase = "none" /\ kind[o] # "none"
      /\ UNCHANGED <<disk, secrets, up, row, kind, control, pc, lease, slot, deferred, bounds>>
      /\ receipt \in [Ops -> {"none", "running", "succeeded", "failed",
                              "action_required", "superseded"}]
  BY <1>1 DEF Refuse, Serving, Ledger, TypeOK
<1>3. IndInv'
  <2>1. receipt' = [receipt EXCEPT ![o] = "failed"] /\ UNCHANGED <<lease, op, pc>>
    BY DEF Refuse, control
  <2>2. /\ receipt'[o] = "failed" /\ \A p \in Ops : p # o => receipt'[p] = receipt[p]
        /\ receipt' \in [Ops -> {"none", "running", "succeeded", "failed",
                                 "action_required", "superseded"}]
    BY <1>2, <2>1
  <2>3. TypeOK'
    BY <1>1, <1>2, <2>1, <2>2 DEF TypeOK
  <2>4. Ledger'
    <3>1. lease.state # "released" => lease.op # o
      BY <1>1, <1>2 DEF Ledger
    <3> QED
      BY <1>1, <1>2, <2>1, <2>2, <3>1 DEF Ledger, HasRecoveryLease
  <2>5. Worker'
    BY <1>1, <1>2, <2>1, <2>2 DEF Worker, HasRecoveryLease
  <2>6. Journal' /\ Place' /\ Origins' /\ Swapped' /\ RolledBack'
    BY <1>1, <1>2, <2>1, AsideStep
  <2>7. Kept'
    BY <1>1, <1>2, <2>1 DEF Kept, Live, Restored, Undoable, Done
  <2>8. Whole'
    <3>1. Calm' => Calm
      BY <1>2, <2>2 DEF Calm
    <3> QED
      BY <1>1, <1>2, <2>1, <3>1 DEF Whole, Live, One, OrigIsOne
  <2> QED
    BY <2>3, <2>4, <2>5, <2>6, <2>7, <2>8 DEF IndInv
<1> QED
  BY <1>3

\* An administrator releases the lease of an operation that asks for one.
LEMMA StepResolve == ASSUME IndInv, NEW o \in Ops, ResolveActionRequired(o) PROVE IndInv'
<1> USE DEF disk, control
<1>1. TypeOK /\ Ledger /\ Worker /\ Journal /\ Place /\ Origins /\ Swapped /\ RolledBack
  BY DEF IndInv
<1>2. /\ resolves < MaxResolves /\ resolves' = resolves + 1
      /\ receipt[o] = "action_required" /\ lease = [op |-> o, state |-> "recovery_required"]
      /\ receipt' = [receipt EXCEPT ![o] = "failed"] /\ lease' = Free
      /\ UNCHANGED <<disk, secrets, up, row, kind, asked, control, pc, slot, deferred, faults, crashes>>
  BY DEF ResolveActionRequired, HasRecoveryLease
<1>3. resolves' \in 0..MaxResolves /\ resolves' > 0 /\ resolves' # 0
  <2>1. resolves \in Nat /\ MaxResolves \in Nat
    BY <1>1, AppRestoreBounds DEF TypeOK
  <2> QED
    BY <1>2, <2>1
<1>4. /\ receipt' \in [Ops -> {"none", "running", "succeeded", "failed", "action_required", "superseded"}]
      /\ receipt'[o] = "failed" /\ \A p \in Ops : p # o => receipt'[p] = receipt[p]
  BY <1>1, <1>2 DEF TypeOK
<1>5. lease'.state = "released" /\ lease' \in [op : 0..MaxOps, state : {"released", "held", "recovery_required"}]
  BY <1>2, AppRestoreBounds DEF Free
<1>6. TypeOK'
  BY <1>1, <1>2, <1>3, <1>4, <1>5 DEF TypeOK
<1>7. Ledger'
  BY <1>1, <1>2, <1>4, <1>5 DEF Ledger, HasRecoveryLease
<1>8. Worker'
  BY <1>1, <1>2, <1>3, <1>5 DEF Worker
<1>9. Journal' /\ Place' /\ Origins' /\ Swapped' /\ RolledBack'
  BY <1>1, <1>2, AsideStep
<1>10. Kept' /\ Whole'
  BY <1>3, <1>5 DEF Kept, Live, Whole, Calm
<1> QED
  BY <1>6, <1>7, <1>8, <1>9, <1>10 DEF IndInv

\* The helper dies: what it was doing is in the journal and on the disk.
LEMMA StepCrash == ASSUME IndInv, Crash PROVE IndInv'
<1> USE DEF disk
<1>1. TypeOK /\ Ledger /\ Origins /\ Kept /\ Whole
  BY DEF IndInv
<1>2. /\ crashes < MaxCrashes /\ crashes' = crashes + 1
      /\ helper' = "down" /\ pc' = "idle" /\ asked' = {} /\ todo' = {}
      /\ UNCHANGED <<disk, secrets, up, row, receipt, kind, lease, op, slot, deferred,
                     answer, faults, resolves>>
  BY DEF Crash
<1>3. crashes' \in 0..MaxCrashes
  <2>1. crashes \in Nat /\ MaxCrashes \in Nat
    BY <1>1, AppRestoreBounds DEF TypeOK
  <2> QED
    BY <1>2, <2>1
<1>4. TypeOK'
  BY <1>1, <1>2, <1>3 DEF TypeOK
<1>5. Ledger'
  BY <1>1, <1>2 DEF Ledger, HasRecoveryLease
<1>6. Worker' /\ Journal'
  BY <1>2 DEF Worker, Journal, Before, Active, Stopping, Forward, Ahead, Back
<1>7. Place' /\ Swapped' /\ RolledBack' /\ Origins'
  BY <1>1, <1>2, IdleStep
<1>8. Kept' /\ Whole'
  BY <1>1, <1>2 DEF Kept, Live, Restored, Undoable, Done, Whole, Calm, One, OrigIsOne
<1> QED
  BY <1>4, <1>5, <1>6, <1>7, <1>8 DEF IndInv

\* The helper starts: interrupted operations ask for an administrator and their
\* journals are listed.
LEMMA StepStart == ASSUME IndInv, Start PROVE IndInv'
<1> USE DEF disk, bounds
<1>1. TypeOK /\ Ledger /\ Worker /\ Origins /\ Kept /\ Whole
  BY DEF IndInv
<1>2. /\ helper = "down" /\ helper' = "starting" /\ pc = "idle"
      /\ receipt' = [o \in Ops |-> ReceiptAfterCrash(o)]
      /\ todo' = {o \in Ops : row[o].phase \in Unresolved}
      /\ UNCHANGED <<disk, secrets, up, row, kind, asked, pc, op, slot, deferred, answer, bounds>>
  BY <1>1 DEF Start, Worker
<1>3. \A o \in Ops : receipt'[o] = IF receipt[o] = "running" THEN "action_required" ELSE receipt[o]
  BY <1>2 DEF ReceiptAfterCrash
<1>4. receipt' \in [Ops -> {"none", "running", "succeeded", "failed", "action_required", "superseded"}]
  BY <1>1, <1>2, <1>3 DEF TypeOK
<1>5. /\ lease' \in [op : 0..MaxOps, state : {"released", "held", "recovery_required"}]
      /\ lease'.op = lease.op
      /\ lease'.state = IF lease.state = "held" THEN "recovery_required" ELSE lease.state
  BY <1>1 DEF Start, TypeOK
<1>6. TypeOK'
  BY <1>1, <1>2, <1>4, <1>5 DEF TypeOK
<1>7. Ledger'
  <2>1. \A o \in Ops : Live(o) => lease'.op = o /\ lease'.state = "recovery_required"
    BY <1>1, <1>5 DEF Live, TypeOK
  <2>2. \A o \in Ops : Live(o) => HasRecoveryLease(o)'
    BY <1>5, <2>1 DEF HasRecoveryLease
  <2>3. \A o \in Ops : receipt'[o] = "action_required" => HasRecoveryLease(o)'
    BY <1>1, <1>3, <2>2 DEF Ledger, Live, HasRecoveryLease
  <2>4. \A o \in Ops : receipt'[o] # "running" /\ (receipt'[o] = "none" <=> receipt[o] = "none")
    BY <1>3
  <2>5. lease'.state # "released" => lease'.op \in Ops /\ lease'.state # "held"
                                     /\ receipt'[lease'.op] = "action_required"
    BY <1>1, <1>3, <1>5 DEF Ledger
  <2> QED
    BY <1>1, <1>2, <2>3, <2>4, <2>5 DEF Ledger
<1>8. Worker' /\ Journal'
  BY <1>2, <1>5 DEF Worker, Journal, Before, Active, Stopping, Forward, Ahead, Back, InRecovery
<1>9. Place' /\ Swapped' /\ RolledBack' /\ Origins'
  BY <1>1, <1>2, IdleStep
<1>10. \A o \in Ops : Live(o)' <=> Live(o)
  BY <1>5 DEF Live
<1>11. Kept'
  BY <1>1, <1>2, <1>10 DEF Kept, Restored, Undoable, Done
<1>12. Whole'
  <2>1. Calm' => Calm
    BY <1>2, <1>3 DEF Calm
  <2>2. lease'.state = "released" <=> lease.state = "released"
    BY <1>5
  <2> QED
    BY <1>1, <1>2, <1>10, <2>1, <2>2 DEF Whole, One, OrigIsOne
<1> QED
  BY <1>6, <1>7, <1>8, <1>9, <1>11, <1>12 DEF IndInv

\* Recovery looks at a journal: forward, back, or to the administrator.
LEMMA StepRecoverOne == ASSUME IndInv, NEW o \in Ops, RecoverOne(o) PROVE IndInv'
<1> USE DEF disk, ledger, bounds
<1>1. /\ TypeOK /\ Ledger /\ Worker /\ Journal /\ Origins /\ Kept /\ Whole
      /\ helper = "starting" /\ pc = "idle" /\ o \in todo /\ 1 \in S /\ Slots \in Nat
  BY AppRestoreBounds DEF IndInv, RecoverOne, S
<1>2. /\ row[o].phase \in Unresolved /\ lease.state # "held"
      /\ \A p \in todo : row[p].phase \in Unresolved
  BY <1>1 DEF Journal, Worker
<1>3. /\ op' = o /\ deferred' = FALSE
      /\ UNCHANGED <<disk, secrets, up, ledger, helper, answer, bounds>>
  BY DEF RecoverOne
<1> op' \in 0..MaxOps
  BY <1>3 DEF Ops
<1> deferred' \in BOOLEAN
  BY <1>3
<1>4. CASE HasRecoveryLease(o) /\ (Restored(o) \/ CanRollBack(o))
  <2>1. /\ UNCHANGED <<row, todo>>
        /\ \/ Restored(o) /\ slot' = 1 /\ pc' = IF row[o].phase = "committed" THEN "clean" ELSE "pending"
           \/ ~Restored(o) /\ CanRollBack(o) /\ pc' = "rbAside" /\ slot' = Slots
    BY <1>4 DEF RecoverOne
  <2>2. Live(o)
    BY <1>4 DEF HasRecoveryLease, Live
  <2>3. row[o].phase # "none" /\ (row[o].phase = "committed" => Done(o))
    BY <1>1, <1>2, <2>2 DEF Kept, Ended, Unresolved
  <2>4. row[o].phase = "committed" => pc' = "clean"
    BY <2>1, <2>3 DEF Done
  <2>5. slot' \in 0..(Slots + 1)
    BY <1>1, <2>1
  <2>6. TypeOK'
    BY <1>1, <1>3, <2>1, <2>5 DEF TypeOK
  <2>7. Ledger'
    BY <1>1, <1>3, <2>1 DEF Ledger, HasRecoveryLease
  <2>8. Worker'
    BY <1>1, <1>3, <1>4, <2>1 DEF Worker, HasRecoveryLease, InRecovery, Forward, Ahead, Back
  <2>9. Journal'
    BY <1>1, <1>2, <1>3, <2>1, <2>4 DEF Journal, Before
  <2>10. Place'
    BY <1>1, <1>3, <2>1 DEF Place, Ahead
  <2>11. Origins'
    BY <1>1, <1>3, <2>1 DEF Origins
  <2>12. Swapped' /\ RolledBack'
    <3>1. CASE Restored(o) /\ row[o].phase = "committed"
      <4>1. Done(op)' /\ Restored(op)' /\ pc' = "clean"
        BY <1>3, <2>1, <2>3, <3>1 DEF Done, Restored
      <4> QED
        BY <4>1 DEF Swapped, RolledBack, Stopping, Ahead, Back, Done
    <3>2. CASE Restored(o) /\ row[o].phase # "committed"
      <4>1. Restored(op)' /\ pc' = "pending" /\ helper' # "up"
        BY <1>1, <1>3, <2>1, <3>2 DEF Restored
      <4> QED
        BY <4>1 DEF Swapped, RolledBack, Stopping, Back
    <3>3. CASE ~Restored(o)
      <4>1. CanRollBack(o) /\ pc' = "rbAside" /\ slot' = Slots /\ helper' # "up"
        BY <1>1, <1>3, <2>1, <3>3
      <4>2. \A s \in S : Fits(o, s) /\ ~(s >= Slots + 1)
        BY <1>1, <4>1 DEF CanRollBack, Fits, S
      <4>3. Undoable(op)' /\ FitsBelow(op, slot + 1)' /\ OrigFrom(op, slot + 1)'
        BY <1>3, <2>1, <4>1, <4>2 DEF Undoable, FitsBelow, Fits, OrigFrom
      <4> QED
        BY <4>1, <4>3 DEF Swapped, RolledBack, Stopping, Forward, Ahead
    <3> QED
      BY <3>1, <3>2, <3>3
  <2>13. Kept' /\ Whole'
    BY <1>1, <1>3, <2>1 DEF Kept, Live, Restored, Undoable, Done, Whole, Calm, One, OrigIsOne
  <2> QED
    BY <2>6, <2>7, <2>8, <2>9, <2>10, <2>11, <2>12, <2>13 DEF IndInv
<1>5. CASE ~(HasRecoveryLease(o) /\ (Restored(o) \/ CanRollBack(o)))
  <2>1. /\ row' = [row EXCEPT ![o].phase = "action_required"]
        /\ todo' = todo \ {o} /\ UNCHANGED <<pc, slot>>
    BY <1>5 DEF RecoverOne
  <2>2. /\ row' \in [Ops -> Rows] /\ row'[o].phase = "action_required" /\ row'[o].orig = row[o].orig
        /\ row'[o].origSecrets = row[o].origSecrets /\ row'[o].running = row[o].running
        /\ \A q \in Ops : q # o => row'[q] = row[q]
    <3>1. "action_required" \in Phases
      BY DEF Phases
    <3> QED
      BY <1>1, <2>1, <3>1, PhaseSet
  <2>3. /\ row[o].phase # "none" /\ todo' \subseteq todo /\ todo' \subseteq Ops
        /\ \A p \in todo' : row'[p] = row[p]
    BY <1>1, <1>2, <2>1, <2>2 DEF Unresolved, TypeOK
  <2>4. TypeOK'
    BY <1>1, <1>3, <2>1, <2>2, <2>3 DEF TypeOK, Rows
  <2>5. Ledger'
    BY <1>1, <1>3, <2>2, <2>3 DEF Ledger, HasRecoveryLease
  <2>6. Worker'
    BY <1>1, <1>3, <2>1 DEF Worker, InRecovery, Forward, Ahead, Back
  <2>7. Journal'
    BY <1>1, <1>2, <1>3, <2>1, <2>3 DEF Journal, Before, Active, Stopping, Forward, Ahead, Back
  <2>8. Place' /\ Swapped' /\ RolledBack'
    BY <1>1, <2>1 DEF Place, Swapped, RolledBack, Stopping, Forward, Ahead, Back
  <2>9. \A q \in Ops : /\ row'[q].orig = row[q].orig /\ row'[q].origSecrets = row[q].origSecrets
                       /\ row'[q].running = row[q].running
                       /\ row'[q].phase = "none" <=> row[q].phase = "none"
                       /\ row'[q].phase \in Ended => row'[q].phase = row[q].phase
    BY <2>2, <2>3 DEF Ended
  <2>10. Origins'
    BY <1>1, <1>3, <2>1, <2>9 DEF Origins
  <2>11. Kept'
    BY <1>1, <1>3, <2>9 DEF Kept, Live, Restored, Undoable, Done
  <2>12. Whole'
    BY <1>1, <1>3, <2>9 DEF Whole, Live, Calm, One, OrigIsOne
  <2> QED
    BY <2>4, <2>5, <2>6, <2>7, <2>8, <2>10, <2>11, <2>12 DEF IndInv
<1> QED
  BY <1>4, <1>5

\* Recovery is through its list and turns to the debts.
LEMMA StepRecovered == ASSUME IndInv, Recovered PROVE IndInv'
<1> USE DEF disk, ledger, bounds
<1>1. /\ TypeOK /\ Ledger /\ Worker /\ Origins /\ Kept /\ Whole
      /\ helper = "starting" /\ pc = "idle"
  BY DEF IndInv, Recovered
<1>2. /\ pc' = "debts" /\ todo' = {o \in Ops : row[o].phase \in {"committed", "cleanup_pending"}}
      /\ UNCHANGED <<disk, secrets, up, row, ledger, helper, op, answer, slot, deferred, bounds>>
  BY DEF Recovered
<1>3. TypeOK'
  BY <1>1, <1>2 DEF TypeOK
<1>4. Ledger'
  BY <1>1, <1>2 DEF Ledger, HasRecoveryLease
<1>5. Worker' /\ Journal'
  BY <1>1, <1>2 DEF Worker, Journal, Before, Active, Stopping, Forward, Ahead, Back, InRecovery
<1>6. Place' /\ Swapped' /\ RolledBack' /\ Origins'
  BY <1>1, <1>2, IdleStep
<1>7. Kept' /\ Whole'
  BY <1>1, <1>2 DEF Kept, Live, Restored, Undoable, Done, Whole, Calm, One, OrigIsOne
<1> QED
  BY <1>3, <1>4, <1>5, <1>6, <1>7 DEF IndInv

\* A debt is paid only for a restore that is in place.
LEMMA StepPayDebt == ASSUME IndInv, NEW o \in Ops, PayDebt(o) PROVE IndInv'
<1> USE DEF ledger
<1>1. /\ TypeOK /\ Ledger /\ Worker /\ Journal /\ Origins /\ Kept /\ Whole
      /\ pc = "debts" /\ o \in todo
  BY DEF IndInv, PayDebt
<1>2. /\ helper = "starting" /\ row[o].phase \in {"committed", "cleanup_pending"}
      /\ kept \in [Ops -> SUBSET S]
  BY <1>1 DEF Journal, TypeOK
<1>3. /\ todo' = todo \ {o}
      /\ UNCHANGED <<host, staged, secrets, up, ledger, helper, pc, op, answer, slot, deferred>>
  BY DEF PayDebt
<1>4. PICK p \in {"completed", "cleanup_pending"} : row' = [row EXCEPT ![o].phase = p]
  BY DEF PayDebt
<1>5. /\ row' \in [Ops -> Rows] /\ row'[o].phase = p /\ row'[o].orig = row[o].orig
      /\ row'[o].origSecrets = row[o].origSecrets /\ row'[o].running = row[o].running
      /\ \A q \in Ops : q # o => row'[q] = row[q]
  <2>1. p \in Phases
    BY DEF Phases
  <2> QED
    BY <1>1, <1>4, <2>1, PhaseSet
<1>6. kept' \in [Ops -> SUBSET S] /\ \A q \in Ops : q # o => kept'[q] = kept[q]
  BY <1>2 DEF PayDebt
<1>7. faults' \in 0..MaxFaults /\ faults' >= faults /\ UNCHANGED <<crashes, resolves>>
  BY <1>1, Counted DEF PayDebt, bounds, TypeOK
<1>8. /\ todo' \subseteq todo /\ todo' \subseteq Ops /\ \A q \in todo' : row'[q] = row[q]
      /\ row'[o].phase # "none" /\ row[o].phase # "none"
  BY <1>1, <1>2, <1>3, <1>4, <1>5 DEF TypeOK
<1>9. TypeOK'
  BY <1>1, <1>3, <1>5, <1>6, <1>7, <1>8 DEF TypeOK, Rows
<1>10. Ledger'
  BY <1>1, <1>3, <1>5, <1>8 DEF Ledger, HasRecoveryLease
<1>11. Worker'
  BY <1>1, <1>2, <1>3 DEF Worker, InRecovery, Forward, Ahead, Back
<1>12. Journal'
  BY <1>1, <1>2, <1>3, <1>8 DEF Journal, Before, Active, Stopping, Forward, Ahead, Back
<1>13. Place' /\ Swapped' /\ RolledBack'
  BY <1>1, <1>3 DEF Place, Swapped, RolledBack, Stopping, Forward, Ahead, Back
<1>14. \A q \in Ops : /\ row'[q].orig = row[q].orig /\ row'[q].origSecrets = row[q].origSecrets
                      /\ row'[q].running = row[q].running
                      /\ row'[q].phase = "none" <=> row[q].phase = "none"
  BY <1>5, <1>8
<1>15. Origins'
  BY <1>1, <1>3, <1>14 DEF Origins
<1>16. Kept'
  <2> USE DEF Kept
  <2> TAKE q \in Ops
  <2> HAVE Live(q)' /\ row'[q].phase # "none"
  <2>1. Live(q) /\ row[q].phase # "none"
    BY <1>3, <1>14 DEF Live
  <2>2. CASE q = o
    <3>1. Done(o)
      BY <1>1, <1>2, <2>1, <2>2 DEF Kept, Ended
    <3>2. Done(o)'
      BY <1>3, <1>14, <3>1 DEF Done, Restored
    <3> QED
      BY <2>2, <3>2 DEF Done
  <2>3. CASE q # o
    BY <1>1, <1>3, <1>5, <1>6, <2>1, <2>3 DEF Kept, Restored, Undoable, Done
  <2> QED
    BY <2>2, <2>3
<1>17. Whole'
  <2>1. Calm' => Calm
    <3>1. faults' \in Nat
      BY <1>7
    <3> QED
      BY <1>1, <1>3, <1>7, <3>1, CalmBefore
  <2> QED
    BY <1>1, <1>3, <1>14, <2>1 DEF Whole, Live, One, OrigIsOne
<1> QED
  BY <1>9, <1>10, <1>11, <1>12, <1>13, <1>15, <1>16, <1>17 DEF IndInv

\* The helper listens.
LEMMA StepListen == ASSUME IndInv, Listen PROVE IndInv'
<1> USE DEF disk, ledger, bounds
<1>1. /\ TypeOK /\ Ledger /\ Worker /\ Origins /\ Kept /\ Whole /\ todo = {}
  BY DEF IndInv, Listen
<1>2. /\ pc' = "idle" /\ helper' = "up"
      /\ UNCHANGED <<disk, secrets, up, row, ledger, op, answer, todo, slot, deferred, bounds>>
  BY DEF Listen
<1>3. TypeOK'
  BY <1>1, <1>2 DEF TypeOK
<1>4. Ledger'
  BY <1>1, <1>2 DEF Ledger, HasRecoveryLease
<1>5. Worker' /\ Journal'
  BY <1>1, <1>2 DEF Worker, Journal, Before, Active, Stopping, Forward, Ahead, Back, InRecovery
<1>6. Place' /\ Swapped' /\ RolledBack' /\ Origins'
  BY <1>1, <1>2, IdleStep
<1>7. Kept' /\ Whole'
  BY <1>1, <1>2 DEF Kept, Live, Restored, Undoable, Done, Whole, Calm, One, OrigIsOne
<1> QED
  BY <1>3, <1>4, <1>5, <1>6, <1>7 DEF IndInv

\* A step that changes nothing.
LEMMA StepStutter == ASSUME IndInv, UNCHANGED vars PROVE IndInv'
<1> USE DEF vars
<1>1. TypeOK /\ Ledger /\ Worker /\ Journal /\ Place /\ Origins /\ Swapped /\ RolledBack /\ Kept /\ Whole
  BY DEF IndInv
<1>2. TypeOK'
  BY <1>1 DEF TypeOK
<1>3. Ledger' /\ Worker'
  BY <1>1 DEF Ledger, Worker, HasRecoveryLease
<1>4. Journal' /\ Place' /\ Origins' /\ Swapped' /\ RolledBack'
  BY <1>1, AsideStep
<1>5. Kept' /\ Whole'
  BY <1>1 DEF Kept, Live, Restored, Undoable, Done, Whole, Calm, One, OrigIsOne
<1> QED
  BY <1>2, <1>3, <1>4, <1>5 DEF IndInv

-----------------------------------------------------------------------------
(* The theorems.                                                           *)

\* The invariant holds before the first operation.
LEMMA InitIsSound == Init => IndInv
<1> SUFFICES ASSUME Init
             PROVE  IndInv
  OBVIOUS
<1>1. NoRow \in Rows /\ NoRow.phase = "none" /\ 0 \in Versions /\ 0 \in Trees
  BY AppRestoreBounds DEF NoRow, Rows, Phases, Versions, Trees
<1>2. lease = Free /\ lease.state = "released"
  BY DEF Init, Free
<1>3. row \in [Ops -> Rows] /\ \A o \in Ops : row[o] = NoRow
  BY <1>1 DEF Init
<1>4. TypeOK
  <2>1. /\ host \in [S -> Trees \cup {Gone}] /\ secrets \in Versions /\ up \subseteq C
        /\ staged \in [Ops -> SUBSET S] /\ kept \in [Ops -> SUBSET S]
        /\ receipt \in [Ops -> {"none", "running", "succeeded", "failed",
                                "action_required", "superseded"}]
        /\ kind \in [Ops -> Kinds \cup {"none"}] /\ asked \subseteq Ops /\ todo \subseteq Ops
    BY <1>1 DEF Init
  <2>2. lease \in [op : 0..MaxOps, state : {"released", "held", "recovery_required"}]
    BY <1>2, AppRestoreBounds DEF Free
  <2>3. /\ op \in 0..MaxOps /\ slot \in 0..(Slots + 1) /\ faults \in 0..MaxFaults
        /\ crashes \in 0..MaxCrashes /\ resolves \in 0..MaxResolves
    BY AppRestoreBounds DEF Init
  <2>4. deferred \in BOOLEAN
    BY DEF Init
  <2> QED
    BY <1>3, <2>1, <2>2, <2>3, <2>4 DEF Init, TypeOK, Rows
<1>5. Ledger /\ Worker
  BY <1>1, <1>2, <1>3 DEF Init, Ledger, Worker
<1>6. Journal /\ Place /\ Swapped /\ RolledBack
  BY DEF Init, Journal, Place, Swapped, RolledBack, Before, Active, Stopping, Forward, Ahead, Back
<1>7. Origins
  <2>1. 0 \notin Ops
    BY DEF Ops
  <2> QED
    BY <1>1, <1>3, <2>1 DEF Init, Origins
<1>8. Kept /\ Whole
  BY <1>2 DEF Init, Kept, Whole, Live, One
<1> QED
  BY <1>4, <1>5, <1>6, <1>7, <1>8 DEF IndInv

\* Every step keeps the invariant: one case per action.
LEMMA StepKeeps == ASSUME IndInv, [Next]_vars PROVE IndInv'
<1>1. ASSUME NEW k \in Kinds, Ask(k) PROVE IndInv'
  BY <1>1, StepAsk
<1>2. ASSUME NEW o \in Ops, Begin(o) \/ Refuse(o) \/ ResolveActionRequired(o) PROVE IndInv'
  BY <1>2, StepBegin, StepRefuse, StepResolve
<1>3. CASE Work
  BY <1>3, StepLifecycle, StepPrepare, StepPrepareFails, StepJournal, StepIntent, StepIntentFails,
     StepQuiesce, StepQuiesceFails, StepRequiesce, StepSwapOut, StepSwapOutFails, StepSwapIn,
     StepSwapInFails, StepUnconfirmed, StepRuntimePending, StepReplaceSecrets, StepResume,
     StepForwardFails, StepCommit, StepUpdateFails, StepClean, StepFinish, StepRbStop, StepRbAside,
     StepRbBack, StepRbRenameFails, StepRbSecrets, StepRbResume, StepRbFails, StepRbMark, StepReply,
     StepReplyFails, StepCompleteRecovery, StepCompleteRecoveryFails DEF Work
<1>4. CASE Startup
  BY <1>4, StepStart, StepRecovered, StepListen, StepRecoverOne, StepPayDebt DEF Startup
<1>5. CASE Crash
  BY <1>5, StepCrash
<1>6. CASE Wait \/ UNCHANGED vars
  BY <1>6, StepStutter DEF Wait
<1> QED
  BY <1>1, <1>2, <1>3, <1>4, <1>5, <1>6 DEF Next

\* The invariant of the whole specification, for every value of the constants.
THEOREM Invariance == Spec => []IndInv
<1>1. IndInv /\ [Next]_vars => IndInv'
  BY StepKeeps
<1> QED
  BY InitIsSound, <1>1, PTL DEF Spec

\* Type correctness: no loop of the handler or of recovery leaves its slots and no
\* counter its bound.
THEOREM TypeCorrect == Spec => []TypeOK
<1>1. IndInv => TypeOK
  BY DEF IndInv
<1> QED
  BY Invariance, <1>1, PTL

\* Until the restored application is known to run the old trees are on disk: the
\* renames of restoreApplicationBackupWithFence, the in-process rollback, a crash
\* anywhere and recoverInterruptedRestores never lose one.
THEOREM OldTreesKept == Spec => []OldKept
<1>1. ASSUME IndInv PROVE OldKept
  <2> USE DEF OldKept
  <2> TAKE o \in Ops
  <2> HAVE /\ row[o].phase \in Unresolved \ {"committed"}
           /\ receipt[o] \in {"running", "action_required"}
  <2>1. Ledger /\ Kept /\ row[o].phase # "none"
    BY <1>1 DEF IndInv, Unresolved
  <2>2. Live(o)
    BY <2>1 DEF Ledger, HasRecoveryLease, Live
  <2> QED
    BY <2>1, <2>2 DEF Kept, Undoable
<1> QED
  BY Invariance, <1>1, PTL

-----------------------------------------------------------------------------
(* Action properties.                                                      *)

\* Steps that write no receipt.
LEMMA SilentStep ==
    ASSUME [Next]_vars, ~Reply, ~CompleteRecovery, ~Start,
           \A o \in Ops : ~Begin(o) /\ ~Refuse(o) /\ ~ResolveActionRequired(o)
    PROVE  receipt' = receipt
<1> USE DEF ledger
<1>1. ASSUME NEW k \in Kinds, Ask(k) PROVE receipt' = receipt
  BY <1>1 DEF Ask
<1>2. CASE \/ Lifecycle \/ Prepare \/ PrepareFails \/ BeginRestoreJournal \/ UpdateRuntimeIntent
           \/ IntentFails \/ Quiesce \/ QuiesceFails \/ Requiesce
  BY <1>2 DEF Lifecycle, Prepare, PrepareFails, BeginRestoreJournal, UpdateRuntimeIntent,
              IntentFails, Quiesce, QuiesceFails, Requiesce
<1>3. CASE \/ SwapOut \/ SwapOutFails \/ SwapIn \/ SwapInFails \/ Unconfirmed \/ RuntimePending
           \/ ReplaceSecrets \/ Resume \/ ForwardFails \/ Commit \/ UpdateFails \/ Clean \/ Finish
  BY <1>3 DEF SwapOut, SwapOutFails, SwapIn, SwapInFails, Unconfirmed, RuntimePending,
              ReplaceSecrets, Resume, ForwardFails, Commit, UpdateFails, Clean, Finish
<1>4. CASE \/ RbStop \/ RbStopFails \/ RbAside \/ RbBack \/ RbRenameFails \/ RbSecrets \/ RbResume
           \/ RbFails \/ RbMark \/ ReplyFails \/ CompleteRecoveryFails
  BY <1>4 DEF RbStop, RbStopFails, RbAside, RbBack, RbRenameFails, RbSecrets, RbResume, RbFails,
              RbMark, ReplyFails, CompleteRecoveryFails
<1>5. ASSUME NEW o \in Ops, RecoverOne(o) \/ PayDebt(o) PROVE receipt' = receipt
  BY <1>5 DEF RecoverOne, PayDebt
<1>6. CASE Recovered \/ Listen \/ Crash \/ Wait \/ UNCHANGED vars
  BY <1>6 DEF Recovered, Listen, Crash, Wait, vars
<1> QED
  BY <1>1, <1>2, <1>3, <1>4, <1>5, <1>6 DEF Next, Work, Startup

\* A restore that is done, or undone, is so in the state after a step that leaves
\* disk, secrets and components alone.
LEMMA StillSo ==
    ASSUME NEW o \in Ops, row \in [Ops -> Rows], host \in [S -> Trees \cup {Gone}],
           UNCHANGED <<host, secrets, up>>
    PROVE  /\ Done(o) => Restored(o)' /\ secrets' = o /\ row[o].running \subseteq up'
           /\ Undone(o) => host' = row[o].orig /\ secrets' = row[o].origSecrets
<1>1. row[o].orig \in [S -> Trees \cup {Gone}]
  BY DEF Rows
<1>2. Undone(o) => host = row[o].orig
  <2>1. ASSUME Undone(o) PROVE \A s \in S : host[s] = row[o].orig[s]
    BY <2>1 DEF Undone, OrigFrom, S
  <2> QED
    BY <1>1, <2>1
<1> QED
  BY <1>2 DEF Done, Undone, Restored

\* What a reply says, step by step.
LEMMA ReplyStep ==
    ASSUME IndInv, [Next]_vars, NEW o \in Ops, receipt'[o] # receipt[o], kind[o] = "restore"
    PROVE  /\ receipt'[o] = "succeeded"
                => Restored(o)' /\ secrets' = o /\ row[o].running \subseteq up'
           /\ receipt'[o] = "failed" /\ row[o].phase # "none" /\ Single
                => /\ host' = row[o].orig /\ secrets' = row[o].origSecrets
                   /\ row[o].running \subseteq up'
<1>1. /\ TypeOK /\ Ledger /\ Worker /\ Journal /\ Swapped /\ RolledBack
      /\ row \in [Ops -> Rows] /\ host \in [S -> Trees \cup {Gone}]
      /\ receipt \in [Ops -> {"none", "running", "succeeded", "failed",
                              "action_required", "superseded"}]
      /\ answer \in {"ok", "error"} /\ faults \in Nat /\ resolves \in Nat
  BY AppRestoreBounds DEF IndInv, TypeOK, Rows
<1>2. CASE Reply
  <2>1. /\ pc = "reply" /\ UNCHANGED <<host, secrets, up, faults>>
        /\ receipt' = [receipt EXCEPT ![op] = IF answer = "error" /\ row[op].phase \in Unresolved
                                              THEN "action_required" ELSE Verdict]
    BY <1>2 DEF Reply, NeedsRecovery, disk, bounds
  <2>2. /\ o = op
        /\ receipt'[o] = "succeeded" => answer = "ok"
        /\ receipt'[o] = "failed" => answer = "error" /\ row[o].phase \notin Unresolved
    BY <1>1, <2>1 DEF Verdict
  <2>3. receipt'[o] = "succeeded" => Done(o)
    BY <1>1, <2>1, <2>2 DEF Swapped
  <2>4. receipt'[o] = "failed" /\ row[o].phase # "none" /\ Single =>
          Undone(o) /\ row[o].running \subseteq up
    BY <1>1, <2>1, <2>2 DEF Journal, RolledBack, Single
  <2> QED
    BY <1>1, <2>1, <2>3, <2>4, StillSo
<1>3. CASE CompleteRecovery
  <2>1. /\ pc = "settle" /\ UNCHANGED <<host, secrets, up>>
        /\ receipt' = [receipt EXCEPT ![op] = Verdict]
    BY <1>3 DEF CompleteRecovery, disk
  <2>2. /\ o = op /\ helper = "starting"
        /\ receipt'[o] = "succeeded" => answer = "ok"
        /\ receipt'[o] = "failed" => answer = "error"
    BY <1>1, <2>1 DEF Verdict, TypeOK, Worker
  <2>3. /\ answer = "ok" => Done(o)
        /\ answer = "error" => Undone(o) /\ row[o].running \subseteq up
    BY <1>1, <2>1, <2>2 DEF Swapped, RolledBack
  <2> QED
    BY <1>1, <2>1, <2>2, <2>3, StillSo
<1>4. CASE Start
  <2>1. receipt'[o] \in {receipt[o], "action_required"}
    BY <1>4 DEF Start, ReceiptAfterCrash
  <2> QED
    BY <2>1
<1>5. ASSUME NEW p \in Ops, Begin(p) \/ Refuse(p)
      PROVE  receipt'[o] # "succeeded" /\ (receipt'[o] = "failed" => row[o].phase = "none")
  <2>1. row[p].phase = "none"
    BY <1>1, <1>5 DEF Begin, Refuse, Ledger
  <2>2. CASE Begin(p)
    <3>1. receipt'[o] \in {"running", "superseded", receipt[o]}
      BY <2>2 DEF Begin
    <3> QED
      BY <3>1
  <2>3. CASE Refuse(p)
    <3>1. receipt' = [receipt EXCEPT ![p] = "failed"]
      BY <2>3 DEF Refuse
    <3> QED
      BY <1>1, <2>1, <3>1
  <2> QED
    BY <1>5, <2>2, <2>3
<1>6. ASSUME NEW p \in Ops, ResolveActionRequired(p)
      PROVE  receipt'[o] # "succeeded" /\ ~Single
  <2>1. resolves' = resolves + 1 /\ receipt' = [receipt EXCEPT ![p] = "failed"]
    BY <1>6 DEF ResolveActionRequired
  <2>2. resolves' # 0
    BY <1>1, <2>1
  <2>3. receipt'[o] # "succeeded"
    BY <1>1, <2>1
  <2> QED
    BY <2>2, <2>3 DEF Single
<1> QED
  BY <1>2, <1>3, <1>4, <1>5, <1>6, SilentStep

\* What a restore answers is true: success only with every slot, the secrets and the
\* components of the archive in place, a plain failure only with everything as it was.
THEOREM RepliesHold == Spec => RepliesAreTrue
<1>1. IndInv /\ [Next]_vars
        => [\A o \in Ops : receipt'[o] # receipt[o] /\ kind[o] = "restore" =>
              /\ receipt'[o] = "succeeded"
                   => Restored(o)' /\ secrets' = o /\ row[o].running \subseteq up'
              /\ receipt'[o] = "failed" /\ row[o].phase # "none" /\ Single
                   => /\ host' = row[o].orig /\ secrets' = row[o].origSecrets
                      /\ row[o].running \subseteq up']_vars
  BY ReplyStep
<1> QED
  BY Invariance, <1>1, PTL DEF RepliesAreTrue, Spec

\* Steps that start no component.
LEMMA NothingStarts ==
    ASSUME [Next]_vars, ~Lifecycle, ~Requiesce, ~Resume, ~ForwardFails, ~RbResume, ~RbFails
    PROVE  up' \subseteq up
<1>1. ASSUME NEW k \in Kinds, Ask(k) PROVE up' \subseteq up
  BY <1>1 DEF Ask
<1>2. CASE \/ Prepare \/ PrepareFails \/ BeginRestoreJournal \/ UpdateRuntimeIntent
           \/ IntentFails \/ Quiesce \/ QuiesceFails
  BY <1>2 DEF Prepare, PrepareFails, BeginRestoreJournal, UpdateRuntimeIntent, IntentFails,
              Quiesce, QuiesceFails
<1>3. CASE \/ SwapOut \/ SwapOutFails \/ SwapIn \/ SwapInFails \/ Unconfirmed \/ RuntimePending
           \/ ReplaceSecrets \/ Commit \/ UpdateFails \/ Clean \/ Finish
  BY <1>3 DEF SwapOut, SwapOutFails, SwapIn, SwapInFails, Unconfirmed, RuntimePending,
              ReplaceSecrets, Commit, UpdateFails, Clean, Finish
<1>4. CASE \/ RbStop \/ RbStopFails \/ RbAside \/ RbBack \/ RbRenameFails \/ RbSecrets
           \/ RbMark \/ Reply \/ ReplyFails \/ CompleteRecovery \/ CompleteRecoveryFails
  BY <1>4 DEF RbStop, RbStopFails, RbAside, RbBack, RbRenameFails, RbSecrets, RbMark, Reply,
              ReplyFails, CompleteRecovery, CompleteRecoveryFails
<1>5. ASSUME NEW o \in Ops, \/ RecoverOne(o) \/ PayDebt(o) \/ Begin(o) \/ Refuse(o)
                             \/ ResolveActionRequired(o)
      PROVE  up' \subseteq up
  BY <1>5 DEF RecoverOne, PayDebt, Begin, Refuse, ResolveActionRequired
<1>6. CASE Start \/ Recovered \/ Listen \/ Crash \/ Wait \/ UNCHANGED vars
  BY <1>6 DEF Start, Recovered, Listen, Crash, Wait, vars
<1> QED
  BY <1>1, <1>2, <1>3, <1>4, <1>5, <1>6 DEF Next, Work, Startup

\* In calm every position at which a component may be started has one version on
\* the disk.
LEMMA OneWhereStarted ==
    ASSUME IndInv, Calm, pc \in {"lifecycle", "requiesce", "resume", "rbResume"}
    PROVE  One /\ op \in Ops
<1>1. TypeOK /\ Worker /\ Journal /\ Swapped /\ RolledBack /\ Whole /\ pc \notin {"idle", "debts"}
  BY DEF IndInv
<1>2. op \in Ops /\ Live(op) /\ faults <= 1
  BY <1>1 DEF TypeOK, Worker, Live, HasRecoveryLease, InRecovery, Forward, Ahead, Back, Calm
<1>3. IF row[op].phase = "none" THEN One ELSE OrigIsOne(op)
  BY <1>1, <1>2 DEF Whole
<1>4. CASE pc = "lifecycle"
  BY <1>1, <1>2, <1>3, <1>4 DEF Journal, Before
<1>5. CASE pc = "resume"
  BY <1>1, <1>2, <1>5 DEF Swapped, Forward, Ahead, Restored, One
<1>6. CASE pc \in {"requiesce", "rbResume"}
  <2>1. Undone(op)
    BY <1>1, <1>2, <1>6 DEF Swapped, RolledBack, Stopping
  <2>2. row[op].phase # "none"
    BY <1>1, <1>6 DEF Journal, Active, Stopping, Back, Unresolved
  <2> QED
    BY <1>2, <1>3, <2>1, <2>2 DEF Undone, OrigFrom, OrigIsOne, One, S
<1> QED
  BY <1>2, <1>4, <1>5, <1>6

\* A step that starts a component starts it on one version.
LEMMA StartsWhole ==
    ASSUME IndInv, [Next]_vars, Single, ~(up' \subseteq up)
    PROVE  OneVersion'
<1>1. TypeOK
  BY DEF IndInv
<1>2. Lifecycle \/ Requiesce \/ Resume \/ ForwardFails \/ RbResume \/ RbFails
  BY NothingStarts
<1>3. /\ pc \in {"lifecycle", "requiesce", "resume", "rbResume"}
      /\ UNCHANGED <<secrets, receipt, resolves>> /\ (UNCHANGED host \/ Mount)
      /\ UNCHANGED faults \/ Fault
  BY <1>2 DEF Lifecycle, Requiesce, Resume, ForwardFails, RbResume, RbFails, StartNext, ledger, bounds, Fault
<1>4. faults' >= faults /\ faults' \in Nat
  <2>1. faults \in Nat /\ MaxFaults \in Nat
    BY <1>1, AppRestoreBounds DEF TypeOK
  <2> QED
    BY <1>3, <2>1 DEF Fault
<1>5. Calm
  <2>1. Calm'
    BY DEF Single, Calm
  <2> QED
    BY <1>1, <1>3, <1>4, <2>1, CalmBefore
<1>6. One /\ op \in Ops
  BY <1>3, <1>5, OneWhereStarted
<1>7. Mountable
  BY <1>1, <1>6, AppRestoreBounds DEF One, Mountable, TypeOK, Versions, Gone
<1>8. host' = host
  BY <1>1, <1>3, <1>6, <1>7, MountIs
<1> QED
  BY <1>1, <1>3, <1>6, <1>8 DEF One, OneVersion, TypeOK

\* Nothing is started on a mixture: resumeBackupRuntime, on the way forward, on the
\* way back, in startup recovery or for another operation, finds every slot and the
\* secrets of one version, whatever single call failed and wherever the helper died.
THEOREM NeverMixed == Spec => NeverStartsMixed
<1>1. IndInv /\ [Next]_vars => [Single /\ ~(up' \subseteq up) => OneVersion']_vars
  BY StartsWhole
<1> QED
  BY Invariance, <1>1, PTL DEF NeverStartsMixed, Spec

=============================================================================
