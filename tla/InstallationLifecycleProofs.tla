--------------------- MODULE InstallationLifecycleProofs ---------------------
(***************************************************************************)
(* Proofs about InstallationLifecycle for any number of generations,       *)
(* operations, faults, crashes and drifting containers: which generation   *)
(* has authority, what the rows say of containers and networks, what a     *)
(* reply means, and that two generations do not run at once.               *)
(***************************************************************************)
EXTENDS InstallationLifecycle, FiniteSetTheorems, WellFoundedInduction, TLAPS

HavingIn(t, S) == {g \in Gens : t[g].status \in S}

CurrentIn(t) ==
    IF HavingIn(t, {"active"}) # {} THEN Max(HavingIn(t, {"active"}))
    ELSE Max({0} \cup HavingIn(t, {"removed"}))

Past == {"active", "retained", "cleanup_pending", "removed"}
Fresh == {"none", "prepared", "candidate", "failed", "removed"}
Gone == {"none", "removed"}

\* Generation k is the current one of table t: what is above it was never
\* committed, and only its successor has a row.
Top(t, k) ==
    /\ k \in 0..MaxGen
    /\ \A g \in Gens : g <= k => t[g].status \in Past
    /\ \A g \in Gens : g < k => t[g].status # "active"
    /\ k # 0 => t[k].status \in {"active", "removed"}
    /\ \A g \in Gens : g > k => t[g].status \in Fresh
    /\ \A g \in Gens : g > k + 1 => t[g].status = "none"
    /\ \A g \in Gens : g > k /\ t[g].status = "removed" => k # 0 /\ t[k].status = "active"

RetainedOnce(t) ==
    \A g, h \in Gens : t[g].status = "retained" /\ t[h].status = "retained" => g = h

\* The table is a ladder up to the current generation.
InOrder == Top(gen, Current) /\ RetainedOnce(gen)

\* A row carries the number of the operation that prepared it.
Numbered ==
    /\ \A g \in Gens : gen[g].op <= holder
    /\ \A g, h \in Gens : gen[g].op = gen[h].op /\ gen[g].op # 0 => g = h
    /\ pc = "prepare" => \A g \in Gens : gen[g].op # holder

\* The worker holds the lease; an operation that gave it up does not have it.
Leased ==
    /\ helper # "up" => pc = "idle"
    /\ pc # "idle" => lease = "held"
    /\ lease # "free" => holder # 0 /\ holder \notin yielded
    /\ \A o \in yielded : o <= holder
    /\ pc # "abortMark" => dirty = FALSE
    /\ pc # "idle" /\ job.kind \in Replacements => job.gen \in Gens
    /\ pc = "prepare" => job.kind \in Replacements /\ job.base = 0

Early == {"network", "recordNetwork", "container"}
Built == {"recordCreated", "verifyStopped", "precutover", "stopOld"}
Cut == {"recordRunning", "verifyRunning", "commit", "cutoverFailed"}
Abort == {"abortContainer", "abortNetwork", "abortMark"}
Replacing == Early \cup Built \cup {"startCandidate"} \cup Cut \cup {"rollback"} \cup Abort

Runs(g) == box[g] \in {"running", "restarting"}
Steady == used.flaps = 0

\* The candidate is the successor of the current generation.
OwnsCandidate ==
    pc \in Replacing =>
        /\ job.kind \in Replacements /\ job.gen = Current + 1
        /\ gen[job.gen].op = holder /\ gen[job.gen].status \in {"prepared", "candidate"}
        /\ job.base = IF HasActive THEN Current ELSE 0
        /\ pc \in {"stopOld", "rollback"} => HasActive

\* What each step knows of the candidate's container.
CandidateBox ==
    /\ pc \in Early => box[job.gen] = "absent"
    /\ pc \in Built \cup {"startCandidate"} => box[job.gen] \in {"absent", "stopped"}
    /\ pc \in (Built \ {"recordCreated"}) \cup {"startCandidate", "rollback"} \cup Cut => gen[job.gen].cid
    /\ pc = "abortContainer" => gen[job.gen].cid \/ box[job.gen] = "absent"
    /\ pc = "abortNetwork" => box[job.gen] = "absent"
    /\ pc = "abortMark" /\ ~dirty => Absent(job.gen)
    /\ Steady /\ pc \in Abort \cup {"rollback"} => ~Runs(job.gen)

\* What each step knows of the container of the old generation.
OldBox ==
    /\ pc \in Early \cup Built \cup Abort /\ job.base # 0 /\ job.kind # "recreate"
         /\ used.drift + used.flaps = 0 => box[job.base] = "running"
    /\ Steady /\ pc \in {"startCandidate", "rollback"} \cup Cut /\ job.base # 0 => ~Runs(job.base)

\* cleanupOlder works on debt, after the commit.
Cleaning ==
    /\ pc \in {"olderContainer", "olderNetwork", "olderMark"} =>
         /\ job.kind \in Replacements /\ gen[job.gen].status = "active"
         /\ todo # {} /\ \A h \in todo : gen[h].status \notin Gone \cup {"active"}
    /\ pc \in {"olderNetwork", "olderMark"} => box[older] = "absent"
    /\ pc = "olderMark" => older \notin nets

\* The operations work on the active generation.
Operating ==
    /\ pc = "operate" => job.kind \in Operations
    /\ pc \in {"opStop", "opRecordStop", "opStart", "opRecordStart", "opRemove", "opRemoveNetwork",
               "opMarkRemoved"} =>
         job.kind \in Operations /\ job.base \in Gens /\ gen[job.base].status = "active"
    /\ pc \in {"opRemove", "opRemoveNetwork", "opMarkRemoved"} => job.kind = "remove"
    /\ pc \in {"opRemoveNetwork", "opMarkRemoved"} => box[job.base] = "absent"
    /\ pc = "opMarkRemoved" => job.base \notin nets

\* The repairs clean what is not active.
Repairing ==
    /\ pc = "reconcile" => job.kind = "reconcile"
    /\ pc \in {"repair", "start_active", "cleanup_resources", "acknowledge_retained_missing", "repairRecord",
               "repairNetwork", "repairMark", "repairVerify"} => job.kind \in Repairs
    /\ pc \in {"cleanup_resources", "repairNetwork", "repairMark"} =>
         \A h \in todo : gen[h].status \notin Gone \cup {"active"}
    /\ pc \in {"repairNetwork", "repairMark"} => todo # {} /\ box[debt] = "absent"
    /\ pc = "repairMark" => debt \notin nets
    /\ pc = "repairRecord" => HasActive

\* Only the current generation and its successor run; both do only if the successor
\* belongs to an operation that gave up its lease.  A successor that runs is known
\* to the operation that holds the lease.
Running ==
    Steady =>
        /\ \A g \in Gens : box[g] # "restarting"
        /\ \A g \in Gens : Runs(g) => g >= Current
        /\ \A g, h \in Gens : Runs(g) /\ Runs(h) /\ g < h => gen[h].op \in yielded
        /\ \A g \in Gens : Runs(g) /\ g > Current /\ gen[g].op \notin yielded =>
             /\ gen[g].op = holder /\ lease # "free"
             /\ pc \in Cut \cup {"idle", "unsaved"} \/ (pc = "complete" /\ verdict = "unknown")

IndInv ==
    /\ TypeOK /\ InOrder /\ NothingForgotten /\ Numbered /\ Leased
    /\ OwnsCandidate /\ CandidateBox /\ OldBox /\ Cleaning /\ Operating /\ Repairing
    /\ RepliesAreTrue /\ Running

-----------------------------------------------------------------------------
(* Numbers.                                                                *)

\* A set of numbers that is not empty has a smallest one.
LEMMA LeastOf ==
    ASSUME NEW S, S \subseteq Nat, S # {}
    PROVE  \E m \in S : \A x \in S : m <= x
<1>1. PICK m \in S : \A x \in S : ~(<<x, m>> \in OpToRel(<, Nat))
  BY NatLessThanWellFounded, WFMin
<1>2. ASSUME NEW x \in S PROVE m <= x
  <2>1. m \in Nat /\ x \in Nat
    OBVIOUS
  <2>2. ~(x < m)
    BY <1>1, <2>1 DEF OpToRel
  <2> QED
    BY <2>1, <2>2
<1> QED
  BY <1>2

\* The smallest generation of a set is one of the set.
LEMMA MinIn ==
    ASSUME NEW S, S \subseteq Nat, S # {}
    PROVE  Min(S) \in S
<1>1. PICK m \in S : \A x \in S : m <= x
  BY LeastOf
<1> QED
  BY <1>1 DEF Min

\* The largest number of a bounded set is in it and not below any.
LEMMA MaxIn ==
    ASSUME NEW S, S \subseteq Nat, S # {}, NEW b \in Nat, \A x \in S : x <= b
    PROVE  Max(S) \in S /\ \A x \in S : x <= Max(S)
<1> DEFINE D == {d \in Nat : \E x \in S : x + d = b}
<1>1. D \subseteq Nat /\ D # {}
  <2>1. PICK x \in S : TRUE
    OBVIOUS
  <2>2. x \in Nat /\ x <= b
    BY <2>1
  <2>3. b - x \in Nat /\ x + (b - x) = b
    BY <2>2
  <2> QED
    BY <2>1, <2>3
<1>2. PICK m \in D : \A d \in D : m <= d
  <2> HIDE DEF D
  <2> QED
    BY <1>1, LeastOf
<1>3. PICK x \in S : x + m = b
  OBVIOUS
<1>4. \A y \in S : x >= y
  <2> TAKE y \in S
  <2>1. x \in Nat /\ y \in Nat /\ m \in Nat /\ y <= b
    OBVIOUS
  <2>2. b - y \in Nat /\ y + (b - y) = b
    BY <2>1
  <2>3. b - y \in D
    BY <2>2
  <2>4. m <= b - y
    BY <2>3, <1>2
  <2> HIDE DEF D
  <2> QED
    BY <2>1, <2>4, <1>3
<1>5. Max(S) \in S /\ \A y \in S : Max(S) >= y
  BY <1>4 DEF Max
<1> QED
  BY <1>5

\* Among some generations there is a first by rank and then by number.
LEMMA FirstOf ==
    ASSUME NEW S, S \subseteq Gens, S # {}, NEW rank \in [Gens -> Nat]
    PROVE  \E g \in S : \A h \in S : rank[g] < rank[h] \/ (rank[g] = rank[h] /\ g >= h)
<1> DEFINE R == {rank[g] : g \in S}
<1>1. R \subseteq Nat /\ R # {}
  OBVIOUS
<1>2. PICK m \in R : \A x \in R : m <= x
  <2> HIDE DEF R
  <2> QED
    BY <1>1, LeastOf
<1>3. \A h \in S : m <= rank[h]
  BY <1>2
<1> DEFINE T == {g \in S : rank[g] = m}
<1>4. T # {} /\ T \subseteq S
  OBVIOUS
<1>5. S \subseteq Nat /\ \A g \in S : g <= MaxGen
  BY LifecycleBounds DEF Gens
<1>6. Max(T) \in T /\ \A g \in T : g <= Max(T)
  BY <1>4, <1>5, MaxIn, LifecycleBounds
<1>7. PICK g : g = Max(T)
  OBVIOUS
<1>8. g \in S /\ rank[g] = m /\ \A h \in S : rank[h] = m => h <= g
  BY <1>6, <1>7
<1>9. ASSUME NEW h \in S PROVE rank[g] < rank[h] \/ (rank[g] = rank[h] /\ g >= h)
  <2>1. rank[h] \in Nat /\ m \in Nat /\ m <= rank[h] /\ h \in Nat /\ g \in Nat
    BY <1>1, <1>3, <1>5, <1>8
  <2> HIDE DEF R, T
  <2>2. CASE rank[h] = m
    BY <2>1, <2>2, <1>8
  <2>3. CASE rank[h] # m
    BY <2>1, <2>3, <1>8
  <2> QED
    BY <2>2, <2>3
<1> QED
  BY <1>8, <1>9

DebtIn(t, T) ==
    LET rank(g) == CASE t[g].status = "retained" -> 2
                     [] t[g].status = "cleanup_pending" -> 3 [] OTHER -> 4
    IN  CHOOSE g \in T : \A h \in T : rank(g) < rank(h) \/ (rank(g) = rank(h) /\ g >= h)

\* The debt a repair deals with is read from the table and the work list.
LEMMA DebtReads == debt = DebtIn(gen, todo) /\ debt' = DebtIn(gen', todo')
BY DEF debt, DebtIn

\* It is on the work list.
LEMMA DebtIsDue ==
    ASSUME NEW t, NEW T, T \subseteq Gens, T # {}
    PROVE  DebtIn(t, T) \in T
<1> DEFINE r(g) == CASE t[g].status = "retained" -> 2
                     [] t[g].status = "cleanup_pending" -> 3 [] OTHER -> 4
<1>1. PICK rank : rank = [g \in Gens |-> r(g)]
  OBVIOUS
<1>2. rank \in [Gens -> Nat]
  BY <1>1
<1>3. PICK g \in T : \A h \in T : rank[g] < rank[h] \/ (rank[g] = rank[h] /\ g >= h)
  BY <1>2, FirstOf
<1>4. \A h \in T : r(h) = rank[h]
  BY <1>1
<1> HIDE DEF r
<1>5. \A h \in T : r(g) < r(h) \/ (r(g) = r(h) /\ g >= h)
  BY <1>3, <1>4
<1>6. (CHOOSE x \in T : \A h \in T : r(x) < r(h) \/ (r(x) = r(h) /\ x >= h)) \in T
  BY <1>5
<1>7. DebtIn(t, T) = CHOOSE x \in T : \A h \in T : r(x) < r(h) \/ (r(x) = r(h) /\ x >= h)
  BY DEF DebtIn, r
<1> QED
  BY <1>6, <1>7

\* The generation a reconciliation checks exists, or there is none.
LEMMA CheckedIn == CheckedGeneration \in 0..MaxGen
<1> DEFINE r(g) == CASE gen[g].status = "active" -> 0 [] gen[g].status = "retained" -> 2
                     [] gen[g].status = "cleanup_pending" -> 3 [] OTHER -> 4
           live == {g \in Gens : Role(g) # "none"}
<1>1. PICK rank : rank = [g \in Gens |-> r(g)]
  OBVIOUS
<1>2. rank \in [Gens -> Nat]
  BY <1>1
<1>3. CASE live = {}
  <2>1. CheckedGeneration = Max({0} \cup Having({"removed"}))
    BY <1>3 DEF CheckedGeneration
  <2>2. {0} \cup Having({"removed"}) \subseteq Nat /\ \A x \in {0} \cup Having({"removed"}) : x <= MaxGen
    BY LifecycleBounds DEF Having, Gens
  <2>3. Max({0} \cup Having({"removed"})) \in {0} \cup Having({"removed"})
    BY <2>2, MaxIn, LifecycleBounds
  <2> QED
    BY <2>1, <2>3, LifecycleBounds DEF Having, Gens
<1>4. CASE live # {}
  <2>1. live \subseteq Gens
    OBVIOUS
  <2> HIDE DEF live
  <2>2. PICK g \in live : \A h \in live : rank[g] < rank[h] \/ (rank[g] = rank[h] /\ g >= h)
    BY <2>1, <1>2, <1>4, FirstOf
  <2>3. \A h \in live : r(h) = rank[h]
    BY <2>1, <1>1
  <2> HIDE DEF r
  <2>4. \A h \in live : r(g) < r(h) \/ (r(g) = r(h) /\ g >= h)
    BY <2>2, <2>3
  <2>5. (CHOOSE x \in live : \A h \in live : r(x) < r(h) \/ (r(x) = r(h) /\ x >= h)) \in live
    BY <2>4
  <2>6. CheckedGeneration = CHOOSE x \in live : \A h \in live : r(x) < r(h) \/ (r(x) = r(h) /\ x >= h)
    BY <1>4 DEF CheckedGeneration, r, live
  <2>7. CheckedGeneration \in Gens
    BY <2>1, <2>5, <2>6
  <2>8. Gens \subseteq 0..MaxGen
    BY LifecycleBounds DEF Gens
  <2> QED
    BY <2>7, <2>8
<1> QED
  BY <1>3, <1>4

-----------------------------------------------------------------------------
(* The table of generations.                                               *)

\* Current reads the table.
LEMMA CurrentReads ==
    /\ Current = CurrentIn(gen) /\ Current' = CurrentIn(gen')
    /\ HasActive = (HavingIn(gen, {"active"}) # {}) /\ HasActive' = (HavingIn(gen', {"active"}) # {})
BY DEF Current, CurrentIn, Having, HavingIn, HasActive

\* The current generation of a table in order is the top of the ladder.
LEMMA TopIsCurrent ==
    ASSUME NEW t, NEW k, Top(t, k)
    PROVE  /\ CurrentIn(t) = k
           /\ (HavingIn(t, {"active"}) # {}) <=> (k # 0 /\ t[k].status = "active")
<1>1. k \in Nat /\ k <= MaxGen /\ MaxGen \in Nat /\ (k # 0 => k \in Gens)
  BY LifecycleBounds DEF Top, Gens
<1>2. \A g \in Gens : g \in Nat /\ g # 0 /\ g <= MaxGen
  BY LifecycleBounds DEF Gens
<1>3. \A g \in Gens : t[g].status = "active" => g = k
  <2> TAKE g \in Gens
  <2>1. g < k \/ g = k \/ g > k
    BY <1>1, <1>2
  <2> QED
    BY <2>1 DEF Top, Fresh
<1>4. CASE k # 0 /\ t[k].status = "active"
  <2>1. HavingIn(t, {"active"}) = {k}
    BY <1>1, <1>3, <1>4 DEF HavingIn
  <2>2. Max({k}) \in {k}
    <3>1. {k} \subseteq Nat /\ {k} # {} /\ \A x \in {k} : x <= MaxGen
      BY <1>1
    <3> QED
      BY <3>1, <1>1, MaxIn
  <2> QED
    BY <2>1, <2>2, <1>4 DEF CurrentIn
<1>5. CASE ~(k # 0 /\ t[k].status = "active")
  <2>1. HavingIn(t, {"active"}) = {}
    BY <1>2, <1>3, <1>5 DEF HavingIn
  <2>2. PICK R : R = {0} \cup HavingIn(t, {"removed"})
    OBVIOUS
  <2>3. R \subseteq Nat /\ R # {} /\ \A x \in R : x <= MaxGen
    BY <1>1, <1>2, <2>2 DEF HavingIn
  <2>4. k \in R
    BY <1>1, <1>5, <2>2 DEF Top, HavingIn
  <2>5. ASSUME NEW x \in R PROVE x <= k
    <3>1. CASE x = 0
      BY <3>1, <1>1
    <3>2. CASE x \in Gens /\ t[x].status = "removed"
      BY <3>2, <1>1, <1>2, <1>5 DEF Top
    <3> QED
      BY <3>1, <3>2, <2>2 DEF HavingIn
  <2>6. Max(R) \in R /\ \A x \in R : x <= Max(R)
    BY <2>3, <1>1, MaxIn
  <2>7. Max(R) = k
    <3>1. Max(R) <= k /\ k <= Max(R) /\ Max(R) \in Nat
      BY <2>3, <2>4, <2>5, <2>6
    <3> QED
      BY <3>1, <1>1
  <2> QED
    BY <2>1, <2>2, <2>7, <1>5 DEF CurrentIn
<1> QED
  BY <1>4, <1>5

\* A table with a top is in order.
LEMMA InOrderFrom ==
    ASSUME NEW m, Top(gen', m), RetainedOnce(gen')
    PROVE  /\ InOrder' /\ Current' = m
           /\ HasActive' <=> (m # 0 /\ gen'[m].status = "active")
<1>1. CurrentIn(gen') = m /\ ((HavingIn(gen', {"active"}) # {}) <=> (m # 0 /\ gen'[m].status = "active"))
  BY TopIsCurrent
<1>2. Current' = m
  BY <1>1, CurrentReads
<1> QED
  BY <1>1, <1>2, CurrentReads DEF InOrder

\* What the order of the table says of the current generation.
LEMMA CurrentIs ==
    ASSUME InOrder
    PROVE  /\ Current \in Nat /\ Current <= MaxGen /\ (Current # 0 => Current \in Gens)
           /\ HasActive <=> (Current # 0 /\ gen[Current].status = "active")
           /\ Current # 0 /\ ~HasActive => gen[Current].status = "removed"
           /\ \A g \in Gens : gen[g].status = "active" => g = Current
           /\ \A g \in Gens : gen[g].status \in {"prepared", "candidate", "failed"} => g = Current + 1
           /\ \A g \in Gens : g > Current + 1 => gen[g].status = "none"
<1>1. Top(gen, Current)
  BY DEF InOrder
<1>2. Current \in Nat /\ Current <= MaxGen /\ (Current # 0 => Current \in Gens)
  BY <1>1, LifecycleBounds DEF Top, Gens
<1>3. HasActive <=> (Current # 0 /\ gen[Current].status = "active")
  BY <1>1, TopIsCurrent, CurrentReads
<1>4. ASSUME NEW g \in Gens
      PROVE  /\ gen[g].status = "active" => g = Current
             /\ gen[g].status \in {"prepared", "candidate", "failed"} => g = Current + 1
             /\ g > Current + 1 => gen[g].status = "none"
  <2>1. g \in Nat /\ (g < Current \/ g = Current \/ g = Current + 1 \/ g > Current + 1)
    BY <1>2, LifecycleBounds DEF Gens
  <2>2. CASE g < Current
    BY <1>1, <1>2, <2>1, <2>2 DEF Top, Past
  <2>3. CASE g = Current
    BY <1>1, <1>2, <2>1, <2>3 DEF Top, Past
  <2>4. CASE g = Current + 1
    BY <1>1, <1>2, <2>1, <2>4 DEF Top, Fresh
  <2>5. CASE g > Current + 1
    BY <1>1, <1>2, <2>1, <2>5 DEF Top, Fresh
  <2> QED
    BY <2>1, <2>2, <2>3, <2>4, <2>5
<1> QED
  BY <1>1, <1>2, <1>3, <1>4 DEF Top

\* A table whose statuses stay as they are stays in order.
LEMMA Untouched ==
    ASSUME InOrder, \A g \in Gens : gen'[g].status = gen[g].status
    PROVE  InOrder' /\ Current' = Current /\ (HasActive' <=> HasActive)
<1>1. PICK k : k = Current
  OBVIOUS
<1>2. Top(gen, k) /\ RetainedOnce(gen) /\ (k # 0 => k \in Gens)
  BY <1>1, CurrentIs DEF InOrder
<1>3. Top(gen', k) /\ RetainedOnce(gen')
  BY <1>2 DEF Top, RetainedOnce
<1> QED
  BY <1>1, <1>2, <1>3, InOrderFrom, CurrentIs

\* Only the successor of the current generation changes, and is not committed.
LEMMA Freshened ==
    ASSUME InOrder, NEW c0 \in Gens, c0 = Current + 1,
           \A g \in Gens : g # c0 => gen'[g].status = gen[g].status,
           gen'[c0].status \in {"prepared", "candidate", "failed"}
    PROVE  InOrder' /\ Current' = Current /\ (HasActive' <=> HasActive)
<1>1. PICK k : k = Current
  OBVIOUS
<1>2. Top(gen, k) /\ RetainedOnce(gen) /\ (k # 0 => k \in Gens) /\ k \in Nat /\ c0 = k + 1
  BY <1>1, CurrentIs DEF InOrder
<1>3. \A g \in Gens : g \in Nat
  BY DEF Gens
<1>4. ASSUME NEW g \in Gens
      PROVE  /\ g <= k => gen'[g].status \in Past
             /\ g < k => gen'[g].status # "active"
             /\ g > k => gen'[g].status \in Fresh
             /\ g > k + 1 => gen'[g].status = "none"
             /\ g > k /\ gen'[g].status = "removed" => k # 0 /\ gen'[k].status = "active"
  <2>1. CASE g = c0
    BY <2>1, <1>2, <1>3 DEF Fresh
  <2>2. CASE g # c0
    <3>1. gen'[g].status = gen[g].status
      BY <2>2
    <3>2. k # 0 => gen'[k].status = gen[k].status
      BY <1>2, <1>3
    <3> QED
      BY <3>1, <3>2, <1>2 DEF Top
  <2> QED
    BY <2>1, <2>2
<1>5. k # 0 => gen'[k].status \in {"active", "removed"}
  BY <1>2 DEF Top
<1>6. Top(gen', k)
  BY <1>2, <1>4, <1>5 DEF Top
<1>7. RetainedOnce(gen')
  BY <1>2 DEF RetainedOnce
<1>8. k # 0 => gen'[k].status = gen[k].status
  BY <1>2
<1> QED
  BY <1>1, <1>2, <1>6, <1>7, <1>8, InOrderFrom, CurrentIs

Demotes(s, t) ==
    t = s \/ (s = "retained" /\ t = "cleanup_pending") \/ (s # "none" /\ t = "removed")

\* Retained generations become debt and any generation becomes a tombstone: the
\* top stays, or moves to a removed successor.
LEMMA Demoted ==
    ASSUME InOrder, \A g \in Gens : Demotes(gen[g].status, gen'[g].status)
    PROVE  /\ InOrder'
           /\ \/ Current' = Current
              \/ Current' = Current + 1 /\ (Current # 0 => gen'[Current].status = "removed")
           /\ HasActive' => HasActive /\ Current' = Current
           /\ HasActive /\ gen'[Current].status = "active" => HasActive'
<1>1. PICK k : k = Current
  OBVIOUS
<1>2. Top(gen, k) /\ RetainedOnce(gen) /\ (k # 0 => k \in Gens) /\ k \in Nat /\ k <= MaxGen
  BY <1>1, CurrentIs DEF InOrder
<1>3. \A g \in Gens : g \in Nat /\ g # 0 /\ g <= MaxGen
  BY LifecycleBounds DEF Gens
<1>4. RetainedOnce(gen')
  BY <1>2 DEF RetainedOnce, Demotes
<1>5. ASSUME NEW g \in Gens
      PROVE  /\ g <= k => gen'[g].status \in Past
             /\ g < k => gen'[g].status # "active"
             /\ g > k => gen'[g].status \in Fresh
             /\ g > k + 1 => gen'[g].status = "none"
  BY <1>2 DEF Top, Demotes, Past, Fresh
<1>6. k # 0 => gen'[k].status \in {"active", "removed"}
  BY <1>2 DEF Top, Demotes
<1>7. CASE \A g \in Gens : g > k /\ gen'[g].status = "removed" => k # 0 /\ gen'[k].status = "active"
  <2>1. Top(gen', k)
    BY <1>2, <1>5, <1>6, <1>7 DEF Top
  <2>2. k # 0 => (gen'[k].status = "active" => gen[k].status = "active")
    BY <1>2 DEF Demotes
  <2> QED
    BY <1>1, <1>2, <1>4, <2>1, <2>2, InOrderFrom, CurrentIs
<1>8. CASE ~(\A g \in Gens : g > k /\ gen'[g].status = "removed" => k # 0 /\ gen'[k].status = "active")
  <2>1. PICK g \in Gens : g > k /\ gen'[g].status = "removed" /\ ~(k # 0 /\ gen'[k].status = "active")
    BY <1>8
  <2>2. ~(g > k + 1)
    BY <2>1, <1>5
  <2>3. g = k + 1
    BY <2>1, <2>2, <1>2, <1>3
  <2>4. k + 1 \in Nat /\ k + 1 <= MaxGen /\ k + 1 # 0 /\ k + 1 \in Gens
    BY <2>3, <1>2, <1>3
  <2>5. gen'[k + 1].status = "removed"
    BY <2>1, <2>3
  <2>6. k # 0 => gen'[k].status = "removed"
    BY <2>1, <1>6
  <2>7. ASSUME NEW h \in Gens
        PROVE  /\ h <= k + 1 => gen'[h].status \in Past
               /\ h < k + 1 => gen'[h].status # "active"
               /\ h > k + 1 => gen'[h].status = "none"
    <3>1. h \in Nat /\ k \in Nat
      BY <1>2, <1>3
    <3>2. h < k \/ h = k \/ h = k + 1 \/ h > k + 1
      BY <3>1
    <3>3. CASE h < k
      BY <3>1, <3>3, <1>5
    <3>4. CASE h = k
      <4>1. k # 0
        BY <3>4, <1>3
      <4> QED
        BY <3>1, <3>4, <4>1, <2>6 DEF Past
    <3>5. CASE h = k + 1
      BY <3>1, <3>5, <2>5 DEF Past
    <3>6. CASE h > k + 1
      BY <3>1, <3>6, <1>5
    <3> QED
      BY <3>2, <3>3, <3>4, <3>5, <3>6
  <2>9. PICK m : m = k + 1
    OBVIOUS
  <2>10. m \in 0..MaxGen /\ m # 0
    BY <2>4, <2>9, LifecycleBounds
  <2>11. Top(gen', m)
    <3>1. ASSUME NEW h \in Gens
          PROVE  /\ h <= m => gen'[h].status \in Past
                 /\ h < m => gen'[h].status # "active"
                 /\ h > m => gen'[h].status = "none"
      BY <2>7, <2>9
    <3>2. ASSUME NEW h \in Gens, h > m + 1 PROVE gen'[h].status = "none"
      <4>1. h > m
        BY <3>2, <1>3, <2>4, <2>9
      <4> QED
        BY <4>1, <3>1
    <3>3. gen'[m].status = "removed"
      BY <2>5, <2>9
    <3> QED
      BY <2>10, <3>1, <3>2, <3>3 DEF Top, Fresh
  <2>12. InOrder' /\ Current' = m /\ ~HasActive'
    BY <1>4, <2>5, <2>9, <2>11, InOrderFrom
  <2>13. HasActive => gen'[Current].status # "active"
    BY <1>1, <2>6, CurrentIs
  <2> QED
    BY <1>1, <2>6, <2>9, <2>12, <2>13
<1> QED
  BY <1>7, <1>8

\* Authority moves to the successor.
LEMMA Switched ==
    ASSUME InOrder, NEW c0 \in Gens, c0 = Current + 1,
           gen'[c0].status = "active",
           Current # 0 =>
               \/ gen'[Current].status = gen[Current].status /\ gen[Current].status # "active"
               \/ gen'[Current].status \in {"retained", "cleanup_pending"},
           \A g \in Gens : g # c0 /\ g # Current =>
               \/ gen'[g].status = gen[g].status /\ gen[g].status # "retained"
               \/ gen[g].status = "retained" /\ gen'[g].status = "cleanup_pending"
    PROVE  InOrder' /\ Current' = c0 /\ HasActive'
<1>1. PICK k : k = Current
  OBVIOUS
<1>2. Top(gen, k) /\ (k # 0 => k \in Gens /\ k \in Nat) /\ k \in Nat /\ c0 = k + 1 /\ c0 \in Nat /\ c0 # 0
  BY <1>1, CurrentIs DEF InOrder, Gens
<1>3. \A g \in Gens : g \in Nat /\ g # 0 /\ g <= MaxGen
  BY LifecycleBounds DEF Gens
<1>4. k # 0 => gen'[k].status \in {"removed", "retained", "cleanup_pending"}
  BY <1>1, <1>2 DEF Top
<1>5. ASSUME NEW g \in Gens
      PROVE  /\ g <= c0 => gen'[g].status \in Past
             /\ g < c0 => gen'[g].status # "active"
             /\ g > c0 => gen'[g].status = "none"
             /\ gen'[g].status = "retained" => g = k
  <2>1. g \in Nat /\ (g < k \/ g = k \/ g = c0 \/ g > c0)
    BY <1>2, <1>3
  <2>2. CASE g < k
    <3>1. g # c0 /\ g # k /\ gen[g].status \in Past \ {"active"}
      BY <2>1, <2>2, <1>2 DEF Top
    <3>2. gen'[g].status \in Past \ {"active", "retained"}
      BY <3>1, <1>1 DEF Past
    <3> QED
      BY <3>2, <2>1, <2>2, <1>2
  <2>3. CASE g = k
    <3>1. k # 0
      BY <2>3, <1>3
    <3> QED
      BY <3>1, <2>3, <1>4, <1>2 DEF Past
  <2>4. CASE g = c0
    BY <2>4, <1>2 DEF Past
  <2>5. CASE g > c0
    <3>1. g # c0 /\ g # k /\ gen[g].status = "none"
      BY <2>1, <2>5, <1>2 DEF Top
    <3>2. gen'[g].status = "none"
      BY <3>1, <1>1
    <3> QED
      BY <3>2, <2>1, <2>5, <1>2
  <2> QED
    BY <2>1, <2>2, <2>3, <2>4, <2>5
<1>6. c0 \in 0..MaxGen
  BY LifecycleBounds DEF Gens
<1>7. ASSUME NEW g \in Gens, g > c0
      PROVE  gen'[g].status \in Fresh /\ ~(gen'[g].status = "removed")
  BY <1>5, <1>7 DEF Fresh
<1>8. ASSUME NEW g \in Gens, g > c0 + 1 PROVE gen'[g].status = "none"
  <2>1. g > c0
    BY <1>2, <1>3, <1>8
  <2> QED
    BY <1>5, <2>1
<1>9. Top(gen', c0)
  BY <1>2, <1>5, <1>6, <1>7, <1>8 DEF Top
<1>10. RetainedOnce(gen')
  BY <1>5 DEF RetainedOnce
<1> QED
  BY <1>2, <1>9, <1>10, InOrderFrom

-----------------------------------------------------------------------------
(* What a step writes.                                                     *)

Counters == [crashes : Nat, faults : Nat, drift : Nat, flaps : Nat, resolves : Nat]

\* A step of the worker spends at most a fault.
LEMMA Counts ==
    ASSUME TypeOK, Smooth \/ Fault
    PROVE  used' \in Counters /\ used'.flaps = used.flaps /\ used'.drift = used.drift
<1>1. used \in Counters
  BY DEF TypeOK, Counters
<1>2. CASE Smooth
  BY <1>1, <1>2 DEF Smooth
<1>3. CASE Fault
  <2>1. used' = [used EXCEPT !.faults = used.faults + 1]
    BY <1>3 DEF Fault, Spend
  <2>2. used.faults \in Nat /\ used.faults + 1 \in Nat
    BY <1>1 DEF Counters
  <2> QED
    BY <1>1, <2>1, <2>2 DEF Counters
<1> QED
  BY <1>2, <1>3

\* Prepare writes a new row for the operation.
LEMMA PrepareRowIs ==
    ASSUME TypeOK, NEW g \in Gens
    PROVE  /\ PrepareRow(g) \in [Gens -> Rows]
           /\ \A h \in Gens : h # g => PrepareRow(g)[h] = gen[h]
           /\ PrepareRow(g)[g].status = "prepared" /\ PrepareRow(g)[g].op = holder
           /\ ~PrepareRow(g)[g].cid
<1>1. PICK row : row = [NoRow EXCEPT !.status = "prepared", !.op = holder]
  OBVIOUS
<1>2. row \in Rows /\ row.status = "prepared" /\ row.op = holder /\ ~row.cid
  <2>1. NoRow \in Rows /\ ~NoRow.cid
    BY LifecycleBounds DEF NoRow, Rows, Statuses
  <2>2. holder \in 0..MaxOps
    BY DEF TypeOK
  <2> QED
    BY <1>1, <2>1, <2>2 DEF Rows, Statuses
<1>3. PrepareRow(g) = [gen EXCEPT ![g] = row]
  BY <1>1 DEF PrepareRow
<1>4. gen \in [Gens -> Rows]
  BY DEF TypeOK
<1> QED
  BY <1>2, <1>3, <1>4

\* Row n of table t differs from the old one at most in what is known of the
\* resources.
Refreshed(t, g) ==
    /\ t \in [Gens -> Rows]
    /\ \A h \in Gens : h # g => t[h] = gen[h]
    /\ t[g].op = gen[g].op /\ (gen[g].cid => t[g].cid)

\* A network identifier makes a prepared row a candidate.
LEMMA RecordNetworkRowIs ==
    ASSUME TypeOK, NEW g \in Gens
    PROVE  /\ Refreshed(RecordNetworkRow(g), g)
           /\ RecordNetworkRow(g)[g].status = "candidate"
<1>1. gen \in [Gens -> Rows] /\ gen[g] \in Rows
  BY DEF TypeOK
<1>2. PICK row : row = [gen[g] EXCEPT !.status = "candidate", !.net = TRUE]
  OBVIOUS
<1>3. row \in Rows /\ row.status = "candidate" /\ row.op = gen[g].op /\ row.cid = gen[g].cid
  BY <1>1, <1>2 DEF Rows, Statuses
<1>4. RecordNetworkRow(g) = [gen EXCEPT ![g] = row]
  BY <1>1, <1>2 DEF RecordNetworkRow, Rows
<1> QED
  BY <1>1, <1>3, <1>4 DEF Refreshed

\* A container identifier changes no status.
LEMMA RecordContainerRowIs ==
    ASSUME TypeOK, NEW g \in Gens, NEW s \in {"created", "stopped"}
    PROVE  /\ Refreshed(RecordContainerRow(g, s), g)
           /\ RecordContainerRow(g, s)[g].status = gen[g].status
           /\ RecordContainerRow(g, s)[g].cid
<1>1. gen \in [Gens -> Rows] /\ gen[g] \in Rows
  BY DEF TypeOK
<1>2. PICK row : row = [gen[g] EXCEPT !.cid = TRUE, !.hash = (s = "stopped"), !.state = s]
  OBVIOUS
<1>3. row \in Rows /\ row.status = gen[g].status /\ row.op = gen[g].op /\ row.cid
  BY <1>1, <1>2 DEF Rows
<1>4. RecordContainerRow(g, s) = [gen EXCEPT ![g] = row]
  BY <1>1, <1>2 DEF RecordContainerRow, Rows
<1> QED
  BY <1>1, <1>3, <1>4 DEF Refreshed

\* An observed state changes no status.
LEMMA RecordStateRowIs ==
    ASSUME TypeOK, NEW g \in Gens, NEW s \in {"stopped", "running"}
    PROVE  /\ Refreshed(RecordStateRow(g, s), g)
           /\ RecordStateRow(g, s)[g].status = gen[g].status
           /\ RecordStateRow(g, s)[g].cleanup = gen[g].cleanup
<1>1. gen \in [Gens -> Rows] /\ gen[g] \in Rows
  BY DEF TypeOK
<1>2. PICK row : row = [gen[g] EXCEPT !.state = s]
  OBVIOUS
<1>3. row \in Rows /\ row.status = gen[g].status /\ row.op = gen[g].op /\ row.cid = gen[g].cid
      /\ row.cleanup = gen[g].cleanup
  BY <1>1, <1>2 DEF Rows
<1>4. RecordStateRow(g, s) = [gen EXCEPT ![g] = row]
  BY <1>1, <1>2 DEF RecordStateRow, Rows
<1> QED
  BY <1>1, <1>3, <1>4 DEF Refreshed

\* A failed row keeps its operation.
LEMMA MarkFailedRowIs ==
    ASSUME TypeOK, NEW g \in Gens, NEW s \in {"pending", "clean"}
    PROVE  /\ Refreshed(MarkFailedRow(g, s), g)
           /\ MarkFailedRow(g, s)[g].status = "failed" /\ MarkFailedRow(g, s)[g].cleanup = s
<1>1. gen \in [Gens -> Rows] /\ gen[g] \in Rows
  BY DEF TypeOK
<1>2. PICK row : row = [gen[g] EXCEPT !.status = "failed", !.cleanup = s]
  OBVIOUS
<1>3. row \in Rows /\ row.status = "failed" /\ row.op = gen[g].op /\ row.cid = gen[g].cid /\ row.cleanup = s
  BY <1>1, <1>2 DEF Rows, Statuses
<1>4. MarkFailedRow(g, s) = [gen EXCEPT ![g] = row]
  BY <1>1, <1>2 DEF MarkFailedRow, Rows
<1> QED
  BY <1>1, <1>3, <1>4 DEF Refreshed

\* A tombstone keeps the operation.
LEMMA TombstoneIs ==
    ASSUME NEW row \in Rows
    PROVE  /\ Tombstone(row) \in Rows /\ Tombstone(row).status = "removed"
           /\ Tombstone(row).op = row.op /\ Tombstone(row).cid = row.cid
BY DEF Tombstone, Rows, Statuses

\* Rows are tombstones, new debt, or as they were.
Settled(t) ==
    /\ t \in [Gens -> Rows]
    /\ \A g \in Gens :
         /\ t[g].op = gen[g].op
         /\ \/ t[g].status = gen[g].status /\ t[g].cleanup = gen[g].cleanup
            \/ t[g].status = "cleanup_pending" /\ gen[g].status = "retained"
            \/ t[g].status = "removed" /\ gen[g].status # "none" /\ Absent(g)

\* A deferred cleanup turns a retained generation into debt.
LEMMA MarkCleanupPendingRowIs ==
    ASSUME TypeOK, NEW g \in Gens
    PROVE  /\ Settled(MarkCleanupPendingRow(g))
           /\ \A h \in Gens : h # g => MarkCleanupPendingRow(g)[h] = gen[h]
           /\ MarkCleanupPendingRow(g)[g].status = "active" => gen[g].status = "active"
<1>1. gen \in [Gens -> Rows] /\ gen[g] \in Rows
  BY DEF TypeOK
<1>2. CASE gen[g].status = "retained"
  <2>1. PICK row : row = [gen[g] EXCEPT !.status = "cleanup_pending", !.cleanup = "pending"]
    OBVIOUS
  <2>2. row \in Rows /\ row.status = "cleanup_pending" /\ row.op = gen[g].op
    BY <1>1, <2>1 DEF Rows, Statuses
  <2>3. MarkCleanupPendingRow(g) = [gen EXCEPT ![g] = row]
    BY <1>1, <1>2, <2>1 DEF MarkCleanupPendingRow, Rows
  <2> QED
    BY <1>1, <1>2, <2>2, <2>3 DEF Settled
<1>3. CASE gen[g].status # "retained"
  BY <1>1, <1>3 DEF MarkCleanupPendingRow, Settled
<1> QED
  BY <1>2, <1>3

\* A generation whose resources are gone becomes a tombstone.
LEMMA BuriedIs ==
    ASSUME TypeOK, NEW g \in Gens, gen[g].status # "none", Absent(g),
           NEW t, t = [gen EXCEPT ![g] = Tombstone(gen[g])]
    PROVE  Settled(t) /\ (\A h \in Gens : h # g => t[h] = gen[h]) /\ t[g].status = "removed"
<1>1. gen \in [Gens -> Rows] /\ gen[g] \in Rows
  BY DEF TypeOK
<1>2. PICK row : row = Tombstone(gen[g])
  OBVIOUS
<1>3. row \in Rows /\ row.status = "removed" /\ row.op = gen[g].op
  BY <1>1, <1>2, TombstoneIs
<1>4. t = [gen EXCEPT ![g] = row]
  BY <1>2
<1> QED
  BY <1>1, <1>3, <1>4 DEF Settled

\* A reconciliation buries the debt it finds gone.
LEMMA TombstonedIs ==
    ASSUME TypeOK, NEW S \in SUBSET ReconciledAbsent
    PROVE  Settled(Tombstoned(S))
<1>1. gen \in [Gens -> Rows]
  BY DEF TypeOK
<1>2. ASSUME NEW g \in Gens
      PROVE  /\ Tombstoned(S)[g] \in Rows /\ Tombstoned(S)[g].op = gen[g].op
             /\ \/ Tombstoned(S)[g] = gen[g]
                \/ Tombstoned(S)[g].status = "removed" /\ gen[g].status # "none" /\ Absent(g)
  <2>1. Tombstoned(S)[g] = IF g \in S THEN Tombstone(gen[g]) ELSE gen[g]
    BY DEF Tombstoned
  <2>2. g \in S => Absent(g) /\ gen[g].status \in {"cleanup_pending", "failed"}
    BY DEF ReconciledAbsent, Having
  <2>3. gen[g] \in Rows
    BY <1>1
  <2>4. /\ Tombstone(gen[g]) \in Rows /\ Tombstone(gen[g]).status = "removed"
        /\ Tombstone(gen[g]).op = gen[g].op
    BY <2>3, TombstoneIs
  <2> QED
    BY <2>1, <2>2, <2>3, <2>4
<1>3. Tombstoned(S) \in [Gens -> Rows]
  BY <1>2 DEF Tombstoned
<1> QED
  BY <1>2, <1>3 DEF Settled

\* The commit makes its candidate active, retains or gives up the baseline and
\* gives up what was retained.
LEMMA CommitRowsIs ==
    ASSUME TypeOK, NEW g \in Gens, gen[g].status # "retained",
           NEW recreate \in BOOLEAN, NEW t, t = CommitRows(g, recreate)
    PROVE  /\ t \in [Gens -> Rows] /\ \A h \in Gens : t[h].op = gen[h].op
           /\ t[g].status = "active"
           /\ \A h \in Gens : h = g - 1 /\ gen[h].status = "active" => t[h].status \in {"retained", "cleanup_pending"}
           /\ \A h \in Gens : h = g - 1 /\ gen[h].status # "active" => t[h] = gen[h]
           /\ \A h \in Gens : h # g /\ h # g - 1 =>
                \/ t[h] = gen[h] /\ gen[h].status # "retained"
                \/ gen[h].status = "retained" /\ t[h].status = "cleanup_pending"
<1>1. PICK s \in {"cleanup_pending", "retained"}, k \in {"pending", "not_required"} : t = Switch(g, s, k)
  BY DEF CommitRows
<1>2. gen \in [Gens -> Rows] /\ g \in Nat
  BY DEF TypeOK, Gens
<1>3. ASSUME NEW h \in Gens
      PROVE  /\ t[h] \in Rows /\ t[h].op = gen[h].op
             /\ h = g => t[h].status = "active"
             /\ h = g - 1 /\ gen[h].status = "active" => t[h].status \in {"retained", "cleanup_pending"}
             /\ h = g - 1 /\ gen[h].status # "active" => t[h] = gen[h]
             /\ h # g /\ h # g - 1 =>
                \/ t[h] = gen[h] /\ gen[h].status # "retained"
                \/ gen[h].status = "retained" /\ t[h].status = "cleanup_pending"
  <2>1. gen[h] \in Rows /\ g # g - 1
    BY <1>2
  <2>2. CASE h = g
    <3>1. t[h] = [gen[h] EXCEPT !.status = "active", !.cleanup = "clean"]
      BY <1>1, <2>1, <2>2 DEF Switch
    <3> QED
      BY <3>1, <2>1, <2>2 DEF Rows, Statuses
  <2>3. CASE h = g - 1 /\ gen[h].status = "active"
    <3>1. t[h] = [gen[h] EXCEPT !.status = s, !.cleanup = k]
      BY <1>1, <2>1, <2>3 DEF Switch
    <3>2. t[h] \in Rows /\ t[h].status = s /\ t[h].op = gen[h].op
      BY <3>1, <2>1 DEF Rows, Statuses
    <3> QED
      BY <3>2, <2>1, <2>3
  <2>4. CASE h # g /\ h # g - 1 /\ gen[h].status = "retained"
    <3>1. t[h] = [gen[h] EXCEPT !.status = "cleanup_pending", !.cleanup = "pending"]
      BY <1>1, <2>1, <2>4 DEF Switch
    <3>2. t[h] \in Rows /\ t[h].status = "cleanup_pending" /\ t[h].op = gen[h].op
      BY <3>1, <2>1 DEF Rows, Statuses
    <3> QED
      BY <3>2, <2>1, <2>4
  <2>5. CASE (h = g - 1 /\ gen[h].status # "active") \/ (h # g /\ h # g - 1 /\ gen[h].status # "retained")
    <3>1. t[h] = gen[h]
      BY <1>1, <2>1, <2>5 DEF Switch
    <3> QED
      BY <3>1, <2>1, <2>5
  <2> QED
    BY <2>2, <2>3, <2>4, <2>5
<1>4. t \in [Gens -> Rows]
  <2>1. t = [h \in Gens |-> t[h]]
    BY <1>1 DEF Switch
  <2> QED
    BY <2>1, <1>3
<1> QED
  BY <1>3, <1>4

\* The container of one generation changes.
LEMMA SetIs ==
    ASSUME TypeOK, NEW g \in Gens, NEW s \in BoxStates
    PROVE  /\ Set(g, s) \in [Gens -> BoxStates] /\ Set(g, s)[g] = s
           /\ \A h \in Gens : h # g => Set(g, s)[h] = box[h]
BY DEF TypeOK, Set

-----------------------------------------------------------------------------
(* What the steps of the worker have in common.                            *)

Jobs == [kind : Kinds \cup {"none"}, gen : 0..MaxGen, base : 0..MaxGen]
Verdicts == {"none", "succeeded", "failed", "unknown"}

Framed ==
    /\ helper = "up" /\ helper' = "up"
    /\ lease' = lease /\ holder' = holder /\ receipt' = receipt /\ yielded' = yielded
    /\ used' \in Counters /\ used'.flaps = used.flaps /\ used'.drift = used.drift

\* What a step may do to the generation with authority and to its container.
AuthorityStep ==
    \A g \in Gens :
        gen[g].status = "active" /\ gen'[g].status # "active" =>
            \/ /\ g + 1 \in Gens /\ gen'[g + 1].status = "active"
               /\ gen[g + 1].status = "candidate"
               /\ gen[g + 1].state = "running" /\ gen[g + 1].hash
            \/ gen'[g].status = "removed" /\ Absent(g)

SurvivalStep ==
    \A g \in Gens :
        gen[g].status = "active" /\ box[g] # "absent" /\ box'[g] = "absent" =>
            job.kind = "remove" \/ used'.drift > used.drift

Kept == IndInv' /\ AuthorityStep /\ SurvivalStep

\* The worker leaves the ledger and the helper alone.
LEMMA Frame ==
    ASSUME TypeOK, helper = "up", UNCHANGED <<ledger, helper>>, Smooth \/ Fault
    PROVE  Framed
BY Counts DEF Framed, ledger

\* Typing of a step of the worker.
LEMMA Typed ==
    ASSUME TypeOK, Framed, gen' \in [Gens -> Rows], recon' \in Outcomes,
           box' \in [Gens -> BoxStates], nets' \in SUBSET Gens, pc' \in Steps, job' \in Jobs,
           todo' \in SUBSET Gens, dirty' \in BOOLEAN, verdict' \in Verdicts
    PROVE  TypeOK'
BY DEF TypeOK, Framed, Counters, Jobs, Verdicts

\* Operations keep their rows.
LEMMA Numbers ==
    ASSUME Numbered, holder' = holder, \A g \in Gens : gen'[g].op = gen[g].op, pc' # "prepare"
    PROVE  Numbered'
BY DEF Numbered

\* The worker keeps the lease.
LEMMA Leases ==
    ASSUME Leased, Framed, pc # "idle", pc' # "prepare", pc' # "abortMark" => dirty' = FALSE,
           job'.kind = job.kind, job'.gen = job.gen
    PROVE  Leased'
BY DEF Leased, Framed

\* What is said of one kind of request says nothing elsewhere.
LEMMA NotReplacing ==
    ASSUME pc' \notin Replacing
    PROVE  OwnsCandidate' /\ CandidateBox' /\ OldBox'
BY DEF OwnsCandidate, CandidateBox, OldBox, Replacing, Early, Built, Cut, Abort

OlderSteps == {"olderContainer", "olderNetwork", "olderMark"}
OpSteps == {"operate", "opStop", "opRecordStop", "opStart", "opRecordStart", "opRemove", "opRemoveNetwork",
            "opMarkRemoved"}
RepairSteps == {"reconcile", "repair", "start_active", "cleanup_resources", "acknowledge_retained_missing",
                "repairRecord", "repairNetwork", "repairMark", "repairVerify"}

\* Outside the cleanup of the older generations its conjunct says nothing.
LEMMA NotCleaning == ASSUME pc' \notin OlderSteps PROVE Cleaning'
BY DEF Cleaning, OlderSteps

\* Outside a lifecycle operation on the active generation its conjunct says nothing.
LEMMA NotOperating == ASSUME pc' \notin OpSteps PROVE Operating'
BY DEF Operating, OpSteps

\* Outside a repair its conjunct says nothing.
LEMMA NotRepairing == ASSUME pc' \notin RepairSteps PROVE Repairing'
BY DEF Repairing, RepairSteps

\* RepliesAreTrue speaks only of a replacement that is about to complete.
LEMMA NoReply == ASSUME pc' # "complete" \/ job'.kind \notin Replacements PROVE RepliesAreTrue'
BY DEF RepliesAreTrue

\* Rows that settle keep the order, and forget nothing.
LEMMA SettledKeeps ==
    ASSUME InOrder, NothingForgotten, Settled(gen'), \A g \in Gens : Absent(g) => Absent(g)'
    PROVE  /\ InOrder' /\ NothingForgotten'
           /\ \/ Current' = Current
              \/ Current' = Current + 1 /\ (Current # 0 => gen'[Current].status = "removed" /\ box'[Current] = "absent")
           /\ HasActive' => HasActive /\ Current' = Current
           /\ HasActive /\ gen'[Current].status = "active" => HasActive'
<1>1. \A g \in Gens : Demotes(gen[g].status, gen'[g].status)
  BY DEF Settled, Demotes
<1>2. NothingForgotten'
  BY DEF NothingForgotten, Settled
<1>3. Current # 0 => Current \in Gens
  BY CurrentIs
<1>4. Current # 0 /\ gen'[Current].status = "removed" => box'[Current] = "absent"
  BY <1>2, <1>3 DEF NothingForgotten, Absent
<1> QED
  BY <1>1, <1>2, <1>4, Demoted

\* No second generation runs after a step that stops containers, or starts the
\* current generation while no candidate of the operation at work runs.
LEMMA RunningHolds ==
    ASSUME TypeOK, InOrder, Leased, Running, Framed, pc \notin Cut \cup {"idle", "unsaved", "complete"},
           \A g \in Gens : box'[g] = "restarting" => box[g] = "restarting",
           \A g \in Gens : Runs(g)' => Runs(g) \/ (g = Current /\ Current' = Current),
           \A g \in Gens : Runs(g)' => gen'[g].op = gen[g].op,
           \/ Current' = Current
           \/ Current' = Current + 1 /\ (Current # 0 => box'[Current] \notin {"running", "restarting"})
    PROVE  Running'
<1> SUFFICES ASSUME Steady' PROVE
        /\ \A g \in Gens : box'[g] # "restarting"
        /\ \A g \in Gens : Runs(g)' => g >= Current'
        /\ \A g, h \in Gens : Runs(g)' /\ Runs(h)' /\ g < h => gen'[h].op \in yielded'
        /\ \A g \in Gens : ~(Runs(g)' /\ g > Current' /\ gen'[g].op \notin yielded')
  BY DEF Running
<1>1. Steady
  BY DEF Steady, Framed
<1>2. /\ \A g \in Gens : box[g] # "restarting"
      /\ \A g \in Gens : Runs(g) => g >= Current
      /\ \A g, h \in Gens : Runs(g) /\ Runs(h) /\ g < h => gen[h].op \in yielded
      /\ \A g \in Gens : Runs(g) /\ g > Current => gen[g].op \in yielded
  BY <1>1 DEF Running
<1>3. yielded' = yielded
  BY DEF Framed
<1>4. Current \in Nat /\ (Current # 0 => Current \in Gens) /\ \A g \in Gens : g \in Nat /\ g # 0
  BY CurrentIs DEF Gens
<1>5. ASSUME NEW g \in Gens, Runs(g)'
      PROVE  /\ g >= Current /\ g >= Current'
             /\ g > Current => Runs(g) /\ gen'[g].op \in yielded'
  <2>1. g >= Current
    BY <1>2, <1>4, <1>5
  <2>2. g > Current => Runs(g) /\ gen'[g].op \in yielded'
    <3>1. g > Current => g # Current
      BY <1>4
    <3> QED
      BY <1>2, <1>3, <1>5, <3>1
  <2>3. g >= Current'
    <3>1. CASE Current' = Current
      BY <2>1, <3>1
    <3>2. CASE Current' = Current + 1 /\ (Current # 0 => box'[Current] \notin {"running", "restarting"})
      <4>1. g # Current
        BY <3>2, <1>4, <1>5 DEF Runs
      <4> QED
        BY <4>1, <3>2, <2>1, <1>4
    <3> QED
      BY <3>1, <3>2
  <2> QED
    BY <2>1, <2>2, <2>3
<1>6. ASSUME NEW g \in Gens, NEW h \in Gens, Runs(g)', Runs(h)', g < h
      PROVE  gen'[h].op \in yielded'
  <2>1. h > Current
    BY <1>4, <1>5, <1>6
  <2> QED
    BY <2>1, <1>5, <1>6
<1>7. ASSUME NEW g \in Gens, Runs(g)', g > Current'
      PROVE  gen'[g].op \in yielded'
  <2>1. g > Current
    BY <1>4, <1>7
  <2> QED
    BY <2>1, <1>5, <1>7
<1> QED
  BY <1>2, <1>5, <1>6, <1>7

\* A step that is no cutover, after which the table has settled, keeps the
\* invariant when it keeps what its own kind of request knows.
LEMMA SettledStep ==
    ASSUME IndInv, Framed, pc \notin Cut \cup {"idle", "unsaved", "complete"},
           pc' \in Steps \ ({"idle", "prepare"} \cup Replacing),
           dirty' = FALSE, todo' \in SUBSET Gens, verdict' \in Verdicts,
           job' \in Jobs, job'.kind = job.kind, job'.gen = job.gen,
           recon' \in Outcomes, box' \in [Gens -> BoxStates], nets' \in SUBSET Gens,
           Settled(gen'), \A g \in Gens : Absent(g) => Absent(g)',
           \A g \in Gens : box'[g] = "restarting" => box[g] = "restarting",
           \A g \in Gens : Runs(g)' => Runs(g) \/ (g = Current /\ gen' = gen),
           \A g \in Gens : gen[g].status = "active" /\ box[g] # "absent" /\ box'[g] = "absent" =>
               job.kind = "remove",
           Cleaning', Operating', Repairing', RepliesAreTrue'
    PROVE  Kept
<1>1. TypeOK /\ InOrder /\ NothingForgotten /\ Numbered /\ Leased /\ Running
  BY DEF IndInv
<1>2. gen' \in [Gens -> Rows] /\ \A g \in Gens : gen'[g].op = gen[g].op
  BY DEF Settled
<1>3. TypeOK'
  BY <1>1, <1>2, Typed
<1>4. /\ InOrder' /\ NothingForgotten'
      /\ \/ Current' = Current
         \/ Current' = Current + 1 /\ (Current # 0 => gen'[Current].status = "removed" /\ box'[Current] = "absent")
  BY <1>1, SettledKeeps
<1>5. Numbered' /\ Leased'
  BY <1>1, <1>2, Numbers, Leases DEF Framed, Replacing, Abort
<1>6. OwnsCandidate' /\ CandidateBox' /\ OldBox'
  BY NotReplacing
<1>7. Current' = Current + 1 /\ Current # 0 => box'[Current] \notin {"running", "restarting"}
  <2>1. Current' = Current + 1 => Current' # Current
    BY <1>1, CurrentIs
  <2> QED
    BY <1>4, <2>1
<1>8. gen' = gen => Current' = Current
  BY DEF Current, Having
<1>9. Running'
  BY <1>1, <1>2, <1>4, <1>7, <1>8, RunningHolds
<1>10. AuthorityStep /\ SurvivalStep
  BY DEF AuthorityStep, SurvivalStep, Settled
<1> QED
  BY <1>3, <1>4, <1>5, <1>6, <1>9, <1>10 DEF Kept, IndInv

-----------------------------------------------------------------------------
(* The operations.                                                         *)

\* What a step of an operation on active generation b keeps.
LEMMA OperationStep ==
    ASSUME IndInv, Framed, NEW b \in Gens, job.base = b, job.kind \in Operations, gen[b].status = "active",
           pc \in OpSteps, pc' \in (OpSteps \ {"operate"}) \cup {"complete"}, job' = job, recon' = recon,
           todo' \in {todo, {}}, dirty' \in {dirty, FALSE}, verdict' \in Verdicts,
           Settled(gen'), box' \in [Gens -> BoxStates], nets' \in SUBSET nets,
           \A h \in Gens : h # b => box'[h] = box[h],
           box[b] = "absent" => box'[b] = "absent",
           box'[b] = "restarting" => box[b] = "restarting",
           box' = box \/ gen' = gen,
           box'[b] = "absent" => box[b] = "absent" \/ job.kind = "remove",
           pc' # "complete" => gen'[b].status = "active",
           pc' \in {"opRemove", "opRemoveNetwork", "opMarkRemoved"} => job.kind = "remove",
           pc' \in {"opRemoveNetwork", "opMarkRemoved"} => box'[b] = "absent",
           pc' = "opMarkRemoved" => b \notin nets'
    PROVE  Kept
<1>1. TypeOK /\ InOrder /\ Leased
  BY DEF IndInv
<1>2. b = Current
  BY <1>1, CurrentIs
<1>3. dirty' = FALSE /\ todo' \in SUBSET Gens
  BY <1>1 DEF Leased, TypeOK, OpSteps
<1>4. nets' \in SUBSET Gens /\ recon' \in Outcomes /\ job' \in Jobs
  BY <1>1 DEF TypeOK, Jobs
<1>5. pc \notin Cut \cup {"idle", "unsaved", "complete"}
  BY DEF OpSteps, Cut
<1>6. pc' \in Steps \ ({"idle", "prepare"} \cup Replacing) /\ pc' \notin OlderSteps \cup RepairSteps
  BY DEF OpSteps, Steps, Replacing, Early, Built, Cut, Abort, OlderSteps, RepairSteps
<1>7. \A g \in Gens : Absent(g) => Absent(g)'
  BY DEF Absent
<1>8. \A g \in Gens : box'[g] = "restarting" => box[g] = "restarting"
  OBVIOUS
<1>9. \A g \in Gens : Runs(g)' => Runs(g) \/ (g = Current /\ gen' = gen)
  BY <1>2 DEF Runs
<1>10. Cleaning' /\ Repairing' /\ RepliesAreTrue'
  BY <1>6, NotCleaning, NotRepairing, NoReply DEF Operations, Replacements
<1>11. Operating'
  BY DEF Operating
<1>12. \A g \in Gens : gen[g].status = "active" /\ box[g] # "absent" /\ box'[g] = "absent" => job.kind = "remove"
  OBVIOUS
<1> QED
  BY <1>1, <1>3, <1>4, <1>5, <1>6, <1>7, <1>8, <1>9, <1>10, <1>11, <1>12, SettledStep

\* The rows stay as they are.
LEMMA StoreKept == ASSUME TypeOK, gen' = gen PROVE Settled(gen')
BY DEF TypeOK, Settled

\* A row whose state is recorded anew.
LEMMA StateRecorded ==
    ASSUME TypeOK, NEW g \in Gens, NEW s \in {"stopped", "running"}, gen' = RecordStateRow(g, s)
    PROVE  Settled(gen') /\ \A h \in Gens : gen'[h].status = gen[h].status
<1>1. /\ Refreshed(gen', g) /\ gen'[g].status = gen[g].status /\ gen'[g].cleanup = gen[g].cleanup
  BY RecordStateRowIs
<1> QED
  BY <1>1 DEF Settled, Refreshed

\* An operation at work.
LEMMA AtWork ==
    ASSUME IndInv, At(pc), pc \in OpSteps, pc # "operate", NEW b, b = job.base,
           UNCHANGED <<ledger, helper>>, Smooth \/ Fault
    PROVE  /\ TypeOK /\ Framed /\ b \in Gens /\ gen[b].status = "active" /\ job.kind \in Operations
           /\ pc \in {"opRemove", "opRemoveNetwork", "opMarkRemoved"} => job.kind = "remove"
           /\ pc \in {"opRemoveNetwork", "opMarkRemoved"} => box[b] = "absent"
           /\ pc = "opMarkRemoved" => b \notin nets
<1>1. TypeOK /\ Operating
  BY DEF IndInv
<1>2. Framed
  BY <1>1, Frame DEF At
<1> QED
  BY <1>1, <1>2 DEF Operating, OpSteps

\* Operation.Run reads the active row and the runtime and changes neither.
LEMMA StepOperate == ASSUME IndInv, Operate PROVE Kept
<1>1. TypeOK /\ InOrder /\ Leased /\ Operating
  BY DEF IndInv
<1>2. pc = "operate" /\ helper = "up" /\ (Smooth \/ Fault) /\ UNCHANGED <<ledger, helper>>
  BY DEF Operate, At
<1>3. Framed
  BY <1>1, <1>2, Frame
<1>4. gen' = gen /\ recon' = recon /\ box' = box /\ nets' = nets
  BY DEF Operate, store, runtime
<1>5. job.kind \in Operations /\ dirty = FALSE
  BY <1>1, <1>2 DEF Operating, Leased
<1>6. PICK k : k = Current
  OBVIOUS
<1>7. \/ /\ HasActive /\ job' = [job EXCEPT !.base = k]
         /\ pc' \in {"opStart", "opStop", "opRemove"} /\ (pc' = "opRemove" => job.kind = "remove")
         /\ UNCHANGED <<todo, dirty, verdict>>
      \/ /\ job' = job /\ pc' = "complete" /\ verdict' \in Verdicts /\ todo' = {} /\ dirty' = FALSE
  BY <1>6 DEF Operate, Goto, FirstStep, Finish, Verdicts
<1>8. HasActive => k \in Gens /\ gen[k].status = "active"
  BY <1>1, <1>6, CurrentIs
<1>9. job \in Jobs /\ k \in 0..MaxGen
  BY <1>1, <1>6, CurrentIs, LifecycleBounds DEF TypeOK, Jobs
<1>10. /\ job' \in Jobs /\ job'.kind = job.kind /\ job'.gen = job.gen
       /\ pc' # "complete" => job'.base = k /\ HasActive
  BY <1>7, <1>9 DEF Jobs
<1>11. /\ pc' \in {"opStart", "opStop", "opRemove", "complete"} /\ (pc' = "opRemove" => job.kind = "remove")
       /\ todo' \in SUBSET Gens /\ dirty' = FALSE /\ verdict' \in Verdicts
  BY <1>1, <1>5, <1>7 DEF TypeOK, Verdicts
<1>12. Operating'
  BY <1>4, <1>5, <1>8, <1>10, <1>11 DEF Operating
<1>13. Cleaning' /\ Repairing' /\ RepliesAreTrue'
  BY <1>5, <1>10, <1>11, NotCleaning, NotRepairing, NoReply DEF Operations, Replacements, OlderSteps, RepairSteps
<1>14. pc' \in Steps \ ({"idle", "prepare"} \cup Replacing)
  BY <1>11 DEF Steps, Replacing, Early, Built, Cut, Abort
<1>15. pc \notin Cut \cup {"idle", "unsaved", "complete"}
  BY <1>2 DEF Cut
<1>16. /\ Settled(gen') /\ (\A g \in Gens : Absent(g) => Absent(g)') /\ recon' \in Outcomes
       /\ box' \in [Gens -> BoxStates] /\ nets' \in SUBSET Gens /\ (\A g \in Gens : Runs(g)' => Runs(g))
       /\ \A g \in Gens : box'[g] = box[g]
  BY <1>1, <1>4, StoreKept DEF Absent, Runs, TypeOK
<1> QED
  BY <1>3, <1>10, <1>11, <1>12, <1>13, <1>14, <1>15, <1>16, SettledStep

\* The stop of the active container leaves fewer generations running.
LEMMA StepOpStop == ASSUME IndInv, OpStop PROVE Kept
<1>1. PICK b : b = job.base
  OBVIOUS
<1>2. At("opStop") /\ pc = "opStop" /\ (Smooth \/ Fault) /\ UNCHANGED <<ledger, helper, job>>
  BY DEF OpStop, At, Outside
<1>3. TypeOK /\ Framed /\ b \in Gens /\ gen[b].status = "active" /\ job.kind \in Operations
  BY <1>1, <1>2, AtWork DEF At, OpSteps
<1>4. gen' = gen /\ recon' = recon /\ nets' = nets
  BY DEF OpStop, store
<1>5. box' = box \/ (box[b] # "absent" /\ box' = Set(b, "stopped"))
  BY <1>1 DEF OpStop, a, Exact, Stoppable, StopAfterError
<1>6. /\ pc' \in {"opRecordStop", "opStart", "opRemove", "complete"} /\ (pc' = "opRemove" => job.kind = "remove")
      /\ todo' \in {todo, {}} /\ dirty' \in {dirty, FALSE} /\ verdict' \in {verdict, "failed", "unknown", "succeeded"}
  BY DEF OpStop, AfterStop, Goto, Finish
<1>7. /\ box' \in [Gens -> BoxStates] /\ (\A h \in Gens : h # b => box'[h] = box[h])
      /\ (box[b] = "absent" <=> box'[b] = "absent")
      /\ box'[b] = "restarting" => box[b] = "restarting"
  BY <1>3, <1>5, SetIs DEF TypeOK, BoxStates
<1>8. Settled(gen')
  BY <1>3, <1>4, StoreKept
<1>9. verdict' \in Verdicts
  BY <1>3, <1>6 DEF TypeOK, Verdicts
<1> QED
  BY <1>1, <1>2, <1>3, <1>4, <1>6, <1>7, <1>8, <1>9, OperationStep DEF OpSteps

\* Recording the stop touches the active row's container state only.
LEMMA StepOpRecordStop == ASSUME IndInv, OpRecordStop PROVE Kept
<1>1. PICK b : b = job.base
  OBVIOUS
<1>2. At("opRecordStop") /\ pc = "opRecordStop" /\ (Smooth \/ Fault) /\ UNCHANGED <<ledger, helper, job>>
  BY DEF OpRecordStop, At, Outside
<1>3. TypeOK /\ Framed /\ b \in Gens /\ gen[b].status = "active" /\ job.kind \in Operations
  BY <1>1, <1>2, AtWork DEF At, OpSteps
<1>4. recon' = recon /\ box' = box /\ nets' = nets
  BY DEF OpRecordStop, runtime
<1>5. gen' = gen \/ gen' = RecordStateRow(b, "stopped")
  BY <1>1 DEF OpRecordStop, a
<1>6. /\ pc' \in {"opStart", "opRemove", "complete"} /\ (pc' = "opRemove" => job.kind = "remove")
      /\ todo' \in {todo, {}} /\ dirty' \in {dirty, FALSE} /\ verdict' \in {verdict, "failed", "unknown", "succeeded"}
  BY DEF OpRecordStop, AfterStop, Goto, Finish
<1>7. Settled(gen') /\ gen'[b].status = "active"
  BY <1>3, <1>5, StoreKept, StateRecorded
<1>8. verdict' \in Verdicts /\ box' \in [Gens -> BoxStates]
  BY <1>3, <1>4, <1>6 DEF TypeOK, Verdicts
<1> QED
  BY <1>1, <1>2, <1>3, <1>4, <1>6, <1>7, <1>8, OperationStep DEF OpSteps

\* The start runs the active generation; any other that runs belongs to a yielded operation.
LEMMA StepOpStart == ASSUME IndInv, OpStart PROVE Kept
<1>1. PICK b : b = job.base
  OBVIOUS
<1>2. At("opStart") /\ pc = "opStart" /\ (Smooth \/ Fault) /\ UNCHANGED <<ledger, helper, job>>
  BY DEF OpStart, At, Outside
<1>3. TypeOK /\ Framed /\ b \in Gens /\ gen[b].status = "active" /\ job.kind \in Operations
  BY <1>1, <1>2, AtWork DEF At, OpSteps
<1>4. gen' = gen /\ recon' = recon /\ nets' = nets
  BY DEF OpStart, store
<1>5. box' = box \/ (box[b] = "stopped" /\ box' \in {Set(b, "running"), Set(b, "detached")})
  BY <1>1 DEF OpStart, a, Exact, StartAfterError
<1>6. /\ pc' \in {"opRecordStart", "complete"}
      /\ todo' \in {todo, {}} /\ dirty' \in {dirty, FALSE} /\ verdict' \in {verdict, "failed", "unknown", "succeeded"}
  BY DEF OpStart, Goto, Finish
<1>7. /\ box' \in [Gens -> BoxStates] /\ (\A h \in Gens : h # b => box'[h] = box[h])
      /\ (box[b] = "absent" <=> box'[b] = "absent")
      /\ box'[b] = "restarting" => box[b] = "restarting"
  BY <1>3, <1>5, SetIs DEF TypeOK, BoxStates
<1>8. Settled(gen')
  BY <1>3, <1>4, StoreKept
<1>9. verdict' \in Verdicts
  BY <1>3, <1>6 DEF TypeOK, Verdicts
<1> QED
  BY <1>1, <1>2, <1>3, <1>4, <1>6, <1>7, <1>8, <1>9, OperationStep DEF OpSteps

\* Recording the start touches the active row's container state only.
LEMMA StepOpRecordStart == ASSUME IndInv, OpRecordStart PROVE Kept
<1>1. PICK b : b = job.base
  OBVIOUS
<1>2. At("opRecordStart") /\ pc = "opRecordStart" /\ (Smooth \/ Fault) /\ UNCHANGED <<ledger, helper, job>>
  BY DEF OpRecordStart, At, Outside
<1>3. TypeOK /\ Framed /\ b \in Gens /\ gen[b].status = "active" /\ job.kind \in Operations
  BY <1>1, <1>2, AtWork DEF At, OpSteps
<1>4. recon' = recon /\ box' = box /\ nets' = nets
  BY DEF OpRecordStart, runtime
<1>5. gen' = gen \/ gen' = RecordStateRow(b, "running")
  BY <1>1 DEF OpRecordStart, a
<1>6. pc' = "complete" /\ todo' = {} /\ dirty' = FALSE /\ verdict' \in {"failed", "unknown", "succeeded"}
  BY DEF OpRecordStart, Finish
<1>7. Settled(gen') /\ gen'[b].status = "active"
  BY <1>3, <1>5, StoreKept, StateRecorded
<1>8. verdict' \in Verdicts /\ box' \in [Gens -> BoxStates]
  BY <1>3, <1>4, <1>6 DEF TypeOK, Verdicts
<1> QED
  BY <1>1, <1>2, <1>3, <1>4, <1>6, <1>7, <1>8, OperationStep DEF OpSteps

\* Remove takes the active container away while its row still claims it.
LEMMA StepOpRemove == ASSUME IndInv, OpRemove PROVE Kept
<1>1. PICK b : b = job.base
  OBVIOUS
<1>2. At("opRemove") /\ pc = "opRemove" /\ (Smooth \/ Fault) /\ UNCHANGED <<ledger, helper, job>>
  BY DEF OpRemove, At, Outside
<1>3. TypeOK /\ Framed /\ b \in Gens /\ gen[b].status = "active" /\ job.kind \in Operations /\ job.kind = "remove"
  BY <1>1, <1>2, AtWork DEF At, OpSteps
<1>4. gen' = gen /\ recon' = recon /\ nets' = nets
  BY DEF OpRemove, store
<1>5. box' = box \/ box' = Set(b, "absent")
  BY <1>1 DEF OpRemove, a, RemoveAfterError
<1>6. /\ pc' \in {"opRemoveNetwork", "complete"} /\ (pc' = "opRemoveNetwork" => box' = Set(b, "absent"))
      /\ todo' \in {todo, {}} /\ dirty' \in {dirty, FALSE} /\ verdict' \in {verdict, "failed", "unknown", "succeeded"}
  BY <1>1 DEF OpRemove, Goto, Finish, a
<1>7. /\ box' \in [Gens -> BoxStates] /\ (\A h \in Gens : h # b => box'[h] = box[h])
      /\ box[b] = "absent" => box'[b] = "absent"
      /\ box'[b] = "restarting" => box[b] = "restarting"
      /\ pc' = "opRemoveNetwork" => box'[b] = "absent"
  BY <1>3, <1>5, <1>6, SetIs DEF TypeOK, BoxStates
<1>8. Settled(gen')
  BY <1>3, <1>4, StoreKept
<1>9. verdict' \in Verdicts
  BY <1>3, <1>6 DEF TypeOK, Verdicts
<1> QED
  BY <1>1, <1>2, <1>3, <1>4, <1>6, <1>7, <1>8, <1>9, OperationStep DEF OpSteps

\* Remove takes the network away while its row still claims it.
LEMMA StepOpRemoveNetwork == ASSUME IndInv, OpRemoveNetwork PROVE Kept
<1>1. PICK b : b = job.base
  OBVIOUS
<1>2. At("opRemoveNetwork") /\ pc = "opRemoveNetwork" /\ (Smooth \/ Fault) /\ UNCHANGED <<ledger, helper, job>>
  BY DEF OpRemoveNetwork, At, Outside
<1>3. /\ TypeOK /\ Framed /\ b \in Gens /\ gen[b].status = "active" /\ job.kind \in Operations
      /\ job.kind = "remove" /\ box[b] = "absent"
  BY <1>1, <1>2, AtWork DEF At, OpSteps
<1>4. gen' = gen /\ recon' = recon /\ box' = box
  BY DEF OpRemoveNetwork, store
<1>5. nets' = nets \/ nets' = nets \ {b}
  BY <1>1 DEF OpRemoveNetwork, a
<1>6. /\ pc' \in {"opMarkRemoved", "complete"} /\ (pc' = "opMarkRemoved" => nets' = nets \ {b})
      /\ todo' \in {todo, {}} /\ dirty' \in {dirty, FALSE} /\ verdict' \in {verdict, "failed", "unknown", "succeeded"}
  BY <1>1 DEF OpRemoveNetwork, Goto, Finish, a
<1>7. Settled(gen')
  BY <1>3, <1>4, StoreKept
<1>8. verdict' \in Verdicts /\ box' \in [Gens -> BoxStates] /\ nets' \in SUBSET nets
      /\ (pc' = "opMarkRemoved" => b \notin nets')
  BY <1>3, <1>4, <1>5, <1>6 DEF TypeOK, Verdicts
<1> QED
  BY <1>1, <1>2, <1>3, <1>4, <1>6, <1>7, <1>8, OperationStep DEF OpSteps

\* The row is marked removed once its container and its network are gone.
LEMMA StepOpMarkRemoved == ASSUME IndInv, OpMarkRemoved PROVE Kept
<1>1. PICK b : b = job.base
  OBVIOUS
<1>2. At("opMarkRemoved") /\ pc = "opMarkRemoved" /\ (Smooth \/ Fault) /\ UNCHANGED <<ledger, helper, job>>
  BY DEF OpMarkRemoved, At, Outside
<1>3. /\ TypeOK /\ Framed /\ b \in Gens /\ gen[b].status = "active" /\ job.kind \in Operations
      /\ Absent(b)
  BY <1>1, <1>2, AtWork DEF At, OpSteps, Absent
<1>4. recon' = recon /\ box' = box /\ nets' = nets
  BY DEF OpMarkRemoved, runtime
<1>5. gen' = gen \/ gen' = [gen EXCEPT ![b] = Tombstone(gen[b])]
  BY <1>1 DEF OpMarkRemoved, a
<1>6. pc' = "complete" /\ todo' = {} /\ dirty' = FALSE /\ verdict' \in {"failed", "unknown", "succeeded"}
  BY DEF OpMarkRemoved, Finish
<1>7. Settled(gen')
  BY <1>3, <1>5, StoreKept, BuriedIs
<1>8. verdict' \in Verdicts /\ box' \in [Gens -> BoxStates]
  BY <1>3, <1>4, <1>6 DEF TypeOK, Verdicts
<1> QED
  BY <1>1, <1>2, <1>3, <1>4, <1>6, <1>7, <1>8, OperationStep DEF OpSteps

-----------------------------------------------------------------------------
(* Reconciliation and the repairs.                                         *)

\* The outcome of a reconciliation is one of the known ones.
LEMMA OutcomeIs ==
    ASSUME NEW r, NEW S, r = [state |-> Decide(S).state, action |-> Decide(S).action, checked |-> CheckedGeneration]
    PROVE  r \in Outcomes
<1>1. /\ Decide(S).state \in {"none", "runtime_unknown", "action_required", "repairable", "runtime_missing",
                              "degraded", "cleanup_pending", "consistent"}
      /\ Decide(S).action \in {"none", "recreate_generation", "start_active", "cleanup_resources",
                               "acknowledge_retained_missing"}
  BY DEF Decide
<1> QED
  BY <1>1, CheckedIn DEF Outcomes

\* Reconcile writes a legal classification and turns only rows found absent into tombstones.
LEMMA Observed ==
    ASSUME TypeOK, Observe \/ Unobserved \/ ReconcileFails
    PROVE  recon' \in Outcomes /\ Settled(gen')
<1>1. Settled(gen')
  <2>1. \E S \in SUBSET ReconciledAbsent : gen' = Tombstoned(S)
    BY DEF Observe, Unobserved, ReconcileFails, ReconciledRows, PartlyReconciled
  <2> QED
    BY <2>1, TombstonedIs
<1>2. CASE Observe
  BY <1>1, <1>2, OutcomeIs DEF Observe
<1>3. CASE Unobserved
  <2>1. recon' = [state |-> "runtime_unknown", action |-> "none", checked |-> 0]
    BY <1>3 DEF Unobserved
  <2> QED
    BY <1>1, <2>1, LifecycleBounds DEF Outcomes
<1>4. CASE ReconcileFails
  BY <1>1, <1>4 DEF ReconcileFails, TypeOK
<1> QED
  BY <1>2, <1>3, <1>4

Repaired == {"start_active", "cleanup_resources", "acknowledge_retained_missing", "repairRecord",
             "repairNetwork", "repairMark", "repairVerify", "complete"}

\* What a step of a reconciliation or a repair keeps.
LEMMA RepairingStep ==
    ASSUME IndInv, Framed, pc \in RepairSteps, job.kind \in Repairs \cup {"reconcile"}, pc' \in Repaired,
           job' = job, recon' \in Outcomes, todo' \in SUBSET Gens, dirty' \in {dirty, FALSE}, verdict' \in Verdicts,
           Settled(gen'), box' \in [Gens -> BoxStates], nets' \in SUBSET nets,
           \A g \in Gens : box[g] = "absent" => box'[g] = "absent",
           \A g \in Gens : gen[g].status = "active" /\ box'[g] = "absent" => box[g] = "absent",
           \A g \in Gens : box'[g] = "restarting" => box[g] = "restarting",
           \A g \in Gens : Runs(g)' => Runs(g) \/ (g = Current /\ gen' = gen),
           Repairing'
    PROVE  Kept
<1>1. TypeOK /\ InOrder /\ Leased
  BY DEF IndInv
<1>2. dirty' = FALSE
  BY <1>1 DEF Leased, RepairSteps
<1>3. nets' \in SUBSET Gens /\ job' \in Jobs
  BY <1>1 DEF TypeOK, Jobs
<1>4. pc \notin Cut \cup {"idle", "unsaved", "complete"}
  BY DEF RepairSteps, Cut
<1>5. pc' \in Steps \ ({"idle", "prepare"} \cup Replacing) /\ pc' \notin OlderSteps \cup OpSteps
  BY DEF Repaired, OpSteps, Steps, Replacing, Early, Built, Cut, Abort, OlderSteps
<1>6. \A g \in Gens : Absent(g) => Absent(g)'
  BY DEF Absent
<1>7. Cleaning' /\ Operating' /\ RepliesAreTrue'
  BY <1>5, NotCleaning, NotOperating, NoReply DEF Repairs, Replacements
<1> QED
  BY <1>1, <1>2, <1>3, <1>4, <1>5, <1>6, <1>7, SettledStep

\* A repair at work.
LEMMA AtRepair ==
    ASSUME IndInv, helper = "up", pc \in RepairSteps, UNCHANGED <<ledger, helper>>, Smooth \/ Fault
    PROVE  /\ TypeOK /\ InOrder /\ Framed /\ job.kind \in Repairs \cup {"reconcile"}
           /\ pc # "reconcile" => job.kind \in Repairs
           /\ pc \in {"cleanup_resources", "repairNetwork", "repairMark"} =>
                \A h \in todo : gen[h].status \notin Gone \cup {"active"}
           /\ pc \in {"repairNetwork", "repairMark"} => todo # {} /\ box[debt] = "absent"
           /\ pc = "repairMark" => debt \notin nets
           /\ pc = "repairRecord" => HasActive
           /\ todo # {} => debt \in todo /\ debt \in Gens
<1>1. TypeOK /\ InOrder /\ Repairing
  BY DEF IndInv
<1>2. Framed
  BY <1>1, Frame
<1>3. todo # {} => debt \in todo /\ debt \in Gens
  BY <1>1, DebtReads, DebtIsDue DEF TypeOK
<1> QED
  BY <1>1, <1>2, <1>3 DEF Repairing, RepairSteps

\* The containers and networks stay as they are.
LEMMA RuntimeKept ==
    ASSUME TypeOK, box' = box, nets' = nets
    PROVE  /\ box' \in [Gens -> BoxStates] /\ nets' \in SUBSET nets
           /\ \A g \in Gens : Runs(g)' => Runs(g)
BY DEF TypeOK, Runs

\* Reconcile writes its evidence and turns rows found absent into tombstones.
LEMMA StepReconcileInstallation == ASSUME IndInv, ReconcileInstallation PROVE Kept
<1>1. helper = "up" /\ pc = "reconcile" /\ (Smooth \/ Fault) /\ UNCHANGED <<ledger, helper, job>>
  BY DEF ReconcileInstallation, At, Outside
<1>2. TypeOK /\ Framed /\ job.kind \in Repairs \cup {"reconcile"}
  BY <1>1, AtRepair DEF RepairSteps
<1>3. box' = box /\ nets' = nets
  BY DEF ReconcileInstallation, runtime
<1>4. pc' = "complete" /\ todo' = {} /\ dirty' = FALSE /\ verdict' \in Verdicts
  BY DEF ReconcileInstallation, Finish, Verdicts
<1>5. Observe \/ Unobserved \/ ReconcileFails \/ (gen' = gen /\ recon' = recon)
  BY DEF ReconcileInstallation, store
<1>6. recon' \in Outcomes /\ Settled(gen')
  BY <1>2, <1>5, Observed, StoreKept DEF TypeOK
<1>7. Repairing'
  BY <1>4, NotRepairing DEF RepairSteps
<1> QED
  BY <1>1, <1>2, <1>3, <1>4, <1>6, <1>7, RuntimeKept, RepairingStep DEF RepairSteps, Repaired

\* The repair validates the evidence against a fresh observation and changes nothing.
LEMMA StepRepairValidate == ASSUME IndInv, RepairValidate PROVE Kept
<1>1. helper = "up" /\ pc = "repair" /\ (Smooth \/ Fault) /\ UNCHANGED <<ledger, helper, job>>
  BY DEF RepairValidate, At, Outside
<1>2. TypeOK /\ Framed /\ job.kind \in Repairs
  BY <1>1, AtRepair DEF RepairSteps
<1>3. box' = box /\ nets' = nets
  BY DEF RepairValidate, runtime
<1>4. \/ pc' = "complete" /\ todo' = {} /\ dirty' = FALSE /\ verdict' = "failed"
      \/ /\ pc' = job.kind /\ UNCHANGED <<dirty, verdict>>
         /\ todo' = {} \/ todo' = Cleanable(gen')
  BY DEF RepairValidate, Finish
<1>5. Observe \/ Unobserved \/ ReconcileFails \/ (gen' = gen /\ recon' = recon)
  BY DEF RepairValidate, store
<1>6. recon' \in Outcomes /\ Settled(gen')
  BY <1>2, <1>5, Observed, StoreKept DEF TypeOK
<1>7. todo' \in SUBSET Gens /\ \A h \in todo' : gen'[h].status \notin Gone \cup {"active"}
  BY <1>4 DEF Cleanable, Gone
<1>8. Repairing'
  BY <1>1, <1>2, <1>4, <1>7 DEF Repairing, Repairs
<1>9. pc' \in Repaired /\ verdict' \in Verdicts /\ dirty' \in {dirty, FALSE}
  BY <1>2, <1>4 DEF Repaired, Repairs, Verdicts, TypeOK
<1> QED
  BY <1>1, <1>2, <1>3, <1>6, <1>7, <1>8, <1>9, RuntimeKept, RepairingStep DEF RepairSteps

\* start_active starts the active generation the validation observed stopped.
LEMMA StepRepairStart == ASSUME IndInv, RepairStart PROVE Kept
<1>1. helper = "up" /\ pc = "start_active" /\ (Smooth \/ Fault) /\ UNCHANGED <<ledger, helper, job>>
  BY DEF RepairStart, At, Outside
<1>2. TypeOK /\ InOrder /\ Framed /\ job.kind \in Repairs
  BY <1>1, AtRepair DEF RepairSteps
<1>3. gen' = gen /\ recon' = recon /\ nets' = nets
  BY DEF RepairStart, store
<1>4. PICK k : k = Current
  OBVIOUS
<1>5. box' = box \/ (HasActive /\ box[k] \in {"stopped", "detached"} /\ box' \in {Set(k, "running"), Set(k, "detached")})
  BY <1>4 DEF RepairStart, VerifiedIn, StartAfterError
<1>6. HasActive => k \in Gens
  BY <1>2, <1>4, CurrentIs
<1>7. /\ box' \in [Gens -> BoxStates]
      /\ \A g \in Gens : g # k => box'[g] = box[g]
      /\ \A g \in Gens : box[g] = "absent" <=> box'[g] = "absent"
      /\ \A g \in Gens : box'[g] = "restarting" => box[g] = "restarting"
  BY <1>2, <1>5, <1>6, SetIs DEF TypeOK, BoxStates
<1>8. \A g \in Gens : Runs(g)' => Runs(g) \/ (g = Current /\ gen' = gen)
  BY <1>3, <1>4, <1>7 DEF Runs
<1>9. /\ pc' \in {"repairRecord", "repairVerify", "complete"} /\ todo' \in {todo, {}} /\ dirty' \in {dirty, FALSE}
      /\ verdict' \in {verdict, "failed", "unknown"}
      /\ pc' = "repairRecord" => HasActive
  BY DEF RepairStart, Goto, Finish
<1>10. HasActive' = HasActive
  BY <1>3 DEF HasActive, Having
<1>11. Repairing'
  BY <1>1, <1>2, <1>9, <1>10 DEF Repairing
<1>12. pc' \in Repaired /\ verdict' \in Verdicts /\ todo' \in SUBSET Gens /\ recon' \in Outcomes
  BY <1>2, <1>3, <1>9 DEF Repaired, Verdicts, TypeOK
<1> QED
  BY <1>1, <1>2, <1>3, <1>7, <1>8, <1>9, <1>11, <1>12, StoreKept, RepairingStep DEF RepairSteps

\* Recording the repair's start touches the active row's container state only.
LEMMA StepRepairRecord == ASSUME IndInv, RepairRecord PROVE Kept
<1>1. helper = "up" /\ pc = "repairRecord" /\ (Smooth \/ Fault) /\ UNCHANGED <<ledger, helper, job>>
  BY DEF RepairRecord, At, Outside
<1>2. TypeOK /\ InOrder /\ Framed /\ job.kind \in Repairs /\ HasActive
  BY <1>1, AtRepair DEF RepairSteps
<1>3. recon' = recon /\ box' = box /\ nets' = nets
  BY DEF RepairRecord, runtime
<1>4. PICK k : k = Current
  OBVIOUS
<1>5. gen' = gen \/ gen' = RecordStateRow(k, "running")
  BY <1>4 DEF RepairRecord
<1>6. k \in Gens
  BY <1>2, <1>4, CurrentIs
<1>7. Settled(gen')
  BY <1>2, <1>5, <1>6, StoreKept, StateRecorded
<1>8. /\ pc' \in {"repairVerify", "complete"} /\ todo' \in {todo, {}} /\ dirty' \in {dirty, FALSE}
      /\ verdict' \in {verdict, "failed"}
  BY DEF RepairRecord, Goto, Finish
<1>9. Repairing'
  BY <1>1, <1>2, <1>8 DEF Repairing
<1>10. pc' \in Repaired /\ verdict' \in Verdicts /\ todo' \in SUBSET Gens /\ recon' \in Outcomes
  BY <1>2, <1>3, <1>8 DEF Repaired, Verdicts, TypeOK
<1> QED
  BY <1>1, <1>2, <1>3, <1>7, <1>8, <1>9, <1>10, RuntimeKept, RepairingStep DEF RepairSteps

\* cleanup_resources removes a container of a row that is not active.
LEMMA StepRepairRemoveContainer == ASSUME IndInv, RepairRemoveContainer PROVE Kept
<1>1. helper = "up" /\ pc = "cleanup_resources" /\ (Smooth \/ Fault) /\ UNCHANGED <<ledger, helper, job>>
  BY DEF RepairRemoveContainer, At, Outside
<1>2. PICK d : d = debt
  OBVIOUS
<1>3. /\ TypeOK /\ InOrder /\ Framed /\ job.kind \in Repairs
      /\ \A h \in todo : gen[h].status \notin Gone \cup {"active"}
      /\ todo # {} => d \in todo /\ d \in Gens
  BY <1>1, <1>2, AtRepair DEF RepairSteps
<1>4. gen' = gen /\ recon' = recon /\ nets' = nets
  BY DEF RepairRemoveContainer, store
<1>5. \/ box' = box
      \/ todo # {} /\ box[d] \in {"running", "restarting"} /\ box' = Set(d, "stopped")
      \/ todo # {} /\ box' = Set(d, "absent")
  BY <1>2 DEF RepairRemoveContainer, StopAfterError, RemoveAfterError
<1>6. /\ box' \in [Gens -> BoxStates]
      /\ \A g \in Gens : box[g] = "absent" => box'[g] = "absent"
      /\ \A g \in Gens : box'[g] = "restarting" => box[g] = "restarting"
      /\ \A g \in Gens : Runs(g)' => Runs(g)
      /\ \A g \in Gens : g # d \/ todo = {} => box'[g] = box[g]
  BY <1>3, <1>5, SetIs DEF TypeOK, BoxStates, Runs
<1>7. \/ pc' = "complete" /\ todo' = {} /\ dirty' = FALSE /\ verdict' \in {"failed", "unknown"}
      \/ pc' \in {"repairVerify", "cleanup_resources"} /\ todo' \in {todo, todo \ {d}} /\ UNCHANGED <<dirty, verdict>>
      \/ /\ pc' = "repairNetwork" /\ todo' = todo /\ todo # {} /\ UNCHANGED <<dirty, verdict>>
         /\ box' = Set(d, "absent")
  BY <1>2 DEF RepairRemoveContainer, Goto, Finish, RepairNext
<1>8. debt' = DebtIn(gen', todo') /\ d = DebtIn(gen, todo)
  BY <1>2, DebtReads
<1>9. pc' = "repairNetwork" => todo' # {} /\ debt' = d /\ box'[d] = "absent"
  BY <1>3, <1>4, <1>7, <1>8, SetIs DEF BoxStates
<1>10. pc' = "repairNetwork" => box'[debt'] = "absent"
  BY <1>9
<1>11. Repairing'
  BY <1>3, <1>4, <1>1, <1>7, <1>9, <1>10 DEF Repairing
<1>12. pc' \in Repaired /\ verdict' \in Verdicts /\ todo' \in SUBSET Gens /\ recon' \in Outcomes /\ dirty' \in {dirty, FALSE}
  BY <1>3, <1>4, <1>7 DEF Repaired, Verdicts, TypeOK
<1>13. \A g \in Gens : gen[g].status = "active" /\ box'[g] = "absent" => box[g] = "absent"
  BY <1>3, <1>6
<1> QED
  BY <1>1, <1>3, <1>4, <1>6, <1>11, <1>12, <1>13, StoreKept, RepairingStep DEF RepairSteps

\* cleanup_resources removes a network of a row that is not active.
LEMMA StepRepairRemoveNetwork == ASSUME IndInv, RepairRemoveNetwork PROVE Kept
<1>1. helper = "up" /\ pc = "repairNetwork" /\ (Smooth \/ Fault) /\ UNCHANGED <<ledger, helper, job>>
  BY DEF RepairRemoveNetwork, At, Outside
<1>2. PICK d : d = debt
  OBVIOUS
<1>3. /\ TypeOK /\ InOrder /\ Framed /\ job.kind \in Repairs
      /\ \A h \in todo : gen[h].status \notin Gone \cup {"active"}
      /\ todo # {} /\ box[d] = "absent"
  BY <1>1, <1>2, AtRepair DEF RepairSteps
<1>4. gen' = gen /\ recon' = recon /\ box' = box
  BY DEF RepairRemoveNetwork, store
<1>5. nets' \in {nets, nets \ {d}}
  BY <1>2 DEF RepairRemoveNetwork
<1>6. \/ pc' = "complete" /\ todo' = {} /\ dirty' = FALSE /\ verdict' \in {"failed", "unknown"}
      \/ pc' = "repairMark" /\ UNCHANGED <<todo, dirty, verdict>> /\ nets' = nets \ {d}
  BY <1>2 DEF RepairRemoveNetwork, Goto, Finish
<1>7. debt' = DebtIn(gen', todo') /\ d = DebtIn(gen, todo)
  BY <1>2, DebtReads
<1>8. pc' = "repairMark" => debt' = d
  BY <1>4, <1>6, <1>7
<1>9. Repairing'
  BY <1>1, <1>3, <1>4, <1>6, <1>8 DEF Repairing
<1>10. /\ pc' \in Repaired /\ verdict' \in Verdicts /\ todo' \in SUBSET Gens /\ recon' \in Outcomes
       /\ dirty' \in {dirty, FALSE} /\ nets' \in SUBSET nets /\ box' \in [Gens -> BoxStates]
       /\ \A g \in Gens : Runs(g)' => Runs(g)
  BY <1>3, <1>4, <1>5, <1>6 DEF Repaired, Verdicts, TypeOK, Runs
<1> QED
  BY <1>1, <1>3, <1>4, <1>9, <1>10, StoreKept, RepairingStep DEF RepairSteps

\* The row a cleanup emptied is marked removed: nothing it claimed is left.
LEMMA StepRepairMark == ASSUME IndInv, RepairMark PROVE Kept
<1>1. helper = "up" /\ pc = "repairMark" /\ (Smooth \/ Fault) /\ UNCHANGED <<ledger, helper, job>>
  BY DEF RepairMark, At, Outside
<1>2. PICK d : d = debt
  OBVIOUS
<1>3. /\ TypeOK /\ InOrder /\ Framed /\ job.kind \in Repairs
      /\ \A h \in todo : gen[h].status \notin Gone \cup {"active"}
      /\ d \in todo /\ d \in Gens /\ Absent(d)
  BY <1>1, <1>2, AtRepair DEF RepairSteps, Absent
<1>4. recon' = recon /\ box' = box /\ nets' = nets
  BY DEF RepairMark, runtime
<1>5. \/ /\ gen' = [gen EXCEPT ![d] = Tombstone(gen[d])]
         /\ pc' \in {"repairVerify", "cleanup_resources"} /\ todo' = todo \ {d} /\ UNCHANGED <<dirty, verdict>>
      \/ gen' = gen /\ pc' = "complete" /\ todo' = {} /\ dirty' = FALSE /\ verdict' = "failed"
  BY <1>2 DEF RepairMark, RepairNext, Finish
<1>6. Settled(gen') /\ \A h \in Gens : h # d => gen'[h] = gen[h]
  BY <1>3, <1>5, StoreKept, BuriedIs DEF Gone
<1>7. todo' \in SUBSET Gens /\ \A h \in todo' : gen'[h].status \notin Gone \cup {"active"}
  BY <1>3, <1>5, <1>6 DEF TypeOK
<1>8. Repairing'
  BY <1>1, <1>3, <1>5, <1>7 DEF Repairing
<1>9. /\ pc' \in Repaired /\ verdict' \in Verdicts /\ recon' \in Outcomes /\ dirty' \in {dirty, FALSE}
  BY <1>3, <1>4, <1>5 DEF Repaired, Verdicts, TypeOK
<1> QED
  BY <1>1, <1>3, <1>4, <1>6, <1>7, <1>8, <1>9, RuntimeKept, RepairingStep DEF RepairSteps

\* A lost retained row becomes a tombstone, or debt while its network is still there.
LEMMA StepAcknowledge == ASSUME IndInv, Acknowledge PROVE Kept
<1>1. helper = "up" /\ pc = "acknowledge_retained_missing" /\ (Smooth \/ Fault) /\ UNCHANGED <<ledger, helper, job>>
  BY DEF Acknowledge, At, Outside
<1>2. TypeOK /\ Framed /\ job.kind \in Repairs
  BY <1>1, AtRepair DEF RepairSteps
<1>3. recon' = recon /\ box' = box /\ nets' = nets
  BY DEF Acknowledge, runtime
<1>4. Settled(gen')
  <2>1. CASE gen' = gen
    BY <1>2, <2>1, StoreKept
  <2>2. CASE gen' # gen
    <3>1. gen' = [g \in Gens |->
                CASE g \in LostRetained /\ g \in nets ->
                         [gen[g] EXCEPT !.status = "cleanup_pending", !.cleanup = "pending"]
                  [] g \in LostRetained /\ g \notin nets -> Tombstone(gen[g])
                  [] OTHER -> gen[g]]
      BY <2>2 DEF Acknowledge
    <3>2. ASSUME NEW g \in Gens
          PROVE  /\ gen'[g] \in Rows /\ gen'[g].op = gen[g].op
                 /\ \/ gen'[g].status = gen[g].status /\ gen'[g].cleanup = gen[g].cleanup
                    \/ gen'[g].status = "cleanup_pending" /\ gen[g].status = "retained"
                    \/ gen'[g].status = "removed" /\ gen[g].status # "none" /\ Absent(g)
      <4>1. gen[g] \in Rows
        BY <1>2 DEF TypeOK
      <4>2. g \in LostRetained => gen[g].status = "retained" /\ box[g] = "absent"
        BY DEF LostRetained, Having
      <4>3. CASE g \in LostRetained /\ g \in nets
        <5>1. gen'[g] = [gen[g] EXCEPT !.status = "cleanup_pending", !.cleanup = "pending"]
          BY <3>1, <4>3
        <5> QED
          BY <4>1, <4>2, <4>3, <5>1 DEF Rows, Statuses
      <4>4. CASE g \in LostRetained /\ g \notin nets
        <5>1. gen'[g] = Tombstone(gen[g])
          BY <3>1, <4>4
        <5> QED
          BY <4>1, <4>2, <4>4, <5>1, TombstoneIs DEF Absent
      <4>5. CASE g \notin LostRetained
        <5>1. gen'[g] = gen[g]
          BY <3>1, <4>5
        <5> QED
          BY <4>1, <5>1
      <4> QED
        BY <4>3, <4>4, <4>5
    <3>3. gen' \in [Gens -> Rows]
      <4>1. gen' = [g \in Gens |-> gen'[g]]
        BY <3>1
      <4> QED
        BY <3>2, <4>1
    <3> QED
      BY <3>2, <3>3 DEF Settled
  <2> QED
    BY <2>1, <2>2
<1>5. /\ pc' \in {"repairVerify", "complete"} /\ todo' \in {todo, {}} /\ dirty' \in {dirty, FALSE}
      /\ verdict' \in {verdict, "failed"}
  BY DEF Acknowledge, Goto, Finish
<1>6. Repairing'
  BY <1>1, <1>2, <1>5 DEF Repairing
<1>7. pc' \in Repaired /\ verdict' \in Verdicts /\ todo' \in SUBSET Gens /\ recon' \in Outcomes
  BY <1>2, <1>3, <1>5 DEF Repaired, Verdicts, TypeOK
<1> QED
  BY <1>1, <1>2, <1>3, <1>4, <1>5, <1>6, <1>7, RuntimeKept, RepairingStep DEF RepairSteps

\* The repair's closing reconciliation turns rows found absent into tombstones.
LEMMA StepRepairVerify == ASSUME IndInv, RepairVerify PROVE Kept
<1>1. helper = "up" /\ pc = "repairVerify" /\ (Smooth \/ Fault) /\ UNCHANGED <<ledger, helper, job>>
  BY DEF RepairVerify, At, Outside
<1>2. TypeOK /\ Framed /\ job.kind \in Repairs
  BY <1>1, AtRepair DEF RepairSteps
<1>3. box' = box /\ nets' = nets
  BY DEF RepairVerify, runtime
<1>4. pc' = "complete" /\ todo' = {} /\ dirty' = FALSE /\ verdict' \in Verdicts
  BY DEF RepairVerify, Finish, Verdicts
<1>5. Observe \/ Unobserved \/ ReconcileFails \/ (gen' = gen /\ recon' = recon)
  BY DEF RepairVerify, store
<1>6. recon' \in Outcomes /\ Settled(gen')
  BY <1>2, <1>5, Observed, StoreKept DEF TypeOK
<1>7. Repairing'
  BY <1>4, NotRepairing DEF RepairSteps
<1> QED
  BY <1>1, <1>2, <1>3, <1>4, <1>6, <1>7, RuntimeKept, RepairingStep DEF RepairSteps, Repaired

-----------------------------------------------------------------------------
(* cleanupOlder.                                                           *)

\* What a step of cleanupOlder on generation o keeps.
LEMMA CleaningStep ==
    ASSUME IndInv, Framed, pc \in OlderSteps, pc' \in OlderSteps \cup {"complete"}, job' = job, recon' = recon,
           NEW o \in todo, todo' \in SUBSET todo, dirty' \in {dirty, FALSE},
           verdict' \in Verdicts, pc' = "complete" => verdict' = "succeeded",
           Settled(gen'), \A h \in Gens : h # o => gen'[h] = gen[h],
           o \notin todo' \/ gen' = gen,
           box' \in [Gens -> BoxStates], nets' \in SUBSET nets,
           \A g \in Gens : box'[g] = box[g] \/ (g = o /\ box'[g] = "absent"),
           pc' # "complete" => todo' # {},
           pc' \in {"olderNetwork", "olderMark"} => box'[older'] = "absent",
           pc' = "olderMark" => older' \notin nets'
    PROVE  Kept
<1>1. TypeOK /\ InOrder /\ Leased /\ Cleaning
  BY DEF IndInv
<1>2. /\ job.kind \in Replacements /\ gen[job.gen].status = "active"
      /\ \A h \in todo : gen[h].status \notin Gone \cup {"active"}
  BY <1>1 DEF Cleaning, OlderSteps
<1>3. PICK n : n = job.gen
  OBVIOUS
<1>4. n \in Gens /\ n # o
  BY <1>1, <1>2, <1>3 DEF Leased, OlderSteps
<1>5. gen'[n].status = "active"
  BY <1>2, <1>3, <1>4
<1>6. todo \in SUBSET Gens /\ todo' \in SUBSET Gens
  BY <1>1 DEF TypeOK
<1>7. \A h \in todo' : gen'[h].status \notin Gone \cup {"active"}
  BY <1>2, <1>6
<1>8. Cleaning'
  BY <1>2, <1>3, <1>5, <1>7 DEF Cleaning, OlderSteps
<1>9. RepliesAreTrue'
  BY <1>3, <1>5 DEF RepliesAreTrue
<1>10. dirty' = FALSE
  BY <1>1 DEF Leased, OlderSteps
<1>11. nets' \in SUBSET Gens /\ job' \in Jobs /\ recon' \in Outcomes
  BY <1>1 DEF TypeOK, Jobs
<1>12. pc \notin Cut \cup {"idle", "unsaved", "complete"}
  BY DEF OlderSteps, Cut
<1>13. pc' \in Steps \ ({"idle", "prepare"} \cup Replacing) /\ pc' \notin OpSteps \cup RepairSteps
  BY DEF OlderSteps, OpSteps, RepairSteps, Steps, Replacing, Early, Built, Cut, Abort
<1>14. /\ \A g \in Gens : Absent(g) => Absent(g)'
       /\ \A g \in Gens : box'[g] = "restarting" => box[g] = "restarting"
       /\ \A g \in Gens : Runs(g)' => Runs(g)
  BY DEF Absent, Runs
<1>15. Operating' /\ Repairing'
  BY <1>13, NotOperating, NotRepairing
<1>16. \A g \in Gens : gen[g].status = "active" /\ box[g] # "absent" /\ box'[g] = "absent" => job.kind = "remove"
  BY <1>2
<1> QED
  BY <1>1, <1>6, <1>8, <1>9, <1>10, <1>11, <1>12, <1>13, <1>14, <1>15, <1>16, SettledStep

\* cleanupOlder at work on generation o.
LEMMA AtOlder ==
    ASSUME IndInv, helper = "up", pc \in OlderSteps, UNCHANGED <<ledger, helper>>, Smooth \/ Fault,
           NEW o, o = older
    PROVE  /\ TypeOK /\ Framed /\ o \in todo /\ o \in Gens /\ gen[o].status \notin Gone \cup {"active"}
           /\ pc \in {"olderNetwork", "olderMark"} => box[o] = "absent"
           /\ pc = "olderMark" => o \notin nets
<1>1. TypeOK /\ Cleaning
  BY DEF IndInv
<1>2. Framed
  BY <1>1, Frame
<1>3. todo # {} /\ todo \in SUBSET Gens /\ Gens \subseteq Nat
  BY <1>1 DEF Cleaning, OlderSteps, TypeOK, Gens
<1>4. o \in todo
  BY <1>3, MinIn DEF older
<1> QED
  BY <1>1, <1>2, <1>3, <1>4 DEF Cleaning, OlderSteps

\* What CleanNext does with what is left after o.
LEMMA NextOlder ==
    ASSUME CleanNext(todo \ {older}), NEW o, o = older
    PROVE  /\ pc' \in {"olderContainer", "complete"} /\ todo' = todo \ {o} /\ dirty' \in {dirty, FALSE}
           /\ pc' = "complete" => verdict' = "succeeded"
           /\ pc' # "complete" => verdict' = verdict /\ todo' # {}
BY DEF CleanNext, Finish

\* The cleanup after a commit removes the container of an older, inactive row.
LEMMA StepRemoveOlderContainer == ASSUME IndInv, RemoveOlderContainer PROVE Kept
<1>1. helper = "up" /\ pc = "olderContainer" /\ (Smooth \/ Fault) /\ UNCHANGED <<ledger, helper, job>>
  BY DEF RemoveOlderContainer, At, Outside
<1>2. PICK o : o = older
  OBVIOUS
<1>3. TypeOK /\ Framed /\ o \in todo /\ o \in Gens
  BY <1>1, <1>2, AtOlder DEF OlderSteps
<1>4. recon' = recon /\ nets' = nets
  BY DEF RemoveOlderContainer
<1>5. box' = box \/ box' = Set(o, "absent")
  BY <1>2 DEF RemoveOlderContainer, RemoveAfterError
<1>6. \/ /\ gen' = gen /\ pc' = "olderNetwork" /\ UNCHANGED <<todo, dirty, verdict>>
         /\ (box' = box /\ box[o] = "absent") \/ box' = Set(o, "absent")
      \/ gen' = MarkCleanupPendingRow(o) /\ CleanNext(todo \ {older})
  BY <1>2 DEF RemoveOlderContainer, Goto, Defer
<1>7. box' \in [Gens -> BoxStates] /\ \A g \in Gens : box'[g] = box[g] \/ (g = o /\ box'[g] = "absent")
  BY <1>3, <1>5, SetIs DEF TypeOK, BoxStates
<1>8. CASE gen' = MarkCleanupPendingRow(o) /\ CleanNext(todo \ {older})
  <2>1. Settled(gen') /\ \A h \in Gens : h # o => gen'[h] = gen[h]
    BY <1>3, <1>8, MarkCleanupPendingRowIs
  <2>2. /\ pc' \in {"olderContainer", "complete"} /\ todo' = todo \ {o} /\ dirty' \in {dirty, FALSE}
        /\ pc' = "complete" => verdict' = "succeeded"
        /\ pc' # "complete" => verdict' = verdict /\ todo' # {}
    BY <1>2, <1>8, NextOlder
  <2>3. verdict' \in Verdicts
    BY <1>3, <2>2 DEF TypeOK, Verdicts
  <2> QED
    BY <1>1, <1>3, <1>4, <1>7, <2>1, <2>2, <2>3, CleaningStep DEF OlderSteps
<1>9. CASE /\ gen' = gen /\ pc' = "olderNetwork" /\ UNCHANGED <<todo, dirty, verdict>>
           /\ (box' = box /\ box[o] = "absent") \/ box' = Set(o, "absent")
  <2>1. Settled(gen') /\ \A h \in Gens : h # o => gen'[h] = gen[h]
    BY <1>3, <1>9, StoreKept
  <2>2. older' = o /\ box'[o] = "absent"
    BY <1>2, <1>3, <1>9, SetIs DEF older, BoxStates
  <2>3. verdict' \in Verdicts /\ todo' # {} /\ box'[older'] = "absent" /\ todo' \in SUBSET todo
    BY <1>3, <1>9, <2>2 DEF TypeOK, Verdicts
  <2> QED
    BY <1>1, <1>3, <1>4, <1>7, <1>9, <2>1, <2>3, CleaningStep DEF OlderSteps
<1> QED
  BY <1>6, <1>8, <1>9

\* The cleanup after a commit removes the network of an older, inactive row.
LEMMA StepRemoveOlderNetwork == ASSUME IndInv, RemoveOlderNetwork PROVE Kept
<1>1. helper = "up" /\ pc = "olderNetwork" /\ (Smooth \/ Fault) /\ UNCHANGED <<ledger, helper, job>>
  BY DEF RemoveOlderNetwork, At, Outside
<1>2. PICK o : o = older
  OBVIOUS
<1>3. TypeOK /\ Framed /\ o \in todo /\ o \in Gens /\ box[o] = "absent"
  BY <1>1, <1>2, AtOlder DEF OlderSteps
<1>4. recon' = recon /\ box' = box
  BY DEF RemoveOlderNetwork
<1>5. nets' \in SUBSET nets
  BY DEF RemoveOlderNetwork
<1>6. \/ gen' = gen /\ pc' = "olderMark" /\ UNCHANGED <<todo, dirty, verdict>> /\ o \notin nets'
      \/ gen' = MarkCleanupPendingRow(o) /\ CleanNext(todo \ {older})
  BY <1>2 DEF RemoveOlderNetwork, Goto, Defer
<1>7. box' \in [Gens -> BoxStates] /\ \A g \in Gens : box'[g] = box[g] \/ (g = o /\ box'[g] = "absent")
  BY <1>3, <1>4 DEF TypeOK
<1>8. CASE gen' = MarkCleanupPendingRow(o) /\ CleanNext(todo \ {older})
  <2>1. Settled(gen') /\ \A h \in Gens : h # o => gen'[h] = gen[h]
    BY <1>3, <1>8, MarkCleanupPendingRowIs
  <2>2. /\ pc' \in {"olderContainer", "complete"} /\ todo' = todo \ {o} /\ dirty' \in {dirty, FALSE}
        /\ pc' = "complete" => verdict' = "succeeded"
        /\ pc' # "complete" => verdict' = verdict /\ todo' # {}
    BY <1>2, <1>8, NextOlder
  <2>3. verdict' \in Verdicts
    BY <1>3, <2>2 DEF TypeOK, Verdicts
  <2> QED
    BY <1>1, <1>3, <1>4, <1>5, <1>7, <2>1, <2>2, <2>3, CleaningStep DEF OlderSteps
<1>9. CASE gen' = gen /\ pc' = "olderMark" /\ UNCHANGED <<todo, dirty, verdict>> /\ o \notin nets'
  <2>1. Settled(gen') /\ \A h \in Gens : h # o => gen'[h] = gen[h]
    BY <1>3, <1>9, StoreKept
  <2>2. older' = o
    BY <1>2, <1>9 DEF older
  <2>3. verdict' \in Verdicts /\ todo' # {} /\ box'[older'] = "absent" /\ older' \notin nets' /\ todo' \in SUBSET todo
    BY <1>3, <1>4, <1>9, <2>2 DEF TypeOK, Verdicts
  <2> QED
    BY <1>1, <1>3, <1>4, <1>5, <1>7, <1>9, <2>1, <2>3, CleaningStep DEF OlderSteps
<1> QED
  BY <1>6, <1>8, <1>9

\* The older row is marked removed once nothing of it is left.
LEMMA StepMarkOlderRemoved == ASSUME IndInv, MarkOlderRemoved PROVE Kept
<1>1. helper = "up" /\ pc = "olderMark" /\ (Smooth \/ Fault) /\ UNCHANGED <<ledger, helper, job>>
  BY DEF MarkOlderRemoved, At, Outside
<1>2. PICK o : o = older
  OBVIOUS
<1>3. TypeOK /\ Framed /\ o \in todo /\ o \in Gens /\ Absent(o) /\ gen[o].status # "none"
  BY <1>1, <1>2, AtOlder DEF OlderSteps, Absent, Gone
<1>4. recon' = recon /\ box' = box /\ nets' = nets
  BY DEF MarkOlderRemoved, runtime
<1>5. CleanNext(todo \ {older}) /\ gen' \in {gen, MarkCleanupPendingRow(o), [gen EXCEPT ![o] = Tombstone(gen[o])]}
  BY <1>2 DEF MarkOlderRemoved, Defer
<1>6. Settled(gen') /\ \A h \in Gens : h # o => gen'[h] = gen[h]
  BY <1>3, <1>5, StoreKept, MarkCleanupPendingRowIs, BuriedIs
<1>7. /\ pc' \in {"olderContainer", "complete"} /\ todo' = todo \ {o} /\ dirty' \in {dirty, FALSE}
      /\ pc' = "complete" => verdict' = "succeeded"
      /\ pc' # "complete" => verdict' = verdict /\ todo' # {}
  BY <1>2, <1>5, NextOlder
<1>8. verdict' \in Verdicts /\ box' \in [Gens -> BoxStates]
  BY <1>3, <1>4, <1>7 DEF TypeOK, Verdicts
<1> QED
  BY <1>1, <1>3, <1>4, <1>6, <1>7, <1>8, CleaningStep DEF OlderSteps

-----------------------------------------------------------------------------
(* Staged replacement.                                                     *)

\* A step after which at most containers that ran before run, and the operation of
\* the lease still knows a candidate that runs.
LEMMA RunningStays ==
    ASSUME InOrder, Running, Steady' => Steady, yielded \subseteq yielded',
           Steady => \A g \in Gens : box'[g] = "restarting" => box[g] = "restarting",
           Steady => \A g \in Gens : Runs(g)' => Runs(g),
           \A g \in Gens : gen'[g].op = gen[g].op,
           \/ Current' = Current
           \/ Current' = Current + 1 /\ (Current # 0 => box'[Current] \notin {"running", "restarting"}),
           \/ /\ holder' = holder /\ (lease # "free" => lease' # "free")
              /\ \/ pc' \in Cut \cup {"idle", "unsaved"} \/ (pc' = "complete" /\ verdict' = "unknown")
                 \/ pc' = pc /\ verdict' = verdict
           \/ Steady => \A g \in Gens : Runs(g)' /\ g > Current => gen'[g].op \in yielded'
    PROVE  Running'
<1> SUFFICES ASSUME Steady' PROVE
        /\ \A g \in Gens : box'[g] # "restarting"
        /\ \A g \in Gens : Runs(g)' => g >= Current'
        /\ \A g, h \in Gens : Runs(g)' /\ Runs(h)' /\ g < h => gen'[h].op \in yielded'
        /\ \A g \in Gens : Runs(g)' /\ g > Current' /\ gen'[g].op \notin yielded' =>
             /\ gen'[g].op = holder' /\ lease' # "free"
             /\ pc' \in Cut \cup {"idle", "unsaved"} \/ (pc' = "complete" /\ verdict' = "unknown")
  BY DEF Running
<1>1. /\ \A g \in Gens : box[g] # "restarting"
      /\ \A g \in Gens : Runs(g) => g >= Current
      /\ \A g, h \in Gens : Runs(g) /\ Runs(h) /\ g < h => gen[h].op \in yielded
      /\ \A g \in Gens : Runs(g) /\ g > Current /\ gen[g].op \notin yielded =>
             /\ gen[g].op = holder /\ lease # "free"
             /\ pc \in Cut \cup {"idle", "unsaved"} \/ (pc = "complete" /\ verdict = "unknown")
  BY DEF Running
<1>2. Current \in Nat /\ \A g \in Gens : g \in Nat /\ g # 0
  BY CurrentIs DEF Gens
<1>3. ASSUME NEW g \in Gens, Runs(g)'
      PROVE  g >= Current' /\ (g > Current' => g > Current)
  <2>1. g >= Current
    BY <1>1, <1>3
  <2>2. CASE Current' = Current
    BY <2>1, <2>2
  <2>3. CASE Current' = Current + 1 /\ (Current # 0 => box'[Current] \notin {"running", "restarting"})
    <3>1. g # Current
      BY <2>3, <1>2, <1>3 DEF Runs
    <3> QED
      BY <3>1, <2>3, <2>1, <1>2
  <2> QED
    BY <2>2, <2>3
<1>4. ASSUME NEW g \in Gens, Runs(g)', g > Current', gen'[g].op \notin yielded'
      PROVE  /\ gen'[g].op = holder' /\ lease' # "free"
             /\ pc' \in Cut \cup {"idle", "unsaved"} \/ (pc' = "complete" /\ verdict' = "unknown")
  <2>1. Runs(g) /\ g > Current /\ gen[g].op \notin yielded
    BY <1>3, <1>4
  <2>2. /\ gen[g].op = holder /\ lease # "free"
        /\ pc \in Cut \cup {"idle", "unsaved"} \/ (pc = "complete" /\ verdict = "unknown")
    BY <2>1, <1>1
  <2> QED
    BY <2>1, <2>2, <1>4
<1> QED
  BY <1>1, <1>3, <1>4

\* A step after which only the successor of the current generation runs, for the
\* operation that holds the lease.
LEMMA RunningAlone ==
    ASSUME InOrder, Running, Framed, Current' = Current, lease # "free", pc' \in Cut, NEW n \in Gens,
           n = Current + 1, gen'[n].op = holder,
           Steady => \A g \in Gens : box'[g] # "restarting",
           Steady => \A g \in Gens : Runs(g)' => g = n
    PROVE  Running'
<1>1. Steady' => Steady
  BY DEF Steady, Framed
<1>2. Current \in Nat /\ n \in Nat
  BY CurrentIs DEF Gens
<1>3. n >= Current /\ ~(n < n)
  BY <1>2
<1> QED
  BY <1>1, <1>3 DEF Running, Framed

\* A step after which only the current generation runs.
LEMMA RunningTop ==
    ASSUME InOrder', Running, Steady' => Steady,
           Steady => \A g \in Gens : box'[g] # "restarting",
           Steady => \A g \in Gens : Runs(g)' => g = Current'
    PROVE  Running'
<1>1. PICK k : k = Current'
  OBVIOUS
<1>2. k \in Nat
  <2>1. Top(gen', k)
    BY <1>1 DEF InOrder
  <2> QED
    BY <2>1, LifecycleBounds DEF Top
<1>3. k >= k /\ ~(k < k) /\ ~(k > k)
  BY <1>2
<1> QED
  BY <1>1, <1>3 DEF Running

\* Above the current generation only its successor has a container, and a current
\* generation that was removed has none.
LEMMA OnlyNext ==
    ASSUME InOrder, NothingForgotten
    PROVE  /\ \A g \in Gens : Runs(g) /\ g > Current => g = Current + 1
           /\ ~HasActive /\ Current # 0 => ~Runs(Current)
<1>1. \A g \in Gens : gen[g].status \in {"none", "removed"} => ~Runs(g)
  BY DEF NothingForgotten, Absent, Runs
<1>2. /\ Current \in Nat /\ (Current # 0 => Current \in Gens)
      /\ Current # 0 /\ ~HasActive => gen[Current].status = "removed"
      /\ \A g \in Gens : g > Current + 1 => gen[g].status = "none"
  BY CurrentIs
<1>3. \A g \in Gens : g \in Nat
  BY DEF Gens
<1>4. ASSUME NEW g \in Gens, Runs(g), g > Current PROVE g = Current + 1
  <2>1. ~(g > Current + 1)
    BY <1>1, <1>2, <1>4
  <2> QED
    BY <2>1, <1>2, <1>3, <1>4
<1> QED
  BY <1>1, <1>2, <1>4

\* A replacement at work on candidate n beside active generation b.
LEMMA AtReplacement ==
    ASSUME IndInv, helper = "up", pc \in Replacing, UNCHANGED <<ledger, helper>>, Smooth \/ Fault,
           NEW n, n = job.gen, NEW b, b = job.base
    PROVE  /\ TypeOK /\ InOrder /\ Running /\ Framed /\ lease = "held" /\ job.kind \in Replacements
           /\ n \in Gens /\ n = Current + 1 /\ gen[n].op = holder /\ gen[n].status \in {"prepared", "candidate"}
           /\ b # 0 => b \in Gens /\ b = Current /\ b # n /\ gen[b].status = "active"
           /\ b = 0 => ~HasActive
           /\ pc # "abortMark" => dirty = FALSE
           /\ pc \in {"stopOld", "rollback"} => b # 0
<1>1. TypeOK /\ InOrder /\ Leased /\ OwnsCandidate /\ Running
  BY DEF IndInv
<1>2. Framed
  BY <1>1, Frame
<1>3. pc # "idle"
  BY DEF Replacing, Early, Built, Cut, Abort
<1>4. lease = "held" /\ (pc # "abortMark" => dirty = FALSE)
  BY <1>1, <1>3 DEF Leased
<1>5. /\ job.kind \in Replacements /\ n = Current + 1 /\ gen[n].op = holder
      /\ gen[n].status \in {"prepared", "candidate"} /\ b = (IF HasActive THEN Current ELSE 0)
      /\ pc \in {"stopOld", "rollback"} => HasActive
  BY <1>1 DEF OwnsCandidate
<1>6. n \in Gens
  BY <1>1, <1>3, <1>5 DEF Leased
<1>7. /\ Current \in Nat /\ (HasActive => Current # 0 /\ Current \in Gens /\ gen[Current].status = "active")
  BY <1>1, CurrentIs
<1> QED
  BY <1>1, <1>2, <1>4, <1>5, <1>6, <1>7

\* The order while the candidate is built.
LEMMA ReplacementKeeps ==
    ASSUME InOrder, NEW n \in Gens, n = Current + 1, \A h \in Gens : h # n => gen'[h] = gen[h],
           gen'[n].status \in {"prepared", "candidate", "failed"}
    PROVE  InOrder' /\ Current' = Current /\ (HasActive' <=> HasActive)
BY Freshened

\* What a step of a replacement that does not commit keeps.
LEMMA ReplacementStep ==
    ASSUME IndInv, Framed, pc \in Replacing, pc' \in Replacing \cup {"complete"}, job' = job, recon' = recon,
           todo' \in {todo, {}}, dirty' \in BOOLEAN, pc' # "abortMark" => dirty' = FALSE, verdict' \in Verdicts,
           NEW n \in Gens, n = job.gen, gen' \in [Gens -> Rows],
           \A h \in Gens : h # n => gen'[h] = gen[h],
           gen'[n].op = gen[n].op, gen'[n].status \in {"prepared", "candidate", "failed"},
           gen'[n].status = "failed" => pc' = "complete" /\ (gen'[n].cleanup = "clean" => Absent(n)'),
           box' \in [Gens -> BoxStates], nets' \in SUBSET Gens,
           \A h \in Gens : h # n /\ Absent(h) => Absent(h)',
           \A h \in Gens : h # n /\ box'[h] = "absent" => box[h] = "absent",
           pc' \in {"stopOld", "rollback"} => HasActive,
           CandidateBox', OldBox', Running', RepliesAreTrue'
    PROVE  Kept
<1>1. TypeOK /\ InOrder /\ NothingForgotten /\ Numbered /\ Leased /\ OwnsCandidate
  BY DEF IndInv
<1>2. n = Current + 1
  BY <1>1 DEF OwnsCandidate
<1>3. InOrder' /\ Current' = Current /\ (HasActive' <=> HasActive)
  BY <1>1, <1>2, ReplacementKeeps
<1>4. NothingForgotten'
  BY <1>1 DEF NothingForgotten
<1>5. pc # "idle" /\ pc' \notin {"idle", "prepare"} /\ pc' \in Steps
      /\ pc' \notin OlderSteps \cup OpSteps \cup RepairSteps
  BY DEF Replacing, Early, Built, Cut, Abort, Steps, OlderSteps, OpSteps, RepairSteps
<1>6. recon' \in Outcomes /\ todo' \in SUBSET Gens /\ job' \in Jobs
  BY <1>1 DEF TypeOK, Jobs
<1>7. TypeOK'
  BY <1>1, <1>5, <1>6, Typed
<1>8. \A g \in Gens : gen'[g].op = gen[g].op
  OBVIOUS
<1>9. Numbered' /\ Leased'
  BY <1>1, <1>5, <1>8, Numbers, Leases DEF Framed
<1>10. Cleaning' /\ Operating' /\ Repairing'
  BY <1>5, NotCleaning, NotOperating, NotRepairing
<1>11. OwnsCandidate'
  <2> SUFFICES ASSUME pc' \in Replacing PROVE
        /\ job'.kind \in Replacements /\ job'.gen = Current' + 1
        /\ gen'[job'.gen].op = holder' /\ gen'[job'.gen].status \in {"prepared", "candidate"}
        /\ job'.base = (IF HasActive' THEN Current' ELSE 0)
        /\ pc' \in {"stopOld", "rollback"} => HasActive'
    BY DEF OwnsCandidate
  <2>1. /\ job.kind \in Replacements /\ job.gen = Current + 1 /\ gen[n].op = holder
        /\ job.base = IF HasActive THEN Current ELSE 0
    BY <1>1 DEF OwnsCandidate
  <2>2. pc' # "complete"
    BY DEF Replacing, Early, Built, Cut, Abort
  <2> QED
    BY <2>1, <2>2, <1>3 DEF Framed
<1>12. \A g \in Gens : gen[g].status = "active" => g # n
  BY <1>1 DEF OwnsCandidate
<1>13. AuthorityStep /\ SurvivalStep
  BY <1>12 DEF AuthorityStep, SurvivalStep
<1> QED
  BY <1>3, <1>4, <1>7, <1>9, <1>10, <1>11, <1>13 DEF Kept, IndInv

\* The candidate's network is created under a row that already claims it.
LEMMA StepCreateNetwork == ASSUME IndInv, CreateNetwork PROVE Kept
<1>1. helper = "up" /\ pc = "network" /\ (Smooth \/ Fault) /\ UNCHANGED <<ledger, helper, job>>
  BY DEF CreateNetwork, At, Outside
<1>2. PICK n, b : n = job.gen /\ b = job.base
  OBVIOUS
<1>3. pc \in Replacing /\ pc \notin Cut \cup {"idle", "unsaved", "complete"} /\ pc \in Early
  BY <1>1 DEF Replacing, Early, Cut
<1>4. /\ TypeOK /\ InOrder /\ Running /\ Framed
      /\ n \in Gens /\ n = Current + 1 /\ gen[n].status \in {"prepared", "candidate"} /\ dirty = FALSE
  BY <1>1, <1>2, <1>3, AtReplacement
<1>5. gen' = gen /\ recon' = recon /\ box' = box
  BY DEF CreateNetwork, store
<1>6. /\ nets' \in {nets, nets \cup {n}} /\ todo' \in {todo, {}} /\ dirty' \in {dirty, FALSE}
      /\ pc' \in {"recordNetwork", "abortContainer", "complete"}
      /\ pc' = "complete" => verdict' = "unknown"
      /\ pc' # "complete" => verdict' = verdict
  BY <1>2 DEF CreateNetwork, c, Goto, Finish
<1>7. CandidateBox /\ OldBox /\ Leased
  BY DEF IndInv
<1>8. box[n] = "absent"
  BY <1>2, <1>3, <1>7 DEF CandidateBox
<1>9. CandidateBox'
  BY <1>1, <1>2, <1>5, <1>6, <1>8 DEF CandidateBox, Early, Built, Cut, Abort, Runs
<1>10. OldBox'
  BY <1>1, <1>3, <1>4, <1>5, <1>6, <1>7 DEF OldBox, Early, Built, Cut, Abort, Framed
<1>11. Current' = Current
  BY <1>5 DEF Current, Having
<1>12. Running'
  BY <1>3, <1>4, <1>5, <1>7, <1>11, RunningHolds DEF Runs
<1>13. RepliesAreTrue'
  BY <1>6 DEF RepliesAreTrue
<1>14. /\ pc' \in Replacing \cup {"complete"} /\ pc' # "abortMark" /\ dirty' = FALSE /\ verdict' \in Verdicts
       /\ pc' \notin {"stopOld", "rollback"}
  BY <1>4, <1>6 DEF Replacing, Early, Abort, Verdicts, TypeOK
<1>15. /\ gen' \in [Gens -> Rows] /\ box' \in [Gens -> BoxStates] /\ nets' \in SUBSET Gens
       /\ \A h \in Gens : h # n /\ Absent(h) => Absent(h)'
       /\ \A h \in Gens : h # n /\ box'[h] = "absent" => box[h] = "absent"
  BY <1>4, <1>5, <1>6 DEF TypeOK, Absent
<1> QED
  BY <1>1, <1>2, <1>3, <1>4, <1>5, <1>6, <1>9, <1>10, <1>12, <1>13, <1>14, <1>15, ReplacementStep

\* The candidate's row records its network.
LEMMA StepRecordNetwork == ASSUME IndInv, RecordNetwork PROVE Kept
<1>1. helper = "up" /\ pc = "recordNetwork" /\ (Smooth \/ Fault) /\ UNCHANGED <<ledger, helper, job>>
  BY DEF RecordNetwork, At, Outside
<1>2. PICK n, b : n = job.gen /\ b = job.base
  OBVIOUS
<1>3. pc \in Replacing /\ pc \notin Cut \cup {"idle", "unsaved", "complete"} /\ pc \in Early
  BY <1>1 DEF Replacing, Early, Cut
<1>4. /\ TypeOK /\ InOrder /\ Running /\ Framed
      /\ n \in Gens /\ n = Current + 1 /\ gen[n].status \in {"prepared", "candidate"} /\ dirty = FALSE
  BY <1>1, <1>2, <1>3, AtReplacement
<1>5. recon' = recon /\ box' = box /\ nets' = nets
  BY DEF RecordNetwork, runtime
<1>6. /\ gen' \in {gen, RecordNetworkRow(n)} /\ todo' \in {todo, {}} /\ dirty' \in {dirty, FALSE}
      /\ pc' \in {"container", "complete"}
      /\ pc' = "complete" => verdict' = "unknown"
      /\ pc' # "complete" => verdict' = verdict
  BY <1>2 DEF RecordNetwork, c, Goto, Finish
<1>7. CandidateBox /\ OldBox /\ Leased
  BY DEF IndInv
<1>8. /\ gen' \in [Gens -> Rows] /\ (\A h \in Gens : h # n => gen'[h] = gen[h])
      /\ gen'[n].op = gen[n].op /\ gen'[n].status \in {"prepared", "candidate"}
  <2>1. CASE gen' = gen
    BY <2>1, <1>4 DEF TypeOK
  <2>2. CASE gen' = RecordNetworkRow(n)
    BY <2>2, <1>4, RecordNetworkRowIs DEF Refreshed
  <2> QED
    BY <1>6, <2>1, <2>2
<1>9. box[n] = "absent"
  BY <1>2, <1>3, <1>7 DEF CandidateBox
<1>10. CandidateBox'
  BY <1>1, <1>2, <1>5, <1>6, <1>9 DEF CandidateBox, Early, Built, Cut, Abort
<1>11. OldBox'
  BY <1>1, <1>3, <1>4, <1>5, <1>6, <1>7 DEF OldBox, Early, Built, Cut, Abort, Framed
<1>12. Current' = Current
  BY <1>4, <1>8, ReplacementKeeps
<1>13. Running'
  <2>1. \A g \in Gens : gen'[g].op = gen[g].op
    BY <1>8
  <2> QED
    BY <2>1, <1>3, <1>4, <1>5, <1>7, <1>12, RunningHolds DEF Runs
<1>14. RepliesAreTrue'
  BY <1>6 DEF RepliesAreTrue
<1>15. /\ pc' \in Replacing \cup {"complete"} /\ pc' # "abortMark" /\ dirty' = FALSE /\ verdict' \in Verdicts
       /\ pc' \notin {"stopOld", "rollback"}
  BY <1>4, <1>6 DEF Replacing, Early, Abort, Verdicts, TypeOK
<1>16. /\ box' \in [Gens -> BoxStates] /\ nets' \in SUBSET Gens
       /\ \A h \in Gens : h # n /\ Absent(h) => Absent(h)'
       /\ \A h \in Gens : h # n /\ box'[h] = "absent" => box[h] = "absent"
  BY <1>4, <1>5 DEF TypeOK, Absent
<1> QED
  BY <1>1, <1>2, <1>3, <1>4, <1>5, <1>6, <1>8, <1>10, <1>11, <1>13, <1>14, <1>15, <1>16, ReplacementStep

\* The candidate's container is created, not running, under a row that already claims it.
LEMMA StepCreateContainer == ASSUME IndInv, CreateContainer PROVE Kept
<1>1. helper = "up" /\ pc = "container" /\ (Smooth \/ Fault) /\ UNCHANGED <<ledger, helper, job>>
  BY DEF CreateContainer, At, Outside
<1>2. PICK n, b : n = job.gen /\ b = job.base
  OBVIOUS
<1>3. pc \in Replacing /\ pc \notin Cut \cup {"idle", "unsaved", "complete"} /\ pc \in Early
  BY <1>1 DEF Replacing, Early, Cut
<1>4. /\ TypeOK /\ InOrder /\ Running /\ Framed
      /\ n \in Gens /\ n = Current + 1 /\ gen[n].status \in {"prepared", "candidate"} /\ dirty = FALSE
      /\ b # 0 => b \in Gens /\ b # n
  BY <1>1, <1>2, <1>3, AtReplacement
<1>5. gen' = gen /\ recon' = recon /\ nets' = nets
  BY DEF CreateContainer, store
<1>6. /\ box' \in {box, Set(n, "stopped")} /\ todo' \in {todo, {}} /\ dirty' \in {dirty, FALSE}
      /\ pc' \in {"recordCreated", "abortContainer", "complete"}
      /\ pc' = "abortContainer" => box' = box
      /\ pc' = "complete" => verdict' = "unknown"
      /\ pc' # "complete" => verdict' = verdict
  BY <1>2 DEF CreateContainer, c, Goto, Finish
<1>7. CandidateBox /\ OldBox /\ Leased
  BY DEF IndInv
<1>8. box[n] = "absent"
  BY <1>2, <1>3, <1>7 DEF CandidateBox
<1>9. /\ box' \in [Gens -> BoxStates] /\ box'[n] \in {"absent", "stopped"}
      /\ \A h \in Gens : h # n => box'[h] = box[h]
  BY <1>4, <1>6, <1>8, SetIs DEF TypeOK, BoxStates
<1>10. CandidateBox'
  BY <1>1, <1>2, <1>5, <1>6, <1>8, <1>9 DEF CandidateBox, Early, Built, Cut, Abort, Runs
<1>11. OldBox'
  BY <1>1, <1>2, <1>3, <1>4, <1>6, <1>7, <1>9 DEF OldBox, Early, Built, Cut, Abort, Framed
<1>12. Current' = Current
  BY <1>5 DEF Current, Having
<1>13. Running'
  <2>1. \A g \in Gens : (box'[g] = "restarting" => box[g] = "restarting") /\ (Runs(g)' => Runs(g))
    BY <1>9 DEF Runs
  <2> QED
    BY <2>1, <1>3, <1>4, <1>5, <1>7, <1>12, RunningHolds
<1>14. RepliesAreTrue'
  BY <1>6 DEF RepliesAreTrue
<1>15. /\ pc' \in Replacing \cup {"complete"} /\ pc' # "abortMark" /\ dirty' = FALSE /\ verdict' \in Verdicts
       /\ pc' \notin {"stopOld", "rollback"}
  BY <1>4, <1>6 DEF Replacing, Built, Abort, Verdicts, TypeOK
<1>16. /\ gen' \in [Gens -> Rows] /\ nets' \in SUBSET Gens
       /\ \A h \in Gens : h # n /\ Absent(h) => Absent(h)'
       /\ \A h \in Gens : h # n /\ box'[h] = "absent" => box[h] = "absent"
  BY <1>4, <1>5, <1>9 DEF TypeOK, Absent
<1> QED
  BY <1>1, <1>2, <1>3, <1>4, <1>5, <1>6, <1>9, <1>10, <1>11, <1>13, <1>14, <1>15, <1>16, ReplacementStep

\* The container of the candidate is recorded, as created or as verified.
LEMMA ContainerRecorded ==
    ASSUME IndInv, Framed, pc \in {"recordCreated", "verifyStopped"}, job' = job, recon' = recon,
           box' = box, nets' = nets, NEW n, n = job.gen, NEW s \in {"created", "stopped"},
           gen' \in {gen, RecordContainerRow(n, s)},
           n \in Gens, n = Current + 1, gen[n].status \in {"prepared", "candidate"},
           todo' \in {todo, {}}, dirty' \in {dirty, FALSE},
           pc' \in {"verifyStopped", "precutover", "abortContainer", "complete"},
           pc' = "complete" => verdict' = "unknown",
           pc' # "complete" => verdict' = verdict,
           pc' \in {"verifyStopped", "precutover"} => gen' # gen \/ gen[n].cid,
           pc' = "abortContainer" => pc = "verifyStopped"
    PROVE  Kept
<1>1. pc \in Replacing /\ pc \notin Cut \cup {"idle", "unsaved", "complete"} /\ pc \in Built /\ pc # "abortMark"
  BY DEF Replacing, Built, Cut
<1>2. TypeOK /\ InOrder /\ Running /\ CandidateBox /\ OldBox /\ Leased
  BY DEF IndInv
<1>3. /\ gen' \in [Gens -> Rows] /\ (\A h \in Gens : h # n => gen'[h] = gen[h])
      /\ gen'[n].op = gen[n].op /\ gen'[n].status \in {"prepared", "candidate"}
      /\ (gen[n].cid => gen'[n].cid) /\ (gen' # gen => gen'[n].cid)
  <2>1. CASE gen' = gen
    BY <2>1, <1>2 DEF TypeOK
  <2>2. CASE gen' = RecordContainerRow(n, s)
    BY <2>2, <1>2, RecordContainerRowIs DEF Refreshed
  <2> QED
    BY <2>1, <2>2
<1>4. box[n] \in {"absent", "stopped"} /\ (pc = "verifyStopped" => gen[n].cid)
  BY <1>1, <1>2 DEF CandidateBox, Built
<1>5. CandidateBox'
  BY <1>3, <1>4 DEF CandidateBox, Early, Built, Cut, Abort, Runs
<1>6. OldBox'
  BY <1>1, <1>2 DEF OldBox, Early, Built, Cut, Abort, Framed
<1>7. Current' = Current
  BY <1>2, <1>3, ReplacementKeeps
<1>8. Running'
  <2>1. \A g \in Gens : gen'[g].op = gen[g].op
    BY <1>3
  <2> QED
    BY <2>1, <1>1, <1>2, <1>7, RunningHolds DEF Runs
<1>9. RepliesAreTrue'
  BY DEF RepliesAreTrue
<1>10. /\ pc' \in Replacing \cup {"complete"} /\ pc' # "abortMark" /\ dirty' = FALSE /\ verdict' \in Verdicts
       /\ pc' \notin {"stopOld", "rollback"}
  BY <1>1, <1>2 DEF Replacing, Built, Abort, Verdicts, TypeOK, Leased
<1>11. /\ box' \in [Gens -> BoxStates] /\ nets' \in SUBSET Gens
       /\ \A h \in Gens : h # n /\ Absent(h) => Absent(h)'
       /\ \A h \in Gens : h # n /\ box'[h] = "absent" => box[h] = "absent"
  BY <1>2 DEF TypeOK, Absent
<1> QED
  BY <1>1, <1>3, <1>5, <1>6, <1>8, <1>9, <1>10, <1>11, ReplacementStep

\* The candidate's row records its container.
LEMMA StepRecordCreated == ASSUME IndInv, RecordCreated PROVE Kept
<1>1. helper = "up" /\ pc = "recordCreated" /\ (Smooth \/ Fault) /\ UNCHANGED <<ledger, helper, job>>
  BY DEF RecordCreated, At, Outside
<1>2. PICK n, b : n = job.gen /\ b = job.base
  OBVIOUS
<1>3. TypeOK /\ Framed /\ n \in Gens /\ n = Current + 1 /\ gen[n].status \in {"prepared", "candidate"}
  BY <1>1, <1>2, AtReplacement DEF Replacing, Built
<1>4. recon' = recon /\ box' = box /\ nets' = nets
  BY DEF RecordCreated, runtime
<1>5. /\ gen' \in {gen, RecordContainerRow(n, "created")} /\ todo' \in {todo, {}} /\ dirty' \in {dirty, FALSE}
      /\ pc' \in {"verifyStopped", "complete"}
      /\ pc' = "verifyStopped" => gen' = RecordContainerRow(n, "created")
      /\ pc' = "complete" => verdict' = "unknown"
      /\ pc' # "complete" => verdict' = verdict
  BY <1>2 DEF RecordCreated, c, Goto, Finish
<1>6. RecordContainerRow(n, "created")[n].cid
  BY <1>3, RecordContainerRowIs
<1>7. pc' = "verifyStopped" => gen' # gen \/ gen[n].cid
  BY <1>5, <1>6
<1> QED
  BY <1>1, <1>2, <1>3, <1>4, <1>5, <1>7, ContainerRecorded

\* The verification before the cutover observes the candidate and changes nothing.
LEMMA StepVerifyStopped == ASSUME IndInv, VerifyStopped PROVE Kept
<1>1. helper = "up" /\ pc = "verifyStopped" /\ (Smooth \/ Fault) /\ UNCHANGED <<ledger, helper, job>>
  BY DEF VerifyStopped, At, Outside
<1>2. PICK n, b : n = job.gen /\ b = job.base
  OBVIOUS
<1>3. TypeOK /\ Framed /\ n \in Gens /\ n = Current + 1 /\ gen[n].status \in {"prepared", "candidate"}
  BY <1>1, <1>2, AtReplacement DEF Replacing, Built
<1>4. recon' = recon /\ box' = box /\ nets' = nets
  BY DEF VerifyStopped, runtime
<1>5. /\ gen' \in {gen, RecordContainerRow(n, "stopped")} /\ todo' \in {todo, {}} /\ dirty' \in {dirty, FALSE}
      /\ pc' \in {"precutover", "abortContainer", "complete"}
      /\ pc' = "complete" => verdict' = "unknown"
      /\ pc' # "complete" => verdict' = verdict
  BY <1>2 DEF VerifyStopped, c, Goto, Finish
<1>6. gen[n].cid
  BY <1>1, <1>2 DEF IndInv, CandidateBox, Built
<1> QED
  BY <1>1, <1>2, <1>3, <1>4, <1>5, <1>6, ContainerRecorded

\* The last observation of the old generation changes nothing.
LEMMA StepPreCutover == ASSUME IndInv, PreCutover PROVE Kept
<1>1. helper = "up" /\ pc = "precutover" /\ (Smooth \/ Fault) /\ UNCHANGED <<ledger, helper, job>>
  BY DEF PreCutover, At, Outside
<1>2. PICK n, b : n = job.gen /\ b = job.base
  OBVIOUS
<1>3. pc \in Replacing /\ pc \notin Cut \cup {"idle", "unsaved", "complete"} /\ pc \in Built
  BY <1>1 DEF Replacing, Built, Cut
<1>4. /\ TypeOK /\ InOrder /\ Running /\ Framed
      /\ n \in Gens /\ n = Current + 1 /\ gen[n].status \in {"prepared", "candidate"} /\ dirty = FALSE
      /\ b # 0 => b \in Gens /\ b = Current /\ gen[b].status = "active"
  BY <1>1, <1>2, <1>3, AtReplacement
<1>5. gen' = gen /\ recon' = recon /\ box' = box /\ nets' = nets
  BY DEF PreCutover, store, runtime
<1>6. /\ UNCHANGED <<todo, dirty, verdict>> /\ pc' \in {"stopOld", "startCandidate", "abortContainer"}
      /\ pc' = "stopOld" => b # 0
      /\ pc' = "startCandidate" => b = 0 \/ box[b] # "running"
  BY <1>2 DEF PreCutover, Goto
<1>7. CandidateBox /\ OldBox /\ Leased
  BY DEF IndInv
<1>8. box[n] \in {"absent", "stopped"} /\ gen[n].cid
  BY <1>1, <1>2, <1>3, <1>7 DEF CandidateBox, Built
<1>9. CandidateBox'
  BY <1>1, <1>2, <1>5, <1>6, <1>8 DEF CandidateBox, Early, Built, Cut, Abort, Runs
<1>10. Steady /\ b # 0 => box[b] # "restarting"
  BY <1>4 DEF Running
<1>11. OldBox'
  BY <1>1, <1>2, <1>3, <1>4, <1>5, <1>6, <1>7, <1>10 DEF OldBox, Early, Built, Cut, Abort, Framed, Runs, Steady
<1>12. Current' = Current
  BY <1>5 DEF Current, Having
<1>13. Running'
  BY <1>3, <1>4, <1>5, <1>7, <1>12, RunningHolds DEF Runs
<1>14. RepliesAreTrue'
  BY <1>6 DEF RepliesAreTrue
<1>15. pc' \in Replacing \cup {"complete"} /\ pc' # "abortMark" /\ dirty' = FALSE /\ verdict' \in Verdicts
  BY <1>4, <1>6 DEF Replacing, Built, Abort, Verdicts, TypeOK
<1>16. /\ gen' \in [Gens -> Rows] /\ box' \in [Gens -> BoxStates] /\ nets' \in SUBSET Gens
       /\ \A h \in Gens : h # n /\ Absent(h) => Absent(h)'
       /\ \A h \in Gens : h # n /\ box'[h] = "absent" => box[h] = "absent"
  BY <1>4, <1>5 DEF TypeOK, Absent
<1>17. pc' \in {"stopOld", "rollback"} => HasActive
  BY <1>4, <1>6, CurrentIs
<1> QED
  BY <1>1, <1>2, <1>3, <1>4, <1>5, <1>6, <1>9, <1>11, <1>13, <1>14, <1>15, <1>16, <1>17, ReplacementStep

\* The old generation stops before the candidate is started.
LEMMA StepStopOld == ASSUME IndInv, StopOld PROVE Kept
<1>1. helper = "up" /\ pc = "stopOld" /\ (Smooth \/ Fault) /\ UNCHANGED <<ledger, helper, job>>
  BY DEF StopOld, At, Outside
<1>2. PICK n, b : n = job.gen /\ b = job.base
  OBVIOUS
<1>3. pc \in Replacing /\ pc \notin Cut \cup {"idle", "unsaved", "complete"} /\ pc \in Built
  BY <1>1 DEF Replacing, Built, Cut
<1>4. /\ TypeOK /\ InOrder /\ Running /\ Framed
      /\ n \in Gens /\ n = Current + 1 /\ gen[n].status \in {"prepared", "candidate"} /\ dirty = FALSE
      /\ b \in Gens /\ b # n /\ gen[b].status = "active" /\ b # 0
  BY <1>1, <1>2, <1>3, AtReplacement
<1>5. gen' = gen /\ recon' = recon /\ nets' = nets
  BY DEF StopOld, store
<1>6. \/ box' = box
      \/ box[b] # "absent" /\ box' = Set(b, "stopped")
  BY <1>2 DEF StopOld, StopAfterError
<1>7. /\ todo' \in {todo, {}} /\ dirty' \in {dirty, FALSE}
      /\ pc' \in {"startCandidate", "abortContainer", "complete"}
      /\ pc' = "startCandidate" => box' = Set(b, "stopped") \/ (box' = box /\ box[b] = "detached")
      /\ pc' = "abortContainer" => box' = box /\ box[b] = "running"
      /\ pc' = "complete" => verdict' = "unknown"
      /\ pc' # "complete" => verdict' = verdict
  BY <1>2 DEF StopOld, Goto, Finish
<1>8. CandidateBox /\ OldBox /\ Leased
  BY DEF IndInv
<1>9. /\ box' \in [Gens -> BoxStates] /\ (\A h \in Gens : h # b => box'[h] = box[h])
      /\ (box' # box => box'[b] = "stopped") /\ (pc' = "startCandidate" => box'[b] \in {"stopped", "detached"})
      /\ (box[b] = "absent" <=> box'[b] = "absent")
  BY <1>4, <1>6, <1>7, SetIs DEF TypeOK, BoxStates
<1>10. box[n] \in {"absent", "stopped"} /\ gen[n].cid
  BY <1>1, <1>2, <1>3, <1>8 DEF CandidateBox, Built
<1>11. CandidateBox'
  BY <1>1, <1>2, <1>4, <1>5, <1>7, <1>9, <1>10 DEF CandidateBox, Early, Built, Cut, Abort, Runs
<1>12. OldBox'
  BY <1>1, <1>2, <1>4, <1>7, <1>9 DEF OldBox, Early, Built, Cut, Abort, Framed, Runs
<1>13. Current' = Current
  BY <1>5 DEF Current, Having
<1>14. Running'
  <2>1. \A g \in Gens : (box'[g] = "restarting" => box[g] = "restarting") /\ (Runs(g)' => Runs(g))
    BY <1>9 DEF Runs
  <2> QED
    BY <2>1, <1>3, <1>4, <1>5, <1>8, <1>13, RunningHolds
<1>15. RepliesAreTrue'
  BY <1>7 DEF RepliesAreTrue
<1>16. /\ pc' \in Replacing \cup {"complete"} /\ pc' # "abortMark" /\ dirty' = FALSE /\ verdict' \in Verdicts
       /\ pc' \notin {"stopOld", "rollback"}
  BY <1>4, <1>7 DEF Replacing, Built, Abort, Verdicts, TypeOK
<1>17. /\ gen' \in [Gens -> Rows] /\ nets' \in SUBSET Gens
       /\ \A h \in Gens : h # n /\ Absent(h) => Absent(h)'
       /\ \A h \in Gens : h # n /\ box'[h] = "absent" => box[h] = "absent"
  BY <1>4, <1>5, <1>9 DEF TypeOK, Absent
<1> QED
  BY <1>1, <1>2, <1>3, <1>4, <1>5, <1>7, <1>9, <1>11, <1>12, <1>14, <1>15, <1>16, <1>17, ReplacementStep

\* The candidate starts when the old generation is known to be stopped.
LEMMA StepStartCandidate == ASSUME IndInv, StartCandidate PROVE Kept
<1>1. helper = "up" /\ pc = "startCandidate" /\ (Smooth \/ Fault) /\ UNCHANGED <<ledger, helper, job>>
  BY DEF StartCandidate, At, Outside
<1>2. PICK n, b : n = job.gen /\ b = job.base
  OBVIOUS
<1>3. pc \in Replacing
  BY <1>1 DEF Replacing
<1>4. /\ TypeOK /\ InOrder /\ Running /\ Framed /\ lease = "held"
      /\ n \in Gens /\ n = Current + 1 /\ gen[n].status \in {"prepared", "candidate"} /\ gen[n].op = holder /\ dirty = FALSE
      /\ b # 0 => b \in Gens /\ b # n /\ b = Current
      /\ b = 0 => ~HasActive
  BY <1>1, <1>2, <1>3, AtReplacement
<1>5. gen' = gen /\ recon' = recon /\ nets' = nets
  BY DEF StartCandidate, store
<1>6. /\ \/ box' = box
         \/ box[n] # "absent" /\ box' \in {Set(n, "running"), Set(n, "detached")}
      /\ UNCHANGED <<todo, dirty, verdict>> /\ pc' \in {"recordRunning", "cutoverFailed"}
  BY <1>2 DEF StartCandidate, StartAfterError, c, Goto
<1>7. CandidateBox /\ OldBox /\ NothingForgotten
  BY DEF IndInv
<1>8. box[n] \in {"absent", "stopped"} /\ gen[n].cid
  BY <1>1, <1>2, <1>7 DEF CandidateBox
<1>9. /\ box' \in [Gens -> BoxStates] /\ (\A h \in Gens : h # n => box'[h] = box[h])
      /\ box'[n] # "restarting"
  BY <1>4, <1>6, <1>8, SetIs DEF TypeOK, BoxStates
<1>10. pc' \in Cut
  BY <1>6 DEF Cut
<1>11. CandidateBox'
  BY <1>1, <1>2, <1>5, <1>6, <1>8 DEF CandidateBox, Early, Built, Cut, Abort
<1>12. Steady /\ b # 0 => ~Runs(b)
  BY <1>1, <1>2, <1>7 DEF OldBox
<1>13. OldBox'
  BY <1>1, <1>2, <1>4, <1>6, <1>9, <1>12 DEF OldBox, Early, Built, Cut, Abort, Framed, Runs, Steady
<1>14. Current' = Current
  BY <1>5 DEF Current, Having
<1>15. ASSUME Steady, NEW g \in Gens, Runs(g)' PROVE g = n
  <2>1. CASE g # n
    <3>1. Runs(g)
      BY <2>1, <1>9, <1>15 DEF Runs
    <3>2. g >= Current /\ Current \in Nat /\ g \in Nat /\ g # 0
      BY <3>1, <1>4, <1>15, CurrentIs DEF Running, Gens
    <3>3. g # Current
      <4>1. CASE b # 0
        BY <4>1, <3>1, <1>4, <1>12, <1>15
      <4>2. CASE b = 0
        BY <4>2, <3>1, <3>2, <1>4, <1>7, OnlyNext
      <4> QED
        BY <4>1, <4>2
    <3>4. g > Current
      BY <3>2, <3>3
    <3> QED
      BY <3>1, <3>4, <1>4, <1>7, OnlyNext
  <2> QED
    BY <2>1
<1>16. Steady => \A g \in Gens : box'[g] # "restarting"
  BY <1>4, <1>9 DEF Running
<1>17. Running'
  BY <1>4, <1>5, <1>10, <1>14, <1>15, <1>16, RunningAlone
<1>18. RepliesAreTrue'
  BY <1>6 DEF RepliesAreTrue
<1>19. /\ pc' \in Replacing \cup {"complete"} /\ pc' # "abortMark" /\ dirty' = FALSE /\ verdict' \in Verdicts
       /\ pc' \notin {"stopOld", "rollback"}
  BY <1>4, <1>6 DEF Replacing, Cut, Verdicts, TypeOK
<1>20. /\ gen' \in [Gens -> Rows] /\ nets' \in SUBSET Gens
       /\ \A h \in Gens : h # n /\ Absent(h) => Absent(h)'
       /\ \A h \in Gens : h # n /\ box'[h] = "absent" => box[h] = "absent"
  BY <1>4, <1>5, <1>9 DEF TypeOK, Absent
<1> QED
  BY <1>1, <1>2, <1>3, <1>4, <1>5, <1>6, <1>9, <1>11, <1>13, <1>17, <1>18, <1>19, <1>20, ReplacementStep

\* What a step of the cutover that changes neither rows' statuses nor containers
\* keeps.
LEMMA CutStep ==
    ASSUME IndInv, Framed, pc \in Cut, job' = job, recon' = recon, box' = box, nets' = nets,
           NEW n, n = job.gen, n \in Gens, n = Current + 1, gen[n].status \in {"prepared", "candidate"},
           gen' \in {gen, RecordStateRow(n, "running")},
           todo' \in {todo, {}}, dirty' \in {dirty, FALSE},
           pc' \in Cut \cup {"complete"},
           pc' = "complete" => verdict' = "unknown",
           pc' # "complete" => verdict' = verdict
    PROVE  Kept
<1>1. pc \in Replacing /\ pc # "abortMark" /\ pc' \in Replacing \cup {"complete"} /\ pc' # "abortMark"
      /\ pc' \notin {"stopOld", "rollback"}
  BY DEF Replacing, Cut
<1>2. TypeOK /\ InOrder /\ Running /\ CandidateBox /\ OldBox /\ Leased
  BY DEF IndInv
<1>3. /\ gen' \in [Gens -> Rows] /\ (\A h \in Gens : h # n => gen'[h] = gen[h])
      /\ gen'[n].op = gen[n].op /\ gen'[n].status \in {"prepared", "candidate"}
      /\ (gen[n].cid => gen'[n].cid)
  <2>1. CASE gen' = gen
    BY <2>1, <1>2 DEF TypeOK
  <2>2. CASE gen' = RecordStateRow(n, "running")
    BY <2>2, <1>2, RecordStateRowIs DEF Refreshed
  <2> QED
    BY <2>1, <2>2
<1>4. gen[n].cid
  BY <1>2 DEF CandidateBox
<1>5. CandidateBox'
  BY <1>3, <1>4 DEF CandidateBox, Early, Built, Cut, Abort
<1>6. OldBox'
  BY <1>2 DEF OldBox, Early, Built, Cut, Abort, Framed, Runs, Steady
<1>7. Current' = Current
  BY <1>2, <1>3, ReplacementKeeps
<1>8. Running'
  <2>1. \A g \in Gens : gen'[g].op = gen[g].op
    BY <1>3
  <2>2. Steady' => Steady
    BY DEF Steady, Framed
  <2> QED
    BY <2>1, <2>2, <1>2, <1>7, RunningStays DEF Runs, Framed
<1>9. RepliesAreTrue'
  BY DEF RepliesAreTrue, Cut
<1>10. dirty' = FALSE /\ verdict' \in Verdicts
  BY <1>1, <1>2 DEF Verdicts, TypeOK, Leased
<1>11. /\ box' \in [Gens -> BoxStates] /\ nets' \in SUBSET Gens
       /\ \A h \in Gens : h # n /\ Absent(h) => Absent(h)'
       /\ \A h \in Gens : h # n /\ box'[h] = "absent" => box[h] = "absent"
  BY <1>2 DEF TypeOK, Absent
<1> QED
  BY <1>1, <1>3, <1>5, <1>6, <1>8, <1>9, <1>10, <1>11, ReplacementStep

\* The candidate's row records that it runs.
LEMMA StepRecordRunning == ASSUME IndInv, RecordRunning PROVE Kept
<1>1. helper = "up" /\ pc = "recordRunning" /\ (Smooth \/ Fault) /\ UNCHANGED <<ledger, helper, job>>
  BY DEF RecordRunning, At, Outside
<1>2. PICK n, b : n = job.gen /\ b = job.base
  OBVIOUS
<1>3. Framed /\ n \in Gens /\ n = Current + 1 /\ gen[n].status \in {"prepared", "candidate"}
  BY <1>1, <1>2, AtReplacement DEF Replacing, Cut
<1>4. recon' = recon /\ box' = box /\ nets' = nets
  BY DEF RecordRunning, runtime
<1>5. /\ gen' \in {gen, RecordStateRow(n, "running")} /\ todo' \in {todo, {}} /\ dirty' \in {dirty, FALSE}
      /\ pc' \in {"verifyRunning", "cutoverFailed", "complete"}
      /\ pc' = "complete" => verdict' = "unknown"
      /\ pc' # "complete" => verdict' = verdict
  BY <1>2 DEF RecordRunning, c, Goto, Finish
<1> QED
  BY <1>1, <1>2, <1>3, <1>4, <1>5, CutStep DEF Cut

\* The verification after the cutover observes the candidate and changes nothing.
LEMMA StepVerifyRunning == ASSUME IndInv, VerifyRunning PROVE Kept
<1>1. helper = "up" /\ pc = "verifyRunning" /\ (Smooth \/ Fault) /\ UNCHANGED <<ledger, helper, job>>
  BY DEF VerifyRunning, At, Outside
<1>2. PICK n, b : n = job.gen /\ b = job.base
  OBVIOUS
<1>3. Framed /\ n \in Gens /\ n = Current + 1 /\ gen[n].status \in {"prepared", "candidate"}
  BY <1>1, <1>2, AtReplacement DEF Replacing, Cut
<1>4. gen' = gen /\ recon' = recon /\ box' = box /\ nets' = nets
  BY DEF VerifyRunning, store, runtime
<1>5. /\ todo' \in {todo, {}} /\ dirty' \in {dirty, FALSE}
      /\ pc' \in {"commit", "cutoverFailed", "complete"}
      /\ pc' = "complete" => verdict' = "unknown"
      /\ pc' # "complete" => verdict' = verdict
  BY DEF VerifyRunning, Goto, Finish
<1> QED
  BY <1>1, <1>2, <1>3, <1>4, <1>5, CutStep DEF Cut

\* The rows after a commit.
LEMMA Committed ==
    ASSUME TypeOK, InOrder, NothingForgotten, NEW n \in Gens, n = Current + 1, gen[n].status # "retained",
           NEW recreate \in BOOLEAN, gen' = CommitRows(n, recreate), box' = box, nets' = nets
    PROVE  /\ gen' \in [Gens -> Rows] /\ \A h \in Gens : gen'[h].op = gen[h].op
           /\ gen'[n].status = "active"
           /\ InOrder' /\ NothingForgotten' /\ Current' = n /\ HasActive'
<1>1. /\ gen' \in [Gens -> Rows] /\ \A h \in Gens : gen'[h].op = gen[h].op
      /\ gen'[n].status = "active"
      /\ \A h \in Gens : h = n - 1 /\ gen[h].status = "active" => gen'[h].status \in {"retained", "cleanup_pending"}
      /\ \A h \in Gens : h = n - 1 /\ gen[h].status # "active" => gen'[h] = gen[h]
      /\ \A h \in Gens : h # n /\ h # n - 1 =>
            \/ gen'[h] = gen[h] /\ gen[h].status # "retained"
            \/ gen[h].status = "retained" /\ gen'[h].status = "cleanup_pending"
  BY CommitRowsIs
<1>2. Current \in Nat /\ Current = n - 1 /\ (Current # 0 => Current \in Gens)
  BY CurrentIs
<1>3. Current # 0 =>
        \/ gen'[Current].status = gen[Current].status /\ gen[Current].status # "active"
        \/ gen'[Current].status \in {"retained", "cleanup_pending"}
  BY <1>1, <1>2
<1>4. \A g \in Gens : g # n /\ g # Current =>
               \/ gen'[g].status = gen[g].status /\ gen[g].status # "retained"
               \/ gen[g].status = "retained" /\ gen'[g].status = "cleanup_pending"
  BY <1>1, <1>2
<1>5. InOrder' /\ Current' = n /\ HasActive'
  BY <1>1, <1>3, <1>4, Switched
<1>6. ASSUME NEW g \in Gens, ~Absent(g)'
      PROVE  gen'[g].status \notin {"none", "removed"} /\ ~(gen'[g].status = "failed" /\ gen'[g].cleanup = "clean")
  <2>1. ~Absent(g)
    BY <1>6 DEF Absent
  <2>2. gen'[g] = gen[g] \/ gen'[g].status \in {"active", "retained", "cleanup_pending"}
    BY <1>1
  <2> QED
    BY <2>1, <2>2 DEF NothingForgotten
<1>7. NothingForgotten'
  BY <1>6 DEF NothingForgotten
<1> QED
  BY <1>1, <1>5, <1>7

\* Authority moves to a successor that was verified running.
LEMMA Promoted ==
    ASSUME InOrder, NEW n \in Gens, n = Current + 1, gen'[n].status = "active",
           gen[n].status = "candidate", gen[n].state = "running", gen[n].hash
    PROVE  AuthorityStep
<1>1. ASSUME NEW g \in Gens, gen[g].status = "active"
      PROVE  /\ g + 1 \in Gens /\ gen'[g + 1].status = "active"
             /\ gen[g + 1].status = "candidate"
             /\ gen[g + 1].state = "running" /\ gen[g + 1].hash
  <2>1. g + 1 = n
    BY <1>1, CurrentIs
  <2> QED
    BY <2>1
<1> QED
  BY <1>1 DEF AuthorityStep

\* Commit moves the authority from the old row to the candidate's in one transaction.
LEMMA StepCommit == ASSUME IndInv, Commit PROVE Kept
<1>1. helper = "up" /\ pc = "commit" /\ (Smooth \/ Fault) /\ UNCHANGED <<ledger, helper, job>>
  BY DEF Commit, At, Outside
<1>2. PICK n, b : n = job.gen /\ b = job.base
  OBVIOUS
<1>3. /\ TypeOK /\ InOrder /\ Running /\ Framed /\ job.kind \in Replacements
      /\ n \in Gens /\ n = Current + 1 /\ gen[n].status \in {"prepared", "candidate"}
      /\ b # 0 => b \in Gens /\ b = Current
      /\ b = 0 => ~HasActive
  BY <1>1, <1>2, AtReplacement DEF Replacing, Cut
<1>4. recon' = recon /\ box' = box /\ nets' = nets
  BY DEF Commit, runtime
<1>5. PICK keep : keep = IF AllowMissingActive THEN 0 ELSE n - 1
  OBVIOUS
<1>6. \/ gen' = gen /\ Finish("unknown")
      \/ /\ gen' = CommitRows(n, AllowMissingActive) /\ Committable(n)
         /\ Finish("unknown") \/ CleanNext(OlderRetained(gen', keep))
  BY <1>2, <1>5 DEF Commit, c
<1>7. CASE gen' = gen /\ Finish("unknown")
  <2>1. todo' = {} /\ dirty' = FALSE /\ pc' = "complete" /\ verdict' = "unknown"
    BY <1>7 DEF Finish
  <2> QED
    BY <2>1, <1>1, <1>2, <1>3, <1>4, <1>7, CutStep DEF Cut
<1>8. CASE gen' = CommitRows(n, AllowMissingActive) /\ Committable(n) /\ (Finish("unknown") \/ CleanNext(OlderRetained(gen', keep)))
  <2>1. NothingForgotten /\ Numbered /\ Leased /\ OldBox
    BY DEF IndInv
  <2>2. AllowMissingActive \in BOOLEAN /\ gen[n].status # "retained"
    BY <1>3 DEF AllowMissingActive
  <2>3. /\ gen' \in [Gens -> Rows] /\ \A h \in Gens : gen'[h].op = gen[h].op
        /\ gen'[n].status = "active"
        /\ InOrder' /\ NothingForgotten' /\ Current' = n
    BY <1>3, <1>4, <1>8, <2>1, <2>2, Committed
  <2>4. /\ \/ pc' = "complete" /\ todo' = {} /\ dirty' = FALSE /\ verdict' \in {"succeeded", "unknown"}
           \/ /\ pc' = "olderContainer" /\ todo' # {} /\ UNCHANGED <<dirty, verdict>>
              /\ todo' = OlderRetained(gen', keep)
    BY <1>8 DEF Finish, CleanNext
  <2>5. dirty = FALSE
    BY <1>1, <2>1 DEF Leased
  <2>6. /\ pc' \in {"complete", "olderContainer"} /\ dirty' = FALSE /\ verdict' \in Verdicts /\ todo' \in SUBSET Gens
        /\ \A h \in todo' : gen'[h].status \notin Gone \cup {"active"}
        /\ pc' = "olderContainer" => todo' # {}
    BY <1>3, <2>4, <2>5 DEF Verdicts, TypeOK, OlderRetained, Gone
  <2>7. TypeOK'
    BY <1>1, <1>3, <1>4, <2>3, <2>6, Typed DEF TypeOK, Steps, Jobs
  <2>8. Numbered' /\ Leased'
    BY <1>1, <1>3, <2>1, <2>3, <2>6, Numbers, Leases DEF Framed
  <2>9. OwnsCandidate' /\ CandidateBox' /\ OldBox' /\ Operating' /\ Repairing'
    BY <2>6, NotReplacing, NotOperating, NotRepairing
       DEF Replacing, Early, Built, Cut, Abort, OpSteps, RepairSteps
  <2>10. Cleaning'
    BY <1>1, <1>2, <1>3, <2>3, <2>6 DEF Cleaning
  <2>11. RepliesAreTrue'
    BY <1>1, <1>2, <2>3, <2>4 DEF RepliesAreTrue
  <2>12. ASSUME Steady, NEW g \in Gens, Runs(g)' PROVE g = Current'
    <3>1. Runs(g)
      BY <2>12, <1>4 DEF Runs
    <3>2. g >= Current /\ Current \in Nat /\ g \in Nat /\ g # 0
      BY <3>1, <1>3, <2>12, CurrentIs DEF Running, Gens
    <3>3. g # Current
      <4>1. CASE b # 0
        <5>1. ~Runs(b)
          BY <4>1, <1>1, <1>2, <2>1, <2>12 DEF OldBox, Cut
        <5> QED
          BY <5>1, <4>1, <3>1, <1>3
      <4>2. CASE b = 0
        BY <4>2, <3>1, <3>2, <1>3, <2>1, OnlyNext
      <4> QED
        BY <4>1, <4>2
    <3>4. g > Current
      BY <3>2, <3>3
    <3> QED
      BY <3>1, <3>4, <1>3, <2>1, <2>3, OnlyNext
  <2>13. Running'
    <3>1. (Steady' => Steady) /\ (Steady => \A g \in Gens : box'[g] # "restarting")
      BY <1>3, <1>4 DEF Steady, Framed, Running
    <3> QED
      BY <3>1, <1>3, <2>3, <2>12, RunningTop
  <2>14. AuthorityStep
    <3>1. gen[n].status = "candidate" /\ gen[n].state = "running" /\ gen[n].hash
      BY <1>8 DEF Committable
    <3> QED
      BY <1>3, <2>3, <3>1, Promoted
  <2>15. SurvivalStep
    BY <1>4 DEF SurvivalStep
  <2> QED
    BY <2>3, <2>7, <2>8, <2>9, <2>10, <2>11, <2>13, <2>14, <2>15 DEF Kept, IndInv
<1> QED
  BY <1>6, <1>7, <1>8

\* A failure before the cutover removes the candidate's container.
LEMMA StepAbortContainer == ASSUME IndInv, AbortContainer PROVE Kept
<1>1. helper = "up" /\ pc = "abortContainer" /\ (Smooth \/ Fault) /\ UNCHANGED <<ledger, helper, job>>
  BY DEF AbortContainer, At, Outside
<1>2. PICK n, b : n = job.gen /\ b = job.base
  OBVIOUS
<1>3. pc \in Replacing /\ pc \notin Cut \cup {"idle", "unsaved", "complete"} /\ pc \in Abort
  BY <1>1 DEF Replacing, Abort, Cut
<1>4. /\ TypeOK /\ InOrder /\ Running /\ Framed
      /\ n \in Gens /\ n = Current + 1 /\ gen[n].status \in {"prepared", "candidate"} /\ dirty = FALSE
      /\ b # 0 => b \in Gens /\ b # n
  BY <1>1, <1>2, <1>3, AtReplacement
<1>5. gen' = gen /\ recon' = recon /\ nets' = nets
  BY DEF AbortContainer, store
<1>6. box' \in {box, Set(n, "absent")} \/ (Runs(n) /\ box' = Set(n, "stopped"))
  BY <1>2 DEF AbortContainer, c, RemoveAfterError, Runs
<1>7. /\ UNCHANGED <<todo, verdict>> /\ pc' \in {"abortNetwork", "abortMark"}
      /\ pc' = "abortNetwork" => /\ dirty' = dirty
                                 /\ box' = Set(n, "absent") \/ (box' = box /\ (gen[n].cid => box[n] = "absent"))
      /\ pc' = "abortMark" => dirty' = TRUE
  BY <1>2 DEF AbortContainer, c, Goto
<1>8. CandidateBox /\ OldBox /\ Leased
  BY DEF IndInv
<1>9. /\ gen[n].cid \/ box[n] = "absent"
      /\ Steady => ~Runs(n)
  BY <1>1, <1>2, <1>3, <1>8 DEF CandidateBox
<1>10. /\ box' \in [Gens -> BoxStates] /\ (\A h \in Gens : h # n => box'[h] = box[h])
       /\ box'[n] \in {box[n], "absent", "stopped"}
       /\ pc' = "abortNetwork" => box'[n] = "absent"
  BY <1>4, <1>6, <1>7, <1>9, SetIs DEF TypeOK, BoxStates
<1>11. Steady' => Steady
  BY <1>4 DEF Steady, Framed
<1>12. CandidateBox'
  BY <1>1, <1>2, <1>7, <1>9, <1>10, <1>11 DEF CandidateBox, Early, Built, Cut, Abort, Runs
<1>13. OldBox'
  BY <1>1, <1>2, <1>3, <1>4, <1>7, <1>8, <1>10 DEF OldBox, Early, Built, Cut, Abort, Framed
<1>14. Current' = Current
  BY <1>5 DEF Current, Having
<1>15. Running'
  <2>1. \A g \in Gens : (box'[g] = "restarting" => box[g] = "restarting") /\ (Runs(g)' => Runs(g))
    BY <1>10 DEF Runs
  <2> QED
    BY <2>1, <1>3, <1>4, <1>5, <1>8, <1>14, RunningHolds
<1>16. RepliesAreTrue'
  BY <1>7 DEF RepliesAreTrue
<1>17. /\ pc' \in Replacing \cup {"complete"} /\ dirty' \in BOOLEAN /\ verdict' \in Verdicts
       /\ (pc' # "abortMark" => dirty' = FALSE) /\ pc' \notin {"stopOld", "rollback"}
  BY <1>4, <1>7 DEF Replacing, Built, Abort, Verdicts, TypeOK
<1>18. /\ gen' \in [Gens -> Rows] /\ nets' \in SUBSET Gens
       /\ \A h \in Gens : h # n /\ Absent(h) => Absent(h)'
       /\ \A h \in Gens : h # n /\ box'[h] = "absent" => box[h] = "absent"
  BY <1>4, <1>5, <1>10 DEF TypeOK, Absent
<1> QED
  BY <1>1, <1>2, <1>3, <1>4, <1>5, <1>7, <1>10, <1>12, <1>13, <1>15, <1>16, <1>17, <1>18, ReplacementStep

\* A failure before the cutover removes the candidate's network.
LEMMA StepAbortNetwork == ASSUME IndInv, AbortNetwork PROVE Kept
<1>1. helper = "up" /\ pc = "abortNetwork" /\ (Smooth \/ Fault) /\ UNCHANGED <<ledger, helper, job>>
  BY DEF AbortNetwork, At, Outside
<1>2. PICK n, b : n = job.gen /\ b = job.base
  OBVIOUS
<1>3. pc \in Replacing /\ pc \notin Cut \cup {"idle", "unsaved", "complete"} /\ pc \in Abort
  BY <1>1 DEF Replacing, Abort, Cut
<1>4. /\ TypeOK /\ InOrder /\ Running /\ Framed
      /\ n \in Gens /\ n = Current + 1 /\ gen[n].status \in {"prepared", "candidate"} /\ dirty = FALSE
  BY <1>1, <1>2, <1>3, AtReplacement
<1>5. gen' = gen /\ recon' = recon /\ box' = box
  BY DEF AbortNetwork, store
<1>6. /\ nets' \in SUBSET nets /\ (\A h \in Gens : h # n /\ h \in nets => h \in nets')
      /\ UNCHANGED <<todo, verdict>> /\ pc' = "abortMark" /\ dirty' \in BOOLEAN /\ (~dirty' => n \notin nets')
  BY <1>2, <1>4 DEF AbortNetwork, c
<1>7. CandidateBox /\ OldBox /\ Leased
  BY DEF IndInv
<1>8. box[n] = "absent"
  BY <1>1, <1>2, <1>7 DEF CandidateBox
<1>9. CandidateBox'
  BY <1>1, <1>2, <1>5, <1>6, <1>8 DEF CandidateBox, Early, Built, Cut, Abort, Runs, Absent
<1>10. OldBox'
  BY <1>1, <1>3, <1>4, <1>5, <1>6, <1>7 DEF OldBox, Early, Built, Cut, Abort, Framed
<1>11. Current' = Current
  BY <1>5 DEF Current, Having
<1>12. Running'
  BY <1>3, <1>4, <1>5, <1>7, <1>11, RunningHolds DEF Runs
<1>13. RepliesAreTrue'
  BY <1>6 DEF RepliesAreTrue
<1>14. pc' \in Replacing \cup {"complete"} /\ verdict' \in Verdicts /\ pc' \notin {"stopOld", "rollback"}
  BY <1>4, <1>6 DEF Replacing, Abort, Verdicts, TypeOK
<1>15. /\ gen' \in [Gens -> Rows] /\ box' \in [Gens -> BoxStates] /\ nets' \in SUBSET Gens
       /\ \A h \in Gens : h # n /\ Absent(h) => Absent(h)'
       /\ \A h \in Gens : h # n /\ box'[h] = "absent" => box[h] = "absent"
  BY <1>4, <1>5, <1>6 DEF TypeOK, Absent
<1> QED
  BY <1>1, <1>2, <1>3, <1>4, <1>5, <1>6, <1>9, <1>10, <1>12, <1>13, <1>14, <1>15, ReplacementStep

\* The aborted candidate's row is marked clean only when its resources were removed.
LEMMA StepAbortMark == ASSUME IndInv, AbortMark PROVE Kept
<1>1. helper = "up" /\ pc = "abortMark" /\ (Smooth \/ Fault) /\ UNCHANGED <<ledger, helper, job>>
  BY DEF AbortMark, At, Outside
<1>2. PICK n, b : n = job.gen /\ b = job.base
  OBVIOUS
<1>3. pc \in Replacing /\ pc \notin Cut \cup {"idle", "unsaved", "complete"} /\ pc \in Abort
  BY <1>1 DEF Replacing, Abort, Cut
<1>4. /\ TypeOK /\ InOrder /\ Running /\ Framed
      /\ n \in Gens /\ n = Current + 1 /\ gen[n].status \in {"prepared", "candidate"}
      /\ b # 0 => b \in Gens /\ b # n /\ gen[b].status = "active"
  BY <1>1, <1>2, <1>3, AtReplacement
<1>5. recon' = recon /\ box' = box /\ nets' = nets
  BY DEF AbortMark, runtime
<1>6. PICK s : s = IF dirty THEN "pending" ELSE "clean"
  OBVIOUS
<1>7. /\ pc' = "complete" /\ todo' = {} /\ dirty' = FALSE
      /\ \/ gen' = MarkFailedRow(n, s) /\ verdict' = (IF dirty THEN "unknown" ELSE "failed")
         \/ gen' = gen /\ verdict' = "unknown"
  BY <1>2, <1>6 DEF AbortMark, c, Finish
<1>8. /\ gen' \in [Gens -> Rows] /\ (\A h \in Gens : h # n => gen'[h] = gen[h])
      /\ gen'[n].op = gen[n].op /\ gen'[n].status \in {"prepared", "candidate", "failed"}
      /\ gen'[n].status = "failed" => gen'[n].cleanup = s
  <2>1. CASE gen' = gen
    BY <2>1, <1>4 DEF TypeOK
  <2>2. CASE gen' = MarkFailedRow(n, s)
    BY <2>2, <1>4, <1>6, MarkFailedRowIs DEF Refreshed
  <2> QED
    BY <1>7, <2>1, <2>2
<1>9. CandidateBox /\ OldBox /\ Leased
  BY DEF IndInv
<1>10. ~dirty => Absent(n)
  BY <1>1, <1>2, <1>9 DEF CandidateBox
<1>11. ~dirty => Absent(n)'
  BY <1>5, <1>10 DEF Absent
<1>12. gen'[n].status = "failed" => pc' = "complete" /\ (gen'[n].cleanup = "clean" => Absent(n)')
  BY <1>6, <1>7, <1>8, <1>11
<1>13. CandidateBox' /\ OldBox'
  BY <1>7, NotReplacing DEF Replacing, Early, Built, Cut, Abort
<1>14. Current' = Current
  BY <1>4, <1>8, ReplacementKeeps
<1>15. Running'
  <2>1. \A g \in Gens : gen'[g].op = gen[g].op
    BY <1>8
  <2> QED
    BY <2>1, <1>3, <1>4, <1>5, <1>9, <1>14, RunningHolds DEF Runs
<1>16. b # 0 => gen'[b].status = "active"
  BY <1>4, <1>8
<1>17. b # 0 /\ job.kind # "recreate" /\ used'.drift + used'.flaps = 0 => box'[b] = "running"
  BY <1>2, <1>3, <1>4, <1>5, <1>9 DEF OldBox, Framed
<1>18. RepliesAreTrue'
  BY <1>1, <1>2, <1>7, <1>11, <1>16, <1>17 DEF RepliesAreTrue, Absent
<1>19. pc' \in Replacing \cup {"complete"} /\ dirty' \in BOOLEAN /\ verdict' \in Verdicts
       /\ pc' \notin {"stopOld", "rollback"}
  BY <1>7 DEF Verdicts
<1>20. /\ box' \in [Gens -> BoxStates] /\ nets' \in SUBSET Gens
       /\ \A h \in Gens : h # n /\ Absent(h) => Absent(h)'
       /\ \A h \in Gens : h # n /\ box'[h] = "absent" => box[h] = "absent"
  BY <1>4, <1>5 DEF TypeOK, Absent
<1> QED
  BY <1>1, <1>2, <1>3, <1>4, <1>5, <1>7, <1>8, <1>12, <1>13, <1>15, <1>18, <1>19, <1>20, ReplacementStep

\* A failure after the cutover stops a candidate that is observed running.
LEMMA StepCutoverFailed == ASSUME IndInv, CutoverFailed PROVE Kept
<1>1. helper = "up" /\ pc = "cutoverFailed" /\ (Smooth \/ Fault) /\ UNCHANGED <<ledger, helper, job>>
  BY DEF CutoverFailed, At, Outside
<1>2. PICK n, b : n = job.gen /\ b = job.base
  OBVIOUS
<1>3. pc \in Replacing /\ pc \in Cut
  BY <1>1 DEF Replacing, Cut
<1>4. /\ TypeOK /\ InOrder /\ Running /\ Framed /\ lease = "held"
      /\ n \in Gens /\ n = Current + 1 /\ gen[n].status \in {"prepared", "candidate"} /\ dirty = FALSE
      /\ b # 0 => b \in Gens /\ b # n /\ b = Current /\ gen[b].status = "active"
  BY <1>1, <1>2, <1>3, AtReplacement
<1>5. gen' = gen /\ recon' = recon /\ nets' = nets
  BY DEF CutoverFailed, store
<1>6. /\ box' = box \/ (box[n] = "running" /\ box' = Set(n, "stopped"))
      /\ todo' \in {todo, {}} /\ dirty' \in {dirty, FALSE} /\ pc' \in {"rollback", "complete"}
      /\ pc' = "rollback" => b # 0 /\ (box[n] = "running" => box' = Set(n, "stopped")) /\ verdict' = verdict
      /\ pc' = "complete" => verdict' = "unknown"
  BY <1>2 DEF CutoverFailed, StopAfterError, c, Goto, Finish
<1>7. CandidateBox /\ OldBox /\ NothingForgotten
  BY DEF IndInv
<1>8. gen[n].cid
  BY <1>2, <1>3, <1>7 DEF CandidateBox
<1>9. /\ box' \in [Gens -> BoxStates] /\ (\A h \in Gens : h # n => box'[h] = box[h])
      /\ box'[n] \in {box[n], "stopped"} /\ (box[n] = "absent" => box'[n] = "absent")
      /\ pc' = "rollback" => box'[n] # "running"
  BY <1>4, <1>6, SetIs DEF TypeOK, BoxStates
<1>10. (Steady' => Steady) /\ (Steady => box[n] # "restarting")
  BY <1>4 DEF Steady, Framed, Running
<1>11. pc' = "rollback" /\ Steady => ~Runs(n)'
  BY <1>9, <1>10 DEF Runs
<1>12. CandidateBox'
  BY <1>1, <1>2, <1>5, <1>6, <1>8, <1>10, <1>11 DEF CandidateBox, Early, Built, Cut, Abort, Runs
<1>13. Steady /\ b # 0 => ~Runs(b)
  BY <1>2, <1>3, <1>7 DEF OldBox
<1>14. OldBox'
  BY <1>1, <1>2, <1>4, <1>6, <1>9, <1>10, <1>13 DEF OldBox, Early, Built, Cut, Abort, Runs
<1>15. Current' = Current
  BY <1>5 DEF Current, Having
<1>16. \A g \in Gens : (box'[g] = "restarting" => box[g] = "restarting") /\ (Runs(g)' => Runs(g))
  BY <1>9 DEF Runs
<1>17. ASSUME pc' = "rollback", Steady, NEW g \in Gens, Runs(g)', g > Current PROVE FALSE
  <2>1. g = n
    BY <1>4, <1>7, <1>16, <1>17, OnlyNext
  <2> QED
    BY <2>1, <1>11, <1>17
<1>18. Running'
  BY <1>4, <1>5, <1>6, <1>10, <1>15, <1>16, <1>17, RunningStays DEF Framed
<1>19. RepliesAreTrue'
  BY <1>6 DEF RepliesAreTrue
<1>20. /\ pc' \in Replacing \cup {"complete"} /\ pc' # "abortMark" /\ dirty' = FALSE /\ verdict' \in Verdicts
  BY <1>4, <1>6 DEF Replacing, Verdicts, TypeOK
<1>21. /\ gen' \in [Gens -> Rows] /\ nets' \in SUBSET Gens
       /\ \A h \in Gens : h # n /\ Absent(h) => Absent(h)'
       /\ \A h \in Gens : h # n /\ box'[h] = "absent" => box[h] = "absent"
  BY <1>4, <1>5, <1>9 DEF TypeOK, Absent
<1>22. pc' \in {"stopOld", "rollback"} => HasActive
  BY <1>4, <1>6, CurrentIs
<1> QED
  BY <1>1, <1>2, <1>3, <1>4, <1>5, <1>6, <1>9, <1>12, <1>14, <1>18, <1>19, <1>20, <1>21, <1>22, ReplacementStep

\* The rollback restarts the old generation; the candidate does not run.
LEMMA StepRollback == ASSUME IndInv, Rollback PROVE Kept
<1>1. helper = "up" /\ pc = "rollback" /\ (Smooth \/ Fault) /\ UNCHANGED <<ledger, helper, job>>
  BY DEF Rollback, At, Outside
<1>2. PICK n, b : n = job.gen /\ b = job.base
  OBVIOUS
<1>3. pc \in Replacing /\ pc \notin Cut \cup {"idle", "unsaved", "complete"}
  BY <1>1 DEF Replacing, Cut
<1>4. /\ TypeOK /\ InOrder /\ Running /\ Framed
      /\ n \in Gens /\ n = Current + 1 /\ gen[n].status \in {"prepared", "candidate"} /\ dirty = FALSE
      /\ b \in Gens /\ b # n /\ b = Current
  BY <1>1, <1>2, <1>3, AtReplacement
<1>5. gen' = gen /\ recon' = recon /\ nets' = nets
  BY DEF Rollback, store
<1>6. /\ box' = box \/ (box[b] # "absent" /\ box' \in {Set(b, "running"), Set(b, "detached")})
      /\ todo' \in {todo, {}} /\ dirty' \in {dirty, FALSE} /\ pc' \in {"abortContainer", "complete"}
      /\ pc' = "abortContainer" => box' = Set(b, "running") /\ verdict' = verdict
      /\ pc' = "complete" => verdict' = "unknown"
  BY <1>2 DEF Rollback, StartAfterError, Goto, Finish
<1>7. CandidateBox /\ OldBox /\ Leased
  BY DEF IndInv
<1>8. gen[n].cid /\ (Steady => ~Runs(n))
  BY <1>1, <1>2, <1>7 DEF CandidateBox
<1>9. /\ box' \in [Gens -> BoxStates] /\ (\A h \in Gens : h # b => box'[h] = box[h])
      /\ pc' = "abortContainer" => box'[b] = "running"
      /\ (box[b] = "absent" <=> box'[b] = "absent")
      /\ box'[b] = "restarting" => box[b] = "restarting"
  BY <1>4, <1>6, SetIs DEF TypeOK, BoxStates
<1>10. Steady' => Steady
  BY <1>4 DEF Steady, Framed
<1>11. CandidateBox'
  BY <1>1, <1>2, <1>4, <1>5, <1>6, <1>8, <1>9, <1>10 DEF CandidateBox, Early, Built, Cut, Abort, Runs
<1>12. OldBox'
  BY <1>1, <1>2, <1>6, <1>9 DEF OldBox, Early, Built, Cut, Abort
<1>13. Current' = Current
  BY <1>5 DEF Current, Having
<1>14. Running'
  <2>1. \A g \in Gens : /\ box'[g] = "restarting" => box[g] = "restarting"
                        /\ Runs(g)' => Runs(g) \/ (g = Current /\ Current' = Current)
    BY <1>4, <1>9, <1>13 DEF Runs
  <2> QED
    BY <2>1, <1>3, <1>4, <1>5, <1>7, <1>13, RunningHolds
<1>15. RepliesAreTrue'
  BY <1>6 DEF RepliesAreTrue
<1>16. /\ pc' \in Replacing \cup {"complete"} /\ pc' # "abortMark" /\ dirty' = FALSE /\ verdict' \in Verdicts
       /\ pc' \notin {"stopOld", "rollback"}
  BY <1>4, <1>6 DEF Replacing, Abort, Verdicts, TypeOK
<1>17. /\ gen' \in [Gens -> Rows] /\ nets' \in SUBSET Gens
       /\ \A h \in Gens : h # n /\ Absent(h) => Absent(h)'
       /\ \A h \in Gens : h # n /\ box'[h] = "absent" => box[h] = "absent"
  BY <1>4, <1>5, <1>9 DEF TypeOK, Absent
<1> QED
  BY <1>1, <1>2, <1>3, <1>4, <1>5, <1>6, <1>9, <1>11, <1>12, <1>14, <1>15, <1>16, <1>17, ReplacementStep

\* Prepare adds the candidate's row above every row of the installation.
LEMMA StepPrepare == ASSUME IndInv, Prepare PROVE Kept
<1>1. helper = "up" /\ pc = "prepare" /\ (Smooth \/ Fault) /\ UNCHANGED <<ledger, helper>>
  BY DEF Prepare, At
<1>2. PICK n : n = job.gen
  OBVIOUS
<1>3. TypeOK /\ InOrder /\ NothingForgotten /\ Numbered /\ Leased /\ Running
  BY DEF IndInv
<1>4. Framed
  BY <1>1, <1>3, Frame
<1>5. job.kind \in Replacements /\ job.base = 0 /\ dirty = FALSE /\ n \in Gens /\ lease = "held" /\ holder # 0
  BY <1>1, <1>2, <1>3 DEF Leased
<1>6. recon' = recon /\ box' = box /\ nets' = nets
  BY DEF Prepare, runtime
<1>7. \/ /\ gen' = gen /\ job' = job /\ pc' = "complete" /\ todo' = {} /\ dirty' = FALSE
         /\ verdict' \in {"failed", "unknown"}
      \/ /\ Replaceable /\ gen' = PrepareRow(n) /\ pc' = "network" /\ UNCHANGED <<todo, dirty, verdict>>
         /\ job' = [job EXCEPT !.base = IF HasActive THEN Current ELSE 0]
  BY <1>2 DEF Prepare, Goto, Finish, c
<1>8. pc \notin Cut \cup {"idle", "unsaved", "complete"}
  BY <1>1 DEF Cut
<1>9. CASE /\ gen' = gen /\ job' = job /\ pc' = "complete" /\ todo' = {} /\ dirty' = FALSE
           /\ verdict' \in {"failed", "unknown"}
  <2>1. Cleaning' /\ Operating' /\ Repairing'
    BY <1>9, NotCleaning, NotOperating, NotRepairing DEF OlderSteps, OpSteps, RepairSteps
  <2>2. RepliesAreTrue'
    BY <1>5, <1>9 DEF RepliesAreTrue
  <2>3. pc' \in Steps \ ({"idle", "prepare"} \cup Replacing) /\ verdict' \in Verdicts
    BY <1>9 DEF Steps, Replacing, Early, Built, Cut, Abort, Verdicts
  <2>4. /\ Settled(gen') /\ (\A g \in Gens : Absent(g) => Absent(g)') /\ recon' \in Outcomes /\ job' \in Jobs
        /\ box' \in [Gens -> BoxStates] /\ nets' \in SUBSET Gens /\ (\A g \in Gens : Runs(g)' => Runs(g))
        /\ \A g \in Gens : box'[g] = box[g]
    BY <1>3, <1>6, <1>9, StoreKept DEF Absent, Runs, TypeOK, Jobs
  <2> QED
    BY <1>4, <1>8, <1>9, <2>1, <2>2, <2>3, <2>4, SettledStep
<1>10. CASE /\ Replaceable /\ gen' = PrepareRow(n) /\ pc' = "network" /\ UNCHANGED <<todo, dirty, verdict>>
            /\ job' = [job EXCEPT !.base = IF HasActive THEN Current ELSE 0]
  <2>1. PICK b : b = IF HasActive THEN Current ELSE 0
    OBVIOUS
  <2>2. b \in 0..MaxGen /\ (b # 0 => HasActive /\ b = Current /\ b \in Gens)
    BY <1>3, <2>1, CurrentIs, LifecycleBounds
  <2>3. job' \in Jobs /\ job'.kind = job.kind /\ job'.gen = n /\ job'.base = b
    <3>1. job \in Jobs /\ job' = [job EXCEPT !.base = b]
      BY <1>3, <1>10, <2>1 DEF TypeOK, Jobs
    <3> QED
      BY <3>1, <1>2, <2>2 DEF Jobs
  <2>4. n = Current + 1 /\ Reusable(n) /\ BaselineVerified
    BY <1>2, <1>10 DEF Replaceable, c
  <2>5. Absent(n) /\ gen[n].status # "active"
    BY <1>3, <1>5, <2>4 DEF Reusable, NothingForgotten
  <2>6. /\ gen' \in [Gens -> Rows] /\ (\A h \in Gens : h # n => gen'[h] = gen[h])
        /\ gen'[n].status = "prepared" /\ gen'[n].op = holder
    BY <1>3, <1>5, <1>10, PrepareRowIs
  <2>7. InOrder' /\ Current' = Current /\ (HasActive' <=> HasActive)
    BY <1>3, <1>5, <2>4, <2>6, ReplacementKeeps
  <2>8. NothingForgotten'
    BY <1>3, <1>5, <1>6, <2>6 DEF NothingForgotten, Absent
  <2>9. TypeOK'
    BY <1>3, <1>4, <1>6, <1>10, <2>3, <2>6, Typed DEF TypeOK, Steps, Verdicts
  <2>10. Numbered'
    <3>1. holder' = holder /\ holder \in Nat /\ \A g \in Gens : gen[g].op <= holder /\ gen[g].op # holder
      BY <1>1, <1>3, <1>4 DEF Framed, Numbered, TypeOK
    <3>2. \A g \in Gens : gen'[g].op <= holder
      BY <3>1, <2>6
    <3>3. \A g, h \in Gens : gen'[g].op = gen'[h].op /\ gen'[g].op # 0 => g = h
      BY <3>1, <1>3, <2>6 DEF Numbered
    <3> QED
      BY <3>1, <3>2, <3>3, <1>10 DEF Numbered
  <2>11. Leased'
    BY <1>1, <1>2, <1>3, <1>4, <1>5, <1>10, <2>3, Leases
  <2>12. OwnsCandidate'
    BY <1>4, <1>5, <1>10, <2>1, <2>3, <2>4, <2>6, <2>7 DEF OwnsCandidate, Framed
  <2>13. CandidateBox'
    BY <1>6, <1>10, <2>3, <2>5 DEF CandidateBox, Early, Built, Cut, Abort, Absent
  <2>14. OldBox'
    <3>1. b # 0 /\ job.kind # "recreate" => box[b] = "running"
      BY <2>2, <2>4 DEF BaselineVerified, AllowMissingActive
    <3> QED
      BY <3>1, <1>6, <1>10, <2>3 DEF OldBox, Early, Built, Cut, Abort
  <2>15. Cleaning' /\ Operating' /\ Repairing' /\ RepliesAreTrue'
    BY <1>10, NotCleaning, NotOperating, NotRepairing, NoReply DEF OlderSteps, OpSteps, RepairSteps
  <2>16. Running'
    <3>1. \A g \in Gens : (Runs(g)' => Runs(g)) /\ (Runs(g)' => gen'[g].op = gen[g].op)
      BY <1>6, <2>5, <2>6 DEF Runs, Absent
    <3> QED
      BY <3>1, <1>3, <1>4, <1>6, <1>8, <2>7, RunningHolds
  <2>17. AuthorityStep /\ SurvivalStep
    BY <1>6, <2>5, <2>6 DEF AuthorityStep, SurvivalStep
  <2> QED
    BY <2>7, <2>8, <2>9, <2>10, <2>11, <2>12, <2>13, <2>14, <2>15, <2>16, <2>17 DEF Kept, IndInv
<1> QED
  BY <1>7, <1>9, <1>10

-----------------------------------------------------------------------------
(* Requests, crashes, startup, and containers that change by themselves.   *)

\* A step that is not the worker's spends one of its own bounds.
LEMMA Spends ==
    ASSUME TypeOK, NEW bound,
           Spend("crashes", bound) \/ Spend("resolves", bound) \/ Spend("drift", bound) \/ Spend("flaps", bound)
    PROVE  /\ used' \in Counters /\ used'.drift >= used.drift /\ used'.flaps >= used.flaps
           /\ Spend("drift", bound) => used'.drift > used.drift
           /\ Spend("flaps", bound) => used'.flaps > 0
<1>1. /\ used \in Counters /\ used.crashes \in Nat /\ used.resolves \in Nat /\ used.drift \in Nat
      /\ used.flaps \in Nat
  BY DEF TypeOK, Counters
<1>2. CASE Spend("crashes", bound)
  <2>1. used' = [used EXCEPT !.crashes = used.crashes + 1]
    BY <1>2 DEF Spend
  <2>0. used.crashes + 1 \in Nat
    BY <1>1
  <2>2. used' \in Counters /\ used'.drift = used.drift /\ used'.flaps = used.flaps /\ used'.crashes = used.crashes + 1
    BY <1>1, <2>1, <2>0 DEF Counters
  <2>3. ~Spend("drift", bound) /\ ~Spend("flaps", bound)
    <3>1. Spend("drift", bound) => used'.drift = used.drift + 1
      BY <1>1 DEF Spend, Counters
    <3>2. Spend("flaps", bound) => used'.flaps = used.flaps + 1
      BY <1>1 DEF Spend, Counters
    <3> QED
      BY <3>1, <3>2, <2>2, <1>1
  <2> QED
    BY <1>1, <2>2, <2>3
<1>3. CASE Spend("resolves", bound)
  <2>1. used' = [used EXCEPT !.resolves = used.resolves + 1]
    BY <1>3 DEF Spend
  <2>0. used.resolves + 1 \in Nat
    BY <1>1
  <2>2. used' \in Counters /\ used'.drift = used.drift /\ used'.flaps = used.flaps
    BY <1>1, <2>1, <2>0 DEF Counters
  <2>3. ~Spend("drift", bound) /\ ~Spend("flaps", bound)
    <3>1. Spend("drift", bound) => used'.drift = used.drift + 1
      BY <1>1 DEF Spend, Counters
    <3>2. Spend("flaps", bound) => used'.flaps = used.flaps + 1
      BY <1>1 DEF Spend, Counters
    <3> QED
      BY <3>1, <3>2, <2>2, <1>1
  <2> QED
    BY <1>1, <2>2, <2>3
<1>4. CASE Spend("drift", bound)
  <2>1. used' = [used EXCEPT !.drift = used.drift + 1]
    BY <1>4 DEF Spend
  <2>0. used.drift + 1 \in Nat
    BY <1>1
  <2>2. used' \in Counters /\ used'.drift = used.drift + 1 /\ used'.flaps = used.flaps
    BY <1>1, <2>1, <2>0 DEF Counters
  <2>3. ~Spend("flaps", bound)
    <3>1. Spend("flaps", bound) => used'.flaps = used.flaps + 1
      BY <1>1 DEF Spend, Counters
    <3> QED
      BY <3>1, <2>2, <1>1
  <2> QED
    BY <1>1, <2>2, <2>3
<1>5. CASE Spend("flaps", bound)
  <2>1. used' = [used EXCEPT !.flaps = used.flaps + 1]
    BY <1>5 DEF Spend
  <2>0. used.flaps + 1 \in Nat
    BY <1>1
  <2>2. used' \in Counters /\ used'.drift = used.drift /\ used'.flaps = used.flaps + 1
    BY <1>1, <2>1, <2>0 DEF Counters
  <2>3. ~Spend("drift", bound)
    <3>1. Spend("drift", bound) => used'.drift = used.drift + 1
      BY <1>1 DEF Spend, Counters
    <3> QED
      BY <3>1, <2>2, <1>1
  <2> QED
    BY <1>1, <2>2, <2>3
<1> QED
  BY <1>2, <1>3, <1>4, <1>5

\* Rows and containers that stay keep their authority.
LEMMA StoreStays ==
    ASSUME IndInv, gen' = gen, box' = box, nets' = nets
    PROVE  /\ InOrder' /\ NothingForgotten' /\ Current' = Current /\ AuthorityStep /\ SurvivalStep
           /\ \A g \in Gens : (Runs(g)' <=> Runs(g)) /\ gen'[g].op = gen[g].op
<1>1. InOrder /\ NothingForgotten
  BY DEF IndInv
<1>2. InOrder' /\ Current' = Current
  BY <1>1, Untouched
<1>3. NothingForgotten'
  BY <1>1 DEF NothingForgotten, Absent
<1> QED
  BY <1>2, <1>3 DEF AuthorityStep, SurvivalStep, Runs

\* Without a worker only the ledger and the store matter.
LEMMA IdleStep ==
    ASSUME IndInv, TypeOK', pc' \in {"idle", "unsaved"}, 
           pc' = "unsaved" => lease' = "held" /\ helper' = "up" /\ job' = NoJob,
           dirty' = FALSE, InOrder', NothingForgotten', Running',
           holder' = holder, \A g \in Gens : gen'[g].op = gen[g].op,
           lease' # "free" => lease # "free" /\ yielded' = yielded,
           yielded' \subseteq yielded \cup {holder}
    PROVE  IndInv'
<1>1. Numbered /\ Leased /\ TypeOK
  BY DEF IndInv
<1>2. Numbered'
  BY <1>1, Numbers
<1>3. holder \in Nat /\ \A o \in yielded' : o <= holder
  BY <1>1 DEF TypeOK, Leased
<1>4. Leased'
  BY <1>1, <1>3 DEF Leased, NoJob, Replacements
<1>5. OwnsCandidate' /\ CandidateBox' /\ OldBox' /\ Cleaning' /\ Operating' /\ Repairing' /\ RepliesAreTrue'
  BY NotReplacing, NotCleaning, NotOperating, NotRepairing, NoReply
     DEF Replacing, Early, Built, Cut, Abort, OlderSteps, OpSteps, RepairSteps
<1> QED
  BY <1>2, <1>4, <1>5 DEF IndInv

\* Admission takes the lease, and the operation it supersedes joins the yielded ones.
LEMMA StepAdmit ==
    ASSUME IndInv, NEW kind \in Requests, NEW target, Admit(kind, target),
           (kind \in Replacements /\ target \in Gens) \/ (kind \notin Replacements /\ target = 0)
    PROVE  Kept
<1>1. TypeOK /\ InOrder /\ Numbered /\ Leased /\ Running
  BY DEF IndInv
<1>2. /\ helper = "up" /\ pc = "idle" /\ holder < MaxOps /\ LeaseOpen(kind)
      /\ lease' = "held" /\ holder' = holder + 1 /\ receipt' = "executing"
      /\ yielded' = (IF lease = "recovery" THEN yielded \cup {holder} ELSE yielded)
      /\ job' = [kind |-> kind, gen |-> target, base |-> 0] /\ pc' = Entry(kind)
      /\ gen' = gen /\ recon' = recon /\ box' = box /\ nets' = nets
      /\ todo' = todo /\ dirty' = dirty /\ verdict' = verdict /\ helper' = helper /\ used' = used
  BY DEF Admit, Begin, store, runtime
<1>3. /\ InOrder' /\ NothingForgotten' /\ Current' = Current /\ AuthorityStep /\ SurvivalStep
      /\ \A g \in Gens : (Runs(g)' <=> Runs(g)) /\ gen'[g].op = gen[g].op
  BY <1>2, StoreStays
<1>4. kind \in Kinds /\ holder \in Nat /\ MaxOps \in Nat /\ dirty = FALSE
  BY <1>1, <1>2, LifecycleBounds DEF TypeOK, Leased
<1>5. /\ pc' \in {"prepare", "operate", "reconcile", "repair"}
      /\ pc' = "prepare" => kind \in Replacements
      /\ pc' = "operate" => kind \in Operations
      /\ pc' = "reconcile" => kind = "reconcile"
      /\ pc' = "repair" => kind \in Repairs
  BY <1>2, <1>4 DEF Entry, Kinds, Replacements, Operations, Repairs
<1>6. target \in 0..MaxGen
  BY LifecycleBounds DEF Gens
<1>7. job' \in Jobs /\ job'.kind = kind /\ job'.gen = target /\ job'.base = 0
  BY <1>2, <1>4, <1>6, LifecycleBounds DEF Jobs
<1>8. holder' \in 0..MaxOps /\ holder \in 0..MaxOps /\ holder' # 0
  BY <1>2, <1>4
<1>9. TypeOK'
  BY <1>1, <1>2, <1>5, <1>7, <1>8 DEF TypeOK, Steps, Jobs
<1>10. Numbered'
  <2>1. \A g \in Gens : gen[g].op <= holder /\ gen[g].op \in Nat
    BY <1>1 DEF Numbered, TypeOK, Rows
  <2>2. \A g \in Gens : gen'[g].op <= holder' /\ gen'[g].op # holder'
    BY <1>2, <1>4, <2>1
  <2> QED
    BY <1>1, <1>2, <2>2 DEF Numbered
<1>11. Leased'
  <2>1. \A o \in yielded' : o \in Nat /\ o <= holder
    BY <1>1, <1>2, <1>4 DEF TypeOK, Leased
  <2>2. \A o \in yielded' : o <= holder' /\ o # holder'
    BY <1>2, <1>4, <2>1
  <2>3. job'.kind \in Replacements => job'.gen \in Gens
    BY <1>7
  <2> QED
    BY <1>2, <1>4, <1>5, <1>7, <1>8, <2>2, <2>3 DEF Leased
<1>12. OwnsCandidate' /\ CandidateBox' /\ OldBox' /\ Cleaning' /\ RepliesAreTrue'
  BY <1>5, NotReplacing, NotCleaning, NoReply DEF Replacing, Early, Built, Cut, Abort, OlderSteps
<1>13. Operating' /\ Repairing'
  BY <1>5, <1>7 DEF Operating, Repairing
<1>14. ASSUME Steady, NEW g \in Gens, Runs(g)', g > Current PROVE gen'[g].op \in yielded'
  <2>1. gen[g].op \in yielded \/ (gen[g].op = holder /\ lease # "free")
    BY <1>1, <1>3, <1>14 DEF Running
  <2>2. lease # "free" => lease = "recovery"
    BY <1>2 DEF LeaseOpen
  <2> QED
    BY <2>1, <2>2, <1>2
<1>15. Running'
  <2>1. (Steady' => Steady) /\ yielded \subseteq yielded' /\ \A g \in Gens : box'[g] = box[g]
    BY <1>2 DEF Steady
  <2> QED
    BY <2>1, <1>1, <1>3, <1>14, RunningStays
<1> QED
  BY <1>3, <1>9, <1>10, <1>11, <1>12, <1>13, <1>15 DEF Kept, IndInv

\* Complete writes the receipt; an unknown outcome keeps the lease for recovery.
LEMMA StepComplete == ASSUME IndInv, Complete PROVE Kept
<1>1. TypeOK /\ InOrder /\ Leased /\ Running
  BY DEF IndInv
<1>2. /\ helper = "up" /\ pc = "complete" /\ pc' = "idle" /\ job' = NoJob /\ verdict' = "none"
      /\ receipt' = (IF verdict = "unknown" THEN "action_required" ELSE verdict)
      /\ lease' = (IF verdict = "unknown" THEN "recovery" ELSE "free")
      /\ gen' = gen /\ recon' = recon /\ box' = box /\ nets' = nets /\ holder' = holder /\ yielded' = yielded
      /\ todo' = todo /\ dirty' = dirty /\ helper' = helper /\ used' = used
  BY DEF Complete, At, store, runtime
<1>3. /\ InOrder' /\ NothingForgotten' /\ Current' = Current /\ AuthorityStep /\ SurvivalStep
      /\ \A g \in Gens : (Runs(g)' <=> Runs(g)) /\ gen'[g].op = gen[g].op
  BY <1>2, StoreStays
<1>4. NoJob \in Jobs
  BY LifecycleBounds DEF NoJob, Jobs
<1>5. TypeOK' /\ dirty' = FALSE
  BY <1>1, <1>2, <1>4 DEF TypeOK, Steps, Jobs, Leased
<1>6. ASSUME Steady, verdict # "unknown", NEW g \in Gens, Runs(g)', g > Current PROVE gen'[g].op \in yielded'
  BY <1>1, <1>2, <1>3, <1>6 DEF Running, Cut
<1>7. Running'
  <2>1. (Steady' => Steady) /\ yielded \subseteq yielded' /\ \A g \in Gens : box'[g] = box[g]
    BY <1>2 DEF Steady
  <2> QED
    BY <2>1, <1>1, <1>2, <1>3, <1>6, RunningStays
<1>8. lease # "free"
  BY <1>1, <1>2 DEF Leased
<1> QED
  BY <1>2, <1>3, <1>5, <1>7, <1>8, IdleStep DEF Kept

\* A receipt that cannot be written is left executing, its lease held.
LEMMA StepCompleteFails == ASSUME IndInv, CompleteFails PROVE Kept
<1>1. TypeOK /\ InOrder /\ Leased /\ Running
  BY DEF IndInv
<1>2. /\ helper = "up" /\ pc = "complete" /\ pc' = "unsaved" /\ job' = NoJob /\ verdict' = "none"
      /\ gen' = gen /\ recon' = recon /\ box' = box /\ nets' = nets
      /\ lease' = lease /\ holder' = holder /\ receipt' = receipt /\ yielded' = yielded
      /\ todo' = todo /\ dirty' = dirty /\ helper' = helper /\ Fault
  BY DEF CompleteFails, At, store, runtime, ledger
<1>3. /\ InOrder' /\ NothingForgotten' /\ Current' = Current /\ AuthorityStep /\ SurvivalStep
      /\ \A g \in Gens : (Runs(g)' <=> Runs(g)) /\ gen'[g].op = gen[g].op
  BY <1>2, StoreStays
<1>4. NoJob \in Jobs
  BY LifecycleBounds DEF NoJob, Jobs
<1>5. used' \in Counters /\ used'.flaps = used.flaps
  BY <1>1, <1>2, Counts
<1>6. TypeOK' /\ dirty' = FALSE /\ lease' = "held"
  BY <1>1, <1>2, <1>4, <1>5 DEF TypeOK, Steps, Jobs, Counters, Leased
<1>7. Running'
  <2>1. (Steady' => Steady) /\ yielded \subseteq yielded' /\ \A g \in Gens : box'[g] = box[g]
    BY <1>2, <1>5 DEF Steady
  <2> QED
    BY <2>1, <1>1, <1>2, <1>3, <1>6, RunningStays
<1> QED
  BY <1>2, <1>3, <1>6, <1>7, IdleStep DEF Kept

\* A request that is not authorised keeps the lease it was given and does nothing.
LEMMA StepUnauthorized ==
    ASSUME IndInv, NEW kind \in Requests, NEW target, AdmitUnauthorized(kind, target)
    PROVE  Kept
<1>1. TypeOK /\ InOrder /\ Numbered /\ Leased /\ Running
  BY DEF IndInv
<1>2. /\ helper = "up" /\ pc = "idle" /\ holder < MaxOps /\ LeaseOpen(kind)
      /\ lease' = "held" /\ holder' = holder + 1 /\ receipt' = "executing"
      /\ yielded' = (IF lease = "recovery" THEN yielded \cup {holder} ELSE yielded)
      /\ job' = NoJob /\ pc' = "unsaved" /\ Fault
      /\ gen' = gen /\ recon' = recon /\ box' = box /\ nets' = nets
      /\ todo' = todo /\ dirty' = dirty /\ verdict' = verdict /\ helper' = helper
  BY DEF AdmitUnauthorized, Begin, store, runtime
<1>3. /\ InOrder' /\ NothingForgotten' /\ Current' = Current /\ AuthorityStep /\ SurvivalStep
      /\ \A g \in Gens : (Runs(g)' <=> Runs(g)) /\ gen'[g].op = gen[g].op
  BY <1>2, StoreStays
<1>4. holder \in Nat /\ MaxOps \in Nat /\ dirty = FALSE
  BY <1>1, <1>2, LifecycleBounds DEF TypeOK, Leased
<1>5. used' \in Counters /\ used'.flaps = used.flaps
  BY <1>1, <1>2, Counts
<1>6. holder' \in 0..MaxOps /\ holder \in 0..MaxOps /\ holder' # 0
  BY <1>2, <1>4
<1>7. TypeOK'
  <2>1. NoJob \in Jobs
    BY LifecycleBounds DEF NoJob, Jobs
  <2> QED
    BY <1>1, <1>2, <1>5, <1>6, <2>1 DEF TypeOK, Steps, Jobs, Counters
<1>8. Numbered'
  <2>1. \A g \in Gens : gen[g].op <= holder /\ gen[g].op \in Nat
    BY <1>1 DEF Numbered, TypeOK, Rows
  <2>2. \A g \in Gens : gen'[g].op <= holder' /\ gen'[g].op # holder'
    BY <1>2, <1>4, <2>1
  <2> QED
    BY <1>1, <1>2, <2>2 DEF Numbered
<1>9. Leased'
  <2>1. \A o \in yielded' : o \in Nat /\ o <= holder
    BY <1>1, <1>2, <1>4 DEF TypeOK, Leased
  <2>2. \A o \in yielded' : o <= holder' /\ o # holder'
    BY <1>2, <1>4, <2>1
  <2> QED
    BY <1>1, <1>2, <1>4, <1>6, <2>2 DEF Leased, NoJob, Replacements
<1>10. OwnsCandidate' /\ CandidateBox' /\ OldBox' /\ Cleaning' /\ Operating' /\ Repairing' /\ RepliesAreTrue'
  BY <1>2, NotReplacing, NotCleaning, NotOperating, NotRepairing, NoReply
     DEF Replacing, Early, Built, Cut, Abort, OlderSteps, OpSteps, RepairSteps
<1>11. ASSUME Steady, NEW g \in Gens, Runs(g)', g > Current PROVE gen'[g].op \in yielded'
  <2>1. gen[g].op \in yielded \/ (gen[g].op = holder /\ lease # "free")
    BY <1>1, <1>3, <1>11 DEF Running
  <2>2. lease # "free" => lease = "recovery"
    BY <1>2 DEF LeaseOpen
  <2> QED
    BY <2>1, <2>2, <1>2
<1>12. Running'
  <2>1. (Steady' => Steady) /\ yielded \subseteq yielded' /\ \A g \in Gens : box'[g] = box[g]
    BY <1>2, <1>5 DEF Steady
  <2> QED
    BY <2>1, <1>1, <1>3, <1>11, RunningStays
<1> QED
  BY <1>3, <1>7, <1>8, <1>9, <1>10, <1>12 DEF Kept, IndInv

\* A crash loses the worker and leaves the store and the runtime as they are.
LEMMA StepCrash == ASSUME IndInv, Crash PROVE Kept
<1>1. TypeOK /\ InOrder /\ Leased /\ Running
  BY DEF IndInv
<1>2. /\ Spend("crashes", MaxCrashes) /\ helper' = "down"
      /\ pc' = "idle" /\ job' = NoJob /\ todo' = {} /\ dirty' = FALSE /\ verdict' = "none"
      /\ gen' = gen /\ recon' = recon /\ box' = box /\ nets' = nets
      /\ lease' = lease /\ holder' = holder /\ receipt' = receipt /\ yielded' = yielded
  BY DEF Crash, store, runtime, ledger
<1>3. /\ InOrder' /\ NothingForgotten' /\ Current' = Current /\ AuthorityStep /\ SurvivalStep
      /\ \A g \in Gens : (Runs(g)' <=> Runs(g)) /\ gen'[g].op = gen[g].op
  BY <1>2, StoreStays
<1>4. used' \in Counters /\ used'.flaps >= used.flaps
  BY <1>1, <1>2, Spends
<1>5. NoJob \in Jobs
  BY LifecycleBounds DEF NoJob, Jobs
<1>6. TypeOK'
  BY <1>1, <1>2, <1>4, <1>5 DEF TypeOK, Steps, Jobs, Counters
<1>7. Steady' => Steady
  <2>1. used.flaps \in Nat /\ used'.flaps \in Nat
    BY <1>1, <1>4 DEF TypeOK, Counters
  <2> QED
    BY <2>1, <1>4 DEF Steady
<1>8. Running'
  BY <1>1, <1>2, <1>3, <1>7, RunningStays
<1> QED
  BY <1>2, <1>3, <1>6, <1>8, IdleStep DEF Kept

\* Startup finds no worker.
LEMMA AtStartup ==
    ASSUME IndInv, helper # "up"
    PROVE  /\ TypeOK /\ InOrder /\ NothingForgotten /\ Numbered /\ Leased /\ Running
           /\ pc = "idle" /\ dirty = FALSE
BY DEF IndInv, Leased

\* Startup turns a lease left held into one in recovery.
LEMMA StepRestart == ASSUME IndInv, Restart PROVE Kept
<1>1. /\ helper # "up" /\ helper' = "recovering"
      /\ \/ lease = "held" /\ lease' = "recovery" /\ receipt' = "action_required"
         \/ lease # "held" /\ lease' = lease /\ receipt' = receipt
      /\ gen' = gen /\ recon' = recon /\ box' = box /\ nets' = nets
      /\ holder' = holder /\ yielded' = yielded /\ used' = used
      /\ pc' = pc /\ job' = job /\ todo' = todo /\ dirty' = dirty /\ verdict' = verdict
  BY DEF Restart, store, runtime, work
<1>2. TypeOK /\ InOrder /\ Running /\ pc = "idle" /\ dirty = FALSE
  BY <1>1, AtStartup
<1>3. /\ InOrder' /\ NothingForgotten' /\ Current' = Current /\ AuthorityStep /\ SurvivalStep
      /\ \A g \in Gens : (Runs(g)' <=> Runs(g)) /\ gen'[g].op = gen[g].op
  BY <1>1, StoreStays
<1>4. TypeOK'
  BY <1>1, <1>2 DEF TypeOK
<1>5. Running'
  <2>1. Steady' => Steady
    BY <1>1 DEF Steady
  <2> QED
    BY <2>1, <1>1, <1>2, <1>3, RunningStays
<1> QED
  BY <1>1, <1>2, <1>3, <1>4, <1>5, IdleStep DEF Kept

\* Recovery finds the committed generation running and resolves the receipt.
LEMMA StepFinalizeCommitted == ASSUME IndInv, FinalizeCommitted PROVE Kept
<1>1. /\ helper = "recovering" /\ helper' = "reconciling" /\ lease' = "free" /\ receipt' = "succeeded"
      /\ gen' = gen /\ recon' = recon /\ box' = box /\ nets' = nets
      /\ holder' = holder /\ yielded' = yielded /\ used' = used
      /\ pc' = pc /\ job' = job /\ todo' = todo /\ dirty' = dirty /\ verdict' = verdict
  BY DEF FinalizeCommitted, Resolved, store, runtime, work
<1>2. TypeOK /\ InOrder /\ Running /\ Numbered /\ Leased /\ pc = "idle" /\ dirty = FALSE
  BY <1>1, AtStartup
<1>3. /\ InOrder' /\ NothingForgotten' /\ Current' = Current /\ AuthorityStep /\ SurvivalStep
      /\ \A g \in Gens : (Runs(g)' <=> Runs(g)) /\ gen'[g].op = gen[g].op
  BY <1>1, StoreStays
<1>4. TypeOK'
  BY <1>1, <1>2 DEF TypeOK
<1>5. PICK k \in Gens : gen[k].status = "active" /\ lease = "recovery" /\ gen[k].op = holder
  BY DEF FinalizeCommitted, RunningExactly, Interrupted, Having
<1>6. k = Current /\ holder # 0 /\ k \in Nat
  BY <1>2, <1>5, CurrentIs DEF Leased, Gens
<1>7. ASSUME Steady, NEW g \in Gens, Runs(g)', g > Current PROVE gen'[g].op \in yielded'
  <2>1. gen[g].op \in yielded \/ gen[g].op = holder
    BY <1>2, <1>3, <1>7 DEF Running
  <2>2. CASE gen[g].op = holder
    <3>1. g = k
      BY <2>2, <1>2, <1>5, <1>6 DEF Numbered
    <3> QED
      BY <3>1, <1>6, <1>7
  <2> QED
    BY <2>1, <2>2, <1>1, <1>3
<1>8. Running'
  <2>1. Steady' => Steady
    BY <1>1 DEF Steady
  <2> QED
    BY <2>1, <1>1, <1>2, <1>3, <1>7, RunningStays
<1> QED
  BY <1>1, <1>2, <1>3, <1>4, <1>8, IdleStep DEF Kept

\* Recovery commits a candidate that runs and is eligible, in one transaction.
LEMMA StepRecoverForward == ASSUME IndInv, RecoverForward PROVE Kept
<1>1. /\ helper = "recovering" /\ helper' = "reconciling" /\ lease' = "free" /\ receipt' = "succeeded"
      /\ recon' = recon /\ box' = box /\ nets' = nets
      /\ holder' = holder /\ yielded' = yielded /\ used' = used
      /\ pc' = pc /\ job' = job /\ todo' = todo /\ dirty' = dirty /\ verdict' = verdict
  BY DEF RecoverForward, Resolved, runtime, work
<1>2. TypeOK /\ InOrder /\ NothingForgotten /\ Running /\ Numbered /\ Leased /\ pc = "idle" /\ dirty = FALSE
  BY <1>1, AtStartup
<1>3. PICK n \in Gens : /\ gen[n].status = "candidate" /\ lease = "recovery" /\ gen[n].op = holder
                        /\ box[n] = "running" /\ Forwardable(n) /\ gen' = CommitRows(n, FALSE)
  BY DEF RecoverForward, RunningExactly, Interrupted, Having
<1>4. n = Current + 1 /\ holder \notin yielded
  BY <1>2, <1>3, CurrentIs DEF Leased
<1>5. /\ gen' \in [Gens -> Rows] /\ \A h \in Gens : gen'[h].op = gen[h].op
      /\ gen'[n].status = "active"
      /\ InOrder' /\ NothingForgotten' /\ Current' = n
  BY <1>1, <1>2, <1>3, <1>4, Committed
<1>6. TypeOK'
  BY <1>1, <1>2, <1>5 DEF TypeOK
<1>7. ASSUME Steady, NEW g \in Gens, Runs(g)' PROVE g = Current'
  <2>1. Runs(g) /\ Runs(n)
    BY <1>1, <1>3, <1>7 DEF Runs
  <2>2. ~(g < n)
    BY <2>1, <1>2, <1>3, <1>4, <1>7 DEF Running
  <2>3. g \in Nat /\ n \in Nat /\ Current \in Nat
    BY <1>2, CurrentIs DEF Gens
  <2>4. g > Current
    BY <2>2, <2>3, <1>4
  <2> QED
    BY <2>1, <2>4, <1>2, <1>4, <1>5, OnlyNext
<1>8. Running'
  <2>1. (Steady' => Steady) /\ (Steady => \A g \in Gens : box'[g] # "restarting")
    BY <1>1, <1>2 DEF Steady, Running
  <2> QED
    BY <2>1, <1>2, <1>5, <1>7, RunningTop
<1>9. AuthorityStep /\ SurvivalStep
  BY <1>1, <1>2, <1>3, <1>4, <1>5, Promoted DEF Forwardable, SurvivalStep
<1> QED
  BY <1>1, <1>2, <1>5, <1>6, <1>8, <1>9, IdleStep DEF Kept

\* Startup goes on with the lease and the rows as they are, or settled.
LEMMA StartupStep ==
    ASSUME IndInv, helper # "up", helper' \in {"up", "recovering", "reconciling", "aborted"},
           Settled(gen'), recon' \in Outcomes, UNCHANGED <<runtime, ledger, work>>, Smooth \/ Fault
    PROVE  Kept
<1>1. /\ box' = box /\ nets' = nets /\ lease' = lease /\ holder' = holder /\ receipt' = receipt /\ yielded' = yielded
      /\ pc' = pc /\ job' = job /\ todo' = todo /\ dirty' = dirty /\ verdict' = verdict
  BY DEF runtime, ledger, work
<1>2. TypeOK /\ InOrder /\ NothingForgotten /\ Running /\ pc = "idle" /\ dirty = FALSE
  BY AtStartup
<1>3. used' \in Counters /\ used'.flaps = used.flaps
  BY <1>2, Counts
<1>4. gen' \in [Gens -> Rows] /\ \A g \in Gens : gen'[g].op = gen[g].op
  BY DEF Settled
<1>5. TypeOK'
  BY <1>1, <1>2, <1>3, <1>4 DEF TypeOK, Counters
<1>6. /\ InOrder' /\ NothingForgotten'
      /\ \/ Current' = Current
         \/ Current' = Current + 1 /\ (Current # 0 => gen'[Current].status = "removed" /\ box'[Current] = "absent")
  <2>1. \A g \in Gens : Absent(g) => Absent(g)'
    BY <1>1 DEF Absent
  <2> QED
    BY <2>1, <1>2, SettledKeeps
<1>7. Running'
  <2>1. (Steady' => Steady) /\ \A g \in Gens : Runs(g)' => Runs(g)
    BY <1>1, <1>3 DEF Steady, Runs
  <2> QED
    BY <2>1, <1>1, <1>2, <1>4, <1>6, RunningStays
<1>8. AuthorityStep /\ SurvivalStep
  BY <1>1 DEF AuthorityStep, SurvivalStep, Settled
<1> QED
  BY <1>1, <1>2, <1>4, <1>5, <1>6, <1>7, <1>8, IdleStep DEF Kept

\* Recovery meets a running candidate that is not eligible and the helper gives up.
LEMMA StepRecoveryAborts == ASSUME IndInv, RecoveryAborts PROVE Kept
<1>1. /\ helper # "up" /\ helper' = "aborted" /\ gen' = gen /\ recon' = recon
      /\ UNCHANGED <<runtime, ledger, work>> /\ Smooth
  BY DEF RecoveryAborts, store, Smooth
<1>2. Settled(gen') /\ recon' \in Outcomes
  BY <1>1, AtStartup, StoreKept DEF TypeOK
<1> QED
  BY <1>1, <1>2, StartupStep

\* Recovery finds nothing running exactly, or cannot look, and goes on.
LEMMA StepRecoverySkips == ASSUME IndInv, RecoverySkips PROVE Kept
<1>1. /\ helper # "up" /\ helper' = "reconciling" /\ gen' = gen /\ recon' = recon
      /\ UNCHANGED <<runtime, ledger, work>> /\ (Smooth \/ Fault)
  BY DEF RecoverySkips, store
<1>2. Settled(gen') /\ recon' \in Outcomes
  BY <1>1, AtStartup, StoreKept DEF TypeOK
<1> QED
  BY <1>1, <1>2, StartupStep

\* The reconciliation at startup turns rows found absent into tombstones.
LEMMA StepStartupReconcile == ASSUME IndInv, StartupReconcile PROVE Kept
<1>1. /\ helper # "up" /\ helper' \in {"up", "aborted"}
      /\ UNCHANGED <<runtime, ledger, work>> /\ (Smooth \/ Fault)
      /\ (gen' = gen /\ recon' = recon) \/ Observe \/ Unobserved \/ ReconcileFails
  BY DEF StartupReconcile, store
<1>2. TypeOK
  BY <1>1, AtStartup
<1>3. Settled(gen') /\ recon' \in Outcomes
  BY <1>1, <1>2, StoreKept, Observed DEF TypeOK
<1> QED
  BY <1>1, <1>3, StartupStep

\* An administrator's resolution frees the lease and the operation yields.
LEMMA StepResolveOperation == ASSUME IndInv, ResolveOperation PROVE Kept
<1>1. TypeOK /\ InOrder /\ Leased /\ Running
  BY DEF IndInv
<1>2. /\ lease = "recovery" /\ lease' = "free" /\ receipt' = "failed" /\ yielded' = yielded \cup {holder}
      /\ Spend("resolves", MaxResolves)
      /\ gen' = gen /\ recon' = recon /\ box' = box /\ nets' = nets /\ holder' = holder /\ helper' = helper
      /\ pc' = pc /\ job' = job /\ todo' = todo /\ dirty' = dirty /\ verdict' = verdict
  BY DEF ResolveOperation, Resolved, store, runtime, work
<1>3. pc = "idle" /\ dirty = FALSE
  BY <1>1, <1>2 DEF Leased
<1>4. /\ InOrder' /\ NothingForgotten' /\ Current' = Current /\ AuthorityStep /\ SurvivalStep
      /\ \A g \in Gens : (Runs(g)' <=> Runs(g)) /\ gen'[g].op = gen[g].op
  BY <1>2, StoreStays
<1>5. used' \in Counters /\ used'.flaps >= used.flaps
  BY <1>1, <1>2, Spends
<1>6. TypeOK'
  BY <1>1, <1>2, <1>5 DEF TypeOK, Counters
<1>7. Steady' => Steady
  <2>1. used.flaps \in Nat /\ used'.flaps \in Nat
    BY <1>1, <1>5 DEF TypeOK, Counters
  <2> QED
    BY <2>1, <1>5 DEF Steady
<1>8. ASSUME Steady, NEW g \in Gens, Runs(g)', g > Current PROVE gen'[g].op \in yielded'
  BY <1>1, <1>2, <1>4, <1>8 DEF Running
<1>9. Running'
  BY <1>1, <1>2, <1>4, <1>7, <1>8, RunningStays
<1> QED
  BY <1>2, <1>3, <1>4, <1>6, <1>9, IdleStep DEF Kept

\* A container exits, is lost or is restarted: what is gone stays gone, what is
\* stopped stays so or is gone, and no running container is promised any more.
LEMMA DriftStep ==
    ASSUME IndInv, UNCHANGED <<store, nets, ledger, work, helper>>, used' \in Counters,
           used'.drift > used.drift \/ (used'.drift >= used.drift /\ used'.flaps > 0),
           used'.flaps >= used.flaps,
           box' \in [Gens -> BoxStates],
           \A g \in Gens : box[g] = "absent" => box'[g] = "absent",
           \A g \in Gens : box[g] = "stopped" => box'[g] \in {"absent", "stopped"},
           Steady' => \A g \in Gens : box'[g] \in {box[g], "absent", "stopped"},
           \A g \in Gens : box[g] # "absent" /\ box'[g] = "absent" => used'.drift > used.drift
    PROVE  Kept
<1>1. /\ TypeOK /\ InOrder /\ NothingForgotten /\ Numbered /\ Leased /\ OwnsCandidate /\ CandidateBox /\ OldBox
      /\ Cleaning /\ Operating /\ Repairing /\ RepliesAreTrue /\ Running
  BY DEF IndInv
<1>2. /\ gen' = gen /\ recon' = recon /\ nets' = nets /\ lease' = lease /\ holder' = holder /\ receipt' = receipt
      /\ yielded' = yielded /\ pc' = pc /\ job' = job /\ todo' = todo /\ dirty' = dirty /\ verdict' = verdict
      /\ helper' = helper
  BY DEF store, ledger, work
<1>3. used.drift \in Nat /\ used.flaps \in Nat /\ used'.drift \in Nat /\ used'.flaps \in Nat
  BY <1>1 DEF TypeOK, Counters
<1>4. used'.drift + used'.flaps # 0 /\ (Steady' => Steady)
  BY <1>3 DEF Steady
<1>5. InOrder' /\ Current' = Current /\ (HasActive' <=> HasActive)
  BY <1>1, <1>2, Untouched
<1>6. \A g \in Gens : Absent(g) => Absent(g)'
  BY <1>2 DEF Absent
<1>7. TypeOK'
  BY <1>1, <1>2 DEF TypeOK, Counters
<1>8. NothingForgotten' /\ Numbered' /\ Leased'
  BY <1>1, <1>2, <1>6 DEF NothingForgotten, Numbered, Leased
<1>9. OwnsCandidate'
  BY <1>1, <1>2, <1>5 DEF OwnsCandidate
<1>10. Steady' => \A g \in Gens : Runs(g)' => Runs(g)
  BY DEF Runs
<1>11. PICK n, b : n = job.gen /\ b = job.base
  OBVIOUS
<1>12. pc \in Replacing => n \in Gens /\ (b # 0 => b \in Gens)
  <2>1. pc \in Replacing => pc # "idle"
    BY DEF Replacing, Early, Built, Cut, Abort
  <2> QED
    BY <2>1, <1>1, <1>11, CurrentIs DEF OwnsCandidate, Leased
<1>13. CandidateBox'
  <2>1. CASE pc \notin Replacing
    BY <2>1, <1>2, NotReplacing
  <2>2. CASE pc \in Replacing
    <3>1. n \in Gens
      BY <2>2, <1>12
    <3>2. /\ box[n] = "absent" => box'[n] = "absent"
          /\ box[n] \in {"absent", "stopped"} => box'[n] \in {"absent", "stopped"}
          /\ Absent(n) => Absent(n)'
          /\ Steady' /\ (Steady => ~Runs(n)) => ~Runs(n)'
      BY <3>1, <1>4, <1>6, <1>10
    <3>3. /\ pc \in Early => box[n] = "absent"
          /\ pc \in Built \cup {"startCandidate"} => box[n] \in {"absent", "stopped"}
          /\ pc \in (Built \ {"recordCreated"}) \cup {"startCandidate", "rollback"} \cup Cut => gen[n].cid
          /\ pc = "abortContainer" => gen[n].cid \/ box[n] = "absent"
          /\ pc = "abortNetwork" => box[n] = "absent"
          /\ pc = "abortMark" /\ ~dirty => Absent(n)
          /\ Steady /\ pc \in Abort \cup {"rollback"} => ~Runs(n)
      BY <1>1, <1>11 DEF CandidateBox
    <3>4. job'.gen = n
      BY <1>2, <1>11
    <3> QED
      BY <3>2, <3>3, <3>4, <1>2, <1>4 DEF CandidateBox, Absent, Runs
  <2> QED
    BY <2>1, <2>2
<1>14. OldBox'
  <2>1. CASE pc \notin Replacing
    BY <2>1, <1>2, NotReplacing
  <2>2. CASE pc \in Replacing
    <3>1. Steady /\ pc \in {"startCandidate", "rollback"} \cup Cut /\ b # 0 => ~Runs(b)
      BY <1>1, <1>11 DEF OldBox
    <3>2. Steady' /\ pc \in {"startCandidate", "rollback"} \cup Cut /\ b # 0 => ~Runs(b)'
      BY <3>1, <2>2, <1>4, <1>10, <1>12
    <3>3. job'.base = b
      BY <1>2, <1>11
    <3> QED
      BY <3>2, <3>3, <1>2, <1>4 DEF OldBox, Runs
  <2> QED
    BY <2>1, <2>2
<1>15. Cleaning'
  <2>1. CASE pc \notin OlderSteps
    BY <2>1, <1>2, NotCleaning
  <2>2. CASE pc \in OlderSteps
    <3>1. older \in Gens /\ older' = older
      <4>1. todo # {} /\ todo \subseteq Gens /\ Gens \subseteq Nat
        BY <2>2, <1>1 DEF Cleaning, OlderSteps, TypeOK, Gens
      <4> QED
        BY <4>1, <1>2, MinIn DEF older
    <3> QED
      BY <3>1, <1>1, <1>2 DEF Cleaning
  <2> QED
    BY <2>1, <2>2
<1>16. Operating'
  BY <1>1, <1>2 DEF Operating
<1>17. Repairing'
  <2>1. debt' = debt /\ (todo # {} => debt \in Gens)
    BY <1>1, <1>2, DebtReads, DebtIsDue DEF TypeOK
  <2> QED
    BY <2>1, <1>1, <1>2, <1>5 DEF Repairing
<1>18. RepliesAreTrue'
  <2>1. CASE ~(pc = "complete" /\ job.kind \in Replacements)
    BY <2>1, <1>2 DEF RepliesAreTrue
  <2>2. CASE pc = "complete" /\ job.kind \in Replacements
    <3>1. n \in Gens
      BY <2>2, <1>1, <1>11 DEF Leased
    <3>2. /\ verdict = "succeeded" => gen[n].status = "active"
          /\ verdict = "failed" /\ b # 0 => gen[b].status = "active" /\ Absent(n)
      BY <2>2, <1>1, <1>11 DEF RepliesAreTrue
    <3>3. Absent(n) => Absent(n)'
      BY <3>1, <1>6
    <3> QED
      BY <3>2, <3>3, <1>2, <1>4, <1>11 DEF RepliesAreTrue, Absent
  <2> QED
    BY <2>1, <2>2
<1>19. Running'
  <2>1. CASE ~Steady'
    BY <2>1 DEF Running
  <2>2. CASE Steady'
    <3>1. /\ Steady => \A g \in Gens : box'[g] = "restarting" => box[g] = "restarting"
          /\ Steady => \A g \in Gens : Runs(g)' => Runs(g)
      BY <2>2, <1>10
    <3> QED
      BY <3>1, <1>1, <1>2, <1>4, <1>5, RunningStays
  <2> QED
    BY <2>1, <2>2
<1>20. AuthorityStep /\ SurvivalStep
  BY <1>2 DEF AuthorityStep, SurvivalStep
<1> QED
  BY <1>5, <1>7, <1>8, <1>9, <1>13, <1>14, <1>15, <1>16, <1>17, <1>18, <1>19, <1>20 DEF Kept, IndInv

\* Outside the helper a container exits or is lost, or its restart policy makes it flap.
LEMMA StepDrift ==
    ASSUME IndInv, NEW g \in Gens, ContainerExits(g) \/ ContainerLost(g) \/ ContainerFlaps(g)
    PROVE  Kept
<1>1. TypeOK
  BY DEF IndInv
<1>2. UNCHANGED <<store, nets, ledger, work, helper>>
  BY DEF ContainerExits, ContainerLost, ContainerFlaps
<1>3. CASE ContainerExits(g) \/ ContainerLost(g)
  <2>1. Spend("drift", MaxDrift) /\ (box' = Set(g, "absent") \/ (box[g] = "running" /\ box' = Set(g, "stopped")))
    BY <1>3 DEF ContainerExits, ContainerLost
  <2>2. used' \in Counters /\ used'.drift > used.drift /\ used'.flaps >= used.flaps
    BY <1>1, <2>1, Spends
  <2>3. /\ box' \in [Gens -> BoxStates]
        /\ \A h \in Gens : box[h] = "absent" => box'[h] = "absent"
        /\ \A h \in Gens : box'[h] \in {box[h], "absent", "stopped"}
    BY <1>1, <2>1, SetIs DEF TypeOK, BoxStates
  <2>4. \A h \in Gens : box[h] = "stopped" => box'[h] \in {"absent", "stopped"}
    BY <2>3
  <2> QED
    BY <1>2, <2>2, <2>3, <2>4, DriftStep
<1>4. CASE ContainerFlaps(g)
  <2>1. /\ Spend("flaps", MaxFlaps)
        /\ \/ box[g] = "running" /\ box' = Set(g, "restarting")
           \/ box[g] = "restarting" /\ box' = Set(g, "running")
    BY <1>4 DEF ContainerFlaps
  <2>2. used' \in Counters /\ used'.drift >= used.drift /\ used'.flaps >= used.flaps /\ used'.flaps > 0
    BY <1>1, <2>1, Spends
  <2>3. /\ box' \in [Gens -> BoxStates]
        /\ \A h \in Gens : box[h] = "absent" <=> box'[h] = "absent"
        /\ \A h \in Gens : box[h] = "stopped" => box'[h] = "stopped"
    BY <1>1, <2>1, SetIs DEF TypeOK, BoxStates
  <2>4. ~Steady'
    <3>1. used'.flaps \in Nat
      BY <2>2 DEF Counters
    <3> QED
      BY <3>1, <2>2 DEF Steady
  <2> QED
    BY <1>2, <2>2, <2>3, <2>4, DriftStep
<1> QED
  BY <1>3, <1>4

\* A step that changes nothing keeps the invariant.
LEMMA StepStutter == ASSUME IndInv, UNCHANGED vars PROVE Kept
<1>1. /\ TypeOK /\ InOrder /\ NothingForgotten /\ Numbered /\ Leased /\ OwnsCandidate /\ CandidateBox /\ OldBox
      /\ Cleaning /\ Operating /\ Repairing /\ RepliesAreTrue /\ Running
  BY DEF IndInv
<1>2. /\ gen' = gen /\ recon' = recon /\ box' = box /\ nets' = nets /\ lease' = lease /\ holder' = holder
      /\ receipt' = receipt /\ yielded' = yielded /\ pc' = pc /\ job' = job /\ todo' = todo /\ dirty' = dirty
      /\ verdict' = verdict /\ helper' = helper /\ used' = used
  BY DEF vars, store, runtime, ledger, work
<1>3. /\ InOrder' /\ NothingForgotten' /\ Current' = Current /\ AuthorityStep /\ SurvivalStep
      /\ \A g \in Gens : (Runs(g)' <=> Runs(g)) /\ gen'[g].op = gen[g].op
  BY <1>2, StoreStays
<1>4. (HasActive' <=> HasActive) /\ debt' = debt /\ older' = older
  BY <1>1, <1>2, Untouched, DebtReads DEF older
<1>5. TypeOK' /\ Numbered' /\ Leased'
  BY <1>1, <1>2 DEF TypeOK, Numbered, Leased
<1>6. OwnsCandidate' /\ CandidateBox' /\ OldBox'
  BY <1>1, <1>2, <1>3, <1>4 DEF OwnsCandidate, CandidateBox, OldBox, Absent, Runs, Steady
<1>7. Cleaning' /\ Operating' /\ Repairing' /\ RepliesAreTrue'
  BY <1>1, <1>2, <1>4 DEF Cleaning, Operating, Repairing, RepliesAreTrue, Absent
<1>8. Running'
  <2>1. Steady' => Steady
    BY <1>2 DEF Steady
  <2> QED
    BY <2>1, <1>1, <1>2, <1>3, RunningStays
<1> QED
  BY <1>3, <1>5, <1>6, <1>7, <1>8 DEF Kept, IndInv

-----------------------------------------------------------------------------
(* The theorems.                                                           *)

\* Nothing has been installed yet.
LEMMA Initially == ASSUME Init PROVE IndInv
<1>1. /\ gen = [g \in Gens |-> NoRow] /\ recon = [state |-> "none", action |-> "none", checked |-> 0]
      /\ box = [g \in Gens |-> "absent"] /\ nets = {}
      /\ lease = "free" /\ holder = 0 /\ receipt = "none" /\ yielded = {}
      /\ pc = "idle" /\ job = NoJob /\ todo = {} /\ dirty = FALSE /\ verdict = "none" /\ helper = "up"
      /\ used = [crashes |-> 0, faults |-> 0, drift |-> 0, flaps |-> 0, resolves |-> 0]
  BY DEF Init
<1>2. NoRow \in Rows /\ NoRow.status = "none" /\ NoRow.op = 0
  BY LifecycleBounds DEF NoRow, Rows, Statuses
<1>3. TypeOK
  <2>1. NoJob \in Jobs /\ recon \in Outcomes /\ used \in Counters
    BY <1>1, LifecycleBounds DEF NoJob, Jobs, Outcomes, Counters
  <2>2. gen \in [Gens -> Rows] /\ box \in [Gens -> BoxStates] /\ holder \in 0..MaxOps
    BY <1>1, <1>2, LifecycleBounds DEF BoxStates
  <2> QED
    BY <1>1, <2>1, <2>2 DEF TypeOK, Jobs, Counters, Steps
<1>4. \A g \in Gens : gen[g].status = "none" /\ gen[g].op = 0 /\ box[g] = "absent" /\ g # 0
  BY <1>1, <1>2 DEF Gens
<1>5. InOrder
  <2>1. Top(gen, 0) /\ RetainedOnce(gen)
    <3>1. \A g \in Gens : ~(g <= 0) /\ ~(g < 0)
      BY DEF Gens
    <3> QED
      BY <3>1, <1>4, LifecycleBounds DEF Top, RetainedOnce, Fresh
  <2>2. Current = 0
    BY <2>1, TopIsCurrent, CurrentReads
  <2> QED
    BY <2>1, <2>2 DEF InOrder
<1>6. NothingForgotten /\ Numbered /\ Leased /\ RepliesAreTrue
  BY <1>1, <1>4 DEF NothingForgotten, Absent, Numbered, Leased, RepliesAreTrue
<1>7. OwnsCandidate /\ CandidateBox /\ OldBox /\ Cleaning /\ Operating /\ Repairing
  BY <1>1 DEF OwnsCandidate, CandidateBox, OldBox, Cleaning, Operating, Repairing, Replacing, Early, Built, Cut, Abort
<1>8. Running
  BY <1>4 DEF Running, Runs
<1> QED
  BY <1>3, <1>5, <1>6, <1>7, <1>8 DEF IndInv

\* Every step keeps the invariant and respects the active generation.
LEMMA StepKeeps == ASSUME IndInv, [Next]_vars PROVE Kept
<1>1. CASE \E kind \in Requests : \E g \in Targets(kind) : Admit(kind, g)
  BY <1>1, StepAdmit DEF Targets
<1>2. CASE \E kind \in Requests : \E g \in Targets(kind) : AdmitUnauthorized(kind, g)
  BY <1>2, StepUnauthorized
<1>3. CASE AwaitRequest \/ UNCHANGED vars
  BY <1>3, StepStutter DEF AwaitRequest
<1>4. CASE ReplaceStep
  BY <1>4, StepPrepare, StepCreateNetwork, StepRecordNetwork, StepCreateContainer, StepRecordCreated,
     StepVerifyStopped, StepPreCutover, StepStopOld, StepStartCandidate, StepRecordRunning, StepVerifyRunning,
     StepCommit, StepRemoveOlderContainer, StepRemoveOlderNetwork, StepMarkOlderRemoved, StepAbortContainer,
     StepAbortNetwork, StepAbortMark, StepCutoverFailed, StepRollback
     DEF ReplaceStep
<1>5. CASE OperateStep
  BY <1>5, StepOperate, StepOpStop, StepOpRecordStop, StepOpStart, StepOpRecordStart, StepOpRemove,
     StepOpRemoveNetwork, StepOpMarkRemoved
     DEF OperateStep
<1>6. CASE RepairStep
  BY <1>6, StepReconcileInstallation, StepRepairValidate, StepRepairStart, StepRepairRecord,
     StepRepairRemoveContainer, StepRepairRemoveNetwork, StepRepairMark, StepAcknowledge, StepRepairVerify
     DEF RepairStep
<1>7. CASE Complete \/ CompleteFails
  BY <1>7, StepComplete, StepCompleteFails
<1>8. CASE Crash
  BY <1>8, StepCrash
<1>9. CASE Startup
  BY <1>9, StepRestart, StepFinalizeCommitted, StepRecoverForward, StepRecoveryAborts, StepRecoverySkips,
     StepStartupReconcile
     DEF Startup
<1>10. CASE ResolveOperation
  BY <1>10, StepResolveOperation
<1>11. CASE \E g \in Gens : ContainerExits(g) \/ ContainerLost(g) \/ ContainerFlaps(g)
  BY <1>11, StepDrift
<1> QED
  BY <1>1, <1>2, <1>3, <1>4, <1>5, <1>6, <1>7, <1>8, <1>9, <1>10, <1>11 DEF Next, Work

\* The inductive invariant of the installation's lifecycle holds in every
\* reachable state.
THEOREM Invariance == Spec => []IndInv
<1>1. Init => IndInv
  BY Initially
<1>2. IndInv /\ [Next]_vars => IndInv'
  BY StepKeeps DEF Kept
<1> QED
  BY <1>1, <1>2, PTL DEF Spec

\* Rows, containers, lease and worker are always in the states the code knows.
THEOREM TypeCorrect == Spec => []TypeOK
<1>1. IndInv => TypeOK
  BY DEF IndInv
<1> QED
  BY <1>1, Invariance, PTL

\* At most one member makes a set of generations small.
LEMMA AtMostOne ==
    ASSUME NEW S, \A x, y \in S : x = y
    PROVE  Cardinality(S) <= 1
<1>1. CASE S = {}
  BY <1>1, FS_EmptySet
<1>2. CASE S # {}
  <2>1. PICK x \in S : TRUE
    BY <1>2
  <2>2. S = {x}
    BY <2>1
  <2> QED
    BY <2>2, FS_Singleton
<1> QED
  BY <1>1, <1>2

\* Whatever crashes, retries and repairs happen, at most one generation is active
\* and at most one, older, is retained: Commit and RecoverForward switch authority
\* from the top of the ladder to its successor.
THEOREM AuthorityIsUnique == Spec => []OneAuthority
<1>1. ASSUME IndInv PROVE OneAuthority
  <2>1. InOrder
    BY <1>1 DEF IndInv
  <2>2. \A g \in Gens : gen[g].status = "active" => g = Current
    BY <2>1, CurrentIs
  <2>3. Cardinality(Having({"active"})) <= 1
    <3>1. \A x, y \in Having({"active"}) : x = y
      BY <2>2 DEF Having
    <3> QED
      BY <3>1, AtMostOne
  <2>4. Cardinality(Having({"retained"})) <= 1
    <3>1. \A x, y \in Having({"retained"}) : x = y
      BY <2>1 DEF Having, InOrder, RetainedOnce
    <3> QED
      BY <3>1, AtMostOne
  <2>5. ASSUME NEW r \in Gens, NEW g \in Gens, gen[r].status = "retained", gen[g].status = "active"
        PROVE  r < g
    <3>1. g = Current /\ Top(gen, Current) /\ r \in Nat /\ g \in Nat
      BY <2>1, <2>2, <2>5 DEF InOrder, Gens
    <3>2. ~(r > g)
      BY <3>1, <2>5 DEF Top, Fresh
    <3>3. r # g
      BY <2>5
    <3> QED
      BY <3>1, <3>2, <3>3
  <2> QED
    BY <2>3, <2>4, <2>5 DEF OneAuthority, Having
<1> QED
  BY <1>1, Invariance, PTL

\* No cutover, rollback, forward recovery, operation or repair makes two
\* generations run at once on the one data path, unless the lease of the newer
\* one's operation was given up.
THEOREM OneRuns == Spec => []OneGenerationRuns
<1>1. IndInv => OneGenerationRuns
  BY DEF IndInv, Running, Steady, Runs, OneGenerationRuns, Executing
<1> QED
  BY <1>1, Invariance, PTL

\* A container or network that exists has a row that admits it.
THEOREM NothingIsForgotten == Spec => []NothingForgotten
<1>1. IndInv => NothingForgotten
  BY DEF IndInv
<1> QED
  BY <1>1, Invariance, PTL

\* The reply of a finished replacement is true of the store and of Docker.
THEOREM RepliesHold == Spec => []RepliesAreTrue
<1>1. IndInv => RepliesAreTrue
  BY DEF IndInv
<1> QED
  BY <1>1, Invariance, PTL

\* A generation loses authority only to a verified successor or by a removal that
\* left nothing behind.
THEOREM AuthorityMovesForward == Spec => AuthorityMoves
<1>1. IndInv /\ [Next]_vars => AuthorityStep
  BY StepKeeps DEF Kept
<1> QED
  BY <1>1, Invariance, PTL DEF Spec, AuthorityMoves, AuthorityStep

\* The active generation's container is removed by nobody but a remove request or
\* someone outside the helper.
THEOREM ActiveIsSpared == Spec => ActiveSurvives
<1>1. IndInv /\ [Next]_vars => SurvivalStep
  BY StepKeeps DEF Kept
<1> QED
  BY <1>1, Invariance, PTL DEF Spec, ActiveSurvives, SurvivalStep
=============================================================================
