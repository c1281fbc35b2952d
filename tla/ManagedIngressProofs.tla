------------------------ MODULE ManagedIngressProofs ------------------------
(***************************************************************************)
(* Proofs about ManagedIngress for any routes, handlers, generations and   *)
(* faults: the helper's answers are true of the link, the rows and what    *)
(* nginx was told, a link that has moved without a commit is recorded, and *)
(* a request that runs alone leaves the link, control.db and nginx's       *)
(* orders at exactly what the control database wants.                      *)
(***************************************************************************)
EXTENDS ManagedIngress, WellFoundedInduction, TLAPS

ActiveIn(rs) == Max({0} \cup {g \in Gens : rs[g] = "active"})

Pending == {"prepared", "rollback_pending"}
Underway == job.pc \notin {"idle", "answer"}
FailsAs(status) == job.pc = "fail" /\ job.status = status

\* A link away from the active generation is explained by a row.
Explained == current = Active \/ \E g \in Gens : g > Active /\ rows[g] \in Pending

\* So it was before the apply, without the row of the apply itself.
ExplainedBefore ==
    current = job.prev \/ \E g \in Gens \ {job.gen} : g > job.prev /\ rows[g] \in Pending

\* A new generation replaces the active one, whose directory is there; until the
\* apply ends its row is prepared and no other is touched.
JobOwnsRow ==
    /\ \A g \in Gens : rows[g] = "active" => g \in dirs
    /\ job.pc # "idle" => job.gen \in Gens /\ job.prev < job.gen
    /\ Underway => rows[job.gen] = "prepared" /\ Active = job.prev

\* The configuration on disk is the one that was asked for.
JobOwnsDirectory ==
    /\ job.pc \in {"validate", "activate", "await", "verify", "commit"}
         => job.gen \in dirs /\ conf[job.gen] = job.want
    /\ job.pc = "answer" /\ job.ok => conf[job.gen] = job.want
    /\ job.pc = "back" => job.gen \in dirs

\* Where the link points at each step.
LinkFollows ==
    /\ job.pc \in {"prepare", "validate", "activate"} \/ FailsAs("failed") =>
         job.gen \notin {current, serving} /\ ExplainedBefore
    /\ job.pc \in {"await", "verify", "commit"} => current = job.gen
    /\ job.pc \in {"awaitback", "verifyback"} \/ FailsAs("rolled_back") => current = job.prev
    /\ job.pc = "fail" => job.status \in {"failed", "rolled_back", "rollback_pending"}
    /\ job.pc \in {"idle", "answer"} => Explained

\* The token is out only while the helper waits, once; unless nginx refused or the
\* unit answered for another request, an acknowledgement means that nginx was told
\* to load what is linked.
HandshakeIsSound ==
    /\ request = "mine" \/ complete = "mine" => job.pc \in {"await", "awaitback"}
    /\ ~(request = "mine" /\ complete = "mine")
    /\ complete = "mine" \/ (request = "mine" /\ unit = "signalled") => amiss \/ Told
    /\ job.pc \in {"verify", "commit", "verifyback"} \/ FailsAs("rolled_back") => amiss \/ Told

IngressInv ==
    /\ IngressTypeOK /\ JobOwnsRow /\ JobOwnsDirectory /\ LinkFollows /\ HandshakeIsSound
    /\ AnswersAreTrue

\* The helper's answer goes to the one handler that waits for it.
CallersWait ==
    /\ \A h \in Handlers : api[h].pc = "wait" <=> h \in caller
    /\ \A h, x \in caller : h = x
    /\ caller # {} => job.pc # "idle"

\* A request that nobody overlapped is the only one.
Alone(h) == api[h].alone /\ api[h].pc # "idle"
AloneIsAlone == \A h, x \in Handlers : Alone(h) /\ x # h => api[x].pc = "idle"

\* What is linked is what the control database wants, and nginx was told.
Applied == job.pc = "idle" /\ ServedBy(current) = Wanted /\ (amiss \/ Told)

\* And control.db has it as the active generation.
InTouch == Applied /\ recorded = current

\* A restore that has put routes on hold, up to its end.
Closing(a) ==
    a.kind = "restore" /\ a.stage = "main" /\ a.mine # {} /\ a.pc \notin {"hold", "reopen"}

\* What a request that runs alone knows at each step.
Knows(a) ==
    /\ a.pc = "probe" => a.kind = "reconcile"
    /\ a.pc = "hold" => a.kind = "restore" /\ a.stage = "main" /\ a.mine = Restored \cap Enabled
    /\ a.pc = "holds" => a.list = Enabled \ (held \ a.left)
    /\ a.pc = "wait" => job.want = Wanted
    /\ a.pc = "record" => Applied /\ current = a.gen
    /\ a.pc = "answered" /\ a.ok => InTouch
    /\ a.pc = "remote" => a.kind = "create" /\ InTouch
    /\ a.pc = "reopen" => a.kind = "restore"
    /\ a.pc \in {"restore", "restoring"} => a.kind = "restore" /\ a.stage = "main"
    /\ a.pc \in {"restore", "restoring"} /\ a.mine # {} => InTouch
    /\ a.kind = "delete" => \A r \in a.r : route[r] = "disabled"
    /\ Closing(a) => Wanted \cap Restored = {}

RequestsKnow == \A h \in Handlers : Alone(h) => Knows(api[h])

IndInv ==
    /\ TypeOK /\ IngressInv /\ CallersWait /\ AloneIsAlone /\ RequestsKnow

-----------------------------------------------------------------------------
(* The numbers of generations.                                             *)

\* The largest of a bounded set of numbers is one of them and not below any.
LEMMA MaxIn ==
    ASSUME NEW S, S \subseteq Nat, S # {}, NEW b \in Nat, \A x \in S : x <= b
    PROVE  Max(S) \in S /\ \A x \in S : x <= Max(S)
<1> DEFINE D == {d \in Nat : \E x \in S : x + d = b}
<1>1. D \subseteq Nat /\ D # {}
  <2>1. PICK x \in S : TRUE
    OBVIOUS
  <2>2. x \in Nat /\ x <= b
    BY <2>1
  <2>3. b - x \in Nat /\ x + (b - x) = b
    BY <2>2
  <2> QED
    BY <2>1, <2>3
<1>2. PICK m \in D : \A d \in D : ~(<<d, m>> \in OpToRel(<, Nat))
  BY <1>1, NatLessThanWellFounded, WFMin
<1>3. \A d \in D : ~(d < m)
  BY <1>1, <1>2 DEF OpToRel
<1>4. PICK x \in S : x + m = b
  OBVIOUS
<1>5. \A y \in S : x >= y
  <2> TAKE y \in S
  <2>1. x \in Nat /\ y \in Nat /\ m \in Nat /\ y <= b
    OBVIOUS
  <2>2. b - y \in Nat /\ y + (b - y) = b
    BY <2>1
  <2>3. b - y \in D
    BY <2>2
  <2>4. ~(b - y < m)
    BY <2>3, <1>3
  <2> HIDE DEF D
  <2> QED
    BY <2>1, <2>4, <1>4
<1>6. Max(S) \in S /\ \A y \in S : Max(S) >= y
  BY <1>5 DEF Max
<1> QED
  BY <1>6

\* The packaged configuration is not a generation.
LEMMA NotBootstrap == \A g \in Gens : g # Bootstrap
BY IngressAssumption DEF Gens, Bootstrap

\* The active generation is the one whose row says so, or there is none.
LEMMA ActiveIs ==
    ASSUME NEW rs \in [Gens -> Statuses],
           \A g, k \in Gens : rs[g] = "active" /\ rs[k] = "active" => g = k
    PROVE  /\ ActiveIn(rs) \in 0..MaxGen
           /\ ActiveIn(rs) # 0 => ActiveIn(rs) \in Gens /\ rs[ActiveIn(rs)] = "active"
           /\ \A g \in Gens : rs[g] = "active" => ActiveIn(rs) = g
<1> DEFINE S == {0} \cup {g \in Gens : rs[g] = "active"}
<1>1. S \subseteq 0..MaxGen /\ S \subseteq Nat /\ S # {} /\ \A x \in S : x <= MaxGen
  BY IngressAssumption DEF Gens
<1>2. Max(S) \in S /\ \A x \in S : x <= Max(S)
  BY <1>1, MaxIn, IngressAssumption
<1>3. ActiveIn(rs) = Max(S)
  BY DEF ActiveIn
<1> HIDE DEF S
<1>4. ActiveIn(rs) \in S /\ \A x \in S : x <= ActiveIn(rs)
  BY <1>2, <1>3
<1>5. ActiveIn(rs) \in 0..MaxGen
  BY <1>1, <1>4
<1>6. ActiveIn(rs) # 0 => ActiveIn(rs) \in Gens /\ rs[ActiveIn(rs)] = "active"
  BY <1>4 DEF S
<1>7. ASSUME NEW g \in Gens, rs[g] = "active" PROVE ActiveIn(rs) = g
  <2>1. g \in S /\ g > 0 /\ g \in Nat
    BY <1>7, IngressAssumption DEF S, Gens
  <2>2. ActiveIn(rs) # 0
    BY <2>1, <1>4, <1>5
  <2> QED
    BY <2>2, <1>6, <1>7
<1> QED
  BY <1>5, <1>6, <1>7

\* Active reads the rows.
LEMMA ActiveReads == Active = ActiveIn(rows) /\ Active' = ActiveIn(rows')
BY DEF Active, ActiveIn

\* A new generation has a number that no row and no directory has, above those of
\* all rows.
LEMMA NextIsNew ==
    ASSUME IngressTypeOK
    PROVE  /\ NextGeneration \in Nat \ {0} /\ NextGeneration \notin dirs
           /\ \A g \in Gens : rows[g] # "none" => g < NextGeneration
<1> DEFINE R == {0} \cup {g \in Gens : rows[g] # "none"}
           m == Max(R) + 1
           D == {m} \cup {n + 1 : n \in {d \in dirs : d >= m}}
<1>1. R \subseteq Nat /\ R # {} /\ \A x \in R : x <= MaxGen
  BY IngressAssumption DEF Gens
<1>2. Max(R) \in R /\ \A x \in R : x <= Max(R)
  BY <1>1, MaxIn, IngressAssumption
<1>3. m \in Nat \ {0} /\ m <= MaxGen + 1 /\ \A g \in Gens : rows[g] # "none" => g < m
  <2>1. Max(R) \in Nat /\ Max(R) <= MaxGen
    BY <1>1, <1>2
  <2>2. ASSUME NEW g \in Gens, rows[g] # "none" PROVE g <= Max(R)
    BY <2>2, <1>2
  <2> HIDE DEF R
  <2> QED
    BY <2>1, <2>2, IngressAssumption DEF Gens
<1>4. NextGeneration = Max(D)
  BY DEF NextGeneration, NextUnusedGeneration
<1> HIDE DEF m
<1>5. dirs \subseteq Nat /\ \A d \in dirs : d <= MaxGen
  BY IngressAssumption DEF IngressTypeOK, Gens
<1>6. D \subseteq Nat /\ D # {} /\ \A x \in D : x <= MaxGen + 1
  BY <1>3, <1>5, IngressAssumption
<1>7. Max(D) \in D /\ \A x \in D : x <= Max(D)
  <2>1. MaxGen + 1 \in Nat
    BY IngressAssumption
  <2> QED
    BY <2>1, <1>6, MaxIn
<1>8. m \in D /\ \A d \in dirs : d >= m => d + 1 \in D
  OBVIOUS
<1> HIDE DEF D
<1>9. Max(D) >= m /\ Max(D) \in Nat
  BY <1>6, <1>7, <1>8, <1>3
<1>10. \A d \in dirs : d < Max(D)
  <2> TAKE d \in dirs
  <2>1. CASE d >= m
    BY <2>1, <1>5, <1>7, <1>8, <1>9
  <2>2. CASE ~(d >= m)
    BY <2>2, <1>3, <1>5, <1>9
  <2> QED
    BY <2>1, <2>2
<1>11. ASSUME NEW g \in Gens, rows[g] # "none" PROVE g < Max(D)
  <2>1. g \in Nat
    BY IngressAssumption DEF Gens
  <2> QED
    BY <2>1, <1>3, <1>9, <1>11
<1>12. Max(D) \notin dirs
  BY <1>5, <1>9, <1>10
<1>13. Max(D) # 0
  BY <1>3, <1>9
<1> QED
  BY <1>4, <1>9, <1>11, <1>12, <1>13

-----------------------------------------------------------------------------
(* The helper's apply.                                                     *)

Counted == used' \in [faults : Nat, requests : Nat]

\* Faults are counted.
LEMMA StepsCounted ==
    ASSUME IngressTypeOK
    PROVE  (Fault => Counted) /\ (NoFault => Counted)
BY DEF IngressTypeOK, Fault, NoFault, Counted

\* The apply goes on with the same routes and generations.
SameJob == job' \in Jobs /\ job'.gen = job.gen /\ job'.prev = job.prev /\ job'.want = job.want

\* Become, FailWith and Answer change the step and the outcome of the apply only.
LEMMA JobGoesOn ==
    ASSUME job \in Jobs
    PROVE  /\ \A p \in {"validate", "activate", "await", "verify", "back", "awaitback", "verifyback",
                        "commit"} :
                Become(p) => SameJob /\ job'.pc = p
           /\ \A s \in {"failed", "rolled_back", "rollback_pending"} :
                FailWith(s) => SameJob /\ job'.pc = "fail" /\ job'.status = s
           /\ \A ok \in BOOLEAN : Answer(ok) => SameJob /\ job'.pc = "answer" /\ job'.ok = ok
<1>1. ASSUME NEW p \in {"validate", "activate", "await", "verify", "back", "awaitback", "verifyback",
                        "commit"}, Become(p)
      PROVE  SameJob /\ job'.pc = p
  BY <1>1 DEF Become, SameJob, Jobs
<1>2. ASSUME NEW s \in {"failed", "rolled_back", "rollback_pending"}, FailWith(s)
      PROVE  SameJob /\ job'.pc = "fail" /\ job'.status = s
  BY <1>2 DEF FailWith, SameJob, Jobs, Statuses
<1>3. ASSUME NEW ok \in BOOLEAN, Answer(ok)
      PROVE  SameJob /\ job'.pc = "answer" /\ job'.ok = ok
  BY <1>3 DEF Answer, SameJob, Jobs
<1> QED
  BY <1>1, <1>2, <1>3

\* A step that leaves the helper alone.
LEMMA IngressRests ==
    ASSUME IngressInv, UNCHANGED ingressVars, Counted
    PROVE  IngressInv'
<1>1. UNCHANGED <<rows, dirs, conf, current, serving, hup, amiss, request, complete, unit, job>>
  BY DEF ingressVars, disk, nginx, handshake
<1>2. Active' = Active
  BY <1>1 DEF Active
<1>3. IngressTypeOK'
  BY <1>1 DEF IngressInv, IngressTypeOK, Counted
<1>4. JobOwnsRow' /\ JobOwnsDirectory'
  BY <1>1, <1>2 DEF IngressInv, JobOwnsRow, JobOwnsDirectory, Underway
<1>5. LinkFollows'
  BY <1>1, <1>2 DEF IngressInv, LinkFollows, FailsAs, Explained, ExplainedBefore
<1>6. HandshakeIsSound'
  BY <1>1 DEF IngressInv, HandshakeIsSound, Told, FailsAs
<1>7. AnswersAreTrue'
  BY <1>1, <1>2 DEF IngressInv, AnswersAreTrue, Told
<1> QED
  BY <1>3, <1>4, <1>5, <1>6, <1>7 DEF IngressInv

\* nginx loads what is linked or refuses it, the unit signals or acknowledges.
LEMMA RuntimeKeeps ==
    ASSUME IngressInv, RuntimeSteps
    PROVE  /\ IngressInv' /\ Counted /\ UNCHANGED <<rows, dirs, conf, current, job>>
           /\ amiss \/ Told => (amiss \/ Told)'
<1>1. UNCHANGED <<rows, dirs, conf, current, job>> /\ serving' \in {serving, current}
  BY DEF RuntimeSteps, NginxLoads, NginxRefuses, UnitSignals, UnitAcknowledges, disk, nginx
<1>2. Active' = Active
  BY <1>1 DEF Active
<1>3. Counted
  BY StepsCounted DEF RuntimeSteps, NginxLoads, NginxRefuses, UnitSignals, UnitAcknowledges, IngressInv,
       NoFault
<1>4. amiss \/ Told => (amiss \/ Told)'
  BY <1>1 DEF RuntimeSteps, NginxLoads, NginxRefuses, UnitSignals, UnitAcknowledges, nginx, Told
<1>5. IngressTypeOK'
  <2>1. /\ request' \in Tokens /\ complete' \in Tokens /\ unit' \in {"idle", "signalled"}
        /\ hup' \in BOOLEAN /\ amiss' \in BOOLEAN
    BY DEF RuntimeSteps, NginxLoads, NginxRefuses, UnitSignals, UnitAcknowledges, nginx, handshake,
         IngressInv, IngressTypeOK, Tokens
  <2> QED
    BY <2>1, <1>1, <1>3 DEF IngressInv, IngressTypeOK, Counted
<1>6. JobOwnsRow' /\ JobOwnsDirectory'
  BY <1>1, <1>2 DEF IngressInv, JobOwnsRow, JobOwnsDirectory, Underway
<1>7. LinkFollows'
  BY <1>1, <1>2 DEF IngressInv, LinkFollows, FailsAs, Explained, ExplainedBefore
<1>8. HandshakeIsSound'
  <2>1. CASE NginxLoads \/ NginxRefuses
    BY <2>1, <1>1, <1>4 DEF NginxLoads, NginxRefuses, handshake, IngressInv, HandshakeIsSound, FailsAs
  <2>2. CASE UnitSignals
    BY <2>2, <1>1 DEF UnitSignals, IngressInv, HandshakeIsSound, FailsAs, Told
  <2>3. CASE UnitAcknowledges
    BY <2>3, <1>1, <1>4 DEF UnitAcknowledges, IngressInv, HandshakeIsSound, FailsAs
  <2> QED
    BY <2>1, <2>2, <2>3 DEF RuntimeSteps
<1>9. AnswersAreTrue'
  <2>1. job.pc = "answer" => AnswersAreTrue
    BY DEF IngressInv
  <2>2. job.gen # current /\ (amiss \/ hup \/ job.gen # serving) => (amiss \/ hup \/ job.gen # serving)'
    BY <1>1 DEF RuntimeSteps, NginxLoads, NginxRefuses, UnitSignals, UnitAcknowledges, nginx
  <2> QED
    BY <2>1, <2>2, <1>1, <1>2, <1>4 DEF AnswersAreTrue
<1> QED
  BY <1>1, <1>3, <1>4, <1>5, <1>6, <1>7, <1>8, <1>9 DEF IngressInv

\* Steps of the apply that touch neither rows nor disk.
LEMMA TalkKeeps ==
    ASSUME IngressInv, Validate \/ AwaitReload \/ Verify \/ AwaitRollback \/ VerifyRollback
    PROVE  IngressInv' /\ SameJob /\ Counted
<1>1. job \in Jobs
  BY DEF IngressInv, IngressTypeOK
<1>2. UNCHANGED <<rows, dirs, conf, current, serving, hup, amiss>> /\ job.pc # "idle"
  BY DEF Validate, AwaitReload, Verify, AwaitRollback, VerifyRollback, disk, nginx
<1>3. Counted
  BY StepsCounted DEF IngressInv, Validate, AwaitReload, Verify, AwaitRollback, VerifyRollback, TimedOut
<1>4. Active' = Active
  BY <1>2 DEF Active
<1>5. /\ SameJob
      /\ \/ UNCHANGED handshake /\ job.pc \notin {"await", "awaitback"}
         \/ /\ complete = "mine" /\ complete' = "none" /\ UNCHANGED <<request, unit>>
            /\ job.pc \in {"await", "awaitback"} /\ (amiss \/ Told)
         \/ /\ request = "mine" /\ request' = "late" /\ UNCHANGED <<complete, unit>>
            /\ job.pc \in {"await", "awaitback"} /\ job'.pc \notin {"verify", "verifyback"}
            /\ ~(job'.pc = "fail" /\ job'.status = "rolled_back")
      /\ \/ job.pc = "validate" /\ (job'.pc = "activate" \/ (job'.pc = "fail" /\ job'.status = "failed"))
         \/ job.pc = "await" /\ job'.pc \in {"verify", "back"}
         \/ job.pc = "verify" /\ job'.pc \in {"commit", "back"}
         \/ /\ job.pc \in {"awaitback", "verifyback"}
            /\ \/ job.pc = "awaitback" /\ job'.pc = "verifyback"
               \/ job'.pc = "fail" /\ job'.status \in {"rolled_back", "rollback_pending"}
  <2>1. CASE Validate
    BY <2>1, <1>1, JobGoesOn DEF Validate
  <2>2. CASE AwaitReload
    BY <2>2, <1>1, JobGoesOn DEF AwaitReload, Acknowledged, TimedOut, IngressInv, HandshakeIsSound
  <2>3. CASE Verify
    BY <2>3, <1>1, JobGoesOn DEF Verify
  <2>4. CASE AwaitRollback
    BY <2>4, <1>1, JobGoesOn DEF AwaitRollback, Acknowledged, TimedOut, IngressInv, HandshakeIsSound
  <2>5. CASE VerifyRollback
    BY <2>5, <1>1, JobGoesOn DEF VerifyRollback
  <2> QED
    BY <2>1, <2>2, <2>3, <2>4, <2>5
<1>6. /\ request' \in Tokens /\ complete' \in Tokens /\ unit' = unit
      /\ request' = "mine" => request = "mine" /\ job.pc \notin {"await", "awaitback"}
      /\ complete' = "mine" => complete = "mine" /\ job.pc \notin {"await", "awaitback"}
  BY <1>5 DEF handshake, IngressInv, IngressTypeOK, Tokens, HandshakeIsSound
<1>7. IngressTypeOK'
  BY <1>2, <1>3, <1>5, <1>6 DEF IngressInv, IngressTypeOK, Counted, SameJob
<1>8. JobOwnsRow'
  BY <1>2, <1>4, <1>5 DEF IngressInv, JobOwnsRow, Underway, SameJob
<1>9. JobOwnsDirectory'
  BY <1>2, <1>5 DEF IngressInv, JobOwnsDirectory, SameJob
<1>10. LinkFollows'
  BY <1>2, <1>5 DEF IngressInv, LinkFollows, FailsAs, ExplainedBefore, SameJob
<1>11. HandshakeIsSound'
  BY <1>2, <1>3, <1>5, <1>6 DEF IngressInv, HandshakeIsSound, Told, FailsAs
<1>12. AnswersAreTrue'
  BY <1>5 DEF AnswersAreTrue
<1> QED
  BY <1>3, <1>5, <1>7, <1>8, <1>9, <1>10, <1>11, <1>12 DEF IngressInv

\* The generation directory is written, or not.
LEMMA PrepareKeeps ==
    ASSUME IngressInv, Prepare
    PROVE  IngressInv' /\ SameJob /\ Counted
<1>1. job \in Jobs
  BY DEF IngressInv, IngressTypeOK
<1>2. /\ job.pc = "prepare" /\ UNCHANGED <<rows, current, serving, hup, amiss, request, complete, unit>>
      /\ SameJob
      /\ \/ /\ job'.pc = "validate" /\ dirs' = dirs \cup {job.gen}
            /\ conf' = [conf EXCEPT ![job.gen] = job.want]
         \/ /\ job'.pc = "fail" /\ job'.status = "failed" /\ UNCHANGED conf
            /\ dirs' \in {dirs, dirs \cup {job.gen}}
  BY <1>1, JobGoesOn DEF Prepare, handshake, nginx
<1>3. Counted
  BY StepsCounted DEF IngressInv, Prepare
<1>4. Active' = Active
  BY <1>2 DEF Active
<1>5. job.gen \in Gens /\ job.want \subseteq Routes
  BY <1>1, <1>2 DEF IngressInv, JobOwnsRow, Jobs
<1>6. dirs \subseteq dirs' /\ dirs' \subseteq Gens /\ conf' \in [Gens -> SUBSET Routes]
      /\ (job'.pc = "validate" => job.gen \in dirs' /\ conf'[job.gen] = job.want)
  BY <1>2, <1>5 DEF IngressInv, IngressTypeOK
<1>7. IngressTypeOK'
  BY <1>2, <1>3, <1>6 DEF IngressInv, IngressTypeOK, Counted, SameJob
<1>8. JobOwnsRow'
  BY <1>2, <1>4, <1>6 DEF IngressInv, JobOwnsRow, Underway, SameJob
<1>9. JobOwnsDirectory'
  BY <1>2, <1>6 DEF JobOwnsDirectory, SameJob
<1>10. LinkFollows'
  BY <1>2 DEF IngressInv, LinkFollows, FailsAs, ExplainedBefore, SameJob
<1>11. HandshakeIsSound'
  BY <1>2, <1>3 DEF IngressInv, HandshakeIsSound, Told, FailsAs
<1>12. AnswersAreTrue'
  BY <1>2 DEF AnswersAreTrue
<1> QED
  BY <1>2, <1>3, <1>7, <1>8, <1>9, <1>10, <1>11, <1>12 DEF IngressInv

\* The link moves forward or back, or may have moved when the step fails.
LEMMA LinkKeeps ==
    ASSUME IngressInv, Activate \/ Rollback
    PROVE  IngressInv' /\ SameJob /\ Counted
<1>1. job \in Jobs
  BY DEF IngressInv, IngressTypeOK
<1>2. /\ UNCHANGED <<rows, dirs, conf, serving, hup>> /\ SameJob /\ amiss' \in BOOLEAN
      /\ \/ /\ job.pc = "activate" /\ job'.pc = "await" /\ current' = job.gen /\ RequestReload
         \/ /\ job.pc = "activate" /\ job'.pc = "back" /\ current' \in {current, job.gen}
            /\ UNCHANGED handshake
         \/ /\ job.pc = "back" /\ job'.pc = "awaitback" /\ current' = job.prev /\ RequestReload
         \/ /\ job.pc = "back" /\ job'.pc = "fail" /\ job'.status = "rollback_pending"
            /\ current' \in {current, job.prev} /\ UNCHANGED handshake
  <2>1. CASE Activate
    BY <2>1, <1>1, JobGoesOn DEF Activate, ReplaceSymlink, RequestReload, nginx, IngressInv, IngressTypeOK
  <2>2. CASE Rollback
    BY <2>2, <1>1, JobGoesOn DEF Rollback, ReplaceSymlink, RequestReload, nginx, IngressInv, IngressTypeOK
  <2> QED
    BY <2>1, <2>2
<1>3. Counted
  BY StepsCounted DEF IngressInv, Activate, Rollback, ReplaceSymlink
<1>4. Active' = Active /\ Active = job.prev /\ job.pc \in {"activate", "back"}
  BY <1>2 DEF Active, IngressInv, JobOwnsRow, Underway
<1>5. /\ unit' = unit /\ request' \in Tokens /\ complete' \in Tokens
      /\ \/ complete' = "none" /\ request' = "mine" /\ job'.pc \in {"await", "awaitback"}
         \/ UNCHANGED <<request, complete>> /\ job'.pc \in {"back", "fail"}
  BY <1>2 DEF RequestReload, handshake, IngressInv, IngressTypeOK, Tokens
<1>6. job.gen \in dirs /\ job.prev \in dirs \cup {Bootstrap}
  <2>1. job.gen \in dirs
    BY <1>4 DEF IngressInv, JobOwnsDirectory
  <2>2. ActiveIn(rows) # 0 => ActiveIn(rows) \in Gens /\ rows[ActiveIn(rows)] = "active"
    BY ActiveIs DEF IngressInv, IngressTypeOK
  <2>3. Active # 0 => Active \in Gens /\ rows[Active] = "active"
    BY <2>2, ActiveReads
  <2> QED
    BY <2>1, <2>3, <1>4 DEF IngressInv, JobOwnsRow, Bootstrap
<1>7. current' \in dirs \cup {Bootstrap}
  BY <1>2, <1>6 DEF IngressInv, IngressTypeOK
<1>8. IngressTypeOK'
  BY <1>2, <1>3, <1>5, <1>7 DEF IngressInv, IngressTypeOK, Counted, SameJob
<1>9. JobOwnsRow'
  BY <1>2, <1>4 DEF IngressInv, JobOwnsRow, Underway, SameJob
<1>10. JobOwnsDirectory'
  BY <1>2, <1>6 DEF IngressInv, JobOwnsDirectory, SameJob
<1>11. LinkFollows'
  BY <1>2 DEF LinkFollows, FailsAs, SameJob
<1>12. HandshakeIsSound'
  <2>1. request' = "mine" /\ unit' = "signalled" => amiss'
    BY <1>2, <1>4, <1>5 DEF RequestReload, IngressInv, HandshakeIsSound
  <2>2. complete' # "mine"
    BY <1>4, <1>5 DEF IngressInv, HandshakeIsSound
  <2> QED
    BY <2>1, <2>2, <1>2, <1>4, <1>5 DEF IngressInv, HandshakeIsSound, FailsAs
<1>13. AnswersAreTrue'
  BY <1>2 DEF AnswersAreTrue
<1> QED
  BY <1>2, <1>3, <1>8, <1>9, <1>10, <1>11, <1>12, <1>13 DEF IngressInv

\* A failed apply is recorded, or the row stays prepared.
LEMMA RecordFailureKeeps ==
    ASSUME IngressInv, RecordFailure
    PROVE  IngressInv' /\ SameJob /\ Counted
<1>1. job \in Jobs
  BY DEF IngressInv, IngressTypeOK
<1>2. /\ job.pc = "fail" /\ UNCHANGED <<dirs, conf, current, serving, hup, amiss, request, complete, unit>>
      /\ SameJob /\ job'.pc = "answer" /\ job'.ok = FALSE
      /\ rows' = rows \/ rows' = [rows EXCEPT ![job.gen] = job.status]
  BY <1>1, JobGoesOn DEF RecordFailure, disk, nginx, handshake
<1>3. Counted
  BY StepsCounted DEF IngressInv, RecordFailure
<1>4. /\ job.gen \in Gens /\ job.prev < job.gen /\ rows[job.gen] = "prepared" /\ Active = job.prev
      /\ job.status \in {"failed", "rolled_back", "rollback_pending"}
  BY <1>2 DEF IngressInv, JobOwnsRow, LinkFollows, Underway
<1>5. /\ rows' \in [Gens -> Statuses] /\ rows'[job.gen] \in {"prepared", job.status}
      /\ \A g \in Gens : g # job.gen => rows'[g] = rows[g]
  BY <1>2, <1>4 DEF IngressInv, IngressTypeOK, Statuses
<1>6. \A g, k \in Gens : rows'[g] = "active" /\ rows'[k] = "active" => g = k
  BY <1>4, <1>5 DEF IngressInv, IngressTypeOK
<1>7. Active' = Active
  <2>1. {g \in Gens : rows'[g] = "active"} = {g \in Gens : rows[g] = "active"}
    BY <1>4, <1>5
  <2> QED
    BY <2>1 DEF Active
<1>8. IngressTypeOK'
  BY <1>2, <1>3, <1>5, <1>6 DEF IngressInv, IngressTypeOK, Counted, SameJob
<1>9. JobOwnsRow'
  BY <1>2, <1>4, <1>5 DEF IngressInv, JobOwnsRow, Underway, SameJob
<1>10. JobOwnsDirectory'
  BY <1>2 DEF JobOwnsDirectory
<1>11. Explained'
  <2>1. CASE rows'[job.gen] \in Pending
    BY <2>1, <1>4, <1>7 DEF Explained
  <2>2. CASE rows'[job.gen] \notin Pending
    <3>1. job.status \in {"failed", "rolled_back"}
      BY <2>2, <1>4, <1>5 DEF Pending
    <3>2. current = job.prev \/ \E g \in Gens \ {job.gen} : g > job.prev /\ rows[g] \in Pending
      BY <3>1, <1>2 DEF IngressInv, LinkFollows, FailsAs, ExplainedBefore
    <3> QED
      BY <3>2, <1>2, <1>4, <1>5, <1>7 DEF Explained
  <2> QED
    BY <2>1, <2>2
<1>12. LinkFollows'
  BY <1>2, <1>11 DEF LinkFollows, FailsAs
<1>13. HandshakeIsSound'
  BY <1>2, <1>3 DEF IngressInv, HandshakeIsSound, Told, FailsAs
<1>14. AnswersAreTrue'
  <2> SUFFICES ASSUME rows'[job.gen] \in {"failed", "rolled_back"}
               PROVE  job.gen # current /\ (amiss \/ hup \/ job.gen # serving)
    BY <1>2 DEF AnswersAreTrue, SameJob
  <2>1. CASE job.status = "failed"
    BY <2>1, <1>2 DEF IngressInv, LinkFollows, FailsAs
  <2>2. CASE job.status = "rolled_back"
    <3>1. current = job.prev /\ (amiss \/ hup \/ serving = current)
      BY <2>2, <1>2 DEF IngressInv, LinkFollows, HandshakeIsSound, FailsAs, Told
    <3>2. job.prev # job.gen
      BY <1>1, <1>4 DEF Jobs
    <3> QED
      BY <3>1, <3>2
  <2> QED
    BY <2>1, <2>2, <1>5
<1> QED
  BY <1>2, <1>3, <1>8, <1>9, <1>10, <1>12, <1>13, <1>14 DEF IngressInv

\* The generation becomes active, or the transaction fails and its row stays prepared.
LEMMA CommitKeeps ==
    ASSUME IngressInv, CommitGeneration
    PROVE  IngressInv' /\ SameJob /\ Counted
<1>1. job \in Jobs
  BY DEF IngressInv, IngressTypeOK
<1>2. /\ job.pc = "commit" /\ UNCHANGED <<dirs, conf, current, serving, hup, amiss, request, complete, unit>>
      /\ SameJob /\ job'.pc = "answer"
      /\ \/ /\ job'.ok = TRUE
            /\ rows' = [g \in Gens |-> IF g = job.gen THEN "active"
                                       ELSE IF g = job.prev THEN "rolled_back" ELSE rows[g]]
         \/ job'.ok = FALSE /\ rows' = rows
  BY <1>1, JobGoesOn DEF CommitGeneration, disk, nginx, handshake
<1>3. Counted
  BY StepsCounted DEF IngressInv, CommitGeneration
<1>4. /\ job.gen \in Gens /\ job.prev < job.gen /\ rows[job.gen] = "prepared" /\ Active = job.prev
      /\ current = job.gen /\ (amiss \/ Told)
      /\ job.gen \in dirs /\ conf[job.gen] = job.want
  BY <1>2 DEF IngressInv, JobOwnsRow, JobOwnsDirectory, LinkFollows, HandshakeIsSound, Underway
<1>5. \A g \in Gens : rows[g] = "active" => g = job.prev
  <2>1. \A g \in Gens : rows[g] = "active" => ActiveIn(rows) = g
    BY ActiveIs DEF IngressInv, IngressTypeOK
  <2> QED
    BY <2>1, <1>4, ActiveReads
<1>6. HandshakeIsSound'
  BY <1>2, <1>3 DEF IngressInv, HandshakeIsSound, Told, FailsAs
<1>7. JobOwnsDirectory'
  BY <1>2, <1>4 DEF JobOwnsDirectory, SameJob
<1>8. CASE job'.ok = FALSE /\ rows' = rows
  <2>1. Active' = Active
    BY <1>8 DEF Active
  <2>2. IngressTypeOK'
    BY <1>2, <1>3, <1>8 DEF IngressInv, IngressTypeOK, Counted, SameJob
  <2>3. JobOwnsRow'
    BY <1>2, <1>8 DEF IngressInv, JobOwnsRow, Underway, SameJob
  <2>4. LinkFollows'
    <3>1. Explained'
      BY <2>1, <1>4, <1>8 DEF Explained, Pending
    <3> QED
      BY <3>1, <1>2 DEF LinkFollows, FailsAs
  <2>5. AnswersAreTrue'
    BY <1>2, <1>4, <1>8 DEF AnswersAreTrue, SameJob
  <2> QED
    BY <2>2, <2>3, <2>4, <2>5, <1>2, <1>3, <1>6, <1>7 DEF IngressInv
<1>9. CASE /\ job'.ok = TRUE
           /\ rows' = [g \in Gens |-> IF g = job.gen THEN "active"
                                      ELSE IF g = job.prev THEN "rolled_back" ELSE rows[g]]
  <2>1. rows' \in [Gens -> Statuses]
    BY <1>9 DEF IngressInv, IngressTypeOK, Statuses
  <2>2. \A g \in Gens : rows'[g] = "active" <=> g = job.gen
    BY <1>5, <1>9
  <2>3. Active' = job.gen
    <3>1. ActiveIn(rows') = job.gen
      BY <2>1, <2>2, <1>4, ActiveIs
    <3> QED
      BY <3>1, ActiveReads
  <2>4. IngressTypeOK'
    BY <2>1, <2>2, <1>2, <1>3 DEF IngressInv, IngressTypeOK, Counted, SameJob
  <2>5. JobOwnsRow'
    BY <2>2, <1>2, <1>4 DEF JobOwnsRow, Underway, SameJob
  <2>6. LinkFollows'
    <3>1. Explained'
      BY <2>3, <1>2, <1>4 DEF Explained
    <3> QED
      BY <3>1, <1>2 DEF LinkFollows, FailsAs
  <2>7. AnswersAreTrue'
    BY <2>3, <1>2, <1>4, <1>9 DEF AnswersAreTrue, SameJob, Told
  <2> QED
    BY <2>4, <2>5, <2>6, <2>7, <1>2, <1>3, <1>6, <1>7 DEF IngressInv
<1> QED
  BY <1>2, <1>8, <1>9

\* Every step of the apply.
LEMMA ApplyKeeps ==
    ASSUME IngressInv, ApplySteps
    PROVE  IngressInv' /\ SameJob /\ Counted /\ job.pc # "idle" /\ job'.pc # "idle"
<1>1. IngressInv' /\ SameJob /\ Counted
  BY TalkKeeps, PrepareKeeps, LinkKeeps, RecordFailureKeeps, CommitKeeps DEF ApplySteps
<1>2. job \in Jobs /\ job.pc # "idle"
  BY DEF IngressInv, IngressTypeOK, ApplySteps, Prepare, Validate, Activate, AwaitReload, Verify, Rollback,
         AwaitRollback, VerifyRollback, RecordFailure, CommitGeneration
<1>3. job'.pc # "idle"
  BY <1>2, JobGoesOn DEF ApplySteps, Prepare, Validate, Activate, AwaitReload, Verify, Rollback,
         AwaitRollback, VerifyRollback, RecordFailure, CommitGeneration, ReplaceSymlink
<1> QED
  BY <1>1, <1>2, <1>3

\* A handler without an apply is typed.
LEMMA NoJobTyped == NoJob \in Jobs /\ NoJob.pc = "idle"
BY IngressAssumption DEF NoJob, Jobs, Statuses

\* A new apply.
LEMMA ApplyStarts ==
    ASSUME IngressInv, NEW want \in SUBSET Routes, ApplyIngressGeneration(want), Counted
    PROVE  IngressInv' /\ job.pc = "idle" /\ job'.pc # "idle" /\ job'.want = want
<1>1. PICK g : g = NextGeneration
  OBVIOUS
<1>2. PICK a : a = Active
  OBVIOUS
<1>3. /\ job.pc = "idle" /\ g \in Gens
      /\ rows' = [rows EXCEPT ![g] = "prepared"]
      /\ job' = [NoJob EXCEPT !.pc = "prepare", !.want = want, !.gen = g, !.prev = a]
      /\ UNCHANGED <<dirs, conf, current, serving, hup, amiss, request, complete, unit>>
  BY <1>1, <1>2 DEF ApplyIngressGeneration, disk, nginx, handshake
<1>4. /\ g \in Nat \ {0} /\ g \notin dirs /\ \A k \in Gens : rows[k] # "none" => k < g
  BY <1>1, NextIsNew DEF IngressInv
<1>5. /\ a \in 0..MaxGen /\ (a # 0 => a \in Gens /\ rows[a] = "active")
      /\ \A k \in Gens : rows[k] = "active" => k = a
  <2>1. /\ ActiveIn(rows) \in 0..MaxGen
        /\ ActiveIn(rows) # 0 => ActiveIn(rows) \in Gens /\ rows[ActiveIn(rows)] = "active"
        /\ \A k \in Gens : rows[k] = "active" => ActiveIn(rows) = k
    BY ActiveIs DEF IngressInv, IngressTypeOK
  <2> QED
    BY <2>1, <1>2, ActiveReads
<1>6. a < g /\ a # g
  <2>1. CASE a = 0
    BY <2>1, <1>4
  <2>2. CASE a # 0
    BY <2>2, <1>4, <1>5
  <2> QED
    BY <2>1, <2>2, <1>4, <1>5
<1>7. /\ job' \in Jobs /\ job'.pc = "prepare" /\ job'.want = want /\ job'.gen = g /\ job'.prev = a
  <2>1. job' = [pc |-> "prepare", want |-> want, gen |-> g, prev |-> a, status |-> "none", ok |-> FALSE]
    BY <1>3 DEF NoJob
  <2>2. g \in 0..MaxGen /\ a \in 0..MaxGen
    BY <1>3, <1>5, IngressAssumption DEF Gens
  <2> QED
    BY <2>1, <2>2 DEF Jobs, Statuses
<1>8. /\ rows' \in [Gens -> Statuses] /\ rows'[g] = "prepared"
      /\ \A k \in Gens : k # g => rows'[k] = rows[k]
      /\ rows[g] = "none"
  BY <1>3, <1>4 DEF IngressInv, IngressTypeOK, Statuses
<1>9. Active' = a
  <2>1. {k \in Gens : rows'[k] = "active"} = {k \in Gens : rows[k] = "active"}
    BY <1>8
  <2> QED
    BY <2>1, <1>2 DEF Active
<1>10. IngressTypeOK'
  BY <1>3, <1>7, <1>8 DEF IngressInv, IngressTypeOK, Counted
<1>11. JobOwnsRow'
  BY <1>3, <1>6, <1>7, <1>8, <1>9 DEF IngressInv, JobOwnsRow, Underway
<1>12. JobOwnsDirectory'
  BY <1>7 DEF JobOwnsDirectory
<1>13. LinkFollows'
  <2>1. g \notin {current, serving}
    BY <1>4 DEF IngressInv, IngressTypeOK, Bootstrap
  <2>2. current = a \/ \E k \in Gens : k > a /\ rows[k] \in Pending
    BY <1>2, <1>3 DEF IngressInv, LinkFollows, Explained
  <2>3. ExplainedBefore'
    <3>1. CASE current = a
      BY <3>1, <1>3, <1>7 DEF ExplainedBefore
    <3>2. CASE \E k \in Gens : k > a /\ rows[k] \in Pending
      <4>1. PICK k \in Gens : k > a /\ rows[k] \in Pending
        BY <3>2
      <4>2. k # g
        BY <4>1, <1>8 DEF Pending
      <4> QED
        BY <4>1, <4>2, <1>7, <1>8 DEF ExplainedBefore
    <3> QED
      BY <3>1, <3>2, <2>2
  <2> QED
    BY <2>1, <2>3, <1>3, <1>7 DEF LinkFollows, FailsAs
<1>14. HandshakeIsSound'
  BY <1>3, <1>7 DEF IngressInv, HandshakeIsSound, Told, FailsAs
<1>15. AnswersAreTrue'
  BY <1>7 DEF AnswersAreTrue
<1> QED
  BY <1>3, <1>7, <1>10, <1>11, <1>12, <1>13, <1>14, <1>15 DEF IngressInv

\* The apply is over, or the helper stops in the middle of it.
LEMMA JobEnds ==
    ASSUME IngressInv, job' = NoJob, Counted, UNCHANGED <<rows, dirs, conf, current, serving, hup, amiss, unit>>,
           request' \in {request, "late"}, complete' \in {complete, "late"},
           job.pc \in {"idle", "answer"} \/ (request' # "mine" /\ complete' # "mine")
    PROVE  IngressInv'
<1>1. job' \in Jobs /\ job'.pc = "idle"
  BY NoJobTyped
<1>2. Active' = Active
  BY DEF Active
<1>3. request' # "mine" /\ complete' # "mine" /\ request' \in Tokens /\ complete' \in Tokens
  BY DEF IngressInv, HandshakeIsSound, IngressTypeOK, Tokens
<1>4. IngressTypeOK'
  BY <1>1, <1>3 DEF IngressInv, IngressTypeOK, Counted
<1>5. JobOwnsRow' /\ JobOwnsDirectory'
  BY <1>1, <1>2 DEF IngressInv, JobOwnsRow, JobOwnsDirectory, Underway
<1>6. Explained
  <2>1. CASE Underway
    <3>1. /\ job.gen \in Gens /\ job.prev < job.gen /\ rows[job.gen] = "prepared"
          /\ Active = job.prev /\ job \in Jobs
      BY <2>1 DEF IngressInv, JobOwnsRow, Underway, IngressTypeOK
    <3>2. job.gen > Active
      BY <3>1 DEF Jobs
    <3> QED
      BY <3>1, <3>2 DEF Explained, Pending
  <2>2. CASE ~Underway
    BY <2>2 DEF IngressInv, LinkFollows, Underway
  <2> QED
    BY <2>1, <2>2
<1>7. LinkFollows'
  BY <1>1, <1>2, <1>6 DEF LinkFollows, FailsAs, Explained
<1>8. HandshakeIsSound'
  BY <1>1, <1>3 DEF IngressInv, HandshakeIsSound, Told, FailsAs
<1>9. AnswersAreTrue'
  BY <1>1 DEF AnswersAreTrue
<1> QED
  BY <1>4, <1>5, <1>7, <1>8, <1>9 DEF IngressInv

\* The helper stops.
LEMMA HelperStopsKeeps ==
    ASSUME IngressInv, HelperStops, Counted
    PROVE  IngressInv'
<1>1. /\ request' \in {request, "late"} /\ complete' \in {complete, "late"}
      /\ request' # "mine" /\ complete' # "mine"
  BY DEF HelperStops, Late
<1> QED
  BY <1>1, JobEnds DEF HelperStops, disk, nginx

\* A host-state restore withdraws the active generation and the link.
LEMMA RestoreHostStateKeeps ==
    ASSUME IngressInv, RestoreHostState
    PROVE  IngressInv' /\ Counted /\ job' = job
<1>1. PICK last \in 0..MaxGen :
        rows' = [g \in Gens |-> IF g > last THEN "none"
                                ELSE IF rows[g] = "active" THEN "rolled_back" ELSE rows[g]]
  BY DEF RestoreHostState
<1>2. /\ job.pc = "idle" /\ current' = Bootstrap /\ serving' = Bootstrap /\ hup' = FALSE /\ amiss' = FALSE
      /\ request' = "none" /\ complete' = "none" /\ unit' = "idle"
      /\ UNCHANGED <<dirs, conf, job>>
  BY DEF RestoreHostState
<1>3. Counted
  BY StepsCounted DEF IngressInv, RestoreHostState
<1>4. rows' \in [Gens -> Statuses] /\ \A g \in Gens : rows'[g] # "active"
  BY <1>1 DEF IngressInv, IngressTypeOK, Statuses
<1>5. Active' = Bootstrap
  <2>1. ActiveIn(rows') = 0
    BY <1>4, ActiveIs
  <2> QED
    BY <2>1, ActiveReads DEF Bootstrap
<1>6. IngressTypeOK'
  BY <1>2, <1>3, <1>4 DEF IngressInv, IngressTypeOK, Counted, Tokens
<1>7. JobOwnsRow' /\ JobOwnsDirectory'
  BY <1>2, <1>4 DEF JobOwnsRow, JobOwnsDirectory, Underway
<1>8. LinkFollows'
  BY <1>2, <1>5 DEF LinkFollows, FailsAs, Explained
<1>9. HandshakeIsSound' /\ AnswersAreTrue'
  BY <1>2 DEF HandshakeIsSound, AnswersAreTrue, FailsAs
<1> QED
  BY <1>2, <1>3, <1>6, <1>7, <1>8, <1>9 DEF IngressInv

-----------------------------------------------------------------------------
(* The handlers.                                                           *)

\* What a request knows stays true while databases, job and nginx stay.
LEMMA KnowsStays ==
    ASSUME UNCHANGED <<ingressVars, route, held, recorded>>, NEW n, Knows(n)
    PROVE  Knows(n)'
<1>1. UNCHANGED <<conf, current, serving, hup, amiss, job>>
  BY DEF ingressVars, disk, nginx
<1>2. Wanted' = Wanted /\ Enabled' = Enabled
  BY DEF Wanted, Enabled
<1>3. (Applied => Applied') /\ (InTouch => InTouch')
  BY <1>1, <1>2 DEF Applied, InTouch, ServedBy, Told
<1> QED
  BY <1>1, <1>2, <1>3 DEF Knows, Closing

\* The helper goes on while the handlers wait, or nginx hears what is linked.
LEMMA HelperMoves ==
    ASSUME IndInv, IngressInv', UNCHANGED <<apiVars, caller, restoring>>,
           \/ job.pc # "idle" /\ job'.pc # "idle" /\ job'.want = job.want
           \/ UNCHANGED <<job, conf, current>> /\ (amiss \/ Told => (amiss \/ Told)')
    PROVE  IndInv'
<1>1. UNCHANGED <<route, held, recorded, api, caller, restoring>>
  BY DEF apiVars
<1>2. TypeOK'
  BY <1>1 DEF IndInv, TypeOK, IngressInv
<1>3. CallersWait' /\ AloneIsAlone'
  BY <1>1 DEF IndInv, CallersWait, AloneIsAlone, Alone
<1>4. Wanted' = Wanted /\ Enabled' = Enabled
  BY <1>1 DEF Wanted, Enabled
<1>5. (Applied => Applied' /\ current' = current) /\ (InTouch => InTouch')
  <2>1. CASE job.pc # "idle"
    BY <2>1 DEF InTouch, Applied
  <2>2. CASE UNCHANGED <<job, conf, current>> /\ (amiss \/ Told => (amiss \/ Told)')
    BY <2>2, <1>1, <1>4 DEF InTouch, Applied, ServedBy
  <2> QED
    BY <2>1, <2>2
<1>6. RequestsKnow'
  <2> SUFFICES ASSUME NEW x \in Handlers, Alone(x)' PROVE Knows(api[x])'
    BY DEF RequestsKnow
  <2>1. Knows(api[x])
    BY <1>1 DEF IndInv, RequestsKnow, Alone
  <2>2. job'.want = job.want
    OBVIOUS
  <2> QED
    BY <2>1, <2>2, <1>1, <1>4, <1>5 DEF Knows, Closing
<1> QED
  BY <1>2, <1>3, <1>6 DEF IndInv

\* A handler goes on; if it is alone, it knows what it must.
LEMMA HandlerMoves ==
    ASSUME IndInv, NEW h \in Handlers, NEW n \in HandlerStates, api' = [api EXCEPT ![h] = n],
           UNCHANGED <<ingressVars, caller>>, Counted, restoring' \in BOOLEAN,
           route' \in [Routes -> {"absent", "disabled", "enabled"}], held' \subseteq Routes,
           recorded' \in 0..MaxGen, api[h].pc \notin {"idle", "wait"}, n.pc # "wait",
           n.pc # "idle" => n.alone = api[h].alone,
           n.pc # "idle" /\ n.alone => Knows(n)'
    PROVE  IndInv'
<1>1. IngressInv'
  BY IngressRests DEF IndInv
<1>2. /\ api' \in [Handlers -> HandlerStates] /\ api'[h] = n
      /\ \A x \in Handlers : x # h => api'[x] = api[x]
  BY DEF IndInv, TypeOK
<1>3. TypeOK'
  BY <1>1, <1>2 DEF IndInv, TypeOK, IngressInv
<1>4. job' = job
  BY DEF ingressVars
<1>5. CallersWait'
  BY <1>2, <1>4 DEF IndInv, CallersWait
<1>6. ASSUME NEW x \in Handlers, x # h PROVE ~Alone(x)
  BY <1>6 DEF IndInv, AloneIsAlone
<1>7. AloneIsAlone'
  BY <1>2, <1>6 DEF IndInv, AloneIsAlone, Alone
<1>8. RequestsKnow'
  <2> SUFFICES ASSUME NEW x \in Handlers, Alone(x)' PROVE Knows(api[x])'
    BY DEF RequestsKnow
  <2>1. x = h
    BY <1>2, <1>6 DEF Alone
  <2>2. api'[x] = n /\ n.pc # "idle" /\ n.alone
    BY <2>1, <1>2 DEF Alone
  <2>3. Knows(n)'
    BY <2>2
  <2> QED
    BY <2>2, <2>3 DEF Knows, Closing
<1> QED
  BY <1>1, <1>3, <1>5, <1>7, <1>8 DEF IndInv

\* A handler that has no generation yet.
LEMMA ZeroIsTyped == 0 \in 0..MaxGen
BY IngressAssumption

\* A handler without a request is typed.
LEMMA IdleTyped ==
    \A said \in {"none", "ok", "failed", "attention", "accepted"} :
      LET n == [Idle EXCEPT !.reply = said] IN
      n \in HandlerStates /\ n.pc = "idle" /\ n.reply = said
<1> TAKE said \in {"none", "ok", "failed", "attention", "accepted"}
<1>1. PICK n : n = [Idle EXCEPT !.reply = said]
  OBVIOUS
<1>2. n = [pc |-> "idle", kind |-> "none", r |-> {}, mine |-> {}, list |-> {}, left |-> {},
           gen |-> 0, prev |-> 0, stage |-> "none", ok |-> FALSE, alone |-> TRUE, reply |-> said]
  BY <1>1 DEF Idle
<1>3. n \in HandlerStates /\ n.pc = "idle" /\ n.reply = said
  BY <1>2, ZeroIsTyped DEF HandlerStates
<1> QED
  BY <1>1, <1>3

\* A request is answered.
LEMMA Replies ==
    ASSUME IndInv, NEW h \in Handlers, NEW said \in {"ok", "failed", "attention", "accepted"},
           Reply(h, said), UNCHANGED <<ingressVars, caller>>, Counted, restoring' \in BOOLEAN,
           route' \in [Routes -> {"absent", "disabled", "enabled"}], held' \subseteq Routes,
           recorded' = recorded, api[h].pc \notin {"idle", "wait"}
    PROVE  IndInv'
<1>1. PICK n : n = [Idle EXCEPT !.reply = said]
  OBVIOUS
<1>2. n \in HandlerStates /\ n.pc = "idle"
  BY <1>1, IdleTyped
<1>3. api' = [api EXCEPT ![h] = n]
  BY <1>1 DEF Reply
<1>4. recorded' \in 0..MaxGen
  BY DEF IndInv, TypeOK
<1> QED
  BY <1>2, <1>3, <1>4, HandlerMoves

\* A handler begins another apply.
LEMMA AppliesAgain ==
    ASSUME IndInv, NEW h \in Handlers, NEW stage \in {"main", "undo", "open"}, ThenApply(h, stage),
           UNCHANGED <<ingressVars, caller, restoring>>, Counted,
           route' \in [Routes -> {"absent", "disabled", "enabled"}], held' \subseteq Routes,
           recorded' = recorded, api[h].pc \notin {"idle", "wait"},
           api[h].alone => api[h].kind # "delete",
           stage = "main" /\ api[h].alone /\ api[h].kind = "restore" => Wanted' \cap Restored = {}
    PROVE  IndInv'
<1>1. PICK n : n = [api[h] EXCEPT !.pc = "list", !.stage = stage]
  OBVIOUS
<1>2. api[h] \in HandlerStates /\ restoring' \in BOOLEAN /\ recorded' \in 0..MaxGen
  BY DEF IndInv, TypeOK
<1>3. /\ n \in HandlerStates /\ n.pc = "list" /\ n.stage = stage /\ n.kind = api[h].kind
      /\ n.alone = api[h].alone
  BY <1>1, <1>2 DEF HandlerStates
<1>4. api' = [api EXCEPT ![h] = n]
  BY <1>1, <1>2 DEF ThenApply, IndInv, TypeOK, HandlerStates
<1>5. n.alone => Knows(n)'
  BY <1>3 DEF Knows, Closing
<1> QED
  BY <1>2, <1>3, <1>4, <1>5, HandlerMoves

\* A handler goes on to another step and keeps what it has.
LEMMA GoesOn ==
    ASSUME IndInv, NEW h \in Handlers, NEW step \in {"remote", "restore", "restoring", "reopen"},
           Goto(h, step), UNCHANGED <<ingressVars, caller, route, held, recorded>>, Counted,
           restoring' \in BOOLEAN, api[h].pc \notin {"idle", "wait"},
           NEW k, k = [api[h] EXCEPT !.pc = step], api[h].alone => Knows(k)
    PROVE  IndInv'
<1>1. api[h] \in HandlerStates
  BY DEF IndInv, TypeOK
<1>2. k \in HandlerStates /\ k.pc = step /\ k.alone = api[h].alone
  BY <1>1 DEF HandlerStates
<1>3. api' = [api EXCEPT ![h] = k]
  BY <1>1 DEF Goto, IndInv, TypeOK, HandlerStates
<1>4. k.alone => Knows(k)'
  BY <1>2, KnowsStays
<1>5. /\ route' \in [Routes -> {"absent", "disabled", "enabled"}] /\ held' \subseteq Routes
      /\ recorded' \in 0..MaxGen
  BY DEF IndInv, TypeOK
<1> QED
  BY <1>2, <1>3, <1>4, <1>5, HandlerMoves

\* The routes keep their types.
LEMMA RoutesTyped ==
    ASSUME TypeOK, NEW S, NEW state \in {"absent", "disabled", "enabled"}
    PROVE  SetRoutes(S, state) => route' \in [Routes -> {"absent", "disabled", "enabled"}]
BY DEF TypeOK, SetRoutes

\* What a handler at work may rely on.
LEMMA AtWork ==
    ASSUME IndInv, NEW h \in Handlers
    PROVE  /\ api[h] \in HandlerStates /\ restoring \in BOOLEAN
           /\ route \in [Routes -> {"absent", "disabled", "enabled"}] /\ held \subseteq Routes
           /\ api[h].alone /\ api[h].pc # "idle" => Knows(api[h])
           /\ (Fault => Counted) /\ (NoFault => Counted)
BY StepsCounted DEF IndInv, TypeOK, IngressInv, RequestsKnow, Alone

\* Rows are deleted with their holds, or not.
LEMMA RowsTyped ==
    ASSUME TypeOK, NEW S
    PROVE  /\ DeleteRows(S) => /\ route' \in [Routes -> {"absent", "disabled", "enabled"}]
                               /\ held' \subseteq Routes
           /\ UNCHANGED <<route, held>> => /\ route' \in [Routes -> {"absent", "disabled", "enabled"}]
                                           /\ held' \subseteq Routes
BY DEF TypeOK, DeleteRows, SetRoutes

\* Steps that end a request.
LEMMA EndsKeep ==
    ASSUME IndInv, NEW h \in Handlers,
           \/ NotReady(h) \/ CreateFailed(h) \/ RemoteUndone(h) \/ Deleted(h) \/ DeleteFailed(h)
           \/ Reconciled(h) \/ Undone(h) \/ Reopened(h) \/ RestoreAnswerLost(h)
    PROVE  IndInv'
<1>1. /\ restoring \in BOOLEAN /\ TypeOK
      /\ route \in [Routes -> {"absent", "disabled", "enabled"}] /\ held \subseteq Routes
      /\ (Fault => Counted) /\ (NoFault => Counted)
  BY AtWork DEF IndInv
<1>2. UNCHANGED used => Counted
  BY <1>1 DEF NoFault
<1>3. /\ UNCHANGED <<ingressVars, caller, restoring, recorded>> /\ Counted
      /\ api[h].pc \notin {"idle", "wait"}
      /\ \E said \in {"ok", "failed", "attention", "accepted"} : Reply(h, said)
      /\ \/ UNCHANGED <<route, held>>
         \/ DeleteRows(api[h].r)
         \/ held' = held /\ SetRoutes({r \in api[h].r : route[r] # "absent"}, "enabled")
  <2>1. CASE NotReady(h)
    BY <2>1, <1>2 DEF NotReady, inIngress
  <2>2. CASE CreateFailed(h)
    BY <2>2, <1>1 DEF CreateFailed, Attempt, After, inIngress
  <2>3. CASE RemoteUndone(h)
    BY <2>3, <1>2 DEF RemoteUndone, After, inIngress
  <2>4. CASE Deleted(h)
    BY <2>4, <1>1 DEF Deleted, Attempt, After, inIngress
  <2>5. CASE DeleteFailed(h)
    BY <2>5, <1>1 DEF DeleteFailed, Attempt, After, inIngress
  <2>6. CASE Reconciled(h)
    BY <2>6, <1>2 DEF Reconciled, After, inIngress
  <2>7. CASE Undone(h)
    BY <2>7, <1>2 DEF Undone, After, inIngress
  <2>8. CASE Reopened(h)
    BY <2>8, <1>2 DEF Reopened, After, inIngress
  <2>9. CASE RestoreAnswerLost(h)
    BY <2>9, <1>1 DEF RestoreAnswerLost
  <2> QED
    BY <2>1, <2>2, <2>3, <2>4, <2>5, <2>6, <2>7, <2>8, <2>9
<1>4. route' \in [Routes -> {"absent", "disabled", "enabled"}] /\ held' \subseteq Routes
  BY <1>1, <1>3, RowsTyped, RoutesTyped
<1>5. PICK said \in {"ok", "failed", "attention", "accepted"} : Reply(h, said)
  BY <1>3
<1> QED
  BY <1>1, <1>3, <1>4, <1>5, Replies

\* Holds are set or lifted before another apply.
LEMMA HoldsKeep ==
    ASSUME IndInv, NEW h \in Handlers, api[h].pc \notin {"idle", "wait"}, Counted,
           UNCHANGED <<ingressVars, caller, restoring, route, recorded>>,
           held' \in {held, held \cup api[h].mine, held \ api[h].mine},
           api[h].kind \in {"restore", "reconcile"}, ThenApply(h, "undo")
    PROVE  IndInv'
<1>1. /\ api[h] \in HandlerStates /\ restoring' \in BOOLEAN /\ held \subseteq Routes
      /\ route' \in [Routes -> {"absent", "disabled", "enabled"}]
  BY AtWork
<1>2. held' \subseteq Routes
  BY <1>1 DEF HandlerStates
<1> QED
  BY <1>1, <1>2, AppliesAgain

\* Steps that undo what a request did and lead to another apply.
LEMMA AgainKeep ==
    ASSUME IndInv, NEW h \in Handlers, HoldAgain(h) \/ QuiesceFailed(h)
    PROVE  IndInv'
<1>1. (Fault => Counted) /\ (NoFault => Counted)
  BY AtWork
<1>2. CASE HoldAgain(h)
  <2>1. /\ api[h].pc = "answered" /\ api[h].kind \in {"reconcile", "restore"} /\ ThenApply(h, "undo")
        /\ UNCHANGED <<ingressVars, caller, restoring, route, recorded>>
        /\ held' \in {held, held \cup api[h].mine} /\ Counted
    BY <1>1, <1>2 DEF HoldAgain, After, inIngress
  <2> QED
    BY <2>1, HoldsKeep
<1>3. CASE QuiesceFailed(h)
  <2>1. /\ api[h].pc = "answered" /\ api[h].kind = "restore" /\ ThenApply(h, "undo")
        /\ UNCHANGED <<ingressVars, caller, restoring, route, recorded>>
        /\ held' \in {held, held \ api[h].mine} /\ Counted
    BY <1>1, <1>3 DEF QuiesceFailed, Attempt, After, inIngress
  <2> QED
    BY <2>1, HoldsKeep
<1> QED
  BY <1>2, <1>3

\* The holds of a reconciliation go, all of them.
LEMMA ReleaseKeeps ==
    ASSUME IndInv, NEW h \in Handlers, ReleaseHolds(h)
    PROVE  IndInv'
<1>1. /\ (Fault => Counted) /\ (NoFault => Counted) /\ restoring \in BOOLEAN
      /\ route \in [Routes -> {"absent", "disabled", "enabled"}] /\ held \subseteq Routes
      /\ api[h].alone /\ api[h].pc # "idle" => Knows(api[h])
  BY AtWork
<1>2. /\ api[h].pc = "probe" /\ UNCHANGED <<ingressVars, caller, restoring, route, recorded>> /\ Counted
      /\ held' \in {held, {}}
      /\ ThenApply(h, "main") \/ Reply(h, "failed")
  BY <1>1 DEF ReleaseHolds, Attempt, inIngress
<1>3. held' \subseteq Routes
  BY <1>1, <1>2
<1>4. CASE Reply(h, "failed")
  BY <1>1, <1>2, <1>3, <1>4, Replies
<1>5. CASE ThenApply(h, "main")
  <2>1. api[h].alone => api[h].kind = "reconcile"
    BY <1>1, <1>2 DEF Knows
  <2> QED
    BY <2>1, <1>1, <1>2, <1>3, <1>5, AppliesAgain
<1> QED
  BY <1>2, <1>4, <1>5

\* The routes of the installation are put on hold, or the request ends.
LEMMA HoldRoutesKeeps ==
    ASSUME IndInv, NEW h \in Handlers, HoldRoutes(h)
    PROVE  IndInv'
<1>1. /\ (Fault => Counted) /\ (NoFault => Counted) /\ restoring \in BOOLEAN /\ api[h] \in HandlerStates
      /\ route \in [Routes -> {"absent", "disabled", "enabled"}] /\ held \subseteq Routes
      /\ api[h].alone /\ api[h].pc # "idle" => Knows(api[h])
  BY AtWork
<1>2. /\ api[h].pc = "hold" /\ UNCHANGED <<ingressVars, caller, restoring, route, recorded>> /\ Counted
      /\ \/ held' = held \cup api[h].mine /\ ThenApply(h, "main")
         \/ held' = held /\ Reply(h, "failed")
  BY <1>1 DEF HoldRoutes, inIngress
<1>3. CASE held' = held /\ Reply(h, "failed")
  BY <1>1, <1>2, <1>3, Replies
<1>4. CASE held' = held \cup api[h].mine /\ ThenApply(h, "main")
  <2>1. held' \subseteq Routes
    BY <1>1, <1>4 DEF HandlerStates
  <2>2. api[h].alone => api[h].kind = "restore" /\ api[h].mine = Restored \cap Enabled
    BY <1>1, <1>2 DEF Knows
  <2>3. api[h].alone => Wanted' \cap Restored = {}
    BY <2>2, <1>2, <1>4 DEF Wanted, Enabled
  <2> QED
    BY <2>1, <2>2, <2>3, <1>1, <1>2, <1>4, AppliesAgain
<1> QED
  BY <1>2, <1>3, <1>4

\* addCloudflareRemoteRoute.
LEMMA AddRemoteRouteKeeps ==
    ASSUME IndInv, NEW h \in Handlers, AddRemoteRoute(h)
    PROVE  IndInv'
<1>1. /\ api[h] \in HandlerStates /\ restoring \in BOOLEAN
      /\ route \in [Routes -> {"absent", "disabled", "enabled"}] /\ held \subseteq Routes
      /\ api[h].alone /\ api[h].pc # "idle" => Knows(api[h])
      /\ (Fault => Counted) /\ (NoFault => Counted)
  BY AtWork
<1>2. /\ api[h].pc = "remote" /\ UNCHANGED <<recorded, ingressVars, caller, restoring>> /\ Counted
      /\ DeleteRows(api[h].r) \/ UNCHANGED <<route, held>>
      /\ Reply(h, "ok") \/ ThenApply(h, "undo")
  BY <1>1 DEF AddRemoteRoute, inIngress
<1>3. route' \in [Routes -> {"absent", "disabled", "enabled"}] /\ held' \subseteq Routes
  BY <1>2, RowsTyped DEF IndInv
<1>4. CASE Reply(h, "ok")
  BY <1>1, <1>2, <1>3, <1>4, Replies
<1>5. CASE ThenApply(h, "undo")
  <2>1. api[h].alone => api[h].kind = "create"
    BY <1>1, <1>2 DEF Knows
  <2> QED
    BY <2>1, <1>1, <1>2, <1>3, <1>5, AppliesAgain
<1> QED
  BY <1>2, <1>4, <1>5

\* reactivateIngressAfterRestore.
LEMMA ReopenKeeps ==
    ASSUME IndInv, NEW h \in Handlers, Reopen(h)
    PROVE  IndInv'
<1>1. /\ api[h] \in HandlerStates /\ restoring \in BOOLEAN
      /\ route \in [Routes -> {"absent", "disabled", "enabled"}] /\ held \subseteq Routes
      /\ api[h].alone /\ api[h].pc # "idle" => Knows(api[h])
      /\ (NoFault => Counted)
  BY AtWork
<1>2. /\ api[h].pc = "reopen" /\ UNCHANGED <<route, recorded, ingressVars, caller, restoring>> /\ Counted
      /\ \/ held' = held \ api[h].mine /\ ThenApply(h, "open")
         \/ held' = held /\ Reply(h, "failed")
  BY <1>1 DEF Reopen, inIngress, NoFault
<1>3. CASE held' = held /\ Reply(h, "failed")
  BY <1>1, <1>2, <1>3, Replies
<1>4. CASE held' = held \ api[h].mine /\ ThenApply(h, "open")
  <2>1. api[h].alone => api[h].kind = "restore"
    BY <1>1, <1>2 DEF Knows
  <2> QED
    BY <2>1, <1>1, <1>2, <1>4, AppliesAgain
<1> QED
  BY <1>2, <1>3, <1>4

\* A route exists: its remote half is next, or the request is done.
LEMMA CreatedKeeps ==
    ASSUME IndInv, NEW h \in Handlers, Created(h)
    PROVE  IndInv'
<1>1. /\ api[h] \in HandlerStates /\ restoring \in BOOLEAN
      /\ route \in [Routes -> {"absent", "disabled", "enabled"}] /\ held \subseteq Routes
      /\ api[h].alone /\ api[h].pc # "idle" => Knows(api[h])
      /\ (NoFault => Counted)
  BY AtWork
<1>2. /\ api[h].pc = "answered" /\ api[h].kind = "create" /\ api[h].ok = TRUE
      /\ UNCHANGED <<route, held, recorded, ingressVars, caller, restoring>> /\ Counted
      /\ Goto(h, "remote") \/ Reply(h, "ok")
  BY <1>1 DEF Created, After, inIngress, NoFault
<1>3. CASE Reply(h, "ok")
  BY <1>1, <1>2, <1>3, Replies
<1>4. CASE Goto(h, "remote")
  <2>1. PICK k : k = [api[h] EXCEPT !.pc = "remote"]
    OBVIOUS
  <2>2. k.pc = "remote" /\ k.kind = "create"
    BY <2>1, <1>1, <1>2 DEF HandlerStates
  <2>3. api[h].alone => Knows(k)
    BY <2>2, <1>1, <1>2 DEF Knows, Closing
  <2> QED
    BY <2>1, <2>3, <1>1, <1>2, <1>4, GoesOn
<1> QED
  BY <1>2, <1>3, <1>4

\* The routes are out of nginx, the restore may be called.
LEMMA QuiescedKeeps ==
    ASSUME IndInv, NEW h \in Handlers, Quiesced(h)
    PROVE  IndInv'
<1>1. /\ api[h] \in HandlerStates /\ restoring \in BOOLEAN
      /\ api[h].alone /\ api[h].pc # "idle" => Knows(api[h])
      /\ (NoFault => Counted)
  BY AtWork
<1>2. /\ api[h].pc = "answered" /\ api[h].kind = "restore" /\ api[h].stage = "main" /\ api[h].ok = TRUE
      /\ UNCHANGED <<route, held, recorded, ingressVars, caller, restoring>> /\ Counted /\ Goto(h, "restore")
  BY <1>1 DEF Quiesced, After, inIngress, NoFault
<1>3. PICK k : k = [api[h] EXCEPT !.pc = "restore"]
  OBVIOUS
<1>4. k.pc = "restore" /\ k.kind = "restore" /\ k.stage = "main" /\ k.mine = api[h].mine
  BY <1>1, <1>2, <1>3 DEF HandlerStates
<1>5. api[h].alone => Knows(k)
  BY <1>1, <1>2, <1>4 DEF Knows, Closing
<1> QED
  BY <1>1, <1>2, <1>3, <1>5, GoesOn

\* The helper restores, and ends.
LEMMA RestoreKeeps ==
    ASSUME IndInv, NEW h \in Handlers, CallRestore(h) \/ RestoreEnds(h)
    PROVE  IndInv'
<1>1. /\ api[h] \in HandlerStates /\ restoring \in BOOLEAN
      /\ route \in [Routes -> {"absent", "disabled", "enabled"}] /\ held \subseteq Routes
      /\ api[h].alone /\ api[h].pc # "idle" => Knows(api[h])
      /\ (NoFault => Counted)
  BY AtWork
<1>2. /\ UNCHANGED <<route, held, recorded, ingressVars, caller>> /\ Counted /\ restoring' \in BOOLEAN
      /\ \/ api[h].pc \in {"restore", "restoring"} /\ (Reply(h, "failed") \/ Reply(h, "ok"))
         \/ api[h].pc = "restore" /\ Goto(h, "restoring")
         \/ api[h].pc = "restoring" /\ Goto(h, "reopen")
  BY <1>1 DEF CallRestore, RestoreEnds, NoFault
<1>3. CASE api[h].pc \in {"restore", "restoring"} /\ (Reply(h, "failed") \/ Reply(h, "ok"))
  BY <1>1, <1>2, <1>3, Replies
<1>4. ASSUME NEW step \in {"restoring", "reopen"}, Goto(h, step),
             api[h].pc = IF step = "restoring" THEN "restore" ELSE "restoring"
      PROVE  IndInv'
  <2>1. PICK k : k = [api[h] EXCEPT !.pc = step]
    OBVIOUS
  <2>2. /\ k.pc = step /\ k.kind = api[h].kind /\ k.stage = api[h].stage /\ k.mine = api[h].mine
        /\ k.r = api[h].r
    BY <2>1, <1>1 DEF HandlerStates
  <2>3. api[h].alone => Knows(k)
    BY <2>2, <1>1, <1>4 DEF Knows, Closing
  <2> QED
    BY <2>1, <2>3, <1>1, <1>2, <1>4, GoesOn
<1> QED
  BY <1>2, <1>3, <1>4

\* An apply comes to its end for the handler.
LEMMA AnsweredKeeps ==
    ASSUME IndInv, NEW h \in Handlers, NEW ok \in BOOLEAN, Answered(h, ok), Counted,
           UNCHANGED <<ingressVars, caller, restoring, route, held>>, recorded' \in 0..MaxGen,
           api[h].pc \in {"list", "holds", "record"}, ok /\ api[h].alone => InTouch'
    PROVE  IndInv'
<1>1. /\ api[h] \in HandlerStates /\ restoring' \in BOOLEAN
      /\ route' \in [Routes -> {"absent", "disabled", "enabled"}] /\ held' \subseteq Routes
      /\ api[h].alone => Knows(api[h])
  BY AtWork
<1>2. PICK n : n = [api[h] EXCEPT !.pc = "answered", !.ok = ok, !.list = {}, !.left = {},
                                  !.gen = 0, !.prev = 0]
  OBVIOUS
<1>3. /\ n \in HandlerStates /\ n.pc = "answered" /\ n.kind = api[h].kind /\ n.stage = api[h].stage
      /\ n.mine = api[h].mine /\ n.r = api[h].r /\ n.alone = api[h].alone /\ n.ok = ok
  BY <1>1, <1>2, ZeroIsTyped DEF HandlerStates
<1>4. api' = [api EXCEPT ![h] = n]
  BY <1>1, <1>2 DEF Answered, IndInv, TypeOK, HandlerStates
<1>5. Wanted' = Wanted
  BY DEF Wanted, Enabled
<1>6. n.alone => Knows(n)'
  BY <1>1, <1>3, <1>5 DEF Knows, Closing
<1> QED
  BY <1>1, <1>3, <1>4, <1>6, HandlerMoves

\* A handler goes on with reading.
LEMMA ReadsOn ==
    ASSUME IndInv, NEW h \in Handlers, Counted,
           UNCHANGED <<ingressVars, caller, restoring, route, held, recorded>>,
           NEW step, NEW mine \in SUBSET Routes, NEW list \in SUBSET Routes, NEW left \in SUBSET Routes,
           api' = [api EXCEPT ![h].pc = step, ![h].mine = mine, ![h].list = list, ![h].left = left],
           \/ api[h].pc = "probe" /\ step = "probe"
           \/ /\ api[h].pc \in {"list", "holds"} /\ step = "holds" /\ mine = api[h].mine
              /\ api[h].alone => list = Enabled \ (held \ left)
    PROVE  IndInv'
<1>1. /\ api[h] \in HandlerStates /\ restoring' \in BOOLEAN
      /\ route' \in [Routes -> {"absent", "disabled", "enabled"}] /\ held' \subseteq Routes
      /\ api[h].alone => Knows(api[h])
  BY AtWork
<1>2. PICK n : n = [api[h] EXCEPT !.pc = step, !.mine = mine, !.list = list, !.left = left]
  OBVIOUS
<1>3. /\ n \in HandlerStates /\ n.pc = step /\ n.kind = api[h].kind /\ n.stage = api[h].stage
      /\ n.mine = mine /\ n.list = list /\ n.left = left /\ n.r = api[h].r /\ n.alone = api[h].alone
  BY <1>1, <1>2 DEF HandlerStates
<1>4. api' = [api EXCEPT ![h] = n]
  BY <1>1, <1>2 DEF IndInv, TypeOK, HandlerStates
<1>5. n.alone => Knows(n)
  <2>1. CASE api[h].pc = "probe" /\ step = "probe"
    BY <2>1, <1>1, <1>3 DEF Knows, Closing
  <2>2. CASE /\ api[h].pc \in {"list", "holds"} /\ step = "holds" /\ mine = api[h].mine
             /\ api[h].alone => list = Enabled \ (held \ left)
    BY <2>2, <1>1, <1>3 DEF Knows, Closing
  <2> QED
    BY <2>1, <2>2
<1>6. n.alone => Knows(n)'
  BY <1>5, KnowsStays
<1>7. recorded' \in 0..MaxGen
  BY DEF IndInv, TypeOK
<1> QED
  BY <1>1, <1>3, <1>4, <1>6, <1>7, HandlerMoves

\* The hold of a route is read for a reconciliation.
LEMMA ProbeKeeps ==
    ASSUME IndInv, NEW h \in Handlers, ProbeRoute(h)
    PROVE  IndInv'
<1>1. (Fault => Counted) /\ (NoFault => Counted) /\ api[h] \in HandlerStates
  BY AtWork
<1>2. PICK r \in api[h].left :
        Attempt(api' = [api EXCEPT ![h].left = @ \ {r},
                                   ![h].mine = IF r \in held THEN @ \cup {r} ELSE @],
                api' = [api EXCEPT ![h].left = @ \ {r}])
  BY DEF ProbeRoute
<1>3. /\ api[h].pc = "probe" /\ UNCHANGED <<ingressVars, caller, restoring, route, held, recorded>>
      /\ Counted
  BY <1>1, <1>2 DEF ProbeRoute, Attempt, inIngress
<1>4. PICK mine \in SUBSET Routes :
        api' = [api EXCEPT ![h].pc = "probe", ![h].mine = mine, ![h].list = api[h].list,
                           ![h].left = api[h].left \ {r}]
  <2>1. api[h].left \subseteq Routes /\ api[h].mine \subseteq Routes /\ api \in [Handlers -> HandlerStates]
    BY <1>1 DEF HandlerStates, IndInv, TypeOK
  <2>2. CASE api' = [api EXCEPT ![h].left = @ \ {r}, ![h].mine = IF r \in held THEN @ \cup {r} ELSE @]
    <3>1. PICK m : m = IF r \in held THEN api[h].mine \cup {r} ELSE api[h].mine
      OBVIOUS
    <3>2. m \in SUBSET Routes
      BY <3>1, <2>1
    <3>3. api' = [api EXCEPT ![h].left = @ \ {r}, ![h].mine = m]
      BY <2>1, <2>2, <3>1
    <3>4. api' = [api EXCEPT ![h].pc = "probe", ![h].mine = m,
                             ![h].list = api[h].list, ![h].left = api[h].left \ {r}]
      BY <2>1, <3>3, <1>1, <1>3 DEF HandlerStates
    <3> QED
      BY <3>2, <3>4
  <2>3. CASE api' = [api EXCEPT ![h].left = @ \ {r}]
    <3>1. api' = [api EXCEPT ![h].pc = "probe", ![h].mine = api[h].mine,
                             ![h].list = api[h].list, ![h].left = api[h].left \ {r}]
      BY <2>1, <2>3, <1>1, <1>3 DEF HandlerStates
    <3> QED
      BY <3>1, <2>1
  <2> QED
    BY <2>2, <2>3, <1>2 DEF Attempt
<1>5. api[h].list \in SUBSET Routes /\ api[h].left \ {r} \in SUBSET Routes
  BY <1>1 DEF HandlerStates
<1> QED
  BY <1>3, <1>4, <1>5, ReadsOn

\* The routes and their holds are read, or the apply fails or is refused.
LEMMA ListKeeps ==
    ASSUME IndInv, NEW h \in Handlers,
           ListRoutes(h) \/ ReadHold(h) \/ ApplyBusy(h) \/ ApplyRejected(h)
    PROVE  IndInv'
<1>1. /\ (Fault => Counted) /\ (NoFault => Counted) /\ api[h] \in HandlerStates
      /\ api[h].alone /\ api[h].pc # "idle" => Knows(api[h])
      /\ recorded \in 0..MaxGen /\ api \in [Handlers -> HandlerStates]
  BY AtWork DEF IndInv, TypeOK
<1>2. /\ UNCHANGED <<ingressVars, caller, restoring, route, held, recorded>> /\ Counted
      /\ api[h].pc \in {"list", "holds"}
  BY <1>1 DEF ListRoutes, ReadHold, ApplyBusy, ApplyRejected, Refused, Attempt, inIngress
<1>3. ASSUME Answered(h, FALSE) PROVE IndInv'
  BY <1>1, <1>2, <1>3, AnsweredKeeps
<1>4. CASE ListRoutes(h) /\ ~Answered(h, FALSE)
  <2>1. /\ api[h].pc = "list"
        /\ api' = [api EXCEPT ![h].pc = "holds", ![h].list = Enabled, ![h].left = Enabled]
    BY <1>4 DEF ListRoutes, Attempt
  <2>2. api' = [api EXCEPT ![h].pc = "holds", ![h].mine = api[h].mine, ![h].list = Enabled,
                           ![h].left = Enabled]
    BY <2>1, <1>1 DEF HandlerStates
  <2>3. Enabled \in SUBSET Routes /\ api[h].mine \in SUBSET Routes
    BY <1>1 DEF Enabled, HandlerStates
  <2>4. Enabled = Enabled \ (held \ Enabled)
    OBVIOUS
  <2> QED
    BY <2>1, <2>2, <2>3, <2>4, <1>2, ReadsOn
<1>5. CASE ReadHold(h) /\ ~Answered(h, FALSE)
  <2>1. PICK r \in api[h].left : /\ api[h].pc = "holds"
                                 /\ api' = [api EXCEPT ![h].left = @ \ {r}, ![h].list = @ \ (held \cap {r})]
    BY <1>5 DEF ReadHold, Attempt
  <2>2. api' = [api EXCEPT ![h].pc = "holds", ![h].mine = api[h].mine,
                           ![h].list = api[h].list \ (held \cap {r}), ![h].left = api[h].left \ {r}]
    BY <2>1, <1>1 DEF HandlerStates
  <2>3. /\ api[h].mine \in SUBSET Routes /\ api[h].list \ (held \cap {r}) \in SUBSET Routes
        /\ api[h].left \ {r} \in SUBSET Routes
    BY <1>1 DEF HandlerStates
  <2>4. api[h].alone => api[h].list = Enabled \ (held \ api[h].left)
    BY <2>1, <1>1 DEF Knows
  <2>5. api[h].alone => api[h].list \ (held \cap {r}) = Enabled \ (held \ (api[h].left \ {r}))
    BY <2>1, <2>4
  <2>6. PICK list, left : list = api[h].list \ (held \cap {r}) /\ left = api[h].left \ {r}
    OBVIOUS
  <2>7. /\ list \in SUBSET Routes /\ left \in SUBSET Routes
        /\ api[h].alone => list = Enabled \ (held \ left)
        /\ api' = [api EXCEPT ![h].pc = "holds", ![h].mine = api[h].mine, ![h].list = list,
                              ![h].left = left]
    BY <2>2, <2>3, <2>5, <2>6
  <2> QED
    BY <2>1, <2>3, <2>7, <1>2, ReadsOn
<1> QED
  BY <1>3, <1>4, <1>5 DEF ApplyBusy, ApplyRejected, Refused

\* control.db records the generation, or does not.
LEMMA RecordKeeps ==
    ASSUME IndInv, NEW h \in Handlers, RecordGeneration(h)
    PROVE  IndInv'
<1>1. /\ (Fault => Counted) /\ (NoFault => Counted) /\ api[h] \in HandlerStates
      /\ api[h].alone /\ api[h].pc # "idle" => Knows(api[h])
      /\ recorded \in 0..MaxGen
  BY AtWork DEF IndInv, TypeOK
<1>2. /\ api[h].pc = "record" /\ UNCHANGED <<ingressVars, caller, restoring, route, held>> /\ Counted
      /\ \/ recorded' = api[h].gen /\ Answered(h, TRUE)
         \/ recorded' = recorded /\ Answered(h, FALSE)
  BY <1>1 DEF RecordGeneration, inIngress
<1>3. CASE recorded' = recorded /\ Answered(h, FALSE)
  BY <1>1, <1>2, <1>3, AnsweredKeeps
<1>4. CASE recorded' = api[h].gen /\ Answered(h, TRUE)
  <2>1. recorded' \in 0..MaxGen
    BY <1>1, <1>4 DEF HandlerStates
  <2>2. api[h].alone => Applied /\ current = api[h].gen
    BY <1>1, <1>2 DEF Knows
  <2>3. UNCHANGED <<job, conf, current, serving, hup, amiss>>
    BY <1>2 DEF ingressVars, disk, nginx
  <2>4. api[h].alone => InTouch'
    BY <2>2, <2>3, <1>2, <1>4 DEF Applied, InTouch, ServedBy, Told, Wanted, Enabled
  <2> QED
    BY <2>1, <2>4, <1>2, <1>4, AnsweredKeeps
<1> QED
  BY <1>2, <1>3, <1>4

-----------------------------------------------------------------------------
(* Requests arrive, are sent and answered.                                 *)

\* A request arrives: whoever is at work is no longer alone.
LEMMA ArriveKeeps ==
    ASSUME IndInv, NEW h \in Handlers, NEW kind \in AllKinds, NEW S \in SUBSET Routes,
           NEW step \in {"idle", "list", "probe", "hold", "restore"}, NEW mine \in SUBSET Routes,
           NEW left \in SUBSET Routes, Arrive(h, kind, S, step, mine, left),
           route' \in [Routes -> {"absent", "disabled", "enabled"}], held' \subseteq Routes,
           kind = "delete" => \A r \in S : route'[r] = "disabled",
           kind = "restore" /\ mine # {} => step = "hold",
           step = "hold" => kind = "restore" /\ mine = Restored \cap Enabled',
           step = "restore" => kind = "restore" /\ mine = {},
           step = "probe" => kind = "reconcile"
    PROVE  IndInv'
<1>1. PICK b \in BOOLEAN : b = ({x \in Handlers \ {h} : api[x].pc # "idle"} = {})
  OBVIOUS
<1>2. PICK n : n = [Idle EXCEPT !.pc = step, !.kind = kind, !.r = S, !.mine = mine,
                                !.left = left, !.stage = "main", !.alone = b]
  OBVIOUS
<1>3. /\ n \in HandlerStates /\ n.pc = step /\ n.kind = kind /\ n.r = S /\ n.mine = mine
      /\ n.stage = "main" /\ (n.alone <=> b)
  <2>1. n = [pc |-> step, kind |-> kind, r |-> S, mine |-> mine, list |-> {}, left |-> left,
             gen |-> 0, prev |-> 0, stage |-> "main", ok |-> FALSE, alone |-> b, reply |-> "none"]
    BY <1>2 DEF Idle
  <2> QED
    BY <2>1, IngressAssumption DEF HandlerStates
<1>4. /\ api[h].pc = "idle" /\ UNCHANGED <<ingressVars, caller, restoring, recorded>>
      /\ api' = [x \in Handlers |-> IF x = h THEN n
                                    ELSE [api[x] EXCEPT !.alone = @ /\ api[x].pc = "idle"]]
  BY <1>1, <1>2 DEF Arrive, inIngress
<1>5. Counted /\ job' = job
  <2>1. /\ used \in [faults : Nat, requests : Nat]
        /\ \E k \in {used.faults, used.faults + 1} :
             used' = [used EXCEPT !.requests = @ + 1, !.faults = k]
    BY DEF Arrive, IndInv, IngressInv, IngressTypeOK
  <2>2. PICK k \in {used.faults, used.faults + 1} : used' = [used EXCEPT !.requests = @ + 1, !.faults = k]
    BY <2>1
  <2>3. k \in Nat /\ used.requests + 1 \in Nat
    BY <2>1, <2>2
  <2> QED
    BY <2>1, <2>2, <2>3, <1>4 DEF Counted, ingressVars
<1>6. IngressInv'
  BY <1>4, <1>5, IngressRests DEF IndInv
<1>7. ASSUME NEW x \in Handlers, x # h
      PROVE  /\ api'[x] \in HandlerStates /\ api'[x].pc = api[x].pc
             /\ api'[x].alone => api[x].pc = "idle"
  <2>1. api[x] \in HandlerStates
    BY DEF IndInv, TypeOK
  <2>2. api'[x] = [api[x] EXCEPT !.alone = api[x].alone /\ api[x].pc = "idle"]
    BY <1>4, <1>7, <2>1 DEF HandlerStates
  <2> QED
    BY <2>1, <2>2 DEF HandlerStates
<1>8. api'[h] = n /\ api' \in [Handlers -> HandlerStates]
  <2>1. api'[h] = n
    BY <1>4
  <2>2. \A x \in Handlers : api'[x] \in HandlerStates
    BY <2>1, <1>3, <1>7
  <2> QED
    BY <2>1, <2>2, <1>4
<1>9. TypeOK'
  BY <1>4, <1>6, <1>8 DEF IndInv, TypeOK, IngressInv
<1>10. CallersWait'
  BY <1>3, <1>4, <1>5, <1>7, <1>8 DEF IndInv, CallersWait
<1>11. AloneIsAlone'
  <2> SUFFICES ASSUME NEW x \in Handlers, NEW y \in Handlers, Alone(x)', y # x
               PROVE  api'[y].pc = "idle"
    BY DEF AloneIsAlone
  <2>1. x = h
    BY <1>7 DEF Alone
  <2>2. b
    BY <2>1, <1>3, <1>8 DEF Alone
  <2>3. api[y].pc = "idle"
    BY <2>1, <2>2, <1>1
  <2> QED
    BY <2>1, <2>3, <1>7
<1>12. RequestsKnow'
  <2> SUFFICES ASSUME NEW x \in Handlers, Alone(x)' PROVE Knows(api[x])'
    BY DEF RequestsKnow
  <2>1. x = h
    BY <1>7 DEF Alone
  <2> QED
    BY <2>1, <1>3, <1>8 DEF Knows, Closing
<1> QED
  BY <1>6, <1>9, <1>10, <1>11, <1>12 DEF IndInv

\* Every request that may arrive.
LEMMA RequestsKeep ==
    ASSUME IndInv, NEW h \in Handlers,
           \/ CreateRoute(h) \/ CreateDisabledRoute(h) \/ DeleteRoute(h)
           \/ ReconcileIngress(h) \/ RestoreApplication(h)
    PROVE  IndInv'
<1>1. route \in [Routes -> {"absent", "disabled", "enabled"}] /\ held \subseteq Routes
  BY AtWork
<1>2. \A r \in Routes : {r} \in SUBSET Routes
  OBVIOUS
<1>3. {} \in SUBSET Routes
  OBVIOUS
<1>4. CASE CreateRoute(h)
  <2>1. PICK r \in Routes : SetRoutes({r}, "enabled") /\ held' = held /\ Arrive(h, "create", {r}, "list", {}, {})
    BY <1>4 DEF CreateRoute
  <2>2. route' \in [Routes -> {"absent", "disabled", "enabled"}]
    BY <2>1, RoutesTyped DEF IndInv
  <2>3. "create" \in AllKinds
    BY DEF AllKinds
  <2> QED
    BY <2>1, <2>2, <2>3, <1>1, <1>2, <1>3, ArriveKeeps
<1>5. CASE CreateDisabledRoute(h)
  <2>1. PICK r \in Routes : /\ SetRoutes({r}, "disabled") /\ held' = held
                            /\ Arrive(h, "create_disabled", {r}, "idle", {}, {})
    BY <1>5 DEF CreateDisabledRoute
  <2>2. route' \in [Routes -> {"absent", "disabled", "enabled"}]
    BY <2>1, RoutesTyped DEF IndInv
  <2>3. "create_disabled" \in AllKinds
    BY DEF AllKinds
  <2> QED
    BY <2>1, <2>2, <2>3, <1>1, <1>2, <1>3, ArriveKeeps
<1>6. CASE DeleteRoute(h)
  <2>1. PICK r \in Routes : SetRoutes({r}, "disabled") /\ held' = held /\ Arrive(h, "delete", {r}, "list", {}, {})
    BY <1>6 DEF DeleteRoute
  <2>2. route' \in [Routes -> {"absent", "disabled", "enabled"}] /\ \A x \in {r} : route'[x] = "disabled"
    BY <2>1, <1>1 DEF SetRoutes
  <2>3. "delete" \in AllKinds
    BY DEF AllKinds
  <2> QED
    BY <2>1, <2>2, <2>3, <1>1, <1>2, <1>3, ArriveKeeps
<1>7. CASE ReconcileIngress(h)
  <2>1. UNCHANGED <<route, held>> /\ Arrive(h, "reconcile", {}, "probe", {}, Enabled)
    BY <1>7 DEF ReconcileIngress
  <2>2. "reconcile" \in AllKinds
    BY DEF AllKinds
  <2>3. Enabled \in SUBSET Routes
    BY DEF Enabled
  <2> QED
    BY <2>1, <2>2, <2>3, <1>1, <1>3, ArriveKeeps
<1>8. CASE RestoreApplication(h)
  <2>1. PICK mine : mine = Restored \cap Enabled
    OBVIOUS
  <2>2. PICK step : step = IF mine = {} THEN "restore" ELSE "hold"
    OBVIOUS
  <2>3. route' = route /\ held' = held /\ Arrive(h, "restore", {}, step, mine, {})
    BY <2>1, <2>2, <1>8 DEF RestoreApplication
  <2>4. mine \in SUBSET Routes /\ step \in {"hold", "restore"}
    BY <2>1, <2>2, IngressAssumption
  <2>5. mine = Restored \cap Enabled'
    BY <2>1, <2>3 DEF Enabled
  <2>6. "restore" \in AllKinds
    BY DEF AllKinds
  <2> QED
    BY <2>2, <2>3, <2>4, <2>5, <2>6, <1>1, <1>3, ArriveKeeps
<1> QED
  BY <1>4, <1>5, <1>6, <1>7, <1>8

\* The helper takes the routes the handler read.
LEMMA SendKeeps ==
    ASSUME IndInv, NEW h \in Handlers, SendApply(h)
    PROVE  IndInv'
<1>1. /\ api[h].pc = "holds" /\ api[h].left = {} /\ ApplyIngressGeneration(api[h].list) /\ caller' = {h}
      /\ api' = [api EXCEPT ![h].pc = "wait", ![h].list = {}]
      /\ UNCHANGED <<route, held, recorded, restoring, used>>
  BY DEF SendApply
<1>2. /\ api[h] \in HandlerStates /\ Counted
      /\ api[h].alone => Knows(api[h])
  BY <1>1, AtWork DEF NoFault
<1>3. IngressInv' /\ job.pc = "idle" /\ job'.pc # "idle" /\ job'.want = api[h].list
  <2>1. api[h].list \in SUBSET Routes
    BY <1>2 DEF HandlerStates
  <2> QED
    BY <2>1, <1>1, <1>2, ApplyStarts DEF IndInv
<1>4. PICK n : n = [api[h] EXCEPT !.pc = "wait", !.list = {}]
  OBVIOUS
<1>5. /\ n \in HandlerStates /\ n.pc = "wait" /\ n.kind = api[h].kind /\ n.stage = api[h].stage
      /\ n.mine = api[h].mine /\ n.r = api[h].r /\ n.alone = api[h].alone
  BY <1>4, <1>2 DEF HandlerStates
<1>6. /\ api' \in [Handlers -> HandlerStates] /\ api'[h] = n
      /\ \A x \in Handlers : x # h => api'[x] = api[x]
  BY <1>1, <1>2, <1>4, <1>5 DEF IndInv, TypeOK, HandlerStates
<1>7. TypeOK'
  BY <1>1, <1>3, <1>6 DEF IndInv, TypeOK, IngressInv
<1>8. CallersWait'
  <2>1. caller = {}
    BY <1>3 DEF IndInv, CallersWait
  <2> QED
    BY <2>1, <1>1, <1>3, <1>5, <1>6 DEF IndInv, CallersWait
<1>9. ASSUME NEW x \in Handlers, x # h PROVE ~Alone(x)
  BY <1>1, <1>9 DEF IndInv, AloneIsAlone
<1>10. AloneIsAlone'
  BY <1>1, <1>5, <1>6, <1>9 DEF IndInv, AloneIsAlone, Alone
<1>11. RequestsKnow'
  <2> SUFFICES ASSUME NEW x \in Handlers, Alone(x)' PROVE Knows(api[x])'
    BY DEF RequestsKnow
  <2>1. x = h
    BY <1>6, <1>9 DEF Alone
  <2>2. Knows(api[h])
    BY <2>1, <1>2, <1>5, <1>6 DEF Alone
  <2>3. Wanted' = Wanted
    BY <1>1 DEF Wanted, Enabled
  <2>4. job'.want = Wanted'
    BY <2>2, <2>3, <1>1, <1>3 DEF Knows, Wanted
  <2> QED
    BY <2>1, <2>2, <2>3, <2>4, <1>1, <1>5, <1>6 DEF Knows, Closing
<1> QED
  BY <1>3, <1>7, <1>8, <1>10, <1>11 DEF IndInv

\* A handler that waits is answered, by the helper, its silence or its death; the
\* others go on, or those in a restore end.
LEMMA AnswerKeeps ==
    ASSUME IndInv, IngressInv', UNCHANGED <<route, held, recorded>>, restoring' \in BOOLEAN,
           UNCHANGED <<conf, current, serving, hup, amiss>>, caller' = {}, NEW ok \in BOOLEAN,
           ok => job.pc = "answer" /\ job.ok /\ job'.pc = "idle",
           job' = job \/ job'.pc = "idle",
           api' \in [Handlers -> HandlerStates],
           \A x \in caller :
             /\ api'[x].kind = api[x].kind /\ api'[x].stage = api[x].stage /\ api'[x].mine = api[x].mine
             /\ api'[x].r = api[x].r /\ api'[x].alone = api[x].alone
             /\ IF ok THEN api'[x].pc = "record" /\ api'[x].gen = job.gen
                ELSE api'[x].pc = "answered" /\ ~api'[x].ok,
           \A x \in Handlers \ caller :
             api'[x] = api[x] \/ (api[x].pc = "restoring" /\ api'[x].pc = "idle")
    PROVE  IndInv'
<1>1. Wanted' = Wanted /\ Enabled' = Enabled
  BY DEF Wanted, Enabled
<1>2. \A x \in caller : api[x].pc = "wait" /\ x \in Handlers
  BY DEF IndInv, TypeOK, CallersWait
<1>3. ASSUME NEW x \in Handlers, x \notin caller
      PROVE  api[x].pc # "wait" /\ (api'[x].pc # "idle" => api'[x] = api[x])
             /\ (api[x].pc = "idle" => api'[x].pc = "idle")
  BY <1>3 DEF IndInv, CallersWait
<1>4. TypeOK'
  BY DEF IndInv, TypeOK, IngressInv
<1>5. CallersWait'
  BY <1>2, <1>3 DEF CallersWait
<1>6. AloneIsAlone'
  <2> SUFFICES ASSUME NEW x \in Handlers, NEW y \in Handlers, Alone(x)', y # x
               PROVE  api'[y].pc = "idle"
    BY DEF AloneIsAlone
  <2>1. Alone(x)
    BY <1>2, <1>3 DEF Alone
  <2>2. api[y].pc = "idle"
    BY <2>1 DEF IndInv, AloneIsAlone
  <2> QED
    BY <2>2, <1>2, <1>3
<1>7. RequestsKnow'
  <2> SUFFICES ASSUME NEW x \in Handlers, Alone(x)' PROVE Knows(api[x])'
    BY DEF RequestsKnow
  <2>1. Knows(api[x])
    BY <1>2, <1>3 DEF IndInv, RequestsKnow, Alone
  <2>2. CASE x \in caller
    <3>1. ok => Applied' /\ current' = job.gen
      <4> SUFFICES ASSUME ok PROVE Applied' /\ current' = job.gen
        OBVIOUS
      <4>1. job.want = Wanted
        BY <2>1, <2>2, <1>2 DEF Knows
      <4>2. /\ job.pc = "answer" /\ job.ok /\ current = job.gen /\ (amiss \/ Told)
            /\ conf[job.gen] = job.want /\ job.gen \in Gens
        BY DEF IndInv, IngressInv, AnswersAreTrue, JobOwnsDirectory, JobOwnsRow
      <4>3. job.gen # Bootstrap
        BY <4>2, NotBootstrap
      <4> QED
        BY <4>1, <4>2, <4>3, <1>1 DEF Applied, ServedBy, Told
    <3>2. Closing(api[x])' => Closing(api[x])
      BY <2>2, <1>2 DEF Closing
    <3> QED
      BY <3>1, <3>2, <2>1, <2>2, <1>1, <1>2 DEF Knows
  <2>3. CASE x \notin caller
    <3>1. api'[x] = api[x] /\ api[x].pc # "wait"
      BY <2>3, <1>3 DEF Alone
    <3>2. (Applied => Applied') /\ (InTouch => InTouch')
      BY <1>1 DEF Applied, InTouch, ServedBy, Told
    <3> QED
      BY <3>1, <3>2, <2>1, <1>1 DEF Knows, Closing
  <2> QED
    BY <2>2, <2>3
<1> QED
  BY <1>4, <1>5, <1>6, <1>7 DEF IndInv

\* The helper's answer reaches the handler.
LEMMA TakeAnswerKeeps ==
    ASSUME IndInv, TakeAnswer
    PROVE  IndInv'
<1>1. /\ job.pc = "answer" /\ caller' = {} /\ job' = NoJob
      /\ UNCHANGED <<rows, dirs, conf, current, serving, hup, amiss, request, complete, unit, route, held,
                     recorded, restoring, used>>
  BY DEF TakeAnswer, disk, nginx, handshake
<1>2. PICK ok \in BOOLEAN : ok = job.ok
  BY DEF IndInv, IngressInv, IngressTypeOK, Jobs
<1>3. Counted
  BY <1>1, StepsCounted DEF IndInv, IngressInv, NoFault
<1>4. IngressInv'
  BY <1>1, <1>3, JobEnds DEF IndInv
<1>5. job'.pc = "idle" /\ restoring' \in BOOLEAN
  BY <1>1, NoJobTyped DEF IndInv, TypeOK
<1>6. api' = [h \in Handlers |->
                IF h \notin caller THEN api[h]
                ELSE IF ok THEN [api[h] EXCEPT !.pc = "record", !.gen = job.gen, !.prev = job.prev]
                ELSE [api[h] EXCEPT !.pc = "answered", !.ok = FALSE]]
  BY <1>2 DEF TakeAnswer
<1>7. api \in [Handlers -> HandlerStates] /\ caller \subseteq Handlers
      /\ job.gen \in 0..MaxGen /\ job.prev \in 0..MaxGen
  BY DEF IndInv, TypeOK, IngressTypeOK, Jobs
<1>8. ASSUME NEW x \in caller
      PROVE  /\ api'[x] \in HandlerStates
             /\ api'[x].kind = api[x].kind /\ api'[x].stage = api[x].stage /\ api'[x].mine = api[x].mine
             /\ api'[x].r = api[x].r /\ api'[x].alone = api[x].alone
             /\ IF ok THEN api'[x].pc = "record" /\ api'[x].gen = job.gen
                ELSE api'[x].pc = "answered" /\ ~api'[x].ok
  <2>1. api[x] \in HandlerStates /\ x \in Handlers
    BY <1>7
  <2>2. CASE ok
    <3>1. api'[x] = [api[x] EXCEPT !.pc = "record", !.gen = job.gen, !.prev = job.prev]
      BY <2>1, <2>2, <1>6
    <3> QED
      BY <3>1, <2>1, <2>2, <1>7 DEF HandlerStates
  <2>3. CASE ~ok
    <3>1. api'[x] = [api[x] EXCEPT !.pc = "answered", !.ok = FALSE]
      BY <2>1, <2>3, <1>6
    <3> QED
      BY <3>1, <2>1, <2>3 DEF HandlerStates
  <2> QED
    BY <2>2, <2>3
<1>9. \A x \in Handlers \ caller : api'[x] = api[x]
  BY <1>6
<1>10. api' \in [Handlers -> HandlerStates]
  <2>1. \A x \in Handlers : api'[x] \in HandlerStates
    BY <1>7, <1>8, <1>9
  <2>2. api' = [x \in Handlers |-> api'[x]]
    BY <1>6
  <2> QED
    BY <2>1, <2>2
<1> QED
  BY <1>1, <1>2, <1>4, <1>5, <1>8, <1>9, <1>10, AnswerKeeps

\* The answer is lost and the apply goes on.
LEMMA LoseAnswerKeeps ==
    ASSUME IndInv, NEW h \in Handlers, LoseAnswer(h)
    PROVE  IndInv'
<1>1. /\ h \in caller /\ caller' = {} /\ UNCHANGED <<ingressVars, route, held, recorded, restoring>>
      /\ api' = [api EXCEPT ![h].pc = "answered", ![h].ok = FALSE, ![h].list = {}, ![h].left = {},
                            ![h].gen = 0, ![h].prev = 0]
  BY DEF LoseAnswer, Answered
<1>2. /\ Counted /\ UNCHANGED <<conf, current, serving, hup, amiss, job>> /\ restoring' \in BOOLEAN
  BY <1>1, AtWork DEF LoseAnswer, ingressVars, disk, nginx
<1>3. IngressInv'
  BY <1>1, <1>2, IngressRests DEF IndInv
<1>4. PICK n : n = [api[h] EXCEPT !.pc = "answered", !.ok = FALSE, !.list = {}, !.left = {},
                                  !.gen = 0, !.prev = 0]
  OBVIOUS
<1>5. /\ n \in HandlerStates /\ n.pc = "answered" /\ ~n.ok /\ n.kind = api[h].kind
      /\ n.stage = api[h].stage /\ n.mine = api[h].mine /\ n.r = api[h].r /\ n.alone = api[h].alone
  BY <1>4, AtWork, ZeroIsTyped DEF HandlerStates
<1>6. api' = [api EXCEPT ![h] = n] /\ api \in [Handlers -> HandlerStates]
  BY <1>1, <1>4 DEF IndInv, TypeOK, HandlerStates
<1>7. api' \in [Handlers -> HandlerStates] /\ api'[h] = n /\ \A x \in Handlers : x # h => api'[x] = api[x]
  BY <1>5, <1>6
<1>8. \A x \in caller : x = h
  BY <1>1 DEF IndInv, CallersWait
<1>9. \A x \in Handlers \ caller : api'[x] = api[x]
  BY <1>1, <1>7
<1>10. \A x \in caller :
         /\ api'[x].kind = api[x].kind /\ api'[x].stage = api[x].stage /\ api'[x].mine = api[x].mine
         /\ api'[x].r = api[x].r /\ api'[x].alone = api[x].alone
         /\ api'[x].pc = "answered" /\ ~api'[x].ok
  BY <1>5, <1>7, <1>8
<1> QED
  BY <1>1, <1>2, <1>3, <1>7, <1>9, <1>10, AnswerKeeps

\* The helper dies: its caller has no answer and the requests it restored for end.
LEMMA HelperCrashesKeeps ==
    ASSUME IndInv, HelperCrashes
    PROVE  IndInv'
<1>1. /\ Fault /\ HelperStops /\ restoring' = FALSE /\ caller' = {} /\ UNCHANGED <<route, held, recorded>>
      /\ api' = [h \in Handlers |->
                 IF h \in caller THEN [api[h] EXCEPT !.pc = "answered", !.ok = FALSE]
                 ELSE IF api[h].pc = "restoring" THEN [Idle EXCEPT !.reply = "accepted"]
                 ELSE api[h]]
  BY DEF HelperCrashes
<1>2. Counted /\ UNCHANGED <<conf, current, serving, hup, amiss>> /\ job' = NoJob
  BY <1>1, StepsCounted DEF IndInv, IngressInv, HelperStops, disk, nginx
<1>3. IngressInv' /\ job'.pc = "idle"
  BY <1>1, <1>2, HelperStopsKeeps, NoJobTyped DEF IndInv
<1>4. PICK n : n = [Idle EXCEPT !.reply = "accepted"]
  OBVIOUS
<1>5. n \in HandlerStates /\ n.pc = "idle"
  BY <1>4, IdleTyped
<1>6. api' = [h \in Handlers |->
                 IF h \in caller THEN [api[h] EXCEPT !.pc = "answered", !.ok = FALSE]
                 ELSE IF api[h].pc = "restoring" THEN n ELSE api[h]]
  BY <1>1, <1>4
<1>7. api \in [Handlers -> HandlerStates] /\ caller \subseteq Handlers
  BY DEF IndInv, TypeOK
<1>8. ASSUME NEW x \in caller
      PROVE  /\ api'[x] \in HandlerStates
             /\ api'[x].kind = api[x].kind /\ api'[x].stage = api[x].stage /\ api'[x].mine = api[x].mine
             /\ api'[x].r = api[x].r /\ api'[x].alone = api[x].alone
             /\ api'[x].pc = "answered" /\ ~api'[x].ok
  <2>1. api[x] \in HandlerStates /\ x \in Handlers
    BY <1>7
  <2>2. api'[x] = [api[x] EXCEPT !.pc = "answered", !.ok = FALSE]
    BY <2>1, <1>6
  <2> QED
    BY <2>1, <2>2 DEF HandlerStates
<1>9. ASSUME NEW x \in Handlers \ caller
      PROVE  /\ api'[x] \in HandlerStates
             /\ api'[x] = api[x] \/ (api[x].pc = "restoring" /\ api'[x].pc = "idle")
  BY <1>5, <1>6, <1>7
<1>10. api' \in [Handlers -> HandlerStates]
  <2>1. \A x \in Handlers : api'[x] \in HandlerStates
    BY <1>8, <1>9
  <2>2. api' = [x \in Handlers |-> api'[x]]
    BY <1>6
  <2> QED
    BY <2>1, <2>2
<1> QED
  BY <1>1, <1>2, <1>3, <1>8, <1>9, <1>10, AnswerKeeps

\* When every handler is idle there is nothing to know.
LEMMA AllIdleKeeps ==
    ASSUME IndInv, IngressInv', api' \in [Handlers -> HandlerStates],
           \A h \in Handlers : api'[h].pc = "idle", caller' = {}, UNCHANGED route,
           held' \subseteq Routes, recorded' \in 0..MaxGen, restoring' \in BOOLEAN
    PROVE  IndInv'
<1>1. TypeOK'
  BY DEF IndInv, TypeOK, IngressInv
<1>2. CallersWait' /\ AloneIsAlone' /\ RequestsKnow'
  BY DEF CallersWait, AloneIsAlone, RequestsKnow, Alone
<1> QED
  BY <1>1, <1>2 DEF IndInv

\* The API dies, the helper goes on.
LEMMA ApiCrashesKeeps ==
    ASSUME IndInv, ApiCrashes
    PROVE  IndInv'
<1>1. Counted
  BY StepsCounted DEF IndInv, IngressInv, ApiCrashes
<1>2. IngressInv'
  BY <1>1, IngressRests DEF IndInv, ApiCrashes
<1>3. Idle \in HandlerStates /\ Idle.pc = "idle"
  BY ZeroIsTyped DEF Idle, HandlerStates
<1>4. api' = [h \in Handlers |-> Idle] /\ caller' = {} /\ UNCHANGED <<route, held, recorded, restoring>>
  BY DEF ApiCrashes
<1>5. api' \in [Handlers -> HandlerStates] /\ \A h \in Handlers : api'[h].pc = "idle"
  BY <1>3, <1>4
<1>6. restoring' \in BOOLEAN /\ held' \subseteq Routes /\ recorded' \in 0..MaxGen
  BY <1>4 DEF IndInv, TypeOK
<1> QED
  BY <1>2, <1>4, <1>5, <1>6, AllIdleKeeps

\* The host is restored offline.
LEMMA HostRestoredKeeps ==
    ASSUME IndInv, HostRestored
    PROVE  IndInv'
<1>1. IngressInv'
  BY RestoreHostStateKeeps DEF IndInv, HostRestored
<1>2. UNCHANGED <<route, api, caller, restoring>> /\ \A h \in Handlers : api[h].pc = "idle"
  BY DEF HostRestored
<1>3. caller' = {}
  BY <1>2 DEF IndInv, TypeOK, CallersWait
<1>4. api' \in [Handlers -> HandlerStates] /\ restoring' \in BOOLEAN /\ \A h \in Handlers : api'[h].pc = "idle"
  BY <1>2 DEF IndInv, TypeOK
<1>5. held' \subseteq Routes /\ recorded' \in 0..MaxGen
  <2>1. (held' = held \cup Enabled /\ recorded' = 0) \/ UNCHANGED <<held, recorded>>
    BY DEF HostRestored
  <2>2. held \subseteq Routes /\ recorded \in 0..MaxGen /\ Enabled \subseteq Routes
    BY DEF IndInv, TypeOK, Enabled
  <2> QED
    BY <2>1, <2>2, ZeroIsTyped
<1> QED
  BY <1>1, <1>2, <1>3, <1>4, <1>5, AllIdleKeeps

\* A restore ends that nobody waits for.
LEMMA RestoreEndsUnseenKeeps ==
    ASSUME IndInv, RestoreEndsUnseen
    PROVE  IndInv'
<1>1. UNCHANGED <<ingressVars, used, route, held, recorded, api, caller>> /\ restoring' = FALSE
  BY DEF RestoreEndsUnseen, apiVars
<1>2. Counted
  BY <1>1, StepsCounted DEF IndInv, IngressInv, NoFault
<1>3. IngressInv'
  BY <1>1, <1>2, IngressRests DEF IndInv
<1>4. TypeOK'
  BY <1>1, <1>3 DEF IndInv, TypeOK, IngressInv
<1>5. CallersWait' /\ AloneIsAlone'
  BY <1>1 DEF IndInv, CallersWait, AloneIsAlone, Alone, ingressVars
<1>6. RequestsKnow'
  <2> SUFFICES ASSUME NEW x \in Handlers, Alone(x)' PROVE Knows(api[x])'
    BY DEF RequestsKnow
  <2>1. Knows(api[x]) /\ api'[x] = api[x]
    BY <1>1 DEF IndInv, RequestsKnow, Alone
  <2>2. PICK n : n = api[x]
    OBVIOUS
  <2>3. Knows(n)'
    BY <1>1, <2>1, <2>2, KnowsStays
  <2> QED
    BY <2>1, <2>2, <2>3 DEF Knows, Closing
<1> QED
  BY <1>3, <1>4, <1>5, <1>6 DEF IndInv

\* The helper, nginx and the reload unit.
LEMMA HelperKeeps ==
    ASSUME IndInv, ApplySteps \/ RuntimeSteps, UNCHANGED <<apiVars, caller, restoring>>
    PROVE  IndInv'
<1>1. CASE ApplySteps
  BY <1>1, ApplyKeeps, HelperMoves DEF IndInv, SameJob
<1>2. CASE RuntimeSteps
  <2>1. IngressInv' /\ UNCHANGED <<job, conf, current>> /\ (amiss \/ Told => (amiss \/ Told)')
    BY <1>2, RuntimeKeeps DEF IndInv
  <2> QED
    BY <2>1, HelperMoves
<1> QED
  BY <1>1, <1>2

\* What a handler's step leaves in its record, and that it touches no other record.
LEMMA OwnRecord ==
    ASSUME IndInv, NEW h \in Handlers
    PROVE  /\ \A said \in {"ok", "failed", "attention", "accepted"} :
                Reply(h, said) => api'[h].reply = said
           /\ \A step : Goto(h, step) => api'[h].pc = step
           /\ \A stage : ThenApply(h, stage) => api'[h].pc = "list"
           /\ \A ok : Answered(h, ok) => api'[h].pc = "answered"
           /\ ListRoutes(h) => api'[h].pc # "idle"
           /\ ReadHold(h) => api'[h].pc # "idle"
           /\ ProbeRoute(h) => api'[h].pc = "probe"
           /\ SendApply(h) => api'[h].pc = "wait"
<1>1. api \in [Handlers -> HandlerStates] /\ api[h] \in HandlerStates
  BY DEF IndInv, TypeOK
<1>2. ASSUME NEW said \in {"ok", "failed", "attention", "accepted"}, Reply(h, said)
      PROVE  api'[h].reply = said
  <2>1. PICK n : n = [Idle EXCEPT !.reply = said]
    OBVIOUS
  <2>2. n.reply = said
    BY <2>1 DEF Idle
  <2>3. api' = [api EXCEPT ![h] = n]
    BY <2>1, <1>2 DEF Reply
  <2> QED
    BY <2>2, <2>3, <1>1
<1>3. ASSUME NEW step, Goto(h, step) PROVE api'[h].pc = step
  BY <1>1, <1>3 DEF Goto, HandlerStates
<1>4. ASSUME NEW stage, ThenApply(h, stage) PROVE api'[h].pc = "list"
  BY <1>1, <1>4 DEF ThenApply, HandlerStates
<1>5. ASSUME NEW ok, Answered(h, ok) PROVE api'[h].pc = "answered"
  BY <1>1, <1>5 DEF Answered, HandlerStates
<1>6. ASSUME ListRoutes(h) PROVE api'[h].pc # "idle"
  <2>1. \/ api' = [api EXCEPT ![h].pc = "holds", ![h].list = Enabled, ![h].left = Enabled]
        \/ Answered(h, FALSE)
    BY <1>6 DEF ListRoutes, Attempt
  <2>2. CASE Answered(h, FALSE)
    BY <2>2, <1>5
  <2>3. CASE api' = [api EXCEPT ![h].pc = "holds", ![h].list = Enabled, ![h].left = Enabled]
    BY <2>3, <1>1 DEF HandlerStates
  <2> QED
    BY <2>1, <2>2, <2>3
<1>7. ASSUME SendApply(h) PROVE api'[h].pc = "wait"
  BY <1>1, <1>7 DEF SendApply, HandlerStates
<1>8. ASSUME ReadHold(h) PROVE api'[h].pc # "idle"
  BY <1>1, <1>5, <1>8 DEF ReadHold, Attempt, HandlerStates
<1>9. ASSUME ProbeRoute(h) PROVE api'[h].pc = "probe"
  <2>1. PICK r : \/ \E mine : api' = [api EXCEPT ![h].left = @ \ {r}, ![h].mine = mine]
                 \/ api' = [api EXCEPT ![h].left = @ \ {r}]
    BY <1>9 DEF ProbeRoute, Attempt
  <2> QED
    BY <2>1, <1>1, <1>9 DEF ProbeRoute, HandlerStates
<1> QED
  BY <1>2, <1>3, <1>4, <1>5, <1>6, <1>7, <1>8, <1>9

\* A handler's step does not end another's request.
LEMMA OthersGoOn ==
    ASSUME IndInv, NEW h \in Handlers, NEW x \in Handlers, x # h, Handle(x)
    PROVE  api'[h].pc = api[h].pc
<1>1. api \in [Handlers -> HandlerStates] /\ api[h] \in HandlerStates
  BY DEF IndInv, TypeOK
<1>2. ASSUME NEW kind, NEW S, NEW step, NEW mine, NEW left, Arrive(x, kind, S, step, mine, left)
      PROVE  api'[h].pc = api[h].pc
  <2>1. api'[h] = [api[h] EXCEPT !.alone = api[h].alone /\ api[h].pc = "idle"]
    BY <1>2 DEF Arrive
  <2> QED
    BY <2>1, <1>1 DEF HandlerStates
<1>3. CASE \/ CreateRoute(x) \/ CreateDisabledRoute(x) \/ DeleteRoute(x)
           \/ ReconcileIngress(x) \/ RestoreApplication(x)
  BY <1>2, <1>3 DEF CreateRoute, CreateDisabledRoute, DeleteRoute, ReconcileIngress, RestoreApplication
<1>4. CASE \/ ReleaseHolds(x) \/ HoldRoutes(x) \/ NotReady(x) \/ Created(x) \/ CreateFailed(x) \/ AddRemoteRoute(x)
           \/ RemoteUndone(x) \/ Deleted(x) \/ DeleteFailed(x) \/ Reconciled(x) \/ HoldAgain(x)
           \/ Quiesced(x) \/ QuiesceFailed(x) \/ Undone(x) \/ CallRestore(x) \/ RestoreEnds(x)
           \/ RestoreAnswerLost(x) \/ Reopen(x) \/ Reopened(x)
  <2>1. \/ \E said : Reply(x, said)
        \/ \E step : Goto(x, step)
        \/ \E stage : ThenApply(x, stage)
    BY <1>4 DEF Attempt, ReleaseHolds, HoldRoutes, NotReady, Created, CreateFailed, AddRemoteRoute, RemoteUndone, Deleted,
         DeleteFailed, Reconciled, HoldAgain, Quiesced, QuiesceFailed, Undone, CallRestore, RestoreEnds,
         RestoreAnswerLost, Reopen, Reopened
  <2>2. CASE \E said : Reply(x, said)
    <3>1. PICK said : Reply(x, said)
      BY <2>2
    <3>2. PICK n : api' = [api EXCEPT ![x] = n]
      BY <3>1 DEF Reply
    <3> QED
      BY <3>2, <1>1
  <2>3. CASE \E step : Goto(x, step)
    BY <2>3, <1>1 DEF Goto
  <2>4. CASE \E stage : ThenApply(x, stage)
    BY <2>4, <1>1 DEF ThenApply
  <2> QED
    BY <2>1, <2>2, <2>3, <2>4
<1>5. CASE \/ ListRoutes(x) \/ ReadHold(x) \/ RecordGeneration(x) \/ SendApply(x) \/ ApplyBusy(x)
           \/ ApplyRejected(x) \/ LoseAnswer(x)
  BY <1>1, <1>5 DEF Attempt, ListRoutes, ReadHold, RecordGeneration, SendApply, ApplyBusy, ApplyRejected,
       LoseAnswer, Refused, Answered
<1>6. CASE ProbeRoute(x)
  <2>1. PICK n : api' = [api EXCEPT ![x] = n]
    BY <1>6 DEF ProbeRoute, Attempt
  <2> QED
    BY <2>1, <1>1
<1> QED
  BY <1>3, <1>4, <1>5, <1>6 DEF Handle

\* Success is said of a request whose last apply was confirmed and recorded, in a step
\* that leaves the ingress alone and removes at most the route of a deletion.
LEMMA SuccessFrom ==
    ASSUME IndInv, Next, NEW h \in Handlers, api[h].pc # "idle", api'[h].pc = "idle",
           api'[h].reply = "ok", api[h].alone, api[h].kind = "restore" => api[h].mine # {}
    PROVE  /\ UNCHANGED <<conf, current, serving, hup, amiss, recorded>> /\ InTouch
           /\ UNCHANGED <<route, held>> \/ (api[h].kind = "delete" /\ DeleteRows(api[h].r))
<1>1. api \in [Handlers -> HandlerStates] /\ api[h] \in HandlerStates /\ Knows(api[h])
  BY DEF IndInv, TypeOK, RequestsKnow, Alone
<1>2. CASE Handle(h)
  <2>1. ~(\/ CreateRoute(h) \/ CreateDisabledRoute(h) \/ DeleteRoute(h)
          \/ ReconcileIngress(h) \/ RestoreApplication(h))
    BY DEF CreateRoute, CreateDisabledRoute, DeleteRoute, ReconcileIngress, RestoreApplication, Arrive
  <2>2. ~(\/ ProbeRoute(h) \/ ListRoutes(h) \/ ReadHold(h) \/ RecordGeneration(h) \/ SendApply(h)
          \/ ApplyBusy(h) \/ ApplyRejected(h) \/ LoseAnswer(h))
    BY OwnRecord DEF RecordGeneration, ApplyBusy, ApplyRejected, LoseAnswer, Refused
  <2>3. ~(\/ ReleaseHolds(h) \/ HoldRoutes(h) \/ NotReady(h) \/ CreateFailed(h) \/ RemoteUndone(h) \/ DeleteFailed(h)
          \/ HoldAgain(h) \/ Quiesced(h) \/ QuiesceFailed(h) \/ Undone(h) \/ CallRestore(h)
          \/ RestoreAnswerLost(h) \/ Reopen(h))
    BY OwnRecord DEF Attempt, ReleaseHolds, HoldRoutes, NotReady, CreateFailed, RemoteUndone, DeleteFailed, HoldAgain,
         Quiesced, QuiesceFailed, Undone, CallRestore, RestoreAnswerLost, Reopen
  <2>4. CASE Created(h) \/ Reconciled(h) \/ Reopened(h)
    <3>1. api[h].pc = "answered" /\ api[h].ok /\ UNCHANGED <<ingressVars, route, held, recorded>>
      BY <2>4 DEF Created, Reconciled, Reopened, After, inIngress
    <3> QED
      BY <3>1, <1>1 DEF Knows, ingressVars, disk, nginx
  <2>5. CASE AddRemoteRoute(h)
    <3>1. api[h].pc = "remote" /\ UNCHANGED <<ingressVars, route, held, recorded>>
      BY <2>5, OwnRecord DEF AddRemoteRoute, inIngress
    <3> QED
      BY <3>1, <1>1 DEF Knows, ingressVars, disk, nginx
  <2>6. CASE Deleted(h)
    <3>1. /\ api[h].pc = "answered" /\ api[h].ok /\ api[h].kind = "delete"
          /\ UNCHANGED <<ingressVars, recorded>> /\ DeleteRows(api[h].r)
      BY <2>6, OwnRecord DEF Deleted, Attempt, After, inIngress
    <3> QED
      BY <3>1, <1>1 DEF Knows, ingressVars, disk, nginx
  <2>7. ~RestoreEnds(h)
    <3> SUFFICES ASSUME RestoreEnds(h) PROVE FALSE
      OBVIOUS
    <3>1. api[h].pc = "restoring" /\ api[h].mine = {}
      BY OwnRecord DEF RestoreEnds
    <3> QED
      BY <3>1, <1>1 DEF Knows
  <2> QED
    BY <1>2, <2>1, <2>2, <2>3, <2>4, <2>5, <2>6, <2>7 DEF Handle
<1>3. ~(\E x \in Handlers : x # h /\ Handle(x))
  BY OthersGoOn
<1>4. ~((ApplySteps \/ RuntimeSteps) /\ UNCHANGED <<apiVars, caller, restoring>>)
  BY DEF apiVars
<1>5. ~TakeAnswer
  <2> SUFFICES ASSUME TakeAnswer PROVE FALSE
    OBVIOUS
  <2>1. api'[h] = IF h \notin caller THEN api[h]
                  ELSE IF job.ok THEN [api[h] EXCEPT !.pc = "record", !.gen = job.gen, !.prev = job.prev]
                  ELSE [api[h] EXCEPT !.pc = "answered", !.ok = FALSE]
    BY DEF TakeAnswer
  <2>2. CASE h \in caller
    <3>1. \/ api'[h] = [api[h] EXCEPT !.pc = "record", !.gen = job.gen, !.prev = job.prev]
          \/ api'[h] = [api[h] EXCEPT !.pc = "answered", !.ok = FALSE]
      BY <2>1, <2>2
    <3> QED
      BY <3>1, <1>1 DEF HandlerStates
  <2>3. CASE h \notin caller
    BY <2>1, <2>3
  <2> QED
    BY <2>2, <2>3
<1>6. ~(RestoreEndsUnseen \/ HostRestored)
  BY DEF RestoreEndsUnseen, HostRestored, apiVars
<1>7. ~HelperCrashes
  <2> SUFFICES ASSUME HelperCrashes PROVE FALSE
    OBVIOUS
  <2>1. PICK n : n = [Idle EXCEPT !.reply = "accepted"]
    OBVIOUS
  <2>2. n.reply = "accepted"
    BY <2>1 DEF Idle
  <2>3. api' = [x \in Handlers |->
                 IF x \in caller THEN [api[x] EXCEPT !.pc = "answered", !.ok = FALSE]
                 ELSE IF api[x].pc = "restoring" THEN n ELSE api[x]]
    BY <2>1 DEF HelperCrashes
  <2>4. CASE h \in caller
    <3>1. api'[h] = [api[h] EXCEPT !.pc = "answered", !.ok = FALSE]
      BY <2>3, <2>4
    <3> QED
      BY <3>1, <1>1 DEF HandlerStates
  <2>5. CASE h \notin caller
    BY <2>2, <2>3, <2>5
  <2> QED
    BY <2>4, <2>5
<1>8. ~ApiCrashes
  <2>1. Idle.reply = "none"
    BY DEF Idle
  <2> QED
    BY <2>1 DEF ApiCrashes
<1> QED
  BY <1>2, <1>3, <1>4, <1>5, <1>6, <1>7, <1>8 DEF Next

-----------------------------------------------------------------------------
(* The theorems.                                                           *)

\* The initial states are sound: a fresh host, or one that serves the routes of
\* the installation.
LEMMA InitIsSound == Init => IndInv
<1> SUFFICES ASSUME Init PROVE IndInv
  OBVIOUS
<1>1. PICK S \in {{}, Restored} :
        IngressInit(S) /\ route = [r \in Routes |-> IF r \in S THEN "enabled" ELSE "absent"]
  BY DEF Init
<1>2. PICK first : first = IF S = {} THEN Bootstrap ELSE 1
  OBVIOUS
<1>3. /\ rows = [g \in Gens |-> IF g = first THEN "active" ELSE "none"]
      /\ dirs = {first} \ {Bootstrap} /\ conf = [g \in Gens |-> IF g = first THEN S ELSE {}]
      /\ current = first /\ serving = first /\ hup = FALSE /\ amiss = FALSE
      /\ request = "none" /\ complete = "none" /\ unit = "idle" /\ job = NoJob
  BY <1>1, <1>2 DEF IngressInit
<1>4. S \in SUBSET Routes /\ (first = Bootstrap \/ first \in Gens)
  <2>1. 1 \in Gens
    BY IngressAssumption DEF Gens
  <2> QED
    BY <2>1, <1>1, <1>2, IngressAssumption
<1>5. used = [faults |-> 0, requests |-> 0]
  BY DEF Init
<1>6. job \in Jobs /\ job.pc = "idle"
  BY <1>3, NoJobTyped
<1>7. IngressTypeOK
  <2>1. rows \in [Gens -> Statuses] /\ \A g, k \in Gens : rows[g] = "active" /\ rows[k] = "active" => g = k
    BY <1>3 DEF Statuses
  <2>2. dirs \subseteq Gens /\ conf \in [Gens -> SUBSET Routes] /\ {current, serving} \subseteq dirs \cup {Bootstrap}
    BY <1>3, <1>4
  <2>3. used \in [faults : Nat, requests : Nat]
    BY <1>5
  <2> QED
    BY <2>1, <2>2, <2>3, <1>3, <1>6 DEF IngressTypeOK, Tokens
<1>8. Active = first
  <2>1. /\ ActiveIn(rows) # 0 => ActiveIn(rows) \in Gens /\ rows[ActiveIn(rows)] = "active"
        /\ \A g \in Gens : rows[g] = "active" => ActiveIn(rows) = g
    BY <1>7, ActiveIs DEF IngressTypeOK
  <2>2. CASE first \in Gens
    BY <2>1, <2>2, <1>3, ActiveReads
  <2>3. CASE first = Bootstrap
    <3>1. \A g \in Gens : rows[g] # "active"
      BY <2>3, <1>3, NotBootstrap
    <3>2. ActiveIn(rows) = 0
      BY <3>1, <2>1
    <3> QED
      BY <3>2, <2>3, ActiveReads DEF Bootstrap
  <2> QED
    BY <2>2, <2>3, <1>4
<1>9. IngressInv
  <2>1. JobOwnsRow
    BY <1>3, <1>6, NotBootstrap DEF JobOwnsRow, Underway
  <2>2. JobOwnsDirectory /\ HandshakeIsSound /\ AnswersAreTrue
    BY <1>3, <1>6 DEF JobOwnsDirectory, HandshakeIsSound, AnswersAreTrue, FailsAs
  <2>3. LinkFollows
    BY <1>3, <1>6, <1>8 DEF LinkFollows, Explained, FailsAs
  <2> QED
    BY <2>1, <2>2, <2>3, <1>7 DEF IngressInv
<1>10. Idle \in HandlerStates /\ Idle.pc = "idle"
  BY ZeroIsTyped DEF Idle, HandlerStates
<1>11. /\ held = {} /\ recorded = current /\ api = [h \in Handlers |-> Idle] /\ caller = {} /\ restoring = FALSE
       /\ route \in [Routes -> {"absent", "disabled", "enabled"}]
  BY <1>1 DEF Init
<1>12. TypeOK
  <2>1. recorded \in 0..MaxGen
    BY <1>3, <1>4, <1>11, ZeroIsTyped, IngressAssumption DEF Gens, Bootstrap
  <2> QED
    BY <2>1, <1>7, <1>10, <1>11 DEF TypeOK
<1>13. CallersWait /\ AloneIsAlone /\ RequestsKnow
  BY <1>10, <1>11 DEF CallersWait, AloneIsAlone, RequestsKnow, Alone
<1> QED
  BY <1>9, <1>12, <1>13 DEF IndInv

\* A step that changes nothing.
LEMMA StutterKeeps ==
    ASSUME IndInv, UNCHANGED vars
    PROVE  IndInv'
<1>1. UNCHANGED <<ingressVars, used, apiVars, caller, restoring>>
  BY DEF vars
<1>2. Counted
  BY <1>1, StepsCounted DEF IndInv, IngressInv, NoFault
<1>3. IngressInv' /\ UNCHANGED <<job, conf, current, serving, hup, amiss>>
  BY <1>1, <1>2, IngressRests DEF IndInv, ingressVars, disk, nginx
<1>4. amiss \/ Told => (amiss \/ Told)'
  BY <1>3 DEF Told
<1> QED
  BY <1>1, <1>3, <1>4, HelperMoves

\* Every step keeps the invariant.
LEMMA StepKeeps == IndInv /\ [Next]_vars => IndInv'
<1> SUFFICES ASSUME IndInv, [Next]_vars PROVE IndInv'
  OBVIOUS
<1>1. ASSUME NEW h \in Handlers, Handle(h) PROVE IndInv'
  BY <1>1, RequestsKeep, AgainKeep, ReleaseKeeps, HoldRoutesKeeps, ProbeKeeps, EndsKeep, ListKeeps,
     RecordKeeps, SendKeeps, LoseAnswerKeeps, CreatedKeeps, AddRemoteRouteKeeps, QuiescedKeeps, RestoreKeeps, ReopenKeeps DEF Handle
<1>2. CASE (ApplySteps \/ RuntimeSteps) /\ UNCHANGED <<apiVars, caller, restoring>>
  BY <1>2, HelperKeeps
<1>3. CASE TakeAnswer \/ RestoreEndsUnseen \/ HelperCrashes \/ ApiCrashes \/ HostRestored
  BY <1>3, TakeAnswerKeeps, RestoreEndsUnseenKeeps, HelperCrashesKeeps, ApiCrashesKeeps, HostRestoredKeeps
<1>4. CASE UNCHANGED vars
  BY <1>4, StutterKeeps
<1> QED
  BY <1>1, <1>2, <1>3, <1>4 DEF Next

\* The invariant of managed ingress (alpha14.go, ingress.go, transaction.go): what
\* the rows, the link and nginx have to do with each step of an apply, and what a
\* request that runs alone knows of them.
THEOREM Invariance == Spec => []IndInv
<1> QED
  BY InitIsSound, StepKeeps, PTL DEF Spec

\* The variables keep their types, at most one row is active, and the link and
\* nginx name directories that exist (ingress.go:40-126).
THEOREM TypeCorrect == Spec => []TypeOK
<1>1. IndInv => TypeOK
  BY DEF IndInv
<1> QED
  BY <1>1, Invariance, PTL

\* When the helper is idle, a link away from the active generation has left its mark
\* in a row, whatever failed or crashed (transaction.go:63-73, ingress.go:92-126).
THEOREM LinkIsExplained == Spec => []DivergenceIsRecorded
<1>1. IndInv => DivergenceIsRecorded
  BY DEF IndInv, IngressInv, LinkFollows, Explained, Pending, DivergenceIsRecorded
<1> QED
  BY <1>1, Invariance, PTL

\* The helper's answer is true of the link, of the rows and of what nginx was told
\* to load (transaction.go:39-73).
THEOREM AnswersHold == Spec => []AnswersAreTrue
<1>1. IndInv => AnswersAreTrue
  BY DEF IndInv, IngressInv
<1> QED
  BY <1>1, Invariance, PTL

\* A restore that runs alone has its routes out of the linked configuration, which
\* nginx was told to load (alpha14.go:284-310).
THEOREM RestoreIsQuiet == Spec => []QuietDuringRestore
<1>1. IndInv => QuietDuringRestore
  <2> SUFFICES ASSUME IndInv, NEW h \in Handlers, api[h].pc = "restoring", api[h].alone,
                      api[h].mine # {}
               PROVE  ServedBy(current) \cap Restored = {} /\ (amiss \/ Told)
    BY DEF QuietDuringRestore
  <2>1. Knows(api[h])
    BY DEF IndInv, RequestsKnow, Alone
  <2>2. ServedBy(current) = Wanted /\ (amiss \/ Told)
    BY <2>1 DEF Knows, InTouch, Applied
  <2>3. Wanted \cap Restored = {}
    BY <2>1 DEF Knows, Closing
  <2> QED
    BY <2>2, <2>3
<1> QED
  BY <1>1, Invariance, PTL

\* A request that succeeds, alone, leaves the link at exactly the enabled routes that
\* are not on hold, control.db with that generation, and nginx told to load it
\* (alpha14.go:40-187, 239-282).
THEOREM SuccessHolds == Spec => SuccessIsDelivered
<1> DEFINE A == \A h \in Handlers :
                  /\ api[h].pc # "idle" /\ api'[h].pc = "idle" /\ api'[h].reply = "ok"
                  /\ api[h].alone /\ (api[h].kind = "restore" => api[h].mine # {})
                  => /\ ServedBy(current)' = Wanted' /\ recorded' = current'
                     /\ (amiss \/ Told)'
<1>1. IndInv /\ [Next]_vars => [A]_vars
  <2> SUFFICES ASSUME IndInv, Next, NEW h \in Handlers, api[h].pc # "idle", api'[h].pc = "idle",
                      api'[h].reply = "ok", api[h].alone,
                      api[h].kind = "restore" => api[h].mine # {}
               PROVE  /\ ServedBy(current)' = Wanted' /\ recorded' = current'
                      /\ (amiss \/ Told)'
    OBVIOUS
  <2>1. Knows(api[h]) /\ api[h] \in HandlerStates
    BY DEF IndInv, RequestsKnow, Alone, TypeOK
  <2>2. /\ UNCHANGED <<conf, current, serving, hup, amiss, recorded>> /\ InTouch
        /\ UNCHANGED <<route, held>> \/ (api[h].kind = "delete" /\ DeleteRows(api[h].r))
    BY SuccessFrom
  <2>3. ServedBy(current)' = Wanted /\ recorded' = current' /\ (amiss \/ Told)'
    BY <2>2 DEF ServedBy, InTouch, Applied, Told
  <2>4. Wanted' = Wanted
    <3>1. CASE UNCHANGED <<route, held>>
      BY <3>1 DEF Wanted, Enabled
    <3>2. CASE api[h].kind = "delete" /\ DeleteRows(api[h].r)
      <4>1. \A r \in api[h].r : route[r] = "disabled"
        BY <3>2, <2>1 DEF Knows
      <4> QED
        BY <3>2, <4>1 DEF Wanted, Enabled, DeleteRows, SetRoutes
    <3> QED
      BY <3>1, <3>2, <2>2
  <2> QED
    BY <2>3, <2>4
<1> QED
  BY <1>1, Invariance, PTL DEF Spec, SuccessIsDelivered
=============================================================================
