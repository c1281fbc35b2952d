------------------------- MODULE IngressGenerations -------------------------
(***************************************************************************)
(* The helper's half of managed ingress (kitpro-helper/ingress.go and      *)
(* internal/ingress): a set of routes becomes a new generation directory,  *)
(* nginx checks it, the symbolic link `current' moves to it, a systemd     *)
(* unit reloads nginx, and the row of the generation becomes active; a     *)
(* failure after the link has moved puts the previous generation back.     *)
(*                                                                         *)
(* The reload is a handshake of files.  The helper publishes a random      *)
(* token as the request and waits for it in the acknowledgement; a systemd *)
(* unit sends nginx a signal and then renames request to acknowledgement.  *)
(* nginx reads the linked configuration when it gets to the signal, before *)
(* or after the acknowledgement, and keeps the old one if it refuses it.   *)
(* A token is "mine" while the helper waits for it and "late" when it has  *)
(* given up.                                                               *)
(*                                                                         *)
(* ManagedIngress puts the API's handlers on top of these steps.           *)
(***************************************************************************)
EXTENDS Integers, FiniteSets, FiniteSetsExt

CONSTANTS Routes,     \* the routes that may exist
          MaxGen,     \* ingress generations
          MaxFaults   \* failing calls, file operations and transactions, lost answers,
                      \* crashes, refused reloads, host-state restores, and requests
                      \* that overlap another

Gens == 1..MaxGen
Bootstrap == 0     \* the packaged configuration without routes

VARIABLES
  rows,      \* helper.db: the status of each ingress generation
  dirs,      \* the generation directories on disk
  conf,      \* the routes in the configuration of each
  current,   \* where the link points
  serving,   \* the generation nginx has loaded
  hup,       \* nginx has a signal to reload that it has not come to
  amiss,     \* since its last load nginx refused one, or a request was published
             \* between the signal and the acknowledgement of an earlier one
  request, complete, unit,   \* the reload request, its acknowledgement, the unit
  job,       \* the ApplyIngressGeneration the helper runs
  used       \* how much of each bound is spent

disk == <<dirs, conf, current>>
nginx == <<serving, hup, amiss>>
handshake == <<request, complete, unit>>
ingressVars == <<rows, disk, nginx, handshake, job>>

NoJob == [pc |-> "idle", want |-> {}, gen |-> 0, prev |-> 0, status |-> "none", ok |-> FALSE]

Fault == used.faults < MaxFaults /\ used' = [used EXCEPT !.faults = @ + 1]
NoFault == UNCHANGED used

\* RenderNginx: one server per route, and a default server that refuses every
\* other name; the bootstrap configuration has only the latter.
ServedBy(g) == IF g = Bootstrap THEN {} ELSE conf[g]
Served == ServedBy(serving)
Active == Max({0} \cup {g \in Gens : rows[g] = "active"})

----------------------------------------------------------------------------
(* nginx and the reload unit.                                              *)

\* nginx reads the configuration the link names, or refuses it and goes on with
\* the one it has.
NginxLoads ==
    /\ hup /\ hup' = FALSE /\ serving' = current /\ amiss' = FALSE
    /\ UNCHANGED <<rows, disk, handshake, job, used>>

NginxRefuses ==
    /\ hup /\ hup' = FALSE /\ amiss' = TRUE /\ Fault
    /\ UNCHANGED <<rows, disk, serving, handshake, job>>

\* ExecStart: systemctl reload, which is kill -HUP and does not wait for nginx.
UnitSignals ==
    /\ request # "none" /\ unit = "idle" /\ unit' = "signalled"
    /\ hup' = TRUE
    /\ UNCHANGED <<rows, disk, serving, amiss, request, complete, job, used>>

\* ExecStartPost: mv -T request complete.
UnitAcknowledges ==
    /\ unit = "signalled" /\ unit' = "idle"
    /\ complete' = request /\ request' = "none"
    /\ UNCHANGED <<rows, disk, nginx, job, used>>

\* requestReload: the old acknowledgement goes, the new request replaces the old.
\* A unit that has sent its signal acknowledges the new one in place of the old.
RequestReload ==
    /\ complete' = "none" /\ request' = "mine" /\ UNCHANGED <<unit, serving, hup>>
    /\ amiss' = (amiss \/ unit = "signalled")

\* The acknowledgement is in: it is consumed.
Acknowledged == complete = "mine" /\ complete' = "none" /\ UNCHANGED <<request, unit>>

\* 15 s without it: the unit did not run, its reload failed, or it is suspended.
TimedOut ==
    /\ request = "mine" /\ request' = "late" /\ UNCHANGED <<complete, unit>>
    /\ Fault

----------------------------------------------------------------------------
(* applyIngressGeneration                                                  *)

Become(step) == job' = [job EXCEPT !.pc = step]
FailWith(s) == job' = [job EXCEPT !.pc = "fail", !.status = s]
Answer(ok) == job' = [job EXCEPT !.pc = "answer", !.ok = ok]

NextUnusedGeneration(minimum) ==
    Max({minimum} \cup {n + 1 : n \in {d \in dirs : d >= minimum}})

NextGeneration == NextUnusedGeneration(Max({0} \cup {g \in Gens : rows[g] # "none"}) + 1)

ApplyWithoutRow(want) ==
    /\ job.pc = "idle"
    /\ NextGeneration \in Gens
    /\ job' = [NoJob EXCEPT !.pc = "prepare", !.want = want,
                            !.gen = NextGeneration, !.prev = Active]
    /\ UNCHANGED <<rows, disk, nginx, handshake>>

\* The row and the two numbers; the rejections before it leave nothing behind.
ApplyIngressGeneration(want) ==
    /\ job.pc = "idle"
    /\ NextGeneration \in Gens
    /\ rows' = [rows EXCEPT ![NextGeneration] = "prepared"]
    /\ job' = [NoJob EXCEPT !.pc = "prepare", !.want = want,
                            !.gen = NextGeneration, !.prev = Active]
    /\ UNCHANGED <<disk, nginx, handshake>>

\* Prepare: the configuration file is created exclusively; a failure may come
\* before or after the directory exists.
Prepare ==
    /\ job.pc = "prepare"
    /\ \/ /\ job.gen \notin dirs
          /\ dirs' = dirs \cup {job.gen} /\ conf' = [conf EXCEPT ![job.gen] = job.want]
          /\ Become("validate") /\ NoFault
       \/ /\ dirs' \in {dirs, dirs \cup {job.gen}} /\ UNCHANGED conf
          /\ FailWith("failed") /\ Fault
    /\ UNCHANGED <<rows, current, nginx, handshake>>

\* Validate: the verdict of `nginx -t' in the validator worker.
Validate ==
    /\ job.pc = "validate"
    /\ \/ Become("activate") /\ NoFault
       \/ FailWith("failed") /\ Fault
    /\ UNCHANGED <<rows, disk, nginx, handshake>>

\* replaceSymlink renames a new link over `current' and syncs the directory; the
\* sync may fail when the link has already moved.
ReplaceSymlink(g, next, otherwise) ==
    \/ /\ current' = g /\ RequestReload /\ next /\ NoFault
    \/ /\ current' \in {current, g} /\ UNCHANGED <<handshake, nginx>> /\ otherwise /\ Fault

Activate ==
    /\ job.pc = "activate"
    /\ ReplaceSymlink(job.gen, Become("await"), Become("back"))
    /\ UNCHANGED <<rows, dirs, conf>>

AwaitReload ==
    /\ job.pc = "await"
    /\ \/ Acknowledged /\ Become("verify") /\ NoFault
       \/ TimedOut /\ Become("back")
    /\ UNCHANGED <<rows, disk, nginx>>

\* VerifyGeneration: the link, nginx -t once more, and a live nginx process.  It
\* cannot ask nginx which configuration it has loaded.
Verify ==
    /\ job.pc = "verify"
    /\ \/ current = job.gen /\ Become("commit") /\ NoFault
       \/ Become("back") /\ Fault
    /\ UNCHANGED <<rows, disk, nginx, handshake>>

\* Manager.rollback and NginxRuntime.Rollback.
Rollback ==
    /\ job.pc = "back"
    /\ ReplaceSymlink(job.prev, Become("awaitback"), FailWith("rollback_pending"))
    /\ UNCHANGED <<rows, dirs, conf>>

AwaitRollbackTrusting ==
    /\ job.pc = "awaitback"
    /\ \/ Acknowledged /\ FailWith("rolled_back") /\ NoFault
       \/ TimedOut /\ FailWith("rolled_back")
    /\ UNCHANGED <<rows, disk, nginx>>

AwaitRollback ==
    /\ job.pc = "awaitback"
    /\ \/ /\ Acknowledged /\ NoFault
          /\ IF job.prev > 0 THEN Become("verifyback") ELSE FailWith("rolled_back")
       \/ TimedOut /\ FailWith("rollback_pending")
    /\ UNCHANGED <<rows, disk, nginx>>

VerifyRollback ==
    /\ job.pc = "verifyback"
    /\ \/ current = job.prev /\ FailWith("rolled_back") /\ NoFault
       \/ FailWith("rollback_pending") /\ Fault
    /\ UNCHANGED <<rows, disk, nginx, handshake>>

\* The error of this update is ignored: the row may stay prepared.
RecordFailure ==
    /\ job.pc = "fail"
    /\ \/ rows' = [rows EXCEPT ![job.gen] = job.status] /\ NoFault
       \/ UNCHANGED rows /\ Fault
    /\ Answer(FALSE)
    /\ UNCHANGED <<disk, nginx, handshake>>

\* The transaction that makes the generation active.  Nothing is put back when it
\* fails: nginx serves a generation whose row stays prepared.
CommitGeneration ==
    /\ job.pc = "commit"
    /\ \/ /\ rows' = [g \in Gens |-> IF g = job.gen THEN "active"
                                     ELSE IF g = job.prev THEN "rolled_back" ELSE rows[g]]
          /\ Answer(TRUE) /\ NoFault
       \/ UNCHANGED rows /\ Answer(FALSE) /\ Fault
    /\ UNCHANGED <<disk, nginx, handshake>>

ApplySteps ==
    \/ Prepare \/ Validate \/ Activate \/ AwaitReload \/ Verify \/ Rollback
    \/ AwaitRollback \/ VerifyRollback \/ RecordFailure \/ CommitGeneration

RuntimeSteps == NginxLoads \/ NginxRefuses \/ UnitSignals \/ UnitAcknowledges

----------------------------------------------------------------------------
(* The helper stops at any point.  Nothing resumes the apply: its row stays *)
(* prepared and the link where it was.                                      *)

Late(token) == IF token = "mine" THEN "late" ELSE token

HelperStops ==
    /\ job' = NoJob
    /\ request' = Late(request) /\ complete' = Late(complete)
    /\ UNCHANGED <<rows, disk, nginx, unit>>

\* Host-state restore, offline: an older helper.db with its active generation
\* withdrawn, the link back to bootstrap; the directories stay.
RestoreHostState ==
    /\ job.pc = "idle" /\ Fault
    /\ \E last \in 0..MaxGen :
         rows' = [g \in Gens |-> IF g > last THEN "none"
                                 ELSE IF rows[g] = "active" THEN "rolled_back" ELSE rows[g]]
    /\ current' = Bootstrap /\ serving' = Bootstrap /\ hup' = FALSE /\ amiss' = FALSE
    /\ request' = "none" /\ complete' = "none" /\ unit' = "idle"
    /\ UNCHANGED <<dirs, conf, job>>

----------------------------------------------------------------------------
\* A fresh host, or one whose first generation serves the routes in S.
IngressInit(S) ==
    LET first == IF S = {} THEN Bootstrap ELSE 1 IN
    /\ rows = [g \in Gens |-> IF g = first THEN "active" ELSE "none"]
    /\ dirs = {first} \ {Bootstrap} /\ conf = [g \in Gens |-> IF g = first THEN S ELSE {}]
    /\ current = first /\ serving = first /\ hup = FALSE /\ amiss = FALSE
    /\ request = "none" /\ complete = "none" /\ unit = "idle"
    /\ job = NoJob

Statuses == {"none", "prepared", "active", "failed", "rolled_back", "rollback_pending"}
Tokens == {"none", "mine", "late"}

Jobs ==
    [pc : {"idle", "prepare", "validate", "activate", "await", "verify", "back", "awaitback",
           "verifyback", "fail", "commit", "answer"},
     want : SUBSET Routes, gen : 0..MaxGen, prev : 0..MaxGen, status : Statuses, ok : BOOLEAN]

IngressTypeOK ==
    /\ rows \in [Gens -> Statuses]
    /\ \A g, k \in Gens : rows[g] = "active" /\ rows[k] = "active" => g = k
    /\ dirs \subseteq Gens /\ conf \in [Gens -> SUBSET Routes]
    /\ {current, serving} \subseteq dirs \cup {Bootstrap}
    /\ request \in Tokens /\ complete \in Tokens /\ unit \in {"idle", "signalled"}
    /\ hup \in BOOLEAN /\ amiss \in BOOLEAN
    /\ job \in Jobs
    /\ used \in [faults : Nat, requests : Nat]

\* When the helper is idle, a link that does not point at the active generation is
\* explained by a row: a later generation is still prepared or rollback_pending
\* (transaction.go:63-73, ingress.go:92-126).  A commit that fails after nginx has
\* reloaded, a rollback that fails and a crash between any two steps all leave
\* their mark; no other error may.
DivergenceIsRecorded ==
    job.pc = "idle" /\ current # Active
        => \E g \in Gens : g > Active /\ rows[g] \in {"prepared", "rollback_pending"}

\* nginx has the linked configuration, or a signal to read it.
Told == hup \/ serving = current

\* The answer to the API is true of the link, of the rows and, as far as the helper
\* can know, of nginx: success means that the link and the rows name the generation
\* and nginx was told to read it; one recorded as failed or rolled back is not
\* linked, and nginx does not serve it or was told to read another
\* (transaction.go:39-73).  The exceptions are those of amiss, which the
\* acknowledgement of kitpro-ingress-reload.service cannot show.
AnswersAreTrue ==
    job.pc = "answer" =>
        IF job.ok THEN current = job.gen /\ Active = job.gen /\ (amiss \/ Told)
        ELSE rows[job.gen] \in {"failed", "rolled_back"}
               => job.gen # current /\ (amiss \/ hup \/ job.gen # serving)
=============================================================================
