# TLA+ verification of KITPro Server

KITPro Server runs container applications on one host. An unprivileged API
process (`cmd/kitpro-api`, `control.db`) takes requests from the browser; a root
helper (`cmd/kitpro-helper`, `helper.db`) is the only process that touches
Docker or Podman, storage, the ingress and the host. This directory models who
may mutate what, what a replacement of a running application (one component or
several) does when anything fails, how the helper recovers after a crash, how
application backups and restores and host-state restores move data, how an
ingress generation goes live, how host ports are given to services, and how the
API learns and records what the helper did. Paths below are relative to
`src/software/server/`.

## 1. Inventory

| Component | State it keeps | Operations | Talks to |
|---|---|---|---|
| Operation coordinator (`internal/helperops`) | `helper_operations` (receipt per operation id), `installation_leases` (owner, state, fencing token per scope) | Begin, AuthorizeMutation, RecordPhase, Complete, CompleteRecovery, RecoverInterrupted, ResolveActionRequired | called by `serve`, startup and `--resolve-operation` |
| Helper process (`cmd/kitpro-helper/main.go`) | none beyond the databases; one goroutine per connection | `serve`, `executeMutation`, startup sequence, maintenance commands | API over a unix socket |
| Single-component lifecycle (`internal/lifecycle/runner.go`, `store.go`, `single_runner.go`, `recovery.go`) | `runtime_generations`, `runtime_components` | staged replacement, start/stop/restart/remove, forward recovery | Docker, coordinator's lease through the fence |
| Reconciliation and repair (`reconciliation.go`, `repair.go`) | `installation_reconciliation` | observe, classify, recommend; start_active, cleanup_resources, acknowledge_retained_missing, recreate | Docker, generation table |
| Multi-component lifecycle (`multi_runner.go`, `multi_store.go`) | the same tables, several components | the same with an order between components | Docker |
| Application backup and restore (`application_backup.go`, `restore_journal.go`, `internal/appbackup`) | `restore_operations`, storage directories | backup, restore, startup recovery | lifecycle, leases |
| Host-state backup and restore (`internal/hostbackup`) | `host-restore.json`, staging and rollback directories | Restore, Recover | the helper's state root |
| Managed ingress (`internal/ingress`, `cmd/kitpro-helper/ingress.go`) | `ingress_generations`, generation directories, `current` link | prepare, validate, activate, verify, roll back | nginx |
| ACME and certificates (`internal/acme`, `internal/certificates`) | account keys, certificate material | issue, publish challenge | CA, ingress |
| Cloudflare provider (`internal/cloudflare`) | provider config and credentials | configure, enable, disable, routes | Cloudflare API, `cloudflared` |
| API operations and projections (`cmd/kitpro-api`, `internal/operations`) | `operations`, `installations` in `control.db` | accept, call helper, look up a lost answer, project | helper |
| Service exposure (`internal/exposure`, `cmd/kitpro-api/main.go`) | `installation_service_exposure` | expose, allocate, preflight, build bindings, project | helper, listeners of the host |
| Authentication, state, manifest, catalog, runtimes, probes, protocol | see `PROJECT.json` | | |

What is hard in this code:

* **Crashes between an effect and its record.** Docker calls and SQLite commits
  cannot be one transaction. A row can be behind the runtime at every step of a
  replacement, and startup works from the rows.
* **Lost answers.** A Docker call can fail on the client and happen on the
  daemon. The helper's own answer can be lost on its way to the API, which
  retries the operation id or looks it up.
* **Interleaving.** Each connection is a goroutine; the durable lease with its
  fencing token is what keeps two of them apart, also across a restart, a
  repair that takes a lease over, and a root command that does not take the
  state lock.
* **Recovery of the recovery.** Startup classification, lifecycle recovery and
  the restore journal can themselves be interrupted.
* **Bounded repair.** The administrator is told one action is safe, from
  evidence that may be older than the runtime.

`PROJECT.json` lists each hazard at its line with the properties that cover it,
or the reason none does yet.

## 2. Modules

```
OperationLedger        what the coordinator promises its clients
HelperOps              coordinator + request loop + startup classification
  MCHelperOps          instance for TLC
  HelperOpsProofs      proofs for every instance
GenerationStore        rows, containers, lease, worker of one installation
  StagedReplacement    Runner.Replace and its failure paths
  SingleLifecycle      start, stop, restart, remove
  Reconciliation       reconcile and the repairs
    InstallationLifecycle   composition: requests, crash, startup, outside world
      InstallationLifecycleProofs   proofs for every instance
MultiLifecycle         the same for applications of several components
  MCMultiLifecycle     instance: two dependent components
AppBackup              backup of a running application; checks of a restore
  AppBackupProofs      proofs for every instance
AppRestore             journalled restore, rollback, startup recovery, gate
  AppRestoreProofs     proofs for every instance
HostRestore            offline host-state restore and its journal
  HostRestoreProofs    proofs for every instance
IngressGenerations     the helper's ingress transaction and the reload unit
  ManagedIngress       the API's routes, holds and restores that call it
    MCManagedIngress   instance with symmetry
    ManagedIngressProofs   proofs for every instance
ControlProjection      operation and installation rows of control.db
  MCControlProjection  instance with symmetry
  ControlProjectionProofs   proofs for every instance
ServiceExposure        modes and host ports of services, from request to row
  MCServiceExposure    instance: two applications at rest or one
  ServiceExposureProofs   proofs for every instance
```

Each module keeps a type invariant `TypeOK`. It is proved where section 4 says so; in
`MultiLifecycle` it is for whoever changes the module: add it to the configuration
while doing so.
An operator commented as a variant or a mutant stands for a plausible slip in the
code next to it. No specification uses it; replacing the definition by it must
break the property that `PROJECT.json` pairs it with.

### HelperOps and OperationLedger

State: one function per column of the two tables, the helper's life-cycle stage,
the startup work list, and per goroutine its position, operation and remembered
token. `reply` and `touched` are history: what a client was last told and which
operations reached the runtime.

One transaction is one action: `BeginAcquire`, `BeginSupersede`,
`BeginConflict` and `BeginReplay` are the four ways out of `Begin`;
`AuthorizeMutation`, `RecordPhase`, `Complete` and `CompleteUnknown` the worker's
transactions; `Dispatch` is `executeMutation` reaching the runtime;
`AuthorizeFails` and `CompleteFails` are transactions that return an error and
leave the goroutine gone and the lease where it was. `Start`, `MarkReconciling`,
`RecoverOne`, `Classified` and `Listen` are the startup sequence, with the two
transactions of `RecoverInterrupted` apart, so that a `Crash` falls between them.
`CompleteRecovery` and `ResolveActionRequired` settle what recovery leaves.

`OperationLedger` is the promise without tokens, goroutines and transactions: an
id is used once, a scope has one owner, only an active owner has effects, doubt
keeps the scope, and what is settled stays settled. The mapping shows a client's
view of a receipt (`LedgerPhase`) and the owner of a scope (`LedgerOwner`).

### GenerationStore .. InstallationLifecycle

One installation is modelled: leases make installations independent, which is
what HelperOps shows. State: the generation rows, the saved reconciliation row,
the container and network of each generation, the installation's lease and
receipt (the coordinator reduced to the part the lifecycle reads), and the
position of the worker. `yielded` is history: the operations whose recovery lease a
repair took over (`coordinator.go:144`) or `--resolve-operation` released.
Identifiers and hashes in rows are Booleans: names carry
the generation and a reused row is cleared, so an identifier that is present is
the right one.

Each Docker call and each transaction is one action. A Docker call that fails may
or may not have happened; each such failure spends one of `MaxFaults`. Actions
follow the code's order: `Prepare`, `CreateNetwork`, `RecordNetwork`,
`CreateContainer`, `RecordCreated`, `VerifyStopped`, `PreCutover`, `StopOld`,
`StartCandidate`, `RecordRunning`, `VerifyRunning`, `Commit`, then the cleanup of
older generations; before the cutover a failure leads to `AbortContainer`,
`AbortNetwork`, `AbortMark`, after it to `CutoverFailed` and `Rollback`. A
`Crash` can follow any of them. `AdmitUnauthorized` and `CompleteFails` are
`AuthorizeMutation` and `Complete` returning an error (`main.go:379`, `:391`): the
goroutine ends, the receipt stays executing and the lease held, and nothing but the
next start settles them. A reconciliation marks a removed generation and saves its
own row in two transactions, so a crash or a failure falls between them. `Restart` ..
`StartupReconcile` are `main`'s startup; `ContainerExits`, `ContainerLost` and
`ContainerFlaps` are the outside world.

Left out: the legacy `verification_required` migration, image and configuration
drift, paused containers, loss of a network behind the helper, exposure bindings
and secrets, unavailable storage at startup, and effects of a Docker call that
come later than the next observation.

### MultiLifecycle

`multi_runner.go` and `multi_store.go` for one installation whose components start
in dependency order. Rows, containers and step records are per component, the
network and the generation row are shared. `Replace` creates, verifies, stops the
old components last started first, starts the new ones in order, verifies and
commits; `afterCutoverFailure` stops what was started and starts what was stopped.
Loops are actions over the components still to do, so a failing call, a result that
could not be recorded (`MaxLostSteps`) or a crash falls between any two components.
`Operate` and the recovery of multi-component generations follow. Recovery selects by
the receipt (`o.state='action_required'`, `recovery.go:79`; the set `waiting`) and its
transactions check the lease afterwards (`multi_store.go:390`): an administrator who
releases the operation in between makes them refuse, which ends the helper
(`refused`), and the next start must not find the same again. The first
generation may also come from the migration of a legacy installation. Left out:
repairs of multi-component generations, configuration drift, restart loops.

### AppBackup and AppRestore

`AppBackup` is `createApplicationBackup`: plan, stop, copy slot by slot, resume,
verify, write, publish, hash and record, with components that write while they run
and each refer to what the one before wrote, so that a copy of two instants can be
told from a copy of one. It also has the checks of a restore against a damaged
archive, another catalog, another generation or another trusted root. The INSERT of
the row, the deferred removals and `Complete` are steps of their own; a removal whose
error the code drops may leave its file (`stuck`), and the receipt may fail to be
written. `Replace` stands for `createApplication`, which stores secrets and storage
bindings before its runner starts, so that a replacement that fails leaves them. The
ghost `cut` remembers the disk at the instant the last component had stopped.

`AppRestore` is what follows the checks: the journal row, the recorded running set,
quiescing, two renames per storage slot, secrets, resume, commit, cleanup; the
in-process rollback that drops its errors; `recoverInterruptedRestores`, which
decides forward or back from the identities of the trees it finds; cleanup debts;
`Complete`; the gate in `serve`, read before `Begin`; and starts, stops and repairs
of the same installation as far as a restore sees them. A tree's identity is the
operation that staged it. The step rows are written and never decide anything, so
they are not state. `restore_journal.go` and the handler do the same things in the
same order forward and back, so one action stands for both, with `Serving` telling
what an error does: the handler rolls back or drops it, recovery gives up. Storage is
bound with `HostConfig.Binds` (`docker/client.go:140`), for which Docker makes a
missing source: a start while a slot is away finds a new empty tree there, one of no
version (`Made`); Podman refuses to start (`Mountable`), and both happen in the model.
`ReplyFails` is the receipt that could not be written.

### HostRestore

State: what each restore target, its rollback slot and its staged candidate hold,
the journal, the ingress link, and the position of the command. One filesystem
call is one action; `RemoveAll` of a directory removes one entry at a time.
`Interrupt` is a kill of the command or an error it returns without calling
`Recover`; `DeactivateFails` and `CommitFails` are the errors that do call it.
A crash is a process kill: loss of writes that were not synced is not modelled.
Directories of an attempt without a journal are forgotten by the code and so by
the model.

### IngressGenerations and ManagedIngress

`IngressGenerations` is `applyIngressGeneration` with its runtime: the row of a new
generation, its directory, validation, the `current` link, the reload request and
its acknowledgement, verification, rollback, cleanup and the final transaction. The
reload unit is `packaging/systemd/kitpro-ingress-reload.service`: it runs
`systemctl reload`, which is `kill -HUP` (`kitpro-ingress.service:11`), and renames the
request to the acknowledgement as soon as that returns. nginx comes to the signal
(`hup`) before or after the acknowledgement, reads what the link names then, or refuses
it and keeps what it has. The helper sees neither. Two things leave it wrong about
nginx, and `amiss` remembers them until the next load: a refusal, and a request
published between the signal and the acknowledgement of an earlier one, which is
acknowledged in its place. `Told` is what is left to say of nginx otherwise: it has the
linked configuration or a signal to read it. The helper may crash at any step; a host
restore may deactivate the ingress.

`ManagedIngress` composes it with handlers of `alpha14.go`: create and delete a
route, reconcile, and an application restore that puts holds on its routes, applies
the reduced generation, restores and applies the full one. Handlers list the routes,
read the hold of each in a step of its own and then call the helper, as `applyIngress`
does, and the answer may be lost. A restore lists its routes and sets the holds in two
steps. Statements whose error the code drops may fail (`Attempt`). `recorded` is the
generation `control.db` has active: `RecordGeneration` writes it after a successful
answer, and fails, by the index that admits one active row, if another generation is
active than the one the helper calls previous. Left out: rendering, certificates, the
Cloudflare calls beyond success or failure.

### ControlProjection

The API's side of every lifecycle operation: the accepted row, the request, its
loss before or after the helper read it, the lookup of a lost answer, polling, the
three ways a success is projected (POST, poll, reconciliation) and the row's final
status. Handlers interleave between reading the row, the helper's answer and each
write. The helper is reduced to what its answers show: a receipt per operation, one
operation at a time, the active generation with its release, and the check of a
replacement, which refuses a generation that is not the next one and, of an application
of one component, a release that is not the trusted one
(`validateTrustedMultiRecreation` does not compare it). POST writes the release only of
an update or of an application of one component (`main.go:1424`); `row.composite` tells
the two apart. A request refused for a held lease has a failed receipt that a lookup
finds. The branch of POST for a result that cannot be decoded (`main.go:1399`) is left
out: both sides marshal the same struct, so no result of this helper reaches it. Ports
and exposure rows are left out.

### ServiceExposure

Rows per service in the control database, bindings of the helper's generation per
installation, and what listens on the host. A request reads the service's old port,
allocates one, reads the generation, builds the bindings service by service, checks
them against rows and then against listeners, and asks the helper; these are steps
of their own, and nothing keeps requests of two installations apart. The helper
compares generation and bindings (`TrustedRecreation`; not the bindings of an
application of several components) and starts the replacement if the host lets it
bind: one step here, several in the lifecycle modules. A row that cannot be read counts
as a service without one (`main.go:1506`, `:2151`; `BindingUnread`, `PortUnread`), and
`unread` remembers which; a statement may also fail, or the request be given up, at any
step (`GiveUp`). Fixed ports may lie inside the allocated range, as Syncthing's 22000
does. Generation and rows are then
written in one transaction that the unique index may refuse. `Settle` stands for
whoever projects a known result later; a reconciliation whose projection failed is
not remembered by the code and may be tried again in the model, which then only has
more behaviours. Left out: a LAN address that is missing or changes, IPv6.

## 3. Runs

| Run | Bounds | Shows |
|---|---|---|
| `helperops_safety` | 3 operation ids, 2 scopes, 2 goroutines, 1 crash, 1 failed transaction; 547,876 states | lease/receipt agreement, exclusion, truthful absence, durable replies, final receipts, monotone fences, refinement of the ledger |
| `helperops_recovery` | 2 ids, 1 scope, 1 goroutine, 3 crashes; fair | every accepted operation is settled or handed to an administrator |
| `lifecycle_cutover` | 3 generations, 4 requests of every kind, 2 faults, 1 crash, 1 outside change, 1 `--resolve-operation`; 3,461,725 states | one generation runs unless the newer one's operation yielded, one has authority, replies are true |
| `lifecycle_repair` | 3 generations, 3 requests of every kind, 1 fault, 2 crashes, 1 outside change, 1 restart loop; fair; 373,003 states | repairs and recovery keep authority and the active container, nothing is forgotten, every request ends, or waits for the next start when its receipt could not be written |
| `multi_lifecycle` | 2 dependent components, 3 generations, 3 requests, 1 fault, 1 lost step result, 1 crash, 1 outside change, `--resolve-operation` at any time; 1,996,391 states | authority moves as a whole, replies are true of every component, nothing is forgotten, no interrupted cutover keeps the helper from starting |
| `app_backup` | 3 components, one ephemeral, 2 backups, 1 restore, 1 change or damage, 1 fault, 1 crash; fair; 847,740 states | a backup is one instant, a restore exact or refused, replies true, never silently down, every backup ends, or waits for the next start when its receipt could not be written |
| `app_restore` | 2 slots, 2 components, 2 operations of 4 kinds, 2 faults, 2 crashes, 1 resolve; fair; 1,209,544 states | old data kept until the commit, no start on a mixture, replies true, every restore ends, or waits for the next start when its receipt could not be written |
| `host_restore_once` | 4 targets, 2 archives, one interruption per journal, any number of restores | all or nothing, old state kept until commit, success is true |
| `host_restore_twice` | the same, two interruptions | **violation**: `Recover` deletes what it had put back |
| `ingress` | 2 handlers, 2 routes, 4 generations, 2 requests, 2 faults (an overlap of the two requests counts as one); 2,940,806 states | link, rows and answers agree, and nginx has or was told to load what they say; a restore alone runs with its routes out of the linked configuration |
| `projection` | 2 handlers, 2 operations, 3 requests, 2 faults, an application of one component or a composite one; 5,150,167 states | statuses true, committed generations shown or owed, no way back |
| `service_exposure` | 2 installations, 2 services (one with a fixed port, inside the range), 2 ports, one installation composite, 2 handlers, 3 requests, 1 fault; 3,708,432 states | a request changes no other service's ports, two installations do not hold one port |

Why the bounds are enough. Three operation ids are the holder, the one that takes
over and one that is refused; two scopes show that scopes do not mix. Two
goroutines per scope are the only pair exclusion speaks of. Three generations are
the smallest number with an active, a retained and a candidate one, and cleanup
of an older one needs the third. One crash plus one or two failing calls reach
every failure branch, including a failure inside the handling of a failure; two
crashes put one into the recovery of the other. Two slots and two components are
the fewest with a state between the first and the last; the backup has a third
component so that the excluded slot lies between two copied ones. Four targets are
the code's own list. Two handlers are one that reads and one that overtakes it;
three requests leave one to poll. Two ports are the one an
application has and one to go to. Symmetry is used for operation ids, goroutines,
handlers and routes in safety runs only; runs with liveness use none.

Fairness. `helperops_recovery`: systemd restarts the helper
(`Restart=on-failure`), startup is a finite loop (weak fairness of
`StartupStep`); goroutines are scheduled (weak fairness of authorise and
dispatch) and a handler has finitely many phases (strong fairness of its end,
since recording phases disables it for a moment). No fairness is assumed of
clients, administrators or crashes. The run has no failing transactions: a
failed `Complete` leaves its lease until the next start, as the code does.
`lifecycle_repair`, `app_restore`, `app_backup`: weak fairness of the worker's
steps and of startup for the same reasons; a step that fails is also a step, so no
call of the worker is assumed to succeed, the two of the coordinator included. When
`AuthorizeMutation` or `Complete` fails, the helper lives on with the receipt running
and the lease held and never tries again (`main.go:379-393`); no fairness makes it
restart, so `OperationsEnd`, `RestoreEnds` and `BackupEnds` except exactly that state,
and show that every other operation ends, and this one too once the helper starts
again.

`Deadlock` is checked where the system never stops; `AwaitRequest` and `Wait` are
the helper waiting in `Accept`. `ingress`, `projection` and `service_exposure`
end when their requests are used up, so they do not check it.

### What the code does not keep

`host_restore_twice` ends in a violation, with the quoted line in `PROJECT.json`:
`AllOrNothing` with two interruptions, against "can recover an interrupted swap";
`Recover` is not idempotent while the journal says swapping.

The following definitions state what a document or a comment says and do not hold
either. TLC finds the behaviour when the definition is added to the configuration
named here.

| Definition | Configuration | What happens |
|---|---|---|
| `HelperOps!AcceptedFailsSafely` (invariant) | `HelperOpsRecovery.cfg` | "Accepted work ... can fail safely" (`coordinator.go:409`): a crash between `markReconciling` and `recoverOne` makes never-authorised work `action_required` |
| `InstallationLifecycle!StartupCompletes` (invariant) | `LifecycleRepair.cfg` | "Ambiguous and pre-start cutovers remain action_required" (`recovery.go:12`): a crash between `StartContainer` and `RecordState` makes `RecoverForward` refuse, and the refusal ends the process at every start |
| `InstallationLifecycle!RepairStartIsSafe` (property) | `LifecycleRepair.cfg` | "The helper proved one bounded repair is safe" (`docs/operations/lifecycle-recovery.md:47`): `start_active` is recommended and starts the old generation beside a running candidate |
| `InstallationLifecycle!ConsistentMeansSettled` (invariant) | `LifecycleRepair.cfg` | "The recorded generation and fresh runtime observation agree" (`lifecycle-recovery.md:46`): a network created just before a crash is not looked at |
| `MultiLifecycle!StartsHonorDependencies` (property) | `MultiLifecycle.cfg` | "Multi-component start and stop honor dependency order" (alpha.12 release notes, line 50): a stop that happened but could not be observed or recorded (`multi_runner.go:342`, `:633`) is missing from the rollback, which starts its dependents |
| `AppRestore!OthersBlocked` (invariant) | `AppRestore.cfg` | "Other lifecycle mutations for the installation are blocked" (`docs/operations/application-backup-restore.md:109`): a repair that passed the gate before the journal was written (`main.go:356`) takes over the unresolved restore's lease |
| `AppRestore!RestartSettles` (invariant) | `AppRestore.cfg` | "It completes a proven forward state, restores a proven prior state, or records cleanup debt" (same manual, line 118): after a crash between the last phase and the receipt nothing reads the journal again (`restore_journal.go:290`) |
| `AppRestore!ReleasedIsOpen` (invariant) | `AppRestore.cfg` | "It releases a blocked installation" (`coordinator.go:507`): the journal stays unresolved and blocks every later operation |
| `ManagedIngress!ClosedWhileRestoring` (invariant) | `Ingress.cfg` | "Restore holds keep ingress closed" (`docs/security/threat-model.md:740`): the reload is acknowledged before nginx has read the link (`kitpro-ingress-reload.service:8`), nginx may refuse it and keep the old routes, and a handler that read the routes before the holds may apply them after (`alpha14.go:260`) |
| `ControlProjection!ControlAgrees` (invariant) | `Projection.cfg` | "Poll the same operation ID after a lost response" (`docs/api-reference.md:158`): `repairCommittedProjection` compares generations only (`main.go:1685`), and start, stop and remove keep the generation, so polling a lost operation writes its older result over a newer one |
| `ServiceExposure!RetainedStaysFree` (invariant) | `Exposure.cfg`, also with the first of `MCStarts` alone | An internal service "retains its assigned port for stable re-enable" (`docs/api-reference.md:238`): `allocateDefaultServicePort` looks at exposed rows only (`main.go:1582`) and gives the retained port to the next installation; the preflight then refuses to expose the service again |
| `ServiceExposure!OwedIsWritable` (invariant) | `Exposure.cfg` | "KITPro can repair stale control projections from durable helper outcomes" (alpha.12 release notes, line 59): when two requests passed the preflight with one port and the first application was stopped in between, the unique index refuses the second's rows at every attempt |

Properties say where they stop because of these: `OneGenerationRuns` excepts a newer
generation whose operation yielded its lease, which covers `start_active` above and
the stale recreation below; `NeverStartsMixed`, and the failure half of `AppRestore`'s
`RepliesAreTrue`, speak of at most one failing call and of no takeover (`Single`),
because the in-process rollback drops the errors of its renames
(`application_backup.go:352`) and then starts the application;
`QuietDuringRestore` and `SuccessIsDelivered` speak of a request no other handler
overlaps and, with `AnswersAreTrue`, of what nginx was told unless `amiss`;
`CommittedIsOwed` and `GenerationNeverBack` except a projection that another request
overtook (`overtaken`), and so do `OthersKept` and `ReservedOnce`: TLC finds the older
rows that POST writes back in the middle of a third request, which then loses a
service's ports. `OthersKept` also excepts a service whose row could not be read where
the helper does not compare bindings (`Guessed`): "exposure changes and generation
replacement cannot silently lose another service" (`exposure.go:41`) does not hold
there, since a client that disconnects after the operation is inserted makes every
later read fail. `ReservedOnce` also excepts requests checked while another's ports were not
yet in the rows (`raced`).

Three of these exceptions come from proofs and lie beyond the bounds of the runs:

* `OneGenerationRuns` was first stated without `yielded`, for a run without repairs,
  where it held. The proof stops at `Admit`: the saved reconciliation row is not invalidated by a
  replacement, and `recreate` is admitted on it (`main.go:342`, `:1194`) although it
  speaks of an older generation. With seven operations: generation 1 loses its
  container, is reconciled and recreated as 2; an install of 3 ends unknown with its
  candidate running and keeps the lease for recovery; a recreate with the evidence
  about generation 1 takes that lease over, fails in `Prepare` and frees it; a start
  then runs generation 2 beside 3. Nothing else makes two generations run.
* `ReservedOnce` was first stated with `raced` alone. With three handlers and six
  requests, a projection that another request overtook writes back old rows, the
  preflight of a third request then passes a port that an installation still holds,
  and no request was checked at the wrong moment. `overtaken` is now set by whoever
  projects while another handler still holds rows to write (`Holding`).
* `CommittedIsOwed` excepts the release of an overtaken composite application. With
  three operations and four requests: an update is committed and projected by a poll, a
  recreation of the next generation is committed, the handler of the update writes its
  older row late, and the recreation's POST then writes its generation without a
  release. The next recreation uses that release, and the helper does not compare it.

Smaller deviations met while modelling, which the models contain and no property
contradicts:

* Projection. A slow POST handler writes its projection unguarded after a poll and a
  newer replacement, and takes the row back (`main.go:1422`). An install the helper
  refused resets the row to generation 0 although another request may have
  recreated the installation (`main.go:1389`). A refused request whose answer is
  lost stays accepted for ever. A reconciliation that could not be projected is
  failed from POST and accepted from a poll. A pending operation whose generation
  was overtaken never settles. When `Complete` fails the API says failed, and what
  recovery finds later is never polled.
* Ingress. A unit that has signalled for an older request acknowledges the new one
  (`amiss`); a commit that fails after the reload leaves a live generation with a
  prepared row; once `control.db` has another generation active than the one the helper
  calls previous (a lost answer, a failed commit, two answers recorded in the other
  order, a host restore), the index of one active row
  (`control_ingress_generations_one_active`) makes `CommitGeneration` fail for every
  later apply, so the API reports failure for what the helper serves; deleting a disabled route whose apply fails
  enables it (`alpha14.go:167`); a lost answer to a create deletes the route from
  the control database while nginx serves it; reconcile drops holds a newer restore
  put on; a restore without enabled routes does not quiesce.
* Exposure. A row the endpoint cannot read makes it allocate another port than the one
  the service had.
* Multi-component. `afterCutoverFailure` stops only components it has started, not
  one whose start failed and happened; a restart whose first start fails after all stops is a
  plain failure with the application down.
* Application restore. A copy that fails while staging leaves its partial tree
  (`application_backup.go:277`).

## 4. Proofs

Eight modules hold proofs that TLAPS checks. The theorems speak of every value of the
constants: any number of generations, operations, handlers, routes, ports, targets,
slots, components, faults and crashes.

| Module | Theorem | Property |
|---|---|---|
| `HelperOpsProofs` | `InductiveInvariance`, `TypeCorrect` | `IndInv`, `TypeOK` |
| | `LeasesMatch` | `LeaseMatchesReceipt` |
| | `Exclusion` | `ExclusiveExecutor` |
| | `AbsenceIsTrue` | `NoFalseAbsence` |
| | `RepliesDurable` | `DurableReply` |
| | `Finality` | `ReceiptsFinal` |
| | `FencesMonotone` | `TokensMonotone` |
| | `Refinement` | `ImplementsLedger` |
| `InstallationLifecycleProofs` | `Invariance`, `TypeCorrect` | `IndInv`, `TypeOK` |
| | `AuthorityIsUnique` | `OneAuthority` |
| | `OneRuns` | `OneGenerationRuns` |
| | `NothingIsForgotten` | `NothingForgotten` |
| | `RepliesHold` | `RepliesAreTrue` |
| | `AuthorityMovesForward` | `AuthorityMoves` |
| | `ActiveIsSpared` | `ActiveSurvives` |
| `HostRestoreProofs` | `SwapInvariant`, `TypeCorrect` | `SwapInv`, `TypeOK` |
| | `SuccessIsComplete` | `SuccessMeansRestored` |
| | `UndoInvariant` | `UndoInv`, if `OnceOnly` |
| | `SwapIsAtomic` | `AllOrNothing`, if `OnceOnly` |
| | `OldStateIsKept` | `OldStateKept`, if `OnceOnly` |
| `AppBackupProofs` | `Invariance`, `TypeCorrect` | `IndInv`, `TypeOK` |
| | `ColdCopyHolds` | `ColdCopyIsOneInstant` |
| | `NeverDown` | `NeverSilentlyDown` |
| | `RestoreExact` | `RestoreIsExact` |
| | `RepliesHold` | `RepliesAreTrue` |
| `AppRestoreProofs` | `Invariance`, `TypeCorrect` | `IndInv`, `TypeOK` |
| | `OldTreesKept` | `OldKept` |
| | `NeverMixed` | `NeverStartsMixed` |
| | `RepliesHold` | `RepliesAreTrue` |
| `ControlProjectionProofs` | `Invariance`, `TypeCorrect` | `IndInv`, `TypeOK` |
| | `StatusHolds` | `StatusIsTrue` |
| | `OwedHolds` | `CommittedIsOwed` |
| | `NeverBack` | `GenerationNeverBack` |
| `ServiceExposureProofs` | `Invariance`, `TypeCorrect` | `IndInv`, `TypeOK` |
| | `PortsReserved` | `ReservedOnce` |
| | `OthersAreKept` | `OthersKept` |
| `ManagedIngressProofs` | `Invariance`, `TypeCorrect` | `IndInv`, `TypeOK` |
| | `LinkIsExplained` | `DivergenceIsRecorded` |
| | `AnswersHold` | `AnswersAreTrue` |
| | `RestoreIsQuiet` | `QuietDuringRestore` |
| | `SuccessHolds` | `SuccessIsDelivered` |

Assumptions. Bounds are naturals; `MaxGen` and the numbers of targets, slots,
components, backups and restore operations are not zero. AppBackup: the excluded slots
are slots of components and the strategies are the three the code knows. AppRestore:
the kinds of operation are the four that share its lease.
HelperOps: `NoOp` is not an operation id, requests name scopes and `NoRequest` is not
one. HostRestore: an archive's contents differ from the original's and from an absent
target. ServiceExposure: services and ports are numbers, and the installations that
exist at the beginning have a binding per service and do not clash
(`StartsAssumption`). `OnceOnly` is the one
hypothesis of a theorem: at most one interruption while a journal exists;
`host_restore_twice` shows that two refute it.

### The arguments

None of the properties is inductive. Each proof module defines what has to be added,
as a conjunction of named parts; TLC checked each invariant on a small instance before
it was proved. There is one lemma per action, or one per shape of step where many
actions change the state in the same way.

**Coordinator.** Exclusion does not follow from the tables alone: a goroutine works
from the token it remembers. `IndInv` therefore adds `WorkersFenced` (a goroutine
with work to do still passes `verifyFence`, its receipt is where it believes it
is, and no other goroutine runs the same operation), `WorkListExact` (a row on
the startup list is still as it was read, except the one between its two
transactions), `EffectsAnnounced` (the receipt says `unknown` before anything is
dispatched), and `RequestsBound`. Two goroutines on one scope would both pass the
fence, so both would be the lease holder, so they would run the same operation.
`NoFalseAbsence` needs `EffectsAnnounced` for the classification of accepted rows.
`Finality`, `FencesMonotone` and `Refinement` are proved step by step from `IndInv`; in
the refinement every action is an action of the ledger or leaves its variables alone.

**Lifecycle.** The generation table is a ladder (`InOrder`): up to the current
generation everything was committed once, its successor is the only row above, and
one row is retained. Authority then moves by one rung, which gives `OneAuthority` and
`AuthorityMoves`. `Numbered` and `Leased` tie rows to operations: a row carries the
number of the operation that prepared it, no operation prepares two, and one that gave
up its lease does not hold it. `OwnsCandidate`, `CandidateBox` and `OldBox` say what
the worker of a replacement knows at each step of its candidate and of the old
container; `Cleaning`, `Operating` and `Repairing` say it for the other requests. With
them `Running` is inductive: only the current generation and its successor run, and a
running successor whose operation has not yielded belongs to the lease holder, at a
step that knows of it. Every step lemma shows the invariant and the two action
properties together (`Kept`), so that the cases are done once.

**Host restore.** The invariant of the swap says where each target is for each
position of the command (`Untouched`, `MovedOut`, `MovedIn`); a committed journal lies
over a complete swap. The invariant of the undo adds that `Recover` finds each target
in one of these three stages and that the targets above its position are back. It
needs the budget of one interruption (`InterruptedOnce`): a second `Recover` finds
targets in a fourth stage, put back and with nothing saved, and deletes them.

**Backup.** `ColdCopyIsOneInstant` compares a file with a disk that has moved on, so
the invariant carries the instant along: from the last stop to the last copy nothing
runs, hence the disk is the cut (`Quiet`), every slot copied so far equals it, what is
staged afterwards is the cut although the components write again (`StagedIsCut`), and
a row exists only over an archive of it (`RecordedIsCut`). `OneHandler` and
`FilesFollow` keep a crashed or failed backup, or a removal that failed, from leaving a
file that a later one takes for its own; `AnswerIsTrue` says what is on disk while the
handler cleans up and replies. `RestoreIsExact` then follows from the checks of `RestoreBackup`: the
row's hash admits only the archive that was recorded, and generation and plan only the
installation it was taken of. `DownIsKnown` extends `NeverSilentlyDown` to a helper
that is down, where the receipt still says `running`.

**Application restore.** `Swapped` and `RolledBack` say of every slot what path it is
at, for each position of the worker on the way forward and back; startup recovery
enters the same positions with nothing but the journal, so both hold for it too. On the
way back the exact form holds while only the one call failed that made the handler
turn, and in recovery always: a second failure in the handler is dropped by the code
and leaves a slot out, and what remains is `Undoable`. `Ledger`, `Worker` and `Journal`
tie the one lease to the one journal in work, or to the administrator who released it;
`Origins` says that a journal's originals are older than its own trees, so that an inode
tells them apart. `Kept` is `OldKept` for whoever has the lease, between the positions.
`Whole` says that the application is of one version whenever no restore is under way,
and that the originals of one that is were; `NeverStartsMixed` needs it for the
starts outside a restore. Most steps have one of five shapes, each with a lemma
(`WorkStep`, `MoveStep`, `LeaveStep`, `GiveUpStep`, `BeforeStep`), so that an action
has to show only what it changes.

**Projection.** What a handler holds in hand is true of the helper however late it is
used (`Truthful`), because a receipt that is final stays and an operation is sent at
most once (`SentOnce`). `Dead` is the part that is true for good: not on its way, not
running, not committed, or in doubt. `NothingInvented`, `Ordered` and
`GenerationHasOrigin` relate results, control row and helper by generation. The release
of a composite application is written by updates only, so a recreation has to find it
in the row: `RequestsCurrent` says that a request for the next generation was built
from a row that shows the present one with its release, `ReleaseKept` that the row then
still has it when the recreation is projected, unless a projection was overtaken.

**Exposure.** Rows and unsettled results never run ahead of the helper's generations
and agree with them at the same generation (`RowsFollow`, `ResultsFollow`). Unless a
projection was overtaken, a request for the next generation was built from rows that
agree with the present one, except for the services it could not read (`InStep`), hence
changes its own service only; those the helper compares, where it does. Unless
requests raced, one installation at a time is between the check of its ports and the
rows, and what was checked is still free (`OneAtATime`, `StillFree`).

**Ingress.** `IngressInv` ties the row, the directory, the link and the token of an
apply to its step and says what of the state before the apply is still true. An
acknowledgement means that nginx was signalled after the link moved, so that it has the
linked configuration or will read it, or that something went `amiss`
(`HandshakeIsSound`). On top of it `RequestsKnow` says what a request that nobody
overlapped knows at each step (`Knows`): after an apply the link serves the wanted
routes (`Applied`), and after its rows are written `control.db` agrees (`InTouch`).

### What is only model-checked

Liveness (`Settles`, `OperationsEnd`, `RestoreEnds`, `BackupEnds`): the prover does not
reason about fairness. The properties of `MultiLifecycle`:
not proved yet. They need the invariant of the single lifecycle at every component,
with the loops over components in between.

## 5. Plan

Done: modules and runs above, proofs of eight modules.

Next, in this order:

1. Theorems for every instance of `MultiLifecycle`: `NothingForgotten` and
   `AuthorityMoves` first.
2. `ControlProjection` composed with `OperationLedger` as the helper; an abstract
   all-or-nothing specification shared by `HostRestore` and `AppRestore`.
3. Cloudflare and ACME workers: remote effects with local compensation;
   certificate material and challenge publication.
4. Repairs of multi-component generations; storage found missing at startup; late
   effects of timed-out Docker calls; a helper started between two host-restore
   commands.
5. Login throttling and sessions.

### Not modelled

Cloudflare, ACME and certificates, authentication: state of their own, in
the plan above. Schema migrations, manifest and catalog parsing, archive encoding,
Quadlet and nginx text, host probes, HTML and JSON rendering, packaging, and the
prototypes: no state of their own, or pure input and output.
