# Micromanage: TLA+ models, model checking and proofs

Micromanage manages Apple devices from YAML files: it keeps a fleet's profiles,
apps and onboarding flows in step with what the files say, through NanoMDM. This
directory models the parts of the server in which several processes, devices and
administrators act on the same database rows, checks them with TLC and proves the
central facts with TLAPS. Everything is translated from the Python under
`controller/`; `PROJECT.json` maps every definition to the lines it stands for.

To check a model: `tlc -config <run>.cfg <module>.tla`; to check proofs:
`tlapm FlowRunProofs.tla`, and so on.

## 1. The system

### Processes

Supervisord runs three Python programs over one PostgreSQL database.

| Process | Entry point | What it does |
|---|---|---|
| controller | `controller/main.py` | APScheduler jobs, one instance of each at a time: reconcile all tenants (5 min and at boot), poll devices (3 min), dispatcher (10 min), DEP sync (60 min), retention (24 h), identity renewal (24 h) and reconcile (1 min). Drains handlers for 20 s on SIGTERM. |
| webhook | `api/webhook.py` | NanoMDM's check-ins and command answers; deferred fan-out (flows, alerts) under one asyncio lock per device |
| userapi | `api/main.py` | The console's REST API: edits of YAML files, cancel/retry of tasks, flow and alert decisions. A saved file also asks for a reconcile in this process. |

An asyncio lock, semaphore or dictionary is local to one process. What the
processes share is the rows, and they meet there without transactions: a row is
read, something is awaited, and every column is written back (Tortoise's
`save()`), or a conditional `UPDATE` claims it. Most of what can go wrong is in
those gaps, so **a step of every model ends where the code awaits something that
another process can overtake**.

### Components

| Component | State it keeps | Operations | Hard behaviour | What makes it correct | Model |
|---|---|---|---|---|---|
| Profile deployment loop (`reconciler.py`, `profile_manager.py`, `task_handlers.py`, `task_manager.py`, `webhook_handler.py`) | `ProfileDeployment`, `Task`, background handlers | cycle, install, remove, answer, cancel, retry, purge | overlapping cycles, full saves of stale copies, restarts, lost answers, timeouts | a task's command goes out once; tasks settle; record and device converge to the YAML | `Deployment` |
| Reconcile coalescer (`reconciler.py:37-107`) | dirty flag, worker map | `request_reconcile`, worker rounds | request against a worker that is finishing | one run per tenant; no request left behind | `ReconcileCoalescer`, `SingleFlight` |
| Flow engine, ATC (`atc*.py`) | `FlowRun` rows, context | start, supersede, advance, park, signal, timeout, gate, orphan | three processes claim one row; stale contexts | one advancer; every run ends; no release over a gap passes for success | `FlowRun` |
| App deployments (`app_manager.py`, `reconciler.py`, `webhook_handler.py`, `manifests.py`) | `AppDeployment`, `Task` | waves, versions, installs, downloads, inventory confirmation | an accepted command is not an installed app; late answers; two sources of truth | the Mac comes to hold the wanted version and the row to say so | `Apps` |
| Compliance dispatcher (`dispatcher.py`, `routes/alerts.py`) | `Alert` rows with their detail | evaluate, remediate, escalate, approve, refuse, resolve | one JSON column rewritten by three parties | refusals last, budgets hold, an approval sends once | `Alerts` |
| Identity and SCEP renewal (`identity.py`, `identity_renewal.py`, `enrollment_links.py`, `nanomdm_store.py`) | `ScepChallenge`, `Device`, NanoMDM's tables | judge, bind, refuse, renew, roll back, prune, restore tokens | NanoMDM acts without the locks; webhooks out of order; failed writes | a Mac is never pruned off the certificate it uses | `Identity` |
| Declarative management (`ddm_manager.py`, `api/ddm.py`) | published token, reported status, a cache | sync, serve, report | saves of stale rows, incremental reports | device and console converge on the configured set | `Declarations` |
| Poller (`poller.py`) | intervals, backoff in `attributes` | tick, budget, three passes | starvation, refused commands | every device is asked again | `Poller` |
| DEP (`dep_manager.py`, `api/dep.py`) | `DepServer`, cursor, `Device` rows, profile mapping | link, sync, push, assign | partial pages, expired cursors, lost replies | no device is skipped by the cursor | `Dep` |
| Device secrets (`device_secrets.py`, `device_commands.py`, `atc_node_effects.py`) | `DeviceSecret` | set, rotate, confirm, abort, reveal | the answer lost after the Mac changed its password | the password the Mac answers to is on record | `Secrets` |
| Configuration files and history (`routes/config.py`, `routes/flows.py`, `flow_gate.py`, `flow_drafts.py`, `redaction.py`) | flows.yaml, versions, snapshots | load, save, draft, promote, restore | whole documents saved over each other, redacted passwords | nobody's work or password is lost, the file stays runnable | `FlowFiles` |
| Flow validation (`yaml_flow_checks.py`) | none | errors and warnings on a document | a warning that does not say what the engine does | accepted flows run; warnings are right | `FlowChecks` |
| The alerts of a held Mac (`atc_alerts.py`) | `Alert` rows, marks in the run's context | open, escalate, resolve, raise failure | a run that ends without letting the Mac out | a held Mac is on the board | `FlowBoard` |
| Webhook check-in and binding (`webhook_handler.py`) | `Device` rows | enroll, check out, bind | re-enrollment over live tasks | nothing of the old enrollment survives | in `Deployment`, `Identity`, `Declarations` |
| Task API (`api/routes/tasks.py`) | `Task` | cancel, retry | against the handler that runs it | a cancelled task stays cancelled | in `Deployment`, `Secrets` |
| NanoMDM connector (`mdm_connector.py`) | none | push commands | a reply lost after the command was taken | - | external state of each module |
| Authentication, agent API, schema upgrades, readiness, command and audit routes, operator tools, web console and agent | - | - | mostly request/response over one row, or pure validation and I/O | - | not modelled, but for the clients' saves in `FlowFiles` |

`PROJECT.json` lists every component with its sources and the reason where it is
left out, and every hazard with the line where it bites.

### How they meet

    YAML edit ──> request_reconcile (coalescer) ──> reconcile_tenant ──> Task + handler ──> NanoMDM
                     scheduler, every 5 min ────────────┘   ^                               │
                                                    ProfileDeployment <── webhook answer <── device
    enrollment / check-in / schedule / administrator ──> FlowRun ──> install tasks, waits, gates
                                                            ^
            webhook signals, poll tick (deadlines, orphans), gate decisions
                        |
                        └──> in-setup and failure alerts <── approvals, refusals <── administrators
                                                   ^
    dispatcher (10 min, inventories) ── alerts, remediation commands ──> Task + NanoMDM

    poller ──> queries ──> inventories ──> app confirmations, dispatcher
    Apple's DEP ──> Device rows, enrollment profile ──> enrollment ──> identity ──> NanoMDM's tables

## 2. Modules

### `Deployment`: one profile on one device

Rows of different (device, profile) pairs do not touch each other, so one pair is
the whole story; what a cycle reads for the whole tenant before it decides is a
step of its own (`Survey`), after which the decision uses the snapshot.

| Variable | Code |
|---|---|
| `config` | the definition in profiles.yaml and whether the device is in scope, held back by a rollout wave, or out |
| `task` | `Task` rows: status, type, definition carried, command_uuid set, timed out, age |
| `handler` | the coroutine executing each task, with the row copy it holds across awaits |
| `row` | the `ProfileDeployment` row: status, payload_hash, last_task_id, failed_attempts, age |
| `cycle` | one reconcile cycle per process, with its snapshots |
| `answer` | a command's answer between arrival, the row being read and the row being saved |
| `held`, `queue` | external: what the device has, and NanoMDM's queue |
| `enrolled`, `faults` | enrollment state; disturbances so far |

The cycle is `StartCycle` (timeouts found), `Survey` (tasks and rows failed, open
keys and the row prefetched) and one of `QueueInstall`, `QueueRemoval`,
`DropRecord`, `LeaveAlone`. A handler is `BeginInstall`, `PushInstall` (or
`InstallRefused`), `SaveInstalling`, `MarkSent`; removals are `PushRemoval` (or
`RemovalRefused`), `DropRemoved`, `MarkSent`. Answers are `ReadAnswer`,
`WriteAnswer`, `DiscardAnswer`. The world is `EditConfig`, `DeviceExecutes`,
`DeviceNotNow`, `LoseAnswer`, `Crash`, `CheckOut`, `Enroll`, `CancelTask`,
`RetryTask`, `PurgeTask` and `Tick`.

Abstractions. A definition is its hash. A push that is *refused* may or may not
have reached NanoMDM (a timeout says neither). `Tick` is half an hour, and waits for
answers under way and, unless `Backlog`, for handlers: what takes seconds in the code does not
take half an hour. `RetryTicks` and `TimeoutTicks` are scaled (30 min and 24 h in
the code). Creating a task, noting the attempt and spawning the handler is one
step, and so are the two UPDATEs of the timeout sweep. Each member of `Procs` runs
one cycle at a time; two members also stand for two overlapping cycles of one
process, except that a crash takes one of them only. Task ids are reused once
retention deleted the row and nothing refers to it; retention's 30 days are a
guard (nothing in flight), not a count.

### `ReconcileCoalescer` and `SingleFlight`

`SingleFlight` is what `request_reconcile` promises: one run at a time, and no
request left without one while there is a tenant. `ReconcileCoalescer` is how the code
does it: a dirty flag per tenant, a map of workers, a worker that pops the flag,
looks up the tenant, reconciles, and looks again; `RoundRaises`, `RemoveTenant` and `Restart`
disturb it, and the scheduled sync runs beside it. It refines `SingleFlight`
(`Promise`), the flag read as *pending* and a worker in a round as *busy*.
Removing a tenant happens outside the process and is external.

### `FlowRun`: the runs of one flow on one device

| Variable | Code |
|---|---|
| `run` | `FlowRun` rows: status, node, awaited signal, deadline, whether `updated_at` is recent, and the context: flow snapshot, expected and satisfied refs, gap ledger, unverified mark, gate rung |
| `actor` | each process's caller, with the copies of rows it has read and the one it works on |
| `deployed`, `signals` | the profiles' deployment rows; `profile_installed` signals deferred in the webhook process |
| `asked`, `release` | history: what each run asked for, and how it let the device go |
| `troubles` | stops and supersessions so far |

The callers are the webhook process (one signal of a device at a time: `_defer`
takes the device lock), the poll tick's sweep, and administrators side by side in
the API. A caller lists rows (`Hear`, `BeginSweep`, `BeginDecision`, `BeginAnew`),
claims one (`ClaimForSignal`, `ClaimForTimeout`, `ClaimForRung`,
`ClaimForDecision`, or `Cancel` when superseding), carries its copy through
`AtStart`, `AtInstall`, `PassWait`, `StopAtWait`, `StopAtGate`, `AtRelease`, and
saves it with `Park`, `AtEnd`, `Fail` or `Escalate`. The check that a wait is
already satisfied and the park are two steps, as they are awaits apart. A signal that
is one of several is `Record` and `SavePartial`. `FailOrphan` is the stale-running
sweep, with its query, claim and settling in one step.

The nodes and edges are constants, so the module is about any flow; `MCFlowRun`
has one. Not in the model: app, command, declaration and refless signals (they differ in
where the arrival is looked up), steps with `gate: false`, member-refused nodes, gates from
older servers without a deadline, the cap of 100 nodes per advance and of active runs,
alerts. When a check-in's cooldown or a schedule's interval is over is left
open: a start is due at any time at which no run from it is active. A profile once installed stays installed.

### `Apps`: one app on one Mac

`row` is the `AppDeployment`, `config` the app's version, scope and whether a rollout
wave holds it back, `tasks` and `handlers` the attempts, `mac` what the Mac holds and
downloads, `queue`/`answers`/`query` what is on its way. The cycle is `StartCycle`
(timeouts, `FailTimedOut`, `FailUnconfirmed`) and one of `CycleInstalls`, `CycleDrops`,
`CycleUnscopes`; an attempt is `Link`, `Push`, `Finish`, then on the Mac `Take`,
`Downloaded` or `DownloadFails`; a confirmation is `Ask`, `Report`, `HandleReport`. A
Mac takes one install at a time, and one that gets no manifest answers with an error.
The failure count and its delay are one flag (*aged*).

### `Alerts`: the compliance alerts of one device

`alert` holds the rows with their `detail` column, `tags` what the dispatcher put on the
device, `pass` the evaluation with the copy it carries while it sends, `approver` an
approval between its read and its conditional write. Read and write without a guard of
their own are one step; sending is a step. `Overlaps` says which handlers may run
inside each other's gaps. *Open* stands for open and acknowledged. `sent`, `refused`,
`lastFire`, `burst`, `quietAt` are history.

### `Identity`: one Mac's certificate

A handler holds the device lock and the advisory lock, so it is one action, written as a
function from *worlds* (what the handlers read and write) to worlds; an upsert lets go
in the middle and is two (`UpsertBound`, `SaveUpsert`). `nano` is NanoMDM's own tables,
which it changes without those locks; `inbox` its webhooks, `mac` the Mac. `Prune`,
`RollBack`, `Finish`, `Accept`, `Refuse` are the code's operations on the allowed set.
Not modelled: `run_cutover`, `_bind_new_udid`, and the links beyond their challenge row.

### `Declarations`: one device's declarations

The token is a hash of the whole set, so the set stands for it. `sync` is one caller's
sync (reconciler, forced, flow, command; the run leaves out the flow's, which is the
command's without its reset) between computing, sending and saving; `cache` the
declaration cache; `device` fetches manifest and declarations one at a time and
reports what changed; `told` is history. `Overlaps` admits three more interleavings
under which the properties do not hold: *reenroll* (a check-out inside a sync),
*revert* (the configuration goes back to a set sent before, while the device fetches a
later one: the published token is that of the older set, so nothing tells the device
to return) and *warm* (a rollout wave opens while the cache holds the set without it).

### `Dep`: one linked DEP server

`log` is Apple's device log, `link` the `DepServer` row with its cursor, `row` the
device rows, `mapping`/`defined` the profile here and at Apple. A sync is `BeginSync`,
`Collect` (or an incomplete or refused page), `ApplyRecord` per record, `AssignDefault`,
`FinishSync`; a push `BeginPush`, `DefineAtApple`, `SaveMapping`. Administrators'
calls are an answer and its record, or an answer that is lost.

### `Secrets`: the passwords of one Mac

`secret` is the row of each kind (value, parked value, whose task confirms it), `change`
a caller's change between plan, escrow, send and mark, `queue`/`air`/`acks` the
command's way to the Mac and back, `mac` what the Mac answers to, `seen`/`alert` the
reveals. `Overlaps` again admits what the code does not withstand: *lostReply*, a send
that fails although NanoMDM queued the command; *rerun*, an administrator's password set
on a Mac that has one; *again*, the same one set a second time after a restart (a
password that the flow names; a generated one is new); *two*, two changes under way at
once; *debris*, a change begun over the parked password of a cancelled one; *reenroll*, an
enrollment that fails commands whose answers were still to come.

### `Poller`: ticks and their budget

Ages and delays are counted in ticks and stop where nothing compares them further. A
tick is `StartTick`, then `PollNext`, `InventoryNext`, `StartConfirms`, `ConfirmNext` in
order, then `EndTick`; each command is NanoMDM's `Taken` or `Refuse`.

### `FlowFiles`: flows.yaml and its editors

`disk` is the file with its version, `history` its snapshots, `client` what a console
or command line has loaded (redacted) and means to save. A request awaits nothing
between its check and its write, so it is one step. A flow has one step with a password,
is *sound* when the structural checks pass and *setup* when it has a Setup Assistant
step. Limits and DEP findings, and the pruning of the history, are left out.

### `FlowChecks` and `FlowBoard`: what is drawn, checked and run

`FlowChecks` lets an author draw a flow edge by edge with a few slips, saves it when the
validator finds no error, and takes every run of it: `Accepted`, `ReleaseOrdering` and
`BarrierEmpty` are the validator's, the actions the engine's. `FlowBoard` EXTENDS it
with the Mac that is held in Setup Assistant, the in-setup and the run-failed alert, a
process that stops, an enrollment over an unfinished run, and a release by hand. Unlike
`FlowRun` it has one caller and all small flows.

### Model-checking and proof modules

`MCAlerts` names the rules, grace times and overlaps; `MCSecrets` and `MCFlowFiles` the
symmetries; `MCFlowRun` the small flow: install two profiles, wait, release, with a gate on
the timeout edge that ends the run or leads to a second gate and the release.
`DeploymentProofs`, `FlowRunProofs`, `AlertsProofs`, `DepProofs`, `IdentityProofs`,
`DeclarationsProofs`, `SecretsProofs` and `FlowBoardProofs` hold the theorems; the first is
about `ReconcileCoalescer` as well, the last about `FlowChecks` and `FlowFiles`.
`IdentityInvariants` defines what the proofs about `Identity` keep. A definition marked
*(mutant)* in a module is a plausible slip in the code next to it: no specification uses
it, and put in place of its neighbour it breaks the property `PROJECT.json` names, which
shows that the property can fail.

## 3. What is checked

Twelve runs are listed in `PROJECT.json` and pass. The counts are distinct states.

| Run | States | Question and answer |
|---|---|---|
| `Deployment_faults` | 215 175 | One process, two definitions, one disturbance of any of nine kinds. A command goes out once, every task settles, record and device converge, and out of scope for good the record goes. |
| `ReconcileCoalescer` | 44 255 | One run at a time, requests carried, every edit applied, and the refinement of `SingleFlight`, fairness included. |
| `FlowRun` | 84 794 | One run between webhook, sweep and an administrator, with two restarts or supersessions: one advancer at a time, completed for good, escalations pinned to the gate they saw, and every run ends. |
| `Alerts` | 634 988 | Two rules sharing a tag, evaluations, refusals, two approvals: refusals last, budgets and cooldowns outlive the alert, tags follow the alerts, a request is sent once. |
| `Identity` | 702 800 | A Mac from before the cutover and two later certificates (renewed, from a manual install, or stray), three webhooks on their way, and one step at which a write fails, a webhook is lost or overtaken, or both: no lockout, no foreign certificate put back, tokens survive, a rolled back renewal stays so. |
| `Declarations` | 581 071 | Three declarations, three callers, two disturbances: what is published was sent, a device at rest holds what is served and the console names what it holds, device and console converge. |
| `Dep` | 244 722 | Two serial numbers, four events: the cursor never passes what was not applied; rows and profile come to agree with Apple. |
| `Secrets` | 1 889 100 | Two passwords of ours and a foreign one, two callers, two tasks, two disturbances: what the Mac answers to is on record, what counts as settled opens it, reveals stay on the board. |
| `Apps` | 249 481 | Two versions, two tasks, three disturbances, a first download that may fail in silence: the Mac comes to hold the wanted version, or the row retires. |
| `Poller` | 522 996 | Two devices, a budget of two, two refusals, enrollments, installs or restarts: every device is asked for everything again and again. |
| `FlowFiles` | 446 291 | Two clients, two ids, two passwords, three edits, drafts or restores: the document stays one the engine can run, and a versioned save undoes nobody's work. |
| `FlowBoard` | 893 303 | All flows of three steps with two slips, two enrollments of a held Mac: accepted flows run, warnings are right, and a held Mac is on the board. |

Larger or narrower instances to run by hand, all passing: `Deployment_two.cfg` (two
processes reconcile side by side; `PushedOnce`, `RowConverges`) and
`Deployment_removal.cfg` (two disturbances around a removal; `RecordFollowsScope`). Flows longer than the
run's were checked to four steps until the verdicts were proved for all. `TypeOK` of
`Deployment`, `ReconcileCoalescer` and `FlowRun`, and `NoSpuriousRun`, are proved for
every value of the constants and not run any more.

### What the code does not keep

Each of these configurations ends in a violation. The property is what a comment,
docstring or test of the repository says; `findings` in `PROJECT.json` quotes it. They
are run by hand: `tlc -config <name>.cfg <module>.tla`.

| Configuration | Module | The code says | What happens |
|---|---|---|---|
| `Deployment_second_task` | `Deployment` | no second task while one is open | two processes test snapshots of the open tasks |
| `Deployment_dropped` | `Deployment` | nothing on the device when a pending record is dropped | the command may be in the queue before the row says `installing` |
| `Deployment_cancelled` | `Deployment` | a cancelled task stays cancelled | the handler's next status write revives it |
| `Deployment_edit_lost` | `Deployment` | the hash detects every edit | a stale full save pairs today's hash with yesterday's install |
| `FlowRun_ended` | `MCFlowRun` | a full save cannot clobber a concurrent writer | a run cancelled while it is advanced is saved back to waiting |
| `FlowRun_wakeup` | `MCFlowRun` | the check before a park closes the lost-wakeup window | a signal between check and park is dropped |
| `FlowRun_release` | `MCFlowRun` | the gap ledger is append-only | a signal's late context save restores the ledger from before the timeout |
| `Alerts_declined` | `MCAlerts` | a decline during a claim is honoured | the refusal does not move `updated_at`, so the claim overwrites it |
| `Alerts_twice` | `MCAlerts` | a claimed entry cannot be approved again | an evaluation puts the claimed entry back |
| `Declarations_reenroll` | `Declarations` | clearing the token makes the next sync publish | the save of a sync that was under way writes it back |
| `Dep_enroll` | `Dep` | the cursor moves only with all records processed | a device that enrolls meanwhile makes its record fail, and the cursor moves |
| `Secrets_rerun` | `MCSecrets` | a failure keeps the earlier password | the row was overwritten before the command was sent |
| `Secrets_lost_reply` | `MCSecrets` | nothing reached the Mac when the send failed | NanoMDM had queued it, and the parked password is gone |
| `Apps_upgrade` | `Apps` | the old version does not confirm an upgrade | the acknowledgement forgets which version was reported |
| `FlowFiles_emptied` | `MCFlowFiles` | the enrollment flow cannot be deleted | an empty document passes every check, a restore runs none |
| `FlowBoard_by_hand` | `FlowBoard` | the in-setup alert is about a held Mac | a release by hand does not tell the run, which opens it again |
| `FlowBoard_push` | `FlowBoard` | only a run that sent DeviceConfigured resolves the alert | it resolves when the push is spawned; the push then fails |

A further one has no configuration, as nothing in the repository denies it: an
administrator's password set twice (*again*) while a reveal of it is between its read
and its alert leaves a row that does not know it was revealed, and the rollback of a
later change then puts that row back without its alert.

The passing runs keep these causes out by a named constant (`Overlaps`, `Mishaps`,
`Faults`, or the bound of one disturbance), so each run says under which interleavings
its properties do hold.

### Properties

* `PushedOnce` (Deployment): a task's command is before the device at most once:
  not twice in the queue, not in the queue while it is answered, and no handler
  still about to push once it was. It is about handlers, queue and answers of all
  processes at once, and a retry must be a new task to keep it.
* `EveryTaskSettles`, `RowConverges`, `DeviceConverges`, `RecordFollowsScope`: what the
  loop is for, for a profile in scope and for one that left it. Convergence is
  conditional on `EventuallyPrompt` (from some point on the device answers before
  half an hour passes): a device that always answers between the timeout sweep's
  query and its update would be retried for ever.
* `OneRun`, `RequestCarried`, `EveryEditApplied`, `ImplementsSingleFlight`
  (ReconcileCoalescer).
* `OneAdvancer` (FlowRun): two callers never carry one run through its flow from
  two copies. It rests on the conditional UPDATE and on nobody putting a run back to
  waiting but its advancer. `CompletedStays`, `EscalationPinned`, `EveryRunEnds` are
  about the same row's later life.
* `VetoHolds`, `ApprovedOnce` (Alerts): the detail column as three parties rewrite it.
  `BudgetHeld`, `CooldownRespected` count over the alerts of a rule, not over one
  alert: a reopened alert continues its predecessor's count. `TagsFollowAlerts`
  relates the device's tags to all its active alerts.
* `NoLockout` (Identity): the certificate that the Mac uses, once accepted, is never
  pruned. `RolledBackStays`, `PemNamesIdentity` are about what a rollback leaves
  behind, `CopyOutlives`, `FlagTrue` about the bootstrap token in three places.
  `CopyOutlives` leaves out the time in which NanoMDM holds another machine's token and a
  renewal is under way or a refusal is recent: the renewal's check-in then seals the token
  that NanoMDM has.
* `PublishedWasSent` (Declarations): the token that stops further syncs names a set
  that this enrollment was sent. `SettledIsTrue`: a device that is done with the set the server
  serves holds exactly that set, though it was fetched one declaration at a time while the
  configuration moved, and the console, told by increments, names exactly that. `Converges`.
* `CursorCovers` (Dep): a statement about Apple's whole log up to the cursor, since what
  is behind it is never read again. `Converges`.
* `EscrowHolds` (Secrets): whatever password of ours the Mac answers to is stored or
  parked, at every moment between escrow, send, execution and answer.
  `ConfirmedOpens`: what the console shows as settled opens the Mac.
  `RevealOnRecord`: a password seen and still stored has its alert.
* `Converges` (Apps) and `EveryDeviceAsked` (Poller): liveness over every disturbance
  within the bounds.
* `SavedAsMeant` (FlowFiles): a versioned save writes what its editor meant over the
  file as it stands, with the passwords the editor could not see. `WellFormed`,
  `SetupStepsScoped`.
* `AcceptedRuns`, `ReleaseAccountedFor`, `EmptyBarrierNeverParks` (FlowChecks): the
  validator's verdicts, held against every run of the engine. `HeldIsOnBoard`
  (FlowBoard): over failures, supersessions, orphans and a second enrollment.

### Bounds, and why they are enough

* Deployment: two task ids suffice for an old and a new attempt at once, which is
  what the stale-copy races need; two definitions tell a stale hash from today's;
  one disturbance keeps the graph within minutes, and each kind occurs in
  some behaviour. Ages stop where every comparison has come out.
* ReconcileCoalescer: a worker per request, and one to spare, so that a new worker can
  overlap a finished one; edits, requests and failures are counted to their bounds.
* FlowRun: one row, because the races of a run are between its claimants, and the
  rows of two runs are disjoint; two refs make a barrier with a partial arrival; a
  wait, two gates in a row and a rung give each claimant somewhere to go wrong; two
  troubles allow a stop after a supersession. The flow's start is a check-in's; the
  violation of `EndedStays` uses an enrollment's.
* Alerts: two rules to share a tag, two alert rows so that one can reopen, two attempts
  so that the budget runs out after a retry, a clock of two cooldowns, two requests.
* Identity: three certificates are the old one, its renewal and a further one of another
  origin; of three webhooks on their way two can be overtaken; one failed write and one
  mishap reach each branch that handles them.
* Declarations, Dep, Secrets, Apps: `MaxEvents` bounds everything that nobody is obliged
  to do (edits, faults, administrators). One item of each kind (tagged, in a wave,
  unsupported); two serials, so that a page can end between them; two passwords and two
  tasks, so that an old attempt meets a new one; two versions, which is an upgrade.
* Poller: two devices compete for the budget; the intervals and delays are two or three
  ticks, so that they come due at different times.
* FlowFiles: two ids and two passwords are enough to swap or lose one; two clients to
  overwrite; three edits, drafts or restores, so that a draft can be saved, promoted and met by another
  editor's save.
* FlowBoard: three steps between start and end hold an install, a wait and a release in any
  order, twice over with a branch; two slips make a cycle with a missing edge.

`CHECK_DEADLOCK FALSE` is set where the system really may stop: a flow run that
ended, with nobody left to start one, a removed tenant without a worker, and the
modules whose events are bounded. `Poller` and `Deployment_faults` check for deadlock.

### Fairness, and why the code justifies it

* Scheduler jobs recur for ever (`main.py`, `MDMController.start`): `StartCycle`,
  `SyncStarts`, `BeginSweep`, `FailOrphan`, `BeginSync`, `BeginPush`, `Tick` are fair.
  `BeginSweep` and `FailOrphan` are strongly fair because the sweeping process may be
  busy in between, and comes back at every poll tick.
* Started coroutines run on: cycles, handlers, answers, workers, syncs and flow advances
  are weakly fair. A crash disables them, it does not make them unfair.
* An enrolled device fetches its commands, its declarations and its downloads
  (`DeviceExecutes`, `DeviceSyncs`, `Take`, `Downloaded`). In FlowRun and in Poller the
  device owes nothing: a silent device ends in a timeout, and is asked again.
* Apple and NanoMDM answer in the end; a refusal is one of the bounded events.
* Time passes: `Tick` in Deployment is strongly fair, since handlers start and end for
  ever; ages and delays elsewhere are weakly fair, deadlines are reached (`Expires`).
* Retention deletes finished tasks: `PurgeTask`, `Purge`.
* Nobody is assumed to edit, retry, decide a gate, or ask for anything, except that a
  Mac that checked out enrolls again in `Declarations` (otherwise nothing converges).


## 4. What is proved

Every theorem holds for every value of the constants that satisfies the module's
assumptions (finite sets, a null outside each set, naturals, the doubling of the retry
delay reaching its cap). No fairness is used. Some name a hypothesis of their own, which
holds in the runs:

| Hypothesis | Where | What it leaves out, and why |
|---|---|---|
| `Apart` | the five of `AlertsProofs` | an approval inside the evaluation of the same device: the evaluation writes the claimed request back (`Alerts_twice`) |
| `Unresolved` | `TagsOfAlerts` | an alert resolved in the middle of an evaluation, which then puts tags on the device that no active alert carries |
| `Onwards` | `DeviceAndConsoleAgree` | a set that comes back while the device fetches a later one, and a wave that opens over a cached set (section 2, *revert* and *warm*) |
| no `"two"`, `"debris"`, `"lostReply"`, `"rerun"`, `"reenroll"` in `Overlaps` | `PasswordsAreHeld`, `SettledPasswordsOpen` | what section 2 says of each: with any one of them TLC finds `EscrowHolds` broken within the run's bounds (`Secrets_lost_reply` and `Secrets_rerun` are two of these), and `ConfirmedOpens` with each but *rerun* |
| no `"two"`, `"again"` in `Overlaps` | `RevealsStayOnRecord` | two changes at once, and the order described under section 3 |
| `"reenroll" \notin Overlaps` | `PublishedAlwaysWasSent` | a device that enrolls again inside a sync (`Declarations_reenroll`) |
| one sync, no enrollment in it | `CursorAlwaysCovers` | `Dep_enroll` |
| `"pushFails" \notin Mishaps` | `HeldAlwaysOnBoard` | a DeviceConfigured push that fails (`FlowBoard_push`) |
| `Fits` | the three verdicts of `FlowChecks` | a flow with more nodes than one advance executes (`MAX_NODES_PER_ADVANCE`, 100 in `atc.py:37`): the gate refuses a flow of more than `MAX_NODES_PER_FLOW` (`flow_gate.py:423`), which is 100 too unless the environment sets it higher; the engine fails a run that passes the cap |

| Theorem | Says |
|---|---|
| `DeploymentProofs!TypeCorrect` | every reachable state is well shaped |
| `DeploymentProofs!PushedOnceAlways` | no task's command is ever before the device twice |
| `DeploymentProofs!CoalescerTypeCorrect` | every reachable state of `ReconcileCoalescer` is well shaped |
| `DeploymentProofs!OneRunAlways` | one worker at a time reconciles a tenant |
| `DeploymentProofs!RequestsCarried` | a pending request has a registered worker that will look at it |
| `DeploymentProofs!NoSpuriousRuns` | never more runs than requests |
| `DeploymentProofs!CoalescerRefines` | initial states and steps of `ReconcileCoalescer` are those, or stutters, of `SingleFlight` |
| `FlowRunProofs!TypeCorrect` | every reachable state is well shaped |
| `FlowRunProofs!OneAdvancerAlways` | a run is carried through its flow from one copy at a time |
| `FlowRunProofs!CompletedStaysAlways` | a completed run stays completed |
| `FlowRunProofs!EscalationPinnedAlways` | a gate is not escalated on the deadline of an earlier park |
| `DepProofs!CursorAlwaysCovers` | what the stored cursor has passed was applied, if one sync runs at a time and no device enrolls inside it |
| `IdentityProofs!PemAlwaysNamesIdentity` | the certificate kept to put back is the device's own |
| `IdentityProofs!RolledBackForGood` | a certificate whose renewal was rolled back is never the device's again |
| `IdentityProofs!NeverLockedOut` | the accepted certificate that the Mac uses is never pruned |
| `IdentityProofs!FlagIsTrue` | with the webhooks handled, the token's flag is only set while NanoMDM holds a token |
| `IdentityProofs!CopyIsKept` | the sealed copy of the token that the Mac has is neither dropped nor replaced, but for what the property leaves out |
| `DeclarationsProofs!PublishedAlwaysWasSent` | what is published was sent to this enrollment, if no device enrolls again inside a sync |
| `DeclarationsProofs!DeviceAndConsoleAgree` | a device done with the served set holds exactly it, and the console names exactly what it holds |
| `AlertsProofs!BudgetOfRepairs` | a rule that is never quiet for long gets `MaxAttempts` runs in all, over all its alerts |
| `AlertsProofs!CooldownOfRepairs` | two runs of a rule's remediation are a cooldown apart, over all its alerts |
| `AlertsProofs!Refusals` | a refusal outlives the evaluations: no request is pending on an alert that carries one |
| `AlertsProofs!ApprovedRequests` | a request is sent at most once, however many approve it |
| `AlertsProofs!TagsOfAlerts` | between evaluations the device carries the tags of its active alerts and no others |
| `SecretsProofs!PasswordsAreHeld` | the password of ours that the Mac answers to is stored or parked |
| `SecretsProofs!SettledPasswordsOpen` | a password that is shown as settled opens the Mac |
| `SecretsProofs!RevealsStayOnRecord` | a revealed password that is still stored has its alert |
| `FlowBoardProofs!AcceptedFlowsRun` | no run of an accepted flow finds an edge missing, a node unknown, or the cap |
| `FlowBoardProofs!UnwarnedReleases` | a release without a warning lets no Mac out blindly |
| `FlowBoardProofs!EmptyBarriersPass` | a wait that is called empty parks no run |
| `FlowBoardProofs!HeldAlwaysOnBoard` | a held Mac is on the alert board, if the push that lets it out does not fail |
| `FlowBoardProofs!FilesStayRunnable` | flows.yaml stays a document the engine can run, whoever edits it |
| `FlowBoardProofs!SetupStaysScoped` | no Setup Assistant step gets out of the enrollment flow unless somebody acknowledges it |
| `FlowBoardProofs!SavesKeepTheWord` | a save that names its version writes what its editor means, passwords included |

*Deployment.* The inductive invariant is `TypeOK /\ PushedOnce`. `PushedOnce` is
inductive only together with its last conjunct (a task with a handler, a queued
command or an answer under way has a row), which keeps an id from being reused too
early, and with `TypeOK`, which makes the queue a sequence. The proof splits it
into a part about the queue (`Distinct`) and one about each task (`Once`). Most
actions are *calm*: they give no task a command, an answer or a handler it did not
have, and one lemma (`CalmKeeps`) covers them. What is left is case by case: the
pushes append a task whose handler was still about to push (`AppendOnce`,
`PushKeeps`), the device takes the head of the queue (`TailOnce`), NotNow puts it at
the end, and new tasks take an id nothing refers to (`NewTaskKeeps`).

*ReconcileCoalescer.* `WorkerInv` adds to the types what the single-threaded
event loop gives: the worker that exists is the registered one (`MapExact`), and a flag that is set has one registered to pop it (`FlagWatched`).
The flag's pop is the one step that several places share, so it has a lemma of its own.
`CoalescerStep` goes through the actions and names the abstract step each one is.

*FlowRun.* Flow, ladder, number of runs and of administrators are arbitrary. `Shape`
strengthens `TypeOK` with what a caller's copies must look like for the next step to
stay inside the types: a copy that is carried is running and at a node, a parked row is
at a node that parks, and what a signal or a sweep has listed was waiting when it was
read. `Carriers` strengthens `OneAdvancer`: a run that somebody carries is not
waiting, completed or absent in the database, so no conditional UPDATE can claim it a
second time; the full save at the end of a carry is then the save of the only carrier.
`Pinned` says that nobody holds a copy from another node of a row whose deadline is
over. Every step but two is `Orderly` and `Pinning` for the one caller that takes it,
and `OrderlyKeeps` and `PinningKeeps` draw the conclusions once; the kinds of step have
a lemma each (`TurnsAway`, `GoesOn`, `SavesIt`, `TakesIt`). The two others are a process
that stops, which moves several callers, and a deadline that passes. `Pinned` rests on
what `Expires` assumes of the clock: a deadline is minutes away when a row is parked,
and a copy from before the park is not held that long.

*Dep.* `CursorCovers` is about one cursor, but `complete_link` may write back an older
row, and a sync's cursor becomes the stored one at its end. So `IInv` says it of every
cursor that is, or may become, the stored one (`Stored`). Three more facts make that
inductive. `Order`: the running sync starts at or after each of them. `Due`: a record
that the sync has still to apply says what the log says up to each cursor that answers
for that serial, and the sync is right about which rows exist; this is where a device
that enrolls meanwhile breaks it. And a sync that will move the cursor has, for every
serial, either applied the record or still has it to apply (`Applying`). The log lemmas
(`LastUntouched`, `LastInWindow`, `GrownKeepsPast`) say when the last operation on a
serial is the same for two cursors. Steps that only make the log grow share `LogStep`,
steps that leave log and rows alone `CalmStep`; `CollectStep`, `ApplyStep` and
`FinishStep` are the heart. `DepAssumption` (finitely many serials) is needed for one
operation per serial at Apple.

*Alerts.* An alert is resolved and a new one takes its place, so a count that must last is
about the alerts of a rule. `Succession` (only the latest alert of a rule may be active)
and `Counted` tie the rule's history to the latest alert's row: its attempts are at least
the runs since the rule was last quiet, and `Spaced` says the same of its last run. What
an evaluation carries while it sends is `Firing`, what an approver carries is `Claims`:
the copy that a claim writes back has the row's own counters, tags and last run, as long as the row
is the one that was read. Each handler is a lemma about the one row it touches
(`Launches`, `Notes`, `Waits`). For refusals, `Asked` adds that requests are numbered as
they are asked for, that no two alerts have the same one pending, and that the copy an
evaluation will write back carries no refused request unless the row says so. For
`ApprovedOnce`, a request is at each moment in one of three stages, and `Once` has a part for
each: pending and unsent (`HeldUnsent`); read by some approvers, all from one row and at
most one of whom the conditional write lets through (`ReadUnsent`); claimed by one
(`ClaimedByOne`). For the tags, an active alert must carry what the evaluation has
set and not yet written (`Tagging`).

*Identity.* The handlers are functions on worlds, and so are the lemmas: `PruneSame` and
its like leave identity and certificate alone, `AcceptGood` and `RollBackGood` are the
two that change them, and `BindGood` composes them in the order of `_bind_row`. For
`RolledBackStays`, `Sound` says that only renewals are rolled back and that nothing
becomes the identity but the newest certificate that still holds, one that is accepted
for the first time, or the one certificate of the cutover; `Kept` says which handlers
leave kinds, ranks and bindings alone.

`NoLockout` is about what every order of the webhooks still in the inbox leads to.
`LockInv` states it for the world, the Mac and the inbox together, as long as no webhook
was lost or overtaken. `Rows` and `Identified` say which certificate the device row names: the
latest one bound, or the one of the cutover. `Recorded`: what NanoMDM recorded last is
either still to be bound or is that one. `Asked` ties the Mac to the inbox: what it tries
and uses has its check-in on the way, in its place before the answer to the renewal's
command. `Awaits` then says that a renewal that NanoMDM has recorded and the server has
not bound is open, allowed, and has its Authenticate ahead of its answer, so that no refusal
or rollback can come first; and `Keeps` that the certificate in use is allowed and
either is the identity or came before an open renewal (`Safe`), which is what stops a prune.
Handlers that look at the same rows share `SameView` and `Alike`.

`FlagTrue` is proved on top of it. `FlagInv` says that the flag is ahead of NanoMDM's token
(`Flagged`) only while the Authenticate that cleared the token is on its way
(`Called`) and the handler of a check-in will put the sealed copy back or take the flag
down (`Due`): the certificate that NanoMDM recorded is an open renewal, or a fresh
enrollment. `Tok` is what all handlers preserve, so that each needs one lemma;
`Redone` says that nothing on the minute's list is a renewal that still stands.

`CopyOutlives` is proved on `LockInv` too. While no write has failed, `CInv` holds of the
world, the Mac and the inbox. Its `Copied` bounds where a token can be: beside the Mac's
sealed token NanoMDM holds the same one, none, or another machine's (`Mixed`).
`Announced` says that another machine's association is only there while the Authenticate
next to be handled will prune or park it, and that NanoMDM's record is then that machine's, or
an open renewal's whose own Authenticate comes behind (`Late`). `Explained` says why a
mixed pair does no harm once no refusal is recent: the other machine's association is still
there; or a renewal's Authenticate is to be handled yet, after which the two tokens are the
same (`Returning`); or no webhook on its way would seal what NanoMDM holds (`Over`).
`Newcomer` is about the other way to lose the copy, a new install: as long as NanoMDM's
record is an enrollment that is not bound yet, the Mac's token is not the sealed one.
`Copies` is what all handlers preserve, one lemma for each.

*Declarations.* A sync between its send and its save carries the set it will publish;
`SavesWhatWasSent` says that this enrollment was sent it. A check-out clears `told`, and
would break it for a sync under way; the handler and an enrollment wait for the sync
unless `Overlaps` has *reenroll*, which is where the assumption comes in.
`SettledIsTrue` needs the whole conversation. A declaration that the server no longer
serves is *gone* (`Gone`): superseded by a later revision, not supported by the device, or
withdrawn; under `Onwards` it stays gone (`Ages`). `Fetching` says that whatever the
device lacks of the set it fetches it has still to ask for, or the server no longer has;
`Settling` that whatever it holds is served or gone, so at rest on the current set it
holds that set; and `Heard` relates the console's rows to the device's last report, with
the exceptions that a report under way makes, which is what incremental reports rest on.

*Secrets.* `Shapes` types the state; `Lone` says that one caller at a time has a change
under way. For the reveals, `Ledger` says that a row whose password was revealed, or is
being revealed, is marked so, also in the copy that a change would put back
(`AccountChange`), and that no password is set twice, without which the mark is lost.

For the escrow, `Commands` and `CallersOk` first say how a command's task, its place in
NanoMDM's queue, its answer and its acknowledgement exclude each other, that the queue
hands commands out in the order in which their tasks were made, and that a change
under way has the last one. `LockOk` is then about the lock's row: the
stored password has at most one command that may still set it (`unconfirmed`), the parked one has
exactly one, these two are the only ones in the queue, the older first, and what each is
known to have done (`Did`, `DidNot`) limits what the Mac answers to. The hard part is
`LockCaller`: a rotation keeps the copy of the row that its plan read and writes that
copy's `unconfirmed` back, though an acknowledgement may have come in between. Where
copy and row differ, the Mac has taken a password of ours and neither command is still to be
taken, so writing the old one back marks a password as unconfirmed that is set, and never the
reverse. `AccountOk` is simpler: the account's command is asked for once. A step that leaves
a row, its commands and the Mac as they were, or loses something on its way, is *calm*
(`LockCalm`, `AccountCalm`), and most steps are that; `StepIs` lists what is left.

*FlowBoard.* `HeldIsOnBoard` needs `MarkTrue`: the marks in the run's context never say
of a held Mac that something let it out, and its alert was opened when it parked.

*FlowChecks.* The validator walks the graph with one recursive function (`Reach`) and the
engine runs through it, so the proof is about what the recursion computes. A recursive
function over the naturals has no value in the proof system until one is shown to exist:
`IteratesExist`, `StagesExist` and `ReachStages` do this for the stages of the walk, by
least counterexample (`LeastNat`, from the library's well-foundedness of the naturals)
instead of the induction theorems, which take an operator. A stage that adds nothing is
the last (`StandStill`), and as many stages as there are nodes cannot all add one
(`StagesClimb`); so `Reach` has its roots, is closed under the edges (`ReachSound`), and is
within every such set (`ReachLeast`). `OneMoreBehind` concludes that along an edge of an accepted
flow the set of nodes behind grows, so a run takes fewer steps than the flow
has nodes; `WalksOn`, `WalkStarts` and `FeedsIt` follow what an install has asked for to the barriers.
`ChecksInv` puts this beside the run: it is at a live node (`OnItsWay`), what it expects
was asked for by gated installs from which a walk without barriers leads to where it is
(`Carried`), nothing it asked for is lost from sight (`InSight`), and it parks only for
something it expects (`ParkedFor`). The three verdicts follow, for the runs of
`FlowChecks` and for those of `FlowBoard` with its stops, releases by hand and
enrollments.

*FlowFiles.* Any ids, passwords and number of editors, and a document of any length.
What the document needs to be fit for, a restore needs of every snapshot, since a restore
passes no gate: `FilesRunnable` and `FilesScoped` are about both. `FilesTracked` is about
each editor: with the passwords of the version the copy goes by, it is what the editor means, and
each sentinel in it stands for a flow of that version. An edit keeps this flow by flow; a
save keeps it because the document written, restored from itself, is itself
(`RestoredAgain`, which needs its keys to be distinct); creating and discarding a draft
keep it because a flow's password is found by its key, whatever is appended or dropped
beside it (`PasswordAppend`, `PasswordWithout`), and because the version they check says that what
the editor was shown is still there (`CurrentStored`). The draft handlers look only at
findings that the change brings in. `DraftGate` says why that is enough: the document
has no findings of the kinds that matter to begin with. Dropping flows from a sequence is `Kept`,
which numbers the positions that stay by counting those before them; `Places` shows that
this is a bijection in order, by least counterexample and not by induction over data.

Only model-checked is what needs liveness under fairness (convergence, settling,
`EveryEditApplied`, `EveryRunEnds`, `EveryDeviceAsked`, the fairness half of
`ImplementsSingleFlight`), which is out of the proof system's reach.

## 5. Not modelled, and why

* Data formats, plist and YAML parsing, field validation, redaction outside
  flows.yaml, logging, audit rows: no property here tells them apart. One consequence is
  noted: a retried task whose definition was redacted is reloaded from the YAML by the
  code and simply carries its definition in `Deployment`.
* Profiles held on a device by a flow or a remediation although out of scope; apps held
  by a remediation, installed from the console, or removed.
* The cutover of identities (`run_cutover`), a device that changes its udid, return to
  service, tenant removal during a cycle.
* Cryptography: secret storage, DEP tokens, certificates, password hashes.
* Two runs of one flow side by side, the length of cooldowns and intervals, caps on active runs.
* The webhook's fan-out takes a device lock and then a slot of the shared semaphore
  (`webhook_handler.py:188-190`). Waiting in a circle would need a coroutine that
  holds a slot and asks for a device lock; what is spawned into the slots (task
  handlers, DeviceConfigured and name pushes, the dispatcher's notifications) takes
  none, so the order is the same everywhere. This is a fact about the call graph and not
  about interleavings, and no module states it.
* Authentication, agent API, schema upgrades, readiness: requests over one row, SQL at
  boot, read-only diagnostics. `PROJECT.json` gives the reason for each component.
* Hazards that no property covers are listed with their reason in `PROJECT.json`,
  and the ones that an `Overlaps` constant keeps out are named there too.

## 6. Plan

Done, in this order: the deployment loop (the product's core promise), the coalescer
that triggers it, the flow engine, and the proofs of these three; then apps, alerts,
identity, declarations, DEP, secrets, the poller, flow documents, and the validator's
verdicts against the engine with the board of a held Mac.

What would come next:

1. `FlowRun` over the task life cycle of `Deployment` in place of its `deployed`
   variable, and two runs of one flow on one device.
2. Remediations that hold profiles and apps: `Alerts` beside `Deployment` and `Apps`.
3. The cutover of identities, as a start state of `Identity` that is not yet settled.
4. An abstract specification of *exactly one claimant* that every conditional UPDATE
   (flow runs, approvals, renewals) is shown to implement.
