# A TLA+ model of the Data Plane

The Data Plane runs Deployments of Environments: it accepts requests, compiles
them into a resource graph, lets Core admit them, hands them to a Runner and
takes in what the Runner reports. Several replicas do this at once over one
Postgres database, with Core, the message broker and the Runners behind
unreliable calls. This directory models the parts of it where an order of steps
nobody tested could do harm, checks them with TLC on small instances and proves
the central properties with TLAPS for instances of every size.

## Inventory

| Component | State | Operations | Hard behaviour | What makes it correct |
|---|---|---|---|---|
| Environment arbitration (`model/deployments.go`, `deployment_dispatch.go`) | the Deployments, the two heads `last_executing` / `last_state`, the lease | create, complete, renew and expire the lease | the lease expires while its Deployment runs; a watchdog fails a Deployment whose Runner still runs | one Deployment executes; the lease follows it; nothing replaces a plugin's Runner whose fate is unknown |
| Deployment queue (`model/deployment_queue.go`, `api/deployment_queue_promotion.go`) | `environment_deployment_queue` rows; kicks pending in memory | enqueue, kick, claim, promote, defer, reject, cancel, expire, sweep | promoters on every replica, cancellation, sweeper and bulk rejection race for one row; crashes between Core's answer and the commit | first come first served, at most once, what is settled stays settled, nothing waits for ever |
| API requests (`api/deployments.go`, `deployments_core.go`) | idempotency keys on Deployments and items | validate, replay, create, enqueue when busy | the base graph is read outside the Environment lock; calls are retried | one key, one Deployment, one answer; no change compiled against a stale base |
| Runner dispatch and capacity (`createdephandler`, `runnerstatushandler`, `model/runner_capacity.go`) | dispatch budgets, Runner slots | reserve, begin dispatch, check status, watchdog, release | at-least-once events, timeouts racing late results | a running Runner keeps its slot; one Runner per attempt; no command after the budget (ECS excepted) |
| Runner back ends (`runners/`) | Jobs and Pods, ECS tasks and definitions, agents | start, is-running, check status | counters and listings that lag, calls that fail half-way, Starts that overlap | what a status check says is true when it is said, as far as the back end looks |
| Runner results (`api/late_runner_results.go`, `runnerresulthandler`) | event inbox, completion receipts, stop proofs | result, error, late completion | results after the watchdog, twice, or after later Deployments | a late result proves a stop and rewrites nothing |
| Outcome acknowledgement (`model/deployment_outcome_acknowledgements.go`) | acknowledgement rows | acknowledge, wake a deletion | takes its locks in the opposite order of a promoter | what waited behind the fence never starts by itself; no deadlock |
| Environment observations (`model/environment_observations.go`) | receipts, seals, results | start, resolve, redeploy, complete, expire | the Control Plane asks again and resolves while a start is under way | "not started" is final; one run per receipt; a redeploy starts from what was observed |
| Core admission (`api/deployment_admission.go`, `model/deployment_admissions.go`) | admission receipts; Core's guard | prepare, authorize, bind, seal, settle, reconcile | two databases, lost answers, late calls, crashes anywhere | Core's guard and the Deployment agree, and the guard is released |
| Environment deletion (`envdestroyhandler`) | Environment status at the Control Plane | withdraw the queue, destroy, delete rows | retries of a step already done | the Environment is destroyed or reported as failed once no Runner's fate is unknown; nothing is deleted that a Deployment left |
| External operations (`api/external_operation_*.go`, `external_deployment_inspection_http.go`) | grants, receipts, plans, rollback anchors | plan, admit, roll back, read status and material | exactly-once creation, revocation, Environments recreated under one name | an operation creates one Deployment on the base it captured; answers stay true |
| Active resources (`model/active_resources.go`), graphs and programs (`graphs/`) | tables derived from graphs | compile, stamp, discard, describe | failures and plans between two successes | no resource that may exist is forgotten; programs are closed and configured |
| Completion hooks and waiting (`worker/completionhooks`) | in-memory waiters | register, evict, notify, poll, time out | a notification between check and registration, eviction | no waiter misses its completion, no channel closes twice |
| Event middleware (`worker/`) | deliveries, dead letters | deliver, settle admission, branch, recover | redelivery, deadlines, panics, dead replicas | what is acknowledged was handled (panics excepted) |
| Credentials (`vault/`, `token/`, `credentials/`) | signing key and its versions | create, rotate, sign, verify | the key is read and used in two calls | a valid token verifies |
| Module executables and bundles | catalogue entries, bundles | select, authorize, capture, rebuild | Versions change between selection and run | what runs is what was selected, admitted and compiled |
| Outputs and logs, listings, metadata keys, process start and shutdown | as named | read page by page, expire, open and close in order | rows change between statements; handlers hang | listings are complete (equal timestamps at the end of a page excepted), outputs live their window, resources outlive handlers |
| HTTP wiring, configuration, generated clients | none | | | not modelled |

The components meet in three places: the Environment's advisory lock and rows
(arbitration, queue, acknowledgement, observations, results), the admission
receipt with its own advisory lock (creation, promotion, reconciler, event
handler), and events through the outbox (created, updated, Runner results),
which are delivered at least once.

## Modules

`PROJECT.json` maps every definition to the lines it models.

| Module | What it is |
|---|---|
| `EnvironmentQueue` | one Environment with everybody who works on it |
| `EnvironmentQueueProperties` | its type invariant, safety, action and liveness properties, and the refinement mapping to `QueueContract` |
| `QueueContract` | the abstract queue: one Deployment at a time, first come first served, at most once |
| `DeploymentAdmission` | Core admission: attempts, receipts, the reconciler, Core's guard |
| `DeploymentRequests` | POST /deployments: keys, replays, validation, the fields of a request |
| `QueueKicks` | kicks coalesced in a process, promoters that skip a held head, the sweeper |
| `CompletionHooks` | the registry of waiters and the long-poll handler |
| `OutcomeAcknowledgement` | the acknowledging calls, their record and the wake |
| `EnvironmentDestroy` | the deletion handler step by step, its admission, the deletion of rows |
| `RunnerDispatch` | created and status-check handlers, slots, budgets, jobs |
| `KubernetesRunner`, `EcsRunner`, `RunnerTransport` | the back ends and what a Runner is told to do |
| `RunnerResults` | results and errors of Runners, the inbox, late completions |
| `RunnerCredentials` | the signing key, tokens and their verification |
| `EventConsumer` | delivery, middleware and branches of the main consumer, with its proofs |
| `ObservationRequests` | observations and redeploys: receipts, seals, results, retention |
| `ExternalOperations`, `ExternalInspection` | plugin operations; readiness and planning |
| `ResourceGraph`, `ActiveResources` | compilation of graphs and programs; the tables of active resources |
| `ModuleParams`, `TofuExpressions`, `ProviderSubs`, `PlanProjection` | the conversions on the way to a program or a plugin's plan |
| `ModuleExecution` | which module code a Deployment runs |
| `DeploymentMaterial` | outputs and logs, their readers and their cleaner |
| `DeploymentListings`, `MetadataKeys` | paged listings; metadata keys |
| `ServerLifecycle` | start, shutdown and outbox of one process |
| `EnvironmentQueueProofs` | theorems about the Environment |
| `AdmissionProofs`, `ObservationProofs`, `DeploymentRequestsProofs` | theorems about the components they name |
| `OutcomeProofs` | theorems about acknowledgements and waiting calls |
| `RunnerDispatchProofs` | theorems about dispatch and about the module code a Deployment runs |
| `ResourceProofs` | theorems about credentials, programs and active resources |
| `MC*` | instances for TLC |

An `MC` module that checks several components chooses one `part` (in `MCQueue`
one `scenario` of the same component) in its initial state; the others stand
still. The components of a suite share no state, so this explores each of them
completely and not their product. A suite EXTENDS one or two components, whose
properties it checks under their own names, and takes the others as INSTANCEs; a
property it defines itself is a conjunction of what their modules state.

A definition commented as a mutant, or named in a module's header as a seeded
fault, is used by no action: it is a plausible bug in the definition that
`PROJECT.json` pairs it with, and the paired property fails when it takes that
definition's place.

### EnvironmentQueue

A transaction that waits for nothing but the Environment's advisory lock is one
step. Four are longer and are split where somebody else can run in between:

* a *request* (`Request`, `ResolveRequest`, `CreateRequested` or
  `EnqueueDeployment`): availability and base are read without a lock, the graph
  is compiled and Core admits, then `CreateDeployment` runs under the lock;
* a *promotion* (`ClaimHead`, `CheckAvailable`, `HaltOrProceed`, `ResolveItem`,
  `CreateQueued`): one transaction that holds its item's row lock throughout and
  takes the Environment lock only at `CreateQueued`, with `lock_timeout`
  (`LockTimeout`), transient failures and crashes (`AbortPromotion`) on the way;
* an *acknowledgement* (`AcknowledgeBegins`, `AcknowledgeCommits`), which holds
  the Environment lock while it waits for row locks;
* a *Deployment*: reservation, durable dispatch attempt, the Runner's own life,
  result, failure without proof, late completion.

`CreateVerdict` is the list of checks of `CreateDeployment` in their order,
`Availability` that of the unlocked early read. Deployments and items are
numbered in creation order, so ids double as timestamps. Clocks are
nondeterministic: a lease, an item's TTL and a dispatch window may pass at any
time. Promotions may start at any time, which covers kicks, the sweeper and
events, late, twice or for nothing. Compilation, validation and Core's answer
are choices between success, refusal and transient failure. `fresh`, `guarded`,
`ended` and `waitedThrough` are history variables of the properties.

### DeploymentAdmission

Attempts of `createRequestedDeployment` and of promotion prepare a receipt in a
transaction of their own, then hold its advisory lock in the main transaction
from reading it to commit or rollback, with Core's authorization in between.
Failed attempts, the `deployment.updated` handler and `ReconcileUnsettled` seal
or settle receipts, first durably, then at Core, then mark them. Every step may
crash, every call to Core may fail before or after Core acted, and an
authorization whose caller gave up may arrive later. Core is external, modelled
from what the callers rely on: an authorization repeats its answer, an
Environment is guarded for one admission at a time, a settled admission refuses
another outcome, and an absence is remembered. Epochs, the recovery grace and
the reconciler's batch limit are abstracted: the batch is every unsettled
receipt, oldest first.

To `EnvironmentQueue` Core's answer is "admitted", "busy" or "refused"; to
`DeploymentAdmission` creation is "commit" or "refused". That is all the two
modules have in common, which is why they are checked and proved apart.

### The others

Each module's header says where its handlers are split and what is abstracted.
The pattern is the same everywhere: a database transaction is one step unless it
calls somebody remote or waits for a lock while it holds another; whatever a
handler has read before such a point is kept in its own state and may be stale;
messages are delivered at least once and may be given up; processes die between
any two steps. Ciphertexts are modelled by their recipient, hashes by what they
are taken of, texts not at all.

## Runs

| Run | Instance | Shows |
|---|---|---|
| `queue` (`MCQueue`) | four scenarios of one Environment with 3 Deployments: two promoters over halting requests and plans (2 items); two callers that name their base; a caller and a deletion; plugin rollbacks, observations, unproven failures and acknowledgements | `TypeOK`, `OneExecutes`, `ClaimIsHead`, `DispatchedOnce`, `RunnersApart`, `PremisesHold`, `SettledForever`, `NoOvertaking`, and the refinement `ImplementsContract` |
| `live_queue` (`MCQueue`) | 2 promoters, 1 caller, 1 item, observations and acknowledgements; fair | `QueueMoves`: what waits settles, an acknowledgement ends |
| `admission` (`MCAdmission`) | 2 attempts, 2 admissions of one Environment, 2 digests, deletion of rows; the deletion handler on 2 workers with its callers, and on one worker with crashes and refused creations | `CoreAgrees`, `GuardedExecution`, `OneDeploymentPerAdmission`, `OutcomeFinal`; `DeletesOnlyDestroyed` |
| `live_admission` (`MCAdmission`) | the same attempts with one digest and no deletion; fair | `GuardReleased` |
| `requests` (`MCRequests`) | 3 keyed calls and the promoter; all request fields; external operations with new and legacy lineages; waiting calls at the registry's maximum | `KeyedOnce`, `WaitersServed`, `RollbackLineage` |
| `dispatch` (`MCDispatch`) | 2 Deployments that share a Kubernetes Runner with one slot; one of them redelivered to two replicas; a Job, its Pod and its checks; overlapping ECS Starts, a task and its checks; every configuration of an observation's container; selections of one Module with two Versions, defective ones too, and two test snapshots | `DispatchSafe`, `RunsWhatWasAsked`, `BackEndsTruthful` |
| `results` (`MCResults`) | 3 events, 2 workers, 2 deliveries, panics; a plugin, an ordinary and an observing Deployment and their results on 2 replicas; listings of up to 4 rows, some of the same instant, in pages while rows come and go; metadata keys | `AcknowledgedIsHandled`, `PromotedAfterSettlement`, `ResultsKept`, `ListingsTrue` |
| `observations` (`MCObservations`) | an observation and its redeploy, 2 contents, 2 callers; external operations, planning and readiness with recreated Environments | `NotStartedIsFinal`, `RunLineage`, `ExternalAnswersTrue` |
| `graphs` (`MCGraphs`) | 2 callers of credentials over 8 ticks; 2 resources, 3 module versions, 3 providers, 3 Deployments of two Environments: one with rollbacks and a provider for each module, one without rollbacks and with a single provider; all parameters over 2 keys; strings of 3 parts; substitutions of 2 providers; all plans over 2 names and 2 values | `VerifiableWhileValid`, `ProgramSound`, `ResourcesRemembered`, `ConversionsFaithful` |
| `live_requests` (`MCLiveRequests`) | 2 operators acknowledging with 2 reasons; kicks of 2 processes; keyed calls; waiting calls; deletion; outputs; fair | `RecordIsTheirs`, `KicksSuffice`, `CallersAnswered`, `DeletionsEnd`, `MaterialExpires` |
| `live_runners` (`MCLiveRunners`) | dispatch to an agent and to ECS; results; a Job that is never scheduled; credentials; findings; one process and its restarts; fair | `RunnersServed`, `ShutdownOrderly` |
| `destroy_busy` (`EnvironmentDestroy`) | one worker, 3 Deployments, one deletion, no faults | the finding below |

Bounds. Two promoters, two callers or two replicas are enough for every race
the properties name: each is about two actors and one row, one key or one
message. Three Deployments give a predecessor, a fenced or failed one and a
successor; two items give an order. An item is only accepted while an id is left
for it (`Room`), so no behaviour ends because a bound swallowed a promotion.
Crashes, lost answers and late calls are bounded by named constants
(`MaxFaults`, `MaxDeaths`, `MaxStops`, ...) where they would otherwise repeat,
and every bound lets the event happen at least once at every place it can. In
the suites all parts of a symmetric set are used alike. The theorems remove the
bounds for the properties they state. Deadlock is checked in every run; a
component whose finite work really ends has an explicit step for that.

Fairness. Replicas run, transactions end and the sweeper, the reconciler, the
cleaners and the outbox flush run periodically, so their steps are weakly fair. A
crash may recur for ever: no assumption forbids it. Instead, a step that is tried
again and again succeeds sometime, which is strong fairness of that step:
expiring a claimed item, an acknowledgement waiting for a released row lock, each
stage of reconciling one receipt, failing a Deployment after its deadline, the
second read of a Pod. Calls that wait for an advisory lock are strongly fair
because Postgres grants it in the order it was asked for. A message that a
handler answers with an error is delivered again until the broker gives it up,
which the properties allow for. Nothing obliges a caller, an operator, a Runner,
an event or a late call to happen. In `ServerLifecycle` nothing is assumed of
handlers, because main waits for them with a time-out. In `EnvironmentDestroy`
late results and acknowledgements need not come: `DeletionsEnd` allows a deletion to
wait for as long as a failed Deployment keeps its Runner's reservation (`Kept`), and
demands that it goes on after an acknowledgement, although its event may have used
up its deliveries by then. A Deployment does not end there within the transaction
that deletes the rows it was counted for (`OutlivesTransactions`): the transaction
is far shorter.

Why `AcknowledgementEnds` is not obvious: an acknowledgement holds the
Environment lock and waits for a promoter's row; the fence normally stops the
promoter before it wants that lock, but the late result of an observation does
not take the Environment lock, so it can lift the fence while the
acknowledgement is under way. The promoter then waits for the lock with the row
in its hands, and only its `lock_timeout` breaks the cycle. Without
`LockTimeout` the property fails.

## Where the code and its documentation disagree

`destroy_busy` shows one: docs/deployment-queue.md says that a deletion which
finds its Environment busy is tried again. The destroy admission is named after
the Deployment it follows and the busy answer seals it absent, so the retry
derives the same admission, is refused, and the Environment becomes
`delete_failed`.

The others were met while modelling. The modules state each of them as a
definition that no run checks, that a run checks on an instance without the case
(marked \*), or that names the case as its exception:

* `PlanRunsApart`: docs/deployment-queue.md keeps a plan run apart from every
  other Runner; a plan starts beside the Runner of an ordinary Deployment that
  the watchdog failed.
* `AcknowledgesOnlyPluginHead`: docs/runner-dispatch-recovery.md accepts only the
  plugin-dispatched head; the code accepts every failed Deployment that still
  owns a slot.
* `AcknowledgesOnlyUnproven`: the comment in `AcknowledgeDeploymentOutcome` says
  the Environment lock serializes it with late results; those of observations and
  ordinary Deployments do not take that lock.
* `CrashedAdmissionSealed`: `ReconcileUnsettled` ends its round at a receipt whose
  Deployment was deleted, so the younger receipt of a crashed attempt stays
  pending and its guard active.
* `SentWithinWindow`: docs/runner-dispatch-recovery.md says that an expired budget
  cannot start a Runner. `BeginDeploymentDispatch` checks it, but between that and
  RunTask an ECS Start makes several calls to AWS and does not look at the deadline
  again, as the other two back ends do. With an ECS Runner in the `dispatch` instance
  TLC finds a task that starts too late; `CommandsInTimeStep`, which
  `BackEndsTruthful` checks on Kubernetes and `CommandsInTime` proves, excepts ECS.
* `EcsCompletedMeansExited`: a task that ECS does not list, because it is too new or
  too old, is "completed" for the ECS back end, where the Kubernetes back end waits
  for a Job that it does not find. The status checks then end although the task may
  still run for ever (`Overlooked`, which `EndsUnlessLost` excepts). The ECS back end
  also says "stuck" of a task that ran and takes long to stop or did not end by
  itself, which the Kubernetes back end never says of a Pod that has started. So
  `BackEndsTruthful` promises less of ECS than of Kubernetes.
* `DeletionEnds`: a late result proves that the Runner of a failed Deployment
  stopped and gives its reservation back, but unlike an acknowledgement it stores no
  event. When the deletion's event has used up its deliveries by then, the
  Environment stays "deleting" although nothing keeps it (`hist.stranded`, which the
  property excepts; docs/environment-observations.md promises the wake for
  acknowledgements only).
* `ProofKept`\*: a failed read before a result is applied is taken for a missing
  Deployment, and the result is dropped instead of delivered again.
* `AcknowledgedIsHandled`: `wrapWithPanicRecovery` assigns the recovered error to
  a local variable, so the event of a handler that panics is acknowledged and lost.
  The property excepts these events (`panicked`); the run has them.
* `ListedEdgesDisjoint`, `UsageFollowsHead`, `NothingForgotten`\*,
  `DiffCountsResources`: edges between new and old nodes are listed, a
  rollback_plan stamps nodes and so hides the modules in use, a rollback's program
  lacks what later Deployments added, and the diff of a destroy is empty. The run
  asks for no rollback_plan, and `NothingForgotten` speaks of Environments where
  nothing was rolled back so far.
* `ProvidersConfigured`\*: type and id of a provider are hashed without a separator.
  `HashesDistinguish` excludes providers whose names run together.
* `ExpressionsPass`: the escape for expressions in `validateModuleParamInner` is
  never taken.
* `KeyedRequestReplays`, `KeyRefusalJustified`, `DryRunsAnswered`,
  `PlansIgnoreQueueFields`: a repeated rollback is refused, a key is refused after
  its window, a dry run with the key of a Deployment panics, and plans are
  refused for fields they should ignore.
* `EachRowOnce`: a page token that is a creation time skips Deployments of the
  same instant. The property excepts these rows (`SkippedByTie`); the run has them.
* `ReadyHasBase`: a succeeded plan makes an Environment without a base "ready", and
  planning then panics.
* `UpdateIsPartial`, `DeleteReportsAbsence`: concurrent updates of a metadata key
  revert each other's attributes; deleting a missing key answers 204.

## Proofs

Nothing is assumed of the constants but what is listed here; the runs evaluate each
assumption on their instances. Some are `ASSUME`s of the modules:
`ConstantsAssumption` (disjoint names; natural bounds; only a request that
queues may halt on failure; plugin operations deploy or roll back and are never
queued), `AdmissionAssumption` (distinct names, finitely many admissions),
`ObservationAssumption`, `CredentialAssumption` (a token lives shorter than a key
version), `ConsumerAssumption`, `AcknowledgementAssumption`. The others are
hypotheses of the theorems that need them and `ASSUME`d by the suites:
`DispatchAssumption`, `RequestsAssumption`, `HooksAssumption`, `ModuleAssumption`,
`ResourcesAssumption` (the types of the constants, distinct names and natural
bounds) and `HashesDistinguish` (the divergence above). The theorems hold for all
constants that satisfy them.

### The Environment

Every property that the `queue` run checks is a theorem. The invariants build on
one another:

* `TypeInv` adds to `TypeOK` that a promoter past its claim has an item, or it
  would write to an item that is not there. `TypeCorrect`.
* `Exclusion`: the check of the executing head is sound because only that head
  can execute, and the lease, which may have expired, never belongs to anything
  else. `MutualExclusion` (`OneExecutes`).
* `QueueInv` adds `Claims` (a claimed item is the oldest queued one and claimed
  once) and `Arrived` (numbers beyond `enqueued` name no item). Every settling step
  is a compare-and-set on "queued" and waits for or skips a locked row.
  `ClaimsAreHeads`, `SettlementIsFinal`.
* `RowSteps` sums up what any step does to the rows of Deployments and items: it
  withdraws items, adds one, starts a Deployment directly or for the head, or ends
  the executing one. The later proofs go by these five cases instead of by the
  actions.
* `Linked`: items and Deployments point at each other, and an item that waits or
  was withdrawn points nowhere. `OneDeploymentPerItem` (`DispatchedOnce`).
* `StartsInTurn` needs the claims and the check of the head in `CreateDeployment`.
  `FirstComeFirstServed` (`NoOvertaking`).
* `Waitable`: only requests that need the lease wait, or a promotion could start
  beside a plan that holds none. With `QueueInv`, `Exclusion` and `Linked` it is
  `ContractInv`, under which each of the five row steps is a step or a stutter of
  `QueueContract`. `QueueImplementsContract` (`ImplementsContract`).
* `Fences`: the newest Deployment is the executing head, and the state head unless
  it is a plan (`Heads`); plugin operations are no plans (`PluginModes`); what is
  recorded about a Runner is true and an unreconciled outcome keeps its slot
  (`Evidence`); nothing follows an unreconciled plugin operation (`PluginFence`)
  and an observation starts after every earlier outcome is reconciled
  (`ObservedAlone`). `RunnersKeptApart` (`RunnersApart`). The fence reads only the
  state head: without `Heads` it would say nothing about the newest Deployment.
* `PremiseInv`: a promoter reads the reference Deployment and the state head
  without the Environment's lock, and both readings stay true until it creates the
  Deployment (`Promises`). Its row lock keeps everything that needs the lease out
  by `CreateDeployment`'s check of the queue's head, so only plans start meanwhile,
  and those do not move a state head that changed the state (`StateHeads`). `Read`
  says the same of a request that named its base, `Waited` which heads an item had
  seen end when it was enqueued, `Halts` names the newest change before a halting
  item and that its success is final. `PromisesAreKept` (`PremisesHold`).

### The other components

* `GuardHolds`, `SingleDeployment`, `CoreAndReceiptsAgree`, `OutcomesAreFinal`,
  `AdmissionTypes`: the safety of Core admission, from `AdmissionProofs!IInv`. Its
  parts: a worker that holds the lock has a pending receipt and, once it may
  commit, Core's guard (`ProcessInv`); a Deployment and its receipt name each other
  (`DeploymentInv`, `ReceiptInv`); Core knows nothing the durable state does not
  say (`CoreInv`); late calls and the reconciler's batch stem from receipts
  (`PendingInv`). An outcome is durable before it is reported, and the advisory
  lock keeps sealing away from an attempt whose receipt is pending.
* `NotStartedForever`, `LineageHolds`: observations, from who holds which lock at
  which step (`Locking`) and what a receipt, a seal and a run say of each other
  (`Data`).
* `TokensStayVerifiable`: the versions of the key are spaced by the rotation period
  (`Spaced`) and a token was signed with one of the last two versions
  (`TokensRecent`). It needs a token life strictly shorter than the period.
* `DispatchIsSafe` (`DispatchSafe`), `OutcomesStay`, `DispatchTypes`,
  `CommandsInTime`: dispatch for any number of Deployments, Runners, handlers and
  deliveries. Whatever an attempt has left behind (a lease, a slot, a Job) is said
  by `Attempts`: a Job exists only for a Deployment that began its dispatch, and its
  slot is held until the Job has run and ended for good. `Records` says the same of
  the rows, `Handlers` of what the handlers read before their remote calls;
  `SlotsWithinLimit` counts, `ChecksPaced` bounds the status checks. A Job that
  is gone could be created a second time, so `Attempts` adds that Jobs are collected
  only after the budget. `CommandsInTime` is about Kubernetes Runners and agents: ECS
  ignores the deadline, which is the divergence `SentWithinWindow`.
* `KeysAreUsedOnce` (`KeyedOnce`), `KeysAreHeld`: whoever has looked a key up holds
  its advisory lock until the transaction ends, and until then the key stays unused
  (`RequestsInv`). The invariant also says that a call past validation stays valid,
  that the promoter's item waits for it and holds what was sent, and that an answer
  was made of the caller's own request. Every step but the lock owner's leaves the
  key's rows and the lock alone (`Grows`, `LocksKept`).
* `RunsAsAsked` (`RunsWhatWasAsked`): the module code of a Deployment, whatever the
  catalogue answers and however often graphs are reused. Each stored Deployment is
  `Sound`: its request names an earlier one, its nodes are whole and hold no draft
  but a snapshot, and its artifacts are the versions of its live nodes. Soundness of
  the Deployment a graph is taken from is what makes that of the new one.
* `ProgramsAreSound` (`ProgramSound`): every stored graph is sound, no live node has
  an edge to one on its way out (`SoundGraph`), and every provider, those of deleted
  nodes included, resolves to live nodes; so the program configures each provider
  it uses and has a block for everything that is read. Sound graphs stay sound when
  dropped nodes are added back (`AddDeletedNodes`), and `HeadInv` carries this over
  rollbacks and destroys, which compile an old graph.
* `ResourcesStayRemembered` (`ResourcesRemembered`): the nodes stamped by the state
  head are exactly what it provisions (`Stamped`), plans stamp nothing (`TableInv`),
  and what may exist is in the graph of the state head (`InfraInv`). The last step
  needs that the next graph keeps what the head dropped unless the head succeeded,
  in which case it exists no longer. For Environments that never plan a rollback,
  because a rollback_plan stamps nodes it never creates.
* `OneRecord`: every operator who was told that an outcome is acknowledged finds
  their own request in the record.
* `CallsAreServed` (`WaitersServed`): a channel belongs to the registry or to the one
  notification that took it out (`OwnedOnce`), so it is closed once; a message or a
  closed channel is evidence that the Deployment ended or the call was displaced
  (`Evidence`).
* `PromotionFollows`, `NoEventLost` (`EventConsumer`): a worker that has reached the
  branches has settled its event. Handlers may panic; the second theorem says that
  an acknowledged event was settled and handled or its handler panicked, which is the
  divergence above.

Each inductive invariant was model-checked on an instance of its run before it
was proved.

### Only model-checked

Liveness and everything that rests on fairness (`QueueMoves`, `GuardReleased`,
`KicksSuffice`, `CallersAnswered`, `DeletionsEnd`, `MaterialExpires`,
`RunnersServed`, `ShutdownOrderly`): out of the provers' reach. The properties
that are conjunctions over components no proof is about (`DeletesOnlyDestroyed`,
`RollbackLineage`, `BackEndsTruthful`, `ResultsKept`, `ListingsTrue`,
`ExternalAnswersTrue`, `ConversionsFaithful`): no proof yet. Of these
`ConversionsFaithful` and `ListingsTrue` are about what recursive conversions and
repeated reads compute and would need induction over their data.

## Not modelled, and the plan

HTTP wiring, configuration and generated clients hold no state of their own.
Left out of the modelled components: nested parameter values and the text of
generated programs, archive formats, page-token encryption, header checks, error
texts, metrics and logs.

Unproved and worth a proof next, in this order: `RunnerResults` (a proof of a stop
is true and kept), `EnvironmentDestroy` (only destroyed Environments are deleted)
and `ExternalOperations` (one Deployment per operation, on the base it captured).
Each is a state machine of the kind proved here; each needs an invariant over two
components' records that TLC has checked only through the properties themselves.
