-------------------------- MODULE EnvironmentQueue --------------------------
(***************************************************************************)
(* One Environment of the Data Plane: its Deployments, its lease, its two  *)
(* heads, its deployment queue, and everybody who works on them at once:   *)
(* API requests, queue promoters on any replica, Runner results, the       *)
(* watchdog, plugin observations and the acknowledging operator.           *)
(*                                                                         *)
(* A database transaction that waits for nothing but the Environment's     *)
(* advisory lock is one step.  Transactions that make remote calls, or     *)
(* that wait for row locks while they hold the Environment lock, are split *)
(* where another actor can run in between.                                 *)
(*                                                                         *)
(* Operators that no action uses are seeded faults: PROJECT.json names the *)
(* definition each one replaces and the property that then fails.          *)
(***************************************************************************)
EXTENDS Naturals, FiniteSets

CONSTANTS
  Promoters,       \* goroutines that may promote this queue, on any replica
  Requesters,      \* concurrent callers of the create endpoints
  Intents,         \* the kinds of request the callers make, see Intent
  Observing,       \* may a plugin start environment observations?
  Unproven,        \* may a dispatched Deployment fail with its Runner's fate unknown?
  MaxDeployments,  \* bound: Deployments ever created
  MaxItems,        \* bound: queue items ever created
  MaxDepth         \* DEPLOYMENT_QUEUE_MAX_DEPTH

None == 0                        \* uuid.Nil: no Deployment, no queue item
Deployments == 1..MaxDeployments \* in the order of their creation
Items == 1..MaxItems             \* in the order of environment_deployment_queue.seq

Modes == {"deploy", "rollback", "destroy", "plan_only", "rollback_plan", "observation"}
Statuses == {"executing", "succeeded", "failed"}

RequiresEnvironmentLease(m) == m \in {"deploy", "rollback", "destroy", "observation"}
IsPlanDeployment(m) == m \in {"plan_only", "rollback_plan", "observation"}
Mutating == {"deploy", "rollback", "destroy"}
IsRollback(m) == m \in {"rollback", "rollback_plan"}

(***************************************************************************)
(* A request: its mode, whether a plugin operation dispatches it, what it  *)
(* wants when the Environment is busy, halt_on_failure, and whether it     *)
(* names the current Deployment as expected_base_deployment_id.            *)
(***************************************************************************)
Intent == [mode : Modes \ {"observation"}, plugin : BOOLEAN,
           whenBusy : {"queue", "reject"}, halt : BOOLEAN, expectBase : BOOLEAN]

ASSUME ConstantsAssumption ==
  /\ Promoters \cap Requesters = {}
  /\ Intents \subseteq Intent
  /\ \A in \in Intents : /\ in.halt => in.whenBusy = "queue"
                         /\ in.plugin => in.whenBusy = "reject" /\ in.mode \in {"deploy", "rollback"}
  /\ Observing \in BOOLEAN /\ Unproven \in BOOLEAN
  /\ MaxDeployments \in Nat /\ MaxItems \in Nat /\ MaxDepth \in Nat

VARIABLES
  created,      \* how many Deployments exist: the ids 1..created
  dep,          \* deployments: mode, status, plugin receipt, queue item, history
  execHead,     \* deployment_environments.last_executing_deployment_id
  stateHead,    \* deployment_environments.last_state_deployment_id
  lease,        \* environment_deployment_leases: holder, and not yet expired
  dispatched,   \* Deployments with a durable first dispatch attempt
  windowClosed, \* Deployments whose dispatch budget's deadline has passed
  stopProven,   \* Deployments with an authenticated completion
  acknowledged, \* Deployments with an operator acknowledgement
  reserved,     \* Deployments with an unreleased runner_job_reservation
  runner,       \* what the Runner really does for a Deployment
  enqueued,     \* how many queue items exist: the ids 1..enqueued
  item,         \* environment_deployment_queue
  promoter,     \* per promoter: step, the head row it locks, the base it read
  requester,    \* per API call: step, intent, expected base, the base it read
  acking,       \* Deployment of an acknowledgement that holds the Environment lock
  waitedThrough \* history: items that waited when an acknowledgement was recorded

evidenceVars == <<dispatched, windowClosed, stopProven, acknowledged, reserved, runner>>
depVars == <<created, dep, execHead, stateHead, lease>>
queueVars == <<enqueued, item>>
ackVars == <<acking, waitedThrough>>
processVars == <<promoter, requester, ackVars>>
vars == <<depVars, evidenceVars, queueVars, processVars>>

-----------------------------------------------------------------------------
(***************************************************************************)
(* Records.  History: a Deployment remembers whether its reference graph   *)
(* was current when it was created (fresh) and whether its caller named    *)
(* the base (guarded); an item remembers which Deployments had ended when  *)
(* it was enqueued (ended).                                                *)
(***************************************************************************)
NoDeployment == [mode |-> "deploy", status |-> "none", plugin |-> FALSE,
                 via |-> None, fresh |-> TRUE, guarded |-> FALSE]

NoIntent == [mode |-> "deploy", plugin |-> FALSE, whenBusy |-> "reject",
             halt |-> FALSE, expectBase |-> FALSE]

NoItem == [state |-> "none", intent |-> NoIntent, after |-> None, expected |-> None,
           overdue |-> FALSE, deployment |-> None, reason |-> "none", about |-> None,
           ended |-> {}]

NoLease == [holder |-> None, live |-> FALSE]
IdlePromoter == [pc |-> "idle", item |-> None, base |-> None]
IdleRequester == [pc |-> "idle", intent |-> NoIntent, expected |-> None, base |-> None]

Existing == {d \in Deployments : d <= created}
Executing == {d \in Existing : dep[d].status = "executing"}
Queued == {i \in Items : item[i].state = "queued"}
Newest(S) == CHOOSE i \in S : \A j \in S : j <= i
Oldest(S) == CHOOSE i \in S : \A j \in S : i <= j
QueueHead == IF Queued = {} THEN None ELSE Oldest(Queued)
RowNeverLocked(i) == FALSE
RowLocked(i) == \E p \in Promoters : promoter[p].item = i

(***************************************************************************)
(* DeploymentStopEvidence                                                  *)
(***************************************************************************)
PluginDispatched(d) == dep[d].plugin \/ dep[d].mode = "observation"
OutcomeUnreconciled(d) == d \in dispatched /\ d \notin stopProven /\ d \notin acknowledged
BlocksInWindow(d) ==
  dep[d].status = "failed" /\ PluginDispatched(d) /\ OutcomeUnreconciled(d) /\ d \notin windowClosed
BlocksReplacement(d) == dep[d].status = "failed" /\ PluginDispatched(d) /\ OutcomeUnreconciled(d)

\* RequireObservationStopped refuses: a failed observation still owns its slot.
ObservationHeld ==
  \E d \in reserved : dep[d].mode = "observation" /\ dep[d].status = "failed"

Fenced == stateHead # None /\ BlocksReplacement(stateHead)

\* ReleaseRunnerJob: a slot is released only once the attempt is known to be over.
Released(d, proofs) ==
  IF d \in dispatched /\ d \notin proofs THEN reserved ELSE reserved \ {d}

LeaseHeld == lease.holder # None /\ lease.live
HeadLeased == lease.live
HeadExecuting == execHead \in Executing

\* requireQueueHead: somebody else's request has waited longer.
NeverOutOfTurn(i) == FALSE
OutOfTurn(i) == QueueHead # None /\ QueueHead # i

BaseChanged(expected) == expected # None /\ expected # stateHead

(***************************************************************************)
(* CheckEnvironmentAvailable: the early read, without the Environment lock *)
(***************************************************************************)
Availability(i) ==
  IF ObservationHeld THEN "unreconciled"
  ELSE IF LeaseHeld \/ HeadExecuting THEN "busy"
  ELSE IF Fenced THEN "unreconciled"
  ELSE IF OutOfTurn(i) THEN "busy"
  ELSE "ok"

(***************************************************************************)
(* The checks of CreateDeployment, under the Environment lock, in order.   *)
(* i is the promoted queue item, None for every other caller.              *)
(***************************************************************************)
CreateVerdict(m, expected, i) ==
  IF ObservationHeld THEN "unreconciled"
  ELSE IF RequiresEnvironmentLease(m) /\ LeaseHeld THEN "busy"
  ELSE IF HeadExecuting THEN "busy"
  ELSE IF Fenced THEN "unreconciled"
  ELSE IF RequiresEnvironmentLease(m) /\ QueueHead = None /\ i # None THEN "conflict"
  ELSE IF RequiresEnvironmentLease(m) /\ OutOfTurn(i) THEN "busy"
  ELSE IF BaseChanged(expected) THEN "base_changed"
  ELSE "ok"

EnvironmentUnlocked == acking = None

\* Bound: one more Deployment or waiting request fits the model, and every
\* request that waits keeps an id of its own for the day it is promoted.
Room == created + Cardinality(Queued) < MaxDeployments

\* The reference Deployment a request is compiled against.  A rollback uses its
\* target, which never changes, instead of the state head.
DanglingReference(m) == created + 1
ReferenceDeployment(m) == IF IsRollback(m) THEN None ELSE stateHead

\* A rollback needs its target, a destroy something that was deployed.
HasReference(m) == IsRollback(m) \/ m = "destroy" => stateHead # None

\* No Deployment has changed the state since that reference was read.
BaseCurrent(m, base) ==
  \/ IsRollback(m) \/ base = stateHead
  \/ base = None /\ dep[stateHead].mode \notin Mutating

\* The rows CreateDeployment writes for the Deployment numbered created + 1.
InsertDeployment(m, plugin, base, i, expected) ==
  LET d == created + 1 IN
  /\ created < MaxDeployments
  /\ created' = d
  /\ dep' = [dep EXCEPT ![d] = [mode |-> m, status |-> "executing", plugin |-> plugin, via |-> i,
                                fresh |-> BaseCurrent(m, base), guarded |-> expected # None]]
  /\ execHead' = d
  /\ stateHead' = IF IsPlanDeployment(m) /\ created # 0 THEN stateHead ELSE d
  /\ lease' = IF RequiresEnvironmentLease(m) THEN [holder |-> d, live |-> TRUE] ELSE lease

(***************************************************************************)
(* Queue settlement: a compare-and-set on state = 'queued'.                *)
(***************************************************************************)
Settled(i, state, reason, about, d) ==
  [state |-> state, intent |-> item[i].intent, after |-> item[i].after, expected |-> item[i].expected,
   overdue |-> FALSE, deployment |-> d, reason |-> reason, about |-> about, ended |-> item[i].ended]

Settle(i, state, reason, about) ==
  item' = [item EXCEPT ![i] = Settled(i, state, reason, about, None)]

SettleQueuedDeployments(state, reason, about) ==
  item' = [i \in Items |-> IF i \in Queued THEN Settled(i, state, reason, about, None) ELSE item[i]]

\* The refusal names the fencing Deployment; a held observation names none.
RejectQueuedDeployments ==
  SettleQueuedDeployments("rejected", "outcome_unreconciled",
                          IF ~ObservationHeld /\ Fenced THEN stateHead ELSE None)

SetPromoter(p, pc, i, base) ==
  promoter' = [promoter EXCEPT ![p] = [pc |-> pc, item |-> i, base |-> base]]
EndPromotion(p) == SetPromoter(p, "idle", None, None)
SetRequester(r, pc, in, expected, base) ==
  requester' = [requester EXCEPT ![r] = [pc |-> pc, intent |-> in, expected |-> expected, base |-> base]]
EndRequest(r) == SetRequester(r, "idle", NoIntent, None, None)

-----------------------------------------------------------------------------
Init ==
  /\ created = 0 /\ dep = [d \in Deployments |-> NoDeployment]
  /\ execHead = None /\ stateHead = None
  /\ lease = NoLease
  /\ dispatched = {} /\ windowClosed = {} /\ stopProven = {} /\ acknowledged = {} /\ reserved = {}
  /\ runner = [d \in Deployments |-> "none"]
  /\ enqueued = 0 /\ item = [i \in Items |-> NoItem]
  /\ promoter = [p \in Promoters |-> IdlePromoter]
  /\ requester = [r \in Requesters |-> IdleRequester]
  /\ acking = None /\ waitedThrough = {}
-----------------------------------------------------------------------------
(***************************************************************************)
(* Requests through the API (createDeployment, external admission).        *)
(***************************************************************************)
MayQueue(in) == in.mode \in {"deploy", "rollback"} /\ in.whenBusy = "queue"

requesterOnly == <<depVars, evidenceVars, queueVars, promoter, ackVars>>

\* The caller has read the current Deployment when it names an expected base.
\* Only a request that may wait reads the availability first.
Request(r, in) ==
  LET verdict == IF MayQueue(in) THEN Availability(None) ELSE "ok" IN
  /\ requester[r].pc = "idle"
  /\ verdict # "unreconciled"
  /\ SetRequester(r, IF verdict = "busy" THEN "enqueue" ELSE "resolve", in,
                  IF in.expectBase THEN stateHead ELSE None, None)
  /\ UNCHANGED requesterOnly

\* The deletion of the Environment: what waits is withdrawn, waiting for row
\* locks but not for the Environment lock, and a destroy Deployment follows
\* unless there is nothing to destroy or a change is still running.
DestroyEnvironment(r, in) ==
  /\ requester[r].pc = "idle" /\ in.mode = "destroy"
  /\ \A i \in Queued : ~RowLocked(i)
  /\ SettleQueuedDeployments("cancelled", "environment_deleting", None)
  /\ IF /\ stateHead # None
        /\ dep[stateHead].mode # "plan_only" /\ stateHead \notin Executing
        /\ ~(dep[stateHead].mode = "destroy" /\ dep[stateHead].status = "succeeded")
     THEN SetRequester(r, "resolve", in, None, None)
     ELSE UNCHANGED requester
  /\ UNCHANGED <<depVars, evidenceVars, enqueued, promoter, ackVars>>

\* A busy answer stores a request that may wait and refuses every other one.
BusyAnswer(r) ==
  IF MayQueue(requester[r].intent)
  THEN SetRequester(r, "enqueue", requester[r].intent, requester[r].expected, None)
  ELSE EndRequest(r)

\* CreateDeploymentWithOptions up to Core admission: the reference Deployment is
\* read without a lock, the graph is compiled against it, Core admits.
ResolveRequest(r) ==
  /\ requester[r].pc = "resolve"
  /\ HasReference(requester[r].intent.mode)
  /\ SetRequester(r, "admitted", requester[r].intent, requester[r].expected,
                  ReferenceDeployment(requester[r].intent.mode))
  /\ UNCHANGED requesterOnly

\* Core still guards an earlier admission of the Environment.
CoreBusyForRequest(r) ==
  /\ requester[r].pc = "resolve"
  /\ RequiresEnvironmentLease(requester[r].intent.mode) /\ HasReference(requester[r].intent.mode)
  /\ BusyAnswer(r)
  /\ UNCHANGED requesterOnly

\* Any other refusal or failure before creation, and a caller that gives up.
RefuseRequest(r) ==
  /\ requester[r].pc # "idle"
  /\ EndRequest(r)
  /\ UNCHANGED requesterOnly

CreateRequested(r) ==
  LET in == requester[r].intent
      verdict == CreateVerdict(in.mode, requester[r].expected, None)
  IN
  /\ requester[r].pc = "admitted" /\ EnvironmentUnlocked
  /\ \/ /\ verdict = "ok" /\ Room
        /\ InsertDeployment(in.mode, in.plugin, requester[r].base, None, requester[r].expected)
        /\ EndRequest(r)
     \/ /\ verdict = "busy"
        /\ BusyAnswer(r) /\ UNCHANGED depVars
     \/ /\ verdict \in {"unreconciled", "base_changed"}
        /\ EndRequest(r) /\ UNCHANGED depVars
  /\ UNCHANGED <<evidenceVars, queueVars, promoter, ackVars>>

\* enqueued_after_deployment_id: a head that already ended is not waited for.
HeadAtEnqueue(in) == IF in.halt THEN stateHead ELSE None
EnqueuedAfter(in) ==
  IF in.halt /\ stateHead # None /\ stateHead \notin Executing THEN stateHead ELSE None

EnqueueDeployment(r) ==
  LET in == requester[r].intent
      i == enqueued + 1
      refused == ObservationHeld \/ Fenced \/ Cardinality(Queued) >= MaxDepth
  IN
  /\ requester[r].pc = "enqueue" /\ EnvironmentUnlocked
  /\ \/ /\ refused
        /\ UNCHANGED queueVars
     \/ /\ ~refused /\ i \in Items /\ Room
        /\ enqueued' = i
        /\ item' = [item EXCEPT ![i] =
             [state |-> "queued", intent |-> in, after |-> EnqueuedAfter(in),
              expected |-> requester[r].expected, overdue |-> FALSE,
              deployment |-> None, reason |-> "none", about |-> None,
              ended |-> IF in.halt THEN Existing \ Executing ELSE {}]]
  /\ EndRequest(r)
  /\ UNCHANGED <<depVars, evidenceVars, promoter, ackVars>>

\* observationBaseline: an older failed attempt may still own a Runner slot.
UncertainOwner == \E d \in reserved : dep[d].status = "failed"

\* TryStartObservation, one transaction under the Environment lock.
TryStartObservation ==
  /\ Observing /\ Room /\ EnvironmentUnlocked
  /\ ~ObservationHeld
  /\ ~LeaseHeld /\ Executing = {} /\ Queued = {}
  /\ ~UncertainOwner
  /\ stateHead # None
  /\ dep[stateHead].status = "succeeded" /\ dep[stateHead].mode \in {"deploy", "rollback"}
  /\ CreateVerdict("observation", None, None) = "ok"
  /\ InsertDeployment("observation", FALSE, stateHead, None, None)
  /\ reserved' = reserved \cup {created + 1}
  /\ UNCHANGED <<dispatched, windowClosed, stopProven, acknowledged, runner, queueVars,
                 processVars>>
-----------------------------------------------------------------------------
(***************************************************************************)
(* Promotion.  A promotion may start at any time: kicks, the sweeper and   *)
(* deployment.updated events trigger it, late, twice or for nothing, and a *)
(* promoter that settled its item goes on with the next head.  From        *)
(* ClaimHead to the end of the transaction it holds its item's row lock.   *)
(***************************************************************************)
promoterOnly == <<depVars, evidenceVars, enqueued, requester, ackVars>>

\* SELECT ... FOR UPDATE SKIP LOCKED of the oldest queued row.
ClaimHead(p) ==
  /\ promoter[p].pc = "idle"
  /\ QueueHead # None /\ ~RowLocked(QueueHead)
  /\ SetPromoter(p, "claimed", QueueHead, None)
  /\ UNCHANGED <<promoterOnly, item>>

ExpireHeadUncommitted(p) ==
  /\ promoter[p].pc = "claimed" /\ item[promoter[p].item].overdue
  /\ EndPromotion(p)
  /\ UNCHANGED <<promoterOnly, item>>

ExpireHead(p) ==
  /\ promoter[p].pc = "claimed" /\ item[promoter[p].item].overdue
  /\ Settle(promoter[p].item, "expired", "expired", None)
  /\ EndPromotion(p)
  /\ UNCHANGED promoterOnly

CheckAvailable(p) ==
  LET verdict == Availability(promoter[p].item) IN
  /\ promoter[p].pc = "claimed" /\ ~item[promoter[p].item].overdue
  /\ \/ verdict = "busy" /\ EndPromotion(p) /\ UNCHANGED item
     \/ verdict = "unreconciled" /\ EndPromotion(p) /\ RejectQueuedDeployments
     \/ verdict = "ok" /\ SetPromoter(p, "available", promoter[p].item, None) /\ UNCHANGED item
  /\ UNCHANGED promoterOnly

HaltingPredecessor(i) ==
  /\ item[i].intent.halt
  /\ stateHead # None /\ dep[stateHead].mode \in Mutating
  /\ dep[stateHead].status = "failed" /\ item[i].after # stateHead

HaltOrProceed(p) ==
  LET i == promoter[p].item IN
  /\ promoter[p].pc = "available"
  /\ IF HaltingPredecessor(i)
     THEN Settle(i, "rejected", "previous_deployment_failed", stateHead) /\ EndPromotion(p)
     ELSE SetPromoter(p, "resolve", i, None) /\ UNCHANGED item
  /\ UNCHANGED promoterOnly

\* createQueuedDeployment: Core is read, the base graph is the state head as it
\* is now, Core admits.
ResolveItem(p) ==
  /\ promoter[p].pc = "resolve" /\ HasReference(item[promoter[p].item].intent.mode)
  /\ SetPromoter(p, "admitted", promoter[p].item,
                 ReferenceDeployment(item[promoter[p].item].intent.mode))
  /\ UNCHANGED <<promoterOnly, item>>

\* A decision about this request (queueRejectItem).
RejectItem(p, reason, about) ==
  Settle(promoter[p].item, "rejected", reason, about) /\ EndPromotion(p)

\* A transient failure (queueRetryLater): the item waits for another attempt.
DeferItem(p) == EndPromotion(p) /\ UNCHANGED item

ResolveFails(p) ==
  /\ promoter[p].pc = "resolve"
  /\ RejectItem(p, "refused", None) \/ DeferItem(p)
  /\ UNCHANGED promoterOnly

\* classifyQueuePromotionError, for what CreateDeployment itself answers.
RefusedPromotion(p, verdict) ==
  IF verdict = "busy" THEN DeferItem(p)
  ELSE IF verdict = "unreconciled" THEN RejectQueuedDeployments /\ EndPromotion(p)
  ELSE RejectItem(p, verdict, IF verdict = "base_changed" THEN stateHead ELSE None)

ForgetDispatched(i) == UNCHANGED item
SettleDispatched(i) ==
  item' = [item EXCEPT ![i] = Settled(i, "dispatched", "none", None, created + 1)]

CreateQueued(p) ==
  LET i == promoter[p].item
      verdict == CreateVerdict(item[i].intent.mode, item[i].expected, i)
  IN
  /\ promoter[p].pc = "admitted" /\ EnvironmentUnlocked
  /\ \/ /\ verdict = "ok"
        /\ InsertDeployment(item[i].intent.mode, FALSE, promoter[p].base, i, item[i].expected)
        /\ SettleDispatched(i)
        /\ EndPromotion(p)
     \/ verdict # "ok" /\ RefusedPromotion(p, verdict) /\ UNCHANGED depVars
  /\ UNCHANGED <<evidenceVars, enqueued, requester, ackVars>>

\* lock_timeout: CreateDeployment waited too long for the Environment lock.
LockTimeout(p) ==
  /\ promoter[p].pc = "admitted" /\ ~EnvironmentUnlocked
  /\ DeferItem(p)
  /\ UNCHANGED promoterOnly

\* The process dies, idle_in_transaction_session_timeout fires or the commit
\* fails: the transaction is rolled back and the row lock is gone.
AbortPromotion(p) ==
  /\ promoter[p].pc # "idle"
  /\ EndPromotion(p)
  /\ UNCHANGED <<promoterOnly, item>>

-----------------------------------------------------------------------------
(***************************************************************************)
(* The rest of the queue's life: cancellation, expiry, the clock.          *)
(***************************************************************************)
queueOnly == <<depVars, evidenceVars, enqueued, processVars>>

CancelAnyItem(i) ==
  /\ i <= enqueued /\ ~RowLocked(i)
  /\ Settle(i, "cancelled", "cancelled", None)
  /\ UNCHANGED queueOnly

\* FOR UPDATE NOWAIT: a row a promoter holds answers queue_item_dispatching.
CancelDeploymentQueueItem(i) ==
  /\ i \in Queued /\ ~RowLocked(i)
  /\ Settle(i, "cancelled", "cancelled", None)
  /\ UNCHANGED queueOnly

\* The sweeper expires items past their TTL (SKIP LOCKED).
ExpireDeploymentQueueItem(i) ==
  /\ i \in Queued /\ item[i].overdue /\ ~RowLocked(i)
  /\ Settle(i, "expired", "expired", None)
  /\ UNCHANGED queueOnly

\* expires_at passes.
ItemOverdue(i) ==
  /\ i \in Queued /\ ~item[i].overdue
  /\ item' = [item EXCEPT ![i].overdue = TRUE]
  /\ UNCHANGED queueOnly
-----------------------------------------------------------------------------
(***************************************************************************)
(* The life of one Deployment.  The Deployment row lock serialises these   *)
(* steps; only those that also need the Environment lock say so.           *)
(***************************************************************************)
lifeOnly == <<created, execHead, stateHead, queueVars, processVars>>

\* The created handler takes a Runner slot before it dispatches.
ReserveRunnerDispatch(d) ==
  /\ d \in Executing \ reserved
  /\ reserved' = reserved \cup {d}
  /\ UNCHANGED <<lifeOnly, dep, lease, dispatched, windowClosed, stopProven, acknowledged, runner>>

\* The dispatch budget is committed before a Runner can receive any command.
BeginDeploymentDispatch(d) ==
  /\ d \in (Executing \cap reserved) \ dispatched /\ EnvironmentUnlocked
  /\ dispatched' = dispatched \cup {d}
  /\ UNCHANGED <<lifeOnly, dep, lease, windowClosed, stopProven, acknowledged, reserved, runner>>

\* The deadline of the dispatch budget passes.  Only an acknowledgement asks,
\* so it is tracked for a failed Deployment with an unreconciled outcome.
WindowCloses(d) ==
  /\ d \in dispatched \ windowClosed /\ dep[d].status = "failed" /\ OutcomeUnreconciled(d)
  /\ windowClosed' = windowClosed \cup {d}
  /\ UNCHANGED <<lifeOnly, dep, lease, dispatched, stopProven, acknowledged, reserved, runner>>

\* What the Runner itself does with a command, however late it gets it.
RunnerMoves(d, from, to) ==
  /\ d \in dispatched /\ runner[d] = from
  /\ runner' = [runner EXCEPT ![d] = to]
  /\ UNCHANGED <<lifeOnly, dep, lease, dispatched, windowClosed, stopProven, acknowledged, reserved>>

RunnerStarts(d) == RunnerMoves(d, "none", "running")
RunnerStops(d) == RunnerMoves(d, "running", "stopped")

LeaseReleased(d) == IF lease.holder = d THEN NoLease ELSE lease

\* UpdateDeploymentStatusAndOutputs to a terminal status.
Complete(d, status, proofs) ==
  /\ dep' = [dep EXCEPT ![d].status = status]
  /\ stopProven' = proofs
  /\ reserved' = Released(d, proofs \cup acknowledged)
  /\ lease' = LeaseReleased(d)
  /\ UNCHANGED <<lifeOnly, dispatched, windowClosed, acknowledged, runner>>

\* An authenticated result of a Runner that has stopped.  The result of an
\* observation that fails validation ends it failed, with the stop proven.
RunnerResult(d) ==
  /\ d \in Executing /\ runner[d] = "stopped"
  /\ \E status \in {"succeeded", "failed"} : Complete(d, status, stopProven \cup {d})

\* Watchdog, dispatch failure, Runner error event, operator force-fail: the
\* Deployment fails and nothing is known about its Runner.
FailWithoutProof(d) ==
  /\ d \in Executing /\ (d \in dispatched => Unproven)
  /\ Complete(d, "failed", stopProven)

\* Which late completion of a failed Deployment is retained as stop proof.
LateCompletionAccepted(d) ==
  \/ dep[d].mode = "observation"
  \/ ~PluginDispatched(d) /\ d \in reserved
  \/ dep[d].plugin /\ EnvironmentUnlocked /\ stateHead = d /\ lease.holder \in {None, d}

\* It proves the stop and releases the slot; the status is never rewritten.
LateCompletion(d) ==
  /\ dep[d].status = "failed" /\ d \in dispatched \ stopProven /\ runner[d] = "stopped"
  /\ LateCompletionAccepted(d)
  /\ stopProven' = stopProven \cup {d}
  /\ reserved' = Released(d, stopProven' \cup acknowledged)
  /\ lease' = IF dep[d].plugin THEN LeaseReleased(d) ELSE lease
  /\ UNCHANGED <<lifeOnly, dep, dispatched, windowClosed, acknowledged, runner>>

LeaseExpires ==
  /\ lease.live
  /\ lease' = [lease EXCEPT !.live = FALSE]
  /\ UNCHANGED <<lifeOnly, dep, evidenceVars>>

RenewDeploymentLease(d) ==
  /\ d \in Executing /\ lease.holder = d /\ ~lease.live
  /\ lease' = [lease EXCEPT !.live = TRUE]
  /\ UNCHANGED <<lifeOnly, dep, evidenceVars>>

(***************************************************************************)
(* AcknowledgeDeploymentOutcome: it takes the Environment lock, decides,   *)
(* and then may wait for the row a promoter holds before it can commit.    *)
(***************************************************************************)
AcknowledgementConflict(d) ==
  \/ ~PluginDispatched(d) /\ d \notin reserved
  \/ dep[d].status # "failed"
  \/ d \notin reserved /\ d # (IF dep[d].mode = "observation" THEN execHead ELSE stateHead)
  \/ ~OutcomeUnreconciled(d)
  \/ d \notin windowClosed

\* What waits behind the acknowledged Deployment is rejected with it; the bulk
\* update waits for a row that a promoter holds.
RejectBehindFence(d) ==
  /\ \A i \in Queued : ~RowLocked(i)
  /\ SettleQueuedDeployments("rejected", "outcome_unreconciled", d)

ackOnly == <<depVars, dispatched, windowClosed, stopProven, runner, enqueued, promoter, requester>>

AcknowledgeBegins(d) ==
  /\ EnvironmentUnlocked /\ d \in Existing /\ ~AcknowledgementConflict(d)
  /\ acking' = d
  /\ UNCHANGED <<ackOnly, item, acknowledged, reserved, waitedThrough>>

AcknowledgeCommits ==
  /\ acking # None
  /\ IF PluginDispatched(acking)
     THEN RejectBehindFence(acking) /\ waitedThrough' = waitedThrough \cup Queued
     ELSE UNCHANGED <<item, waitedThrough>>
  /\ acknowledged' = acknowledged \cup {acking}
  /\ reserved' = Released(acking, stopProven \cup acknowledged')
  /\ acking' = None
  /\ UNCHANGED ackOnly

\* The caller goes away or the process dies: nothing is recorded.
AcknowledgeAborts ==
  /\ acking # None
  /\ acking' = None
  /\ UNCHANGED <<ackOnly, item, acknowledged, reserved, waitedThrough>>

-----------------------------------------------------------------------------
RequestStep(r) ==
  \/ \E in \in Intents : Request(r, in) \/ DestroyEnvironment(r, in)
  \/ ResolveRequest(r) \/ CoreBusyForRequest(r) \/ RefuseRequest(r)
  \/ CreateRequested(r) \/ EnqueueDeployment(r)

PromotionRuns(p) ==
  \/ ClaimHead(p) \/ ExpireHead(p) \/ CheckAvailable(p) \/ HaltOrProceed(p)
  \/ ResolveItem(p) \/ ResolveFails(p) \/ CreateQueued(p) \/ LockTimeout(p)

ItemStep(i) ==
  \/ CancelDeploymentQueueItem(i) \/ ExpireDeploymentQueueItem(i)
  \/ ItemOverdue(i)

DeploymentStep(d) ==
  \/ ReserveRunnerDispatch(d) \/ BeginDeploymentDispatch(d) \/ WindowCloses(d)
  \/ RunnerStarts(d) \/ RunnerStops(d)
  \/ RunnerResult(d) \/ FailWithoutProof(d) \/ LateCompletion(d)
  \/ RenewDeploymentLease(d) \/ AcknowledgeBegins(d)

Next ==
  \/ \E r \in Requesters : RequestStep(r)
  \/ \E p \in Promoters : PromotionRuns(p) \/ AbortPromotion(p)
  \/ \E i \in Items : ItemStep(i)
  \/ \E d \in Deployments : DeploymentStep(d)
  \/ TryStartObservation \/ LeaseExpires
  \/ AcknowledgeCommits \/ AcknowledgeAborts

Spec == Init /\ [][Next]_vars

(***************************************************************************)
(* Fairness: replicas run, Core answers or times out, the clock and the    *)
(* sweeper advance, and Postgres hands a released row lock to the          *)
(* acknowledgement that waits for it.  A promoter may crash again and      *)
(* again, but not every time it is about to expire its item.  Nobody is    *)
(* obliged to request, cancel or acknowledge anything, and no Runner is    *)
(* obliged to finish.                                                      *)
(***************************************************************************)
Fairness ==
  /\ \A p \in Promoters : WF_vars(PromotionRuns(p)) /\ SF_vars(ExpireHead(p))
  /\ \A i \in Items : WF_vars(ItemOverdue(i)) /\ WF_vars(ExpireDeploymentQueueItem(i))
  /\ SF_vars(AcknowledgeCommits)

FairSpec == Spec /\ Fairness
=============================================================================
