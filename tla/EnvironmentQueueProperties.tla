--------------------- MODULE EnvironmentQueueProperties ---------------------
(***************************************************************************)
(* What must hold of one Environment whatever the actors of                *)
(* EnvironmentQueue do, and how they implement QueueContract.              *)
(***************************************************************************)
EXTENDS EnvironmentQueue

\* Every variable keeps its type: references stay within the rows that exist.
DeploymentRecord ==
  [mode : Modes, status : Statuses \cup {"none"}, plugin : BOOLEAN,
   via : {None} \cup Items, fresh : BOOLEAN, guarded : BOOLEAN]
ReasonCodes ==
  {"none", "expired", "cancelled", "environment_deleting", "outcome_unreconciled",
   "previous_deployment_failed", "refused", "conflict", "base_changed"}
ItemRecord ==
  [state : {"none", "queued", "dispatched", "cancelled", "expired", "rejected"}, intent : Intent,
   after : {None} \cup Deployments, expected : {None} \cup Deployments, overdue : BOOLEAN,
   deployment : {None} \cup Deployments,
   reason : ReasonCodes, about : {None} \cup Deployments, ended : SUBSET Deployments]
PromoterRecord ==
  [pc : {"idle", "claimed", "available", "resolve", "admitted"},
   item : {None} \cup Items, base : {None} \cup Deployments]
RequesterRecord ==
  [pc : {"idle", "resolve", "admitted", "enqueue"}, intent : Intent,
   expected : {None} \cup Deployments, base : {None} \cup Deployments]

TypeOK ==
  /\ created \in 0..MaxDeployments /\ dep \in [Deployments -> DeploymentRecord]
  /\ execHead \in {None} \cup Deployments /\ stateHead \in {None} \cup Deployments
  /\ lease \in [holder : {None} \cup Deployments, live : BOOLEAN]
  /\ dispatched \subseteq Deployments /\ windowClosed \subseteq Deployments
  /\ stopProven \subseteq Deployments /\ acknowledged \subseteq Deployments /\ reserved \subseteq Deployments
  /\ runner \in [Deployments -> {"none", "running", "stopped"}]
  /\ enqueued \in 0..MaxItems /\ item \in [Items -> ItemRecord]
  /\ promoter \in [Promoters -> PromoterRecord] /\ requester \in [Requesters -> RequesterRecord]
  /\ acking \in {None} \cup Deployments /\ waitedThrough \subseteq Items
-----------------------------------------------------------------------------
(***************************************************************************)
(* Mutual exclusion                                                        *)
(***************************************************************************)
\* At most one Deployment of the Environment executes, and it is the one
\* last_executing_deployment_id names: CreateDeployment's check of that head
\* alone keeps a second one out, also when the lease has expired.
OneExecuting == Executing \subseteq {execHead}

\* The lease row exists exactly while a Deployment that needs it executes, so
\* no lease outlives its Deployment and none is lost while it runs.
LeaseFollowsExecution ==
  \A d \in Deployments :
    lease.holder = d <=> d \in Executing /\ RequiresEnvironmentLease(dep[d].mode)

\* Deployments exclude each other: at most one executes, it is the one the
\* Environment's row names, and the lease row follows it
\* (CreateDeployment, UpdateDeploymentStatusAndOutputs), also when it expired.
OneExecutes == OneExecuting /\ LeaseFollowsExecution

\* While the Runner of a plugin-dispatched Deployment or observation runs and
\* no operator attested its stop, no later Deployment of the Environment exists:
\* a watchdog failure is no permission to replace it.
PluginRunnerExclusive ==
  \A d \in Existing :
    PluginDispatched(d) /\ runner[d] = "running" /\ d \notin acknowledged => created = d

\* An observation reads the state alone: while its Runner runs, no other Runner
\* of the Environment runs unless an operator attested its stop.
ObservationReadsAlone ==
  \A o, d \in Existing :
    /\ dep[o].mode = "observation" /\ runner[o] = "running" /\ o \notin acknowledged
    /\ runner[d] = "running" /\ d \notin acknowledged
    => d = o

\* A running Runner keeps its slot of the Runner's capacity, whatever its
\* Deployment's status says, until an operator attests that it stopped.
RunnerSlotHeld == \A d \in Existing : runner[d] = "running" => d \in reserved \cup acknowledged

(***************************************************************************)
(* The queue                                                               *)
(***************************************************************************)
\* A row a promoter has locked is the oldest waiting item for as long as the
\* lock is held, and nobody else holds it: no step settles it underneath.
ClaimIsHead ==
  \A p \in Promoters :
    promoter[p].item # None =>
      /\ promoter[p].item = QueueHead
      /\ \A q \in Promoters : promoter[q].item = promoter[p].item => q = p

\* An item counts as dispatched exactly when one Deployment was created for
\* it, and then it names that Deployment.
DispatchedOnce ==
  \A i \in Items :
    IF item[i].state = "dispatched"
    THEN {d \in Existing : dep[d].via = i} = {item[i].deployment}
    ELSE {d \in Existing : dep[d].via = i} = {} /\ item[i].deployment = None

\* halt_on_failure stops a request only because of a deploy, rollback or destroy
\* that failed after the request was enqueued, and never lets it follow one.
HaltSound ==
  \A i \in Items :
    LET about == item[i].about
        before == {d \in Existing : d < item[i].deployment /\ dep[d].mode \in Mutating}
        last == CHOOSE d \in before : \A e \in before : e <= d
    IN
    /\ item[i].reason = "previous_deployment_failed" =>
         /\ item[i].intent.halt /\ about \notin item[i].ended
         /\ dep[about].status = "failed" /\ dep[about].mode \in Mutating
    /\ item[i].state = "dispatched" /\ item[i].intent.halt /\ before # {} =>
         last \in item[i].ended \/ dep[last].status # "failed"

\* A request that waited while an operator acknowledged an unreconciled outcome
\* never becomes a Deployment by itself, even if it was being promoted.
AcknowledgedNeverDispatched == \A i \in waitedThrough : item[i].state = "rejected"

\* Runners are kept apart although nobody can ask whether one stopped: while the
\* Runner of a plugin operation or an observation may run nothing follows it, an
\* observation reads alone, every running Runner keeps its slot, and an operator's
\* word releases none of the requests that waited (the fence of an unreconciled
\* outcome, ReleaseRunnerJob, AcknowledgeDeploymentOutcome).
RunnersApart ==
  /\ PluginRunnerExclusive /\ ObservationReadsAlone /\ RunnerSlotHeld
  /\ AcknowledgedNeverDispatched

\* A promoted request, and a request that named its base, was compiled against
\* the graph whose state it changes: nothing changed the Environment between
\* the unlocked read of the reference Deployment and CreateDeployment.
BaseNotStale == \A d \in Existing : dep[d].via # None \/ dep[d].guarded => dep[d].fresh

\* What a waiting request was promised about its predecessors holds when it
\* starts: it follows no failure it was to halt on, is halted by no other one, and
\* starts from the graph it was compiled against, although both were read without
\* the Environment's lock (HaltingDeploymentQueuePredecessor, CreateDeployment).
PremisesHold == HaltSound /\ BaseNotStale

\* What a queue item became is final: promoters, cancellation, expiry, bulk
\* rejection and acknowledgement never settle or rewrite a settled item.
SettledForever ==
  [][\A i \in Items : item[i].state \notin {"none", "queued"} => item'[i] = item[i]]_vars

\* A Deployment that needs the lease starts only when nobody waits, or as the
\* item that waited longest, which is settled in the same step.
NoOvertaking ==
  [][created' # created /\ RequiresEnvironmentLease(dep'[created'].mode) =>
       /\ dep'[created'].via = QueueHead
       /\ QueueHead # None => item'[QueueHead].state = "dispatched"]_vars

\* Every request that waits is eventually dispatched, rejected, cancelled or
\* expired: no order of promoters, crashes and timeouts keeps it forever.
EveryItemSettles == \A i \in Items : item[i].state = "queued" ~> item[i].state # "queued"

\* An acknowledgement that holds the Environment lock ends, although it waits
\* for the row of a promoter that may wait for that very lock: the late result of
\* an observation can let a promotion pass its checks while the acknowledgement
\* is under way, and then only the promoter's lock_timeout breaks the cycle.
AcknowledgementEnds == acking # None ~> acking = None

\* The Environment never stands still: requests that wait settle and
\* acknowledgements end, although they wait for each other's row and lock.
QueueMoves == EveryItemSettles /\ AcknowledgementEnds

(***************************************************************************)
(* The queue implements its contract                                       *)
(***************************************************************************)
Contract == INSTANCE QueueContract WITH
  MaxArrivals <- MaxItems, Nobody <- None,
  arrived <- enqueued, waiting <- Queued, became <- [i \in Items |-> item[i].deployment],
  started <- created,
  running <- IF execHead \in Executing THEN execHead ELSE None,
  leased <- execHead \in Executing /\ RequiresEnvironmentLease(dep[execHead].mode)

\* Seen from outside, the Environment behaves like a queue that serves one
\* Deployment at a time, first come first served, each request at most once.
ImplementsContract == Contract!Spec

-----------------------------------------------------------------------------
(***************************************************************************)
(* Statements of the documentation the code does not keep                  *)
(***************************************************************************)
\* docs/deployment-queue.md, "State lock": a plan run is kept apart from every
\* other Runner of the Environment.  An ordinary Deployment that the watchdog
\* failed blocks nothing, so a plan starts beside its Runner.
PlanRunsApart ==
  \A p, d \in Existing :
    dep[p].mode \in {"plan_only", "rollback_plan"} /\ runner[p] = "running" /\ runner[d] = "running" => d = p

\* docs/runner-dispatch-recovery.md: acknowledge-outcome accepts only the current
\* Environment head, and only if it was plugin-dispatched.  The code also accepts
\* any failed Deployment whose Runner slot is still reserved.
AcknowledgesOnlyPluginHead ==
  \A d \in Existing :
    acking = d => PluginDispatched(d) /\ (dep[d].mode = "observation" \/ stateHead = d)

\* deployment_outcome_acknowledgements.go: the Environment lock serializes an
\* acknowledgement with late Runner results, so none is recorded for an outcome
\* that is already proven.  Late results of observations and of ordinary
\* Deployments do not take that lock.
AcknowledgesOnlyUnproven ==
  [][\A d \in acknowledged' \ acknowledged : d \notin stopProven]_vars
=============================================================================
