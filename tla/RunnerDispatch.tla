--------------------------- MODULE RunnerDispatch ---------------------------
(***************************************************************************)
(* From the created event of a Deployment to its result: the handlers of   *)
(* the created and status-check events on any replica, the Runner's        *)
(* capacity, the dispatch budget, the Runner back ends, and the results.   *)
(*                                                                         *)
(* Every Deployment here is the executing one of an Environment of its     *)
(* own; they share Runners.  A handler is split wherever it leaves the     *)
(* database, so that other deliveries, results and operators run between   *)
(* its steps.  Time is measured per Deployment, in retry intervals of the  *)
(* status check since its first dispatch attempt.                          *)
(*                                                                         *)
(* Operators that no action uses are seeded faults: PROJECT.json names the *)
(* definition each one replaces and the property that then fails.          *)
(***************************************************************************)
EXTENDS Naturals, FiniteSets

CONSTANTS
  Deployments,    \* executing Deployments, one per Environment
  Runners,        \* the Runners they are dispatched to
  RunnerOf,       \* the Runner of each Deployment
  Kind,           \* the back end of each Runner
  Limit,          \* max_parallel_jobs of each Runner, 0 when it is not configured
  Mode,           \* the mode of each Deployment
  Workers,        \* concurrent message handlers, on any replica
  Window,         \* RunnerExecutionBudget / RetryInterval
  MaxDeliveries,  \* MaxDeliver of the main consumer
  Nobody          \* no Deployment

DispatchAssumption ==
  /\ RunnerOf \in [Deployments -> Runners]
  /\ Kind \in [Runners -> {"kubernetes", "agent", "ecs"}]
  /\ Limit \in [Runners -> Nat]
  /\ Mode \in [Deployments -> {"deploy", "plan_only", "observation"}]
  /\ \A d \in Deployments : Mode[d] = "observation" => Limit[RunnerOf[d]] > 0
  /\ Window \in Nat \ {0} /\ MaxDeliveries \in Nat \ {0}
  /\ IsFiniteSet(Deployments) /\ Nobody \notin Deployments

VARIABLES
  dep,         \* deployments: status and revision
  lease,       \* Deployments with a row in environment_deployment_leases
  slot,        \* runner_job_reservations: none, held, released
  age,         \* time since first_attempt_at, Unsent before it; Window: past the deadline
  proven,      \* Deployments with an authenticated completion
  history,     \* how many deployment_history rows each Deployment has
  created,     \* the created event: deliveries so far, Done once acknowledged or dead-lettered
  deadLetter,  \* events given up by the broker
  check,       \* the status-check event: deliveries, and the age of the next one
  job,         \* what the Runner back end really has for a Deployment
  starts,      \* how often a job was really created for a Deployment
  results,     \* deployment-result events and HTTP results on their way
  errors,      \* runner-error events on their way
  worker       \* per handler: step, event, Deployment, the revision it read

rows == <<dep, lease, slot, age, proven, history>>
broker == <<created, deadLetter, check>>
world == <<job, starts, results, errors>>
vars == <<rows, broker, world, worker>>

Unsent == Window + 1     \* first_attempt_at IS NULL
Done == MaxDeliveries + 1
\* MaxDeliveries of the status consumer.
MaxCheckDeliveries == Window + 2
NoCheck == [deliveries |-> 0, due |-> Unsent]                     \* never published
EndedCheck == [deliveries |-> MaxCheckDeliveries + 1, due |-> Unsent]

Idle == [pc |-> "idle", event |-> "none", d |-> Nobody, rev |-> 0]
RequiresEnvironmentLease(d) == Mode[d] # "plan_only"

Executing == {d \in Deployments : dep[d].status = "executing"}
Ended == {d \in Deployments : dep[d].status \in {"succeeded", "failed"}}
Dispatched(d) == age[d] # Unsent
DeadlinePassed(d) == age[d] = Window

Init ==
  /\ dep = [d \in Deployments |-> [status |-> "executing", revision |-> 1]]
  /\ lease = {d \in Deployments : RequiresEnvironmentLease(d)}
  /\ slot = [d \in Deployments |-> IF Mode[d] = "observation" THEN "held" ELSE "none"]
  /\ \A r \in Runners : Limit[r] # 0 =>
       Cardinality({d \in Deployments : RunnerOf[d] = r /\ slot[d] = "held"}) <= Limit[r]
  /\ age = [d \in Deployments |-> Unsent]
  /\ proven = {} /\ history = [d \in Deployments |-> 0]
  /\ created = [d \in Deployments |-> 0] /\ deadLetter = {}
  /\ check = [d \in Deployments |-> NoCheck]
  /\ job = [d \in Deployments |-> "none"] /\ starts = [d \in Deployments |-> 0]
  /\ results = {} /\ errors = {}
  /\ worker = [w \in Workers |-> Idle]
-----------------------------------------------------------------------------
(***************************************************************************)
(* What ends a Deployment.                                                 *)
(***************************************************************************)
ReleasedOnFailure(d, proofs) == "released"
KeptUntilProof(d, proofs) == IF slot[d] = "held" /\ d \in proofs THEN "released" ELSE slot[d]

\* ReleaseRunnerJob: a slot is given back only with proof that the job stopped
\* or that its dispatch never began.
Released(d, proofs) ==
  IF slot[d] = "held" /\ (d \in proofs \/ ~Dispatched(d)) THEN "released" ELSE slot[d]

\* UpdateDeploymentStatusAndOutputs and the history record, in one transaction.
Complete(d, status, proofs) ==
  /\ dep' = [dep EXCEPT ![d] = [status |-> status, revision |-> @.revision + 1]]
  /\ history' = [history EXCEPT ![d] = @ + 1]
  /\ proven' = proofs
  /\ slot' = [slot EXCEPT ![d] = Released(d, proofs)]
  /\ lease' = lease \ {d}
  /\ UNCHANGED age

(***************************************************************************)
(* The broker: an event is acknowledged, or it is delivered again until it *)
(* has been delivered often enough and goes to the dead letters.           *)
(***************************************************************************)
SetWorker(w, pc) == worker' = [worker EXCEPT ![w].pc = pc]
EndWorker(w) == worker' = [worker EXCEPT ![w] = Idle]

CreatedPending(d) == created[d] < MaxDeliveries
CheckPending(d) == check[d].due # Unsent

\* A nil error: the delivery is acknowledged.
Acknowledge(w) ==
  LET d == worker[w].d IN
  /\ IF worker[w].event = "created"
     THEN created' = [created EXCEPT ![d] = Done] /\ UNCHANGED check
     ELSE check' = [check EXCEPT ![d] = EndedCheck] /\ UNCHANGED created
  /\ UNCHANGED deadLetter

\* Any error, a crash or a missed deadline: delivered again, unless it was the last time.
Redeliver(w) ==
  LET d == worker[w].d IN
  /\ IF worker[w].event = "created"
     THEN /\ deadLetter' = IF created[d] = MaxDeliveries THEN deadLetter \cup {<<"created", d>>}
                           ELSE deadLetter
          /\ UNCHANGED <<created, check>>
     ELSE /\ UNCHANGED created
          /\ IF CheckPending(d) /\ check[d].deliveries >= MaxCheckDeliveries
             THEN deadLetter' = deadLetter \cup {<<"check", d>>} /\ check' = [check EXCEPT ![d] = EndedCheck]
             ELSE UNCHANGED <<deadLetter, check>>

Discard(w) == Acknowledge(w) /\ EndWorker(w) /\ UNCHANGED rows
Retry(w) == Redeliver(w) /\ EndWorker(w) /\ UNCHANGED rows
Proceed(w, pc) == SetWorker(w, pc) /\ UNCHANGED <<rows, broker>>
-----------------------------------------------------------------------------
(***************************************************************************)
(* CreateDepHandler.                                                       *)
(***************************************************************************)
\* Handle reads the Deployment without a lock and remembers its revision.
CreatedDelivered(w, d) ==
  /\ worker[w] = Idle /\ CreatedPending(d)
  /\ IF d \in Executing
     THEN /\ worker' = [worker EXCEPT ![w] = [pc |-> "renew", event |-> "created", d |-> d,
                                              rev |-> dep[d].revision]]
          /\ created' = [created EXCEPT ![d] = @ + 1]
     ELSE created' = [created EXCEPT ![d] = Done] /\ UNCHANGED worker
  /\ UNCHANGED <<rows, deadLetter, check, world>>

LeaseRenewed(d) == d \in lease /\ d \in Executing

\* RenewDeploymentLease; a lost lease fails the Deployment, a database error retries.
RenewLease(w) ==
  LET d == worker[w].d IN
  /\ worker[w].pc = "renew"
  /\ \/ RequiresEnvironmentLease(d) /\ ~LeaseRenewed(d) /\ Proceed(w, "fail")
     \/ (RequiresEnvironmentLease(d) => LeaseRenewed(d))
          /\ Proceed(w, IF worker[w].event = "created" THEN "reserve" ELSE "poll")
  /\ UNCHANGED world

\* The Control Plane cannot be reached, or has no such usable Runner; an
\* observation that was never dispatched may have grown too old.
RunnerUnavailable(w) ==
  /\ worker[w].pc \in {"reserve", "poll"}
  /\ Retry(w) \/ Proceed(w, "fail")
  /\ UNCHANGED world

SlotsHeld(r) == {d \in Deployments : RunnerOf[d] = r /\ slot[d] = "held"}
CapacityFull(r) == Limit[r] # 0 /\ Cardinality(SlotsHeld(r)) >= Limit[r]

Unchanged(w) ==
  worker[w].d \in Executing /\ dep[worker[w].d].revision = worker[w].rev

\* ReserveRunnerDispatch: one transaction under the Runner's advisory lock.
ReserveRunnerJob(w) ==
  LET d == worker[w].d IN
  /\ worker[w].pc = "reserve"
  /\ \/ /\ ~Unchanged(w) \/ slot[d] = "released" \/ (slot[d] = "none" /\ CapacityFull(RunnerOf[d]))
        /\ Retry(w)
     \/ Unchanged(w) /\ slot[d] = "held" /\ Proceed(w, "running")
     \/ /\ Unchanged(w) /\ slot[d] = "none" /\ ~CapacityFull(RunnerOf[d])
        /\ slot' = [slot EXCEPT ![d] = "held"]
        /\ SetWorker(w, "running")
        /\ UNCHANGED <<dep, lease, age, proven, history, broker>>
  /\ UNCHANGED world

\* RunnerInterface.IsRunning, per back end.  A Kubernetes Job counts as long as
\* it exists, an ECS task while its status is one of a running task, and an
\* agent is never asked: its commands are idempotent.
KubernetesIsRunning(d) == job[d] # "none"
EcsIsRunning(d) == job[d] \in {"pending", "running"}
AgentIsRunning(d) == FALSE

IsRunning(d) ==
  CASE Kind[RunnerOf[d]] = "kubernetes" -> KubernetesIsRunning(d)
    [] Kind[RunnerOf[d]] = "ecs" -> EcsIsRunning(d)
    [] Kind[RunnerOf[d]] = "agent" -> AgentIsRunning(d)

\* CreateRunner and IsRunning, which may fail; ECS may not list a new task yet.
CheckRunning(w) ==
  LET d == worker[w].d IN
  /\ worker[w].pc = "running"
  /\ \/ IsRunning(d) /\ Proceed(w, "schedule")
     \/ (IsRunning(d) => Kind[RunnerOf[d]] = "ecs") /\ Proceed(w, "begin")
     \/ Proceed(w, "fail")
  /\ UNCHANGED world

\* The bundle is built and stored before the budget starts.
BundleFails(w) ==
  /\ worker[w].pc = "begin"
  /\ IF Mode[worker[w].d] = "observation" THEN Proceed(w, "fail") ELSE Retry(w)
  /\ UNCHANGED world

\* A retry consumes what is left of the budget and never resets it.
BudgetOpen(d) == ~DeadlinePassed(d)
BudgetAge(d) == IF Dispatched(d) THEN age[d] ELSE 0

\* BeginDeploymentDispatch commits the budget before a Runner can get a command.
BeginDeploymentDispatch(w) ==
  LET d == worker[w].d IN
  /\ worker[w].pc = "begin"
  /\ \/ ~(Unchanged(w) /\ BudgetOpen(d)) /\ Proceed(w, "fail")
     \/ /\ Unchanged(w) /\ BudgetOpen(d)
        /\ age' = [age EXCEPT ![d] = BudgetAge(d)]
        /\ SetWorker(w, "start")
        /\ UNCHANGED <<dep, lease, slot, proven, history, broker>>
  /\ UNCHANGED world

\* The back end accepts a create: the job's name, the command's id and the
\* task's client token make a second one harmless.
CreateJob(d) ==
  /\ job' = [job EXCEPT ![d] = IF @ = "none" THEN "pending" ELSE @]
  /\ starts' = [starts EXCEPT ![d] = IF job[d] = "none" THEN @ + 1 ELSE @]
  /\ UNCHANGED <<results, errors>>

\* What a caller of an external system learns is not what happened: an error
\* proves nothing about the job.
CreateAttempted(d) == CreateJob(d) \/ UNCHANGED world

\* ecsRunnerInstance.Start never looks at the deadline.
EcsStart(w, d) ==
  \/ CreateJob(d) /\ Proceed(w, "schedule")
  \/ CreateAttempted(d) /\ Proceed(w, "fail")

\* KubernetesRunner.Start: not past the deadline, and a Job that exists is an error.
KubernetesStart(w, d) ==
  \/ ~DeadlinePassed(d) /\ job[d] = "none" /\ CreateJob(d) /\ Proceed(w, "schedule")
  \/ ~DeadlinePassed(d) /\ job[d] = "none" /\ CreateAttempted(d) /\ Proceed(w, "fail")
  \/ (DeadlinePassed(d) \/ job[d] # "none") /\ UNCHANGED world /\ Proceed(w, "fail")

\* RemoteKubernetesRunner.Start: a command that was not durably published is retried.
AgentStart(w, d) ==
  \/ ~DeadlinePassed(d) /\ CreateJob(d) /\ Proceed(w, "schedule")
  \/ ~DeadlinePassed(d) /\ CreateAttempted(d) /\ Retry(w)
  \/ UNCHANGED world /\ Proceed(w, "fail")

StartRunner(w) ==
  LET d == worker[w].d IN
  /\ worker[w].pc = "start"
  /\ \/ Kind[RunnerOf[d]] = "kubernetes" /\ KubernetesStart(w, d)
     \/ Kind[RunnerOf[d]] = "agent" /\ AgentStart(w, d)
     \/ Kind[RunnerOf[d]] = "ecs" /\ EcsStart(w, d)

\* scheduleStatusCheck; the broker may drop an event whose id it remembers.
ScheduleStatusCheck(w) ==
  LET d == worker[w].d IN
  /\ worker[w].pc = "schedule"
  /\ \/ /\ \/ (CheckPending(d) \/ check[d] = EndedCheck) /\ UNCHANGED check
           \/ ~CheckPending(d) /\ check' = [check EXCEPT ![d] = [deliveries |-> 0, due |-> 0]]
        /\ created' = [created EXCEPT ![d] = Done]
        /\ EndWorker(w)
        /\ UNCHANGED <<rows, deadLetter>>
     \/ Retry(w)
  /\ UNCHANGED world

FailsAtAnyRevision(w) == worker[w].d \in Executing \cup Ended
FailsAtRevision(w) == Unchanged(w)

\* failDeployment of both handlers, guarded by the revision they read.
FailDeployment(w) ==
  /\ worker[w].pc = "fail"
  /\ \/ /\ FailsAtRevision(w)
        /\ Complete(worker[w].d, "failed", proven)
        /\ Acknowledge(w) /\ EndWorker(w)
     \/ ~FailsAtRevision(w) /\ Retry(w)
  /\ UNCHANGED world
-----------------------------------------------------------------------------
(***************************************************************************)
(* RunnerStatusHandler.                                                    *)
(***************************************************************************)
CheckDelivered(w, d) ==
  /\ worker[w] = Idle /\ CheckPending(d) /\ check[d].deliveries < MaxCheckDeliveries
  /\ Dispatched(d) /\ check[d].due <= age[d]
  /\ IF d \in Executing
     THEN /\ worker' = [worker EXCEPT ![w] =
               [pc |-> IF DeadlinePassed(d) THEN "fail" ELSE "renew", event |-> "check",
                d |-> d, rev |-> dep[d].revision]]
          /\ check' = [check EXCEPT ![d] =
               [deliveries |-> @.deliveries + 1, due |-> IF age[d] = Window THEN Window ELSE age[d] + 1]]
     ELSE check' = [check EXCEPT ![d] = EndedCheck] /\ UNCHANGED worker
  /\ UNCHANGED <<rows, created, deadLetter, world>>

\* RunnerInterface.CheckStatus, per back end: the verdicts it can reach.  A Pod
\* that has started is never stuck; a task that is stopping may be, one that
\* stopped for another reason than its own exit is, and one that ECS does not
\* list (yet, or any more) has completed.
KubernetesCheckStatus(d) ==
  CASE job[d] \in {"none", "pending"} -> {"waiting", "stuck", "error"}
    [] job[d] = "running" -> {"waiting", "error"}
    [] job[d] = "stopped" -> {"waiting", "completed", "error"}

EcsCheckStatus(d) ==
  {"completed", "error"} \cup IF job[d] = "none" THEN {} ELSE {"waiting", "stuck"}

AgentCheckStatus(d) == {"waiting"}

CheckStatus(d) ==
  CASE Kind[RunnerOf[d]] = "kubernetes" -> KubernetesCheckStatus(d)
    [] Kind[RunnerOf[d]] = "ecs" -> EcsCheckStatus(d)
    [] Kind[RunnerOf[d]] = "agent" -> AgentCheckStatus(d)

Poll(w) ==
  /\ worker[w].pc = "poll"
  /\ \E verdict \in CheckStatus(worker[w].d) :
       \/ verdict = "waiting" /\ Retry(w)
       \/ verdict \in {"stuck", "error"} /\ Proceed(w, "fail")
       \/ verdict = "completed" /\ Discard(w)
  /\ UNCHANGED world

\* The handler's replica dies, or its delivery times out.
WorkerCrashes(w) ==
  /\ worker[w] # Idle
  /\ Retry(w)
  /\ UNCHANGED world
-----------------------------------------------------------------------------
(***************************************************************************)
(* Results, errors and the operator.                                       *)
(***************************************************************************)
\* A completion of a Deployment that has already failed is kept as stop proof
\* of the attempt that owns the slot; the status is not touched.
LateCompletion(d) ==
  /\ proven' = proven \cup {d}
  /\ slot' = [slot EXCEPT ![d] = Released(d, proven')]
  /\ UNCHANGED <<dep, lease, age, history>>

LateAccepted(d) ==
  \/ Mode[d] = "observation" /\ dep[d].status \in {"succeeded", "failed"}
  \/ Mode[d] # "observation" /\ dep[d].status = "failed" /\ slot[d] = "held" /\ Dispatched(d)

AppliedOnce(d) == d \in Executing

\* commonUpdateDeploymentResults of a proven completion, under the row lock.
\* It may be delivered again after the transaction has committed.
ApplyResult(d) ==
  /\ d \in results
  /\ \/ AppliedOnce(d) /\ \E status \in {"succeeded", "failed"} : Complete(d, status, proven \cup {d})
     \/ ~AppliedOnce(d) /\ LateAccepted(d) /\ LateCompletion(d)
     \/ ~AppliedOnce(d) /\ ~LateAccepted(d) /\ UNCHANGED rows
  /\ \E again \in BOOLEAN : results' = IF again THEN results ELSE results \ {d}
  /\ UNCHANGED <<broker, job, starts, errors, worker>>

\* ApplyRunnerError and InternalForceFailDeployment prove nothing about the Runner.
ApplyRunnerError(d) ==
  /\ d \in errors
  /\ errors' = errors \ {d}
  /\ IF d \in Executing THEN Complete(d, "failed", proven) ELSE UNCHANGED rows
  /\ UNCHANGED <<broker, job, starts, results, worker>>

ForceFail(d) ==
  /\ d \in Executing
  /\ Complete(d, "failed", proven)
  /\ UNCHANGED <<broker, world, worker>>

OwnsNoSlot(d) == slot[d] # "held"

\* A forced DeleteDeploymentsForEnv, which a held slot refuses.
DeleteDeployment(d) ==
  /\ dep[d].status # "gone" /\ OwnsNoSlot(d)
  /\ dep' = [dep EXCEPT ![d].status = "gone"]
  /\ lease' = lease \ {d} /\ slot' = [slot EXCEPT ![d] = "none"]
  /\ UNCHANGED <<age, proven, history, broker, world, worker>>
-----------------------------------------------------------------------------
(***************************************************************************)
(* The Runner and the clock.                                               *)
(***************************************************************************)
runnerOnly == <<rows, broker, starts, worker>>

\* An agent does not start a command that has expired, and a command expires
\* no later than the dispatch budget.
JobStarts(d) ==
  /\ job[d] = "pending" /\ (Kind[RunnerOf[d]] = "agent" => ~DeadlinePassed(d))
  /\ job' = [job EXCEPT ![d] = "running"]
  /\ UNCHANGED <<runnerOnly, results, errors>>

JobReports(d) ==
  /\ job[d] = "running"
  /\ job' = [job EXCEPT ![d] = "stopped"]
  /\ results' = results \cup {d}
  /\ UNCHANGED <<runnerOnly, errors>>

\* The job dies, or its result is lost.
JobDies(d) ==
  /\ job[d] \in {"pending", "running"}
  /\ job' = [job EXCEPT ![d] = "stopped"]
  /\ UNCHANGED <<runnerOnly, results, errors>>

\* An agent refuses a command for good, for example because it expired.
AgentRefuses(d) ==
  /\ job[d] = "pending" /\ Kind[RunnerOf[d]] = "agent"
  /\ job' = [job EXCEPT ![d] = "stopped"]
  /\ errors' = errors \cup {d}
  /\ UNCHANGED <<runnerOnly, results>>

CollectedAtOnce(d) == Kind[RunnerOf[d]] = "kubernetes" /\ job[d] = "stopped"
\* Kubernetes deletes a finished Job after TTLSecondsAfterFinished, which is as
\* long as the dispatch budget that began before the Job did.
CollectedAfterTTL(d) ==
  Kind[RunnerOf[d]] = "kubernetes" /\ job[d] = "stopped" /\ DeadlinePassed(d)

JobCollected(d) ==
  /\ CollectedAfterTTL(d)
  /\ job' = [job EXCEPT ![d] = "none"]
  /\ UNCHANGED <<runnerOnly, results, errors>>

Tick(d) ==
  /\ Dispatched(d) /\ ~DeadlinePassed(d)
  /\ age' = [age EXCEPT ![d] = @ + 1]
  /\ UNCHANGED <<dep, lease, slot, proven, history, broker, world, worker>>
-----------------------------------------------------------------------------
Handle(w) ==
  \/ RenewLease(w) \/ ReserveRunnerJob(w) \/ CheckRunning(w)
  \/ BeginDeploymentDispatch(w) \/ StartRunner(w) \/ ScheduleStatusCheck(w)
  \/ FailDeployment(w) \/ Poll(w)

Next ==
  \/ \E w \in Workers, d \in Deployments : CreatedDelivered(w, d) \/ CheckDelivered(w, d)
  \/ \E w \in Workers : Handle(w) \/ RunnerUnavailable(w) \/ BundleFails(w) \/ WorkerCrashes(w)
  \/ \E d \in Deployments :
       \/ ApplyResult(d) \/ ApplyRunnerError(d) \/ ForceFail(d) \/ DeleteDeployment(d)
       \/ JobStarts(d) \/ JobReports(d) \/ JobDies(d) \/ AgentRefuses(d) \/ JobCollected(d) \/ Tick(d)

Spec == Init /\ [][Next]_vars

(***************************************************************************)
(* Fairness: pending events are delivered, a handler that runs goes on,    *)
(* events on their way arrive, and time passes.  Nothing obliges a Runner, *)
(* an operator or the Control Plane to do anything, and a delivery may     *)
(* fail again and again except when it only has to fail the Deployment.    *)
(***************************************************************************)
Fairness ==
  /\ \A d \in Deployments :
       /\ SF_vars(\E w \in Workers : CreatedDelivered(w, d))
       /\ SF_vars(\E w \in Workers : CheckDelivered(w, d))
       /\ WF_vars(ApplyResult(d)) /\ WF_vars(ApplyRunnerError(d)) /\ WF_vars(Tick(d))
  /\ \A w \in Workers : WF_vars(Handle(w)) /\ SF_vars(FailDeployment(w))

FairSpec == Spec /\ Fairness

-----------------------------------------------------------------------------
(***************************************************************************)
(* What must hold of dispatch whatever the handlers, the broker, the       *)
(* Runners and the operators of RunnerDispatch do.                         *)
(***************************************************************************)
WorkerRecord ==
  [pc : {"idle", "renew", "reserve", "poll", "running", "begin", "start", "schedule", "fail"},
   event : {"none", "created", "check"}, d : Deployments \cup {Nobody}, rev : 0..2]

\* Every variable keeps its type.
DispatchTypeOK ==
  /\ dep \in [Deployments -> [status : {"executing", "succeeded", "failed", "gone"}, revision : 1..2]]
  /\ lease \subseteq Deployments
  /\ slot \in [Deployments -> {"none", "held", "released"}]
  /\ age \in [Deployments -> 0..Unsent]
  /\ proven \subseteq Deployments /\ history \in [Deployments -> Nat]
  /\ created \in [Deployments -> 0..Done]
  /\ deadLetter \subseteq {"created", "check"} \X Deployments
  /\ check \in [Deployments -> [deliveries : 0..(MaxCheckDeliveries + 1), due : 0..Unsent]]
  /\ job \in [Deployments -> {"none", "pending", "running", "stopped"}]
  /\ starts \in [Deployments -> Nat]
  /\ results \subseteq Deployments /\ errors \subseteq Deployments
  /\ worker \in [Workers -> WorkerRecord]

LiveJobs(r) == {d \in Deployments : RunnerOf[d] = r /\ job[d] \in {"pending", "running"}}

\* A Runner never has more live jobs than max_parallel_jobs, although jobs
\* outlive the failure of their Deployments, created events are redelivered and
\* several Environments dispatch to it at once (ReserveRunnerJob, ReleaseRunnerJob).
LiveJobsWithinCapacity ==
  \A r \in Runners : Limit[r] # 0 => Cardinality(LiveJobs(r)) <= Limit[r]

\* A Deployment that ended before any command could be sent gives its slot back:
\* no order of a failing handler and a reserving one leaks the Runner's capacity.
NoSlotLeaked == \A d \in Deployments : d \in Ended /\ ~Dispatched(d) => slot[d] # "held"

\* Deleting an Environment never forgets a job that may still change it.
DeletedMeansStopped ==
  \A d \in Deployments : dep[d].status = "gone" => job[d] \notin {"pending", "running"}

\* The Runner works on a Deployment at most once, however often its created
\* event is delivered and although Kubernetes forgets a finished Job.
RunsOnce == \A d \in Deployments : starts[d] <= 1

\* An ended Deployment has one history record, whoever raced to end it.
HistoryOnce ==
  \A d \in Deployments : dep[d].status # "gone" => history[d] = IF d \in Ended THEN 1 ELSE 0

\* How a Deployment ended is final: a late result, a watchdog or an operator
\* that read it earlier never rewrites it; only its Environment's deletion follows.
OutcomeFinalStep ==
  \A d \in Ended : dep'[d].status \in {dep[d].status, "gone"}
OutcomeFinal == [][OutcomeFinalStep]_vars

\* The broker does not give up a status check while the dispatch window is
\* open: MaxDeliveries retries of RetryInterval last longer than the budget.
ChecksOutliveWindow ==
  \A d \in Deployments : <<"check", d>> \in deadLetter => DeadlinePassed(d)

\* The six promises above that speak of a state.
DispatchSafe ==
  /\ LiveJobsWithinCapacity /\ NoSlotLeaked /\ DeletedMeansStopped
  /\ RunsOnce /\ HistoryOnce /\ ChecksOutliveWindow

SentInTime(d) == starts'[d] # starts[d] => ~DeadlinePassed(d)

\* Kubernetes Runners and agents get no command after the dispatch budget, although
\* it may run out between BeginDeploymentDispatch and Start: they look again.
CommandsInTimeStep ==
  \A d \in Deployments : Kind[RunnerOf[d]] # "ecs" => SentInTime(d)

\* "An expired or unknown budget cannot start a Runner" (docs/runner-dispatch-recovery.md).
\* No run checks it: ecsRunnerInstance.Start does not look at the deadline.
SentWithinWindow == [][\A d \in Deployments : SentInTime(d)]_vars

GivenUp(d) == \E e \in {"created", "check"} : <<e, d>> \in deadLetter
ResultLost(d) ==
  Kind[RunnerOf[d]] # "agent" /\ job[d] = "stopped" /\ d \notin results \cup errors

\* The status checks of an ECS task ended with "completed" while it was still alive.
Overlooked(d) ==
  Kind[RunnerOf[d]] = "ecs" /\ job[d] \in {"pending", "running"} /\ check[d] = EndedCheck

\* A Deployment does not execute for ever, except in three ways: the broker gave up
\* one of its events; its Runner stopped and its result was lost, for which the
\* status checks of Kubernetes and ECS Runners no longer look; or ECS did not list
\* its task when they looked, and the task goes on for ever.
EndsUnlessLost ==
  \A d \in Deployments : d \in Executing ~> d \notin Executing \/ GivenUp(d) \/ ResultLost(d) \/ Overlooked(d)
=============================================================================
