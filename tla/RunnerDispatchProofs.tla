------------------------- MODULE RunnerDispatchProofs -------------------------
(***************************************************************************)
(* Dispatch for every number of Deployments, Runners, handlers and         *)
(* deliveries, and for every capacity and dispatch window: a Runner's      *)
(* slots bound its live jobs, a Deployment is executed once, and how it    *)
(* ended is final.  Then the module code the Runner is given, whatever the *)
(* catalogue answers: it is what was asked for.                            *)
(***************************************************************************)
EXTENDS RunnerDispatch, ModuleExecution, FiniteSetTheorems, SequenceTheorems, TLAPS

-----------------------------------------------------------------------------
(***************************************************************************)
(* Type correctness.  It needs that a Deployment ends once (its revision   *)
(* is counted to 2) and that a handler that is not idle has a Deployment.  *)
(***************************************************************************)
Busy(w) == worker[w].pc # "idle"

HandlersTyped ==
  /\ worker \in [Workers -> WorkerRecord]
  /\ \A w \in Workers : (~Busy(w) => worker[w] = Idle) /\ (Busy(w) => worker[w].d \in Deployments)

BrokerTyped ==
  /\ created \in [Deployments -> 0..Done]
  /\ deadLetter \subseteq {"created", "check"} \X Deployments
  /\ check \in [Deployments -> [deliveries : 0..(MaxCheckDeliveries + 1), due : 0..Unsent]]

RowsTyped ==
  /\ dep \in [Deployments -> [status : {"executing", "succeeded", "failed", "gone"}, revision : 1..2]]
  /\ lease \subseteq Deployments
  /\ slot \in [Deployments -> {"none", "held", "released"}]
  /\ age \in [Deployments -> 0..Unsent]
  /\ proven \subseteq Deployments /\ history \in [Deployments -> Nat]
  /\ \A d \in Executing : dep[d].revision = 1

WorldTyped ==
  /\ job \in [Deployments -> {"none", "pending", "running", "stopped"}]
  /\ starts \in [Deployments -> Nat]
  /\ results \subseteq Deployments /\ errors \subseteq Deployments

TypeInv == RowsTyped /\ BrokerTyped /\ WorldTyped /\ HandlersTyped

\* The invariant types every variable.
LEMMA TypeInvSuffices == TypeInv => DispatchTypeOK
BY DEF TypeInv, RowsTyped, BrokerTyped, WorldTyped, HandlersTyped, DispatchTypeOK

\* At first everything executes and nothing was delivered.
LEMMA InitTypeInv ==
  ASSUME DispatchAssumption, Init
  PROVE  TypeInv
<1>1. Window \in Nat /\ MaxDeliveries \in Nat
  BY DEF DispatchAssumption
<1>2. RowsTyped /\ WorldTyped
  BY <1>1 DEF Init, RowsTyped, WorldTyped, Executing, Unsent
<1>3. BrokerTyped
  BY <1>1 DEF Init, BrokerTyped, NoCheck, Done, Unsent, MaxCheckDeliveries
<1>4. HandlersTyped
  BY DEF Init, HandlersTyped, WorkerRecord, Idle, Busy
<1> QED
  BY <1>2, <1>3, <1>4 DEF TypeInv

\* A handler that ends is idle again.
LEMMA EndTyped ==
  ASSUME TypeInv, NEW w \in Workers, EndWorker(w)
  PROVE  HandlersTyped'
BY DEF TypeInv, HandlersTyped, EndWorker, Idle, WorkerRecord, Busy

\* A handler that goes on keeps its Deployment.
LEMMA SetTyped ==
  ASSUME TypeInv, NEW w \in Workers, Busy(w),
         NEW pc \in {"renew", "reserve", "poll", "running", "begin", "start", "schedule", "fail"},
         SetWorker(w, pc)
  PROVE  HandlersTyped'
BY DEF TypeInv, HandlersTyped, SetWorker, WorkerRecord, Busy

\* The broker's answer to the end of a delivery.
LEMMA AcknowledgeTyped ==
  ASSUME DispatchAssumption, TypeInv, NEW w \in Workers, Busy(w), Acknowledge(w)
  PROVE  BrokerTyped'
<1>1. worker[w].d \in Deployments /\ Window \in Nat /\ MaxDeliveries \in Nat
  BY DEF TypeInv, HandlersTyped, DispatchAssumption
<1> QED
  BY <1>1 DEF TypeInv, BrokerTyped, Acknowledge, EndedCheck, Done, Unsent, MaxCheckDeliveries

LEMMA RedeliverTyped ==
  ASSUME DispatchAssumption, TypeInv, NEW w \in Workers, Busy(w), Redeliver(w)
  PROVE  BrokerTyped'
<1>1. worker[w].d \in Deployments /\ Window \in Nat /\ MaxDeliveries \in Nat
  BY DEF TypeInv, HandlersTyped, DispatchAssumption
<1>2. CASE worker[w].event = "created"
  BY <1>1, <1>2 DEF TypeInv, BrokerTyped, Redeliver
<1>3. CASE worker[w].event # "created"
  BY <1>1, <1>3 DEF TypeInv, BrokerTyped, Redeliver, EndedCheck, Unsent, MaxCheckDeliveries
<1> QED
  BY <1>2, <1>3

\* A step that leaves the rows, the broker or the world alone keeps their types.
LEMMA RowsSame == TypeInv /\ UNCHANGED rows => RowsTyped'
BY DEF TypeInv, rows, RowsTyped, Executing
LEMMA BrokerSame == TypeInv /\ UNCHANGED broker => BrokerTyped'
BY DEF TypeInv, broker, BrokerTyped
LEMMA WorldSame == TypeInv /\ UNCHANGED world => WorldTyped'
BY DEF TypeInv, world, WorldTyped
LEMMA WorkerSame == TypeInv /\ UNCHANGED worker => HandlersTyped'
BY DEF TypeInv, HandlersTyped, Busy

\* The three ways in which most steps of a handler end.
Outcomes(w) ==
  /\ UNCHANGED <<rows, world>>
  /\ \/ Discard(w)
     \/ Retry(w)
     \/ \E pc \in {"renew", "reserve", "poll", "running", "begin", "start", "schedule", "fail"} :
          Proceed(w, pc)

LEMMA OutcomesTyped ==
  ASSUME DispatchAssumption, TypeInv, NEW w \in Workers, Busy(w), Outcomes(w)
  PROVE  TypeInv'
<1>1. RowsTyped' /\ WorldTyped'
  BY RowsSame, WorldSame DEF Outcomes
<1>2. CASE Discard(w)
  BY <1>1, <1>2, EndTyped, AcknowledgeTyped DEF Discard, TypeInv
<1>3. CASE Retry(w)
  BY <1>1, <1>3, EndTyped, RedeliverTyped DEF Retry, TypeInv
<1>4. ASSUME NEW pc \in {"renew", "reserve", "poll", "running", "begin", "start", "schedule", "fail"},
             Proceed(w, pc)
      PROVE  TypeInv'
  BY <1>1, <1>4, SetTyped, BrokerSame DEF Proceed, TypeInv
<1> QED
  BY <1>2, <1>3, <1>4 DEF Outcomes

\* The steps of a handler that change neither rows nor world.
Quiet(w) ==
  \/ RenewLease(w) \/ RunnerUnavailable(w) \/ CheckRunning(w) \/ BundleFails(w) \/ Poll(w)
  \/ WorkerCrashes(w)

LEMMA QuietOutcomes ==
  ASSUME TypeInv, NEW w \in Workers, Quiet(w)
  PROVE  Busy(w) /\ Outcomes(w)
<1>1. CASE WorkerCrashes(w)
  BY <1>1 DEF WorkerCrashes, Outcomes, Retry, Busy, TypeInv, HandlersTyped
<1>2. CASE RenewLease(w)
  BY <1>2 DEF RenewLease, Outcomes, Proceed, Busy
<1>3. CASE RunnerUnavailable(w)
  BY <1>3 DEF RunnerUnavailable, Outcomes, Proceed, Retry, Busy
<1>4. CASE CheckRunning(w)
  BY <1>4 DEF CheckRunning, Outcomes, Proceed, Busy
<1>5. CASE BundleFails(w)
  BY <1>5 DEF BundleFails, Outcomes, Proceed, Retry, Busy
<1>6. CASE Poll(w)
  BY <1>6 DEF Poll, Outcomes, Proceed, Retry, Discard, Busy
<1> QED
  BY <1>1, <1>2, <1>3, <1>4, <1>5, <1>6 DEF Quiet

\* The end of an executing Deployment.
LEMMA CompleteTyped ==
  ASSUME TypeInv, NEW d \in Executing, NEW ended \in {"succeeded", "failed"},
         NEW proofs \in SUBSET Deployments, Complete(d, ended, proofs)
  PROVE  RowsTyped'
<1>1. d \in Deployments /\ RowsTyped
  BY DEF Executing, TypeInv
<1>2. dep' \in [Deployments -> [status : {"executing", "succeeded", "failed", "gone"}, revision : 1..2]]
  BY <1>1 DEF Complete, RowsTyped
<1>3. \A e \in Executing' : e \in Executing /\ dep'[e] = dep[e]
  BY <1>1 DEF Complete, RowsTyped, Executing
<1>4. \A e \in Executing' : dep'[e].revision = 1
  BY <1>1, <1>3 DEF RowsTyped
<1>5. slot' \in [Deployments -> {"none", "held", "released"}] /\ history' \in [Deployments -> Nat]
  BY <1>1 DEF Complete, RowsTyped, Released
<1>6. lease' \subseteq Deployments /\ proven' \subseteq Deployments /\ age' \in [Deployments -> 0..Unsent]
  BY <1>1 DEF Complete, RowsTyped
<1> QED
  BY <1>2, <1>4, <1>5, <1>6 DEF RowsTyped

\* The start of a job.
LEMMA CreateJobTyped ==
  ASSUME TypeInv, NEW d \in Deployments, CreateJob(d)
  PROVE  WorldTyped'
BY DEF TypeInv, WorldTyped, CreateJob

\* The steps of handlers that change rows or the world.
LEMMA DeliveryTyped ==
  ASSUME DispatchAssumption, TypeInv, NEW w \in Workers, NEW d \in Deployments,
         CreatedDelivered(w, d) \/ CheckDelivered(w, d)
  PROVE  TypeInv'
<1>1. Window \in Nat \ {0} /\ MaxDeliveries \in Nat /\ dep[d].revision \in 1..2
  BY DEF DispatchAssumption, TypeInv, RowsTyped
<1>2. CASE CreatedDelivered(w, d)
  <2>1. RowsTyped' /\ WorldTyped'
    BY <1>2, RowsSame, WorldSame DEF CreatedDelivered
  <2>2. BrokerTyped'
    BY <1>1, <1>2 DEF CreatedDelivered, TypeInv, BrokerTyped, CreatedPending, Done
  <2>3. HandlersTyped'
    BY <1>1, <1>2 DEF CreatedDelivered, TypeInv, HandlersTyped, WorkerRecord, Busy, Idle
  <2> QED
    BY <2>1, <2>2, <2>3 DEF TypeInv
<1>3. CASE CheckDelivered(w, d)
  <2>1. RowsTyped' /\ WorldTyped'
    BY <1>3, RowsSame, WorldSame DEF CheckDelivered
  <2>2. age[d] \in 0..Window /\ MaxCheckDeliveries \in Nat
    BY <1>1, <1>3 DEF CheckDelivered, TypeInv, RowsTyped, Dispatched, Unsent, MaxCheckDeliveries
  <2>3. check[d].deliveries \in Nat /\ check[d].deliveries < MaxCheckDeliveries
    BY <1>3 DEF CheckDelivered, TypeInv, BrokerTyped
  <2>4. BrokerTyped'
    BY <1>1, <1>3, <2>2, <2>3 DEF CheckDelivered, TypeInv, BrokerTyped, EndedCheck, Unsent, MaxCheckDeliveries
  <2>5. HandlersTyped'
    BY <1>1, <1>3 DEF CheckDelivered, TypeInv, HandlersTyped, WorkerRecord, Busy, Idle
  <2> QED
    BY <2>1, <2>4, <2>5 DEF TypeInv
<1> QED
  BY <1>2, <1>3

LEMMA HandlerTyped ==
  ASSUME DispatchAssumption, TypeInv, NEW w \in Workers,
         \/ ReserveRunnerJob(w) \/ BeginDeploymentDispatch(w) \/ StartRunner(w)
         \/ ScheduleStatusCheck(w) \/ FailDeployment(w)
  PROVE  TypeInv'
<1>1. Window \in Nat \ {0} /\ Unsent \in Nat /\ 0 \in 0..Unsent
  BY DEF DispatchAssumption, Unsent
<1>2. Busy(w) /\ worker[w].d \in Deployments
  BY DEF TypeInv, HandlersTyped, Busy, ReserveRunnerJob, BeginDeploymentDispatch, StartRunner,
     ScheduleStatusCheck, FailDeployment
<1>3. CASE ReserveRunnerJob(w)
  <2>1. CASE Outcomes(w)
    BY <1>2, <2>1, OutcomesTyped
  <2>2. CASE ~Outcomes(w)
    <3>1. /\ slot' = [slot EXCEPT ![worker[w].d] = "held"] /\ SetWorker(w, "running")
          /\ UNCHANGED <<dep, lease, age, proven, history, broker>> /\ UNCHANGED world
      BY <1>3, <2>2 DEF ReserveRunnerJob, Outcomes, Proceed, Retry
    <3>2. RowsTyped'
      BY <1>2, <3>1 DEF TypeInv, RowsTyped, Executing
    <3> QED
      BY <1>2, <3>1, <3>2, BrokerSame, WorldSame, SetTyped DEF TypeInv
  <2> QED
    BY <2>1, <2>2
<1>4. CASE BeginDeploymentDispatch(w)
  <2>1. CASE Outcomes(w)
    BY <1>2, <2>1, OutcomesTyped
  <2>2. CASE ~Outcomes(w)
    <3>1. /\ age' = [age EXCEPT ![worker[w].d] = BudgetAge(worker[w].d)] /\ SetWorker(w, "start")
          /\ UNCHANGED <<dep, lease, slot, proven, history, broker>> /\ UNCHANGED world
      BY <1>4, <2>2 DEF BeginDeploymentDispatch, Outcomes, Proceed
    <3>2. RowsTyped'
      BY <1>1, <1>2, <3>1 DEF TypeInv, RowsTyped, Executing, BudgetAge
    <3> QED
      BY <1>2, <3>1, <3>2, BrokerSame, WorldSame, SetTyped DEF TypeInv
  <2> QED
    BY <2>1, <2>2
<1>5. CASE StartRunner(w)
  <2>1. WorldTyped'
    BY <1>2, <1>5, CreateJobTyped, WorldSame
    DEF StartRunner, KubernetesStart, AgentStart, EcsStart, CreateAttempted
  <2>2. \/ Retry(w)
        \/ Proceed(w, "schedule")
        \/ Proceed(w, "fail")
    BY <1>5 DEF StartRunner, KubernetesStart, AgentStart, EcsStart
  <2> QED
    BY <1>2, <2>1, <2>2, RowsSame, BrokerSame, EndTyped, SetTyped, RedeliverTyped
    DEF Proceed, Retry, TypeInv
<1>6. CASE ScheduleStatusCheck(w)
  <2>1. CASE Retry(w)
    BY <1>2, <1>6, <2>1, OutcomesTyped DEF ScheduleStatusCheck, Outcomes, Retry
  <2>2. CASE ~Retry(w)
    <3>1. /\ created' = [created EXCEPT ![worker[w].d] = Done] /\ UNCHANGED deadLetter
          /\ \/ UNCHANGED check
             \/ check' = [check EXCEPT ![worker[w].d] = [deliveries |-> 0, due |-> 0]]
          /\ EndWorker(w) /\ UNCHANGED rows /\ UNCHANGED world
      BY <1>6, <2>2 DEF ScheduleStatusCheck
    <3>2. Done \in 0..Done /\ 0 \in 0..(MaxCheckDeliveries + 1)
      BY <1>1 DEF Done, MaxCheckDeliveries, DispatchAssumption
    <3>3. BrokerTyped'
      BY <1>1, <1>2, <3>1, <3>2 DEF TypeInv, BrokerTyped
    <3> QED
      BY <3>1, <3>3, RowsSame, WorldSame, EndTyped DEF TypeInv
  <2> QED
    BY <2>1, <2>2
<1>7. CASE FailDeployment(w)
  <2>1. CASE Retry(w)
    BY <1>2, <1>7, <2>1, OutcomesTyped DEF FailDeployment, Outcomes, Retry
  <2>2. CASE ~Retry(w)
    <3>1. /\ Complete(worker[w].d, "failed", proven) /\ Acknowledge(w) /\ EndWorker(w)
          /\ worker[w].d \in Executing /\ UNCHANGED world
      BY <1>7, <2>2 DEF FailDeployment, FailsAtRevision, Unchanged
    <3>2. RowsTyped'
      BY <3>1, CompleteTyped DEF TypeInv, RowsTyped
    <3> QED
      BY <1>2, <3>1, <3>2, AcknowledgeTyped, EndTyped, WorldSame DEF TypeInv
  <2> QED
    BY <2>1, <2>2
<1> QED
  BY <1>3, <1>4, <1>5, <1>6, <1>7

\* Results, operators, the Runner and the clock.
Around(d) ==
  \/ ApplyResult(d) \/ ApplyRunnerError(d) \/ ForceFail(d) \/ DeleteDeployment(d)
  \/ JobStarts(d) \/ JobReports(d) \/ JobDies(d) \/ AgentRefuses(d) \/ JobCollected(d) \/ Tick(d)

LEMMA AroundRows ==
  ASSUME DispatchAssumption, TypeInv, NEW d \in Deployments, Around(d)
  PROVE  RowsTyped'
<1>1. Window \in Nat \ {0} /\ RowsTyped
  BY DEF DispatchAssumption, TypeInv
<1>2. proven \in SUBSET Deployments /\ proven \cup {d} \in SUBSET Deployments
  BY <1>1 DEF RowsTyped
<1>3. CASE ApplyResult(d)
  <2>1. CASE AppliedOnce(d)
    BY <1>2, <1>3, <2>1, CompleteTyped DEF ApplyResult, AppliedOnce
  <2>2. CASE LateCompletion(d)
    BY <1>1, <1>2, <2>2 DEF LateCompletion, RowsTyped, Executing, Released
  <2> QED
    BY <1>3, <2>1, <2>2, RowsSame DEF ApplyResult
<1>4. CASE ApplyRunnerError(d) \/ ForceFail(d)
  BY <1>2, <1>4, RowsSame, CompleteTyped DEF ApplyRunnerError, ForceFail
<1>5. CASE DeleteDeployment(d)
  <2>1. \A e \in Executing' : e \in Executing /\ dep'[e] = dep[e]
    BY <1>1, <1>5 DEF DeleteDeployment, RowsTyped, Executing
  <2> QED
    BY <1>1, <1>5, <2>1 DEF DeleteDeployment, RowsTyped
<1>6. CASE Tick(d)
  <2>1. age[d] + 1 \in 0..Unsent
    <3>1. age[d] \in 0..Unsent /\ age[d] # Unsent /\ age[d] # Window
      BY <1>1, <1>6 DEF Tick, RowsTyped, Dispatched, DeadlinePassed
    <3> QED
      BY <1>1, <3>1 DEF Unsent
  <2> QED
    BY <1>1, <1>6, <2>1 DEF Tick, RowsTyped, Executing
<1>7. CASE JobStarts(d) \/ JobReports(d) \/ JobDies(d) \/ AgentRefuses(d) \/ JobCollected(d)
  <2>1. UNCHANGED rows
    BY <1>7 DEF JobStarts, JobReports, JobDies, AgentRefuses, JobCollected, runnerOnly
  <2> QED
    BY <2>1, RowsSame
<1> QED
  BY <1>3, <1>4, <1>5, <1>6, <1>7 DEF Around

LEMMA AroundTyped ==
  ASSUME DispatchAssumption, TypeInv, NEW d \in Deployments, Around(d)
  PROVE  TypeInv'
<1>1. BrokerTyped' /\ HandlersTyped'
  BY BrokerSame, WorkerSame DEF Around, ApplyResult, ApplyRunnerError, ForceFail,
     DeleteDeployment, JobStarts, JobReports, JobDies, AgentRefuses, JobCollected, Tick, runnerOnly
<1>2. WorldTyped'
  BY WorldSame DEF Around, ApplyResult, ApplyRunnerError, ForceFail, DeleteDeployment, JobStarts,
     JobReports, JobDies, AgentRefuses, JobCollected, Tick, runnerOnly, TypeInv, WorldTyped
<1> QED
  BY <1>1, <1>2, AroundRows DEF TypeInv

\* Every step is one of these.
LEMMA StepCases ==
  ASSUME [Next]_vars
  PROVE  \/ \E w \in Workers, d \in Deployments : CreatedDelivered(w, d) \/ CheckDelivered(w, d)
         \/ \E w \in Workers : Quiet(w)
         \/ \E w \in Workers :
              \/ ReserveRunnerJob(w) \/ BeginDeploymentDispatch(w) \/ StartRunner(w)
              \/ ScheduleStatusCheck(w) \/ FailDeployment(w)
         \/ \E d \in Deployments : Around(d)
         \/ UNCHANGED vars
BY DEF Next, Handle, Quiet, Around

LEMMA TypeStep ==
  ASSUME DispatchAssumption, TypeInv, [Next]_vars
  PROVE  TypeInv'
<1>1. CASE UNCHANGED vars
  BY <1>1, RowsSame, BrokerSame, WorldSame, WorkerSame DEF vars, TypeInv
<1> QED
  BY <1>1, StepCases, DeliveryTyped, QuietOutcomes, OutcomesTyped, HandlerTyped, AroundTyped

\* Every variable keeps its type, and a handler under way has a Deployment.
THEOREM DispatchTypes ==
  ASSUME DispatchAssumption
  PROVE  Spec => []DispatchTypeOK
<1>1. Init => TypeInv
  BY InitTypeInv
<1>2. TypeInv /\ [Next]_vars => TypeInv'
  BY TypeStep
<1>3. TypeInv => DispatchTypeOK
  BY TypeInvSuffices
<1> QED
  BY <1>1, <1>2, <1>3, PTL DEF Spec
-----------------------------------------------------------------------------
(***************************************************************************)
(* What makes dispatch safe.  A slot is worth something because it follows *)
(* the durable attempt and not the Deployment: once an attempt is durable, *)
(* the slot is held until the job has run and ended for good (Attempts).   *)
(* A handler between two transactions still owns what it reserved, unless  *)
(* the Deployment is no longer executing (Handlers).                       *)
(***************************************************************************)
\* The one job of a Deployment has ended, and there will be no other.
Finished(d) == starts[d] = 1 /\ job[d] \in {"none", "stopped"}

Attempt(d) ==
  /\ starts[d] \in {0, 1}
  /\ starts[d] = 0 => job[d] = "none"
  /\ starts[d] = 1 => Dispatched(d)
  /\ starts[d] = 1 /\ job[d] = "none" => Kind[RunnerOf[d]] = "kubernetes" /\ DeadlinePassed(d)
  /\ Dispatched(d) => slot[d] = "held" \/ Finished(d)
  /\ d \in results \cup proven => Finished(d)
Attempts == \A d \in Deployments : Attempt(d)

Record(d) ==
  /\ dep[d].status # "gone" => history[d] = IF d \in Ended THEN 1 ELSE 0
  /\ dep[d].status = "gone" => slot[d] # "held"
  /\ d \in Ended /\ ~Dispatched(d) => slot[d] # "held"
Records == \A d \in Deployments : Record(d)

HandlerOwns(w) ==
  LET d == worker[w].d IN
  /\ worker[w].pc \in {"running", "begin"} /\ d \in Executing => slot[d] = "held"
  /\ worker[w].pc = "start" => Dispatched(d)
Handlers == \A w \in Workers : HandlerOwns(w)

SlotsWithinLimit == \A r \in Runners : Limit[r] # 0 => Cardinality(SlotsHeld(r)) <= Limit[r]

\* A status check is delivered at most once per interval until the deadline.
CheckPaced(d) ==
  /\ CheckPending(d) => check[d].deliveries <= check[d].due \/ DeadlinePassed(d)
  /\ <<"check", d>> \in deadLetter => DeadlinePassed(d)
ChecksPaced == \A d \in Deployments : CheckPaced(d)

DispatchInv == TypeInv /\ Attempts /\ Records /\ Handlers /\ SlotsWithinLimit /\ ChecksPaced

\* The invariant holds before anything was delivered.
LEMMA InitDispatchInv ==
  ASSUME DispatchAssumption, Init
  PROVE  DispatchInv
<1>1. TypeInv /\ Window \in Nat \ {0}
  BY InitTypeInv DEF DispatchAssumption
<1>2. Attempts
  BY DEF Init, Attempts, Attempt, Dispatched
<1>3. Records
  BY DEF Init, Records, Record, Ended
<1>4. Handlers
  BY DEF Init, Handlers, HandlerOwns, Idle
<1>5. SlotsWithinLimit
  BY DEF Init, SlotsWithinLimit, SlotsHeld
<1>6. ChecksPaced
  BY <1>1 DEF Init, ChecksPaced, CheckPaced, CheckPending, NoCheck
<1> QED
  BY <1>1, <1>2, <1>3, <1>4, <1>5, <1>6 DEF DispatchInv

\* A Deployment none of whose rows and nothing of whose job a step changes.
Untouched(d) ==
  /\ dep'[d] = dep[d] /\ history'[d] = history[d] /\ slot'[d] = slot[d] /\ age'[d] = age[d]
  /\ job'[d] = job[d] /\ starts'[d] = starts[d]
  /\ d \in results' \cup proven' <=> d \in results \cup proven

LEMMA UntouchedKept ==
  ASSUME NEW d \in Deployments, Attempt(d), Record(d), Untouched(d)
  PROVE  Attempt(d)' /\ Record(d)'
<1>1. Dispatched(d)' = Dispatched(d) /\ DeadlinePassed(d)' = DeadlinePassed(d)
  BY DEF Untouched, Dispatched, DeadlinePassed
<1>2. Finished(d)' = Finished(d)
  BY DEF Untouched, Finished
<1>3. (d \in Ended)' = (d \in Ended)
  BY DEF Untouched, Ended
<1> QED
  BY <1>1, <1>2, <1>3 DEF Untouched, Attempt, Record

\* The state of one Deployment, and that every other one is left alone.
LEMMA OneTouched ==
  ASSUME Attempts, Records, NEW d \in Deployments, Attempt(d)', Record(d)',
         \A e \in Deployments \ {d} : Untouched(e)
  PROVE  Attempts' /\ Records'
BY UntouchedKept DEF Attempts, Records

\* The end of a Deployment gives up its slot only with its job finished or never sent.
LEMMA CompleteKeeps ==
  ASSUME DispatchInv, NEW d \in Executing, NEW ended \in {"succeeded", "failed"},
         NEW proofs \in SUBSET Deployments, proofs = proven \/ proofs = proven \cup {d},
         d \in proofs => Finished(d), Complete(d, ended, proofs),
         UNCHANGED <<job, starts>>, results' = results \/ results' = results \ {d}
  PROVE  Attempts' /\ Records'
<1>1. d \in Deployments /\ RowsTyped /\ WorldTyped /\ Attempt(d) /\ Record(d) /\ Attempts /\ Records
  BY DEF Executing, DispatchInv, TypeInv, Attempts, Records
<1>2. /\ dep'[d].status = ended /\ history'[d] = history[d] + 1
      /\ slot'[d] = Released(d, proofs) /\ age' = age /\ proven' = proofs
  BY <1>1 DEF Complete, RowsTyped
<1>3. \A e \in Deployments \ {d} : Untouched(e)
  BY <1>1 DEF Complete, RowsTyped, Untouched
<1>4. Attempt(d)'
  BY <1>1, <1>2 DEF Attempt, Finished, Dispatched, DeadlinePassed, Released
<1>5. Record(d)'
  <2>1. history[d] = 0
    BY <1>1 DEF Record, Ended, Executing
  <2>2. d \in Ended'
    BY <1>1, <1>2 DEF Ended
  <2>3. ~Dispatched(d)' => slot'[d] # "held"
    BY <1>1, <1>2 DEF Released, Dispatched, RowsTyped
  <2> QED
    BY <1>2, <2>1, <2>2, <2>3 DEF Record
<1> QED
  BY <1>1, <1>3, <1>4, <1>5, OneTouched

LEMMA ReserveKeeps ==
  ASSUME DispatchInv, NEW d \in Executing, slot' = [slot EXCEPT ![d] = "held"],
         UNCHANGED <<dep, age, proven, history, world>>
  PROVE  Attempts' /\ Records'
<1>1. d \in Deployments /\ RowsTyped /\ Attempt(d) /\ Record(d) /\ Attempts /\ Records
  BY DEF Executing, DispatchInv, TypeInv, Attempts, Records
<1>2. \A e \in Deployments \ {d} : Untouched(e)
  BY <1>1 DEF RowsTyped, Untouched, world
<1>3. Attempt(d)' /\ Record(d)'
  BY <1>1 DEF Attempt, Record, Finished, Dispatched, DeadlinePassed, Ended, Executing, RowsTyped, world
<1> QED
  BY <1>1, <1>2, <1>3, OneTouched

LEMMA BeginKeeps ==
  ASSUME DispatchAssumption, DispatchInv, NEW d \in Executing, slot[d] = "held",
         age' = [age EXCEPT ![d] = BudgetAge(d)], UNCHANGED <<dep, slot, proven, history, world>>
  PROVE  Attempts' /\ Records' /\ Dispatched(d)'
<1>1. /\ d \in Deployments /\ RowsTyped /\ Attempt(d) /\ Record(d) /\ Attempts /\ Records
      /\ Window \in Nat \ {0}
  BY DEF Executing, DispatchInv, TypeInv, Attempts, Records, DispatchAssumption
<1>2. \A e \in Deployments \ {d} : Untouched(e)
  BY <1>1 DEF RowsTyped, Untouched, world
<1>3. age'[d] = BudgetAge(d)
  BY <1>1 DEF RowsTyped
<1>4. Dispatched(d)' /\ (Dispatched(d) => age'[d] = age[d])
  BY <1>1, <1>3 DEF BudgetAge, Dispatched, Unsent
<1>5. Attempt(d)' /\ Record(d)'
  BY <1>1, <1>4 DEF Attempt, Record, Finished, DeadlinePassed, Ended, Executing, world
<1> QED
  BY <1>1, <1>2, <1>4, <1>5, OneTouched

\* Only the first create makes a job: a back end that forgets one looks at the deadline.
LEMMA CreateKeeps ==
  ASSUME DispatchInv, NEW d \in Deployments, Dispatched(d), CreateJob(d),
         Kind[RunnerOf[d]] = "kubernetes" => ~DeadlinePassed(d), UNCHANGED rows
  PROVE  Attempts' /\ Records'
<1>1. RowsTyped /\ WorldTyped /\ Attempt(d) /\ Record(d) /\ Attempts /\ Records
  BY DEF DispatchInv, TypeInv, Attempts, Records
<1>2. \A e \in Deployments \ {d} : Untouched(e)
  BY <1>1 DEF WorldTyped, Untouched, CreateJob, rows
<1>3. Record(d)'
  BY <1>1 DEF Record, Ended, Dispatched, rows
<1>4. Attempt(d)'
  <2>1. CASE job[d] # "none"
    BY <1>1, <2>1 DEF Attempt, CreateJob, WorldTyped, Finished, Dispatched, DeadlinePassed, rows
  <2>2. CASE job[d] = "none"
    <3>1. starts[d] = 0 /\ slot[d] = "held" /\ d \notin results \cup proven
      BY <1>1, <2>2 DEF Attempt, Finished
    <3>2. /\ starts'[d] = 1 /\ job'[d] = "pending" /\ slot'[d] = "held" /\ age' = age
          /\ d \notin results' \cup proven'
      BY <1>1, <2>2, <3>1 DEF CreateJob, WorldTyped, rows
    <3> QED
      BY <3>2 DEF Attempt, Dispatched
  <2> QED
    BY <2>1, <2>2
<1> QED
  BY <1>1, <1>2, <1>3, <1>4, OneTouched

\* A result proves that its job has ended.
LEMMA ApplyResultKeeps ==
  ASSUME DispatchInv, NEW d \in Deployments, ApplyResult(d)
  PROVE  Attempts' /\ Records'
<1>1. RowsTyped /\ WorldTyped /\ Attempt(d) /\ Record(d) /\ Attempts /\ Records
  BY DEF DispatchInv, TypeInv, Attempts, Records
<1>2. d \in results /\ Finished(d) /\ UNCHANGED <<job, starts>>
  BY <1>1 DEF ApplyResult, Attempt
<1>3. results' = results \/ results' = results \ {d}
  BY DEF ApplyResult
<1>4. CASE AppliedOnce(d)
  <2>1. proven \cup {d} \in SUBSET Deployments
    BY <1>1 DEF RowsTyped
  <2>2. PICK ended \in {"succeeded", "failed"} : Complete(d, ended, proven \cup {d})
    BY <1>4 DEF ApplyResult
  <2> QED
    BY <1>2, <1>3, <1>4, <2>1, <2>2, CompleteKeeps DEF AppliedOnce
<1>5. CASE ~AppliedOnce(d) /\ LateAccepted(d)
  <2>1. LateCompletion(d)
    BY <1>5 DEF ApplyResult
  <2>2. \A e \in Deployments \ {d} : Untouched(e)
    BY <1>1, <1>2, <1>3, <2>1 DEF LateCompletion, RowsTyped, Untouched
  <2>3. slot'[d] \in {slot[d], "released"} /\ UNCHANGED <<dep, age, history>>
    BY <1>1, <2>1 DEF LateCompletion, RowsTyped, Released
  <2>4. Record(d)'
    BY <1>1, <2>3 DEF Record, Ended, Dispatched
  <2>5. Attempt(d)'
    BY <1>1, <1>2, <2>3 DEF Attempt, Finished, Dispatched, DeadlinePassed
  <2> QED
    BY <1>1, <2>2, <2>4, <2>5, OneTouched
<1>6. CASE ~AppliedOnce(d) /\ ~LateAccepted(d)
  <2>1. UNCHANGED rows
    BY <1>6 DEF ApplyResult
  <2>2. \A e \in Deployments \ {d} : Untouched(e)
    BY <1>2, <1>3, <2>1 DEF rows, Untouched
  <2>3. Attempt(d)' /\ Record(d)'
    BY <1>1, <1>2, <2>1 DEF rows, Attempt, Record, Finished, Ended, Dispatched, DeadlinePassed
  <2> QED
    BY <1>1, <2>2, <2>3, OneTouched
<1> QED
  BY <1>4, <1>5, <1>6

\* What the job itself does: it ends once, and ended jobs are forgotten only when late.
JobStep(d) == JobStarts(d) \/ JobReports(d) \/ JobDies(d) \/ AgentRefuses(d) \/ JobCollected(d)

LEMMA JobStepKeeps ==
  ASSUME DispatchInv, NEW d \in Deployments, JobStep(d)
  PROVE  Attempts' /\ Records'
<1>1. WorldTyped /\ Attempt(d) /\ Record(d) /\ Attempts /\ Records
  BY DEF DispatchInv, TypeInv, Attempts, Records
<1>2. UNCHANGED rows /\ UNCHANGED starts
  BY DEF JobStep, JobStarts, JobReports, JobDies, AgentRefuses, JobCollected, runnerOnly
<1>3. UNCHANGED <<dep, slot, age, proven, history>>
  BY <1>2 DEF rows
<1>4. /\ job[d] # "none" /\ \A e \in Deployments \ {d} : job'[e] = job[e]
      /\ results' = results \/ (results' = results \cup {d} /\ job'[d] = "stopped")
      /\ \/ job[d] = "pending" /\ job'[d] = "running"
         \/ job'[d] = "stopped"
         \/ job[d] = "stopped" /\ job'[d] = "none" /\ CollectedAfterTTL(d)
  BY <1>1 DEF JobStep, JobStarts, JobReports, JobDies, AgentRefuses, JobCollected, WorldTyped,
     CollectedAfterTTL
<1>5. \A e \in Deployments \ {d} : Untouched(e)
  BY <1>2, <1>3, <1>4 DEF Untouched
<1>6. Attempt(d)'
  BY <1>1, <1>2, <1>3, <1>4 DEF Attempt, Finished, Dispatched, DeadlinePassed, CollectedAfterTTL
<1>7. Record(d)'
  BY <1>1, <1>3 DEF Record, Ended, Dispatched
<1> QED
  BY <1>1, <1>5, <1>6, <1>7, OneTouched

LEMMA AroundKeeps ==
  ASSUME DispatchAssumption, DispatchInv, NEW d \in Deployments, Around(d)
  PROVE  Attempts' /\ Records'
<1>1. RowsTyped /\ WorldTyped /\ Attempt(d) /\ Record(d) /\ Attempts /\ Records
  BY DEF DispatchInv, TypeInv, Attempts, Records
<1>2. CASE ApplyRunnerError(d) \/ ForceFail(d)
  <2>1. UNCHANGED <<job, starts, results>> /\ (d \in proven => Finished(d))
    BY <1>1, <1>2 DEF ApplyRunnerError, ForceFail, world, Attempt
  <2>2. CASE d \in Executing
    <3>1. Complete(d, "failed", proven) /\ proven \in SUBSET Deployments
      BY <1>1, <1>2, <2>2 DEF ApplyRunnerError, ForceFail, RowsTyped
    <3> QED
      BY <2>1, <2>2, <3>1, CompleteKeeps
  <2>3. CASE d \notin Executing
    <3>1. UNCHANGED rows
      BY <1>2, <2>3 DEF ApplyRunnerError, ForceFail
    <3>2. \A e \in Deployments : Untouched(e)
      BY <2>1, <3>1 DEF rows, Untouched
    <3> QED
      BY <1>1, <3>2, UntouchedKept DEF Attempts, Records
  <2> QED
    BY <2>2, <2>3
<1>3. CASE DeleteDeployment(d)
  <2>1. \A e \in Deployments \ {d} : Untouched(e)
    BY <1>1, <1>3 DEF DeleteDeployment, RowsTyped, Untouched, world
  <2>2. /\ slot[d] # "held" /\ slot'[d] = "none" /\ dep'[d].status = "gone"
        /\ UNCHANGED <<age, proven, history, job, starts, results>>
    BY <1>1, <1>3 DEF DeleteDeployment, RowsTyped, OwnsNoSlot, world
  <2>3. Attempt(d)' /\ Record(d)'
    BY <1>1, <2>2 DEF Attempt, Record, Finished, Ended, Dispatched, DeadlinePassed
  <2> QED
    BY <1>1, <2>1, <2>3, OneTouched
<1>4. CASE Tick(d)
  <2>1. \A e \in Deployments \ {d} : Untouched(e)
    BY <1>1, <1>4 DEF Tick, RowsTyped, Untouched, world
  <2>2. /\ age'[d] = age[d] + 1 /\ age[d] \in 0..Unsent /\ age[d] # Unsent /\ age[d] # Window
        /\ UNCHANGED <<dep, slot, proven, history, job, starts, results>>
    BY <1>1, <1>4 DEF Tick, RowsTyped, Dispatched, DeadlinePassed, world
  <2>3. Dispatched(d) /\ Dispatched(d)' /\ ~DeadlinePassed(d)
    BY <2>2 DEF DispatchAssumption, Dispatched, DeadlinePassed, Unsent
  <2>4. Attempt(d)' /\ Record(d)'
    BY <1>1, <2>2, <2>3 DEF Attempt, Record, Finished, Ended
  <2> QED
    BY <1>1, <2>1, <2>4, OneTouched
<1> QED
  BY <1>2, <1>3, <1>4, ApplyResultKeeps, JobStepKeeps DEF Around, JobStep

\* What no step does to a Deployment behind a handler's back: bring it back to
\* execution, take its slot while it executes, or forget its dispatch.
RowStep(d) ==
  /\ d \in Executing' => d \in Executing /\ (slot[d] = "held" => slot'[d] = "held")
  /\ Dispatched(d) => Dispatched(d)'

LEMMA RowsSameStep ==
  ASSUME UNCHANGED rows
  PROVE  \A d \in Deployments : RowStep(d)
BY DEF rows, RowStep, Executing, Dispatched

LEMMA CompleteRowStep ==
  ASSUME TypeInv, NEW d \in Executing, NEW ended \in {"succeeded", "failed"}, NEW proofs,
         Complete(d, ended, proofs)
  PROVE  \A e \in Deployments : RowStep(e)
<1>1. d \in Deployments /\ RowsTyped
  BY DEF Executing, TypeInv
<1>2. d \notin Executing' /\ \A e \in Deployments \ {d} : dep'[e] = dep[e] /\ slot'[e] = slot[e]
  BY <1>1 DEF Complete, RowsTyped, Executing
<1>3. \A e \in Executing' : e \in Executing /\ e # d
  BY <1>2 DEF Executing
<1> QED
  BY <1>2, <1>3 DEF RowStep, Complete, Dispatched, Executing

LEMMA AroundRowStep ==
  ASSUME DispatchAssumption, TypeInv, NEW d \in Deployments, Around(d)
  PROVE  \A e \in Deployments : RowStep(e)
<1>1. RowsTyped
  BY DEF TypeInv
<1>2. CASE ApplyResult(d)
  <2>1. CASE AppliedOnce(d)
    BY <1>2, <2>1, CompleteRowStep DEF ApplyResult, AppliedOnce
  <2>2. CASE ~AppliedOnce(d) /\ LateAccepted(d)
    <3>1. LateCompletion(d)
      BY <1>2, <2>2 DEF ApplyResult
    <3>2. \A e \in Deployments \ {d} : slot'[e] = slot[e]
      BY <1>1, <3>1 DEF LateCompletion, RowsTyped
    <3> QED
      BY <2>2, <3>1, <3>2 DEF LateCompletion, AppliedOnce, RowStep, Executing, Dispatched
  <2>3. CASE UNCHANGED rows
    BY <2>3, RowsSameStep
  <2> QED
    BY <1>2, <2>1, <2>2, <2>3 DEF ApplyResult
<1>3. CASE ApplyRunnerError(d) \/ ForceFail(d)
  BY <1>3, CompleteRowStep, RowsSameStep DEF ApplyRunnerError, ForceFail
<1>4. CASE DeleteDeployment(d)
  BY <1>1, <1>4 DEF DeleteDeployment, RowsTyped, RowStep, Executing, Dispatched
<1>5. CASE Tick(d)
  <2>1. age[d] \in 0..Unsent /\ age[d] # Unsent /\ age[d] # Window /\ Window \in Nat
    BY <1>1, <1>5 DEF Tick, RowsTyped, Dispatched, DeadlinePassed, DispatchAssumption
  <2>2. age'[d] = age[d] + 1 /\ \A e \in Deployments \ {d} : age'[e] = age[e]
    <3>1. age \in [Deployments -> 0..Unsent] /\ age' = [age EXCEPT ![d] = age[d] + 1]
      BY <1>1, <1>5 DEF Tick, RowsTyped
    <3> QED
      BY <3>1
  <2>3. age'[d] # Unsent
    BY <2>1, <2>2 DEF Unsent
  <2> QED
    BY <1>5, <2>2, <2>3 DEF Tick, RowStep, Executing, Dispatched
<1>6. CASE JobStep(d)
  <2>1. UNCHANGED rows
    BY <1>6 DEF JobStep, JobStarts, JobReports, JobDies, AgentRefuses, JobCollected, runnerOnly
  <2> QED
    BY <2>1, RowsSameStep
<1> QED
  BY <1>2, <1>3, <1>4, <1>5, <1>6 DEF Around, JobStep

\* The other handlers keep what they own.
LEMMA HandlersKept ==
  ASSUME TypeInv, Handlers, \A d \in Deployments : RowStep(d), NEW w \in Workers, HandlerOwns(w)',
         \A v \in Workers \ {w} : worker'[v] = worker[v]
  PROVE  Handlers'
<1> SUFFICES ASSUME NEW v \in Workers, v # w PROVE HandlerOwns(v)'
  BY DEF Handlers
<1>1. worker'[v] = worker[v] /\ HandlerOwns(v)
  BY DEF Handlers
<1>2. Busy(v) => worker[v].d \in Deployments
  BY DEF TypeInv, HandlersTyped
<1> QED
  BY <1>1, <1>2 DEF HandlerOwns, RowStep, Busy

LEMMA HandlersSame ==
  ASSUME TypeInv, Handlers, \A d \in Deployments : RowStep(d), UNCHANGED worker
  PROVE  Handlers'
<1> SUFFICES ASSUME NEW v \in Workers PROVE HandlerOwns(v)'
  BY DEF Handlers
<1>1. worker'[v] = worker[v] /\ HandlerOwns(v)
  BY DEF Handlers
<1>2. Busy(v) => worker[v].d \in Deployments
  BY DEF TypeInv, HandlersTyped
<1> QED
  BY <1>1, <1>2 DEF HandlerOwns, RowStep, Busy

\* A handler that ends, or goes on to a step before which it owns nothing.
LEMMA EndOwns ==
  ASSUME TypeInv, NEW w \in Workers, EndWorker(w)
  PROVE  HandlerOwns(w)' /\ \A v \in Workers \ {w} : worker'[v] = worker[v]
BY DEF TypeInv, HandlersTyped, EndWorker, Idle, HandlerOwns

LEMMA SetOwns ==
  ASSUME TypeInv, NEW w \in Workers, NEW pc, SetWorker(w, pc),
         pc \in {"running", "begin"} /\ worker[w].d \in Executing' => slot'[worker[w].d] = "held",
         pc = "start" => Dispatched(worker[w].d)'
  PROVE  HandlerOwns(w)' /\ \A v \in Workers \ {w} : worker'[v] = worker[v]
<1>1. worker'[w].pc = pc /\ worker'[w].d = worker[w].d /\ \A v \in Workers \ {w} : worker'[v] = worker[v]
  BY DEF TypeInv, HandlersTyped, SetWorker, WorkerRecord
<1> QED
  BY <1>1 DEF HandlerOwns, Dispatched

LEMMA QuietKeeps ==
  ASSUME DispatchAssumption, DispatchInv, NEW w \in Workers, Quiet(w)
  PROVE  Attempts' /\ Records' /\ Handlers'
<1>1. TypeInv /\ Attempts /\ Records /\ Handlers /\ HandlerOwns(w)
  BY DEF DispatchInv, Handlers
<1>2. Outcomes(w)
  BY <1>1, QuietOutcomes
<1>3. UNCHANGED rows /\ UNCHANGED world
  BY <1>2 DEF Outcomes
<1>4. Attempts' /\ Records'
  <2>1. \A d \in Deployments : Untouched(d)
    BY <1>3 DEF rows, world, Untouched
  <2> QED
    BY <1>1, <2>1, UntouchedKept DEF Attempts, Records
<1>5. \A d \in Deployments : RowStep(d)
  BY <1>3, RowsSameStep
<1>6. \/ EndWorker(w)
      \/ \E pc \in {"fail", "reserve", "poll", "schedule"} : SetWorker(w, pc)
      \/ SetWorker(w, "begin") /\ worker[w].pc = "running"
  BY DEF Quiet, RenewLease, RunnerUnavailable, CheckRunning, BundleFails, Poll, WorkerCrashes,
     Proceed, Retry, Discard
<1>7. HandlerOwns(w)' /\ \A v \in Workers \ {w} : worker'[v] = worker[v]
  <2>1. CASE EndWorker(w)
    BY <1>1, <2>1, EndOwns
  <2>2. ASSUME NEW pc \in {"fail", "reserve", "poll", "schedule"}, SetWorker(w, pc)
        PROVE  HandlerOwns(w)' /\ \A v \in Workers \ {w} : worker'[v] = worker[v]
    BY <1>1, <2>2, SetOwns
  <2>3. CASE SetWorker(w, "begin") /\ worker[w].pc = "running"
    <3>1. worker[w].d \in Executing' => slot'[worker[w].d] = "held"
      BY <1>1, <1>3, <2>3 DEF rows, Executing, HandlerOwns
    <3> QED
      BY <1>1, <2>3, <3>1, SetOwns
  <2> QED
    BY <1>6, <2>1, <2>2, <2>3
<1> QED
  BY <1>1, <1>4, <1>5, <1>7, HandlersKept

\* A new handler owns nothing yet.
LEMMA DeliveryKeeps ==
  ASSUME DispatchInv, NEW w \in Workers, NEW d \in Deployments,
         CreatedDelivered(w, d) \/ CheckDelivered(w, d)
  PROVE  Attempts' /\ Records' /\ Handlers'
<1>1. UNCHANGED rows /\ UNCHANGED world
  BY DEF CreatedDelivered, CheckDelivered
<1>2. TypeInv /\ Attempts /\ Records /\ Handlers
  BY DEF DispatchInv
<1>3. Attempts' /\ Records'
  <2>1. \A e \in Deployments : Untouched(e)
    BY <1>1 DEF rows, world, Untouched
  <2> QED
    BY <1>2, <2>1, UntouchedKept DEF Attempts, Records
<1>4. \A e \in Deployments : RowStep(e)
  BY <1>1, RowsSameStep
<1>5. CASE UNCHANGED worker
  BY <1>2, <1>3, <1>4, <1>5, HandlersSame
<1>6. CASE ~UNCHANGED worker
  <2>1. PICK pc \in {"renew", "fail"}, event \in {"created", "check"} :
          worker' = [worker EXCEPT ![w] = [pc |-> pc, event |-> event, d |-> d, rev |-> dep[d].revision]]
    BY <1>6 DEF CreatedDelivered, CheckDelivered
  <2>2. worker'[w].pc \in {"renew", "fail"} /\ \A v \in Workers \ {w} : worker'[v] = worker[v]
    BY <1>2, <2>1 DEF TypeInv, HandlersTyped
  <2>3. HandlerOwns(w)'
    BY <2>2 DEF HandlerOwns
  <2> QED
    BY <1>2, <1>3, <1>4, <2>2, <2>3, HandlersKept
<1> QED
  BY <1>5, <1>6

\* What each handler's step writes, it may write.
LEMMA HandlerKeeps ==
  ASSUME DispatchAssumption, DispatchInv, NEW w \in Workers,
         \/ ReserveRunnerJob(w) \/ BeginDeploymentDispatch(w) \/ StartRunner(w)
         \/ ScheduleStatusCheck(w) \/ FailDeployment(w)
  PROVE  Attempts' /\ Records' /\ (\A d \in Deployments : RowStep(d)) /\ HandlerOwns(w)'
         /\ \A v \in Workers \ {w} : worker'[v] = worker[v]
<1> DEFINE d == worker[w].d
           Goal == /\ Attempts' /\ Records' /\ (\A e \in Deployments : RowStep(e)) /\ HandlerOwns(w)'
                   /\ \A v \in Workers \ {w} : worker'[v] = worker[v]
<1>1. /\ TypeInv /\ Attempts /\ Records /\ HandlerOwns(w) /\ RowsTyped
      /\ Window \in Nat \ {0}
  BY DEF DispatchInv, Handlers, TypeInv, DispatchAssumption
<1>2. Busy(w) /\ d \in Deployments
  BY <1>1 DEF TypeInv, HandlersTyped, Busy, ReserveRunnerJob, BeginDeploymentDispatch, StartRunner,
     ScheduleStatusCheck, FailDeployment
<1>3. UNCHANGED <<rows, world>> => Attempts' /\ Records' /\ \A e \in Deployments : RowStep(e)
  <2> SUFFICES ASSUME UNCHANGED <<rows, world>>
               PROVE  Attempts' /\ Records' /\ \A e \in Deployments : RowStep(e)
    OBVIOUS
  <2>1. \A e \in Deployments : Untouched(e)
    BY DEF rows, world, Untouched
  <2> QED
    BY <1>1, <2>1, UntouchedKept, RowsSameStep DEF Attempts, Records
<1>4. CASE EndWorker(w) /\ UNCHANGED <<rows, world>>
  BY <1>1, <1>3, <1>4, EndOwns
<1>5. ASSUME NEW pc \in {"schedule", "fail"}, SetWorker(w, pc)
      PROVE  HandlerOwns(w)' /\ \A v \in Workers \ {w} : worker'[v] = worker[v]
  BY <1>1, <1>5, SetOwns
<1>6. ASSUME ReserveRunnerJob(w) PROVE Goal
  <2>1. CASE SetWorker(w, "running") /\ slot[d] = "held" /\ UNCHANGED <<rows, world>>
    <3>1. slot'[d] = "held"
      BY <2>1 DEF rows
    <3> QED
      BY <1>1, <1>3, <2>1, <3>1, SetOwns
  <2>2. CASE /\ Unchanged(w) /\ slot' = [slot EXCEPT ![d] = "held"] /\ SetWorker(w, "running")
             /\ UNCHANGED <<dep, lease, age, proven, history, broker>> /\ UNCHANGED world
    <3>1. d \in Executing /\ slot'[d] = "held"
      BY <1>1, <1>2, <2>2 DEF Unchanged, RowsTyped
    <3>2. Attempts' /\ Records'
      BY <1>1, <2>2, <3>1, ReserveKeeps
    <3>3. \A e \in Deployments : RowStep(e)
      BY <1>1, <2>2 DEF RowStep, RowsTyped, Executing, Dispatched
    <3> QED
      BY <1>1, <2>2, <3>1, <3>2, <3>3, SetOwns
  <2> QED
    BY <1>4, <1>6, <2>1, <2>2 DEF ReserveRunnerJob, Retry, Proceed
<1>7. ASSUME BeginDeploymentDispatch(w) PROVE Goal
  <2>1. CASE SetWorker(w, "fail") /\ UNCHANGED <<rows, world>>
    BY <1>3, <1>5, <2>1
  <2>2. CASE /\ Unchanged(w) /\ age' = [age EXCEPT ![d] = BudgetAge(d)] /\ SetWorker(w, "start")
             /\ UNCHANGED <<dep, lease, slot, proven, history, broker>> /\ UNCHANGED world
    <3>1. d \in Executing /\ slot[d] = "held"
      BY <1>1, <1>7, <2>2 DEF Unchanged, BeginDeploymentDispatch, HandlerOwns
    <3>2. Attempts' /\ Records' /\ Dispatched(d)'
      <4>1. PICK e \in Executing : e = d
        BY <3>1
      <4>2. Attempts' /\ Records' /\ Dispatched(e)'
        BY <2>2, <3>1, <4>1, BeginKeeps
      <4>3. age'[d] # Unsent
        BY <4>1, <4>2 DEF Dispatched
      <4>4. worker'[w].d = d
        BY <1>1, <2>2 DEF TypeInv, HandlersTyped, SetWorker, WorkerRecord
      <4> QED
        BY <4>2, <4>3, <4>4 DEF Dispatched
    <3>3. \A e \in Deployments : RowStep(e)
      <4>1. \A e \in Deployments : Dispatched(e) => age'[e] = age[e]
        BY <1>1, <2>2 DEF RowsTyped, BudgetAge
      <4> QED
        BY <2>2, <4>1 DEF RowStep, Executing, Dispatched
    <3> QED
      BY <1>1, <2>2, <3>2, <3>3, SetOwns
  <2> QED
    BY <1>7, <2>1, <2>2 DEF BeginDeploymentDispatch, Proceed
<1>8. ASSUME StartRunner(w) PROVE Goal
  <2>1. Dispatched(d)
    BY <1>1, <1>8 DEF StartRunner, HandlerOwns
  <2>2. UNCHANGED rows
    BY <1>8 DEF StartRunner, KubernetesStart, AgentStart, EcsStart, Proceed, Retry
  <2>3. Attempts' /\ Records'
    <3>1. \/ UNCHANGED world
          \/ CreateJob(d) /\ (Kind[RunnerOf[d]] = "kubernetes" => ~DeadlinePassed(d))
      BY <1>8 DEF StartRunner, KubernetesStart, AgentStart, EcsStart, CreateAttempted
    <3> QED
      BY <1>2, <1>3, <2>1, <2>2, <3>1, CreateKeeps
  <2>4. EndWorker(w) \/ SetWorker(w, "schedule") \/ SetWorker(w, "fail")
    BY <1>8 DEF StartRunner, KubernetesStart, AgentStart, EcsStart, Proceed, Retry
  <2> QED
    BY <1>1, <1>5, <2>2, <2>3, <2>4, EndOwns, RowsSameStep
<1>9. ASSUME ScheduleStatusCheck(w) PROVE Goal
  BY <1>4, <1>9 DEF ScheduleStatusCheck, Retry
<1>10. ASSUME FailDeployment(w) PROVE Goal
  <2>1. CASE /\ d \in Executing /\ Complete(d, "failed", proven) /\ EndWorker(w) /\ UNCHANGED world
    <3>1. proven \in SUBSET Deployments /\ (d \in proven => Finished(d)) /\ UNCHANGED <<job, starts, results>>
      BY <1>1, <1>2, <2>1 DEF RowsTyped, Attempts, Attempt, world
    <3>2. Attempts' /\ Records'
      BY <2>1, <3>1, CompleteKeeps
    <3>3. \A e \in Deployments : RowStep(e)
      BY <1>1, <2>1, CompleteRowStep
    <3> QED
      BY <1>1, <2>1, <3>2, <3>3, EndOwns
  <2> QED
    BY <1>4, <1>10, <2>1 DEF FailDeployment, FailsAtRevision, Unchanged, Retry
<1> QED
  BY <1>6, <1>7, <1>8, <1>9, <1>10

LEMMA WorkStep ==
  ASSUME DispatchAssumption, DispatchInv, [Next]_vars
  PROVE  Attempts' /\ Records' /\ Handlers'
<1>1. TypeInv /\ Attempts /\ Records /\ Handlers
  BY DEF DispatchInv
<1>2. ASSUME NEW w \in Workers,
             \/ ReserveRunnerJob(w) \/ BeginDeploymentDispatch(w) \/ StartRunner(w)
             \/ ScheduleStatusCheck(w) \/ FailDeployment(w)
      PROVE  Attempts' /\ Records' /\ Handlers'
  BY <1>1, <1>2, HandlerKeeps, HandlersKept
<1>3. ASSUME NEW d \in Deployments, Around(d)
      PROVE  Attempts' /\ Records' /\ Handlers'
  <2>1. UNCHANGED worker
    BY <1>3 DEF Around, ApplyResult, ApplyRunnerError, ForceFail, DeleteDeployment, JobStarts,
       JobReports, JobDies, AgentRefuses, JobCollected, Tick, runnerOnly
  <2> QED
    BY <1>1, <1>3, <2>1, AroundKeeps, AroundRowStep, HandlersSame
<1>4. CASE UNCHANGED vars
  <2>1. UNCHANGED <<rows, world, worker>>
    BY <1>4 DEF vars
  <2>2. \A d \in Deployments : Untouched(d)
    BY <2>1 DEF rows, world, Untouched
  <2>3. Attempts' /\ Records'
    BY <1>1, <2>2, UntouchedKept DEF Attempts, Records
  <2> QED
    BY <1>1, <2>1, <2>3, RowsSameStep, HandlersSame
<1> QED
  BY <1>2, <1>3, <1>4, StepCases, DeliveryKeeps, QuietKeeps

\* Only a reservation takes a slot.
SlotsKept == \A d \in Deployments : slot'[d] = "held" => slot[d] = "held"

LEMMA SlotsMostlyKept ==
  ASSUME TypeInv, [Next]_vars
  PROVE  SlotsKept \/ \E w \in Workers : ReserveRunnerJob(w)
<1>1. RowsTyped
  BY DEF TypeInv
<1>2. UNCHANGED slot => SlotsKept
  BY DEF SlotsKept
<1>3. UNCHANGED rows => SlotsKept
  BY DEF rows, SlotsKept
<1>4. ASSUME NEW d \in Deployments, NEW ended, NEW proofs, Complete(d, ended, proofs)
      PROVE  SlotsKept
  BY <1>1, <1>4 DEF Complete, RowsTyped, Released, SlotsKept
<1>5. ASSUME NEW w \in Workers, NEW d \in Deployments, CreatedDelivered(w, d) \/ CheckDelivered(w, d)
      PROVE  SlotsKept
  BY <1>3, <1>5 DEF CreatedDelivered, CheckDelivered
<1>6. ASSUME NEW w \in Workers, Quiet(w) PROVE SlotsKept
  BY <1>3, <1>6, QuietOutcomes DEF Outcomes
<1>7. ASSUME NEW w \in Workers,
             BeginDeploymentDispatch(w) \/ StartRunner(w) \/ ScheduleStatusCheck(w) \/ FailDeployment(w)
      PROVE  SlotsKept
  <2>1. CASE BeginDeploymentDispatch(w)
    BY <1>2, <1>3, <2>1 DEF BeginDeploymentDispatch, Proceed
  <2>2. CASE StartRunner(w)
    BY <1>3, <2>2 DEF StartRunner, KubernetesStart, AgentStart, EcsStart, Proceed, Retry
  <2>3. CASE ScheduleStatusCheck(w)
    BY <1>3, <2>3 DEF ScheduleStatusCheck, Retry
  <2>4. CASE FailDeployment(w)
    <3>1. CASE Retry(w)
      BY <1>3, <3>1 DEF Retry
    <3>2. CASE Complete(worker[w].d, "failed", proven) /\ FailsAtRevision(w)
      BY <1>4, <3>2 DEF FailsAtRevision, Unchanged, Executing
    <3> QED
      BY <2>4, <3>1, <3>2 DEF FailDeployment
  <2> QED
    BY <1>7, <2>1, <2>2, <2>3, <2>4
<1>8. ASSUME NEW d \in Deployments, Around(d) PROVE SlotsKept
  <2>1. CASE ApplyResult(d)
    <3>1. CASE LateCompletion(d)
      BY <1>1, <3>1 DEF LateCompletion, RowsTyped, Released, SlotsKept
    <3> QED
      BY <1>3, <1>4, <2>1, <3>1 DEF ApplyResult
  <2>2. CASE ApplyRunnerError(d) \/ ForceFail(d)
    BY <1>3, <1>4, <2>2 DEF ApplyRunnerError, ForceFail
  <2>3. CASE DeleteDeployment(d)
    BY <1>1, <2>3 DEF DeleteDeployment, RowsTyped, SlotsKept
  <2>4. CASE JobStep(d) \/ Tick(d)
    BY <1>2, <1>3, <2>4 DEF JobStep, JobStarts, JobReports, JobDies, AgentRefuses, JobCollected,
       Tick, runnerOnly
  <2> QED
    BY <1>8, <2>1, <2>2, <2>3, <2>4 DEF Around, JobStep
<1>9. UNCHANGED vars => SlotsKept
  BY <1>3 DEF vars
<1> QED
  BY <1>5, <1>6, <1>7, <1>8, <1>9, StepCases

\* A reservation is refused when the Runner is full, under its advisory lock.
LEMMA SlotsStep ==
  ASSUME DispatchAssumption, DispatchInv, [Next]_vars
  PROVE  SlotsWithinLimit'
<1> SUFFICES ASSUME NEW r \in Runners, Limit[r] # 0 PROVE Cardinality(SlotsHeld(r)') <= Limit[r]
  BY DEF SlotsWithinLimit
<1>1. /\ TypeInv /\ RowsTyped /\ Limit[r] \in Nat /\ Cardinality(SlotsHeld(r)) <= Limit[r]
      /\ IsFiniteSet(SlotsHeld(r))
  <2>1. SlotsHeld(r) \subseteq Deployments /\ IsFiniteSet(Deployments)
    BY DEF SlotsHeld, DispatchAssumption
  <2> QED
    BY <2>1, FS_Subset DEF DispatchInv, TypeInv, SlotsWithinLimit, DispatchAssumption
<1>2. Cardinality(SlotsHeld(r)) \in Nat
  BY <1>1, FS_CardinalityType
<1>3. ASSUME SlotsHeld(r)' \subseteq SlotsHeld(r) PROVE Cardinality(SlotsHeld(r)') <= Limit[r]
  <2>1. Cardinality(SlotsHeld(r)') <= Cardinality(SlotsHeld(r)) /\ IsFiniteSet(SlotsHeld(r)')
    BY <1>1, <1>3, FS_Subset
  <2>2. Cardinality(SlotsHeld(r)') \in Nat
    BY <2>1, FS_CardinalityType
  <2> QED
    BY <1>1, <1>2, <2>1, <2>2
<1>4. CASE SlotsKept
  BY <1>3, <1>4 DEF SlotsKept, SlotsHeld
<1>5. ASSUME NEW w \in Workers, ReserveRunnerJob(w) PROVE Cardinality(SlotsHeld(r)') <= Limit[r]
  <2> DEFINE d == worker[w].d
  <2>1. CASE UNCHANGED rows
    BY <1>3, <2>1 DEF rows, SlotsHeld
  <2>2. CASE Unchanged(w) /\ ~CapacityFull(RunnerOf[d]) /\ slot' = [slot EXCEPT ![d] = "held"]
    <3>1. d \in Deployments /\ \A e \in Deployments : slot'[e] = IF e = d THEN "held" ELSE slot[e]
      BY <1>1, <2>2 DEF Unchanged, Executing, RowsTyped
    <3>2. CASE RunnerOf[d] # r
      BY <1>3, <3>1, <3>2 DEF SlotsHeld
    <3>3. CASE RunnerOf[d] = r
      <4>1. Cardinality(SlotsHeld(r)) < Limit[r]
        BY <1>1, <1>2, <2>2, <3>3 DEF CapacityFull
      <4>2. SlotsHeld(r)' = SlotsHeld(r) \cup {d}
        BY <3>1, <3>3 DEF SlotsHeld
      <4>3. CASE d \in SlotsHeld(r)
        BY <1>3, <4>2, <4>3
      <4>4. CASE d \notin SlotsHeld(r)
        <5>1. Cardinality(SlotsHeld(r) \cup {d}) = Cardinality(SlotsHeld(r)) + 1
          BY <1>1, <4>4, FS_AddElement
        <5> QED
          BY <1>1, <1>2, <4>1, <4>2, <5>1
      <4> QED
        BY <4>3, <4>4
    <3> QED
      BY <3>2, <3>3
  <2> QED
    BY <1>5, <2>1, <2>2 DEF ReserveRunnerJob, Retry, Proceed
<1> QED
  BY <1>1, <1>4, <1>5, SlotsMostlyKept

-----------------------------------------------------------------------------
(***************************************************************************)
(* The pace of the status checks: each delivery counts one interval, and   *)
(* the next one is due one interval later, so the broker gives up no check *)
(* while the window is open.                                               *)
(***************************************************************************)
\* A deadline once passed stays passed.
DeadlineKept(d) == DeadlinePassed(d) => DeadlinePassed(d)'

LEMMA DeadlinesKept ==
  ASSUME DispatchAssumption, TypeInv, [Next]_vars
  PROVE  \A d \in Deployments : DeadlineKept(d)
<1>1. RowsTyped
  BY DEF TypeInv
<1>2. UNCHANGED age => \A d \in Deployments : DeadlineKept(d)
  BY DEF DeadlineKept, DeadlinePassed
<1>3. UNCHANGED rows => UNCHANGED age
  BY DEF rows
<1>4. ASSUME NEW w \in Workers, BeginDeploymentDispatch(w)
      PROVE  \A d \in Deployments : DeadlineKept(d)
  <2>1. CASE BudgetOpen(worker[w].d) /\ age' = [age EXCEPT ![worker[w].d] = BudgetAge(worker[w].d)]
    BY <1>1, <2>1 DEF RowsTyped, BudgetOpen, DeadlineKept, DeadlinePassed
  <2> QED
    BY <1>2, <1>3, <1>4, <2>1 DEF BeginDeploymentDispatch, Proceed
<1>5. ASSUME NEW d \in Deployments, Tick(d)
      PROVE  \A e \in Deployments : DeadlineKept(e)
  BY <1>1, <1>5 DEF Tick, RowsTyped, DeadlineKept, DeadlinePassed
<1>6. ASSUME NEW w \in Workers,
             ReserveRunnerJob(w) \/ StartRunner(w) \/ ScheduleStatusCheck(w) \/ FailDeployment(w)
      PROVE  UNCHANGED age
  BY <1>3, <1>6 DEF ReserveRunnerJob, StartRunner, KubernetesStart, AgentStart, EcsStart,
     ScheduleStatusCheck, FailDeployment, Complete, Proceed, Retry
<1>7. ASSUME NEW d \in Deployments, Around(d), ~Tick(d)
      PROVE  UNCHANGED age
  BY <1>3, <1>7 DEF Around, ApplyResult, LateCompletion, ApplyRunnerError, ForceFail,
     DeleteDeployment, Complete, JobStarts, JobReports, JobDies, AgentRefuses, JobCollected, runnerOnly
<1>8. ASSUME NEW w \in Workers, NEW d \in Deployments, CreatedDelivered(w, d) \/ CheckDelivered(w, d)
      PROVE  UNCHANGED age
  BY <1>3, <1>8 DEF CreatedDelivered, CheckDelivered
<1>9. ASSUME NEW w \in Workers, Quiet(w) PROVE UNCHANGED age
  BY <1>3, <1>9, QuietOutcomes DEF Outcomes
<1>10. UNCHANGED vars => UNCHANGED age
  BY <1>3 DEF vars
<1> QED
  BY <1>2, <1>4, <1>5, <1>6, <1>7, <1>8, <1>9, <1>10, StepCases

LEMMA PaceKept ==
  ASSUME NEW d \in Deployments, CheckPaced(d), DeadlineKept(d), check'[d] = check[d],
         <<"check", d>> \in deadLetter' => <<"check", d>> \in deadLetter
  PROVE  CheckPaced(d)'
BY DEF CheckPaced, DeadlineKept, CheckPending

\* The check is delivered once, acknowledged, or dead-lettered: only for its Deployment.
LEMMA RedeliverPaced ==
  ASSUME DispatchAssumption, TypeInv, NEW w \in Workers, Busy(w), Redeliver(w) \/ Acknowledge(w),
         \A d \in Deployments : CheckPaced(d) /\ DeadlineKept(d)
  PROVE  \A d \in Deployments : CheckPaced(d)'
<1> DEFINE e == worker[w].d
<1> SUFFICES ASSUME NEW d \in Deployments PROVE CheckPaced(d)'
  OBVIOUS
<1>1. /\ Window \in Nat \ {0} /\ CheckPaced(d) /\ DeadlineKept(d) /\ e \in Deployments
      /\ check \in [Deployments -> [deliveries : 0..(MaxCheckDeliveries + 1), due : 0..Unsent]]
  BY DEF DispatchAssumption, TypeInv, HandlersTyped, BrokerTyped
<1>2. CASE /\ check'[d] = check[d]
           /\ <<"check", d>> \in deadLetter' => <<"check", d>> \in deadLetter
  BY <1>1, <1>2, PaceKept
<1>3. CASE check' = [check EXCEPT ![e] = EndedCheck] /\ UNCHANGED deadLetter
  <2>1. CASE d = e
    BY <1>1, <1>3, <2>1 DEF CheckPaced, DeadlineKept, CheckPending, EndedCheck
  <2> QED
    BY <1>1, <1>2, <1>3, <2>1
<1>4. CASE /\ CheckPending(e) /\ check[e].deliveries >= MaxCheckDeliveries
           /\ check' = [check EXCEPT ![e] = EndedCheck] /\ deadLetter' = deadLetter \cup {<<"check", e>>}
  <2>1. CASE d = e
    <3>1. check[d].due \in 0..Unsent /\ check[d].deliveries \in Nat
          /\ check[d].deliveries >= MaxCheckDeliveries
      BY <1>1, <1>4, <2>1
    <3>2. ~(check[d].deliveries <= check[d].due)
      BY <1>1, <3>1 DEF Unsent, MaxCheckDeliveries
    <3>3. DeadlinePassed(d)
      BY <1>1, <1>4, <2>1, <3>2 DEF CheckPaced
    <3>4. check'[d].due = Unsent
      BY <1>1, <1>4, <2>1 DEF EndedCheck
    <3> QED
      BY <1>1, <3>3, <3>4 DEF CheckPaced, DeadlineKept, CheckPending
  <2>2. CASE d # e
    <3>1. <<"check", d>> # <<"check", e>>
      BY <2>2
    <3> QED
      BY <1>1, <1>2, <1>4, <2>2, <3>1
  <2> QED
    BY <2>1, <2>2
<1>5. CASE UNCHANGED check /\ deadLetter' \in {deadLetter, deadLetter \cup {<<"created", e>>}}
  BY <1>2, <1>5
<1> QED
  BY <1>3, <1>4, <1>5 DEF Redeliver, Acknowledge

LEMMA DeliveryPaced ==
  ASSUME DispatchAssumption, TypeInv, NEW w \in Workers, NEW e \in Deployments,
         CreatedDelivered(w, e) \/ CheckDelivered(w, e),
         \A d \in Deployments : CheckPaced(d) /\ DeadlineKept(d)
  PROVE  \A d \in Deployments : CheckPaced(d)'
<1> SUFFICES ASSUME NEW d \in Deployments PROVE CheckPaced(d)'
  OBVIOUS
<1>1. /\ Window \in Nat \ {0} /\ CheckPaced(d) /\ DeadlineKept(d) /\ age[d] \in 0..Unsent
      /\ check \in [Deployments -> [deliveries : 0..(MaxCheckDeliveries + 1), due : 0..Unsent]]
  BY DEF DispatchAssumption, TypeInv, RowsTyped, BrokerTyped
<1>2. UNCHANGED deadLetter
  BY DEF CreatedDelivered, CheckDelivered
<1>3. CASE check'[d] = check[d]
  BY <1>1, <1>2, <1>3, PaceKept
<1>4. CASE CheckDelivered(w, e) /\ d = e
  <2>1. CASE check'[d] = EndedCheck
    BY <1>1, <1>2, <2>1 DEF CheckPaced, DeadlineKept, CheckPending, EndedCheck
  <2>2. CASE check'[d] # EndedCheck
    <3>1. /\ check'[d] = [deliveries |-> check[d].deliveries + 1,
                          due |-> IF age[d] = Window THEN Window ELSE age[d] + 1]
          /\ CheckPending(d) /\ check[d].due <= age[d] /\ age' = age
      BY <1>1, <1>4, <2>2 DEF CheckDelivered, rows
    <3>2. CASE DeadlinePassed(d)
      BY <1>1, <3>2 DEF CheckPaced, DeadlineKept
    <3>3. CASE ~DeadlinePassed(d)
      <4>1. /\ check[d].deliveries <= check[d].due /\ check[d].deliveries \in Nat
            /\ check[d].due \in Nat /\ age[d] \in Nat /\ age[d] # Window
        BY <1>1, <3>1, <3>3 DEF CheckPaced, DeadlinePassed
      <4>2. check'[d].deliveries <= check'[d].due
        BY <3>1, <4>1
      <4> QED
        BY <1>1, <1>2, <3>3, <4>2 DEF CheckPaced, DeadlineKept
    <3> QED
      BY <3>2, <3>3
  <2> QED
    BY <2>1, <2>2
<1> QED
  BY <1>1, <1>3, <1>4 DEF CreatedDelivered, CheckDelivered

LEMMA PaceStep ==
  ASSUME DispatchAssumption, DispatchInv, [Next]_vars
  PROVE  ChecksPaced'
<1> SUFFICES \A d \in Deployments : CheckPaced(d)'
  BY DEF ChecksPaced
<1>1. TypeInv /\ \A d \in Deployments : CheckPaced(d) /\ DeadlineKept(d)
  BY DeadlinesKept DEF DispatchInv, ChecksPaced
<1>2. UNCHANGED <<check, deadLetter>> => \A d \in Deployments : CheckPaced(d)'
  BY <1>1, PaceKept
<1>3. UNCHANGED broker => UNCHANGED <<check, deadLetter>>
  BY DEF broker
<1>4. ASSUME NEW w \in Workers, Quiet(w) PROVE \A d \in Deployments : CheckPaced(d)'
  <2>1. Busy(w) /\ (Acknowledge(w) \/ Redeliver(w) \/ UNCHANGED broker)
    BY <1>1, <1>4, QuietOutcomes DEF Outcomes, Discard, Retry, Proceed
  <2> QED
    BY <1>1, <1>2, <1>3, <2>1, RedeliverPaced
<1>5. ASSUME NEW w \in Workers,
             \/ ReserveRunnerJob(w) \/ BeginDeploymentDispatch(w) \/ StartRunner(w)
             \/ ScheduleStatusCheck(w) \/ FailDeployment(w)
      PROVE  \A d \in Deployments : CheckPaced(d)'
  <2> DEFINE e == worker[w].d
  <2>1. Busy(w)
    BY <1>5 DEF Busy, ReserveRunnerJob, BeginDeploymentDispatch, StartRunner, ScheduleStatusCheck,
       FailDeployment
  <2>2. \/ Acknowledge(w) \/ Redeliver(w) \/ UNCHANGED <<check, deadLetter>>
        \/ check' = [check EXCEPT ![e] = [deliveries |-> 0, due |-> 0]] /\ UNCHANGED deadLetter
    BY <1>3, <1>5 DEF ReserveRunnerJob, BeginDeploymentDispatch, StartRunner, KubernetesStart,
       AgentStart, EcsStart, ScheduleStatusCheck, FailDeployment, Proceed, Retry
  <2>3. CASE check' = [check EXCEPT ![e] = [deliveries |-> 0, due |-> 0]] /\ UNCHANGED deadLetter
    <3> SUFFICES ASSUME NEW d \in Deployments PROVE CheckPaced(d)'
      OBVIOUS
    <3>1. check \in [Deployments -> [deliveries : 0..(MaxCheckDeliveries + 1), due : 0..Unsent]]
      BY <1>1 DEF TypeInv, BrokerTyped
    <3>2. CASE d = e
      BY <1>1, <2>3, <3>1, <3>2 DEF CheckPaced, DeadlineKept
    <3> QED
      BY <1>1, <2>3, <3>1, <3>2, PaceKept
  <2> QED
    BY <1>1, <1>2, <2>1, <2>2, <2>3, RedeliverPaced
<1>6. ASSUME NEW d \in Deployments, Around(d) PROVE UNCHANGED broker
  BY <1>6 DEF Around, ApplyResult, ApplyRunnerError, ForceFail, DeleteDeployment, JobStarts,
     JobReports, JobDies, AgentRefuses, JobCollected, Tick, runnerOnly
<1>7. UNCHANGED vars => UNCHANGED broker
  BY DEF vars
<1> QED
  BY <1>1, <1>2, <1>3, <1>4, <1>5, <1>6, <1>7, StepCases, DeliveryPaced
-----------------------------------------------------------------------------
(***************************************************************************)
(* What the invariant is for.                                              *)
(***************************************************************************)
LEMMA DispatchStep ==
  ASSUME DispatchAssumption, DispatchInv, [Next]_vars
  PROVE  DispatchInv'
BY TypeStep, WorkStep, SlotsStep, PaceStep DEF DispatchInv

\* A live job holds a slot of its Runner.
LEMMA LiveJobsHoldSlots ==
  ASSUME DispatchInv
  PROVE  \A d \in Deployments : job[d] \in {"pending", "running"} => slot[d] = "held"
BY DEF DispatchInv, Attempts, Attempt, Finished

LEMMA CapacityKept ==
  ASSUME DispatchAssumption, DispatchInv
  PROVE  LiveJobsWithinCapacity
<1> SUFFICES ASSUME NEW r \in Runners, Limit[r] # 0 PROVE Cardinality(LiveJobs(r)) <= Limit[r]
  BY DEF LiveJobsWithinCapacity
<1>1. LiveJobs(r) \subseteq SlotsHeld(r)
  BY LiveJobsHoldSlots DEF LiveJobs, SlotsHeld
<1>2. IsFiniteSet(SlotsHeld(r))
  <2>1. SlotsHeld(r) \subseteq Deployments /\ IsFiniteSet(Deployments)
    BY DEF SlotsHeld, DispatchAssumption
  <2> QED
    BY <2>1, FS_Subset
<1>3. /\ Cardinality(LiveJobs(r)) <= Cardinality(SlotsHeld(r))
      /\ Cardinality(LiveJobs(r)) \in Nat /\ Cardinality(SlotsHeld(r)) \in Nat
  BY <1>1, <1>2, FS_Subset, FS_CardinalityType
<1>4. Cardinality(SlotsHeld(r)) <= Limit[r] /\ Limit[r] \in Nat
  BY DEF DispatchInv, SlotsWithinLimit, DispatchAssumption
<1> QED
  BY <1>3, <1>4

LEMMA DispatchInvSuffices ==
  ASSUME DispatchAssumption, DispatchInv
  PROVE  DispatchSafe
<1>1. Attempts /\ Records /\ ChecksPaced
  BY DEF DispatchInv
<1>2. NoSlotLeaked /\ HistoryOnce
  BY <1>1 DEF Records, Record, NoSlotLeaked, HistoryOnce
<1>3. DeletedMeansStopped
  BY <1>1, LiveJobsHoldSlots DEF Records, Record, DeletedMeansStopped
<1>4. RunsOnce
  BY <1>1 DEF Attempts, Attempt, RunsOnce
<1>5. ChecksOutliveWindow
  BY <1>1 DEF ChecksPaced, CheckPaced, ChecksOutliveWindow
<1> QED
  BY <1>2, <1>3, <1>4, <1>5, CapacityKept DEF DispatchSafe

\* A Runner's live jobs stay within max_parallel_jobs, a Deployment is executed and
\* recorded once, a deleted Environment forgets no job, a Deployment that was never
\* sent keeps no slot, and status checks outlive the dispatch window: for any
\* Deployments, Runners, back ends, limits, handlers, deliveries and window.
THEOREM DispatchIsSafe ==
  ASSUME DispatchAssumption
  PROVE  Spec => []DispatchSafe
<1>1. Init => DispatchInv
  BY InitDispatchInv
<1>2. DispatchInv /\ [Next]_vars => DispatchInv'
  BY DispatchStep
<1>3. DispatchInv => DispatchSafe
  BY DispatchInvSuffices
<1> QED
  BY <1>1, <1>2, <1>3, PTL DEF Spec

\* What a step does to a Deployment that has ended.
LEMMA EndedStay ==
  ASSUME TypeInv, [Next]_vars
  PROVE  OutcomeFinalStep
<1>1. RowsTyped
  BY DEF TypeInv
<1>2. UNCHANGED dep => OutcomeFinalStep
  BY DEF OutcomeFinalStep
<1>3. UNCHANGED rows => UNCHANGED dep
  BY DEF rows
<1>4. ASSUME NEW d \in Executing, NEW ended, NEW proofs, Complete(d, ended, proofs)
      PROVE  OutcomeFinalStep
  <2>1. \A e \in Ended : e # d /\ e \in Deployments
    BY <1>4 DEF Ended, Executing
  <2> QED
    BY <1>1, <1>4, <2>1 DEF Complete, RowsTyped, OutcomeFinalStep
<1>5. ASSUME NEW w \in Workers, NEW d \in Deployments, CreatedDelivered(w, d) \/ CheckDelivered(w, d)
      PROVE  UNCHANGED dep
  BY <1>3, <1>5 DEF CreatedDelivered, CheckDelivered
<1>6. ASSUME NEW w \in Workers, Quiet(w) PROVE UNCHANGED dep
  BY <1>3, <1>6, QuietOutcomes DEF Outcomes
<1>7. ASSUME NEW w \in Workers,
             \/ ReserveRunnerJob(w) \/ BeginDeploymentDispatch(w) \/ StartRunner(w)
             \/ ScheduleStatusCheck(w)
      PROVE  UNCHANGED dep
  BY <1>3, <1>7 DEF ReserveRunnerJob, BeginDeploymentDispatch, StartRunner, KubernetesStart,
     AgentStart, EcsStart, ScheduleStatusCheck, Proceed, Retry
<1>8. ASSUME NEW w \in Workers, FailDeployment(w) PROVE OutcomeFinalStep
  BY <1>2, <1>3, <1>4, <1>8 DEF FailDeployment, FailsAtRevision, Unchanged, Retry
<1>9. ASSUME NEW d \in Deployments, Around(d) PROVE OutcomeFinalStep
  <2>1. CASE ApplyResult(d)
    BY <1>2, <1>3, <1>4, <2>1 DEF ApplyResult, AppliedOnce, LateCompletion
  <2>2. CASE ApplyRunnerError(d) \/ ForceFail(d)
    BY <1>2, <1>3, <1>4, <2>2 DEF ApplyRunnerError, ForceFail
  <2>3. CASE DeleteDeployment(d)
    <3>1. \A e \in Deployments : dep'[e].status \in {dep[e].status, "gone"}
      BY <1>1, <2>3 DEF DeleteDeployment, RowsTyped
    <3> QED
      BY <3>1 DEF OutcomeFinalStep, Ended
  <2>4. CASE JobStep(d) \/ Tick(d)
    BY <1>2, <1>3, <2>4 DEF JobStep, JobStarts, JobReports, JobDies, AgentRefuses, JobCollected,
       Tick, runnerOnly
  <2> QED
    BY <1>9, <2>1, <2>2, <2>3, <2>4 DEF Around, JobStep
<1>10. UNCHANGED vars => UNCHANGED dep
  BY <1>3 DEF vars
<1> QED
  BY <1>2, <1>5, <1>6, <1>7, <1>8, <1>9, <1>10, StepCases

\* No step of anybody rewrites how a Deployment ended.
THEOREM OutcomesStay ==
  ASSUME DispatchAssumption
  PROVE  Spec => OutcomeFinal
<1>1. Init => TypeInv
  BY InitTypeInv
<1>2. TypeInv /\ [Next]_vars => TypeInv'
  BY TypeStep
<1>3. TypeInv /\ [Next]_vars => [OutcomeFinalStep]_vars
  BY EndedStay
<1> QED
  BY <1>1, <1>2, <1>3, PTL DEF Spec, OutcomeFinal

\* StartRunner alone sends commands, and only the ECS one without looking at the deadline.
LEMMA SendsInTime ==
  ASSUME DispatchAssumption, TypeInv, [Next]_vars
  PROVE  CommandsInTimeStep
<1>1. WorldTyped
  BY DEF TypeInv
<1>2. UNCHANGED starts => CommandsInTimeStep
  BY DEF CommandsInTimeStep, SentInTime
<1>3. UNCHANGED world => UNCHANGED starts
  BY DEF world
<1>4. ASSUME NEW w \in Workers, NEW d \in Deployments, CreatedDelivered(w, d) \/ CheckDelivered(w, d)
      PROVE  UNCHANGED starts
  BY <1>3, <1>4 DEF CreatedDelivered, CheckDelivered
<1>5. ASSUME NEW w \in Workers, Quiet(w) PROVE UNCHANGED starts
  BY <1>3, <1>5, QuietOutcomes DEF Outcomes
<1>6. ASSUME NEW w \in Workers,
             \/ ReserveRunnerJob(w) \/ BeginDeploymentDispatch(w) \/ ScheduleStatusCheck(w)
             \/ FailDeployment(w)
      PROVE  UNCHANGED starts
  BY <1>3, <1>6 DEF ReserveRunnerJob, BeginDeploymentDispatch, ScheduleStatusCheck, FailDeployment
<1>7. ASSUME NEW w \in Workers, StartRunner(w) PROVE CommandsInTimeStep
  <2> DEFINE d == worker[w].d
  <2>1. d \in Deployments
    BY <1>7 DEF TypeInv, HandlersTyped, Busy, StartRunner, DispatchAssumption
  <2>2. UNCHANGED world \/ (CreateJob(d) /\ (Kind[RunnerOf[d]] # "ecs" => ~DeadlinePassed(d)))
    BY <1>7, <2>1 DEF StartRunner, KubernetesStart, AgentStart, EcsStart, CreateAttempted
  <2>3. CASE CreateJob(d) /\ (Kind[RunnerOf[d]] # "ecs" => ~DeadlinePassed(d))
    BY <1>1, <2>1, <2>3 DEF WorldTyped, CreateJob, CommandsInTimeStep, SentInTime
  <2> QED
    BY <1>2, <1>3, <2>2, <2>3
<1>8. ASSUME NEW d \in Deployments, Around(d) PROVE UNCHANGED starts
  BY <1>3, <1>8 DEF Around, ApplyResult, ApplyRunnerError, ForceFail, DeleteDeployment, JobStarts,
     JobReports, JobDies, AgentRefuses, JobCollected, Tick, runnerOnly
<1>9. UNCHANGED vars => UNCHANGED starts
  BY <1>3 DEF vars
<1> QED
  BY <1>2, <1>4, <1>5, <1>6, <1>7, <1>8, <1>9, StepCases

\* Kubernetes Runners and agents get no command after the dispatch budget.  ECS
\* Runners may: ecsRunnerInstance.Start does not look at the deadline.
THEOREM CommandsInTime ==
  ASSUME DispatchAssumption
  PROVE  Spec => [][CommandsInTimeStep]_vars
<1>1. Init => TypeInv
  BY InitTypeInv
<1>2. TypeInv /\ [Next]_vars => TypeInv'
  BY TypeStep
<1>3. TypeInv /\ [Next]_vars => [CommandsInTimeStep]_vars
  BY SendsInTime
<1> QED
  BY <1>1, <1>2, <1>3, PTL DEF Spec

-----------------------------------------------------------------------------
(***************************************************************************)
(* The code a Deployment runs (ModuleExecution).  The properties speak of  *)
(* live nodes, and each Deployment may start from the graph of an earlier  *)
(* one, dead nodes included; so the invariant adds what every stored       *)
(* Deployment says of itself: its request refers to an earlier one, its    *)
(* nodes are whole and hold no test but a snapshot, its artifacts are      *)
(* those of its live nodes, and a bundle was built for one of them.        *)
(***************************************************************************)
Listed(s) == s \in Seq(Range(s))

IsNode(n) ==
  /\ n = [version |-> n.version, draft |-> n.draft, deleted |-> n.deleted]
  /\ n.draft # None => n.draft.snapshot \in Snapshots

IsDeployment(x) ==
  x = [request |-> x.request, graph |-> x.graph, artifacts |-> x.artifacts,
         admission |-> x.admission, checked |-> x.checked, defective |-> x.defective,
         outcome |-> x.outcome]

ArtifactsOfGraph(x) == {a.version : a \in x.artifacts} = ActiveModuleDefinitions(x.graph)

WellFormed ==
  /\ Listed(deps)
  /\ \A d \in 1..Len(deps) :
       /\ IsDeployment(deps[d]) /\ ArtifactsOfGraph(deps[d])
       /\ deps[d].request.target \in 0..(d - 1)
       /\ UsesLastGraph(deps[d].request) => deps[d].request.target # 0
       /\ \A r \in DOMAIN deps[d].graph : IsNode(deps[d].graph[r])
  /\ bundle # None => bundle.dep \in 1..Len(deps)


\* A function on 1..n is a sequence.
LEMMA FunctionIsSeq ==
  ASSUME NEW S, NEW n \in Nat, NEW f \in [1..n -> S]
  PROVE  f \in Seq(S)
OBVIOUS

\* Appending a Deployment leaves the earlier ones as they are.
LEMMA AppendListed ==
  ASSUME NEW s, Listed(s), NEW x
  PROVE  /\ Len(Append(s, x)) = Len(s) + 1 /\ Append(s, x)[Len(s) + 1] = x /\ Len(s) \in Nat
         /\ \A i \in 1..Len(s) : Append(s, x)[i] = s[i]
         /\ Listed(Append(s, x))
<1> DEFINE S == Range(s) \cup {x}
           t == Append(s, x)
<1>1. s \in Seq(Range(s))
  BY DEF Listed
<1>2. s \in Seq(S)
  BY <1>1
<1>3. /\ t \in Seq(S) /\ Len(t) = Len(s) + 1 /\ t[Len(s) + 1] = x /\ Len(s) \in Nat
      /\ \A i \in 1..Len(s) : t[i] = s[i]
  BY <1>2
<1> HIDE DEF t
<1>4. Listed(t)
  <2>1. DOMAIN t = 1..Len(t) /\ Len(t) \in Nat
    BY <1>3
  <2>2. \A i \in 1..Len(t) : t[i] \in Range(t)
    BY <2>1 DEF Range
  <2>3. t = [i \in 1..Len(t) |-> t[i]]
    BY <1>3
  <2> QED
    BY <2>1, <2>2, <2>3 DEF Listed
<1> QED
  BY <1>3, <1>4 DEF t

WithOutcome(s, outcome) == [s EXCEPT ![Len(s)].outcome = outcome]

\* Ending the last one changes nothing but its outcome.
LEMMA OutcomeListed ==
  ASSUME NEW s, Listed(s), s # <<>>, IsDeployment(s[Len(s)]), NEW o,
         NEW t, t = WithOutcome(s, o)
  PROVE  /\ Listed(t) /\ Len(t) = Len(s) /\ Len(s) \in Nat
         /\ \A i \in 1..Len(s) : i # Len(s) => t[i] = s[i]
         /\ IsDeployment(t[Len(s)]) /\ t[Len(s)].outcome = o
         /\ \A i \in 1..Len(s) :
              /\ t[i].request = s[i].request /\ t[i].graph = s[i].graph
              /\ t[i].artifacts = s[i].artifacts /\ t[i].admission = s[i].admission
              /\ t[i].checked = s[i].checked /\ t[i].defective = s[i].defective
<1>1. s \in Seq(Range(s)) /\ DOMAIN s = 1..Len(s) /\ Len(s) \in Nat /\ Len(s) \in 1..Len(s)
  BY DEF Listed
<1> DEFINE y == s[Len(s)]
<1>2. t = [s EXCEPT ![Len(s)] = [y EXCEPT !.outcome = o]]
  BY DEF WithOutcome
<1>3. y = [request |-> y.request, graph |-> y.graph, artifacts |-> y.artifacts,
           admission |-> y.admission, checked |-> y.checked, defective |-> y.defective,
           outcome |-> y.outcome]
  BY DEF IsDeployment
<1> HIDE DEF y
<1> DEFINE z == [y EXCEPT !.outcome = o]
<1>4. z = [request |-> y.request, graph |-> y.graph, artifacts |-> y.artifacts,
           admission |-> y.admission, checked |-> y.checked, defective |-> y.defective,
           outcome |-> o]
  BY <1>3
<1>5. t = [s EXCEPT ![Len(s)] = z]
  BY <1>2
<1> HIDE DEF z
<1>6. DOMAIN t = 1..Len(s) /\ t[Len(s)] = z /\ \A i \in 1..Len(s) : i # Len(s) => t[i] = s[i]
  BY <1>1, <1>5
<1>7. Listed(t) /\ Len(t) = Len(s)
  <2>1. \A i \in 1..Len(s) : t[i] \in Range(t)
    BY <1>6 DEF Range
  <2>2. t = [i \in 1..Len(s) |-> t[i]]
    BY <1>5, <1>6
  <2>3. t \in [1..Len(s) -> Range(t)]
    BY <2>1, <2>2
  <2>4. t \in Seq(Range(t))
    <3>1. Len(s) \in Nat
      BY <1>1
    <3> QED
      BY <2>3, <3>1, FunctionIsSeq
  <2>5. Len(t) = Len(s)
    <3>1. DOMAIN t = 1..Len(t) /\ Len(t) \in Nat
      BY <2>4, LenProperties
    <3>2. 1..Len(t) = 1..Len(s) /\ Len(s) \in Nat
      BY <1>1, <1>6, <3>1
    <3> QED
      BY <3>1, <3>2
  <2> QED
    BY <2>4, <2>5 DEF Listed
<1>8. IsDeployment(z)
  BY <1>4 DEF IsDeployment
<1>9. /\ z.request = y.request /\ z.graph = y.graph /\ z.artifacts = y.artifacts
      /\ z.admission = y.admission /\ z.checked = y.checked /\ z.defective = y.defective
      /\ z.outcome = o
  BY <1>4
<1>10. \A i \in 1..Len(s) :
              /\ t[i].request = s[i].request /\ t[i].graph = s[i].graph
              /\ t[i].artifacts = s[i].artifacts /\ t[i].admission = s[i].admission
              /\ t[i].checked = s[i].checked /\ t[i].defective = s[i].defective
  BY <1>6, <1>9 DEF y
<1> QED
  BY <1>1, <1>6, <1>7, <1>8, <1>9, <1>10

-----------------------------------------------------------------------------
(***************************************************************************)
(* What the catalogue and a request may hold.                              *)
(***************************************************************************)
IsEntry(e) ==
  e = [version |-> e.version, ident |-> e.ident, rules |-> e.rules, draft |-> e.draft,
       status |-> e.status]

\* What the model calls an entry has the fields of one.
LEMMA EntryIsEntry ==
  \A v, rules, draft : /\ IsEntry(Entry(v, rules, draft))
                       /\ Entry(v, rules, draft).version = v
BY DEF IsEntry, Entry

\* However wrong an answer is, it consists of entries.
LEMMA AnswersAreEntries ==
  ASSUME NEW right, \A e \in right : IsEntry(e), NEW answer \in Answers(right)
  PROVE  \A e \in answer : IsEntry(e)
<1>1. \A v : \A e \in Wrong(v) : IsEntry(e)
  BY EntryIsEntry DEF Wrong
<1>2. \A e, rules : IsEntry(e) => IsEntry([e EXCEPT !.rules = rules])
  BY DEF IsEntry
<1>3. CASE \E e \in right : answer = right \ {e}
  BY <1>3
<1>4. CASE \E e \in right, rules \in WrongRules : answer = right \cup {[e EXCEPT !.rules = rules]}
  BY <1>2, <1>4
<1>5. CASE \E x \in UNION {Wrong(v) : v \in Executables} :
             answer = {e \in right : e.version # x.version} \cup {x}
  BY <1>1, <1>5
<1> QED
  BY <1>3, <1>4, <1>5 DEF Answers

\* Moving the rules leaves versions and drafts as they are, and gives no rule to any
\* other Version of a Module the request chose one of.
LEMMA SelectionMovesRules ==
  ASSUME NEW q, NEW answer, \A e \in answer : IsEntry(e),
         NEW f \in ApplySelectedModuleVersions(q, answer), f.rules # {}
  PROVE  \E e \in answer :
           /\ f.version = e.version /\ Reference(f) = Reference(e)
           /\ \/ ModuleOf[e.version] \notin DOMAIN Chosen(q) /\ e.rules # {}
              \/ /\ ModuleOf[e.version] \in DOMAIN Chosen(q)
                 /\ e.version = Chosen(q)[ModuleOf[e.version]]
<1>1. PICK e \in answer :
        f = IF ModuleOf[e.version] \notin DOMAIN Chosen(q) THEN e
            ELSE [e EXCEPT !.rules = IF e.version = Chosen(q)[ModuleOf[e.version]]
                                     THEN RulesOf(ModuleOf[e.version], answer) ELSE {}]
  BY DEF ApplySelectedModuleVersions
<1>2. e = [version |-> e.version, ident |-> e.ident, rules |-> e.rules, draft |-> e.draft,
           status |-> e.status]
  BY DEF IsEntry
<1>3. CASE ModuleOf[e.version] \notin DOMAIN Chosen(q)
  BY <1>1, <1>3
<1>4. CASE ModuleOf[e.version] \in DOMAIN Chosen(q)
  <2> DEFINE rules == IF e.version = Chosen(q)[ModuleOf[e.version]]
                      THEN RulesOf(ModuleOf[e.version], answer) ELSE {}
  <2>1. f = [e EXCEPT !.rules = rules]
    BY <1>1, <1>4
  <2> HIDE DEF rules
  <2>2. f = [version |-> e.version, ident |-> e.ident, rules |-> rules, draft |-> e.draft,
             status |-> e.status]
    BY <1>2, <2>1
  <2>3. f.version = e.version /\ f.draft = e.draft /\ f.rules = rules
    BY <2>2
  <2>4. Reference(f) = Reference(e)
    BY <2>3 DEF Reference
  <2>5. e.version = Chosen(q)[ModuleOf[e.version]]
    BY <2>3 DEF rules
  <2> QED
    BY <1>4, <2>3, <2>4, <2>5
<1> QED
  BY <1>3, <1>4

ExecutionRequests == DeployRequests \cup StoredGraphRequests

\* A request is stored as it came, with the Deployment it refers to.
LEMMA StoredRequest ==
  ASSUME NEW q \in ExecutionRequests, NEW b
  PROVE  LET p == [q EXCEPT !.target = b] IN
         /\ p.target = b /\ p.mode = q.mode /\ p.selected = q.selected /\ p.drafts = q.drafts
         /\ p.confirmed = q.confirmed /\ p.manifest = q.manifest
<1>1. \E mode, manifest, selected, drafts, confirmed, target :
        q = [mode |-> mode, manifest |-> manifest, selected |-> selected, drafts |-> drafts,
             confirmed |-> confirmed, target |-> target]
  BY DEF ExecutionRequests, DeployRequests, StoredGraphRequests
<1> QED
  BY <1>1

\* Requests select published Versions and snapshots, each for its own Module.
LEMMA RequestSelects ==
  ASSUME NEW q \in ExecutionRequests
  PROVE  /\ q.mode \in {"deploy", "rollback", "destroy"}
         /\ q.mode # "deploy" => UsesLastGraph(q) /\ q.drafts = <<>>
         /\ q.mode = "deploy" => ~UsesLastGraph(q)
         /\ \A m \in DOMAIN q.selected : q.selected[m] \in Published
         /\ \A m \in DOMAIN q.drafts : q.drafts[m] \in Snapshots
<1>1. CASE q \in DeployRequests
  <2>1. q.mode = "deploy" /\ q.selected \in Selections(Published) /\ q.drafts \in Selections(Snapshots)
    BY <1>1 DEF DeployRequests
  <2> QED
    BY <2>1 DEF Selections, UsesLastGraph
<1>2. CASE q \in StoredGraphRequests
  <2>1. /\ q.mode \in {"destroy", "rollback"} /\ q.drafts = <<>>
        /\ q.selected \in Selections(Published) \/ q.selected = <<>>
    BY <1>2 DEF StoredGraphRequests
  <2> QED
    BY <2>1 DEF Selections, UsesLastGraph
<1> QED
  BY <1>1, <1>2 DEF ExecutionRequests

-----------------------------------------------------------------------------
(***************************************************************************)
(* Creation.  Compiles sums up the checks of CreateDeployment and Stored   *)
(* is the Deployment it stores.                                            *)
(***************************************************************************)
Compiles(q, answer, g) ==
  /\ q \in ExecutionRequests
  /\ q.mode = "destroy" => deps # <<>>
  /\ q.mode = "rollback" => q.target \in DOMAIN deps
  /\ RetainedValid(LastGraph(q))
  /\ answer \in Answers(CompilationCatalogue(q))
  /\ ValidateCatalogueDraftSelection(q, answer)
  /\ "never" \notin Permissions(q, answer)
  /\ AssignModuleDefinitions(LastGraph(q), answer)
  /\ g \in NewGraphs(q, ApplySelectedModuleVersions(q, answer))
  /\ MetadataComplete(g, answer)
  /\ TargetsConsistent(ModuleArtifactRequirements(q, g, answer))

Stored(q, answer, g) ==
  [request |-> [q EXCEPT !.target = Base(q)], graph |-> g,
   artifacts |-> ModuleArtifactRequirements(q, g, answer),
   admission |-> Admission(q, ModuleArtifactRequirements(q, g, answer)),
   checked |-> Permissions(q, answer),
   defective |-> {e.version : e \in {x \in answer : x.status = "defective"}},
   outcome |-> "running"]

\* A creation stores what some answer of the catalogue compiled to.
LEMMA CreateDeploymentCompiles ==
  ASSUME CreateDeployment
  PROVE  /\ \E q, answer, g : Compiles(q, answer, g) /\ deps' = Append(deps, Stored(q, answer, g))
         /\ bundle' = bundle
<1>1. PICK q \in ExecutionRequests :
        /\ q.mode = "destroy" => deps # <<>>
        /\ q.mode = "rollback" => q.target \in DOMAIN deps
        /\ RetainedValid(LastGraph(q))
        /\ \E answer \in Answers(CompilationCatalogue(q)) :
             /\ ValidateCatalogueDraftSelection(q, answer)
             /\ "never" \notin Permissions(q, answer)
             /\ Selectable(q, answer)
             /\ AssignModuleDefinitions(LastGraph(q), answer)
             /\ \E g \in NewGraphs(q, ApplySelectedModuleVersions(q, answer)) :
                  /\ MetadataComplete(g, answer)
                  /\ LET artifacts == ModuleArtifactRequirements(q, g, answer) IN
                     /\ TargetsConsistent(artifacts)
                     /\ deps' = Append(deps,
                          [request |-> [q EXCEPT !.target = Base(q)], graph |-> g, artifacts |-> artifacts,
                           admission |-> Admission(q, artifacts),
                           checked |-> Permissions(q, answer),
                           defective |-> {e.version : e \in {x \in answer : x.status = "defective"}},
                           outcome |-> "running"])
  BY DEF CreateDeployment, ExecutionRequests
<1>2. PICK answer \in Answers(CompilationCatalogue(q)) :
        /\ ValidateCatalogueDraftSelection(q, answer)
        /\ "never" \notin Permissions(q, answer)
        /\ AssignModuleDefinitions(LastGraph(q), answer)
        /\ \E g \in NewGraphs(q, ApplySelectedModuleVersions(q, answer)) :
             /\ MetadataComplete(g, answer)
             /\ TargetsConsistent(ModuleArtifactRequirements(q, g, answer))
             /\ deps' = Append(deps, Stored(q, answer, g))
  BY <1>1, Zenon DEF Stored
<1>3. PICK g \in NewGraphs(q, ApplySelectedModuleVersions(q, answer)) :
             /\ MetadataComplete(g, answer)
             /\ TargetsConsistent(ModuleArtifactRequirements(q, g, answer))
             /\ deps' = Append(deps, Stored(q, answer, g))
  BY <1>2
<1>4. Compiles(q, answer, g)
  BY <1>1, <1>2, <1>3 DEF Compiles
<1> QED
  BY <1>3, <1>4 DEF CreateDeployment

\* The graph a request starts from: of an earlier Deployment, or none.
LEMMA BaseGraph ==
  ASSUME WellFormed, NEW q, NEW answer, NEW g, Compiles(q, answer, g)
  PROVE  /\ Base(q) \in 0..Len(deps) /\ Len(deps) \in Nat
         /\ UsesLastGraph(q) => Base(q) # 0
         /\ Base(q) # 0 => LastGraph(q) = deps[Base(q)].graph
         /\ Base(q) = 0 => LastGraph(q) = <<>>
         /\ \A r \in DOMAIN LastGraph(q) : IsNode(LastGraph(q)[r])
         /\ RetainedDraftTestCoordinates(LastGraph(q)) \subseteq Snapshots
<1>1. deps \in Seq(Range(deps)) /\ DOMAIN deps = 1..Len(deps) /\ Len(deps) \in Nat
  BY DEF WellFormed, Listed
<1>2. q.mode \in {"deploy", "rollback", "destroy"}
  BY RequestSelects DEF Compiles
<1>3. Base(q) \in 0..Len(deps) /\ (UsesLastGraph(q) => Base(q) # 0)
  BY <1>1, <1>2 DEF Compiles, Base, UsesLastGraph
<1>4. \A r \in DOMAIN LastGraph(q) : IsNode(LastGraph(q)[r])
  <2>1. CASE Base(q) = 0
    BY <2>1 DEF LastGraph
  <2>2. CASE Base(q) # 0
    BY <1>1, <1>3, <2>2 DEF LastGraph, WellFormed
  <2> QED
    BY <2>1, <2>2
<1>5. RetainedDraftTestCoordinates(LastGraph(q)) \subseteq Snapshots
  BY <1>4 DEF RetainedDraftTestCoordinates, IsNode
<1> QED
  BY <1>1, <1>3, <1>4, <1>5 DEF LastGraph

\* Whatever the Control Plane answers, its entries are whole and its tests are snapshots of
\* this Environment that the request selected or its base retains.
LEMMA AnswerTests ==
  ASSUME WellFormed, NEW q, NEW answer, NEW g, Compiles(q, answer, g)
  PROVE  /\ \A e \in answer : IsEntry(e)
         /\ \A e \in answer : e.draft # None =>
              /\ e.draft.snapshot = e.version /\ e.draft.env = Here /\ e.version \in Snapshots
              /\ e.status = "none"
              /\ \/ e.version \in Range(q.drafts)
                 \/ /\ e.version \in RetainedDraftTestCoordinates(LastGraph(q))
                    /\ e.rules = {}
<1>1. \A e \in CompilationCatalogue(q) : IsEntry(e)
  BY EntryIsEntry DEF CompilationCatalogue
<1>2. \A e \in answer : IsEntry(e)
  BY <1>1, AnswersAreEntries DEF Compiles
<1>3. /\ q \in ExecutionRequests
      /\ \A v \in Range(q.drafts) : v \in Snapshots
  BY RequestSelects DEF Compiles, Range
<1>4. ASSUME NEW e \in answer, e.draft # None
      PROVE  /\ e.draft.snapshot = e.version /\ e.draft.env = Here /\ e.version \in Snapshots
             /\ e.status = "none"
             /\ \/ e.version \in Range(q.drafts)
                \/ /\ e.version \in RetainedDraftTestCoordinates(LastGraph(q))
                   /\ e.rules = {}
  <2>1. ValidReference(e)
    BY <1>4 DEF Compiles, ValidateCatalogueDraftSelection, ValidatesCoordinates
  <2>2. /\ e.version \in Range(q.drafts) \cup RetainedDraftTestCoordinates(LastGraph(q))
        /\ e.draft.env = Here
    BY <1>4 DEF Compiles, ValidateCatalogueDraftSelection, ValidatesCoordinates
  <2>3. e.version \notin Range(q.drafts) => e.rules = {}
    BY <1>4 DEF Compiles, ValidateCatalogueDraftSelection
  <2> QED
    BY <1>3, <1>4, <2>1, <2>2, <2>3, BaseGraph DEF ValidReference
<1> QED
  BY <1>2, <1>4

\* Where the live nodes come from: the stored graph, or an entry whose rules match.
LEMMA LiveNodes ==
  ASSUME ModuleAssumption, WellFormed, NEW q, NEW answer, NEW g, Compiles(q, answer, g)
  PROVE  /\ UsesLastGraph(q) => g = LastGraph(q)
         /\ \A r \in DOMAIN g : IsNode(g[r])
         /\ ~UsesLastGraph(q) => \A r \in Live(g) : \E e \in answer :
              /\ g[r].version = e.version /\ g[r].draft = Reference(e)
              /\ ModuleOf[e.version] \in DOMAIN Chosen(q) => e.version = Chosen(q)[ModuleOf[e.version]]
              /\ ModuleOf[e.version] \notin DOMAIN Chosen(q) => e.rules # {}
<1> DEFINE last == LastGraph(q)
           entries == ApplySelectedModuleVersions(q, answer)
           dropped == {r \in DOMAIN last \ q.manifest :
                         ~last[r].deleted \/ deps[Base(q)].outcome = "failed"}
<1>1. CASE UsesLastGraph(q)
  <2>1. g = LastGraph(q)
    BY <1>1 DEF Compiles, NewGraphs
  <2> QED
    BY <1>1, <2>1, BaseGraph
<1>2. CASE ~UsesLastGraph(q)
  <2>1. PICK by \in [q.manifest -> entries] :
          /\ \A r \in q.manifest : r \in by[r].rules
          /\ g = [r \in q.manifest \cup dropped |->
                    IF r \in q.manifest THEN Node(by[r]) ELSE [last[r] EXCEPT !.deleted = TRUE]]
    BY <1>2 DEF Compiles, NewGraphs
  <2> HIDE DEF entries
  <2>2. ASSUME NEW r \in q.manifest
        PROVE  \E e \in answer :
                 /\ g[r].version = e.version /\ g[r].draft = Reference(e) /\ IsNode(g[r])
                 /\ ModuleOf[e.version] \in DOMAIN Chosen(q) =>
                      e.version = Chosen(q)[ModuleOf[e.version]]
                 /\ ModuleOf[e.version] \notin DOMAIN Chosen(q) => e.rules # {}
    <3>1. by[r] \in entries /\ by[r].rules # {} /\ g[r] = Node(by[r])
      BY <2>1
    <3>2. PICK e \in answer :
           /\ by[r].version = e.version /\ Reference(by[r]) = Reference(e)
           /\ \/ ModuleOf[e.version] \notin DOMAIN Chosen(q) /\ e.rules # {}
              \/ /\ ModuleOf[e.version] \in DOMAIN Chosen(q)
                 /\ e.version = Chosen(q)[ModuleOf[e.version]]
      BY <3>1, AnswerTests, SelectionMovesRules DEF entries
    <3>3. g[r] = [version |-> e.version, draft |-> Reference(e), deleted |-> FALSE]
      BY <3>1, <3>2 DEF Node
    <3>4. Reference(e) # None => e.draft # None /\ Reference(e).snapshot = e.draft.snapshot
      BY DEF Reference
    <3>5. IsNode(g[r])
      BY <3>3, <3>4, AnswerTests DEF IsNode
    <3> QED
      BY <3>2, <3>3, <3>5
  <2>3. ASSUME NEW r \in dropped PROVE r \notin Live(g) /\ IsNode(g[r])
    <3>1. r \notin q.manifest /\ r \in DOMAIN last /\ g[r] = [last[r] EXCEPT !.deleted = TRUE]
      BY <2>1
    <3>2. IsNode(last[r])
      BY <3>1, BaseGraph
    <3> HIDE DEF last
    <3>3. g[r] = [version |-> last[r].version, draft |-> last[r].draft, deleted |-> TRUE]
      BY <3>1, <3>2 DEF IsNode
    <3> QED
      BY <3>2, <3>3 DEF IsNode, Live
  <2>4. DOMAIN g = q.manifest \cup dropped
    BY <2>1
  <2> HIDE DEF dropped
  <2>5. Live(g) \subseteq q.manifest
    BY <2>3, <2>4 DEF Live
  <2> QED
    BY <1>2, <2>2, <2>3, <2>4, <2>5
<1> QED
  BY <1>1, <1>2


\* The new Deployment's tests were selected with authority, or its base runs them.
LEMMA NewTests ==
  ASSUME ModuleAssumption, WellFormed, NEW q, NEW answer, NEW g, Compiles(q, answer, g),
         NEW r \in Live(g), g[r].draft # None
  PROVE  /\ g[r].draft.env = Here
         /\ UsesLastGraph(q) => deps[Base(q)].graph[r] = g[r]
         /\ ~UsesLastGraph(q) => g[r].version \in Range(q.drafts) /\ "publish" \in Permissions(q, answer)
<1>1. CASE UsesLastGraph(q)
  <2>1. g = LastGraph(q) /\ g = deps[Base(q)].graph /\ r \in DOMAIN g
    BY <1>1, LiveNodes, BaseGraph DEF Live
  <2> QED
    BY <1>1, <2>1 DEF Compiles, RetainedValid
<1>2. CASE ~UsesLastGraph(q)
  <2>1. PICK e \in answer :
          /\ g[r].version = e.version /\ g[r].draft = Reference(e)
          /\ ModuleOf[e.version] \in DOMAIN Chosen(q) => e.version = Chosen(q)[ModuleOf[e.version]]
          /\ ModuleOf[e.version] \notin DOMAIN Chosen(q) => e.rules # {}
    BY <1>2, LiveNodes
  <2>2. e.draft # None /\ Reference(e).env = e.draft.env
    BY <2>1 DEF Reference
  <2>3. /\ e.draft.env = Here /\ e.version \in Snapshots
        /\ e.version \in Range(q.drafts) \/ e.rules = {}
    BY <2>2, AnswerTests
  <2>4. e.version \in Range(q.drafts)
    <3> SUFFICES ASSUME e.version \notin Range(q.drafts) PROVE FALSE
      OBVIOUS
    <3> DEFINE m == ModuleOf[e.version]
    <3>1. m \in DOMAIN Chosen(q) /\ e.version = Chosen(q)[m]
      BY <2>1, <2>3
    <3>2. m \notin DOMAIN q.drafts
      BY <3>1 DEF Chosen, Range
    <3>3. m \in DOMAIN q.selected /\ e.version = q.selected[m]
      BY <3>1, <3>2 DEF Chosen
    <3>4. e.version \in Published
      BY <3>3, RequestSelects DEF Compiles
    <3> QED
      BY <2>3, <3>4 DEF ModuleAssumption
  <2>5. IsSelective(q)
    BY <2>4 DEF IsSelective, Range
  <2>6. AuthorizeModuleVersion(q, e) = {"publish"}
    BY <2>2, <2>4 DEF AuthorizeModuleVersion
  <2>7. "publish" \in Permissions(q, answer)
    BY <2>5, <2>6 DEF Permissions
  <2> QED
    BY <1>2, <2>1, <2>2, <2>3, <2>4, <2>7
<1> QED
  BY <1>1, <1>2

\* A Version that was chosen for a Module is the one of its live nodes.
LEMMA NewSelection ==
  ASSUME ModuleAssumption, WellFormed, NEW q, NEW answer, NEW g, Compiles(q, answer, g),
         NEW r \in Live(g), q.mode = "deploy", ModuleOf[g[r].version] \in DOMAIN Chosen(q)
  PROVE  g[r].version = Chosen(q)[ModuleOf[g[r].version]]
<1>1. ~UsesLastGraph(q)
  BY RequestSelects DEF Compiles
<1> QED
  BY <1>1, LiveNodes

\* Live nodes and what the base held of the same executable agree on its provenance.
LEMMA NewProvenance ==
  ASSUME WellFormed, NEW q, NEW answer, NEW g, Compiles(q, answer, g), NEW r \in Live(g),
         Base(q) # 0, NEW s \in DOMAIN deps[Base(q)].graph,
         deps[Base(q)].graph[s].version = g[r].version
  PROVE  deps[Base(q)].graph[s].draft = g[r].draft
<1>1. PICK e \in answer : e.version = g[r].version /\ Reference(e) = g[r].draft
  BY DEF Compiles, MetadataComplete
<1>2. LastGraph(q) = deps[Base(q)].graph
  BY BaseGraph
<1> QED
  BY <1>1, <1>2 DEF Compiles, AssignModuleDefinitions

ArtifactVersions(artifacts) == {a.version : a \in artifacts}

ArtifactTests(artifacts) == {a.version : a \in {x \in artifacts : x.draft # None}}

ArtifactsConfirmed(artifacts) == {a.version : a \in {x \in artifacts : x.confirmed}}

GraphTests(g) == {g[r].version : r \in {x \in Live(g) : g[x].draft # None}}

RestrictedIn(q, g, answer) ==
  {e.version : e \in {x \in answer : /\ x.version \in ActiveModuleDefinitions(g)
                                    /\ IsSelective(q) /\ x.status = "defective"
                                    /\ x.version \in q.confirmed}}

\* The artifacts are those of the live nodes, tests and restricted Versions among them.
LEMMA NewArtifacts ==
  ASSUME WellFormed, NEW q, NEW answer, NEW g, Compiles(q, answer, g),
         NEW artifacts, artifacts = ModuleArtifactRequirements(q, g, answer)
  PROVE  /\ ArtifactVersions(artifacts) = ActiveModuleDefinitions(g)
         /\ ArtifactTests(artifacts) = GraphTests(g)
         /\ ArtifactsConfirmed(artifacts) = RestrictedIn(q, g, answer)
<1> DEFINE Artifact(e) == [version |-> e.version, ident |-> e.ident, draft |-> Reference(e),
                           confirmed |-> IsSelective(q) /\ e.status = "defective"
                                                        /\ e.version \in q.confirmed]
<1>1. artifacts = {Artifact(e) : e \in {x \in answer : x.version \in ActiveModuleDefinitions(g)}}
  BY DEF ModuleArtifactRequirements
<1>2. \A e : /\ Artifact(e).version = e.version /\ Artifact(e).draft = Reference(e)
             /\ Artifact(e).confirmed = (IsSelective(q) /\ e.status = "defective"
                                                        /\ e.version \in q.confirmed)
  OBVIOUS
<1>3. \A r \in Live(g) :
        /\ \E e \in answer : e.version = g[r].version
        /\ \A e \in answer : e.version = g[r].version => Reference(e) = g[r].draft
  BY DEF Compiles, MetadataComplete
<1>4. ActiveModuleDefinitions(g) = {g[r].version : r \in Live(g)}
  BY DEF ActiveModuleDefinitions
<1> HIDE DEF Artifact
<1>5. {a.version : a \in artifacts} = ActiveModuleDefinitions(g)
  BY <1>1, <1>2, <1>3, <1>4
<1>6. {a.version : a \in {x \in artifacts : x.draft # None}}
        = {g[r].version : r \in {x \in Live(g) : g[x].draft # None}}
  <2>1. ASSUME NEW a \in artifacts, a.draft # None
        PROVE  \E r \in Live(g) : g[r].draft # None /\ a.version = g[r].version
    BY <1>1, <1>2, <1>3, <1>4, <2>1
  <2>2. ASSUME NEW r \in Live(g), g[r].draft # None
        PROVE  \E a \in artifacts : a.draft # None /\ a.version = g[r].version
    <3>1. PICK e \in answer : e.version = g[r].version /\ Reference(e) = g[r].draft
      BY <1>3
    <3>2. Artifact(e) \in artifacts
      BY <1>1, <1>4, <3>1
    <3> QED
      BY <1>2, <2>2, <3>1, <3>2
  <2> QED
    BY <2>1, <2>2
<1>7. {a.version : a \in {x \in artifacts : x.confirmed}}
        = {e.version : e \in {x \in answer : /\ x.version \in ActiveModuleDefinitions(g)
                                             /\ IsSelective(q) /\ x.status = "defective"
                                             /\ x.version \in q.confirmed}}
  <2>1. ASSUME NEW a \in artifacts, a.confirmed
        PROVE  \E e \in answer : /\ e.version \in ActiveModuleDefinitions(g) /\ a.version = e.version
                                 /\ IsSelective(q) /\ e.status = "defective"
                                 /\ e.version \in q.confirmed
    BY <1>1, <1>2, <2>1
  <2>2. ASSUME NEW e \in answer, e.version \in ActiveModuleDefinitions(g),
               IsSelective(q), e.status = "defective", e.version \in q.confirmed
        PROVE  \E a \in artifacts : a.confirmed /\ a.version = e.version
    <3>1. Artifact(e) \in artifacts
      BY <1>1, <2>2
    <3> QED
      BY <1>2, <2>2, <3>1
  <2> QED
    BY <2>1, <2>2
<1> QED
  BY <1>5, <1>6, <1>7 DEF ArtifactVersions, ArtifactTests, ArtifactsConfirmed, GraphTests,
                          RestrictedIn

\* No Defective Version that a selective request did not confirm is in its answer.
LEMMA NewRestricted ==
  ASSUME WellFormed, NEW q, NEW answer, NEW g, Compiles(q, answer, g), IsSelective(q),
         NEW e \in answer, e.status = "defective"
  PROVE  /\ e.version \in q.confirmed
         /\ (IF q.mode = "rollback" THEN "rollback_restricted" ELSE "pin_defective")
              \in Permissions(q, answer)
<1>1. Permissions(q, answer) = UNION {AuthorizeModuleVersion(q, x) : x \in answer}
  BY DEF Permissions
<1>2. ~(e.draft # None /\ e.version \in Range(q.drafts))
  BY AnswerTests
<1>3. AuthorizeModuleVersion(q, e) =
        IF e.version \notin q.confirmed THEN {"never"}
        ELSE IF q.mode = "rollback" THEN {"rollback_restricted"} ELSE {"pin_defective"}
  BY <1>2 DEF AuthorizeModuleVersion
<1>4. "never" \notin AuthorizeModuleVersion(q, e)
  BY <1>1 DEF Compiles
<1> QED
  BY <1>1, <1>3, <1>4


\* A Deployment is stored with what it was compiled from.
LEMMA StoredFields ==
  ASSUME NEW q \in ExecutionRequests, NEW answer, NEW g
  PROVE  LET x == Stored(q, answer, g) IN
         /\ IsDeployment(x) /\ x.graph = g
         /\ x.artifacts = ModuleArtifactRequirements(q, g, answer)
         /\ x.admission = Admission(q, ModuleArtifactRequirements(q, g, answer))
         /\ x.checked = Permissions(q, answer)
         /\ x.defective = {e.version : e \in {y \in answer : y.status = "defective"}}
         /\ x.outcome = "running"
         /\ x.request.target = Base(q) /\ x.request.mode = q.mode
         /\ x.request.drafts = q.drafts /\ x.request.confirmed = q.confirmed
         /\ UsesLastGraph(x.request) = UsesLastGraph(q) /\ Chosen(x.request) = Chosen(q)
         /\ IsSelective(x.request) = IsSelective(q)
<1> DEFINE x == Stored(q, answer, g)
<1>1. /\ IsDeployment(x) /\ x.graph = g
      /\ x.artifacts = ModuleArtifactRequirements(q, g, answer)
      /\ x.admission = Admission(q, ModuleArtifactRequirements(q, g, answer))
      /\ x.checked = Permissions(q, answer)
      /\ x.defective = {e.version : e \in {y \in answer : y.status = "defective"}}
      /\ x.outcome = "running" /\ x.request = [q EXCEPT !.target = Base(q)]
  BY DEF Stored, IsDeployment
<1>2. /\ x.request.target = Base(q) /\ x.request.mode = q.mode
      /\ x.request.selected = q.selected /\ x.request.drafts = q.drafts
      /\ x.request.confirmed = q.confirmed
  BY <1>1, StoredRequest
<1> HIDE DEF x
<1>3. /\ UsesLastGraph(x.request) = UsesLastGraph(q) /\ Chosen(x.request) = Chosen(q)
      /\ IsSelective(x.request) = IsSelective(q)
  BY <1>2 DEF UsesLastGraph, Chosen, IsSelective
<1> QED
  BY <1>1, <1>2, <1>3 DEF x

\* What the properties ask of one Deployment, and of its place in the list.
TestsSelected(s, d) ==
  \A r \in Live(s[d].graph) : s[d].graph[r].draft # None =>
    /\ s[d].graph[r].draft.env = Here
    /\ IF UsesLastGraph(s[d].request)
       THEN s[s[d].request.target].graph[r] = s[d].graph[r]
       ELSE s[d].graph[r].version \in Range(s[d].request.drafts) /\ "publish" \in s[d].checked

ProvenanceHeld(s, d) ==
  s[d].request.target # 0 =>
    \A r \in Live(s[d].graph), t \in DOMAIN s[s[d].request.target].graph :
      s[s[d].request.target].graph[t].version = s[d].graph[r].version =>
        s[s[d].request.target].graph[t].draft = s[d].graph[r].draft

SelectionExact(x) ==
  \A r \in Live(x.graph) :
    x.request.mode = "deploy" /\ ModuleOf[x.graph[r].version] \in DOMAIN Chosen(x.request) =>
      x.graph[r].version = Chosen(x.request)[ModuleOf[x.graph[r].version]]

AdmissionNames(x) ==
  x.request.mode # "destroy" =>
    /\ {t[3] : t \in x.admission.versions} = ActiveModuleDefinitions(x.graph)
    /\ \A t, u \in x.admission.versions : <<t[1], t[2]>> = <<u[1], u[2]>> => t = u
    /\ x.admission.tests = {x.graph[r].version : r \in {y \in Live(x.graph) : x.graph[y].draft # None}}

Restricted(x) ==
  LET risky == ActiveModuleDefinitions(x.graph) \cap x.defective IN
  IsSelective(x.request) /\ risky # {} =>
    /\ risky \subseteq x.request.confirmed
    /\ (IF x.request.mode = "rollback" THEN "rollback_restricted" ELSE "pin_defective") \in x.checked
    /\ x.request.mode # "destroy" => x.admission.confirmed = risky

Evidence(s, d) ==
  \A v \in s[d].admission.carried :
    \E b \in 1..(d - 1) : s[b].outcome = "succeeded" /\ v \in ActiveModuleDefinitions(s[b].graph)

Sound(s, d) ==
  /\ IsDeployment(s[d]) /\ ArtifactsOfGraph(s[d])
  /\ s[d].request.target \in 0..(d - 1)
  /\ UsesLastGraph(s[d].request) => s[d].request.target # 0
  /\ \A r \in DOMAIN s[d].graph : IsNode(s[d].graph[r])
  /\ TestsSelected(s, d) /\ ProvenanceHeld(s, d) /\ SelectionExact(s[d]) /\ AdmissionNames(s[d])
  /\ Restricted(s[d]) /\ Evidence(s, d)

\* The inductive invariant.
ExecutionInv ==
  /\ Listed(deps)
  /\ \A d \in 1..Len(deps) : Sound(deps, d)
  /\ bundle # None => bundle.dep \in 1..Len(deps)
  /\ BundleIsWhatWasCompiled

\* Deployment by Deployment, this is what the run checks, and that the list is well formed.
LEMMA SoundIsAsked == ExecutionInv => WellFormed /\ RunsWhatWasAsked
<1>1. ASSUME Listed(deps) PROVE DOMAIN deps = 1..Len(deps)
  BY <1>1 DEF Listed
<1>2. ASSUME Listed(deps)
      PROVE  /\ TestsWereSelected <=> \A d \in 1..Len(deps) : TestsSelected(deps, d)
             /\ ProvenanceKept <=> \A d \in 1..Len(deps) : ProvenanceHeld(deps, d)
             /\ SelectionIsExact <=> \A d \in 1..Len(deps) : SelectionExact(deps[d])
             /\ AdmissionNamesWhatRuns <=> \A d \in 1..Len(deps) : AdmissionNames(deps[d])
             /\ RestrictedConfirmed <=> \A d \in 1..Len(deps) : Restricted(deps[d])
             /\ EvidenceIsEarned <=> \A d \in 1..Len(deps) : Evidence(deps, d)
  <2>1. TestsWereSelected <=> \A d \in 1..Len(deps) : TestsSelected(deps, d)
    BY <1>1, <1>2 DEF TestsWereSelected, TestsSelected
  <2>2. ProvenanceKept <=> \A d \in 1..Len(deps) : ProvenanceHeld(deps, d)
    BY <1>1, <1>2 DEF ProvenanceKept, ProvenanceHeld
  <2>3. SelectionIsExact <=> \A d \in 1..Len(deps) : SelectionExact(deps[d])
    BY <1>1, <1>2 DEF SelectionIsExact, SelectionExact
  <2>4. AdmissionNamesWhatRuns <=> \A d \in 1..Len(deps) : AdmissionNames(deps[d])
    BY <1>1, <1>2 DEF AdmissionNamesWhatRuns, AdmissionNames
  <2>5. RestrictedConfirmed <=> \A d \in 1..Len(deps) : Restricted(deps[d])
    BY <1>1, <1>2 DEF RestrictedConfirmed, Restricted
  <2>6. EvidenceIsEarned <=> \A d \in 1..Len(deps) : Evidence(deps, d)
    BY <1>1, <1>2 DEF EvidenceIsEarned, Evidence
  <2> QED
    BY <2>1, <2>2, <2>3, <2>4, <2>5, <2>6
<1> QED
  BY <1>2 DEF ExecutionInv, WellFormed, RunsWhatWasAsked, Sound


\* What is said of a Deployment stays true while others are added or end.
LEMMA SoundKept ==
  ASSUME NEW s, NEW t, NEW d \in Nat \ {0}, Sound(s, d), IsDeployment(t[d]),
         \A i \in 1..d : /\ t[i].request = s[i].request /\ t[i].graph = s[i].graph
                         /\ t[i].artifacts = s[i].artifacts /\ t[i].admission = s[i].admission
                         /\ t[i].checked = s[i].checked /\ t[i].defective = s[i].defective
                         /\ s[i].outcome = "succeeded" => t[i].outcome = "succeeded"
  PROVE  Sound(t, d)
<1>1. /\ d \in 1..d /\ s[d].request.target \in 0..(d - 1)
      /\ s[d].request.target # 0 => s[d].request.target \in 1..d
  BY DEF Sound
<1>2. /\ t[d].request = s[d].request /\ t[d].graph = s[d].graph /\ t[d].artifacts = s[d].artifacts
      /\ t[d].admission = s[d].admission /\ t[d].checked = s[d].checked
      /\ t[d].defective = s[d].defective
  BY <1>1
<1>3. s[d].request.target # 0 => t[s[d].request.target].graph = s[s[d].request.target].graph
  BY <1>1
<1>4. TestsSelected(t, d) /\ ProvenanceHeld(t, d)
  <2>1. /\ TestsSelected(s, d) /\ ProvenanceHeld(s, d)
        /\ UsesLastGraph(s[d].request) => s[d].request.target # 0
    BY DEF Sound
  <2>2. TestsSelected(t, d)
    BY <1>2, <1>3, <2>1 DEF TestsSelected
  <2>3. ProvenanceHeld(t, d)
    BY <1>2, <1>3, <2>1 DEF ProvenanceHeld
  <2> QED
    BY <2>2, <2>3
<1>5. SelectionExact(t[d]) /\ AdmissionNames(t[d]) /\ Restricted(t[d])
  BY <1>2 DEF Sound, SelectionExact, AdmissionNames, Restricted
<1>6. Evidence(t, d)
  <2> SUFFICES ASSUME NEW v \in s[d].admission.carried
               PROVE  \E b \in 1..(d - 1) : /\ t[b].outcome = "succeeded"
                                            /\ v \in ActiveModuleDefinitions(t[b].graph)
    BY <1>2 DEF Evidence
  <2>1. PICK b \in 1..(d - 1) : s[b].outcome = "succeeded" /\ v \in ActiveModuleDefinitions(s[b].graph)
    BY DEF Sound, Evidence
  <2>2. b \in 1..d
    OBVIOUS
  <2> QED
    BY <2>1, <2>2
<1> QED
  BY <1>2, <1>4, <1>5, <1>6 DEF Sound, ArtifactsOfGraph

\* The new Deployment has every property, whatever the catalogue answered.
LEMMA NewSound ==
  ASSUME ModuleAssumption, WellFormed, NEW q, NEW answer, NEW g, Compiles(q, answer, g),
         NEW s, s = Append(deps, Stored(q, answer, g)),
         NEW artifacts, artifacts = ModuleArtifactRequirements(q, g, answer)
  PROVE  Sound(s, Len(deps) + 1)
<1> DEFINE n == Len(deps) + 1
<1>1. q \in ExecutionRequests
  BY DEF Compiles
<1>2. /\ s[n] = Stored(q, answer, g) /\ n \in Nat \ {0} /\ Len(deps) \in Nat
      /\ \A i \in 1..Len(deps) : s[i] = deps[i]
  BY AppendListed DEF WellFormed
<1>3. /\ IsDeployment(s[n]) /\ s[n].graph = g /\ s[n].artifacts = artifacts
      /\ s[n].admission = Admission(q, artifacts) /\ s[n].checked = Permissions(q, answer)
      /\ s[n].defective = {e.version : e \in {y \in answer : y.status = "defective"}}
      /\ s[n].request.target = Base(q) /\ s[n].request.mode = q.mode
      /\ s[n].request.drafts = q.drafts /\ s[n].request.confirmed = q.confirmed
      /\ UsesLastGraph(s[n].request) = UsesLastGraph(q) /\ Chosen(s[n].request) = Chosen(q)
      /\ IsSelective(s[n].request) = IsSelective(q)
  BY <1>1, <1>2, StoredFields
<1>4. /\ ArtifactVersions(artifacts) = ActiveModuleDefinitions(g)
      /\ ArtifactTests(artifacts) = GraphTests(g)
      /\ ArtifactsConfirmed(artifacts) = RestrictedIn(q, g, answer)
  BY NewArtifacts
<1>5. /\ Base(q) \in 0..(n - 1) /\ (UsesLastGraph(q) => Base(q) # 0)
      /\ Base(q) # 0 => s[Base(q)] = deps[Base(q)] /\ LastGraph(q) = deps[Base(q)].graph
  BY <1>2, BaseGraph
<1>6. \A r \in DOMAIN g : IsNode(g[r])
  BY LiveNodes
<1>7. TargetsConsistent(artifacts)
  BY Zenon DEF Compiles
<1> HIDE DEF n
<1>8. TestsSelected(s, n)
  <2>1. ASSUME NEW r \in Live(g), g[r].draft # None
        PROVE  /\ g[r].draft.env = Here
               /\ IF UsesLastGraph(q) THEN s[Base(q)].graph[r] = g[r]
                  ELSE g[r].version \in Range(q.drafts) /\ "publish" \in s[n].checked
    <3>1. /\ g[r].draft.env = Here
          /\ UsesLastGraph(q) => deps[Base(q)].graph[r] = g[r]
          /\ ~UsesLastGraph(q) => g[r].version \in Range(q.drafts) /\ "publish" \in Permissions(q, answer)
      BY <2>1, NewTests
    <3> QED
      BY <1>3, <1>5, <3>1
  <2> QED
    BY <1>3, <2>1 DEF TestsSelected
<1>9. ProvenanceHeld(s, n)
  <2>1. ASSUME Base(q) # 0, NEW r \in Live(g), NEW t \in DOMAIN s[Base(q)].graph,
               s[Base(q)].graph[t].version = g[r].version
        PROVE  s[Base(q)].graph[t].draft = g[r].draft
    <3>1. s[Base(q)] = deps[Base(q)]
      BY <1>5, <2>1
    <3>2. /\ t \in DOMAIN deps[Base(q)].graph
          /\ deps[Base(q)].graph[t].version = g[r].version
      BY <2>1, <3>1
    <3>3. deps[Base(q)].graph[t].draft = g[r].draft
      BY <2>1, <3>2, NewProvenance
    <3> QED
      BY <3>1, <3>3
  <2> SUFFICES ASSUME s[n].request.target # 0, NEW r \in Live(s[n].graph),
                      NEW t \in DOMAIN s[s[n].request.target].graph,
                      s[s[n].request.target].graph[t].version = s[n].graph[r].version
               PROVE  s[s[n].request.target].graph[t].draft = s[n].graph[r].draft
    BY DEF ProvenanceHeld
  <2>2. s[n].request.target = Base(q) /\ s[n].graph = g
    BY <1>3
  <2> QED
    BY <2>1, <2>2
<1>10. SelectionExact(s[n])
  <2> SUFFICES ASSUME NEW r \in Live(s[n].graph), s[n].request.mode = "deploy",
                      ModuleOf[s[n].graph[r].version] \in DOMAIN Chosen(s[n].request)
               PROVE  s[n].graph[r].version = Chosen(s[n].request)[ModuleOf[s[n].graph[r].version]]
    BY DEF SelectionExact
  <2>1. s[n].graph = g /\ s[n].request.mode = q.mode /\ Chosen(s[n].request) = Chosen(q)
    BY <1>3
  <2>2. r \in Live(g) /\ q.mode = "deploy" /\ ModuleOf[g[r].version] \in DOMAIN Chosen(q)
    BY <2>1
  <2>3. g[r].version = Chosen(q)[ModuleOf[g[r].version]]
    BY <2>2, NewSelection
  <2> QED
    BY <2>1, <2>3
<1>11. AdmissionNames(s[n])
  <2> SUFFICES ASSUME q.mode # "destroy"
               PROVE  /\ {t[3] : t \in s[n].admission.versions} = ActiveModuleDefinitions(g)
                      /\ \A t, u \in s[n].admission.versions : <<t[1], t[2]>> = <<u[1], u[2]>> => t = u
                      /\ s[n].admission.tests = GraphTests(g)
    BY <1>3 DEF AdmissionNames, GraphTests
  <2>1. /\ s[n].admission.versions = {<<ModuleOf[a.version], a.ident, a.version>> : a \in artifacts}
        /\ s[n].admission.tests = ArtifactTests(artifacts)
    <3>1. s[n].admission = Admission(q, artifacts)
      BY <1>3
    <3> QED
      BY <3>1 DEF Admission, ArtifactTests
  <2>2. {t[3] : t \in s[n].admission.versions} = ArtifactVersions(artifacts)
    <3> DEFINE Named(a) == <<ModuleOf[a.version], a.ident, a.version>>
    <3>1. s[n].admission.versions = {Named(a) : a \in artifacts} /\ \A a : Named(a)[3] = a.version
      BY <2>1
    <3> HIDE DEF Named
    <3> QED
      BY <3>1 DEF ArtifactVersions
  <2>3. ASSUME NEW t \in s[n].admission.versions, NEW u \in s[n].admission.versions,
               <<t[1], t[2]>> = <<u[1], u[2]>>
        PROVE  t = u
    <3>1. PICK a \in artifacts : t = <<ModuleOf[a.version], a.ident, a.version>>
      BY <2>1
    <3>2. PICK b \in artifacts : u = <<ModuleOf[b.version], b.ident, b.version>>
      BY <2>1
    <3>3. ModuleOf[a.version] = ModuleOf[b.version] /\ a.ident = b.ident
      BY <2>3, <3>1, <3>2
    <3>4. a.version = b.version
      BY <1>7, <3>3 DEF TargetsConsistent
    <3> QED
      BY <3>1, <3>2, <3>3, <3>4
  <2> QED
    BY <1>4, <2>1, <2>2, <2>3
<1>12. Restricted(s[n])
  <2> DEFINE risky == ActiveModuleDefinitions(g) \cap {e.version : e \in {y \in answer : y.status = "defective"}}
  <2> SUFFICES ASSUME IsSelective(q), risky # {}
               PROVE  /\ risky \subseteq q.confirmed
                      /\ (IF q.mode = "rollback" THEN "rollback_restricted" ELSE "pin_defective")
                           \in Permissions(q, answer)
                      /\ q.mode # "destroy" => s[n].admission.confirmed = risky
    BY <1>3 DEF Restricted
  <2>1. \A e \in answer : e.status = "defective" =>
          /\ e.version \in q.confirmed
          /\ (IF q.mode = "rollback" THEN "rollback_restricted" ELSE "pin_defective")
               \in Permissions(q, answer)
    BY NewRestricted
  <2>2. q.mode # "destroy" =>
          s[n].admission.confirmed = ArtifactsConfirmed(artifacts)
    BY <1>3 DEF Admission, ArtifactsConfirmed
  <2>3. risky = RestrictedIn(q, g, answer)
    BY <2>1 DEF RestrictedIn
  <2> QED
    BY <1>4, <2>1, <2>2, <2>3
<1>13. Evidence(s, n)
  <2> SUFFICES ASSUME NEW v \in s[n].admission.carried
               PROVE  \E b \in 1..(n - 1) : /\ s[b].outcome = "succeeded"
                                            /\ v \in ActiveModuleDefinitions(s[b].graph)
    BY DEF Evidence
  <2>1. v \in LifecycleEvidence(q, artifacts)
    BY <1>3 DEF Admission
  <2>2. Succeeded(q) /\ v \in ActiveModuleDefinitions(LastGraph(q))
    BY <2>1 DEF LifecycleEvidence
  <2>3. Base(q) # 0 /\ deps[Base(q)].outcome = "succeeded"
    BY <2>2 DEF Succeeded
  <2>4. Base(q) \in 1..(n - 1)
    BY <1>2, <1>5, <2>3 DEF n
  <2> QED
    BY <1>5, <2>2, <2>3, <2>4
<1>14. ArtifactsOfGraph(s[n])
  BY <1>3, <1>4 DEF ArtifactsOfGraph, ArtifactVersions
<1>15. Sound(s, n)
  BY <1>3, <1>5, <1>6, <1>8, <1>9, <1>10, <1>11, <1>12, <1>13, <1>14 DEF Sound
<1> QED
  BY <1>15 DEF n

\* A creation adds a sound Deployment and touches no other.
LEMMA CreateSound == ASSUME ModuleAssumption, ExecutionInv, CreateDeployment PROVE ExecutionInv'
<1>1. WellFormed /\ Listed(deps) /\ (\A d \in 1..Len(deps) : Sound(deps, d))
  BY SoundIsAsked DEF ExecutionInv
<1>2. PICK q, answer, g : Compiles(q, answer, g) /\ deps' = Append(deps, Stored(q, answer, g))
  BY CreateDeploymentCompiles
<1>3. bundle' = bundle
  BY CreateDeploymentCompiles
<1>4. /\ Len(deps') = Len(deps) + 1 /\ Len(deps) \in Nat /\ Listed(deps')
      /\ \A i \in 1..Len(deps) : deps'[i] = deps[i]
  BY <1>1, <1>2, AppendListed
<1>5. Sound(deps', Len(deps) + 1)
  BY <1>1, <1>2, NewSound
<1>6. ASSUME NEW d \in 1..Len(deps) PROVE Sound(deps', d)
  <2>1. Sound(deps, d) /\ d \in Nat \ {0} /\ d \in 1..d /\ \A i \in 1..d : deps'[i] = deps[i]
    BY <1>1, <1>4
  <2>2. IsDeployment(deps'[d])
    BY <2>1 DEF Sound
  <2> QED
    BY <2>1, <2>2, SoundKept
<1>7. \A d \in 1..Len(deps') : Sound(deps', d)
  BY <1>4, <1>5, <1>6
<1>8. /\ bundle' # None => bundle'.dep \in 1..Len(deps')
      /\ BundleIsWhatWasCompiled'
  BY <1>1, <1>3, <1>4 DEF ExecutionInv, BundleIsWhatWasCompiled
<1> QED
  BY <1>4, <1>7, <1>8 DEF ExecutionInv

\* An end changes one outcome, which can only add evidence.
LEMMA FinishSound ==
  ASSUME ExecutionInv, NEW outcome, FinishDeployment(outcome)
  PROVE  ExecutionInv'
<1>1. WellFormed /\ Listed(deps) /\ (\A d \in 1..Len(deps) : Sound(deps, d))
  BY SoundIsAsked DEF ExecutionInv
<1>2. /\ deps # <<>> /\ deps[Len(deps)].outcome = "running"
      /\ deps' = [deps EXCEPT ![Len(deps)].outcome = outcome] /\ bundle' = bundle
  BY DEF FinishDeployment
<1>3. Len(deps) \in 1..Len(deps)
  BY <1>1, <1>2 DEF Listed
<1>31. IsDeployment(deps[Len(deps)])
  BY <1>1, <1>3 DEF Sound
<1>32. deps # <<>> /\ deps' = WithOutcome(deps, outcome)
  BY <1>2 DEF WithOutcome
<1>4. /\ Listed(deps') /\ Len(deps') = Len(deps) /\ Len(deps) \in Nat
      /\ \A i \in 1..Len(deps) : i # Len(deps) => deps'[i] = deps[i]
      /\ IsDeployment(deps'[Len(deps)])
      /\ \A i \in 1..Len(deps) :
           /\ deps'[i].request = deps[i].request /\ deps'[i].graph = deps[i].graph
           /\ deps'[i].artifacts = deps[i].artifacts /\ deps'[i].admission = deps[i].admission
           /\ deps'[i].checked = deps[i].checked /\ deps'[i].defective = deps[i].defective
  BY <1>1, <1>31, <1>32, OutcomeListed
<1>5. ASSUME NEW d \in 1..Len(deps) PROVE Sound(deps', d)
  <2>1. Sound(deps, d) /\ d \in Nat \ {0} /\ \A i \in 1..d : i \in 1..Len(deps)
    BY <1>1, <1>4
  <2>2. \A i \in 1..Len(deps) : deps[i].outcome = "succeeded" => deps'[i].outcome = "succeeded"
    BY <1>2, <1>4
  <2>3. IsDeployment(deps'[d])
    BY <1>4, <2>1 DEF Sound
  <2> QED
    BY <1>4, <2>1, <2>2, <2>3, SoundKept
<1>6. /\ bundle' # None => bundle'.dep \in 1..Len(deps')
      /\ BundleIsWhatWasCompiled'
  BY <1>1, <1>2, <1>4 DEF ExecutionInv, BundleIsWhatWasCompiled
<1> QED
  BY <1>4, <1>5, <1>6 DEF ExecutionInv

\* A bundle is rebuilt from whatever the catalogue answers now, but only from sources whose
\* identity is that of the artifact, one for each live inline node.
LEMMA BundleSound == ASSUME ExecutionInv, BuildBundle PROVE ExecutionInv'
<1>1. WellFormed /\ Listed(deps) /\ (\A d \in 1..Len(deps) : Sound(deps, d))
  BY SoundIsAsked DEF ExecutionInv
<1> DEFINE n == Len(deps)
<1>2. n \in 1..Len(deps) /\ deps' = deps
  BY <1>1 DEF BuildBundle, Listed
<1>3. PICK answer :
        /\ RetainedIdentities(n, answer) /\ SelectInlineModules(n, answer)
        /\ bundle' = [dep |-> n,
                      sources |-> {<<e.version, e.ident>> :
                                     e \in {x \in answer : x.version \in InlineMaterialCoordinates(n)}}]
  BY DEF BuildBundle
<1> HIDE DEF n
<1>4. bundle'.dep = n
  BY <1>3
<1>5. {a.version : a \in deps[n].artifacts} = ActiveModuleDefinitions(deps[n].graph)
  BY <1>1, <1>2 DEF Sound, ArtifactsOfGraph
<1>6. \A a \in deps[n].artifacts : a.version \in Inline => a.version \in InlineMaterialCoordinates(n)
  BY <1>5 DEF InlineMaterialCoordinates
<1>7. \A v \in InlineMaterialCoordinates(n) :
        /\ v \in Inline /\ \E a \in deps[n].artifacts : a.version = v
        /\ \E e \in answer : e.version = v
  <2> TAKE v \in InlineMaterialCoordinates(n)
  <2>1. v \in Inline /\ v \in ActiveModuleDefinitions(deps[n].graph)
    BY DEF InlineMaterialCoordinates
  <2>2. Cardinality({e \in answer : e.version = v}) = 1
    BY <1>3 DEF SelectInlineModules
  <2>3. {e \in answer : e.version = v} # {}
    BY <2>2, FS_EmptySet
  <2> QED
    BY <1>5, <2>1, <2>3
<1>8. \A e \in answer, a \in deps[n].artifacts : a.version = e.version => a.ident = e.ident
  BY <1>3 DEF RetainedIdentities
<1>9. bundle'.sources = {<<a.version, a.ident>> : a \in {x \in deps[n].artifacts : x.version \in Inline}}
  <2>1. bundle'.sources
          = {<<e.version, e.ident>> : e \in {x \in answer : x.version \in InlineMaterialCoordinates(n)}}
    BY <1>3
  <2>2. ASSUME NEW e \in answer, e.version \in InlineMaterialCoordinates(n)
        PROVE  \E a \in deps[n].artifacts : /\ a.version \in Inline
                                            /\ <<a.version, a.ident>> = <<e.version, e.ident>>
    BY <1>7, <1>8, <2>2
  <2>3. ASSUME NEW a \in deps[n].artifacts, a.version \in Inline
        PROVE  \E e \in answer : /\ e.version \in InlineMaterialCoordinates(n)
                                 /\ <<a.version, a.ident>> = <<e.version, e.ident>>
    BY <1>6, <1>7, <1>8, <2>3
  <2> QED
    BY <2>1, <2>2, <2>3
<1>10. /\ bundle' # None => bundle'.dep \in 1..Len(deps')
       /\ BundleIsWhatWasCompiled'
  BY <1>2, <1>4, <1>9 DEF BundleIsWhatWasCompiled
<1> QED
  BY <1>1, <1>2, <1>10 DEF ExecutionInv

\* There is no Deployment yet.
LEMMA InitSound == ExecutionInit => ExecutionInv
<1> SUFFICES ASSUME ExecutionInit PROVE ExecutionInv
  OBVIOUS
<1>1. deps = <<>> /\ bundle = None
  BY DEF ExecutionInit
<1>2. Listed(deps) /\ Len(deps) = 0
  BY <1>1 DEF Listed, Range
<1> QED
  BY <1>1, <1>2 DEF ExecutionInv, BundleIsWhatWasCompiled

\* Every step keeps the invariant; the Control Plane's steps leave the Deployments alone.
LEMMA NextSound ==
  ASSUME ModuleAssumption
  PROVE  ExecutionInv /\ [ExecutionNext]_executionVars => ExecutionInv'
<1> SUFFICES ASSUME ExecutionInv, [ExecutionNext]_executionVars PROVE ExecutionInv'
  OBVIOUS
<1>1. CASE CreateDeployment
  BY <1>1, CreateSound
<1>2. CASE FinishDeployment("succeeded") \/ FinishDeployment("failed")
  BY <1>2, FinishSound
<1>3. CASE BuildBundle
  BY <1>3, BundleSound
<1>4. CASE UNCHANGED <<deps, bundle>>
  BY <1>4 DEF ExecutionInv, BundleIsWhatWasCompiled
<1> QED
  BY <1>1, <1>2, <1>3, <1>4 DEF ExecutionNext, executionVars, ChangeDefault, ChangeStatus, RecreateModule

\* What runs is what was selected, admitted and compiled, for any Modules, Versions, snapshots
\* and requests, and whichever entry of a catalogue's answer is missing, doubled or wrong:
\* exact selections, tests only by authority and never laundered into published Versions,
\* Defective Versions only when confirmed, evidence only from success, and bundles that still
\* hold the compiled sources (CreateDeploymentWithOptions, bundles.Build).
THEOREM RunsAsAsked ==
  ASSUME ModuleAssumption
  PROVE  ExecutionSpec => []RunsWhatWasAsked
<1>1. ExecutionInv => RunsWhatWasAsked
  BY SoundIsAsked
<1> QED
  BY <1>1, InitSound, NextSound, PTL DEF ExecutionSpec
=============================================================================
