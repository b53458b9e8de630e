------------------------------ MODULE MCDispatch ------------------------------
(***************************************************************************)
(* From what a Deployment executes to the job that executes it: dispatch   *)
(* and Modules with their Versions (both extended), the Runner transport   *)
(* and the back ends. The components share no state here: each behaviour   *)
(* chooses one part, and the others stand still.                           *)
(***************************************************************************)
EXTENDS RunnerDispatch, ModuleExecution, TLC

CONSTANTS Parts, d1, d2, r1, x1, x2

VARIABLES part, againDep, againLease, againSlot, againAge, againProven, againHistory,
    againCreated, againDeadLetter, againCheck, againJob, againStarts, againResults, againErrors,
    againWorker, kubernetesJob, pod, counters, late, readable, poll, verdict, revision, active,
    inactive, task, definition, handler, listed, search, checked, hidden, mode, kind,
    containers, overrides

\* Two Environments share one Kubernetes Runner with a single slot.
SharedRunner == (d1 :> r1) @@ (d2 :> r1)
DeployAndPlan == (d1 :> "deploy") @@ (d2 :> "plan_only")
OnKubernetes == (r1 :> "kubernetes")
OneSlot == (r1 :> 1)

\* One Module with two published Versions and two snapshots, one of them
\* captured for another Environment.
Coordinates == {"v1", "v2", "test", "foreign"}
OneModule == [v \in Coordinates |-> "module"]
Captured == [s \in Coordinates |-> IF s = "foreign" THEN "elsewhere" ELSE "here"]

\* One Deployment whose events are delivered again and again.
Redelivery == INSTANCE RunnerDispatch WITH Deployments <- {d1}, RunnerOf <- (d1 :> r1),
    Mode <- (d1 :> "deploy"), Window <- 2, MaxDeliveries <- 3,
    dep <- againDep, lease <- againLease, slot <- againSlot, age <- againAge,
    proven <- againProven, history <- againHistory, created <- againCreated,
    deadLetter <- againDeadLetter, check <- againCheck, job <- againJob,
    starts <- againStarts, results <- againResults, errors <- againErrors,
    worker <- againWorker
Kubernetes == INSTANCE KubernetesRunner WITH job <- kubernetesJob
Ecs == INSTANCE EcsRunner WITH Deployments <- {d1}, Handlers <- {x1, x2}, StaleLimit <- 2,
    MaxRevision <- 4, None <- Nobody
Transport == INSTANCE RunnerTransport WITH Length <- 3
Restriction == INSTANCE ModuleExecution WITH Published <- {"v1", "v2"}, Resources <- {"a"},
    Snapshots <- {}, Statuses <- {"default", "defective"}, Manifests <- {{"a"}},
    WrongRules <- {{}}
Provenance == INSTANCE ModuleExecution WITH Published <- {"v1"}, Resources <- {"a"},
    Snapshots <- {"test"}, Manifests <- {{}, {"a"}}, Confirmations <- {{}},
    WrongRules <- {{}, {"a"}}, MaxDeployments <- 3

ASSUME DispatchAssumption
ASSUME Redelivery!DispatchAssumption
ASSUME Ecs!EcsAssumption
ASSUME ModuleAssumption
ASSUME Restriction!ModuleAssumption
ASSUME Provenance!ModuleAssumption

Unused == "-"
NoRedelivery ==
  /\ againDep = Unused /\ againLease = Unused /\ againSlot = Unused /\ againAge = Unused
  /\ againProven = Unused /\ againHistory = Unused /\ againCreated = Unused
  /\ againDeadLetter = Unused /\ againCheck = Unused /\ againJob = Unused
  /\ againStarts = Unused /\ againResults = Unused /\ againErrors = Unused
  /\ againWorker = Unused
NoKubernetes ==
  /\ kubernetesJob = Unused /\ pod = Unused /\ counters = Unused /\ late = Unused
  /\ readable = Unused /\ poll = Unused /\ verdict = Unused
NoEcs ==
  /\ revision = Unused /\ active = Unused /\ inactive = Unused /\ task = Unused
  /\ definition = Unused /\ handler = Unused /\ listed = Unused
  /\ search = Unused /\ checked = Unused /\ hidden = Unused
NoTransport ==
  /\ mode = Unused /\ kind = Unused /\ containers = Unused /\ overrides = Unused
NoModules ==
  /\ default = Unused /\ status = Unused /\ generation = Unused /\ deps = <<>> /\ bundle = None

SuiteInit ==
  /\ part \in Parts
  /\ Init
  /\ IF part = "redelivery" THEN Redelivery!Init ELSE NoRedelivery
  /\ IF part = "kubernetes" THEN Kubernetes!Init ELSE NoKubernetes
  /\ IF part = "ecs" THEN Ecs!Init ELSE NoEcs
  /\ IF part = "transport" THEN Transport!Init ELSE NoTransport
  /\ CASE part = "selection" -> ExecutionInit
       [] part = "restriction" -> Restriction!ExecutionInit
       [] part = "provenance" -> Provenance!ExecutionInit
       [] OTHER -> NoModules

redeliveryVars == <<againDep, againLease, againSlot, againAge, againProven, againHistory,
    againCreated, againDeadLetter, againCheck, againJob, againStarts, againResults, againErrors,
    againWorker>>
kubernetesVars == <<kubernetesJob, pod, counters, late, readable, poll, verdict>>
ecsVars == <<revision, active, inactive, task, definition, handler, listed, search, checked,
    hidden>>
transportVars == <<mode, kind, containers, overrides>>

allVars == <<part, vars, redeliveryVars, kubernetesVars, ecsVars, transportVars, executionVars>>

\* Where every operation may end, the system may rest.
AtRest == part \in {"dispatch", "redelivery", "kubernetes", "ecs"} /\ UNCHANGED allVars

\* The chosen component moves, the others stand still.
Move ==
  /\ UNCHANGED part
  /\ IF part = "dispatch" THEN Next ELSE UNCHANGED vars
  /\ IF part = "redelivery" THEN Redelivery!Next ELSE UNCHANGED redeliveryVars
  /\ IF part = "kubernetes" THEN Kubernetes!Next ELSE UNCHANGED kubernetesVars
  /\ IF part = "ecs" THEN Ecs!Next ELSE UNCHANGED ecsVars
  /\ IF part = "transport" THEN Transport!Next ELSE UNCHANGED transportVars
  /\ CASE part = "selection" -> ExecutionNext
       [] part = "restriction" -> Restriction!ExecutionNext
       [] part = "provenance" -> Provenance!ExecutionNext
       [] OTHER -> UNCHANGED executionVars

SuiteNext == Move \/ AtRest

SuiteSpec == SuiteInit /\ [][SuiteNext]_allVars

\* Handlers are interchangeable.
Handlers == Permutations({x1, x2})

-----------------------------------------------------------------------------
\* What a status check says, which ends the checks or fails the Deployment, is true
\* when it is said, as far as each back end goes (the CheckStatus of both Runners).
\* Kubernetes: "completed" only of a Pod that has ended, "stuck" only of one that had
\* not started when it was read a second time. ECS promises less: "completed" only of
\* a task that exited by itself or that ECS did not list, "stuck" never of one that
\* runs, but of one that ran and is being stopped too. An ECS task runs a definition
\* registered for its own Start, and overlapping Starts keep the family of
\* definitions within one page (ecsRunnerInstance.Start). On Kubernetes Runners, under
\* redelivery too, no job is created after the dispatch budget, which ECS does not
\* look at, and no late answer rewrites how a Deployment ended (the handlers of
\* RunnerDispatch). The container of an observation only reads, and that of a plan
\* changes nothing (RunnerTransport).
BackEndsTruthful ==
  /\ [](part = "kubernetes" => Kubernetes!CompletedMeansEnded)
  /\ [][part = "kubernetes" => Kubernetes!StuckMeansNotStartedStep]_kubernetesVars
  /\ [](part = "ecs" => Ecs!FamilyBounded /\ Ecs!EcsCompletedMeansExited)
  /\ [][part = "ecs" => Ecs!TasksHaveDefinitionStep /\ Ecs!EcsStuckStep]_ecsVars
  /\ [][OutcomeFinalStep /\ CommandsInTimeStep]_vars
  /\ [][part = "redelivery" =>
         /\ Redelivery!OutcomeFinalStep /\ Redelivery!CommandsInTimeStep]_redeliveryVars
  /\ [](part = "redelivery" => Redelivery!DispatchSafe)
  /\ [](part = "transport" => Transport!ObservationReadsOnly /\ Transport!ModeMatchesIntent)
=============================================================================
