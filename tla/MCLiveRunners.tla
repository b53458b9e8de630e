------------------------------ MODULE MCLiveRunners ------------------------------
(***************************************************************************)
(* What must happen in the end, at the Runners and in the server's own     *)
(* process: each component under the fairness it states for itself. The    *)
(* components share no state here: each behaviour chooses one part, and    *)
(* the others stay in their initial states.                                *)
(***************************************************************************)
EXTENDS Naturals, Sequences, TLC

CONSTANTS Parts, c1, c2, w1, w2, d1, d2, r1, k1, Nobody

VARIABLES part, dep, lease, slot, age, proven, history, created, deadLetter, check, job, starts,
    results, errors, worker, status, revision, dispatched, resultsSlot, resultsLease, head,
    inbox, completion, retained, late, acknowledged, resultsHistory, resultsJob, said, mail,
    tries, finished, resultsDeadLetter, replica, phase, opened, defers, closing, closed, cut,
    failing, work, stranded, begun, outbox, stops, now, versions, pc, token, faults,
    kubernetesJob, pod, counters, kubernetesLate, readable, poll, verdict, receipt, seal,
    observationsClosed, run, result, slots, observationsHead, headState, admission, locks,
    caller, answers

Agent == INSTANCE RunnerDispatch WITH Deployments <- {d1}, Runners <- {r1},
    RunnerOf <- (d1 :> r1), Kind <- (r1 :> "agent"), Limit <- (r1 :> 1),
    Mode <- (d1 :> "observation"), Workers <- {w1, w2}, Window <- 1, MaxDeliveries <- 2
Ecs == INSTANCE RunnerDispatch WITH Deployments <- {d1}, Runners <- {r1},
    RunnerOf <- (d1 :> r1), Kind <- (r1 :> "ecs"), Limit <- (r1 :> 0), Mode <- (d1 :> "deploy"),
    Workers <- {w1, w2}, Window <- 1, MaxDeliveries <- 2
Results == INSTANCE RunnerResults WITH Deployments <- {d1}, Kind <- (d1 :> "observation"),
    Channel <- (d1 :> "nats"), MayRepeat <- {}, Replicas <- {w1, w2}, MaxDeliveries <- 2,
    PeekMayFail <- FALSE, slot <- resultsSlot, lease <- resultsLease, history <- resultsHistory,
    job <- resultsJob, deadLetter <- resultsDeadLetter
Lifecycle == INSTANCE ServerLifecycle WITH MaxWork <- 1, MaxStops <- 2
Credentials == INSTANCE RunnerCredentials WITH Eks <- {c1}, Gke <- {c2}, TokenLife <- 2,
    RotatePeriod <- 3, MaxTime <- 6, MaxFaults <- 1
Kubernetes == INSTANCE KubernetesRunner WITH job <- kubernetesJob, late <- kubernetesLate
Observations == INSTANCE ObservationRequests WITH Observations <- {d1, d2}, Redeploys <- {},
    RunOf <- <<>>, Contents <- {k1}, Callers <- {c1}, MaxHead <- 1, BatchSize <- 2,
    closed <- observationsClosed, head <- observationsHead

ASSUME Agent!DispatchAssumption
ASSUME Ecs!DispatchAssumption
ASSUME Results!ResultsAssumption

Init ==
  /\ part \in Parts
  /\ IF part = "agent" THEN Agent!Init ELSE Ecs!Init
  /\ Results!Init
  /\ Lifecycle!Init
  /\ Credentials!Init
  /\ Kubernetes!Init
  /\ Observations!Init
  /\ part # "observations" => headState = "succeeded"
  /\ part # "kubernetes" => readable

dispatchVars == <<dep, lease, slot, age, proven, history, created, deadLetter, check, job,
    starts, results, errors, worker>>
resultsVars == <<status, revision, dispatched, resultsSlot, resultsLease, head, inbox,
    completion, retained, late, acknowledged, resultsHistory, resultsJob, said, mail, tries,
    finished, resultsDeadLetter, replica>>
lifecycleVars == <<phase, opened, defers, closing, closed, cut, failing, work, stranded, begun,
    outbox, stops>>
credentialsVars == <<now, versions, pc, token, faults>>
kubernetesVars == <<kubernetesJob, pod, counters, kubernetesLate, readable, poll, verdict>>
observationsVars == <<receipt, seal, observationsClosed, run, result, slots, observationsHead,
    headState, admission, locks, caller, answers>>

allVars == <<part, dispatchVars, resultsVars, lifecycleVars, credentialsVars, kubernetesVars,
    observationsVars>>

\* Where every operation may end, the system may rest.
AtRest == part \in {"agent", "ecs", "results", "kubernetes", "observations"} /\ UNCHANGED allVars

\* The chosen component moves, the others stand still.
Move ==
  /\ UNCHANGED part
  /\ CASE part = "agent" -> Agent!Next
       [] part = "ecs" -> Ecs!Next
       [] OTHER -> UNCHANGED dispatchVars
  /\ IF part = "results" THEN Results!Next ELSE UNCHANGED resultsVars
  /\ IF part = "lifecycle" THEN Lifecycle!Next ELSE UNCHANGED lifecycleVars
  /\ IF part = "credentials" THEN Credentials!Next ELSE UNCHANGED credentialsVars
  /\ IF part = "kubernetes" THEN Kubernetes!Next ELSE UNCHANGED kubernetesVars
  /\ IF part = "observations" THEN Observations!Next ELSE UNCHANGED observationsVars

Next == Move \/ AtRest

Spec == Init /\ [][Next]_allVars

\* The fairness each component states for itself, of its own steps only.
FairSpec ==
  /\ Spec
  /\ WF_dispatchVars(\/ part = "agent" /\ Agent!ApplyResult(d1)
                     \/ part = "ecs" /\ Ecs!ApplyResult(d1))
  /\ WF_dispatchVars(\/ part = "agent" /\ Agent!ApplyRunnerError(d1)
                     \/ part = "ecs" /\ Ecs!ApplyRunnerError(d1))
  /\ WF_dispatchVars(\/ part = "agent" /\ Agent!Tick(d1)
                     \/ part = "ecs" /\ Ecs!Tick(d1))
  /\ \A w \in {w1, w2} :
       WF_dispatchVars(\/ part = "agent" /\ Agent!Handle(w)
                       \/ part = "ecs" /\ Ecs!Handle(w))
  /\ \A e \in Results!Mailed :
       WF_resultsVars(part = "results" /\ \E r \in {w1, w2} : Results!Deliver(r, e))
  /\ \A r \in {w1, w2} : WF_resultsVars(part = "results" /\ Results!Handling(r))
  /\ WF_lifecycleVars(part = "lifecycle" /\ Lifecycle!OpenNext)
  /\ WF_lifecycleVars(part = "lifecycle" /\ Lifecycle!Started)
  /\ WF_lifecycleVars(part = "lifecycle" /\ Lifecycle!Restart)
  /\ WF_lifecycleVars(part = "lifecycle" /\ Lifecycle!DelayOver)
  /\ \A c \in Lifecycle!Awaited :
       /\ WF_lifecycleVars(part = "lifecycle" /\ Lifecycle!ReceiveError(c))
       /\ WF_lifecycleVars(part = "lifecycle" /\ Lifecycle!DrainErrors(c))
  /\ WF_lifecycleVars(part = "lifecycle" /\ Lifecycle!RunDefer)
  /\ WF_lifecycleVars(part = "lifecycle" /\ (Lifecycle!HandlersDone \/ Lifecycle!CloseTimesOut))
  /\ WF_lifecycleVars(part = "lifecycle" /\ Lifecycle!MainReturns)
  /\ WF_lifecycleVars(part = "lifecycle" /\ Lifecycle!Flush)
  /\ WF_observationsVars(part = "observations" /\ Observations!CleanerTicks)
  /\ \A c \in {c1, c2} : WF_credentialsVars(part = "credentials" /\ Credentials!CallerStep(c))
  /\ WF_kubernetesVars(part = "kubernetes" /\ Kubernetes!CheckStatus)
  /\ WF_kubernetesVars(part = "kubernetes" /\ Kubernetes!DelayPasses)
  /\ SF_kubernetesVars(part = "kubernetes" /\ Kubernetes!RecheckPod /\ verdict' # "waiting")
  /\ \/ part \notin {"agent", "ecs"}
     \/ /\ SF_dispatchVars(\E w \in {w1, w2} : \/ part = "agent" /\ Agent!CreatedDelivered(w, d1)
                                               \/ part = "ecs" /\ Ecs!CreatedDelivered(w, d1))
        /\ SF_dispatchVars(\E w \in {w1, w2} : \/ part = "agent" /\ Agent!CheckDelivered(w, d1)
                                               \/ part = "ecs" /\ Ecs!CheckDelivered(w, d1))
        /\ \A w \in {w1, w2} : SF_dispatchVars(\/ part = "agent" /\ Agent!FailDeployment(w)
                                               \/ part = "ecs" /\ Ecs!FailDeployment(w))

-----------------------------------------------------------------------------
\* A Deployment executes for ever only if the broker gave up one of its events, its
\* Runner's result was lost or ECS did not list its task when asked; a slot comes
\* back, and at once when no command could be sent; an unschedulable Pod is reported;
\* and every Runner gets its credentials although rotations tear tokens apart; expired
\* findings are cleared, and a run shown as succeeded speaks of the current head
\* (RunnerDispatch, RunnerResults, KubernetesRunner, RunnerCredentials,
\* ObservationRequests).
RunnersServed ==
  /\ [](part = "agent" => Agent!NoSlotLeaked)
  /\ [](part = "ecs" => Ecs!NoSlotLeaked)
  /\ part = "agent" => Agent!EndsUnlessLost
  /\ part = "ecs" => Ecs!EndsUnlessLost
  /\ part = "results" => Results!SlotComesBack
  /\ part = "kubernetes" => Kubernetes!UnscheduledIsReported
  /\ part = "credentials" => Credentials!CredentialsInTheEnd
  /\ [](part = "observations" => Observations!CleanMeansCurrent)
  /\ part = "observations" => Observations!ExpiredIsCleared

\* Handlers find the database or NATS closed only if main had waited for them in
\* vain; the process ends after a signal or a failure although handlers hang and
\* further components fail; and every committed event is published in the end (main,
\* the outbox).
ShutdownOrderly ==
  /\ [](part = "lifecycle" => Lifecycle!ResourcesOutliveHandlers)
  /\ part = "lifecycle" => Lifecycle!ShutdownEnds /\ Lifecycle!CommittedEventsPublished
=============================================================================
