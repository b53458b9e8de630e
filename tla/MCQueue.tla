------------------------------ MODULE MCQueue ------------------------------
(***************************************************************************)
(* Instances of EnvironmentQueue for TLC.  A behaviour follows one         *)
(* scenario: it decides who acts and what is asked for, and the invariants *)
(* are those of the whole Environment.                                     *)
(***************************************************************************)
EXTENDS EnvironmentQueueProperties, TLC

CONSTANTS
  Scenarios,                 \* the scenarios of the run
  p1, p2, q1, r1, r2, s1     \* model values: promoters p and q, callers r and s

VARIABLE scenario

Deploy(whenBusy, halt, expectBase) ==
  [mode |-> "deploy", plugin |-> FALSE, whenBusy |-> whenBusy, halt |-> halt, expectBase |-> expectBase]
Plain(mode) == [NoIntent EXCEPT !.mode = mode]

\* Two promoters race over requests that wait.
QueueIntents == {Deploy("queue", TRUE, FALSE), Plain("plan_only")}
Queue == INSTANCE EnvironmentQueue WITH
  Promoters <- {p1, p2}, Requesters <- {s1}, Intents <- QueueIntents, Observing <- FALSE,
  Unproven <- FALSE

\* Callers race with each other and with the queue, then with a deletion.
CallerIntents == {Deploy("queue", FALSE, TRUE)}
Callers == INSTANCE EnvironmentQueue WITH
  Promoters <- {q1}, Requesters <- {r1, r2}, Intents <- CallerIntents, Observing <- FALSE,
  Unproven <- FALSE, MaxDepth <- 1

DeletionIntents == CallerIntents \cup {Plain("destroy")}
Deletion == INSTANCE EnvironmentQueue WITH
  Promoters <- {q1}, Requesters <- {s1}, Intents <- DeletionIntents, Observing <- FALSE,
  Unproven <- FALSE, MaxDepth <- 1

\* Plugin operations and observations fence what follows them.
FenceIntents == {Deploy("queue", FALSE, FALSE), [Plain("rollback") EXCEPT !.plugin = TRUE]}
Fence == INSTANCE EnvironmentQueue WITH
  Promoters <- {q1}, Requesters <- {s1}, Intents <- FenceIntents, Observing <- TRUE,
  Unproven <- TRUE, MaxDepth <- 1

\* Two promoters and a caller whose requests all wait: the scenario that takes its actors and
\* bounds from the run.
WaitingIntents == {Deploy("queue", FALSE, FALSE)}

AllIntents == QueueIntents \cup DeletionIntents \cup FenceIntents

\* Bound: the requests that may wait, all told, where the race is not over the queue.
FewItems == 1
\* Bound: Deployments and requests that ever waited, together, where everything else may happen.
MaxWork == 3

ScenarioInit == Init /\ scenario \in Scenarios

ScenarioNext ==
  /\ UNCHANGED scenario
  /\ CASE scenario = "queue" -> Queue!Next
       [] scenario = "callers" -> Callers!Next /\ enqueued' <= FewItems
       [] scenario = "deletion" -> Deletion!Next /\ enqueued' <= FewItems
       [] scenario = "waiting" -> Next
       [] scenario = "fence" -> Fence!Next /\ created' + enqueued' <= MaxWork

ScenarioSpec == ScenarioInit /\ [][ScenarioNext]_<<vars, scenario>>

\* The fairness of EnvironmentQueue, for the scenario that is the whole instance.
ScenarioFairSpec == ScenarioSpec /\ Fairness

Symmetry == Permutations({p1, p2}) \cup Permutations({r1, r2})
=============================================================================
