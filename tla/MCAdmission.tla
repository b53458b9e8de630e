------------------------------ MODULE MCAdmission ------------------------------
(***************************************************************************)
(* Admission of Deployments by Core (extended) and the deletion of an      *)
(* Environment. The components share no state here: each behaviour chooses *)
(* one part, and the others stand still.                                   *)
(***************************************************************************)
EXTENDS DeploymentAdmission, TLC

CONSTANTS Parts, x1, x2, y1, y2, z1

VARIABLES part, env, deps, waiting, admission, events, worker, caller, hist

\* Both admissions are for one Environment, or each for its own.
SameEnvironment == [i \in Admissions |-> "e"]
OwnEnvironment == [i \in Admissions |-> i]

\* Two workers handle events beside each other, or one worker may crash.
Destroy == INSTANCE EnvironmentDestroy WITH Workers <- {x1, x2}, Internal <- {FALSE},
    Refuses <- FALSE, MaxDeployments <- 3, MaxRequests <- 1, MaxFaults <- 0, MaxEvents <- 1,
    MaxDeliver <- 2
Alone == INSTANCE EnvironmentDestroy WITH Workers <- {z1}, Internal <- {},
    Refuses <- TRUE, MaxDeployments <- 3, MaxRequests <- 2, MaxFaults <- 1, MaxEvents <- 1,
    MaxDeliver <- 2

Unused == "-"
NoDestroy ==
  /\ env = Unused /\ deps = Unused /\ waiting = Unused /\ admission = Unused
  /\ events = Unused /\ worker = Unused /\ caller = Unused /\ hist = Unused

SuiteInit ==
  /\ part \in Parts
  /\ Init
  /\ IF part = "destroy" THEN Destroy!Init
     ELSE IF part = "alone" THEN Alone!Init ELSE NoDestroy

destroyVars == <<env, deps, waiting, admission, events, worker, caller, hist>>

allVars == <<part, vars, destroyVars>>

\* Where every operation may end, the system may rest.
AtRest == part \in {"admission"} /\ UNCHANGED allVars

\* The chosen component moves, the others stand still.
Move ==
  /\ UNCHANGED part
  /\ IF part = "admission" THEN Next ELSE UNCHANGED vars
  /\ IF part = "destroy" THEN Destroy!Next
     ELSE IF part = "alone" THEN Alone!Next ELSE UNCHANGED destroyVars

SuiteNext == Move \/ AtRest

SuiteSpec == SuiteInit /\ [][SuiteNext]_allVars
AdmissionFairSpec == SuiteSpec /\ Fairness  \* for behaviours that choose admission

\* Attempts and workers are interchangeable, and so are admissions.
Symmetry == Permutations({x1, x2}) \cup Permutations({y1, y2})

-----------------------------------------------------------------------------
\* Rows are deleted without force only when nothing of the Environment was left by a
\* Deployment: the newest one that changes state is a successful destroy, or there is
\* none; also when a caller with an old status created one while the handler was at
\* work, a Runner was never proved to have stopped or a worker crashed. And while events
\* are handled one at a time, no destroy is repeated on its own (EnvironmentDestroy).
DeletesOnlyDestroyed ==
  /\ [][/\ part = "destroy" => Destroy!DeletesOnlyDestroyedStep
        /\ part = "alone" => Alone!DeletesOnlyDestroyedStep]_destroyVars
  /\ [](part = "alone" => Alone!DestroysAreAskedFor)
=============================================================================
