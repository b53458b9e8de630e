------------------------------ MODULE MCObservations ------------------------------
(***************************************************************************)
(* What plugins ask for: observations and redeploys (extended), the        *)
(* dispatch fence of external operations, and the planning and readiness   *)
(* of Environments. The components share no state here: each behaviour     *)
(* chooses one part, and the others stand still.                           *)
(***************************************************************************)
EXTENDS ObservationRequests, TLC

CONSTANTS Parts, o1, r1, q1, e1, x1, x2, y1, y2

VARIABLES part, created, dep, stateHead, catalogue, plan, operationsReceipt, anchor, material,
    grant, absent, operationsCaller, core, inspectionCatalogue, signed, env, plans,
    inspectionCaller, inspectionAnswers, readiness

ObservedRun == [q \in Redeploys |-> o1]

Operations == INSTANCE ExternalOperations WITH Legacy <- "l", Operations <- {"a"},
    Callers <- {x1, x2}, Dispatches <- {y1, y2}, Revocable <- {y1, y2},
    LegacyHistories <- {"none"}, Plans <- {q1}, MaxDeployments <- 3, MaxCatalogue <- 2,
    receipt <- operationsReceipt, caller <- operationsCaller
Planning == INSTANCE ExternalInspection WITH Envs <- {e1}, Planners <- {x1, x2}, Readers <- {},
    Requests <- {q1}, Actors <- {y1, y2}, Selections <- {1}, Modes <- {"deploy", "observation"},
    MaxDeployments <- 2, MaxIdentity <- 2, MaxCatalogue <- 2, catalogue <- inspectionCatalogue,
    caller <- inspectionCaller, answers <- inspectionAnswers
Readiness == INSTANCE ExternalInspection WITH Envs <- {y1, y2}, Planners <- {}, Readers <- {r1},
    Requests <- {}, Actors <- {}, Selections <- {1}, Modes <- {"deploy", "observation"},
    MaxDeployments <- 2, MaxIdentity <- 2, MaxCatalogue <- 1, catalogue <- inspectionCatalogue,
    caller <- inspectionCaller, answers <- inspectionAnswers

Unused == "-"
NoOperations ==
  /\ created = Unused /\ dep = Unused /\ stateHead = Unused /\ catalogue = Unused
  /\ plan = Unused /\ operationsReceipt = Unused /\ anchor = Unused /\ material = Unused
  /\ grant = Unused /\ absent = Unused /\ operationsCaller = Unused
NoInspection ==
  /\ core = Unused /\ inspectionCatalogue = Unused /\ signed = Unused /\ env = Unused
  /\ plans = Unused /\ inspectionCaller = Unused /\ inspectionAnswers = Unused
  /\ readiness = Unused

SuiteInit ==
  /\ part \in Parts
  /\ Init
  /\ part # "observations" => headState = "succeeded"
  /\ IF part = "operations" THEN Operations!Init ELSE NoOperations
  /\ CASE part = "planning" -> Planning!Init
       [] part = "readiness" -> Readiness!Init
       [] OTHER -> NoInspection

operationsVars == <<created, dep, stateHead, catalogue, plan, operationsReceipt, anchor,
    material, grant, absent, operationsCaller>>
inspectionVars == <<core, inspectionCatalogue, signed, env, plans, inspectionCaller,
    inspectionAnswers, readiness>>

allVars == <<part, vars, operationsVars, inspectionVars>>

\* Where every operation may end, the system may rest.
AtRest == part \in {"observations", "operations", "planning"} /\ UNCHANGED allVars

\* The chosen component moves, the others stand still.
Move ==
  /\ UNCHANGED part
  /\ IF part = "observations" THEN Next ELSE UNCHANGED vars
  /\ IF part = "operations" THEN Operations!Next ELSE UNCHANGED operationsVars
  /\ CASE part = "planning" -> Planning!Next
       [] part = "readiness" -> Readiness!Next
       [] OTHER -> UNCHANGED inspectionVars

SuiteNext == Move \/ AtRest

SuiteSpec == SuiteInit /\ [][SuiteNext]_allVars

\* Concurrent calls are interchangeable, and so are contents, dispatches, actors and
\* Environments among themselves.
Symmetry == Permutations({x1, x2}) \cup Permutations({y1, y2})

\* Bound: contexts Core signs.
AtMostTwoSigned == part = "planning" => Cardinality(signed) <= 2

-----------------------------------------------------------------------------
\* What a plugin is told stays true: a revoked dispatch reported absent never gets a
\* Deployment; material stays readable for its operation; whoever is answered under
\* one planning request gets the same plan, signed by Core for that actor and body,
\* of the Environment identity it asked for and of an idle Environment; and "ready"
\* is said of idle Environments only (ExternalOperations, ExternalInspection).
ExternalAnswersTrue ==
  /\ [](part = "operations" => Operations!AbsenceIsFinal /\ Operations!MaterialStaysReadable)
  /\ [](part = "planning" =>
         /\ Planning!OneAnswerPerRequest /\ Planning!PlansAreSigned /\ Planning!PlanOfIdentity
         /\ Planning!PlanOfIdleState)
  /\ [](part = "readiness" => Readiness!ReadinessOfIdentity)
  /\ [][part = "readiness" => Readiness!ReadyIsIdleStep]_inspectionVars
=============================================================================
