------------------------------ MODULE MCRequests ------------------------------
(***************************************************************************)
(* Callers of the API that race with each other and with the system: calls *)
(* that create Deployments and calls that wait for a completion (both      *)
(* extended), and rollbacks of external operations. The components share   *)
(* no state here: each behaviour chooses one part, and the others stand    *)
(* still.                                                                  *)
(***************************************************************************)
EXTENDS DeploymentRequests, CompletionHooks, TLC

CONSTANTS Parts, k1, k2, m1, m2, x1, x2, x3, y1, y2, z1, None

VARIABLES part, created, dep, stateHead, catalogue, plan, operationsReceipt, anchor, material,
    grant, absent, caller

Body == [key |-> k1, mode |-> "deploy", planOnly |-> "unset", manifest |-> m1, target |-> 0,
         versions |-> {}, malformed |-> FALSE, halt |-> FALSE, whenBusy |-> "queue",
         ttl |-> "unset", dryRun |-> FALSE]

\* Deploys of two manifests and both ways to wait, a plan and a request without key.
KeyedBodies ==
  {Body, [Body EXCEPT !.manifest = m2], [Body EXCEPT !.whenBusy = "reject"],
   [Body EXCEPT !.mode = "plan_only"], [Body EXCEPT !.key = NoKey, !.manifest = m2]}

\* Every combination of fields.
AllBodies ==
  [key : {NoKey}, mode : {"deploy", "plan_only", "rollback", "destroy"},
   planOnly : {"unset", "true", "false"}, manifest : {NoManifest, m1}, target : {0, 1},
   versions : {{}, {m1}}, malformed : BOOLEAN, halt : BOOLEAN, whenBusy : {"queue", "reject"},
   ttl : {"unset", "allowed", "above maximum"}, dryRun : BOOLEAN]

SomeBodies == KeyedBodies \cup AllBodies

Rollback == INSTANCE ExternalOperations WITH Callers <- {z1}, Dispatches <- {x1, x2, x3},
    Revocable <- {}, Operations <- {"a"}, Legacy <- "l", LegacyHistories <- {"none"},
    Plans <- {y1, y2}, MaxDeployments <- 4, MaxCatalogue <- 1, receipt <- operationsReceipt
History == INSTANCE ExternalOperations WITH Callers <- {z1}, Dispatches <- {y1, y2},
    Revocable <- {}, Operations <- {"a"}, Legacy <- "l",
    LegacyHistories <- {"one", "two", "rolledback"}, Plans <- {k1, k2}, MaxDeployments <- 4,
    MaxCatalogue <- 1, receipt <- operationsReceipt

ASSUME RequestsAssumption
ASSUME HooksAssumption

Unused == "-"
NoOperations ==
  /\ created = Unused /\ dep = Unused /\ stateHead = Unused /\ catalogue = Unused
  /\ plan = Unused /\ operationsReceipt = Unused /\ anchor = Unused /\ material = Unused
  /\ grant = Unused /\ absent = Unused /\ caller = Unused

SuiteInit ==
  /\ part \in Parts
  /\ req \in CASE part = "requests" -> [Calls -> KeyedBodies]
              [] part = "fields" -> {[c \in Calls |-> q] : q \in AllBodies}
              [] OTHER -> {[c \in Calls |-> Body]}
  /\ Init
  /\ CASE part = "rollback" -> Rollback!Init
       [] part = "legacy" -> History!Init
       [] OTHER -> NoOperations
  /\ HooksInit

operationsVars == <<created, dep, stateHead, catalogue, plan, operationsReceipt, anchor,
    material, grant, absent, caller>>

allVars == <<part, vars, operationsVars, hooksVars>>

\* Where every operation may end, the system may rest.
AtRest == part \in {"fields", "rollback", "legacy"} /\ UNCHANGED allVars

\* For what becomes of the fields of a request, one call is enough.
OneCalls == \E c \in Calls : \A other \in Calls \ {c} : call'[other].pc = "idle"

\* The chosen component moves, the others stand still.
Move ==
  /\ UNCHANGED part
  /\ CASE part = "requests" -> Next
       [] part = "fields" -> Next /\ OneCalls
       [] OTHER -> UNCHANGED vars
  /\ CASE part = "rollback" -> Rollback!Next
       [] part = "legacy" -> History!Next
       [] OTHER -> UNCHANGED operationsVars
  /\ IF part = "waiting" THEN HooksNext ELSE UNCHANGED hooksVars

SuiteNext == Move \/ AtRest

SuiteSpec == SuiteInit /\ [][SuiteNext]_allVars

\* Calls and dispatches are interchangeable, and so are plans.
Symmetry == Permutations({x1, x2, x3}) \cup Permutations({y1, y2})

-----------------------------------------------------------------------------
\* A rollback of an external operation restores the base its first forward Deployment
\* captured, replaces only a head of its own operation, and passes the check its own
\* status read makes of the provenance, legacy operations included; what a status
\* read has answered for an ended Deployment stays true (ExternalOperations).
RollbackLineage ==
  /\ [](part = "rollback" => Rollback!RollsBackToFirstBase /\ Rollback!AdmittedRollbackVerifies)
  /\ [](part = "legacy" => History!RollsBackToFirstBase /\ History!AdmittedRollbackVerifies)
  /\ [][part = "rollback" => Rollback!RollbackReplacesOwnHeadStep]_operationsVars
  /\ [][part = "legacy" => History!ReportStableStep]_operationsVars
=============================================================================
