--------------------------- MODULE RunnerTransport --------------------------
(***************************************************************************)
(* What the Runner is told to do: the environment generated for a          *)
(* Deployment, the Runner's configuration merged over it, and the checks   *)
(* that keep an observation read-only whatever that configuration says.    *)
(*                                                                         *)
(* An environment is a sequence of variables; where one occurs twice the   *)
(* last one counts, in Kubernetes and in ECS.                              *)
(***************************************************************************)
EXTENDS Naturals, Sequences, FiniteSets, SequencesExt

CONSTANT Length   \* bound: variables of a container after the template was merged

VARIABLES mode, kind, containers, overrides

vars == <<mode, kind, containers, overrides>>

Modes == {"deploy", "plan_only", "destroy", "rollback", "rollback_plan", "observation"}
Kinds == {"kubernetes", "agent", "ecs"}
Protected == {"MODE", "OBSERVATION_PROTOCOL"}

\* RunnerModeForDeployment: what the Runner image understands.
RunnerModeForDeployment(m) ==
  CASE m \in {"observation", "rollback_plan"} -> "plan_only"
    [] m = "rollback" -> "deploy"
    [] OTHER -> m

\* The part of GenerateEnvVarsForRun that decides what the Runner does.
GenerateEnvVarsForRun(m) ==
  <<[name |-> "MODE", value |-> RunnerModeForDeployment(m), from |-> FALSE]>>
    \o IF m = "observation"
       THEN <<[name |-> "OBSERVATION_PROTOCOL", value |-> "v1", from |-> FALSE]>> ELSE <<>>

Variables == [name : Protected, value : {"plan_only", "deploy", "v1"}, from : {FALSE}]
             \cup [name : Protected, value : {""}, from : {TRUE}]
Environments == UNION {[1..n -> Variables] : n \in 0..Length}

\* Any container a Pod template can produce when it is merged over the generated one.
Main(env) == [name |-> "main", command |-> FALSE, standard |-> TRUE, env |-> env]
Templates(m) ==
  {<<Main(GenerateEnvVarsForRun(m))>>, <<>>}
    \cup {<<[name |-> n, command |-> c, standard |-> s, env |-> e]>> :
            n \in {"main", "other"}, c \in BOOLEAN, s \in BOOLEAN, e \in Environments}
    \cup {<<[name |-> "other", command |-> TRUE, standard |-> FALSE, env |-> e],
            Main(GenerateEnvVarsForRun(m) \o e)>> : e \in Environments}

Init ==
  /\ mode \in Modes /\ kind \in Kinds
  /\ containers \in IF kind = "ecs" THEN {<<Main(GenerateEnvVarsForRun(mode))>>} ELSE Templates(mode)
  /\ overrides \in IF kind = "ecs" THEN Environments ELSE {<<>>}
-----------------------------------------------------------------------------
(***************************************************************************)
(* The checks.                                                             *)
(***************************************************************************)
Expected(name) == IF name = "MODE" THEN "plan_only" ELSE "v1"
Occurrences(env, name) == {i \in DOMAIN env : env[i].name = name}

\* The loop body of validateObservationJobTemplate for the Runner's container.
SafeContainer(c) ==
  /\ ~c.command /\ c.standard
  /\ \A i \in DOMAIN c.env : c.env[i].name \in Protected =>
       ~c.env[i].from /\ c.env[i].value = Expected(c.env[i].name)
  /\ \A name \in Protected : Cardinality(Occurrences(c.env, name)) = 1

validateObservationJobTemplate(cs) ==
  /\ \E i \in DOMAIN cs : cs[i].name = "main"
  /\ \A i \in DOMAIN cs : cs[i].name = "main" => SafeContainer(cs[i])

\* GetJobSpec refuses an observation whose merged template is not safe.
GetJobSpec(m, cs) == m = "observation" => validateObservationJobTemplate(cs)

OverridesModeOnly(m, env) == m = "observation" => Occurrences(env, "OBSERVATION_PROTOCOL") = {}
validateECSObservationEnvironment(m, env) ==
  m = "observation" => \A name \in Protected : Occurrences(env, name) = {}

\* CreateRunner validates before the dispatch budget starts, and Start again.
CreateRunner ==
  IF kind = "ecs" THEN validateECSObservationEnvironment(mode, overrides)
  ELSE GetJobSpec(mode, containers)

\* The Runner's own container as ECS or Kubernetes starts it.
Launched ==
  IF kind = "ecs" THEN {Main(containers[1].env \o overrides)}
  ELSE {containers[i] : i \in {j \in DOMAIN containers : containers[j].name = "main"}}
-----------------------------------------------------------------------------
\* The next Deployment of the Runner, which meanwhile lost its template and overrides.
Next ==
  /\ \E m \in Modes : mode' = m /\ mode' # mode
  /\ containers' = <<Main(GenerateEnvVarsForRun(mode'))>> /\ overrides' = <<>>
  /\ UNCHANGED kind

Spec == Init /\ [][Next]_vars
-----------------------------------------------------------------------------
Effective(env, name) ==
  IF Occurrences(env, name) = {} THEN [value |-> "unset", from |-> FALSE]
  ELSE LET last == CHOOSE i \in Occurrences(env, name) : \A j \in Occurrences(env, name) : j <= i
       IN [value |-> env[last].value, from |-> env[last].from]

\* An observation that CreateRunner accepts runs the standard entry point as a plan
\* under the observation protocol, whatever template or overrides its Runner has.
ObservationReadsOnly ==
  mode = "observation" /\ CreateRunner =>
    /\ Launched # {}
    /\ \A c \in Launched :
         /\ ~c.command /\ c.standard
         /\ Effective(c.env, "MODE") = [value |-> "plan_only", from |-> FALSE]
         /\ Effective(c.env, "OBSERVATION_PROTOCOL") = [value |-> "v1", from |-> FALSE]

IsPlanDeployment(m) == m \in {"plan_only", "rollback_plan", "observation"}

\* A Runner without template and overrides changes infrastructure exactly when the
\* Deployment is not a plan, the case in which its success adopts its resources.
ModeMatchesIntent ==
  Launched = {Main(GenerateEnvVarsForRun(mode))} =>
    \A c \in Launched : Effective(c.env, "MODE").value \in {"deploy", "destroy"} <=> ~IsPlanDeployment(mode)
=============================================================================
