------------------------------ MODULE MCGraphs ------------------------------
(***************************************************************************)
(* What a Deployment is compiled to and the credentials its Runner is      *)
(* reached with: Runner credentials, the graphs and programs of an         *)
(* Environment and its active resources (both extended), module            *)
(* parameters, expressions, provider substitutions and the projection of   *)
(* plans. The components share no state here: each behaviour chooses one   *)
(* part, and the others stand still.                                       *)
(***************************************************************************)
EXTENDS RunnerCredentials, ActiveResources, TLC

CONSTANTS Parts, k1, k2, v1, v2, Nil

VARIABLES part, declared, given, visited, verdict,
    place, value, subs, matches, lastPos, out, textPc, meaning, stored, graph, capture

\* A database whose module may depend on a network, two versions of the database's
\* module (the newer one drops the dependency and uses another provider), and a
\* provider that reads the network's outputs.
DatabaseNeedsNetwork == [m \in Modules |-> IF m = "db1" THEN {"net"} ELSE {}]
DynamicReadsNetwork == [p \in Providers |-> IF p = "dynamic" THEN {"net"} ELSE {}]
TypeNames == [p \in Providers |-> IF p = "plain" THEN <<"aws", "cc">> ELSE <<"aws">>]
IdNames == [p \in Providers |-> IF p = "plain" THEN <<"prod">> ELSE <<"main">>]
EitherDatabase == {[r \in Resources |-> IF r = "net" THEN "net1" ELSE v] : v \in {"db1", "db2"}}
OneProvider == [m \in Modules |-> {"static"}]
OwnProvider ==
  [m \in Modules |->
    CASE m = "db1" -> {"dynamic"} [] m = "db2" -> {"static"} [] OTHER -> {"plain"}]

\* One placeholder of each type and a context key that does not exist.
Placeholders == {"context", "unknown", "resource", "selector", "tfvar"}
TypeOf == [p \in Placeholders |-> IF p = "unknown" THEN "context" ELSE p]

\* The same Environment with one provider for all its modules and without rollbacks.
Shared == INSTANCE ActiveResources WITH ProviderOf <- OneProvider,
    Modes <- {"deploy", "destroy", "plan_only"}
Params == INSTANCE ModuleParams WITH Keys <- {"size", "tags"},
    Types <- {"number", "bool", "list", "map", "string", "any"}
Expressions == INSTANCE TofuExpressions WITH KnownContext <- {"context"}, MaxParts <- 3,
    pc <- textPc
Substitutions == INSTANCE ProviderSubs WITH Refs <- {1, 2}, Keys <- {1, 2},
    Kinds <- {"context", "resource"}, Replicas <- {1, 2}
Projection == INSTANCE PlanProjection WITH Keys <- {k1, k2}, Values <- {v1, v2},
    Versions <- {1, 2}, Bases <- {1, 2}, Resources <- {"r"}

ASSUME ResourcesAssumption
ASSUME HashesDistinguish
ASSUME Substitutions!SubsAssumption

Unused == "-"
NoActiveResources ==
  /\ rules = Unused /\ deps = <<>> /\ state = 0 /\ nodes = <<>> /\ edges = <<>>
  /\ infra = {}
NoParams ==
  /\ declared = Unused /\ given = Unused /\ visited = Unused /\ verdict = Unused
NoExpressions ==
  /\ place = Unused /\ value = Unused /\ subs = Unused /\ matches = Unused
  /\ lastPos = Unused /\ out = Unused /\ textPc = Unused
NoSubstitutions ==
  /\ meaning = Unused /\ stored = Unused /\ graph = Unused
NoProjection ==
  /\ capture = Unused

SuiteInit ==
  /\ part \in Parts
  /\ Init
  /\ CASE part = "programs" -> ResourcesInit
       [] part = "resources" -> Shared!ResourcesInit
       [] OTHER -> NoActiveResources
  /\ IF part = "params" THEN Params!Init ELSE NoParams
  /\ IF part = "expressions" THEN Expressions!Init ELSE NoExpressions
  /\ IF part = "providers" THEN Substitutions!Init ELSE NoSubstitutions
  /\ IF part = "projection" THEN Projection!Init ELSE NoProjection

paramsVars == <<declared, given, visited, verdict>>
expressionsVars == <<place, value, subs, matches, lastPos, out, textPc>>
substitutionsVars == <<meaning, stored, graph>>
projectionVars == <<capture>>

allVars == <<part, vars, resourcesVars, paramsVars, expressionsVars, substitutionsVars,
    projectionVars>>

\* The chosen component moves, the others stand still.
SuiteNext ==
  /\ UNCHANGED part
  /\ IF part = "credentials" THEN Next ELSE UNCHANGED vars
  /\ CASE part = "programs" -> ResourcesNext
       [] part = "resources" -> Shared!ResourcesNext
       [] OTHER -> UNCHANGED resourcesVars
  /\ IF part = "params" THEN Params!Next ELSE UNCHANGED paramsVars
  /\ IF part = "expressions" THEN Expressions!Next ELSE UNCHANGED expressionsVars
  /\ IF part = "providers" THEN Substitutions!Next ELSE UNCHANGED substitutionsVars
  /\ IF part = "projection" THEN Projection!Next ELSE UNCHANGED projectionVars

SuiteSpec == SuiteInit /\ [][SuiteNext]_allVars

-----------------------------------------------------------------------------
\* The conversions on the way to a program lose and invent nothing: parameters are
\* accepted exactly when each is admissible, expressions render every part in order
\* and contain only what their place allows, substitutions survive storage in one
\* canonical form, and a plan's projection shows no value while its fingerprint
\* distinguishes them (ModuleParams, TofuExpressions, ProviderSubs, PlanProjection).
ConversionsFaithful ==
  /\ [](part = "params" => Params!AcceptedIffAdmissible)
  /\ [](part = "expressions" => Expressions!RendersEveryPart /\ Expressions!NothingUnsupported)
  /\ [](part = "providers" => Substitutions!SubstitutionsKept)
  /\ [][part = "providers" => Substitutions!CanonicalBytesStep]_substitutionsVars
  /\ [][part = "projection" =>
         /\ Projection!ValueFreeStep /\ Projection!FingerprintExactStep]_projectionVars
=============================================================================
