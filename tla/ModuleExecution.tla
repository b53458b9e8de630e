--------------------------- MODULE ModuleExecution ---------------------------
(***************************************************************************)
(* Which module executables a Deployment runs: the catalogue the Control   *)
(* Plane answers with, published Versions and Draft test snapshots a       *)
(* request selects, the test material a stored graph retains, the targets  *)
(* the admission names, and the sources a bundle is rebuilt from later     *)
(* (internal/api/draft_execution_catalogue.go, deployments_core.go,        *)
(* internal/graphs/draft_tests.go, internal/bundles).                      *)
(*                                                                         *)
(* The code distrusts the catalogue, so the model lets one entry of every  *)
(* answer be missing, doubled or wrong.  A refusal leaves nothing behind   *)
(* and is not a step.  Plans compile as deploys do, ask for no admission   *)
(* and are left out.                                                       *)
(***************************************************************************)
EXTENDS Naturals, Sequences, FiniteSets, Functions

CONSTANTS
  Resources,      \* coordinates a manifest may request
  Published,      \* published Module Versions
  Snapshots,      \* immutable Draft test snapshots
  ModuleOf,       \* the Module an executable belongs to
  CapturedIn,     \* the Environment a snapshot was captured for
  Here,           \* the Environment of the model
  Inline,         \* the executables whose sources the Control Plane keeps
  Statuses,       \* lifecycle states of a published Version
  Manifests,      \* the manifests requests carry: sets of resources
  Confirmations,  \* the sets of Versions requests confirm
  WrongRules,     \* the rules a wrong entry may carry
  MaxDeployments, \* bound: Deployments of a behaviour
  None

ModuleAssumption ==
  /\ Published \cap Snapshots = {}
  /\ Published \cup Snapshots \subseteq DOMAIN ModuleOf
  /\ Snapshots \subseteq DOMAIN CapturedIn
  /\ Manifests \subseteq SUBSET Resources /\ Confirmations \subseteq SUBSET Published

VARIABLES
  default,     \* the Version the Control Plane's rules give each resource
  status,      \* the lifecycle state of each published Version
  generation,  \* how often each Module was deleted and created again
  deps,        \* the Environment's state-changing Deployments, oldest first
  bundle       \* the last bundle built: [dep, sources]

executionVars == <<default, status, generation, deps, bundle>>

Executables == Published \cup Snapshots
Modules == {ModuleOf[v] : v \in Executables}

Selections(S) ==
  {f \in UNION {[M -> S] : M \in SUBSET Modules} : \A m \in DOMAIN f : ModuleOf[f[m]] = m}

----------------------------------------------------------------------------
(***************************************************************************)
(* Catalogue entries.  ident stands for the Module and Version UUIDs, the  *)
(* artifact digest and the interface identity; draft is the snapshot an    *)
(* entry claims to be, frozen whether its definition is the captured one.  *)
(***************************************************************************)
Ident(v) == IF v \in Snapshots THEN 0 ELSE generation[ModuleOf[v]]

Entry(v, rules, draft) ==
  [version |-> v, ident |-> Ident(v), rules |-> rules, draft |-> draft,
   status |-> IF v \in Published THEN status[v] ELSE "none"]

Label(v) ==
  IF v \in Snapshots THEN [snapshot |-> v, env |-> CapturedIn[v], frozen |-> TRUE] ELSE None

\* A wrong entry: labels dropped, changed or invented, rules it should not have.
Wrong(v) ==
  {Entry(v, rules, draft) :
     rules \in WrongRules,
     draft \in {None, Label(v)} \cup [snapshot : Snapshots, env : {Here}, frozen : {v \in Published}]}

\* What the Control Plane may answer where the entries asked for are `right` (external).
Answers(right) ==
  {right} \cup {right \ {e} : e \in right}
          \cup {right \cup {[e EXCEPT !.rules = rules]} : e \in right, rules \in WrongRules}
          \cup {{e \in right : e.version # x.version} \cup {x} : x \in UNION {Wrong(v) : v \in Executables}}

\* DraftTestReferenceFromCatalogue: an entry that claims to be a snapshot must be exactly that.
ValidReference(e) ==
  e.draft # None => e.draft.snapshot = e.version /\ e.draft.frozen /\ e.status = "none"

\* The provenance a graph node and an artifact keep.
Reference(e) == IF e.draft = None THEN None ELSE [snapshot |-> e.draft.snapshot, env |-> e.draft.env]

----------------------------------------------------------------------------
(***************************************************************************)
(* Requests: deploy with a manifest, perhaps selecting published Versions  *)
(* or, by the route for module tests, snapshots; rollback to an earlier    *)
(* Deployment; destroy.                                                    *)
(***************************************************************************)
DeployRequests ==
  [mode : {"deploy"}, manifest : Manifests, selected : Selections(Published),
   drafts : Selections(Snapshots), confirmed : Confirmations, target : {0}]

StoredGraphRequests ==
  [mode : {"destroy"}, manifest : {{}}, selected : Selections(Published),
   drafts : {<<>>}, confirmed : Confirmations, target : {0}]
  \cup [mode : {"rollback"}, manifest : {{}}, selected : {<<>>},
        drafts : {<<>>}, confirmed : Confirmations, target : 1..MaxDeployments]

UsesLastGraph(q) == q.mode \in {"destroy", "rollback"}

Base(q) == IF q.mode = "rollback" THEN q.target ELSE Len(deps)

LastGraph(q) == IF Base(q) = 0 THEN <<>> ELSE deps[Base(q)].graph

Succeeded(q) == Base(q) # 0 /\ deps[Base(q)].outcome = "succeeded"

Live(g) == {r \in DOMAIN g : ~g[r].deleted}

ActiveModuleDefinitions(g) == {g[r].version : r \in Live(g)}

\* The test material of a stored graph, deleted nodes included; it must be of this Environment.
RetainedValid(g) ==
  \A r \in DOMAIN g : g[r].draft # None => g[r].draft.env = Here /\ g[r].draft.snapshot = g[r].version

RetainedDraftTestCoordinates(g) == {g[r].draft.snapshot : r \in {x \in DOMAIN g : g[x].draft # None}}

\* The pins of the reference graph, except where the request selects another Version.
SelectedPinnedDefinitions(q) ==
  LET pinned == IF UsesLastGraph(q) THEN {LastGraph(q)[r].version : r \in DOMAIN LastGraph(q)} ELSE {}
  IN {v \in pinned : ModuleOf[v] \notin DOMAIN q.selected} \cup Range(q.selected)

\* The entries a request asks for; rules only where a manifest is compiled.
CompilationCatalogue(q) ==
  LET versions == SelectedPinnedDefinitions(q) \cup RetainedDraftTestCoordinates(LastGraph(q))
                    \cup Range(q.drafts) \cup (IF UsesLastGraph(q) THEN {} ELSE Range(default))
  IN {Entry(v, IF UsesLastGraph(q) THEN {} ELSE {r \in Resources : default[r] = v}, Label(v)) : v \in versions}

----------------------------------------------------------------------------
\* The test entries are the selected and the retained ones, of this Environment, once each.
ValidatesCoordinates(q, answer) ==
  LET tests == {e \in answer : e.draft # None}
      retained == RetainedDraftTestCoordinates(LastGraph(q))
  IN /\ \A e \in answer : ValidReference(e)
     /\ \A e \in tests : /\ e.version \in Range(q.drafts) \cup retained
                         /\ e.draft.env = Here
                         /\ \A f \in tests : f.version = e.version => f = e
     /\ \A v \in Range(q.drafts) : ModuleOf[v] \notin DOMAIN q.selected /\ \E e \in tests : e.version = v

(***************************************************************************)
(* validateCatalogueDraftSelection: every test entry is one the request    *)
(* selected or the graph retains, captured for this Environment, once;     *)
(* retained material has no rules; nothing selected is missing or doubled  *)
(* by a published selection.                                               *)
(***************************************************************************)
ValidateCatalogueDraftSelection(q, answer) ==
  /\ ValidatesCoordinates(q, answer)
  /\ \A e \in answer : e.draft # None /\ e.version \notin Range(q.drafts) => e.rules = {}

(***************************************************************************)
(* AuthorizeModuleVersion: the permissions an entry costs, over and above  *)
(* writing Deployments.  "never" is the refusal of a Defective Version     *)
(* that was not confirmed.                                                 *)
(***************************************************************************)
AuthorizeModuleVersion(q, e) ==
  IF e.draft # None /\ e.version \in Range(q.drafts) THEN {"publish"}
  ELSE IF e.status = "proposed" /\ e.version \in Range(q.selected) THEN {"use_proposed"}
  ELSE IF e.status = "defective"
       THEN IF e.version \notin q.confirmed THEN {"never"}
            ELSE IF q.mode = "rollback" THEN {"rollback_restricted"} ELSE {"pin_defective"}
  ELSE {}

\* Only a request that selects or confirms something is checked here; the Control Plane checks the others.
IsSelective(q) == q.selected # <<>> \/ q.drafts # <<>> \/ q.confirmed # {}

Permissions(q, answer) ==
  IF IsSelective(q) THEN UNION {AuthorizeModuleVersion(q, e) : e \in answer} ELSE {}

Chosen(q) ==
  [m \in DOMAIN q.selected \cup DOMAIN q.drafts |->
     IF m \in DOMAIN q.drafts THEN q.drafts[m] ELSE q.selected[m]]

RulesOf(m, answer) == UNION {e.rules : e \in {x \in answer : ModuleOf[x.version] = m}}

Selectable(q, answer) ==
  \A m \in DOMAIN Chosen(q) : RulesOf(m, answer) # {} /\ \E e \in answer : e.version = Chosen(q)[m]

\* The rules of every Version of a selected Module move to the one selected.
ApplySelectedModuleVersions(q, answer) ==
  {IF ModuleOf[e.version] \notin DOMAIN Chosen(q) THEN e
   ELSE [e EXCEPT !.rules = IF e.version = Chosen(q)[ModuleOf[e.version]]
                            THEN RulesOf(ModuleOf[e.version], answer) ELSE {}] : e \in answer}

(***************************************************************************)
(* AssignModuleDefinitionsToGraphNodes: a node of the reference graph      *)
(* whose executable is in the answer keeps the provenance it was stored    *)
(* with.  A missing executable is not an error yet.                        *)
(***************************************************************************)
AssignModuleDefinitions(g, answer) ==
  \A r \in DOMAIN g : \A e \in answer : e.version = g[r].version => Reference(e) = g[r].draft

Node(e) == [version |-> e.version, draft |-> Reference(e), deleted |-> FALSE]

(***************************************************************************)
(* The graphs a request may compile to: the reference graph itself, or the *)
(* manifest with each resource on an entry whose rules match it (the graph *)
(* library's choice), and what the manifest dropped, flagged deleted.      *)
(***************************************************************************)
NewGraphs(q, entries) ==
  LET last == LastGraph(q)
      dropped == {r \in DOMAIN last \ q.manifest :
                    ~last[r].deleted \/ deps[Base(q)].outcome = "failed"}
  IN IF UsesLastGraph(q) THEN {last}
     ELSE {[r \in q.manifest \cup dropped |->
              IF r \in q.manifest THEN Node(by[r]) ELSE [last[r] EXCEPT !.deleted = TRUE]] :
           by \in {f \in [q.manifest -> entries] : \A r \in q.manifest : r \in f[r].rules}}

\* Every live node has its metadata in the answer, with the provenance the node carries.
MetadataComplete(g, entries) ==
  \A r \in Live(g) :
    /\ \E e \in entries : e.version = g[r].version
    /\ \A e \in entries : e.version = g[r].version => Reference(e) = g[r].draft

ModuleArtifactRequirements(q, g, entries) ==
  {[version |-> e.version, ident |-> e.ident, draft |-> Reference(e),
    confirmed |-> IsSelective(q) /\ e.status = "defective" /\ e.version \in q.confirmed] :
     e \in {x \in entries : x.version \in ActiveModuleDefinitions(g)}}

(***************************************************************************)
(* collectModuleTargets: one Version per Module, and test provenance that  *)
(* names the artifact and this Environment.                                *)
(***************************************************************************)
TargetsConsistent(artifacts) ==
  /\ \A a, b \in artifacts :
       ModuleOf[a.version] = ModuleOf[b.version] /\ a.ident = b.ident => a.version = b.version
  /\ \A a \in artifacts : a.draft # None => a.draft.snapshot = a.version /\ a.draft.env = Here

\* The Versions claimed to be carried forward: those a successful reference left in use.
LifecycleEvidence(q, artifacts) ==
  IF q.mode = "destroy" \/ ~Succeeded(q) THEN {}
  ELSE {a.version : a \in {x \in artifacts : x.version \in ActiveModuleDefinitions(LastGraph(q))}}

\* What the admission asks Core for; a destroy names no Version.
Admission(q, artifacts) ==
  [versions  |-> IF q.mode = "destroy" THEN {} ELSE {<<ModuleOf[a.version], a.ident, a.version>> : a \in artifacts},
   tests     |-> IF q.mode = "destroy" THEN {} ELSE {a.version : a \in {x \in artifacts : x.draft # None}},
   carried   |-> LifecycleEvidence(q, artifacts),
   confirmed |-> IF q.mode = "destroy" THEN {} ELSE {a.version : a \in {x \in artifacts : x.confirmed}}]

----------------------------------------------------------------------------
ExecutionInit ==
  /\ default \in [Resources -> Published] /\ status \in [Published -> Statuses]
  /\ generation = [m \in Modules |-> 0]
  /\ deps = <<>> /\ bundle = None

(***************************************************************************)
(* CreateDeploymentWithOptions, from the reference graph to the stored     *)
(* Deployment, for an actor that holds the permissions the entries cost.   *)
(* The Environment is free: its last Deployment has ended.                 *)
(***************************************************************************)
CreateDeployment ==
  /\ Len(deps) < MaxDeployments
  /\ \A d \in DOMAIN deps : deps[d].outcome # "running"
  /\ \E q \in DeployRequests \cup StoredGraphRequests :
       /\ q.mode = "destroy" => deps # <<>>
       /\ q.mode = "rollback" => q.target \in DOMAIN deps
       /\ RetainedValid(LastGraph(q))
       /\ \E answer \in Answers(CompilationCatalogue(q)) :
            /\ ValidateCatalogueDraftSelection(q, answer)
            /\ "never" \notin Permissions(q, answer)
            /\ Selectable(q, answer)
            /\ AssignModuleDefinitions(LastGraph(q), answer)
            /\ \E g \in NewGraphs(q, ApplySelectedModuleVersions(q, answer)) :
                 /\ MetadataComplete(g, answer)
                 /\ LET artifacts == ModuleArtifactRequirements(q, g, answer) IN
                    /\ TargetsConsistent(artifacts)
                    /\ deps' = Append(deps,
                         [request |-> [q EXCEPT !.target = Base(q)], graph |-> g, artifacts |-> artifacts,
                          admission |-> Admission(q, artifacts),
                          checked |-> Permissions(q, answer),
                          defective |-> {e.version : e \in {x \in answer : x.status = "defective"}},
                          outcome |-> "running"])
  /\ UNCHANGED <<default, status, generation, bundle>>

\* The Deployment ends, as far as this module needs to know.
FinishDeployment(outcome) ==
  /\ deps # <<>> /\ deps[Len(deps)].outcome = "running"
  /\ deps' = [deps EXCEPT ![Len(deps)].outcome = outcome]
  /\ UNCHANGED <<default, status, generation, bundle>>

----------------------------------------------------------------------------
\* The live inline executables of a stored graph, whose sources have to be fetched.
InlineMaterialCoordinates(d) == ActiveModuleDefinitions(deps[d].graph) \cap Inline

\* Mutant: the identity of a rebuilt source is not compared.
AcceptsAnyIdentity(d, answer) == TRUE

\* validateRetainedArtifactIdentities and validateResourceTypeContracts.
RetainedIdentities(d, answer) ==
  \A e \in answer : \A a \in deps[d].artifacts : a.version = e.version => a.ident = e.ident

\* validateRetainedDraftSources: also an entry without artifact must not be a test.
RetainedDraftSources(d, answer) ==
  \A e \in answer :
    /\ ValidReference(e)
    /\ \A a \in deps[d].artifacts : a.version = e.version => a.draft = Reference(e)
    /\ (\A a \in deps[d].artifacts : a.version # e.version) => e.draft = None

\* selectInlineModules: each source once, nothing else.
SelectInlineModules(d, answer) ==
  \A v \in InlineMaterialCoordinates(d) : Cardinality({e \in answer : e.version = v}) = 1

\* bundles.Build, for the dispatch and for every download while the Deployment runs.
BuildBundle ==
  /\ deps # <<>> /\ deps[Len(deps)].outcome = "running"
  /\ LET d == Len(deps)
         asked == {Entry(v, {}, Label(v)) : v \in InlineMaterialCoordinates(d)}
     IN \E answer \in IF asked = {} THEN {{}} ELSE Answers(asked) :
          /\ RetainedIdentities(d, answer)
          /\ RetainedDraftSources(d, answer)
          /\ SelectInlineModules(d, answer)
          /\ bundle' = [dep |-> d,
                        sources |-> {<<e.version, e.ident>> :
                                       e \in {x \in answer : x.version \in InlineMaterialCoordinates(d)}}]
  /\ UNCHANGED <<default, status, generation, deps>>

----------------------------------------------------------------------------
\* The Control Plane, at any time (external).
ChangeDefault ==
  /\ \E r \in Resources, v \in Published : default' = [default EXCEPT ![r] = v]
  /\ UNCHANGED <<status, generation, deps, bundle>>

ChangeStatus ==
  /\ \E v \in Published, s \in Statuses : status' = [status EXCEPT ![v] = s]
  /\ UNCHANGED <<default, generation, deps, bundle>>

RecreateModule ==
  /\ \E m \in Modules : generation[m] = 0 /\ generation' = [generation EXCEPT ![m] = 1]
  /\ UNCHANGED <<default, status, deps, bundle>>

ExecutionNext ==
  \/ CreateDeployment
  \/ FinishDeployment("succeeded") \/ FinishDeployment("failed")
  \/ BuildBundle
  \/ ChangeDefault \/ ChangeStatus \/ RecreateModule

ExecutionSpec == ExecutionInit /\ [][ExecutionNext]_executionVars

----------------------------------------------------------------------------
(***************************************************************************)
(* Test material runs only where a request selected it with the authority  *)
(* to publish, or where a rollback or destroy takes a graph that has it;   *)
(* an ordinary deploy after a test leaves the test behind.                 *)
(***************************************************************************)
TestsWereSelected ==
  \A d \in DOMAIN deps : \A r \in Live(deps[d].graph) :
    LET node == deps[d].graph[r]
        q == deps[d].request
    IN node.draft # None =>
         /\ node.draft.env = Here
         /\ IF UsesLastGraph(q) THEN deps[q.target].graph[r] = node
            ELSE node.version \in Range(q.drafts) /\ "publish" \in deps[d].checked

(***************************************************************************)
(* A request that selects a Version or a snapshot of a Module gets exactly *)
(* that one on every resource of the Module, whatever the rules say.       *)
(***************************************************************************)
SelectionIsExact ==
  \A d \in DOMAIN deps : \A r \in Live(deps[d].graph) :
    LET q == deps[d].request
        v == deps[d].graph[r].version
    IN q.mode = "deploy" /\ ModuleOf[v] \in DOMAIN Chosen(q) => v = Chosen(q)[ModuleOf[v]]

(***************************************************************************)
(* Test provenance is not lost: an executable the reference graph holds as *)
(* a test is not run as a published Version by the next Deployment.        *)
(***************************************************************************)
ProvenanceKept ==
  \A d \in DOMAIN deps : \A r \in Live(deps[d].graph) :
    deps[d].request.target # 0 =>
      \A s \in DOMAIN deps[deps[d].request.target].graph :
        LET before == deps[deps[d].request.target].graph[s]
            now == deps[d].graph[r]
        IN before.version = now.version => before.draft = now.draft

(***************************************************************************)
(* The admission names exactly what the graph runs: one Version for each   *)
(* Module, and the tests among them.                                       *)
(***************************************************************************)
AdmissionNamesWhatRuns ==
  \A d \in DOMAIN deps : deps[d].request.mode # "destroy" =>
    LET g == deps[d].graph
        admitted == deps[d].admission
    IN /\ {t[3] : t \in admitted.versions} = ActiveModuleDefinitions(g)
       /\ \A t, u \in admitted.versions : <<t[1], t[2]>> = <<u[1], u[2]>> => t = u
       /\ admitted.tests = {g[r].version : r \in {x \in Live(g) : g[x].draft # None}}

(***************************************************************************)
(* A request that selects or confirms anything runs no Version it was told *)
(* is Defective without having confirmed it and held the permission its    *)
(* mode asks for.                                                          *)
(***************************************************************************)
RestrictedConfirmed ==
  \A d \in DOMAIN deps :
    LET q == deps[d].request
        risky == ActiveModuleDefinitions(deps[d].graph) \cap deps[d].defective
    IN IsSelective(q) /\ risky # {} =>
         /\ risky \subseteq q.confirmed
         /\ (IF q.mode = "rollback" THEN "rollback_restricted" ELSE "pin_defective") \in deps[d].checked
         /\ q.mode # "destroy" => deps[d].admission.confirmed = risky

(***************************************************************************)
(* A Version is only claimed to be carried forward when a Deployment that  *)
(* succeeded runs it.                                                      *)
(***************************************************************************)
EvidenceIsEarned ==
  \A d \in DOMAIN deps : \A v \in deps[d].admission.carried :
    \E b \in 1..(d - 1) : deps[b].outcome = "succeeded" /\ v \in ActiveModuleDefinitions(deps[b].graph)

(***************************************************************************)
(* A bundle holds the sources the Deployment was compiled from, whatever   *)
(* became of the Modules, Defaults and Drafts since.                       *)
(***************************************************************************)
BundleIsWhatWasCompiled ==
  bundle # None =>
    bundle.sources = {<<a.version, a.ident>> : a \in {x \in deps[bundle.dep].artifacts : x.version \in Inline}}

(***************************************************************************)
(* What runs is what was selected, admitted and compiled, from the request *)
(* (CreateDeploymentWithOptions) to the last download of its bundle        *)
(* (bundles.Build).                                                        *)
(***************************************************************************)
RunsWhatWasAsked ==
  /\ TestsWereSelected /\ SelectionIsExact /\ ProvenanceKept
  /\ AdmissionNamesWhatRuns /\ RestrictedConfirmed /\ EvidenceIsEarned
  /\ BundleIsWhatWasCompiled
=============================================================================
