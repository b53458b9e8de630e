--------------------------- MODULE ActiveResources ---------------------------
(***************************************************************************)
(* The deployments of one Environment and the tables of its active         *)
(* resources (internal/model/active_resources.go), with the resources that *)
(* may really exist behind them.  Creating a deployment compiles a graph   *)
(* and stamps its nodes; a successful result discards the nodes that no    *)
(* longer carry the deployment's stamp.                                    *)
(***************************************************************************)
EXTENDS ResourceGraph

CONSTANTS
  Modes,           \* the modes requests use
  Rules,           \* the rule sets the Control Plane may have: functions Resources -> Modules
  MaxDeployments   \* bound: deployments of a behaviour

ResourcesAssumption ==
  /\ GraphAssumption
  /\ Rules \subseteq [Resources -> Modules]
  /\ Modes \subseteq {"deploy", "destroy", "plan_only", "rollback", "rollback_plan"}

VARIABLES
  rules,   \* the Control Plane's current rules
  deps,    \* the Environment's deployments, in order of creation
  state,   \* last_state_deployment_id (0: none)
  nodes,   \* resource_nodes: coordinate -> [dep, module, meta]
  edges,   \* resource_nodes_depends_on: <<subject, target>> -> deployment
  infra    \* the resources that may exist, each with the provider variants that manage it

resourcesVars == <<rules, deps, state, nodes, edges, infra>>

IsPlan(mode) == mode \in {"plan_only", "rollback_plan"}

IsRollback(mode) == mode \in {"rollback", "rollback_plan"}

Graph(d) == deps[d].graph

ResourcesInit ==
  /\ rules \in Rules
  /\ deps = <<>> /\ state = 0
  /\ nodes = <<>> /\ edges = <<>> /\ infra = {}

(***************************************************************************)
(* InitActiveResourcesFromGraph: upsert the live nodes (metadata stays) and *)
(* their edges, then detach stamped nodes from edges of older deployments. *)
(***************************************************************************)
StampNodes(d, g) ==
  [c \in DOMAIN nodes \cup Live(g) |->
    IF c \in Live(g)
    THEN [dep |-> d, module |-> g.nodes[c].module,
          meta |-> IF c \in DOMAIN nodes THEN nodes[c].meta ELSE 0]
    ELSE nodes[c]]

StampEdges(d, g) ==
  LET fresh == {e \in Live(g) \X (DOMAIN g.nodes) : e[2] \in g.edges[e[1]]}
  IN [e \in DOMAIN edges \cup fresh |-> IF e \in fresh THEN d ELSE edges[e]]

DetachOld(d, stamped, all) ==
  LET kept == {e \in DOMAIN all : stamped[e[1]].dep = d => all[e] = d} IN Restrict(all, kept)

\* The graph whose nodes a new deployment stamps: none for a plan_only, the empty one for a destroy.
Stamps(mode) == mode # "plan_only"

StampedGraph(mode, g) == IF mode = "destroy" THEN EmptyGraph ELSE g

\* The deployment a new one starts from: the rollback target or the state head (0: none).
Reference(mode, target) == IF IsRollback(mode) THEN target ELSE state

\* Destroy and rollback compile the reference's own graph.
UsesLastGraph(mode) == mode = "destroy" \/ IsRollback(mode)

(***************************************************************************)
(* The definitions the Control Plane returns (external): those its rules   *)
(* select, the pinned ones the request names, and perhaps the ones the     *)
(* request reports as active, which it does after a success only.          *)
(***************************************************************************)
Catalogue(mode, last, succeeded, withActive) ==
  {rules[c] : c \in Resources}
    \cup (IF UsesLastGraph(mode) THEN FindPinnedDefinitions(last) ELSE {})
    \cup (IF succeeded /\ withActive THEN ActiveModuleDefinitions(last) ELSE {})

\* A plan becomes the state head only when the Environment has none.
StateHead(mode, d) == IF IsPlan(mode) /\ state # 0 THEN state ELSE d

(***************************************************************************)
(* CreateDeployment: nothing starts while the last deployment executes,    *)
(* and nothing is created when the compilation fails.                      *)
(***************************************************************************)
Create(mode, requested, target, withActive) ==
  LET reference == Reference(mode, target)
      last == IF reference = 0 THEN EmptyGraph ELSE Graph(reference)
      HasStatus(status) == reference # 0 /\ deps[reference].status = status
      g == NewGraph(UsesLastGraph(mode), last, HasStatus("failed"), requested, rules)
      d == Len(deps) + 1
      stamped == StampNodes(d, StampedGraph(mode, g))
  IN /\ Len(deps) < MaxDeployments
     /\ deps # <<>> => deps[Len(deps)].status # "executing"
     /\ UsesLastGraph(mode) => reference # 0 /\ requested = {}
     /\ Compiles(g, Catalogue(mode, last, HasStatus("succeeded"), withActive))
     /\ deps' = Append(deps, [mode |-> mode, status |-> "executing", graph |-> g, base |-> reference,
                              tofu |-> BuildTofuFromGraph(g), diff |-> DiffGraphs(last, g)])
     /\ state' = StateHead(mode, d)
     /\ IF Stamps(mode)
        THEN /\ nodes' = stamped
             /\ edges' = DetachOld(d, stamped, StampEdges(d, StampedGraph(mode, g)))
        ELSE UNCHANGED <<nodes, edges>>
     /\ UNCHANGED <<rules, infra>>

(***************************************************************************)
(* What the Runner did to the infrastructure (external): a successful run  *)
(* leaves exactly what its program describes, a failed one any mixture of  *)
(* what there was and what it was creating.                                *)
(***************************************************************************)
Described(d) ==
  IF deps[d].mode = "destroy" THEN {}
  ELSE {<<c, deps[d].tofu.uses[c]>> : c \in deps[d].tofu.modules}

Applied(d, ok) ==
  IF IsPlan(deps[d].mode) THEN {infra}
  ELSE IF ok THEN {Described(d)}
  ELSE SUBSET (infra \cup Described(d))

\* Mutant: nothing is discarded.
KeepsOld(d, table) == table

\* DiscardOldActiveResources: edges go with the nodes they join.
DiscardOld(d, table) == Restrict(table, {c \in DOMAIN table : table[c].dep = d})

Cascade(kept) == Restrict(edges, {e \in DOMAIN edges : e[1] \in kept /\ e[2] \in kept})

Discards(mode, ok) == ~IsPlan(mode) /\ ok

\* BulkUpdateActiveResources: metadata of the nodes that still carry the deployment's stamp.
Describe(d, table, reported) ==
  [c \in DOMAIN table |->
    IF c \in reported /\ table[c].dep = d THEN [table[c] EXCEPT !.meta = d] ELSE table[c]]

\* The result of the executing deployment, with the metadata its modules reported.
Complete(ok, reported) ==
  LET d == Len(deps)
      kept == IF Discards(deps[d].mode, ok) THEN DiscardOld(d, nodes) ELSE nodes
  IN /\ deps # <<>> /\ deps[d].status = "executing"
     /\ reported \subseteq deps[d].tofu.modules
     /\ deps' = [deps EXCEPT ![d].status = IF ok THEN "succeeded" ELSE "failed"]
     /\ nodes' = Describe(d, kept, reported)
     /\ edges' = Cascade(DOMAIN kept)
     /\ infra' \in Applied(d, ok)
     /\ UNCHANGED <<rules, state>>

\* The Control Plane's rules change (external).
SetRules(new) == rules # new /\ rules' = new /\ UNCHANGED <<deps, state, nodes, edges, infra>>

ResourcesNext ==
  \/ \E mode \in Modes, requested \in SUBSET Resources, withActive \in BOOLEAN :
       ~IsRollback(mode) /\ Create(mode, requested, 0, withActive)
  \/ \E mode \in Modes, target \in 1..Len(deps), withActive \in BOOLEAN :
       IsRollback(mode) /\ Create(mode, {}, target, withActive)
  \/ \E ok \in BOOLEAN, reported \in SUBSET Resources : Complete(ok, reported)
  \/ \E new \in Rules : SetRules(new)

ResourcesSpec == ResourcesInit /\ [][ResourcesNext]_resourcesVars

-----------------------------------------------------------------------------
(***************************************************************************)
(* What the API answers.                                                   *)
(***************************************************************************)

\* GetActiveResources: each node's dependencies are the edges that carry its own stamp.
ActiveEdges(c) == {e[2] : e \in {x \in DOMAIN edges : x[1] = c /\ edges[x] = nodes[c].dep}}

\* ListActiveResourceNodes: what the API answers for an Environment that has a state head.
ListActiveResourceNodes ==
  IF state = 0 THEN {}
  ELSE {[id |-> c, deployment |-> nodes[c].dep, module |-> nodes[c].module, edges |-> ActiveEdges(c)] :
          c \in DOMAIN nodes}

\* ListModuleVersionUsage: the module versions of the nodes the state head stamped.
ListModuleVersionUsage ==
  {nodes[c].module : c \in {x \in DOMAIN nodes : state # 0 /\ nodes[x].dep = state}} \ {NoModule}

\* InternalCheckModuleUsage: whether the Environment uses a module version.
CheckModuleUsage(m) == m \in ListModuleVersionUsage

\* ResolveNodes, which lists a deployment's own resource graph.
ListDeploymentResourceNodes(d) == Live(Graph(d))

\* CalculateDeploymentDiff without from_deployment_id: from the deployment that last changed the
\* Environment before this one.
CalculateDeploymentDiff(d) ==
  LET earlier == {e \in 1..(d - 1) : ~IsPlan(deps[e].mode)}
      before == IF earlier = {} THEN EmptyGraph
                ELSE Graph(CHOOSE e \in earlier : \A x \in earlier : x <= e)
  IN DiffGraphs(before, Graph(d))

-----------------------------------------------------------------------------
(***************************************************************************)
(* Properties.                                                             *)
(***************************************************************************)

Provisions(d) == IF deps[d].mode = "destroy" THEN {} ELSE ListDeploymentResourceNodes(d)

\* When the state head succeeded and changed the Environment, the active resources are exactly
\* the nodes it provisions, each stamped by it: nothing of an earlier deployment survives
\* a successful result, nothing of the head is lost to a plan or a discard.
ActiveMatchesHead ==
  state # 0 /\ deps[state].status = "succeeded" /\ ~IsPlan(deps[state].mode)
    => /\ DOMAIN nodes = Provisions(state)
       /\ \A c \in DOMAIN nodes : nodes[c].dep = state /\ nodes[c].module = Graph(state).nodes[c].module

\* A failed deployment forgets no resource: every node of the last successful deployment is
\* still listed while a later deployment executes or after it failed.
FailureForgetsNothing ==
  \A d \in 1..Len(deps) :
    (/\ deps[d].status = "succeeded" /\ ~IsPlan(deps[d].mode)
     /\ \A e \in d+1..Len(deps) : deps[e].status # "succeeded")
      => Provisions(d) \subseteq DOMAIN nodes

\* In the table, a node stamped by the newest stamping deployment never depends on a node that
\* deployment is removing (the detaching delete at the end of InitActiveResourcesFromGraph).
NewNeverPointsToOld ==
  \A e \in DOMAIN edges : nodes[e[1]].dep = state => nodes[e[2]].dep = state /\ edges[e] = state

\* A plan leaves the active resources as they are, when it is created and when its result
\* arrives with metadata.
PlanLeavesResourcesStep ==
  \A d \in 1..Len(deps') :
    /\ deps'[d].mode = "plan_only"
    /\ d > Len(deps) \/ deps[d].status # deps'[d].status
    => UNCHANGED <<nodes, edges>>
PlanLeavesResources == [][PlanLeavesResourcesStep]_resourcesVars

\* As long as nothing was rolled back, the program of a deployment that changes the Environment
\* knows every resource that may exist: as a module, or as a node it keeps for its providers.
NothingForgotten ==
  \A d \in 1..Len(deps) :
    (/\ d = Len(deps) /\ ~IsPlan(deps[d].mode) /\ deps[d].status = "executing"
     /\ \A e \in 1..d : ~IsRollback(deps[e].mode))
      => \A r \in infra : r[1] \in DOMAIN Graph(d).nodes

\* Programs are closed: the dependencies of every module block and the resources every provider
\* configuration reads have a module block in the same program.
ProgramClosed ==
  \A d \in 1..Len(deps) :
    /\ \A c \in deps[d].tofu.modules : deps[d].tofu.dependsOn[c] \subseteq deps[d].tofu.modules
    /\ deps[d].tofu.reads \subseteq deps[d].tofu.modules

\* Every provider a module block is given is configured in the same program: two providers share
\* a configuration only when they are the same provider with the same substitutions.
ProvidersConfigured ==
  \A d \in 1..Len(deps) : \A c \in deps[d].tofu.modules :
    deps[d].tofu.uses[c] \subseteq deps[d].tofu.providers

\* Between graphs without leftovers the diff is exact: it adds what becomes alive and
\* removes what was.
DiffExact ==
  \A d \in 1..Len(deps) :
    LET b == deps[d].base
        before == IF b = 0 THEN EmptyGraph ELSE Graph(b)
    IN Live(before) = DOMAIN before.nodes
         => /\ deps[d].diff.added = Live(Graph(d)) \ Live(before)
            /\ deps[d].diff.removed = Live(before) \ Live(Graph(d))

\* Generated programs are closed under dependencies, configure every provider they
\* use - two providers share a configuration only if they are the same -, and the
\* diff of two graphs adds and removes exactly what changes (BuildTofuFromGraph,
\* CalculateDeploymentDiff).
ProgramSound == ProgramClosed /\ ProvidersConfigured /\ DiffExact

\* No resource that may exist is forgotten: the active resources of a successful head
\* are exactly its nodes, a failure or a plan drops none, new nodes never depend on
\* nodes being removed, and the next program still knows every one
\* (InitActiveResourcesFromGraph, DiscardOldActiveResources, AddDeletedNodes).
ResourcesRemembered ==
  /\ [](ActiveMatchesHead /\ FailureForgetsNothing /\ NewNeverPointsToOld /\ NothingForgotten)
  /\ PlanLeavesResources

(***************************************************************************)
(* Claims of comments and of the API that the code does not meet.          *)
(***************************************************************************)

\* active_resources.go: the listing never shows edges between new and old nodes.
ListedEdgesDisjoint ==
  \A n \in ListActiveResourceNodes : \A t \in n.edges : nodes[t].dep = n.deployment

\* The usage check names every module of the successful deployment the Environment runs.
UsageFollowsHead ==
  state # 0 /\ deps[state].status = "succeeded" /\ ~IsPlan(deps[state].mode)
    => \A c \in Provisions(state) \ {Workload} : CheckModuleUsage(Graph(state).nodes[c].module)

\* The diff of two deployments counts the resources the later one adds and removes.
DiffCountsResources ==
  \A d \in 2..Len(deps) :
    /\ CalculateDeploymentDiff(d).added = Provisions(d) \ Provisions(d - 1)
    /\ CalculateDeploymentDiff(d).removed = Provisions(d - 1) \ Provisions(d)

=============================================================================
