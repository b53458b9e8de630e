---------------------------- MODULE ResourceGraph ----------------------------
(***************************************************************************)
(* How the data plane turns a manifest into a resource graph and the graph *)
(* into a Terraform program (internal/graphs, and the compilation part of  *)
(* internal/api/deployments_core.go).                                      *)
(*                                                                         *)
(* A graph maps resource coordinates to nodes.  A node names the module    *)
(* version that provisions it (NoModule for the workload) and whether it   *)
(* only stays in the graph because a deployment removes it.  The graph     *)
(* library's expansion and the Control Plane's catalogue are external and  *)
(* modelled by what the code relies on.  Parameters, artifacts and the     *)
(* text of the program are left out; a program is its set of provider      *)
(* configurations, its module blocks and what each of them refers to.      *)
(***************************************************************************)
EXTENDS Naturals, FiniteSets, Sequences, Functions

CONSTANTS
  Resources,   \* coordinates of resources
  Workload,    \* the coordinate of the workload
  Modules,     \* module versions
  NoModule,    \* the workload's missing module configuration
  Providers,   \* configured providers
  ProviderType, ProviderId,  \* their names, as sequences of words
  DependsOn,   \* DependsOn[m]: the coordinates a module declares as dependencies
  ProviderOf,  \* ProviderOf[m]: the providers a module maps
  RefersTo     \* RefersTo[p]: the coordinates whose outputs p's configuration reads

GraphAssumption ==
  /\ Workload \notin Resources /\ NoModule \notin Modules
  /\ DependsOn \in [Modules -> SUBSET Resources]
  /\ ProviderOf \in [Modules -> SUBSET Providers]
  /\ RefersTo \in [Providers -> SUBSET Resources]
  /\ DOMAIN ProviderType = Providers /\ DOMAIN ProviderId = Providers

Coordinates == Resources \cup {Workload}

EmptyGraph == [nodes |-> <<>>, edges |-> <<>>]

Live(g) == {c \in DOMAIN g.nodes : ~g.nodes[c].deleted}

(***************************************************************************)
(* BuildGraph, with the graph library's expansion of the manifest: the     *)
(* requested resources and, transitively, what their modules depend on,    *)
(* each provisioned by the module its rule selects.  An empty manifest     *)
(* gives the empty graph.                                                  *)
(***************************************************************************)
BuildGraph(requested, rules) ==
  LET Closed(S) == requested \subseteq S /\ \A c \in S : DependsOn[rules[c]] \subseteq S
      expanded == {c \in Resources : \A S \in SUBSET Resources : Closed(S) => c \in S}
      all == expanded \cup {Workload}
  IN IF requested = {} THEN EmptyGraph
     ELSE [nodes |-> [c \in all |->
                       [module |-> IF c = Workload THEN NoModule ELSE rules[c], deleted |-> FALSE]],
           edges |-> [c \in all |-> IF c = Workload THEN requested ELSE DependsOn[rules[c]]]]

\* The module versions a stored graph pins, deleted nodes included.
FindPinnedDefinitions(g) == {g.nodes[c].module : c \in DOMAIN g.nodes} \ {NoModule}

\* The versions a successful reference deployment left in use.
ActiveModuleDefinitions(g) == {g.nodes[c].module : c \in Live(g)} \ {NoModule}

(***************************************************************************)
(* A node can only be compiled when the catalogue returned its definition: *)
(* assigned to the nodes of the last graph, indexed for the new ones.      *)
(***************************************************************************)
HasDefinition(g, c, catalogue) == c = Workload \/ g.nodes[c].module \in catalogue

(***************************************************************************)
(* Nodes of the last graph that the new one dropped stay, flagged deleted, *)
(* so that the providers that can remove them remain configured.  Those    *)
(* already flagged stay only when the last deployment may not have         *)
(* converged.                                                              *)
(***************************************************************************)
AddDeletedNodes(new, last, includeDeleted) ==
  LET dropped == {c \in DOMAIN last.nodes \ DOMAIN new.nodes :
                    /\ last.nodes[c].module # NoModule
                    /\ ~last.nodes[c].deleted \/ includeDeleted}
  IN [nodes |-> [c \in DOMAIN new.nodes \cup dropped |->
                  IF c \in dropped THEN [last.nodes[c] EXCEPT !.deleted = TRUE] ELSE new.nodes[c]],
      edges |-> [c \in DOMAIN new.nodes \cup dropped |->
                  IF c \in dropped THEN last.edges[c] ELSE new.edges[c]]]

\* Mutant: a substitution may resolve to a deleted node.
ResolvesToAnyNode(g, c, p) ==
  \A t \in RefersTo[p] : t \in g.edges[c] /\ t \in DOMAIN g.nodes

(***************************************************************************)
(* A provider whose configuration reads another resource must find it      *)
(* among the dependencies of the node that uses the provider, and that     *)
(* resource must not be on its way out.  The check covers deleted nodes.   *)
(***************************************************************************)
ResolvesSubstitutions(g, c, p) ==
  \A t \in RefersTo[p] : t \in g.edges[c] /\ t \in Live(g)

AddProviderMapping(g) ==
  \A c \in DOMAIN g.nodes \ {Workload} : \A p \in ProviderOf[g.nodes[c].module] :
    ResolvesSubstitutions(g, c, p)

(***************************************************************************)
(* The hash of a provider variant: its type and id, written one after the  *)
(* other, and the coordinates its configuration was resolved to.  The name *)
(* a program gives the variant keeps type and id apart.                    *)
(***************************************************************************)
HashUniqueProviderConfiguration(p) == <<ProviderType[p] \o ProviderId[p], RefersTo[p]>>

LocalProviderName(p) == <<ProviderType[p], ProviderId[p], HashUniqueProviderConfiguration(p)>>

\* No type and id run together into those of another provider: the hash has no separator.
HashesDistinguish ==
  \A p, q \in Providers :
    HashUniqueProviderConfiguration(p) = HashUniqueProviderConfiguration(q)
      => LocalProviderName(p) = LocalProviderName(q)

(***************************************************************************)
(* The Terraform program: one provider configuration per variant hash that *)
(* some node uses, deleted nodes included; module blocks for live nodes.   *)
(***************************************************************************)
BuildTofuFromGraph(g) ==
  LET resources == DOMAIN g.nodes \ {Workload}
      live == resources \cap Live(g)
      used == UNION {ProviderOf[g.nodes[c].module] : c \in resources}
      configured == {CHOOSE p \in used : HashUniqueProviderConfiguration(p) = h :
                       h \in {HashUniqueProviderConfiguration(p) : p \in used}}
  IN [providers |-> {LocalProviderName(p) : p \in configured},
      reads     |-> UNION {RefersTo[p] : p \in configured},
      modules   |-> live,
      uses      |-> [c \in live |-> {LocalProviderName(p) : p \in ProviderOf[g.nodes[c].module]}],
      dependsOn |-> [c \in live |-> g.edges[c] \cup UNION {RefersTo[p] : p \in ProviderOf[g.nodes[c].module]}]]

(***************************************************************************)
(* The difference shown to users: nodes of the new graph that the old one  *)
(* does not have, nodes of the old one that the new one does not keep      *)
(* alive, and nodes whose module changed.                                  *)
(***************************************************************************)
DiffGraphs(before, after) ==
  [added   |-> Live(after) \ DOMAIN before.nodes,
   removed |-> DOMAIN before.nodes \ Live(after),
   changed |-> {c \in Live(after) \cap DOMAIN before.nodes :
                  before.nodes[c].module # after.nodes[c].module}]

(***************************************************************************)
(* The compilation of one request against its reference graph: rollback    *)
(* and destroy take the reference graph as it is, everything else expands  *)
(* the manifest and keeps what it dropped.                                 *)
(***************************************************************************)
NewGraph(useLastGraph, last, mayNotHaveConverged, requested, rules) ==
  IF useLastGraph THEN last
  ELSE AddDeletedNodes(BuildGraph(requested, rules), last, mayNotHaveConverged)

\* The errors that leave nothing behind: a node without its definition, an unresolved provider.
Compiles(g, catalogue) ==
  /\ \A c \in DOMAIN g.nodes : HasDefinition(g, c, catalogue)
  /\ AddProviderMapping(g)

=============================================================================
