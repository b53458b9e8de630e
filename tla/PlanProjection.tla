--------------------------- MODULE PlanProjection ---------------------------
(***************************************************************************)
(* A stored plan holds its complete manifest, graph and diff.  A plugin is *)
(* shown a projection without values and a fingerprint of the whole;       *)
(* admission compiles the plan again and compares fingerprints.            *)
(*                                                                         *)
(* The state is one captured plan, and a step changes one part of it.      *)
(* SHA-256 is taken to tell inputs apart; every chunk is prefixed with its *)
(* length, so a tuple of chunks stands for the hash.                       *)
(***************************************************************************)
EXTENDS Naturals

CONSTANTS
  Keys,      \* names of params and outputs
  Values,    \* their values, secret ones too
  Versions,  \* Module versions
  Bases,     \* Deployments a plan may start from
  Resources  \* names of resources, in the manifest and in the graph

VARIABLE capture  \* DeploymentPlanCapture

MapOf(K, V) == UNION {[ks -> V] : ks \in SUBSET K}
Params == MapOf(Keys, Values)
Node == [params : Params, version : Versions]

Captures ==
  [base : Bases, shared : MapOf(Resources, Params), outputs : Params,
   resources : MapOf(Resources, Params), nodes : MapOf(Resources, Node),
   diff : SUBSET Resources]

-----------------------------------------------------------------------------
\* sortedMapKeys: all that is left of a map of values
sortedMapKeys(values) == DOMAIN values

projectManifestResources(rs) == [r \in DOMAIN rs |-> sortedMapKeys(rs[r])]

projectModuleInventory(nodes) == {<<n, nodes[n].version>> : n \in DOMAIN nodes}

projectManifest(c) ==
  [shared    |-> projectManifestResources(c.shared),
   outputs   |-> sortedMapKeys(c.outputs),
   resources |-> projectManifestResources(c.resources)]

projectGraph(c) == [n \in DOMAIN c.nodes |-> sortedMapKeys(c.nodes[n].params)]

\* The diff is shown as it is: it names the resources that change.
projectPlanCapture(c) ==
  [manifest |-> projectManifest(c), graph |-> projectGraph(c),
   modules |-> projectModuleInventory(c.nodes), diff |-> c.diff]

externalPlanResponse(c) == [base |-> c.base, shown |-> projectPlanCapture(c)]

deploymentPlanFingerprint(c) ==
  <<c.base, <<c.shared, c.outputs, c.resources>>, c.nodes, c.diff, projectModuleInventory(c.nodes)>>

Init == capture \in {c \in Captures : c.diff \subseteq DOMAIN c.nodes}

Change(part, x) == capture' = [capture EXCEPT ![part] = x]

Next ==
  \/ \E x \in MapOf(Resources, Params), part \in {"shared", "resources"} : Change(part, x)
  \/ \E x \in Params : Change("outputs", x)
  \/ \E x \in MapOf(Resources, Node) : Change("nodes", x)
  \/ \E b \in Bases : Change("base", b)

vars == capture
Spec == Init /\ [][Next]_vars

-----------------------------------------------------------------------------
(* Properties                                                              *)

SameKeys(f, g) == DOMAIN f = DOMAIN g
SameStructure(c, d) ==
  /\ c.base = d.base /\ c.diff = d.diff
  /\ SameKeys(c.outputs, d.outputs)
  /\ \A part \in {"shared", "resources"} :
       SameKeys(c[part], d[part]) /\ \A r \in DOMAIN c[part] : SameKeys(c[part][r], d[part][r])
  /\ SameKeys(c.nodes, d.nodes)
  /\ \A n \in DOMAIN c.nodes : /\ SameKeys(c.nodes[n].params, d.nodes[n].params)
                               /\ c.nodes[n].version = d.nodes[n].version

\* The plugin is shown the same answer whatever the values in the plan are, and a
\* different one when a name, a version or the base differs: the projection is
\* value-free and otherwise complete (projectPlanCapture, externalPlanResponse).
ValueFreeStep ==
  SameStructure(capture, capture') <=>
    externalPlanResponse(capture') = externalPlanResponse(capture)
ValueFree == [][ValueFreeStep]_vars

\* A change of anything in the plan, of a value the plugin is not shown too, changes
\* the fingerprint that admission compares (deploymentPlanFingerprint).
FingerprintExactStep ==
  deploymentPlanFingerprint(capture') # deploymentPlanFingerprint(capture)
FingerprintExact == [][FingerprintExactStep]_vars
=============================================================================
