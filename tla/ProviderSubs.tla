---------------------------- MODULE ProviderSubs ----------------------------
(***************************************************************************)
(* A stored graph keeps the substitutions of its modules' providers as one *)
(* opaque value.  Today's code writes a versioned list in a fixed order,   *)
(* graphs of older releases hold a map in the order Go happened to iterate *)
(* it, some of them with the type names of the library's former name.      *)
(*                                                                         *)
(* The state is one module configuration as it is stored, and what the     *)
(* replicas hold of it: each reads it, and writes what it has read.        *)
(***************************************************************************)
EXTENDS Naturals, Sequences, FiniteSets, TLC

CONSTANTS
  Refs,      \* local references of providers, ordered
  Keys,      \* keys of substitutions, ordered
  Kinds,     \* kinds of placeholders
  Replicas,
  Nil        \* no map, nothing stored

SubsAssumption == Refs \subseteq Nat /\ Keys \subseteq Nat

VARIABLES
  meaning,  \* what the graph was compiled to
  stored,   \* the value in the database
  graph     \* per replica: what it holds, Nil before it has read

vars == <<meaning, stored, graph>>

\* A value carries the type name it was written under; today's is "current".
Values == [kind : Kinds, type : {"current"}]
MapOf(K, V) == UNION {[ks -> V] : ks \in SUBSET K}
Maps == MapOf(Refs, MapOf(Keys, Values))

\* The orders in which Go may iterate a map.
Orders(m) == {o \in [1 .. Cardinality(DOMAIN m) -> DOMAIN m] : \A k \in DOMAIN m : \E i \in DOMAIN o : o[i] = k}
-----------------------------------------------------------------------------
\* slices.Sorted(maps.Keys(...))
Sorted(order) == SortSeq(order, <)

encodeProviderSubsMap(m, refOrder, keyOrder) ==
  [version |-> 1,
   entries |-> [i \in DOMAIN Sorted(refOrder) |->
     LET ref == Sorted(refOrder)[i] keys == Sorted(keyOrder[ref]) IN
     [ref |-> ref, subs |-> [j \in DOMAIN keys |-> [key |-> keys[j], value |-> m[ref][keys[j]]]]]]]

\* The former types become today's.
normalizeProviderSub(value) == [value EXCEPT !.type = "current"]
normalizeProviderSubsMap(m) ==
  [r \in DOMAIN m |-> [k \in DOMAIN m[r] |-> normalizeProviderSub(m[r][k])]]

ReadEntries(entries) ==
  LET Entry(r) == CHOOSE e \in {entries[i] : i \in DOMAIN entries} : e.ref = r
      Sub(r, k) == CHOOSE s \in {Entry(r).subs[j] : j \in DOMAIN Entry(r).subs} : s.key = k
  IN [r \in {entries[i].ref : i \in DOMAIN entries} |->
       [k \in {Entry(r).subs[j].key : j \in DOMAIN Entry(r).subs} |-> Sub(r, k).value]]

\* The canonical form first; what is not of that form is the bare map.
decodeProviderSubsMap(value) ==
  normalizeProviderSubsMap(IF value.version = 1 THEN ReadEntries(value.entries) ELSE value.bare)

\* A map that is not there is left out, and is not there when it is read.
MarshalJSON(m, refOrder, keyOrder) == IF m = Nil THEN Nil ELSE encodeProviderSubsMap(m, refOrder, keyOrder)
UnmarshalJSON(value) == IF value = Nil THEN Nil ELSE decodeProviderSubsMap(value)
-----------------------------------------------------------------------------
\* The older releases: the map itself, under either type name.
Legacy(m) ==
  {[version |-> 0, bare |-> [r \in DOMAIN m |-> [k \in DOMAIN m[r] |-> [m[r][k] EXCEPT !.type = t]]]] :
     t \in {"current", "former"}}

Init ==
  /\ meaning \in Maps \cup {Nil}
  /\ stored \in IF meaning = Nil THEN {Nil} ELSE Legacy(meaning)
  /\ graph = [r \in Replicas |-> [has |-> FALSE, subs |-> Nil]]

Read(r) ==
  /\ graph' = [graph EXCEPT ![r] = [has |-> TRUE, subs |-> UnmarshalJSON(stored)]]
  /\ UNCHANGED <<meaning, stored>>

\* The configuration is stored again, by a redeployment of the graph.
Write(r) ==
  LET m == graph[r].subs IN
  /\ graph[r].has
  /\ IF m = Nil THEN stored' = Nil
     ELSE \E refOrder \in Orders(m) : \E keyOrder \in [DOMAIN m -> UNION {Orders(m[k]) : k \in DOMAIN m}] :
            /\ \A k \in DOMAIN m : keyOrder[k] \in Orders(m[k])
            /\ stored' = MarshalJSON(m, refOrder, keyOrder)
  /\ UNCHANGED <<meaning, graph>>

Next == \E r \in Replicas : Read(r) \/ Write(r)
Spec == Init /\ [][Next]_vars
-----------------------------------------------------------------------------
\* Reading and writing a graph, an old one too, keeps its substitutions and
\* leaves none of the former types (MarshalJSON, UnmarshalJSON).
SubstitutionsKept == \A r \in Replicas : graph[r].has => graph[r].subs = meaning

\* A graph that was once written in the canonical form is stored as the same
\* bytes by every replica from then on, so that fingerprints of it agree
\* (encodeProviderSubsMap orders what Go iterates at random).
CanonicalBytesStep ==
  stored # Nil /\ stored.version = 1 => stored' = stored
CanonicalBytes == [][CanonicalBytesStep]_vars
=============================================================================
