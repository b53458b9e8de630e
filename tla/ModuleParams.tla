----------------------------- MODULE ModuleParams -----------------------------
(***************************************************************************)
(* validateModuleParamInner (internal/graphs/graphs.go): the parameters of *)
(* a node against the declarations of its module.  Go visits both maps in  *)
(* any order and stops at the first complaint; each step visits one entry. *)
(* A parameter is the kind of JSON value it holds; "expression" is a       *)
(* string that is one placeholder, "nil" an explicit null.                 *)
(***************************************************************************)
EXTENDS FiniteSets

CONSTANTS
  Keys,      \* parameter names
  Types      \* declared types

Kinds == {"nil", "number", "bool", "list", "map", "string", "expression"}

Absent == "absent"

VARIABLES
  declared,  \* key -> [type, optional], of type Absent when not declared
  given,     \* key -> Absent or a kind
  visited,   \* declared keys already checked
  verdict    \* "checking", "accepted", or the complaint

vars == <<declared, given, visited, verdict>>

Declarations == [type : Types, optional : BOOLEAN] \cup {[type |-> Absent, optional |-> TRUE]}

IsDeclared(k) == declared[k].type # Absent

Init ==
  /\ declared \in [Keys -> Declarations]
  /\ given \in [Keys -> Kinds \cup {Absent}]
  /\ visited = {} /\ verdict = "checking"

\* A key that is not there reads as nil.
IsNil(kind) == kind \in {Absent, "nil"}

\* doesModuleParamTypeMatch; an expression is a string to it.
DoesModuleParamTypeMatch(type, kind) ==
  \/ type = "any"
  \/ type \in {"number", "bool", "list", "map"} /\ kind = type
  \/ type = "string" /\ kind \in {"string", "expression"}

(***************************************************************************)
(* The escape for expressions asks for a value that is not a string and    *)
(* starts like a placeholder: no value is both, so it is never taken.      *)
(***************************************************************************)
SkipsTypeCheck(kind) == kind \notin {"string", "expression"} /\ kind = "expression"

Missing(k) == ~declared[k].optional /\ IsNil(given[k])

\* Mutant: list and map declarations accept each other.
MistypedLoosely(k) ==
  /\ ~IsNil(given[k]) /\ ~SkipsTypeCheck(given[k])
  /\ ~(\/ DoesModuleParamTypeMatch(declared[k].type, given[k])
       \/ declared[k].type = "list" /\ given[k] = "map")

Mistyped(k) ==
  /\ ~IsNil(given[k])
  /\ ~SkipsTypeCheck(given[k])
  /\ ~DoesModuleParamTypeMatch(declared[k].type, given[k])

\* The first loop: declared parameters, in any order.
CheckDeclared(k) ==
  /\ verdict = "checking" /\ IsDeclared(k) /\ k \notin visited
  /\ visited' = visited \cup {k}
  /\ verdict' = IF Missing(k) THEN "missing" ELSE IF Mistyped(k) THEN "mistyped" ELSE "checking"
  /\ UNCHANGED <<declared, given>>

\* The second loop, once every declaration was checked: given parameters nobody declared.
CheckUndeclared ==
  /\ verdict = "checking" /\ \A k \in Keys : IsDeclared(k) => k \in visited
  /\ verdict' = IF \E k \in Keys : given[k] # Absent /\ ~IsDeclared(k) THEN "undeclared" ELSE "accepted"
  /\ UNCHANGED <<declared, given, visited>>

Done == verdict # "checking" /\ UNCHANGED vars

Next == (\E k \in Keys : CheckDeclared(k)) \/ CheckUndeclared \/ Done

Spec == Init /\ [][Next]_vars

-----------------------------------------------------------------------------
\* What a declared parameter may hold, stated without reference to the loops.
Admissible(k) ==
  IF ~IsDeclared(k) THEN given[k] = Absent
  ELSE IF IsNil(given[k]) THEN declared[k].optional
  ELSE declared[k].type = "any" \/ given[k] = declared[k].type
         \/ (declared[k].type = "string" /\ given[k] = "expression")

\* Whatever the order of the maps, a node is accepted exactly when every parameter is admissible
\* by itself: no early return hides a complaint and none is invented.
AcceptedIffAdmissible ==
  verdict # "checking" => (verdict = "accepted" <=> \A k \in Keys : Admissible(k))

\* graphs.go: an expression could produce any type, so it is not validated further.
ExpressionsPass ==
  \A k \in Keys : verdict = "mistyped" /\ IsDeclared(k) /\ Mistyped(k) => given[k] # "expression"

=============================================================================
