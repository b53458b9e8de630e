--------------------------- MODULE TofuExpressions ---------------------------
(***************************************************************************)
(* convertToTokens and placeholderToTokens (internal/graphs/tofu.go): a    *)
(* string value becomes a literal, a bare expression or an interpolated    *)
(* template.  A string is a sequence of parts: literal text, the escape    *)
(* that stands for the two characters opening a placeholder, and           *)
(* placeholders.  The loop finds every match again by searching the text   *)
(* that follows the previous one.                                          *)
(***************************************************************************)
EXTENDS Naturals, Sequences, SequencesExt

CONSTANTS
  Placeholders,  \* the placeholders values may contain
  TypeOf,        \* their types
  KnownContext,  \* the context placeholders whose key exists
  MaxParts       \* bound: parts of a value

Pieces == {"text", "escape"} \cup Placeholders

VARIABLES
  place,    \* where the value stands: "module", "workload" or "provider"
  value,    \* the value
  subs,     \* the placeholders resolved beforehand
  matches,  \* matches not yet rendered
  lastPos,  \* parts already consumed
  out,      \* the tokens
  pc        \* "start", "loop", "done" or "error"

vars == <<place, value, subs, matches, lastPos, out, pc>>

Supported(where) ==
  CASE where = "module"   -> {"context", "resource", "selector", "self"}
    [] where = "workload" -> {"context", "resource"}
    [] where = "provider" -> {"context", "tfvar", "resource"}

Init ==
  /\ place \in {"module", "workload", "provider"}
  /\ value \in SeqOf(Pieces, MaxParts)
  /\ subs \in SUBSET Placeholders
  /\ matches = <<>> /\ lastPos = 0 /\ out = <<>> /\ pc = "start"

(***************************************************************************)
(* A placeholder is rendered when it was resolved, its type is supported   *)
(* here and, for a context key, the key exists.  No rule renders "self".   *)
(***************************************************************************)
Renders(ph) ==
  /\ ph \in subs
  /\ TypeOf[ph] \in Supported(place)
  /\ TypeOf[ph] \in {"selector", "resource", "tfvar"} \/ (TypeOf[ph] = "context" /\ ph \in KnownContext)

\* Literal text with its escapes undone.
Literal(part) == IF part = "escape" THEN "opening" ELSE part

Literals(from, to) == [i \in 1..(to - from) |-> Literal(value[from + i])]

\* FindAllStringSubmatch: the placeholders in order.
AllMatches == SelectSeq(value, LAMBDA part : part \in Placeholders)

\* No placeholder, nothing but a placeholder, or a template.
Start ==
  /\ pc = "start"
  /\ LET all == AllMatches
     IN CASE all = <<>> -> out' = Literals(0, Len(value)) /\ pc' = "done" /\ UNCHANGED <<matches>>
          [] Len(all) = 1 /\ value = all ->
               /\ out' = IF Renders(all[1]) THEN all ELSE <<>>
               /\ pc' = IF Renders(all[1]) THEN "done" ELSE "error"
               /\ UNCHANGED <<matches>>
          [] OTHER -> matches' = all /\ pc' = "loop" /\ UNCHANGED out
  /\ UNCHANGED <<place, value, subs, lastPos>>

\* strings.Index over the rest of the string.
IndexAfter(ph) ==
  CHOOSE i \in (lastPos + 1)..Len(value) : value[i] = ph /\ \A j \in (lastPos + 1)..(i - 1) : value[j] # ph

\* One match: the literal text before it, then the placeholder.
Match ==
  /\ pc = "loop" /\ matches # <<>>
  /\ LET ph == Head(matches)
         start == IndexAfter(ph)
     IN IF Renders(ph)
        THEN /\ out' = out \o (IF start > lastPos + 1 THEN Literals(lastPos, start - 1) ELSE <<>>) \o <<ph>>
             /\ lastPos' = start /\ matches' = Tail(matches) /\ UNCHANGED pc
        ELSE pc' = "error" /\ UNCHANGED <<out, lastPos, matches>>
  /\ UNCHANGED <<place, value, subs>>

\* What follows the last match.
Close ==
  /\ pc = "loop" /\ matches = <<>>
  /\ out' = out \o (IF lastPos < Len(value) THEN Literals(lastPos, Len(value)) ELSE <<>>)
  /\ pc' = "done"
  /\ UNCHANGED <<place, value, subs, matches, lastPos>>

Done == pc \in {"done", "error"} /\ UNCHANGED vars

Next == Start \/ Match \/ Close \/ Done

Spec == Init /\ [][Next]_vars

-----------------------------------------------------------------------------
\* Every step has rendered exactly the parts it consumed, in order, escapes undone: repeated
\* placeholders are found at their own place and no text is lost or doubled.
RendersEveryPart ==
  /\ pc = "loop" => out = [i \in 1..lastPos |-> Literal(value[i])]
  /\ pc = "done" => out = [i \in 1..Len(value) |-> Literal(value[i])]

\* A finished value contains only placeholders that were resolved and are allowed where it
\* stands; in particular Terraform variables occur in provider configurations only, which is
\* where the program declares them.
NothingUnsupported ==
  pc = "done" => \A i \in DOMAIN out : out[i] \in Placeholders =>
    /\ out[i] \in subs
    /\ TypeOf[out[i]] = "tfvar" => place = "provider"
    /\ TypeOf[out[i]] = "selector" => place = "module"

=============================================================================
