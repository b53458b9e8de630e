------------------------- MODULE ObservationRequests -------------------------
(***************************************************************************)
(* The plugin requests of one Environment: observations and the redeploys  *)
(* that follow from them, their replay, their resolution by the Control    *)
(* Plane after an ambiguous delivery, and the retention of results.        *)
(*                                                                         *)
(* A call is split where it leaves the database.  A redeploy asks Core     *)
(* while its transaction holds the request's and the Environment's lock.   *)
(* A call may die at any point: its transaction is rolled back, and the    *)
(* answer of a committed one may be lost.                                  *)
(*                                                                         *)
(* Operators that no action uses are seeded faults: PROJECT.json names the *)
(* definition each one replaces and the property that then fails.          *)
(***************************************************************************)
EXTENDS Naturals, FiniteSets

CONSTANTS
  Observations,  \* observation request ids
  Redeploys,     \* redeploy request ids
  RunOf,         \* the observation whose run a redeploy refers to
  Contents,      \* request bodies and actors, as their digests tell them apart
  Callers,       \* concurrent calls, on any replica
  MaxHead,       \* bound on successful or failed mutations of the Environment
  BatchSize,     \* expired results cleared per pass
  Nobody         \* no request, no caller, no value

Requests == Observations \cup Redeploys
Receipts == [content : Contents, disposition : {"accepted", "skipped"}, baseline : Nat \cup {Nobody}]

ASSUME ObservationAssumption ==
  /\ Observations \cap Redeploys = {} /\ RunOf \in [Redeploys -> Observations]
  /\ MaxHead \in Nat /\ BatchSize \in Nat \ {0}
  /\ Nobody \notin Requests \cup Callers \cup Contents \cup Receipts /\ "env" \notin Requests

VARIABLES
  receipt,   \* per request: Nobody, or its immutable receipt
  seal,      \* per request: Nobody, or the content it was sealed with
  closed,    \* observations whose admission deadline has passed
  run,       \* per request: none, executing, succeeded, failed
  result,    \* per observation: none, kept, expired, cleared
  slots,     \* observations that hold a Runner slot
  head,      \* the current mutating Deployment, counted
  headState, \* executing, succeeded, failed, unsuitable (as a baseline)
  admission, \* Core's admission of a redeploy: none, granted, bound, absent
  locks,     \* advisory locks held by transactions in progress
  caller,    \* per call: step, request and content
  answers    \* what callers were told

envVars == <<run, result, slots, head, headState>>
vars == <<receipt, seal, closed, envVars, admission, locks, caller, answers>>

Idle == [pc |-> "idle", q |-> Nobody, content |-> Nobody, base |-> 0]

Init ==
  /\ receipt = [q \in Requests |-> Nobody] /\ seal = [q \in Requests |-> Nobody]
  /\ closed = {}
  /\ run = [q \in Requests |-> "none"] /\ result = [q \in Observations |-> "none"]
  /\ slots = {}
  /\ head = 0 /\ headState \in {"succeeded", "unsuitable"}
  /\ admission = [q \in Redeploys |-> "none"]
  /\ locks = {}
  /\ caller = [c \in Callers |-> Idle]
  /\ answers = {}

\* Two transactions never hold the same lock; a lock is the request's id or "env".
Free(l) == \A k \in locks : k[1] # l
Hold(c, ls) == locks' = locks \cup {<<l, c>> : l \in ls}
Drop(c) == locks' = {k \in locks : k[2] # c}

Goto(c, pc) == caller' = [caller EXCEPT ![c].pc = pc]
Fail(c) == caller' = [caller EXCEPT ![c] = Idle] /\ UNCHANGED answers
Answer(c, what) ==
  IF what \in {"sealed", "conflict"} THEN Fail(c)
  ELSE /\ caller' = [caller EXCEPT ![c] = Idle]
       /\ answers' = answers \cup {[q |-> caller[c].q, what |-> what]}

\* The request's lock is taken, and given up with the transaction, in one step.
Arbitrated(c) == Free(caller[c].q)

\* RequireObservationRequestUnsealed, then the receipt under the same identity.
Refusal(q, content) ==
  IF seal[q] # Nobody THEN IF seal[q] = content THEN "sealed" ELSE "conflict"
  ELSE IF receipt[q] # Nobody THEN IF receipt[q].content = content THEN receipt[q].disposition ELSE "conflict"
  ELSE "missing"

Executing == \E q \in Requests : run[q] = "executing"
EnvironmentBusy == headState = "executing" \/ Executing
\* A failed observation may still own its state lock.
ObservationHeld == \E q \in slots : run[q] = "failed"
-----------------------------------------------------------------------------
(***************************************************************************)
(* HandleObservationStart.                                                 *)
(***************************************************************************)
\* A strict, signed body whose request id is its Idempotency-Key; any other call
\* is refused before it reads or changes anything.
Enter(c, q, content, pc) ==
  /\ caller[c] = Idle
  /\ caller' = [caller EXCEPT ![c] = [pc |-> pc, q |-> q, content |-> content, base |-> 0]]
  /\ UNCHANGED <<receipt, seal, closed, envVars, admission, locks, answers>>

HandleObservationStart(c, q, content) == q \in Observations /\ Enter(c, q, content, "replay")
HandleObservationRedeploy(c, q, content) == q \in Redeploys /\ Enter(c, q, content, "check")
HandleObservationRequestResolve(c, q, content) == q \in Observations /\ Enter(c, q, content, "resolve")
HandleObservationRedeployResolve(c, q, content) == q \in Redeploys /\ Enter(c, q, content, "resolve")

Call(c, q, content) ==
  \/ HandleObservationStart(c, q, content) \/ HandleObservationRedeploy(c, q, content)
  \/ HandleObservationRequestResolve(c, q, content) \/ HandleObservationRedeployResolve(c, q, content)

\* ReplayObservationRequest, in a transaction of its own.
ReplayObservationRequest(c) ==
  LET refusal == Refusal(caller[c].q, caller[c].content) IN
  /\ caller[c].pc = "replay" /\ Arbitrated(c)
  /\ IF refusal = "missing" THEN Goto(c, "lookup") /\ UNCHANGED answers ELSE Answer(c, refusal)
  /\ UNCHANGED <<receipt, seal, closed, envVars, admission, locks>>

\* The Environment and its Runner are looked up in the Control Plane, unless
\* the deadline has passed; a failure of it is not an answer.
LookupTarget(c) ==
  /\ caller[c].pc = "lookup"
  /\ (Goto(c, "start") /\ UNCHANGED answers) \/ Fail(c)
  /\ UNCHANGED <<receipt, seal, closed, envVars, admission, locks>>

\* observationBaseline, the deadline and the Runner: why nothing is started.
SkipReasons(q) ==
  {"unsupported", "runner_full"}
    \cup (IF q \in closed THEN {"expired"} ELSE {})
    \cup (IF ObservationHeld THEN {"outcome_unreconciled"} ELSE {})
    \cup (IF EnvironmentBusy THEN {"busy"} ELSE {})
    \cup (IF headState \in {"failed", "unsuitable"} THEN {"no_baseline"} ELSE {})

Admissible(q) == q \notin closed /\ ~ObservationHeld /\ ~EnvironmentBusy /\ headState = "succeeded"

WithoutSavepoint(q) == run' = [run EXCEPT ![q] = "executing"] /\ slots' = slots \cup {q}
\* A full Runner rolls back to the savepoint: no Deployment, lease or slot remains.
RolledBack(q) == UNCHANGED <<run, slots>>

\* TryStartObservation: the identity is checked once more under its lock.
TryStartObservation(c) ==
  LET q == caller[c].q
      content == caller[c].content
      refusal == Refusal(q, content)
  IN
  /\ caller[c].pc = "start" /\ Arbitrated(c) /\ Free("env")
  /\ \/ refusal # "missing" /\ Answer(c, refusal) /\ UNCHANGED <<receipt, run, slots>>
     \/ /\ refusal = "missing"
        /\ \E reason \in SkipReasons(q) :
             /\ receipt' = [receipt EXCEPT ![q] = [content |-> content, disposition |-> "skipped",
                                                   baseline |-> Nobody]]
             /\ IF reason = "runner_full" /\ Admissible(q) THEN RolledBack(q) ELSE UNCHANGED <<run, slots>>
        /\ Answer(c, "skipped")
     \/ /\ refusal = "missing" /\ Admissible(q)
        /\ receipt' = [receipt EXCEPT ![q] = [content |-> content, disposition |-> "accepted",
                                              baseline |-> head]]
        /\ run' = [run EXCEPT ![q] = "executing"]
        /\ slots' = slots \cup {q}
        /\ Answer(c, "accepted")
  /\ UNCHANGED <<seal, closed, result, head, headState, admission, locks>>
-----------------------------------------------------------------------------
(***************************************************************************)
(* HandleObservationRedeploy: one transaction, with Core asked inside it.  *)
(***************************************************************************)
\* The run's baseline is still the successful head and nothing is going on.
RedeployMatches(q) ==
  LET finding == receipt[RunOf[q]] IN
  /\ finding # Nobody /\ finding.disposition = "accepted"
  /\ ~EnvironmentBusy /\ ~ObservationHeld
  /\ headState = "succeeded" /\ finding.baseline = head

EnvironmentLocks(q) == {q, "env"}

CheckRedeploy(c) ==
  LET q == caller[c].q  refusal == Refusal(q, caller[c].content) IN
  /\ caller[c].pc = "check" /\ Arbitrated(c)
  /\ \/ refusal # "missing" /\ Answer(c, refusal) /\ UNCHANGED locks
     \/ /\ refusal = "missing" /\ \A l \in EnvironmentLocks(q) : Free(l)
        /\ \/ ~RedeployMatches(q) /\ Fail(c) /\ UNCHANGED locks
           \/ RedeployMatches(q) /\ Fail(c) /\ UNCHANGED locks
           \/ RedeployMatches(q) /\ Hold(c, EnvironmentLocks(q)) /\ UNCHANGED answers
                /\ caller' = [caller EXCEPT ![c].pc = "authorize", ![c].base = head]
  /\ UNCHANGED <<receipt, seal, closed, envVars, admission>>

\* Authorize: a key that was sealed absent stays refused; the answer may be lost.
AuthorizeRedeploy(c) ==
  LET q == caller[c].q IN
  /\ caller[c].pc = "authorize"
  /\ \/ /\ admission[q] \in {"none", "granted"}
        /\ admission' = [admission EXCEPT ![q] = "granted"]
        /\ Goto(c, "create") \/ Goto(c, "undo")
     \/ UNCHANGED admission /\ Goto(c, "undo")
  /\ UNCHANGED <<receipt, seal, closed, envVars, locks, answers>>

\* CreateDeployment with the expected base, Bind, the active resources, the
\* receipt and the created event: all of it, or nothing.
CommitRedeploy(c) ==
  LET q == caller[c].q IN
  /\ caller[c].pc = "create"
  /\ \/ /\ ~EnvironmentBusy /\ ~ObservationHeld /\ head = caller[c].base
        /\ head' = head + 1 /\ headState' = "executing"
        /\ run' = [run EXCEPT ![q] = "executing"]
        /\ admission' = [admission EXCEPT ![q] = "bound"]
        /\ receipt' = [receipt EXCEPT ![q] = [content |-> caller[c].content, disposition |-> "accepted",
                                              baseline |-> head]]
        /\ Drop(c) /\ Answer(c, "accepted")
     \/ Goto(c, "undo") /\ UNCHANGED <<head, headState, run, admission, receipt, locks, answers>>
  /\ UNCHANGED <<seal, closed, result, slots>>

\* The deferred rollback, and only then SealAbsent.
RollbackRedeploy(c) ==
  /\ caller[c].pc = "undo"
  /\ Drop(c) /\ Goto(c, "seal_absent")
  /\ UNCHANGED <<receipt, seal, closed, envVars, admission, answers>>

SealAbsent(c) ==
  LET q == caller[c].q IN
  /\ caller[c].pc = "seal_absent"
  /\ \/ admission' = [admission EXCEPT ![q] = IF @ = "bound" THEN @ ELSE "absent"]
     \/ UNCHANGED admission
  /\ Fail(c)
  /\ UNCHANGED <<receipt, seal, closed, envVars, locks>>
-----------------------------------------------------------------------------
(***************************************************************************)
(* ResolveObservationRequest and ResolveObservationRedeploy.               *)
(***************************************************************************)
ResolveAtOnce(c) == caller[c].pc = "resolve"
ResolveUnderLock(c) == caller[c].pc = "resolve" /\ Arbitrated(c)

Resolution(disposition) == IF disposition = "accepted" THEN "accepted" ELSE "not_started"

\* Nothing is known of the request: the exact negative receipt is written.
SealObservationRequest(c) ==
  /\ seal' = [seal EXCEPT ![caller[c].q] = caller[c].content]
  /\ Answer(c, "not_started")

ResolveObservationRequest(c) ==
  LET q == caller[c].q  refusal == Refusal(q, caller[c].content) IN
  /\ q \in Observations /\ ResolveUnderLock(c)
  /\ \/ refusal = "conflict" /\ Fail(c) /\ UNCHANGED seal
     \/ refusal \in {"accepted", "skipped", "sealed"} /\ Answer(c, Resolution(refusal)) /\ UNCHANGED seal
     \/ refusal = "missing" /\ SealObservationRequest(c)
  /\ UNCHANGED <<receipt, closed, envVars, admission, locks>>

\* A redeploy has a receipt only when it was accepted.
ResolveObservationRedeploy(c) ==
  LET q == caller[c].q  refusal == Refusal(q, caller[c].content) IN
  /\ q \in Redeploys /\ ResolveUnderLock(c)
  /\ \/ refusal = "conflict" /\ Fail(c) /\ UNCHANGED seal
     \/ refusal = "accepted" /\ Answer(c, "accepted") /\ UNCHANGED seal
     \/ refusal = "sealed" /\ Answer(c, "not_started") /\ UNCHANGED seal
     \/ refusal = "missing" /\ SealObservationRequest(c)
  /\ UNCHANGED <<receipt, closed, envVars, admission, locks>>

\* The replica dies, or the request times out.
CallerDies(c) ==
  /\ caller[c] # Idle
  /\ caller' = [caller EXCEPT ![c] = Idle] /\ Drop(c)
  /\ UNCHANGED <<receipt, seal, closed, envVars, admission, answers>>

DeadlinePasses(q) ==
  /\ q \notin closed /\ closed' = closed \cup {q}
  /\ UNCHANGED <<receipt, seal, envVars, admission, locks, caller, answers>>
-----------------------------------------------------------------------------
(***************************************************************************)
(* The Environment goes on, and results come and go.                       *)
(***************************************************************************)
\* Any other mutation of the Environment, under its lock.
OtherDeployment ==
  /\ Free("env") /\ ~EnvironmentBusy /\ ~ObservationHeld /\ head < MaxHead
  /\ head' = head + 1 /\ headState' = "executing"
  /\ UNCHANGED <<receipt, seal, closed, run, result, slots, admission, locks, caller, answers>>

DeploymentEnds ==
  /\ headState = "executing"
  /\ headState' \in {"succeeded", "failed", "unsuitable"}
  /\ run' = [q \in Requests |-> IF q \in Redeploys /\ run[q] = "executing"
                                THEN IF headState' = "failed" THEN "failed" ELSE "succeeded"
                                ELSE run[q]]
  /\ UNCHANGED <<receipt, seal, closed, result, slots, head, admission, locks, caller, answers>>

\* StoreObservationResult, or a failed observation; a watchdog proves no stop.
RunEnds(q) ==
  /\ run[q] = "executing"
  /\ \/ /\ run' = [run EXCEPT ![q] = "succeeded"] /\ result' = [result EXCEPT ![q] = "kept"]
        /\ slots' = slots \ {q}
     \/ /\ run' = [run EXCEPT ![q] = "failed"]
        /\ slots' \in {slots, slots \ {q}}
        /\ UNCHANGED result
  /\ UNCHANGED <<receipt, seal, closed, head, headState, admission, locks, caller, answers>>

StopProven(q) ==
  /\ run[q] = "failed" /\ q \in slots
  /\ slots' = slots \ {q}
  /\ UNCHANGED <<receipt, seal, closed, run, result, head, headState, admission, locks, caller, answers>>

ResultExpires(q) ==
  /\ result[q] = "kept" /\ result' = [result EXCEPT ![q] = "expired"]
  /\ UNCHANGED <<receipt, seal, closed, run, slots, head, headState, admission, locks, caller, answers>>

Expired == {q \in Observations : result[q] = "expired"}
\* One batch of expired results, as many as it holds.
Batches ==
  {b \in SUBSET Expired : Cardinality(b) = IF Cardinality(Expired) < BatchSize THEN Cardinality(Expired)
                                           ELSE BatchSize}

\* DeleteExpiredObservationResults, a tick of the cleaner.
CleanerTicks ==
  /\ Expired # {}
  /\ \E b \in Batches :
       result' = [q \in Observations |-> IF q \in b THEN "cleared" ELSE result[q]]
  /\ UNCHANGED <<receipt, seal, closed, run, slots, head, headState, admission, locks, caller, answers>>

\* ReadObservationRun: what a reader is told of a run.
Projection(q) ==
  CASE run[q] # "succeeded" -> run[q]
    [] run[q] = "succeeded" /\ result[q] # "kept" -> "expired"
    [] run[q] = "succeeded" /\ result[q] = "kept" /\ headState # "succeeded" -> "unavailable"
    [] run[q] = "succeeded" /\ result[q] = "kept" /\ headState = "succeeded" ->
         IF receipt[q].baseline = head THEN "succeeded" ELSE "stale"

Next ==
  \/ \E c \in Callers :
       \/ \E q \in Requests, content \in Contents : Call(c, q, content)
       \/ ReplayObservationRequest(c) \/ LookupTarget(c) \/ TryStartObservation(c)
       \/ CheckRedeploy(c) \/ AuthorizeRedeploy(c) \/ CommitRedeploy(c) \/ RollbackRedeploy(c) \/ SealAbsent(c)
       \/ ResolveObservationRequest(c) \/ ResolveObservationRedeploy(c) \/ CallerDies(c)
  \/ \E q \in Observations : DeadlinePasses(q) \/ RunEnds(q) \/ StopProven(q) \/ ResultExpires(q)
  \/ OtherDeployment \/ DeploymentEnds \/ CleanerTicks

Spec == Init /\ [][Next]_vars
Fairness == WF_vars(CleanerTicks)
FairSpec == Spec /\ Fairness
-----------------------------------------------------------------------------
\* A request that the Control Plane was told has not started never runs, then
\* or later: a start or a redeploy that was already on its way loses against
\* the resolution (LockObservationRequest, RequireObservationRequestUnsealed).
NotStartedIsFinal ==
  \A a \in answers : a.what = "not_started" => run[a.q] = "none"

\* Every execution has a receipt that accepts it and every acceptance one
\* execution, through skips, rolled back transactions and dead callers.
RunHasReceipt ==
  \A q \in Requests : run[q] # "none" <=> (receipt[q] # Nobody /\ receipt[q].disposition = "accepted")

\* A redeploy replays exactly what was observed: between the finding and the
\* Deployment it leads to, nobody has changed the Environment
\* (HandleObservationRedeploy holds the Environment's lock while Core decides).
RedeploysWhatWasObserved ==
  \A q \in Redeploys : receipt[q] # Nobody => receipt[q].baseline = receipt[RunOf[q]].baseline

\* Executions, receipts and findings belong together: no execution without the
\* receipt that accepts it, and no redeploy of a state other than the observed one.
RunLineage == RunHasReceipt /\ RedeploysWhatWasObserved

\* Nobody changes the Environment while it is observed, and a run that is shown
\* as succeeded speaks of the Environment's current head (TryStartObservation,
\* ReadObservationRun).
CleanMeansCurrent ==
  \A q \in Observations :
    run[q] = "executing" \/ Projection(q) = "succeeded" => receipt[q].baseline = head

\* Expired results do not pile up: each is cleared in the end.
ExpiredIsCleared == \A q \in Observations : result[q] = "expired" ~> result[q] = "cleared"
=============================================================================
