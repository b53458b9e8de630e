------------------------- MODULE ExternalOperations -------------------------
(***************************************************************************)
(* Plugin operations that deploy and roll back one Environment through the *)
(* external deployment API: plans, admissions with their receipts, the     *)
(* rollback lineage of an operation, and what its status reads report.     *)
(*                                                                         *)
(* An admission is one transaction with remote calls in the middle, so it  *)
(* is split where another caller can run: after the dispatch key is locked *)
(* and the receipt read, after Core has authorized the dispatch, after the *)
(* Operation's key material, and between compiling the plan and arbitrating*)
(* the Environment.  Requests refused before the transaction (headers,     *)
(* assertion, body, a changed Environment identity) change nothing and are *)
(* not steps.                                                              *)
(*                                                                         *)
(* Operators that no action uses are seeded faults: PROJECT.json names the *)
(* definition each one replaces and the property that then fails.          *)
(***************************************************************************)
EXTENDS Naturals, FiniteSets

CONSTANTS
  Callers,         \* concurrent requests of the plugin
  Dispatches,      \* dispatch ids: Idempotency-Key and receipt key
  Revocable,       \* the dispatches that Core may revoke
  Operations,      \* plugin operations that may start here
  Legacy,          \* an operation whose receipts are older than the anchors
  LegacyHistories, \* which histories that operation may have, see LegacyReceipts
  Plans,           \* planning request ids
  MaxDeployments,  \* bound: Deployments ever created
  MaxCatalogue     \* bound: changes of Core's Module catalogue

Unset == 0
Deployments == 1..MaxDeployments
AllOperations == Operations \cup {Legacy}
Missing == "missing"

VARIABLES
  created,     \* the Deployments 1..created exist
  dep,         \* deployments: mode, status, stop evidence, rollback target, recipient
  stateHead,   \* last_state_deployment_id
  catalogue,   \* version of Core's Module catalogue
  plan,        \* external_deployment_plan_snapshots by planning request
  receipt,     \* external_operation_deployments by Deployment
  anchor,      \* external_operation_rollback_anchors by operation
  material,    \* external_operation_material: the recipient of an operation
  grant,       \* Core: the intent a dispatch is authorized for
  absent,      \* dispatches reported absent after Core revoked them
  caller       \* per request: step, dispatch, intent, what it read

stored == <<created, dep, stateHead, plan, receipt, anchor, material>>
vars == <<stored, catalogue, grant, absent, caller>>

-----------------------------------------------------------------------------
NoDeployment == [mode |-> "deploy", status |-> "none", dispatched |-> FALSE,
                 proven |-> FALSE, to |-> Unset, key |-> Unset]
NoReceipt == [id |-> Missing, op |-> Missing, action |-> "none", base |-> Unset,
              forward |-> Unset, retry |-> Unset]
NoPlan == [base |-> Unset, catalogue |-> Unset]
NoAnchor == [first |-> Unset, base |-> Unset]
NoIntent == [op |-> Missing, action |-> "none", plan |-> Missing, forward |-> Unset, retry |-> Unset]
Revoked == [NoIntent EXCEPT !.action = "revoked"]
Idle == [pc |-> "idle", id |-> Missing, in |-> NoIntent, key |-> Unset, base |-> Unset]

Existing == 1..created
Executing == \E d \in Existing : dep[d].status = "executing"
Ended(d) == d \in Existing /\ dep[d].status \in {"succeeded", "failed"}
Succeeded(d) == d \in Existing /\ dep[d].status = "succeeded"
OutcomeUnreconciled(d) == dep[d].dispatched /\ ~dep[d].proven
Fenced == /\ dep[stateHead].status = "failed"
          /\ receipt[stateHead] # NoReceipt /\ OutcomeUnreconciled(stateHead)

ReceiptsOf(id) == {d \in Existing : receipt[d].id = id}
OwnedBy(op, action) == {d \in Existing : receipt[d].op = op /\ receipt[d].action = action}

-----------------------------------------------------------------------------
(***************************************************************************)
(* The rollback lineage: operationRollbackAnchor.  An operation with       *)
(* receipts and no anchor is a legacy one; only a single forward whose     *)
(* base is recorded can be adopted.                                        *)
(***************************************************************************)
Ambiguous == [first |-> Unset, base |-> MaxDeployments + 1]

AdoptedLineage(op) ==
  LET forwards == OwnedBy(op, "deploy")
  IN  IF forwards = {} THEN NoAnchor
      ELSE IF \E d \in forwards : forwards = {d} /\ receipt[d].base # Unset
           THEN LET d == CHOOSE d \in forwards : TRUE
                IN  [first |-> d, base |-> receipt[d].base]
           ELSE Ambiguous

NewestLineage(op) ==
  LET forwards == OwnedBy(op, "deploy")
  IN  IF forwards = {} THEN NoAnchor
      ELSE LET d == CHOOSE d \in forwards : \A e \in forwards : e <= d
           IN  [first |-> d, base |-> receipt[d].base]

Lineage(op) == IF anchor[op] # NoAnchor THEN anchor[op] ELSE AdoptedLineage(op)

\* validateRollbackAnchor, validateRollbackBase
Verified(op, l) ==
  /\ l.first \in OwnedBy(op, "deploy") /\ dep[l.first].mode = "deploy"
  /\ receipt[l.first].base = l.base
  /\ Succeeded(l.base)

LineageReadable(op) == Lineage(op) = NoAnchor \/ Verified(op, Lineage(op))

\* rollbackRetryProvenanceRecorded: the read side's check of a rollback's receipt
ProvenanceRecorded(d) ==
  LET op == receipt[d].op
      f  == receipt[d].forward
      p  == receipt[d].retry
  IN  /\ receipt[d].action = "rollback" /\ receipt[d].base = Lineage(op).base
      /\ dep[d].to = Lineage(op).base
      /\ f \in OwnedBy(op, "deploy") /\ dep[f].mode = "deploy"
      /\ p # Unset => /\ p # d /\ p \in OwnedBy(op, "rollback")
                     /\ receipt[p].base = Lineage(op).base /\ receipt[p].forward = f
                     /\ dep[p].mode = "rollback" /\ dep[p].to = Lineage(op).base

\* projectLegacyRollbackForward: completion of the one provable legacy rollback
LegacyForward(d) ==
  LET op == receipt[d].op
      f  == Lineage(op).first
  IN  IF /\ receipt[d].action = "rollback" /\ receipt[d].retry = Unset
         /\ dep[d].to = Lineage(op).base
         /\ Cardinality(OwnedBy(op, "deploy")) = 1 /\ Cardinality(OwnedBy(op, "rollback")) = 1
         /\ Ended(f) /\ (dep[f].status = "failed" => dep[f].proven)
      THEN f ELSE Unset

\* projectExternalDeploymentStatus: what HandleRead and HandleDispatchRead answer
Unreported == [status |-> "unreported", lineage |-> NoAnchor, forward |-> Unset]

StatusReport(d) ==
  LET op == receipt[d].op
  IN  IF \/ dep[d].status = "failed" /\ OutcomeUnreconciled(d)
         \/ receipt[d].base = Unset \/ ~LineageReadable(op)
      THEN Unreported
      ELSE [status  |-> dep[d].status, lineage |-> Lineage(op),
            forward |-> IF dep[d].mode = "deploy" THEN d
                        ELSE IF receipt[d].forward # Unset THEN receipt[d].forward
                        ELSE LegacyForward(d)]

\* HandleRead: only the plugin that holds the receipt reads a Deployment.
HandleRead(d) == IF receipt[d] = NoReceipt THEN Unreported ELSE StatusReport(d)

\* handleMaterial: logs and outputs are decrypted with the operation's identity.
MaterialReadable(d) ==
  LET op == receipt[d].op
  IN  material[op] # Unset /\ dep[d].key = material[op]

-----------------------------------------------------------------------------
(***************************************************************************)
(* Where the histories start: Deployment 1 is the effective base.  A       *)
(* legacy operation has deployed once, twice, or once and rolled back;     *)
(* receipts of that time name no forward Deployment.                       *)
(***************************************************************************)
Ran(mode, status, to) ==
  [mode |-> mode, status |-> status, dispatched |-> TRUE, proven |-> TRUE, to |-> to, key |-> 1]

LegacyReceipt(id, action, base) ==
  [NoReceipt EXCEPT !.id = id, !.op = Legacy, !.action = action, !.base = base]

LegacyDeployments(h) ==
  CASE h = "none"       -> <<Ran("deploy", "succeeded", Unset)>>
    [] h = "one"        -> <<Ran("deploy", "succeeded", Unset), Ran("deploy", "failed", Unset)>>
    [] h = "two"        -> <<Ran("deploy", "succeeded", Unset), Ran("deploy", "succeeded", Unset),
                             Ran("deploy", "failed", Unset)>>
    [] h = "rolledback" -> <<Ran("deploy", "succeeded", Unset), Ran("deploy", "failed", Unset),
                             Ran("rollback", "failed", 1)>>

LegacyReceipts(h) ==
  CASE h = "none"       -> <<NoReceipt>>
    [] h = "one"        -> <<NoReceipt, LegacyReceipt("legacy 1", "deploy", 1)>>
    [] h = "two"        -> <<NoReceipt, LegacyReceipt("legacy 1", "deploy", 1),
                             LegacyReceipt("legacy 2", "deploy", 2)>>
    [] h = "rolledback" -> <<NoReceipt, LegacyReceipt("legacy 1", "deploy", 1),
                             LegacyReceipt("legacy 2", "rollback", 1)>>

Init == \E h \in LegacyHistories :
  LET n == Cardinality(DOMAIN LegacyDeployments(h))
  IN  /\ created = n /\ stateHead = n
      /\ dep = [d \in Deployments |-> IF d <= n THEN LegacyDeployments(h)[d] ELSE NoDeployment]
      /\ receipt = [d \in Deployments |-> IF d <= n THEN LegacyReceipts(h)[d] ELSE NoReceipt]
      /\ anchor = [o \in AllOperations |-> NoAnchor]
      /\ material = [o \in AllOperations |-> IF o = Legacy /\ h # "none" THEN 1 ELSE Unset]
      /\ plan = [q \in Plans |-> NoPlan]
      /\ catalogue = 1
      /\ grant = [r \in Dispatches |-> NoIntent]
      /\ absent = {}
      /\ caller = [c \in Callers |-> Idle]

(***************************************************************************)
(* Planning: HandlePlan.  A retry of the planning request gets the stored  *)
(* snapshot; a new one needs a reconciled, successful head.                *)
(***************************************************************************)
\* GetEnvironmentDeploymentReadiness and its projection: state "ready"
Ready == Succeeded(stateHead) /\ ~Executing

HandlePlan(q) ==
  /\ plan[q] = NoPlan /\ Ready
  /\ plan' = [plan EXCEPT ![q] = [base |-> stateHead, catalogue |-> catalogue]]
  /\ UNCHANGED <<created, dep, stateHead, receipt, anchor, material, catalogue, grant, absent, caller>>

(***************************************************************************)
(* Core, outside this repository: it authorizes a dispatch for one intent  *)
(* and may revoke it; modules are published at any time.                   *)
(***************************************************************************)
coreOnly == <<stored, absent, caller>>

DispatchIntents ==
  {[op |-> o, action |-> "deploy", plan |-> q, forward |-> Unset, retry |-> Unset] :
     o \in AllOperations, q \in Plans}
  \cup {[op |-> o, action |-> "rollback", plan |-> Missing, forward |-> f, retry |-> p] :
     o \in AllOperations, f \in Existing, p \in Existing \cup {Unset}}

Authorize(r) ==
  /\ grant[r] = NoIntent
  /\ \E in \in DispatchIntents :
       /\ in.action = "deploy" => plan[in.plan] # NoPlan
       /\ in.action = "rollback" =>
            /\ in.forward \in OwnedBy(in.op, "deploy")
            /\ in.retry # Unset => receipt[in.retry].action = "rollback"
       /\ grant' = [grant EXCEPT ![r] = in]
  /\ UNCHANGED <<coreOnly, catalogue>>

Revoke(r) ==
  /\ r \in Revocable /\ grant[r] \notin {NoIntent, Revoked}
  /\ grant' = [grant EXCEPT ![r] = Revoked]
  /\ UNCHANGED <<coreOnly, catalogue>>

Publish ==
  /\ catalogue < MaxCatalogue
  /\ catalogue' = catalogue + 1
  /\ UNCHANGED <<coreOnly, grant>>

-----------------------------------------------------------------------------
(***************************************************************************)
(* Admission: ExternalDeploymentAdmissionService.Admit                     *)
(***************************************************************************)
Set(c, s) == caller' = [caller EXCEPT ![c] = s]
InTransaction(c) == caller[c].pc # "idle"
KeyFree(r) == \A c \in Callers : InTransaction(c) => caller[c].id # r
KeyAlwaysFree(r) == TRUE
callerOnly == <<stored, catalogue, grant, absent>>

\* GetExternalOperationDeploymentReceipt: the advisory lock, then the receipt
LockDispatch(c, r) ==
  /\ caller[c] = Idle /\ KeyFree(r)
  /\ grant[r] \notin {NoIntent, Revoked}
  /\ Set(c, [Idle EXCEPT !.pc = "locked", !.id = r, !.in = grant[r]])
  /\ UNCHANGED callerOnly

\* AuthorizeExternalDeployment: Core confirms the exact intent, under the lock
Authorized(c) ==
  /\ caller[c].pc = "locked"
  /\ grant[caller[c].id] = caller[c].in
  /\ Set(c, [caller[c] EXCEPT !.pc = "authorized"])
  /\ UNCHANGED callerOnly

\* A receipt answers with its Deployment; nothing is created.
Replay(c) ==
  /\ caller[c].pc = "authorized"
  /\ ReceiptsOf(caller[c].id) # {}
  /\ Set(c, Idle)
  /\ UNCHANGED callerOnly

(***************************************************************************)
(* ExternalOperationMaterialService.GetOrCreate.  An insert waits for the  *)
(* transaction that inserted the operation's row before it, and then reads *)
(* that row.                                                               *)
(***************************************************************************)
OwnKey(c) == created + 1
StoredKey(c) ==
  LET op == caller[c].in.op IN IF material[op] # Unset THEN material[op] ELSE OwnKey(c)

GetOrCreateMaterial(c) ==
  /\ caller[c].pc = "authorized" /\ ReceiptsOf(caller[c].id) = {}
  /\ \A b \in Callers \ {c} : caller[b].pc \in {"keyed", "compiled"} => caller[b].in.op # caller[c].in.op
  /\ Set(c, [caller[c] EXCEPT !.pc = "keyed", !.key = StoredKey(c)])
  /\ UNCHANGED callerOnly

\* createExternalDeploymentFromSnapshot: the compiled plan is the stored plan.
PlanUnchanged(in) == plan[in.plan] = [base |-> stateHead, catalogue |-> catalogue]

CompileForward(in) == LineageReadable(in.op) /\ PlanUnchanged(in)

\* createExternalRollback: the forward is this operation's and over, a retry
\* repeats this operation's failed rollback of it.
RetryAllowed(in) ==
  /\ in.retry \in OwnedBy(in.op, "rollback")
  /\ receipt[in.retry].base = Lineage(in.op).base /\ receipt[in.retry].forward = in.forward
  /\ dep[in.retry].mode = "rollback" /\ dep[in.retry].status = "failed"
  /\ dep[in.retry].to = Lineage(in.op).base

CompileRollback(in) ==
  /\ Lineage(in.op) # NoAnchor /\ LineageReadable(in.op)
  /\ in.forward \in OwnedBy(in.op, "deploy") /\ receipt[in.forward].base # Unset
  /\ dep[in.forward].mode = "deploy" /\ Ended(in.forward)
  /\ in.retry # Unset => RetryAllowed(in)
  /\ Succeeded(Lineage(in.op).base)

Compile(c) ==
  LET in == caller[c].in
  IN  /\ caller[c].pc = "keyed"
      /\ IF in.action = "deploy" THEN CompileForward(in) ELSE CompileRollback(in)
      /\ Set(c, [caller[c] EXCEPT !.pc = "compiled",
                   !.base = IF in.action = "deploy" THEN plan[in.plan].base ELSE Lineage(in.op).base])
      /\ UNCHANGED callerOnly

\* CreateDeployment with ExpectedCurrentDeploymentID: the head this rollback undoes
ExpectedHead(in) == IF in.retry # Unset THEN in.retry ELSE in.forward

HeadExpected(in) ==
  /\ stateHead = ExpectedHead(in)
  /\ dep[stateHead].mode = IF in.retry # Unset THEN "rollback" ELSE "deploy"
  /\ Ended(stateHead) /\ (dep[stateHead].status = "failed" => dep[stateHead].proven)

Admissible(in) ==
  /\ ~Executing /\ ~Fenced
  /\ in.action = "rollback" => HeadExpected(in)

\* The lineage an admission leaves: adopted, or captured at the first forward
CapturedLineage(in, base) ==
  IF Lineage(in.op) # NoAnchor THEN Lineage(in.op) ELSE [first |-> created + 1, base |-> base]

\* The base a rollback restores; a forward records the base of its plan.
CreateAdmitted(c) ==
  LET in == caller[c].in
      d  == created + 1
  IN  /\ caller[c].pc = "compiled" /\ Admissible(in) /\ d \in Deployments
      /\ created' = d /\ stateHead' = d
      /\ dep' = [dep EXCEPT ![d] = [NoDeployment EXCEPT
                   !.mode = in.action, !.status = "executing", !.key = caller[c].key,
                   !.to = IF in.action = "rollback" THEN caller[c].base ELSE Unset]]
      /\ receipt' = [receipt EXCEPT ![d] =
                      [id |-> caller[c].id, op |-> in.op, action |-> in.action,
                       base |-> caller[c].base, forward |-> in.forward, retry |-> in.retry]]
      /\ anchor' = [anchor EXCEPT ![in.op] = CapturedLineage(in, caller[c].base)]
      /\ material' = [material EXCEPT ![in.op] = caller[c].key]
      /\ Set(c, Idle)
      /\ UNCHANGED <<plan, catalogue, grant, absent>>

\* A refusal, a failed call, the request's timeout or a crash: all rolled back
Abort(c) ==
  /\ InTransaction(c)
  /\ Set(c, Idle)
  /\ UNCHANGED callerOnly

\* HandleDispatchRead waits for the dispatch key, then reports the receipt.
DispatchReadable(r) == KeyFree(r)

HandleDispatchRead(r) ==
  /\ DispatchReadable(r)
  /\ grant[r] = Revoked /\ ReceiptsOf(r) = {}
  /\ absent' = absent \cup {r}
  /\ UNCHANGED <<stored, catalogue, grant, caller>>

-----------------------------------------------------------------------------
(***************************************************************************)
(* The rest of the Environment: ordinary Deployments and how runs end.     *)
(***************************************************************************)
runOnly == <<receipt, anchor, material, plan, catalogue, grant, absent, caller>>

OrdinaryDeployment ==
  /\ ~Executing /\ ~Fenced /\ created + 1 \in Deployments
  /\ created' = created + 1 /\ stateHead' = created + 1
  /\ dep' = [dep EXCEPT ![created + 1] = [NoDeployment EXCEPT !.status = "executing"]]
  /\ UNCHANGED runOnly

Run(d, s) == dep' = [dep EXCEPT ![d] = s] /\ UNCHANGED <<created, stateHead, runOnly>>

BeginDispatch(d) ==
  /\ d \in Existing /\ dep[d].status = "executing" /\ ~dep[d].dispatched
  /\ Run(d, [dep[d] EXCEPT !.dispatched = TRUE])

RunnerResult(d, status) ==
  /\ d \in Existing /\ dep[d].status = "executing" /\ dep[d].dispatched
  /\ Run(d, [dep[d] EXCEPT !.status = status, !.proven = TRUE])

FailWithoutProof(d) ==
  /\ d \in Existing /\ dep[d].status = "executing"
  /\ Run(d, [dep[d] EXCEPT !.status = "failed"])

\* A late Runner result, or an operator's acknowledgement
ReconcileOutcome(d) ==
  /\ d \in Existing /\ dep[d].status = "failed" /\ OutcomeUnreconciled(d)
  /\ Run(d, [dep[d] EXCEPT !.proven = TRUE])

CallerStep(c) ==
  \/ Authorized(c) \/ Replay(c) \/ GetOrCreateMaterial(c) \/ Compile(c)
  \/ CreateAdmitted(c) \/ Abort(c)

Next ==
  \/ \E q \in Plans : HandlePlan(q)
  \/ \E r \in Dispatches : Authorize(r) \/ Revoke(r) \/ HandleDispatchRead(r)
  \/ \E c \in Callers, r \in Dispatches : LockDispatch(c, r)
  \/ \E c \in Callers : CallerStep(c)
  \/ \E d \in Deployments : \/ BeginDispatch(d) \/ FailWithoutProof(d) \/ ReconcileOutcome(d)
                            \/ \E s \in {"succeeded", "failed"} : RunnerResult(d, s)
  \/ Publish \/ OrdinaryDeployment

Spec == Init /\ [][Next]_vars

-----------------------------------------------------------------------------
(***************************************************************************)
(* Properties                                                              *)
(***************************************************************************)

\* Once Core has revoked a dispatch and a dispatch read has reported it absent,
\* that dispatch never gets a Deployment: the read waits for the admission that
\* was already past Core (HandleDispatchRead, Admit's lock order).
AbsenceIsFinal == \A r \in absent : ReceiptsOf(r) = {}

\* Every rollback of an operation restores the base captured by that
\* operation's first forward Deployment, however many forwards followed.
RollsBackToFirstBase ==
  \A d \in Existing : dep[d].mode = "rollback" /\ receipt[d] # NoReceipt =>
    LET forwards == OwnedBy(receipt[d].op, "deploy")
    IN  \E f \in forwards : (\A g \in forwards : f <= g) /\ dep[d].to = receipt[f].base

\* A rollback undoes only this operation's own work: when it is created the head
\* is a Deployment of the same operation, so no other change is reverted.
RollbackReplacesOwnHeadStep ==
  \A d \in Deployments :
    /\ receipt[d] = NoReceipt /\ receipt'[d].action = "rollback"
    => receipt[stateHead].op = receipt'[d].op
RollbackReplacesOwnHead == [][RollbackReplacesOwnHeadStep]_vars

\* Every rollback this API admits passes the check its own status read makes of
\* the recorded provenance, also when an operation started before anchors.
AdmittedRollbackVerifies ==
  \A d \in Existing : receipt[d].id \in Dispatches /\ receipt[d].action = "rollback"
                        => ProvenanceRecorded(d)

\* The logs and outputs of every admitted Deployment stay readable: it was
\* encrypted for the recipient its operation retains, although two requests of
\* an operation can both find none and generate their own identity.
MaterialStaysReadable == \A d \in Existing : receipt[d] # NoReceipt => MaterialReadable(d)

\* What a status read has answered for an ended Deployment stays true: it stays
\* readable, with the same status and the same first forward and rollback base,
\* also for an operation whose lineage is adopted only later.  (The forward that
\* the read projects for a legacy rollback may disappear again.)
ReportStableStep ==
  \A d \in Existing :
    LET before == HandleRead(d)
        after  == HandleRead(d)'
    IN  before.status \in {"succeeded", "failed"}
          => after.status = before.status /\ after.lineage = before.lineage
ReportStable == [][ReportStableStep]_vars
=============================================================================
