------------------------- MODULE ExternalInspection -------------------------
(***************************************************************************)
(* What a plugin may ask about Environments before it deploys: whether     *)
(* they are ready (HandleReadiness) and what a change of Module versions   *)
(* would do (HandlePlan).  Both answer from one snapshot of the database   *)
(* and from Core's current Environment identity, and Core is asked by      *)
(* remote calls before, or in the middle of, that transaction.  Meanwhile  *)
(* Deployments run, Environments are deleted and created again under the   *)
(* same name, and the plugin retries.                                      *)
(*                                                                         *)
(* A Deployment is named by the identity of its Environment and by its     *)
(* place in that Environment's history.  A refused request changes nothing *)
(* and is no step.                                                         *)
(***************************************************************************)
EXTENDS Naturals, Sequences, FiniteSets

CONSTANTS
  Envs,           \* Environment names
  Planners,       \* concurrent planning requests
  Readers,        \* concurrent readiness requests
  Requests,       \* planning request ids: the Idempotency-Key of a request
  Actors,         \* who the plugin acts for
  Selections,     \* Module versions a plan may select
  Modes,          \* modes of the Deployments that other callers create
  MaxDeployments, \* bound: Deployments of one Environment
  MaxIdentity,    \* bound: times an Environment is created
  MaxCatalogue    \* bound: versions of Core's Module catalogue

None == 0
NoBase == <<None, None>>
Inspectors == Planners \cup Readers
Mutating == {"deploy", "rollback", "destroy"}

VARIABLES
  core,      \* Core: the current identity of each Environment
  catalogue, \* Core: version of the Module catalogue
  signed,    \* Core: the requests it has signed a plugin context for
  env,       \* deployment_environments with their deployments, by name
  plans,     \* external_deployment_plan_snapshots, by request id
  caller,    \* per request: its step, what it asks, and its snapshot
  answers,   \* what planning requests were answered
  readiness  \* what readiness requests were answered last

coreState == <<core, catalogue, signed>>
vars == <<coreState, env, plans, caller, answers, readiness>>

-----------------------------------------------------------------------------
NoHistory == [id |-> None, deps |-> <<>>, head |-> 0, leased |-> FALSE,
              queued |-> FALSE, held |-> FALSE]
NoPlan == [base |-> NoBase]
Idle == [pc |-> "idle"]

Bodies == [env : Envs, id : 1..MaxIdentity, selection : Selections]

Busy(h) == h.deps # <<>> /\ h.deps[Len(h.deps)].status = "executing"
Named(h, n) == <<h.id, n>>

-----------------------------------------------------------------------------
(***************************************************************************)
(* Readiness: one query over the snapshot, and its projection.             *)
(***************************************************************************)
Succeeded(h) == {n \in 1..Len(h.deps) : h.deps[n].status = "succeeded"}
Bases(h) == {n \in Succeeded(h) : h.deps[n].mode \in Mutating}
EffectiveBase(h) ==
  IF Bases(h) = {} THEN NoBase
  ELSE Named(h, CHOOSE n \in Bases(h) : \A m \in Bases(h) : m <= n)

GetEnvironmentDeploymentReadiness(h) ==
  [id |-> h.id, status |-> IF h.head = 0 THEN "none" ELSE h.deps[h.head].status,
   leased |-> h.leased, base |-> EffectiveBase(h),
   queued |-> h.queued, executing |-> Busy(h)]

LatestState(r) ==
  CASE r.status = "executing" /\ r.leased -> "busy"
    [] r.status = "succeeded"             -> "ready"
    [] OTHER                              -> "unreconciled"

projectEnvironmentReadiness(r) ==
  IF r.queued \/ r.executing THEN "busy" ELSE LatestState(r)

\* RequireObservationStopped: no failed observation still holds its Runner slot
ObservationStopped(h) == ~h.held

-----------------------------------------------------------------------------
Init ==
  /\ core = [e \in Envs |-> 1]
  /\ catalogue = 1
  /\ signed = {}
  /\ env = [e \in Envs |-> NoHistory]
  /\ plans = [q \in Requests |-> NoPlan]
  /\ caller = [c \in Inspectors |-> Idle]
  /\ answers = {}
  /\ readiness = [c \in Readers |-> {}]

(***************************************************************************)
(* The rest of the system.  A plan or an observation moves no state head,  *)
(* unless it is the Environment's first Deployment; only the lease of the  *)
(* state head is read.                                                     *)
(***************************************************************************)
otherCallers == <<coreState, plans, caller, answers, readiness>>
History(e, h) == env' = [env EXCEPT ![e] = h] /\ UNCHANGED otherCallers

CreateDeployment(e, mode) ==
  LET h == env[e]
      n == Len(h.deps) + 1
  IN  /\ n <= MaxDeployments /\ ~Busy(h) /\ ~h.held
      /\ h.id \in {None, core[e]}
      /\ mode = "observation" => h.head # 0 /\ h.deps[h.head].status = "succeeded"
      /\ History(e, [h EXCEPT
            !.id = core[e], !.deps = Append(@, [mode |-> mode, status |-> "executing"]),
            !.head = IF mode \in Mutating \/ @ = 0 THEN n ELSE @,
            !.leased = mode \in Mutating])

\* A failed observation keeps its Runner slot until its stop is proven.
EndDeployment(e, status) ==
  LET h == env[e]
      n == Len(h.deps)
  IN  /\ Busy(h)
      /\ History(e, [h EXCEPT !.deps[n].status = status,
            !.held = status = "failed" /\ h.deps[n].mode = "observation", !.leased = FALSE])

ReleaseObservation(e) == env[e].held /\ History(e, [env[e] EXCEPT !.held = FALSE])
ExpireLease(e) == env[e].leased /\ History(e, [env[e] EXCEPT !.leased = FALSE])
Enqueue(e) == ~env[e].queued /\ History(e, [env[e] EXCEPT !.queued = TRUE])
Dequeue(e) == env[e].queued /\ History(e, [env[e] EXCEPT !.queued = FALSE])

\* Core deletes an Environment's history here, and hands its name out again, in
\* whichever order.
DeleteDeploymentsForEnv(e) ==
  /\ env[e].id # None /\ ~Busy(env[e]) /\ ~env[e].held
  /\ History(e, NoHistory)

RecreateEnvironment(e) ==
  /\ core[e] < MaxIdentity
  /\ core' = [core EXCEPT ![e] = @ + 1]
  /\ UNCHANGED <<catalogue, signed, env, plans, caller, answers, readiness>>

PublishModule ==
  /\ catalogue < MaxCatalogue
  /\ catalogue' = catalogue + 1
  /\ UNCHANGED <<core, signed, env, plans, caller, answers, readiness>>

\* Core signs one body for an actor under one request id.
SignRequest(q, a, b) ==
  /\ b.id = core[b.env]
  /\ signed' = signed \cup {[key |-> q, actor |-> a, body |-> b]}
  /\ signed' # signed
  /\ UNCHANGED <<core, catalogue, env, plans, caller, answers, readiness>>

-----------------------------------------------------------------------------
(***************************************************************************)
(* HandlePlan: verify, look the request up, require a ready Environment;   *)
(* ask Core who the Environment is; compile against Core's catalogue;      *)
(* store.  One REPEATABLE READ transaction.                                *)
(***************************************************************************)
Set(c, s) == caller' = [caller EXCEPT ![c] = s]
callerOnly == <<coreState, env, plans, answers, readiness>>

\* verifyInspectionRequest: the plugin context must cover the path, the body and
\* the key of this very request.
Verified(s, q, b) == s.key = q /\ s.body = b

\* The stored plan is for the same actor, body and Environment.
SameBody(p, a, b) == p.body = b
SameRequest(p, a, b) == p.actor = a /\ p.body = b

Answer(q, a, b, p) == answers' = answers \cup {[key |-> q, actor |-> a, body |-> b, plan |-> p]}

Replay(c, q, s, b) ==
  /\ caller[c] = Idle /\ Verified(s, q, b)
  /\ plans[q] # NoPlan /\ SameRequest(plans[q], s.actor, b)
  /\ Answer(q, s.actor, b, plans[q])
  /\ UNCHANGED <<coreState, env, plans, caller, readiness>>

BeginPlan(c, q, s, b) ==
  LET h == env[b.env]
  IN  /\ caller[c] = Idle /\ Verified(s, q, b)
      /\ plans[q] = NoPlan
      /\ projectEnvironmentReadiness(GetEnvironmentDeploymentReadiness(h)) = "ready"
      /\ ObservationStopped(h)
      /\ Set(c, [pc |-> "ready", key |-> q, actor |-> s.actor, body |-> b, seen |-> h])
      /\ UNCHANGED callerOnly

\* The history is the Environment's that Core names, and not an earlier one's.
HistoryOf(h, id) == h.id = id

ResolveExactEnvironment(c) ==
  LET b == caller[c].body
  IN  /\ caller[c].pc = "ready"
      /\ core[b.env] = b.id /\ HistoryOf(caller[c].seen, b.id)
      /\ Set(c, [caller[c] EXCEPT !.pc = "resolved"])
      /\ UNCHANGED callerOnly

\* The dry run deploys on the state head; a base that is missing panics.
CompilePlan(c) ==
  LET h == caller[c].seen
  IN  /\ caller[c].pc = "resolved"
      /\ HistoryOf(h, caller[c].body.id) /\ h.deps[h.head].status = "succeeded"
      /\ Named(h, h.head) = EffectiveBase(h)
      /\ Set(c, [pc |-> "compiled", key |-> caller[c].key, seen |-> h,
                 plan |-> [actor |-> caller[c].actor, body |-> caller[c].body,
                           base |-> Named(h, h.head), uses |-> catalogue]])
      /\ UNCHANGED callerOnly

\* The insert does nothing on conflict; a row this transaction's snapshot does
\* not hold fails it, and the retry finds that row.
Inserts(q) == plans[q] = NoPlan

CreateOrGetExternalDeploymentPlanSnapshot(c) ==
  LET p == caller[c].plan
      q == caller[c].key
  IN  /\ caller[c].pc = "compiled" /\ Inserts(q)
      /\ plans' = [plans EXCEPT ![q] = p]
      /\ Answer(q, p.actor, p.body, p)
      /\ Set(c, Idle)
      /\ UNCHANGED <<coreState, env, readiness>>

\* A refusal after the transaction began, a failed call, a timeout, a panic
Abort(c) ==
  /\ caller[c] # Idle
  /\ Set(c, Idle)
  /\ UNCHANGED callerOnly

(***************************************************************************)
(* HandleReadiness: Core is asked about one reference after the other, and *)
(* only then the database, once, about all of them.                        *)
(***************************************************************************)
BeginReadiness(c, refs) ==
  /\ caller[c] = Idle
  /\ Set(c, [pc |-> "resolving", refs |-> refs, todo |-> DOMAIN refs])
  /\ readiness' = [readiness EXCEPT ![c] = {}]
  /\ UNCHANGED <<coreState, env, plans, answers>>

ResolveReference(c, e) ==
  /\ caller[c].pc = "resolving" /\ e \in caller[c].todo
  /\ core[e] = caller[c].refs[e]
  /\ Set(c, [caller[c] EXCEPT !.todo = @ \ {e}])
  /\ UNCHANGED callerOnly

ReadinessItem(e, id) ==
  LET r == GetEnvironmentDeploymentReadiness(env[e])
  IN  [env |-> e, asked |-> id, base |-> r.base, state |-> projectEnvironmentReadiness(r)]

AnswerReadiness(c) ==
  LET refs == caller[c].refs
  IN  /\ caller[c].pc = "resolving" /\ caller[c].todo = {}
      /\ \A e \in DOMAIN refs : HistoryOf(env[e], refs[e]) /\ ObservationStopped(env[e])
      /\ readiness' = [readiness EXCEPT ![c] = {ReadinessItem(e, refs[e]) : e \in DOMAIN refs}]
      /\ Set(c, Idle)
      /\ UNCHANGED <<coreState, env, plans, answers>>

EnvironmentStep(e) ==
  \/ \E m \in Modes : CreateDeployment(e, m)
  \/ \E s \in {"succeeded", "failed"} : EndDeployment(e, s)
  \/ ReleaseObservation(e) \/ ExpireLease(e) \/ Enqueue(e) \/ Dequeue(e)
  \/ DeleteDeploymentsForEnv(e) \/ RecreateEnvironment(e)

PlanStep(c) ==
  \/ \E q \in Requests, s \in signed, b \in Bodies : Replay(c, q, s, b) \/ BeginPlan(c, q, s, b)
  \/ ResolveExactEnvironment(c) \/ CompilePlan(c)
  \/ CreateOrGetExternalDeploymentPlanSnapshot(c) \/ Abort(c)

ReadinessStep(c) ==
  \/ \E s \in SUBSET Envs \ {{}} : \E refs \in [s -> 1..MaxIdentity] : BeginReadiness(c, refs)
  \/ \E e \in Envs : ResolveReference(c, e)
  \/ AnswerReadiness(c) \/ Abort(c)

Next ==
  \/ \E e \in Envs : EnvironmentStep(e)
  \/ PublishModule
  \/ \E q \in Requests, a \in Actors, b \in Bodies : SignRequest(q, a, b)
  \/ \E c \in Planners : PlanStep(c)
  \/ \E c \in Readers : ReadinessStep(c)

Spec == Init /\ [][Next]_vars

-----------------------------------------------------------------------------
(* Properties                                                              *)

\* Whoever is answered under one planning request id - the first caller, one that
\* raced it, a retry - is the same actor with the same body and gets the same plan
\* (HandlePlan, CreateOrGetExternalDeploymentPlanSnapshot).
OneAnswerPerRequest ==
  \A x, y \in answers : x.key = y.key => x = y

\* A stored plan is what Core signed for its actor under that very key: neither a
\* replayed context nor a changed body gets a plan (verifyInspectionRequest).
PlansAreSigned ==
  \A q \in Requests : plans[q] # NoPlan =>
    [key |-> q, actor |-> plans[q].actor, body |-> plans[q].body] \in signed

\* A plan starts from a Deployment of the Environment identity it was asked for,
\* also when the Environment is deleted and created again while Core is asked
\* (resolveExactEnvironment inside the transaction of HandlePlan).
PlanOfIdentity ==
  \A q \in Requests : plans[q] # NoPlan => plans[q].base[1] = plans[q].body.id

\* The base a readiness answer names belongs to the identity the caller asked
\* about, although that identity was resolved before the history was read
\* (HandleReadiness).
ReadinessOfIdentity ==
  \A c \in Readers : \A i \in readiness[c] : i.base # NoBase => i.base[1] = i.asked

\* "ready" is never said of an Environment with a Deployment running - of any mode,
\* its lease expired or not -, with a queued one that goes first, or with an
\* observation that may still hold the state lock (projectEnvironmentReadiness,
\* RequireObservationStopped).
ReadyIsIdleStep ==
  \A c \in Readers : readiness'[c] # readiness[c] =>
    \A i \in readiness'[c] : i.state = "ready" =>
      LET h == env[i.env] IN ~Busy(h) /\ ~h.queued /\ ~h.held
ReadyIsIdle == [][ReadyIsIdleStep]_vars

\* A plan in progress saw its Environment idle, with its newest state change
\* succeeded, and that is its base (HandlePlan's one REPEATABLE READ snapshot).
PlanOfIdleState ==
  \A c \in Planners : caller[c].pc = "compiled" =>
    LET h == caller[c].seen
    IN  /\ ~Busy(h) /\ ~h.queued /\ ~h.held
        /\ caller[c].plan.base = Named(h, h.head)
        /\ \A n \in 1..Len(h.deps) : h.deps[n].mode \in Mutating => n <= h.head

\* An Environment that planning takes for ready has a planning base: an Environment
\* "does not have a reconciled planning base" is refused (HandlePlan).
ReadyHasBase ==
  \A c \in Planners : caller[c].pc = "resolved" => EffectiveBase(caller[c].seen) # NoBase
=============================================================================
