-------------------------- MODULE DeploymentRequests --------------------------
(***************************************************************************)
(* POST /deployments for one Environment (internal/api/deployments.go,     *)
(* deployment_queue.go and the request part of deployments_core.go): what  *)
(* concurrent calls, retried with the same Idempotency-Key, make of a      *)
(* request.  A call validates, looks for an earlier use of its key, checks *)
(* availability, and then creates a Deployment, with its Core admission,   *)
(* or enqueues the request.  A promoter turns queued requests into         *)
(* Deployments.                                                            *)
(*                                                                         *)
(* Every transaction that looks up a key's Deployment keeps the key's      *)
(* advisory lock to its end.  The admission of a keyed request is named    *)
(* after the key, and its receipt outlives the idempotency window.  The    *)
(* order of the queue, fences and expected bases are EnvironmentQueue's    *)
(* subject; Core's guard is DeploymentAdmission's.                         *)
(***************************************************************************)
EXTENDS Naturals, Sequences, FiniteSets

CONSTANTS
  Calls,           \* calls of the endpoint
  Bodies,          \* the requests calls may carry
  NoKey,           \* a call without Idempotency-Key
  NoManifest,
  NoOne,           \* the holder of a free lock
  Promoter,        \* the promoter as the holder of a lock
  MaxDepth,        \* MaxDepth of the queue
  MaxDeployments   \* bound: Deployments of a behaviour

Keys == {q.key : q \in Bodies} \ {NoKey}

\* The modes of the API, and owners of locks that can be told apart.
RequestsAssumption ==
  /\ \A q \in Bodies : q.mode \in {"deploy", "plan_only", "rollback", "destroy"} /\ q.target \in Nat
  /\ NoOne \notin Calls \cup {Promoter} /\ Promoter \notin Calls
  /\ MaxDepth \in Nat /\ MaxDeployments \in Nat

VARIABLES
  req,       \* the request each call carries
  call,      \* per call: its step, the Environment status it read, its failure, its answer
  deps,      \* the Environment's Deployments, in order of creation
  items,     \* its queue, in order of seq
  keyLock,   \* per key: who holds the "deployment-command" advisory lock
  admLock,   \* per key: who holds the advisory lock of the admission named after it
  receipt,   \* per key: the admission receipt
  deleting,  \* whether the Control Plane deletes the Environment
  promoter   \* the queue item under promotion (0: none)

vars == <<req, call, deps, items, keyLock, admLock, receipt, deleting, promoter>>
tables == <<deps, items, receipt, deleting>>
locks == <<keyLock, admLock>>

NoAnswer == [kind |-> "none", ref |-> 0]
NoReceipt == [disposition |-> "none", digest |-> <<>>]

Init ==
  /\ req \in [Calls -> Bodies]
  /\ call = [c \in Calls |-> [pc |-> "idle", deleting |-> FALSE, failure |-> "none", answer |-> NoAnswer]]
  /\ deps = <<>> /\ items = <<>>
  /\ keyLock = [k \in Keys |-> NoOne] /\ admLock = [k \in Keys |-> NoOne]
  /\ receipt = [k \in Keys |-> NoReceipt]
  /\ deleting = FALSE /\ promoter = 0

-----------------------------------------------------------------------------
(***************************************************************************)
(* The request.                                                            *)
(***************************************************************************)
NeedsNoManifest(mode) == mode \in {"rollback", "destroy"}

(***************************************************************************)
(* The checks the API schema does not make.  "malformed" stands for names, *)
(* for variables beside outputs and for recipients that do not parse.      *)
(***************************************************************************)
Invalid(q) ==
  \/ NeedsNoManifest(q.mode) /\ q.manifest # NoManifest
  \/ ~NeedsNoManifest(q.mode) /\ q.manifest = NoManifest
  \/ (q.mode = "rollback") # (q.target # 0)
  \/ q.mode = "rollback" /\ q.versions # {}
  \/ q.malformed
  \/ q.mode = "plan_only" /\ q.planOnly = "false"
  \/ q.halt /\ q.whenBusy # "queue"
  \/ q.ttl # "unset" /\ q.whenBusy # "queue"
  \/ q.ttl = "above maximum"

ModelMode(q) ==
  CASE q.mode = "deploy"   -> IF q.planOnly = "true" THEN "plan_only" ELSE "deploy"
    [] q.mode = "rollback" -> IF q.planOnly = "true" THEN "rollback_plan" ELSE "rollback"
    [] OTHER               -> q.mode

RequiresEnvironmentLease(mode) == mode \in {"deploy", "rollback", "destroy"}
UsesLastGraph(mode) == mode \in {"rollback", "rollback_plan", "destroy"}

Queueable(q) == ~q.dryRun /\ ModelMode(q) \in {"deploy", "rollback"}

\* IntentSHA256: the whole request; the time to live and the actor do not count.
IntentSHA256(q) == <<ModelMode(q), q.manifest, q.target, q.versions, q.halt>>

-----------------------------------------------------------------------------
(***************************************************************************)
(* Rows and locks.                                                         *)
(***************************************************************************)
Newest(S) == IF S = {} THEN 0 ELSE CHOOSE i \in S : \A j \in S : j <= i
Oldest(S) == CHOOSE i \in S : \A j \in S : i <= j

\* The Deployment and the queue item that carry a key within the idempotency window (0: none).
DeploymentOfKey(k) == Newest({d \in DOMAIN deps : deps[d].key = k /\ deps[d].recent})
ItemOfKey(k) == Newest({i \in DOMAIN items : items[i].key = k /\ items[i].recent})

Queued == {i \in DOMAIN items : items[i].state = "queued"}
Executing == {d \in DOMAIN deps : deps[d].executing}
StateHead == Newest({d \in DOMAIN deps : RequiresEnvironmentLease(deps[d].mode)})

\* Something executes or, for what needs the lease, waits in front.
Busy(mode, i) ==
  Executing # {} \/ (RequiresEnvironmentLease(mode) /\ Queued # {} /\ Oldest(Queued) # i)

\* Mutant: without the advisory lock, only existing rows are serialised.
RowLocksOnly(k) == TRUE

KeyFree(k) == k # NoKey => keyLock[k] = NoOne

Locked(lock, k, owner) == IF k = NoKey THEN lock ELSE [lock EXCEPT ![k] = owner]

\* The end of a transaction, committed or rolled back.
Unlocked(lock, owner) == [k \in DOMAIN lock |-> IF lock[k] = owner THEN NoOne ELSE lock[k]]

\* The Deployment that carries the key answers only the request that created it.
Replays(q, d) ==
  /\ deps[d].mode = ModelMode(q)
  /\ ModelMode(q) = "destroy" \/ deps[d].manifest = q.manifest
  /\ deps[d].versions = q.versions /\ deps[d].target = q.target

\* Rollback and destroy store the manifest of the Deployment they start from.
StoredManifest(q) ==
  CASE q.target # 0 -> deps[q.target].manifest
    [] ModelMode(q) = "destroy" -> deps[StateHead].manifest
    [] OTHER -> q.manifest

HasReference(q) ==
  /\ q.target # 0 => q.target \in DOMAIN deps
  /\ ModelMode(q) = "destroy" => StateHead # 0

NewDeployment(q, key) ==
  [key |-> key, mode |-> ModelMode(q), manifest |-> StoredManifest(q), versions |-> q.versions,
   target |-> q.target, executing |-> TRUE, recent |-> TRUE]

\* The digest of the compiled request: the same request compiles differently on another base.
Digest(q) == <<ModelMode(q), q.manifest, q.target, q.versions, StateHead>>

-----------------------------------------------------------------------------
(***************************************************************************)
(* A call.                                                                 *)
(***************************************************************************)
At(c, pc) == call[c].pc = pc
Key(c) == req[c].key
Goto(c, pc) == call' = [call EXCEPT ![c].pc = pc]
Answer(c, kind, ref) ==
  call' = [call EXCEPT ![c].pc = "done", ![c].answer = [kind |-> kind, ref |-> ref]]

\* Authentication, the Environment's status, authorization (external) and validation.
Arrive(c) ==
  LET q == req[c] IN
  /\ At(c, "idle")
  /\ \/ Answer(c, "refused", 0)
     \/ Invalid(q) /\ Answer(c, "invalid", 0)
     \/ /\ ~Invalid(q)
        /\ call' = [call EXCEPT ![c].deleting = deleting, ![c].pc =
             IF Queueable(q) /\ q.key # NoKey THEN "replay"
             ELSE IF Queueable(q) /\ q.whenBusy = "queue" THEN "check" ELSE "begin"]
  /\ UNCHANGED <<req, tables, locks, promoter>>

AfterReplay(c) == IF req[c].whenBusy = "queue" THEN "check" ELSE "begin"

FindReplay(c) ==
  LET i == ItemOfKey(Key(c)) IN
  /\ At(c, "replay")
  /\ \/ i # 0 /\ items[i].intent # IntentSHA256(req[c]) /\ Answer(c, "key refused", 0)
     \/ i # 0 /\ items[i].intent = IntentSHA256(req[c])
          /\ IF items[i].state = "dispatched" THEN Goto(c, "begin") ELSE Answer(c, "queued", i)
     \/ /\ i = 0 /\ KeyFree(Key(c))
        /\ Goto(c, IF DeploymentOfKey(Key(c)) # 0 THEN "begin" ELSE AfterReplay(c))
  /\ UNCHANGED <<req, tables, locks, promoter>>

CheckEnvironmentAvailable(c) ==
  /\ At(c, "check")
  /\ \/ call[c].deleting /\ Answer(c, "refused", 0)
     \/ ~call[c].deleting /\ Goto(c, IF Busy("deploy", 0) THEN "enqueue" ELSE "begin")
  /\ UNCHANGED <<req, tables, locks, promoter>>

(***************************************************************************)
(* The main transaction.  Assigning a Runner may fail.  A replayed         *)
(* Deployment has no diff, which a dry run dereferences.                   *)
(***************************************************************************)
Begin(c) ==
  LET q == req[c]
      d == DeploymentOfKey(q.key)
  IN /\ At(c, "begin")
     /\ \/ call[c].deleting /\ q.mode # "destroy" /\ Answer(c, "refused", 0) /\ UNCHANGED keyLock
        \/ \E failure \in {"refused", "error"} : Answer(c, failure, 0) /\ UNCHANGED keyLock
        \/ /\ ~(call[c].deleting /\ q.mode # "destroy")
           /\ UsesLastGraph(ModelMode(q)) /\ q.manifest # NoManifest
           /\ Answer(c, "internal", 0) /\ UNCHANGED keyLock
        \/ /\ ~(call[c].deleting /\ q.mode # "destroy")
           /\ ~(UsesLastGraph(ModelMode(q)) /\ q.manifest # NoManifest)
           /\ KeyFree(q.key)
           /\ IF q.key = NoKey \/ d = 0
              THEN Goto(c, "compile") /\ keyLock' = Locked(keyLock, q.key, c)
              ELSE /\ IF ~Replays(q, d) THEN Answer(c, "key refused", 0)
                      ELSE Answer(c, IF q.dryRun THEN "panic" ELSE "created", d)
                   /\ UNCHANGED keyLock
     /\ UNCHANGED <<req, tables, admLock, promoter>>

\* The transaction is rolled back; an admission that was prepared is sealed next.
Fail(c, failure, prepared) ==
  /\ call' = [call EXCEPT ![c].failure = failure,
                          ![c].pc = IF prepared THEN "seal" ELSE "failed"]
  /\ keyLock' = Unlocked(keyLock, c) /\ admLock' = Unlocked(admLock, c)
  /\ UNCHANGED <<req, tables, promoter>>

\* Reference, Runner, catalogue, authorization of Module Versions, graph and program.
Compile(c) ==
  LET q == req[c] IN
  /\ At(c, "compile")
  /\ \/ \E failure \in {"refused", "error"} : Fail(c, failure, FALSE)
     \/ /\ HasReference(q) /\ q.dryRun
        /\ Answer(c, "planned", 0) /\ keyLock' = Unlocked(keyLock, c)
        /\ UNCHANGED <<req, tables, admLock, promoter>>
     \/ /\ HasReference(q) /\ ~q.dryRun
        /\ Goto(c, IF ~RequiresEnvironmentLease(ModelMode(q)) THEN "insert"
                   ELSE IF q.key = NoKey THEN "authorize" ELSE "prepare")
        /\ UNCHANGED <<req, tables, locks, promoter>>

\* prepare: a transaction of its own, before any remote effect.
Prepare(c) ==
  LET k == Key(c) IN
  /\ At(c, "prepare") /\ admLock[k] = NoOne
  /\ IF receipt[k] # NoReceipt /\ receipt[k].digest # Digest(req[c])
     THEN Fail(c, "key refused", FALSE)
     ELSE /\ receipt' = IF receipt[k] # NoReceipt THEN receipt
                        ELSE [receipt EXCEPT ![k] = [disposition |-> "pending", digest |-> Digest(req[c])]]
          /\ Goto(c, "receipt")
          /\ UNCHANGED <<req, deps, items, deleting, locks, promoter>>

\* The main transaction locks the receipt; one with an outcome is never used again.
GetReceipt(c) ==
  LET k == Key(c) IN
  /\ At(c, "receipt") /\ admLock[k] = NoOne
  /\ IF receipt[k].disposition # "pending" THEN Fail(c, "key refused", TRUE)
     ELSE /\ admLock' = [admLock EXCEPT ![k] = c] /\ Goto(c, "authorize")
          /\ UNCHANGED <<req, tables, keyLock, promoter>>

\* Core's answer (external).
AuthorizeCore(c) ==
  /\ At(c, "authorize")
  /\ \/ Goto(c, "insert") /\ UNCHANGED <<req, tables, locks, promoter>>
     \/ \E failure \in {"busy", "refused", "error"} : Fail(c, failure, Key(c) # NoKey)

\* CreateDeployment, Bind and the commit.
Insert(c) ==
  LET q == req[c]
      mode == ModelMode(q)
      prepared == RequiresEnvironmentLease(mode) /\ q.key # NoKey
  IN /\ At(c, "insert")
     /\ \/ Busy(mode, 0) /\ Fail(c, "busy", prepared)
        \/ Fail(c, "error", prepared)
        \/ /\ ~Busy(mode, 0) /\ Len(deps) < MaxDeployments
           /\ deps' = Append(deps, NewDeployment(q, q.key))
           /\ receipt' = IF prepared THEN [receipt EXCEPT ![q.key].disposition = "committed"] ELSE receipt
           /\ Answer(c, "created", Len(deps) + 1)
           /\ keyLock' = Unlocked(keyLock, c) /\ admLock' = Unlocked(admLock, c)
           /\ UNCHANGED <<req, items, deleting, promoter>>

\* SealAbsent: refused for a receipt another attempt committed; Core may not answer.
Seal(c) ==
  LET k == Key(c) IN
  /\ At(c, "seal") /\ admLock[k] = NoOne
  /\ IF receipt[k].disposition = "committed"
     THEN /\ call' = [call EXCEPT ![c].pc = "failed", ![c].failure = "key refused"]
          /\ UNCHANGED receipt
     ELSE /\ receipt' = [receipt EXCEPT ![k].disposition = "absent"]
          /\ call' \in {[call EXCEPT ![c].pc = "failed", ![c].failure = f] : f \in {call[c].failure, "error"}}
  /\ UNCHANGED <<req, deps, items, deleting, locks, promoter>>

\* createDeployment after an error: a busy Environment lets the request wait.
Failed(c) ==
  /\ At(c, "failed")
  /\ IF call[c].failure = "busy" /\ Queueable(req[c]) /\ req[c].whenBusy = "queue"
     THEN Goto(c, "enqueue") ELSE Answer(c, call[c].failure, 0)
  /\ UNCHANGED <<req, tables, locks, promoter>>

\* Refused for an organization token, which names nobody who could wait, and by a full queue.
\* EnqueueDeployment looks for an item of the
\* key, not for a Deployment of it.
Enqueue(c) ==
  LET q == req[c]
      i == IF q.key = NoKey THEN 0 ELSE ItemOfKey(q.key)
      full == Cardinality(Queued) >= MaxDepth
  IN /\ At(c, "enqueue")
     /\ \/ Answer(c, "refused", 0) /\ UNCHANGED items
        \/ /\ i # 0 /\ UNCHANGED items
           /\ IF items[i].intent = IntentSHA256(q) THEN Answer(c, "queued", i) ELSE Answer(c, "key refused", 0)
        \/ /\ i = 0 /\ ~full
           /\ items' = Append(items, [key |-> q.key, intent |-> IntentSHA256(q), body |-> q,
                                      state |-> "queued", deployment |-> 0, recent |-> TRUE])
           /\ Answer(c, "queued", Len(items) + 1)
     /\ UNCHANGED <<req, deps, receipt, deleting, locks, promoter>>

-----------------------------------------------------------------------------
(***************************************************************************)
(* The queue and the rest of the world.                                    *)
(***************************************************************************)
Settled(i, state, d) == [items EXCEPT ![i].state = state, ![i].deployment = d]

PromotedKey(i) == items[i].key

\* promoteQueueHead: claim the head, then look for a Deployment that carries its key.
Promote ==
  LET i == Oldest(Queued)
      k == PromotedKey(i)
      d == IF k = NoKey THEN 0 ELSE DeploymentOfKey(k)
  IN /\ promoter = 0 /\ Queued # {} /\ ~Busy("deploy", i) /\ KeyFree(k)
     /\ IF d = 0
        THEN promoter' = i /\ keyLock' = Locked(keyLock, k, Promoter) /\ UNCHANGED items
        ELSE /\ items' = IF Replays(items[i].body, d) THEN Settled(i, "dispatched", d) ELSE Settled(i, "rejected", 0)
             /\ UNCHANGED <<promoter, keyLock>>
     /\ UNCHANGED <<req, call, deps, receipt, deleting, admLock>>

\* The rest of the promotion, with an admission of its own: created, deferred or rejected.
EndPromotion ==
  LET i == promoter IN
  /\ i # 0
  /\ \/ /\ ~deleting /\ ~Busy("deploy", i) /\ HasReference(items[i].body) /\ Len(deps) < MaxDeployments
        /\ deps' = Append(deps, NewDeployment(items[i].body, PromotedKey(i)))
        /\ items' = Settled(i, "dispatched", Len(deps) + 1)
     \/ items' = Settled(i, "rejected", 0) /\ UNCHANGED deps
     \/ UNCHANGED <<deps, items>>
  /\ promoter' = 0 /\ keyLock' = Unlocked(keyLock, Promoter)
  /\ UNCHANGED <<req, call, receipt, deleting, admLock>>

\* Cancellation and expiry; the promoter's row lock keeps both away.
SettleItem(i) ==
  /\ i \in Queued /\ i # promoter
  /\ \E state \in {"cancelled", "expired"} : items' = Settled(i, state, 0)
  /\ UNCHANGED <<req, call, deps, receipt, deleting, locks, promoter>>

CompleteDeployment(d) ==
  /\ d \in Executing /\ deps' = [deps EXCEPT ![d].executing = FALSE]
  /\ UNCHANGED <<req, call, items, receipt, deleting, locks, promoter>>

BeginDeletion ==
  /\ ~deleting /\ deleting' = TRUE
  /\ UNCHANGED <<req, call, deps, items, receipt, locks, promoter>>

\* A day passes: calls are over, items dispatched or expired, keys out of their window.
WindowPasses ==
  /\ \A c \in Calls : call[c].pc \in {"idle", "done"}
  /\ promoter = 0 /\ Queued = {}
  /\ \E d \in DOMAIN deps : deps[d].recent
  /\ deps' = [d \in DOMAIN deps |-> [deps[d] EXCEPT !.recent = FALSE]]
  /\ items' = [i \in DOMAIN items |-> [items[i] EXCEPT !.recent = FALSE]]
  /\ UNCHANGED <<req, call, receipt, deleting, locks, promoter>>

CallStep(c) ==
  \/ Arrive(c) \/ FindReplay(c) \/ CheckEnvironmentAvailable(c) \/ Begin(c) \/ Compile(c)
  \/ Prepare(c) \/ GetReceipt(c) \/ AuthorizeCore(c) \/ Insert(c) \/ Seal(c) \/ Failed(c) \/ Enqueue(c)

Idle == (\A c \in Calls : At(c, "done")) /\ Executing = {} /\ Queued = {} /\ promoter = 0 /\ UNCHANGED vars

Next ==
  \/ \E c \in Calls : CallStep(c)
  \/ Promote \/ EndPromotion \/ BeginDeletion \/ WindowPasses \/ Idle
  \/ \E i \in DOMAIN items : SettleItem(i)
  \/ \E d \in DOMAIN deps : CompleteDeployment(d)

Spec == Init /\ [][Next]_vars

\* Handlers run to their end, the advisory locks are granted in the order they were asked for,
\* and the transaction of the promoter ends.
Fairness == (\A c \in Calls : SF_vars(CallStep(c))) /\ WF_vars(EndPromotion)

FairSpec == Spec /\ Fairness

-----------------------------------------------------------------------------
\* The Deployment a call's answer names, now.
Named(c) ==
  LET a == call[c].answer IN
  CASE a.kind = "created" -> {a.ref}
    [] a.kind = "queued" /\ items[a.ref].state = "dispatched" -> {items[a.ref].deployment}
    [] OTHER -> {}

\* One key makes one Deployment within its window, whichever way its calls, their retries and
\* the promotion of a queued one interleave.
OncePerKey ==
  \A a, b \in DOMAIN deps :
    deps[a].key = deps[b].key /\ deps[a].key # NoKey /\ deps[a].recent /\ deps[b].recent => a = b

\* All calls of a key that were answered within its window end up at one Deployment, also when
\* one of them was queued while another was creating it.
AnswersAgree ==
  \A a, b \in Calls :
    Key(a) = Key(b) /\ Key(a) # NoKey =>
      \A d \in Named(a), e \in Named(b) : deps[d].recent /\ deps[e].recent => d = e

\* A call that was accepted names a Deployment of its own request, never one that another
\* request made under the same key.
KeyBindsRequest ==
  \A c \in Calls : \A d \in Named(c) :
    /\ deps[d].mode = ModelMode(req[c]) /\ deps[d].versions = req[c].versions
    /\ deps[d].target = req[c].target
    /\ ~UsesLastGraph(deps[d].mode) => deps[d].manifest = req[c].manifest

\* The checks of the API and of the compilation agree: no request gets past the first to be
\* stopped as an internal error by the second.
ValidatedNeverInternal == \A c \in Calls : call[c].answer.kind # "internal"

\* One idempotency key makes one Deployment, and all its calls answered within the
\* window end at it, however calls, retries and the promotion of a queued one
\* interleave; a call never gets the Deployment of another request; and no request
\* that the API lets through is stopped as an internal error by the compilation
\* (createDeployment).
KeyedOnce == OncePerKey /\ AnswersAgree /\ KeyBindsRequest /\ ValidatedNeverInternal

\* Every call is answered: no transaction waits for a lock that its own call, or one that waits
\* for it, holds.
EveryCallAnswered == \A c \in Calls : <>At(c, "done")

(***************************************************************************)
(* What the documentation says and the code does not do.                   *)
(***************************************************************************)
\* spec.yaml: a key that matches a queued request returns its Deployment once it is dispatched;
\* and the Deployment that carries the key answers the same request again.
KeyedRequestReplays ==
  \A c \in Calls : call[c].answer.kind = "key refused" =>
    ~\E a \in Calls : Named(a) # {} /\ req[a] = req[c] /\ \A d \in Named(a) : deps[d].recent

\* spec.yaml: a request is only accepted once per key per 24 hours, so a key is only refused when
\* it was accepted in that time.
KeyRefusalJustified ==
  \A c \in Calls : call[c].answer.kind = "key refused" =>
    DeploymentOfKey(Key(c)) # 0 \/ ItemOfKey(Key(c)) # 0

\* spec.yaml: a dry run is answered while Deployments run or wait.
DryRunsAnswered == \A c \in Calls : call[c].answer.kind # "panic"

\* spec.yaml: plan-only requests and dry runs ignore when_busy, queue_ttl_seconds and
\* halt_on_failure.
PlansIgnoreQueueFields ==
  \A c \in Calls :
    call[c].answer.kind = "invalid" /\ (req[c].dryRun \/ ModelMode(req[c]) \in {"plan_only", "rollback_plan"}) =>
      Invalid([req[c] EXCEPT !.whenBusy = "queue", !.halt = FALSE, !.ttl = "unset"])

=============================================================================
