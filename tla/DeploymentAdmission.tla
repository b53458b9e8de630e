------------------------- MODULE DeploymentAdmission -------------------------
(***************************************************************************)
(* Core admission of ordinary Deployments.  Core guards an Environment for *)
(* one admission at a time; the Data Plane keeps a receipt per admission   *)
(* and promises that Core's guard and the Deployment agree, whatever       *)
(* crashes, times out or is retried between the two databases.             *)
(*                                                                         *)
(* An attempt's main transaction holds the receipt's advisory lock from    *)
(* reading the receipt until it commits or rolls back.  Preparing, sealing *)
(* and marking are transactions of their own, one step each, that need the *)
(* lock.  Calls to Core are steps of their own, and an authorization that  *)
(* timed out may still reach Core later.                                   *)
(*                                                                         *)
(* Operators that no action uses are seeded faults, see PROJECT.json.      *)
(***************************************************************************)
EXTENDS Naturals, FiniteSets

CONSTANTS
  Attempts,       \* attempts to create a Deployment; it gets its attempt's name
  Admissions,     \* admission ids; retries with one idempotency key share theirs
  EnvironmentOf,  \* the Environment an admission id was derived for
  Digests,        \* digests of the compiled request
  Reconciler,     \* the process that runs ReconcileUnsettled
  Handler,        \* the consumer of deployment.updated
  None,           \* no Deployment, no digest, no lock holder
  Deleting        \* may an Environment be deleted before its receipts are settled?

Workers == Attempts \cup {Reconciler, Handler}
Terminal == {"succeeded", "failed"}

ASSUME AdmissionAssumption ==
  /\ Reconciler \notin Attempts /\ Handler \notin Attempts /\ Reconciler # Handler
  /\ None \notin Workers /\ None \notin Digests /\ None \notin Admissions
  /\ IsFiniteSet(Admissions) /\ DOMAIN EnvironmentOf = Admissions
  /\ Deleting \in BOOLEAN

VARIABLES
  receipt,     \* deployment_admission_receipts
  lock,        \* per admission: the attempt whose transaction holds the advisory lock
  process,     \* per worker: its step, the admission, its digest, the outcome it reports
  deployment,  \* per attempt: the Deployment it committed
  core,        \* Core's admissions
  late,        \* authorizations whose caller gave up and that Core has not seen yet
  todo         \* the batch ReconcileUnsettled still has to go through

vars == <<receipt, lock, process, deployment, core, late, todo>>

NoReceipt == [disposition |-> "none", digest |-> None, deployment |-> None,
              outcome |-> "none", settled |-> FALSE, rank |-> 0]
NoProcess == [pc |-> "idle", id |-> None, digest |-> None, outcome |-> "none"]
NoAdmission == [state |-> "none", digest |-> None, outcome |-> "none"]

Init ==
  /\ receipt = [i \in Admissions |-> NoReceipt]
  /\ lock = [i \in Admissions |-> None]
  /\ process = [w \in Workers |-> NoProcess]
  /\ deployment = [a \in Attempts |-> "none"]
  /\ core = [i \in Admissions |-> NoAdmission]
  /\ late = {} /\ todo = {}
-----------------------------------------------------------------------------
At(w, pc) == process[w].pc = pc
Id(w) == process[w].id
Digest(w) == process[w].digest

\* Next step of a worker.  An attempt that ended is over; the reconciler and
\* the event handler go on with something else.
Go(w, pc, outcome) ==
  process' = [process EXCEPT ![w] = [pc |-> pc, id |-> Id(w), digest |-> Digest(w), outcome |-> outcome]]
End(w) ==
  process' = [process EXCEPT ![w] = IF w \in Attempts
                                    THEN [pc |-> "done", id |-> Id(w), digest |-> Digest(w), outcome |-> "none"]
                                    ELSE NoProcess]

\* lockDeploymentAdmission: nobody else's transaction holds the advisory lock.
LockFree(i) == lock[i] = None
Unlocked(a) == [i \in Admissions |-> IF lock[i] = a THEN None ELSE lock[i]]

\* An attempt that failed rolls its transaction back and seals its admission.
RollBackAndSeal(a) == lock' = Unlocked(a) /\ Go(a, "seal", "none")

-----------------------------------------------------------------------------
(***************************************************************************)
(* Core, as the Data Plane uses it.  Authorizing the same admission again  *)
(* repeats the answer.  An absence is remembered for an admission Core has *)
(* not met, so that a late authorization of it is refused.                 *)
(***************************************************************************)
Guarded(e) == {i \in Admissions : EnvironmentOf[i] = e /\ core[i].state = "active"}

CoreAuthorizes(i, g) ==
  \/ core[i].state = "active" /\ core[i].digest = g
  \/ core[i].state = "none" /\ Guarded(EnvironmentOf[i]) = {}

Authorized(i, g) == [core EXCEPT ![i] = [state |-> "active", digest |-> g, outcome |-> "none"]]

CoreSettled(i, outcome) ==
  [core EXCEPT ![i] = [state |-> "settled", digest |-> core[i].digest, outcome |-> outcome]]

CoreAccepts(i, outcome) ==
  IF core[i].state = "settled" THEN core[i].outcome = outcome
  ELSE core[i].state = "active" \/ outcome = "absent"

-----------------------------------------------------------------------------
(***************************************************************************)
(* An attempt                                                              *)
(***************************************************************************)
\* The identity is fixed before any remote effect; the digest when compiled.
NewAttempt(a, i, g) ==
  /\ At(a, "idle")
  /\ process' = [process EXCEPT ![a] = [pc |-> "prepare", id |-> i, digest |-> g, outcome |-> "none"]]
  /\ UNCHANGED <<receipt, lock, deployment, core, late, todo>>

Rank == 1 + Cardinality({j \in Admissions : receipt[j].disposition # "none"})

PrepareAgain(a) ==
  /\ At(a, "prepare") /\ LockFree(Id(a))
  /\ receipt' = [receipt EXCEPT ![Id(a)] =
       [disposition |-> "pending", digest |-> Digest(a), deployment |-> None,
        outcome |-> "none", settled |-> FALSE, rank |-> Rank]]
  /\ Go(a, "lock", "none")
  /\ UNCHANGED <<lock, deployment, core, late, todo>>

PrepareDeploymentAdmissionReceipt(a) ==
  LET i == Id(a) IN
  /\ At(a, "prepare") /\ LockFree(i)
  /\ \/ /\ receipt[i].disposition = "none"
        /\ receipt' = [receipt EXCEPT ![i] =
             [disposition |-> "pending", digest |-> Digest(a), deployment |-> None,
              outcome |-> "none", settled |-> FALSE, rank |-> Rank]]
        /\ Go(a, "lock", "none")
     \/ /\ receipt[i].disposition # "none" /\ receipt[i].digest = Digest(a)
        /\ Go(a, "lock", "none") /\ UNCHANGED receipt
     \/ /\ receipt[i].disposition # "none" /\ receipt[i].digest # Digest(a)
        /\ End(a) /\ UNCHANGED receipt
  /\ UNCHANGED <<lock, deployment, core, late, todo>>

\* The main transaction takes the lock and keeps it.
GetDeploymentAdmissionReceipt(a) ==
  LET i == Id(a) IN
  /\ At(a, "lock") /\ LockFree(i)
  /\ IF receipt[i].disposition = "pending"
     THEN lock' = [lock EXCEPT ![i] = a] /\ Go(a, "authorize", "none")
     ELSE RollBackAndSeal(a)
  /\ UNCHANGED <<receipt, deployment, core, late, todo>>

AuthorizeUnchecked(a) ==
  /\ At(a, "authorize")
  /\ core' = IF CoreAuthorizes(Id(a), Digest(a)) THEN Authorized(Id(a), Digest(a)) ELSE core
  /\ Go(a, "create", "none")
  /\ UNCHANGED <<receipt, lock, deployment, late, todo>>

AuthorizeCore(a) ==
  /\ At(a, "authorize")
  /\ \/ /\ CoreAuthorizes(Id(a), Digest(a))
        /\ core' = Authorized(Id(a), Digest(a))
        /\ Go(a, "create", "none") /\ UNCHANGED lock
     \/ /\ ~CoreAuthorizes(Id(a), Digest(a))
        /\ RollBackAndSeal(a) /\ UNCHANGED core
  /\ UNCHANGED <<receipt, deployment, late, todo>>

AuthorizeTimesOut(a) ==
  /\ At(a, "authorize")
  /\ late' = late \cup {[id |-> Id(a), digest |-> Digest(a)]}
  /\ RollBackAndSeal(a)
  /\ UNCHANGED <<receipt, deployment, core, todo>>

\* Core handles, or never sees, an authorization nobody waits for.
LateAuthorization(q) ==
  /\ q \in late
  /\ core' = IF CoreAuthorizes(q.id, q.digest) THEN Authorized(q.id, q.digest) ELSE core
  /\ late' = late \ {q}
  /\ UNCHANGED <<receipt, lock, process, deployment, todo>>

\* CreateDeployment, or anything after it, refuses.
CreateRefused(a) ==
  /\ At(a, "create")
  /\ RollBackAndSeal(a)
  /\ UNCHANGED <<receipt, deployment, core, late, todo>>

BindDeploymentAdmissionReceipt(a) ==
  LET i == Id(a) IN
  /\ At(a, "create")
  /\ IF receipt[i].disposition = "pending" /\ receipt[i].digest = Digest(a)
     THEN Go(a, "commit", "none") /\ UNCHANGED lock
     ELSE RollBackAndSeal(a)
  /\ UNCHANGED <<receipt, deployment, core, late, todo>>

\* The Deployment and the bound receipt become durable together.  The caller
\* may still see an error and then tries to seal what is committed.
Commit(a) ==
  LET i == Id(a) IN
  /\ At(a, "commit")
  /\ receipt' = [receipt EXCEPT ![i] =
       [disposition |-> "committed", digest |-> receipt[i].digest, deployment |-> a,
        outcome |-> "none", settled |-> FALSE, rank |-> receipt[i].rank]]
  /\ deployment' = [deployment EXCEPT ![a] = "executing"]
  /\ lock' = Unlocked(a)
  /\ End(a) \/ Go(a, "seal", "none")
  /\ UNCHANGED <<core, late, todo>>

CommitFails(a) ==
  /\ At(a, "commit")
  /\ RollBackAndSeal(a)
  /\ UNCHANGED <<receipt, deployment, core, late, todo>>

-----------------------------------------------------------------------------
(***************************************************************************)
(* Settling a receipt: the attempt after a failure, the event handler and  *)
(* the reconciler do it, perhaps all at once.                              *)
(***************************************************************************)
\* Only the reconciler has a batch to give up, and it does so on every error
\* that is not a conflict.
GiveUp(w) == End(w) /\ todo' = IF w = Reconciler THEN {} ELSE todo
Conflict(w) == End(w) /\ UNCHANGED todo

Absent(i) ==
  [disposition |-> "absent", digest |-> receipt[i].digest, deployment |-> receipt[i].deployment,
   outcome |-> "absent", settled |-> receipt[i].settled, rank |-> receipt[i].rank]

SealCommitted(w) ==
  /\ At(w, "seal") /\ LockFree(Id(w))
  /\ receipt' = [receipt EXCEPT ![Id(w)] = Absent(Id(w))]
  /\ Go(w, "core", "absent")
  /\ UNCHANGED <<lock, deployment, core, late, todo>>

SealAtCoreOnly(w) ==
  /\ At(w, "seal") /\ LockFree(Id(w))
  /\ Go(w, "core", "absent")
  /\ UNCHANGED <<receipt, lock, deployment, core, late, todo>>

SealDeploymentAdmissionAbsent(w) ==
  LET i == Id(w) IN
  /\ At(w, "seal") /\ LockFree(i)
  /\ IF receipt[i].digest # Digest(w) \/ receipt[i].disposition = "committed"
     THEN Conflict(w) /\ UNCHANGED receipt
     ELSE /\ receipt' = [receipt EXCEPT ![i] = Absent(i)]
          /\ Go(w, "core", "absent") /\ UNCHANGED todo
  /\ UNCHANGED <<lock, deployment, core, late>>

\* SealDeploymentAdmissionAbsence or SettleDeploymentAdmission at Core.
SettleAtCore(w) ==
  LET i == Id(w) outcome == process[w].outcome IN
  /\ At(w, "core")
  /\ IF CoreAccepts(i, outcome)
     THEN core' = CoreSettled(i, outcome) /\ Go(w, "mark", outcome) /\ UNCHANGED todo
     ELSE GiveUp(w) /\ UNCHANGED core
  /\ UNCHANGED <<receipt, lock, deployment, late>>

\* Core cannot be reached, or its answer is lost.
CoreUnreachable(w) ==
  LET i == Id(w) outcome == process[w].outcome IN
  /\ At(w, "core")
  /\ GiveUp(w)
  /\ \/ UNCHANGED core
     \/ CoreAccepts(i, outcome) /\ core' = CoreSettled(i, outcome)
  /\ UNCHANGED <<receipt, lock, deployment, late>>

MarkDeploymentAdmissionCoreSettled(w) ==
  LET i == Id(w)
      outcome == process[w].outcome
      applies == /\ receipt[i].outcome \in {"none", outcome}
                 /\ receipt[i].disposition = IF outcome = "absent" THEN "absent" ELSE "committed"
  IN
  /\ At(w, "mark") /\ LockFree(i)
  /\ receipt' = IF applies
                THEN [receipt EXCEPT ![i] =
                       [disposition |-> receipt[i].disposition, digest |-> receipt[i].digest,
                        deployment |-> receipt[i].deployment, outcome |-> outcome, settled |-> TRUE,
                        rank |-> receipt[i].rank]]
                ELSE receipt
  /\ Conflict(w)
  /\ UNCHANGED <<lock, deployment, core, late>>

\* The worker's process dies: its transaction is rolled back.
Crash(w) ==
  /\ process[w].pc \notin {"idle", "done"}
  /\ lock' = Unlocked(w)
  /\ late' \in {late} \cup (IF At(w, "authorize") THEN {late \cup {[id |-> Id(w), digest |-> Digest(w)]}} ELSE {})
  /\ GiveUp(w)
  /\ UNCHANGED <<receipt, deployment, core>>

\* What SettleDeployment finds for a committed receipt.
SettleableEarly(i) == ~receipt[i].settled
Settleable(i) == ~receipt[i].settled /\ deployment[receipt[i].deployment] \in Terminal
BeginSettlement(w, i) ==
  process' = [process EXCEPT ![w] = [pc |-> "core", id |-> i, digest |-> receipt[i].digest,
                                     outcome |-> deployment[receipt[i].deployment]]]

\* deployment.updated, delivered at least once: redelivered after every error.
HandleDeploymentUpdated(i) ==
  /\ At(Handler, "idle")
  /\ receipt[i].disposition = "committed" /\ Settleable(i)
  /\ BeginSettlement(Handler, i)
  /\ UNCHANGED <<receipt, lock, deployment, core, late, todo>>

\* ReconcileUnsettled reads every unsettled receipt; it decides by what it read.
Unsettled == {i \in Admissions : receipt[i].disposition # "none" /\ ~receipt[i].settled}
ReconcileUnsettled ==
  /\ At(Reconciler, "idle") /\ todo = {} /\ Unsettled # {}
  /\ todo' = {[id |-> i, committed |-> receipt[i].disposition = "committed"] : i \in Unsettled}
  /\ UNCHANGED <<receipt, lock, process, deployment, core, late>>

Skip(q) == process' = process /\ todo' = todo \ {q}

ReconcileNextCommitted ==
  \E q \in todo :
    /\ At(Reconciler, "idle")
    /\ IF q.committed /\ Settleable(q.id)
       THEN BeginSettlement(Reconciler, q.id) /\ todo' = todo \ {q}
       ELSE Skip(q)
    /\ UNCHANGED <<receipt, lock, deployment, core, late>>

\* The oldest receipt of the batch comes next.  A Deployment that is gone is an
\* error, and an error ends the batch.
ReconcileNext ==
  \E q \in todo :
    /\ At(Reconciler, "idle")
    /\ \A r \in todo : receipt[q.id].rank <= receipt[r.id].rank
    /\ \/ /\ ~q.committed
          /\ process' = [process EXCEPT ![Reconciler] =
               [pc |-> "seal", id |-> q.id, digest |-> receipt[q.id].digest, outcome |-> "none"]]
          /\ todo' = todo \ {q}
       \/ /\ q.committed /\ Settleable(q.id)
          /\ BeginSettlement(Reconciler, q.id) /\ todo' = todo \ {q}
       \/ /\ q.committed /\ ~Settleable(q.id)
          /\ IF ~receipt[q.id].settled /\ deployment[receipt[q.id].deployment] = "deleted"
             THEN GiveUp(Reconciler)
             ELSE Skip(q)
    /\ UNCHANGED <<receipt, lock, deployment, core, late>>
-----------------------------------------------------------------------------
\* The Deployment ends; its status is final.
DeploymentEnds(a, status) ==
  /\ deployment[a] = "executing"
  /\ deployment' = [deployment EXCEPT ![a] = status]
  /\ UNCHANGED <<receipt, lock, process, core, late, todo>>

\* DeleteDeploymentsForEnv: Deployments go, receipts stay.  A forced deletion
\* takes an executing Deployment too, as long as no Runner works for it.
DeleteDeploymentsForEnv(e) ==
  LET gone == {a \in Attempts : deployment[a] # "none" /\ EnvironmentOf[Id(a)] = e} IN
  /\ Deleting /\ gone # {}
  /\ deployment' = [a \in Attempts |-> IF a \in gone THEN "deleted" ELSE deployment[a]]
  /\ UNCHANGED <<receipt, lock, process, core, late, todo>>

AttemptStep(a) ==
  \/ PrepareDeploymentAdmissionReceipt(a) \/ GetDeploymentAdmissionReceipt(a)
  \/ AuthorizeCore(a) \/ AuthorizeTimesOut(a)
  \/ CreateRefused(a) \/ BindDeploymentAdmissionReceipt(a) \/ Commit(a) \/ CommitFails(a)

Settles(w) ==
  SealDeploymentAdmissionAbsent(w) \/ SettleAtCore(w) \/ MarkDeploymentAdmissionCoreSettled(w)

Next ==
  \/ \E a \in Attempts, i \in Admissions, g \in Digests : NewAttempt(a, i, g)
  \/ \E a \in Attempts : AttemptStep(a)
  \/ \E q \in late : LateAuthorization(q)
  \/ \E w \in Workers : Settles(w) \/ CoreUnreachable(w) \/ Crash(w)
  \/ \E i \in Admissions : HandleDeploymentUpdated(i)
  \/ ReconcileUnsettled \/ ReconcileNext
  \/ \E a \in Attempts, status \in Terminal : DeploymentEnds(a, status)
  \/ \E i \in Admissions : DeleteDeploymentsForEnv(EnvironmentOf[i])

Spec == Init /\ [][Next]_vars

(***************************************************************************)
(* Fairness: every replica reconciles once a minute and transactions end.  *)
(* Crashes and failed calls to Core may recur for ever, but each step of   *)
(* reconciling a receipt that is tried again and again succeeds sometime.  *)
(* No event needs to arrive, no late call needs to be heard.               *)
(***************************************************************************)
Reconciles(i, Step(_)) == Id(Reconciler) = i /\ Step(Reconciler)

Fairness ==
  /\ \A a \in Attempts : WF_vars(AttemptStep(a))
  /\ WF_vars(ReconcileUnsettled) /\ WF_vars(ReconcileNext)
  /\ \A i \in Admissions : /\ SF_vars(Reconciles(i, SealDeploymentAdmissionAbsent))
                           /\ SF_vars(Reconciles(i, SettleAtCore))
                           /\ SF_vars(Reconciles(i, MarkDeploymentAdmissionCoreSettled))

FairSpec == Spec /\ Fairness

-----------------------------------------------------------------------------
(***************************************************************************)
(* What the admission protocol promises.                                   *)
(***************************************************************************)
\* Every variable keeps its type.
ReceiptRecord ==
  [disposition : {"none", "pending", "committed", "absent"}, digest : Digests \cup {None},
   deployment : Attempts \cup {None}, outcome : Terminal \cup {"none", "absent"}, settled : BOOLEAN,
   rank : Nat]
ProcessRecord ==
  [pc : {"idle", "prepare", "lock", "authorize", "create", "commit", "seal", "core", "mark", "done"},
   id : Admissions \cup {None}, digest : Digests \cup {None}, outcome : Terminal \cup {"none", "absent"}]
AdmissionRecord ==
  [state : {"none", "active", "settled"}, digest : Digests \cup {None},
   outcome : Terminal \cup {"none", "absent"}]

AdmissionTypeOK ==
  /\ receipt \in [Admissions -> ReceiptRecord]
  /\ lock \in [Admissions -> Attempts \cup {None}]
  /\ process \in [Workers -> ProcessRecord]
  /\ deployment \in [Attempts -> Terminal \cup {"none", "executing", "deleted"}]
  /\ core \in [Admissions -> AdmissionRecord]
  /\ late \subseteq [id : Admissions, digest : Digests]
  /\ todo \subseteq [id : Admissions, committed : BOOLEAN]

\* A Deployment executes only under an active guard that Core granted for the
\* very request that was compiled: neither a crash, a retry with the same key,
\* nor sealing by another process takes the guard away underneath it.
GuardedExecution ==
  \A a \in Attempts :
    deployment[a] = "executing" =>
      core[Id(a)].state = "active" /\ core[Id(a)].digest = Digest(a)

\* What Core was told is what happened: absent means that no Deployment ever
\* came of the admission, any other outcome is the Deployment's final status.
CoreKnowsOutcome ==
  \A i \in Admissions :
    LET made == {a \in Attempts : Id(a) = i /\ deployment[a] # "none"} IN
    core[i].state = "settled" =>
      IF core[i].outcome = "absent" THEN made = {}
      ELSE made # {} /\ \A a \in made : deployment[a] \in {core[i].outcome, "deleted"}

\* One admission leads to at most one Deployment, the one its receipt names,
\* however many attempts share the key.
OneDeploymentPerAdmission ==
  \A i \in Admissions :
    {a \in Attempts : Id(a) = i /\ deployment[a] # "none"} =
      IF receipt[i].disposition = "committed" THEN {receipt[i].deployment} ELSE {}

\* A receipt counts as settled only after Core settled the same outcome.
SettledAtCore ==
  \A i \in Admissions :
    receipt[i].settled => core[i].state = "settled" /\ core[i].outcome = receipt[i].outcome

\* Core and the data plane agree on what became of an admission, although every
\* call to Core may be late, repeated or its answer lost: what Core was told is what
\* happened, and what the data plane believes settled is settled there.
CoreAgrees == CoreKnowsOutcome /\ SettledAtCore

\* A receipt's durable outcome is never revised, nor what it was bound to.
OutcomeFinal ==
  [][\A i \in Admissions :
       /\ receipt[i].disposition \in {"committed", "absent"} =>
            receipt'[i].disposition = receipt[i].disposition /\ receipt'[i].deployment = receipt[i].deployment
       /\ receipt[i].settled => receipt'[i] = receipt[i]]_vars

\* Core does not guard an Environment for ever for nothing: a guard that no
\* executing Deployment needs is released, also after crashes and late calls.
GuardReleased ==
  \A i \in Admissions :
    core[i].state = "active" ~>
      core[i].state = "settled" \/ \E a \in Attempts : Id(a) = i /\ deployment[a] = "executing"

\* docs/deployment-queue.md: if the process dies after Core admitted and before
\* commit, ReconcileUnsettled seals the receipt.  The code stops its batch at
\* the first receipt whose Deployment was deleted, on every later round as well.
CrashedAdmissionSealed ==
  \A i \in Admissions :
    receipt[i].disposition = "pending" /\ core[i].state = "active" ~> receipt[i].disposition # "pending"
=============================================================================
