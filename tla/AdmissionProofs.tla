--------------------------- MODULE AdmissionProofs ---------------------------
(***************************************************************************)
(* The admission protocol keeps its promises for any number of attempts,   *)
(* admissions, Environments and digests.                                   *)
(***************************************************************************)
EXTENDS DeploymentAdmission, FiniteSetTheorems, TLAPS

Holding == {"authorize", "create", "commit"}
Settling == {"core", "mark"}

\* What a worker reports to Core is what the durable state says.
Known(i, outcome) ==
  \/ outcome = "absent" /\ receipt[i].disposition = "absent"
  \/ /\ outcome \in Terminal /\ receipt[i].disposition = "committed"
     /\ deployment[receipt[i].deployment] \in {outcome, "deleted"}

\* Workers past preparation agree with their receipt; a worker that holds the
\* lock has a pending receipt, and one that may commit has Core's guard too.
WorkerInv(w) ==
  LET pc == process[w].pc i == process[w].id IN
  /\ w \notin Attempts => pc \in {"idle", "seal"} \cup Settling
  /\ pc # "idle" => i \in Admissions /\ process[w].digest \in Digests
  /\ pc \in {"lock", "seal"} \cup Holding \cup Settling =>
       receipt[i].disposition # "none" /\ receipt[i].digest = process[w].digest
  /\ pc \in Holding => lock[i] = w /\ receipt[i].disposition = "pending"
  /\ pc \in {"create", "commit"} => core[i].state = "active"
  /\ pc \in Settling => Known(i, process[w].outcome)
  /\ pc = "mark" => core[i].state = "settled" /\ core[i].outcome = process[w].outcome
ProcessInv == \A w \in Workers : WorkerInv(w)

\* A Deployment belongs to the receipt of its attempt.
DeploymentInv ==
  \A a \in Attempts :
    deployment[a] # "none" =>
      /\ process[a].pc \in {"seal", "done"}
      /\ receipt[process[a].id].disposition = "committed" /\ receipt[process[a].id].deployment = a
      /\ receipt[process[a].id].digest = process[a].digest

\* A receipt names a Deployment exactly when it is committed, and counts as
\* settled only with Core.
ReceiptOf(i) ==
  /\ receipt[i].disposition # "none" => receipt[i].digest \in Digests
  /\ receipt[i].disposition = "committed" =>
       /\ receipt[i].deployment \in Attempts /\ deployment[receipt[i].deployment] # "none"
       /\ process[receipt[i].deployment].id = i /\ core[i].state # "none"
  /\ receipt[i].disposition # "committed" => receipt[i].deployment = None
  /\ receipt[i].disposition \in {"none", "pending"} => ~receipt[i].settled
  /\ receipt[i].disposition = "absent" => receipt[i].outcome = "absent"
  /\ receipt[i].settled => core[i].state = "settled" /\ core[i].outcome = receipt[i].outcome
ReceiptInv == \A i \in Admissions : ReceiptOf(i)

\* Core knows an admission only from its receipt.
CoreInv ==
  \A i \in Admissions :
    /\ core[i].state # "none" => receipt[i].disposition # "none"
    /\ core[i].state = "active" => core[i].digest = receipt[i].digest
    /\ core[i].state = "settled" => Known(i, core[i].outcome)

\* So does a late authorization, and what the reconciler read as committed still is.
PendingInv ==
  /\ \A q \in late : receipt[q.id].disposition # "none" /\ receipt[q.id].digest = q.digest
  /\ \A q \in todo : /\ receipt[q.id].disposition # "none"
                     /\ q.committed => receipt[q.id].disposition = "committed"

IInv ==
  AdmissionTypeOK /\ ProcessInv /\ DeploymentInv /\ ReceiptInv /\ CoreInv /\ PendingInv

\* What a step may never do to a receipt: the action of OutcomeFinal.
FinalStep ==
  \A i \in Admissions :
    /\ receipt[i].disposition \in {"committed", "absent"} =>
         receipt'[i].disposition = receipt[i].disposition /\ receipt'[i].deployment = receipt[i].deployment
    /\ receipt[i].settled => receipt'[i] = receipt[i]

USE DEF Terminal, Workers, Holding, Settling, At, Id, Digest, WorkerInv, ReceiptOf

\* Nothing has happened initially.
LEMMA InitIInv == Init => IInv
BY AdmissionAssumption
DEF Init, IInv, AdmissionTypeOK, ProcessInv, DeploymentInv, ReceiptInv, CoreInv, PendingInv,
    NoReceipt, NoProcess, NoAdmission, ReceiptRecord, ProcessRecord, AdmissionRecord

\* The invariant says what the runs check.
LEMMA IInvSuffices ==
  IInv => GuardedExecution /\ CoreKnowsOutcome /\ OneDeploymentPerAdmission /\ SettledAtCore
<1> SUFFICES ASSUME IInv
             PROVE GuardedExecution /\ CoreKnowsOutcome /\ OneDeploymentPerAdmission /\ SettledAtCore
  OBVIOUS
<1>1. GuardedExecution
  <2> SUFFICES ASSUME NEW a \in Attempts, deployment[a] = "executing"
               PROVE core[process[a].id].state = "active" /\ core[process[a].id].digest = process[a].digest
    BY DEF GuardedExecution
  <2> DEFINE i == process[a].id
  <2>1. /\ i \in Admissions /\ receipt[i].disposition = "committed" /\ receipt[i].deployment = a
        /\ receipt[i].digest = process[a].digest
    BY DEF IInv, ProcessInv, DeploymentInv
  <2>2. core[i].state # "none"
    BY <2>1 DEF IInv, ReceiptInv
  <2>3. core[i].state # "settled"
    BY <2>1 DEF IInv, CoreInv, Known
  <2>4. core[i].state \in {"none", "active", "settled"}
    BY <2>1 DEF IInv, AdmissionTypeOK, AdmissionRecord
  <2>5. core[i].digest = receipt[i].digest
    BY <2>1, <2>2, <2>3, <2>4 DEF IInv, CoreInv
  <2> QED BY <2>1, <2>2, <2>3, <2>4, <2>5
<1>2. OneDeploymentPerAdmission
  BY AdmissionAssumption DEF IInv, OneDeploymentPerAdmission, AdmissionTypeOK, ProcessInv,
      DeploymentInv, ReceiptInv
<1>3. SettledAtCore
  BY DEF IInv, SettledAtCore, ReceiptInv
<1>4. CoreKnowsOutcome
  BY <1>2 DEF IInv, CoreKnowsOutcome, OneDeploymentPerAdmission, AdmissionTypeOK, CoreInv,
      ReceiptInv, Known
<1> QED BY <1>1, <1>2, <1>3, <1>4

\* An attempt begins.
LEMMA NewAttemptStep ==
  ASSUME IInv, NEW a \in Attempts,
         NEW i \in Admissions,
         NEW g \in Digests,
         NewAttempt(a, i, g)
  PROVE IInv' /\ FinalStep
<1> USE AdmissionAssumption DEF IInv, NewAttempt
<1>1. AdmissionTypeOK'
  BY DEF AdmissionTypeOK, ReceiptRecord, ProcessRecord, AdmissionRecord, ProcessInv
<1>2. ProcessInv'
  BY SMTT(30) DEF AdmissionTypeOK, ProcessInv, Known
<1>3. DeploymentInv'
  BY DEF AdmissionTypeOK, ProcessInv, DeploymentInv
<1>4. ReceiptInv'
  BY DEF AdmissionTypeOK, ProcessInv, DeploymentInv, ReceiptInv
<1>5. CoreInv'
  BY DEF AdmissionTypeOK, ProcessInv, CoreInv, Known
<1>6. PendingInv'
  BY DEF AdmissionTypeOK, ProcessInv, PendingInv
<1>7. FinalStep
  BY DEF FinalStep, AdmissionTypeOK
<1> QED BY <1>1, <1>2, <1>3, <1>4, <1>5, <1>6, <1>7

\* An attempt goes on without a durable effect.
LEMMA AdvanceStep ==
  ASSUME IInv, NEW a \in Attempts,
         NEW pc \in {"lock", "commit"},
         \/ pc = "lock" /\ At(a, "prepare") /\ receipt[Id(a)].disposition # "none" /\ receipt[Id(a)].digest = Digest(a)
         \/ pc = "commit" /\ At(a, "create"),
         Go(a, pc, "none"),
         UNCHANGED <<receipt, lock, deployment, core, late, todo>>
  PROVE IInv' /\ FinalStep
<1> USE AdmissionAssumption DEF IInv, Go
<1>1. AdmissionTypeOK'
  BY DEF AdmissionTypeOK, ReceiptRecord, ProcessRecord, AdmissionRecord, ProcessInv
<1>2. ProcessInv'
  BY SMTT(30) DEF AdmissionTypeOK, ProcessInv, Known
<1>3. DeploymentInv'
  BY DEF AdmissionTypeOK, ProcessInv, DeploymentInv
<1>4. ReceiptInv'
  BY DEF AdmissionTypeOK, ProcessInv, DeploymentInv, ReceiptInv
<1>5. CoreInv'
  BY DEF AdmissionTypeOK, ProcessInv, CoreInv, Known
<1>6. PendingInv'
  BY DEF AdmissionTypeOK, ProcessInv, PendingInv
<1>7. FinalStep
  BY DEF FinalStep, AdmissionTypeOK
<1> QED BY <1>1, <1>2, <1>3, <1>4, <1>5, <1>6, <1>7

\* A worker stops: whatever it held is released, whatever it asked may be late.
LEMMA StopStep ==
  ASSUME IInv, NEW w \in Workers,
         process[w].pc \notin {"idle", "done"},
         End(w),
         lock' = Unlocked(w) \/ (process[w].pc \notin Holding /\ lock' = lock),
         late' = late \/ (At(w, "authorize") /\ late' = late \cup {[id |-> Id(w), digest |-> Digest(w)]}),
         todo' \subseteq todo,
         UNCHANGED <<receipt, deployment, core>>
  PROVE IInv' /\ FinalStep
<1> USE AdmissionAssumption DEF IInv, End, NoProcess, Unlocked
<1>1. AdmissionTypeOK'
  BY DEF AdmissionTypeOK, ReceiptRecord, ProcessRecord, AdmissionRecord, ProcessInv
<1>2. ProcessInv'
  BY SMTT(30) DEF AdmissionTypeOK, ProcessInv, Known
<1>3. DeploymentInv'
  BY DEF AdmissionTypeOK, ProcessInv, DeploymentInv
<1>4. ReceiptInv'
  BY DEF AdmissionTypeOK, ProcessInv, DeploymentInv, ReceiptInv
<1>5. CoreInv'
  BY DEF AdmissionTypeOK, ProcessInv, CoreInv, Known
<1>6. PendingInv'
  BY DEF AdmissionTypeOK, ProcessInv, PendingInv
<1>7. FinalStep
  BY DEF FinalStep, AdmissionTypeOK
<1> QED BY <1>1, <1>2, <1>3, <1>4, <1>5, <1>6, <1>7

\* A failed attempt rolls back and turns to sealing.
LEMMA RollBackStep ==
  ASSUME IInv, NEW a \in Attempts,
         process[a].pc \in {"lock"} \cup Holding,
         RollBackAndSeal(a),
         late' = late \/ (At(a, "authorize") /\ late' = late \cup {[id |-> Id(a), digest |-> Digest(a)]}),
         UNCHANGED <<receipt, deployment, core, todo>>
  PROVE IInv' /\ FinalStep
<1> USE AdmissionAssumption DEF IInv, Go, Unlocked, RollBackAndSeal
<1>1. AdmissionTypeOK'
  BY DEF AdmissionTypeOK, ReceiptRecord, ProcessRecord, AdmissionRecord, ProcessInv
<1>2. ProcessInv'
  BY SMTT(30) DEF AdmissionTypeOK, ProcessInv, Known
<1>3. DeploymentInv'
  BY DEF AdmissionTypeOK, ProcessInv, DeploymentInv
<1>4. ReceiptInv'
  BY DEF AdmissionTypeOK, ProcessInv, DeploymentInv, ReceiptInv
<1>5. CoreInv'
  BY DEF AdmissionTypeOK, ProcessInv, CoreInv, Known
<1>6. PendingInv'
  BY DEF AdmissionTypeOK, ProcessInv, PendingInv
<1>7. FinalStep
  BY DEF FinalStep, AdmissionTypeOK
<1> QED BY <1>1, <1>2, <1>3, <1>4, <1>5, <1>6, <1>7

\* The first attempt of an admission writes its receipt.
LEMMA PrepareNewStep ==
  ASSUME IInv, NEW a \in Attempts,
         At(a, "prepare"),
         receipt[Id(a)].disposition = "none",
         receipt' = [receipt EXCEPT ![Id(a)] =
           [disposition |-> "pending", digest |-> Digest(a), deployment |-> None,
            outcome |-> "none", settled |-> FALSE, rank |-> Rank]],
         Go(a, "lock", "none"),
         UNCHANGED <<lock, deployment, core, late, todo>>
  PROVE IInv' /\ FinalStep
<1> USE AdmissionAssumption DEF IInv, Go
<1>0. Rank \in Nat
  BY FS_Subset, FS_CardinalityType DEF Rank
<1>1. AdmissionTypeOK'
  BY <1>0 DEF AdmissionTypeOK, ReceiptRecord, ProcessRecord, AdmissionRecord, ProcessInv
<1>2. ProcessInv'
  BY SMTT(30) DEF AdmissionTypeOK, ProcessInv, Known
<1>3. DeploymentInv'
  BY DEF AdmissionTypeOK, ProcessInv, DeploymentInv
<1>4. ReceiptInv'
  BY DEF AdmissionTypeOK, ProcessInv, DeploymentInv, ReceiptInv
<1>5. CoreInv'
  BY DEF AdmissionTypeOK, ProcessInv, CoreInv, Known
<1>6. PendingInv'
  BY DEF AdmissionTypeOK, ProcessInv, PendingInv
<1>7. FinalStep
  BY DEF FinalStep, AdmissionTypeOK, ReceiptRecord, ProcessInv, ReceiptInv, Known
<1> QED BY <1>1, <1>2, <1>3, <1>4, <1>5, <1>6, <1>7

\* The main transaction takes the lock of a pending receipt.
LEMMA TakeLockStep ==
  ASSUME IInv, NEW a \in Attempts,
         At(a, "lock"),
         LockFree(Id(a)),
         receipt[Id(a)].disposition = "pending",
         lock' = [lock EXCEPT ![Id(a)] = a],
         Go(a, "authorize", "none"),
         UNCHANGED <<receipt, deployment, core, late, todo>>
  PROVE IInv' /\ FinalStep
<1> USE AdmissionAssumption DEF IInv, Go, LockFree
<1>1. AdmissionTypeOK'
  BY DEF AdmissionTypeOK, ReceiptRecord, ProcessRecord, AdmissionRecord, ProcessInv
<1>2. ProcessInv'
  BY SMTT(30) DEF AdmissionTypeOK, ProcessInv, Known
<1>3. DeploymentInv'
  BY DEF AdmissionTypeOK, ProcessInv, DeploymentInv
<1>4. ReceiptInv'
  BY DEF AdmissionTypeOK, ProcessInv, DeploymentInv, ReceiptInv
<1>5. CoreInv'
  BY DEF AdmissionTypeOK, ProcessInv, CoreInv, Known
<1>6. PendingInv'
  BY DEF AdmissionTypeOK, ProcessInv, PendingInv
<1>7. FinalStep
  BY DEF FinalStep, AdmissionTypeOK
<1> QED BY <1>1, <1>2, <1>3, <1>4, <1>5, <1>6, <1>7

\* Core grants the guard.
LEMMA AuthorizeOkStep ==
  ASSUME IInv, NEW a \in Attempts,
         At(a, "authorize"),
         CoreAuthorizes(Id(a), Digest(a)),
         core' = Authorized(Id(a), Digest(a)),
         Go(a, "create", "none"),
         UNCHANGED <<receipt, lock, deployment, late, todo>>
  PROVE IInv' /\ FinalStep
<1> USE AdmissionAssumption DEF IInv, CoreAuthorizes, Authorized, Go
<1>1. AdmissionTypeOK'
  BY DEF AdmissionTypeOK, ReceiptRecord, ProcessRecord, AdmissionRecord, ProcessInv
<1>2. ProcessInv'
  <2> SUFFICES ASSUME NEW v \in Workers PROVE WorkerInv(v)'
    BY DEF ProcessInv
  <2>1. CASE v = a
    BY <2>1 DEF AdmissionTypeOK, ProcessInv, Known
  <2>2. CASE v # a
    <3>1. process'[v] = process[v]
      BY <2>2 DEF AdmissionTypeOK
    <3> QED BY <2>2, <3>1, SMTT(30) DEF AdmissionTypeOK, ProcessInv, Known
  <2> QED BY <2>1, <2>2
<1>3. DeploymentInv'
  BY DEF AdmissionTypeOK, ProcessInv, DeploymentInv
<1>4. ReceiptInv'
  BY DEF AdmissionTypeOK, ProcessInv, DeploymentInv, ReceiptInv
<1>5. CoreInv'
  BY DEF AdmissionTypeOK, ProcessInv, CoreInv, Known
<1>6. PendingInv'
  BY DEF AdmissionTypeOK, ProcessInv, PendingInv
<1>7. FinalStep
  BY DEF FinalStep, AdmissionTypeOK
<1> QED BY <1>1, <1>2, <1>3, <1>4, <1>5, <1>6, <1>7

\* Core hears an authorization nobody waits for.
LEMMA LateStep ==
  ASSUME IInv, NEW q \in late,
         LateAuthorization(q)
  PROVE IInv' /\ FinalStep
<1> USE AdmissionAssumption DEF IInv, LateAuthorization, CoreAuthorizes, Authorized
<1>1. AdmissionTypeOK'
  BY DEF AdmissionTypeOK, ReceiptRecord, ProcessRecord, AdmissionRecord, ProcessInv
<1>2. ProcessInv'
  BY SMTT(30) DEF AdmissionTypeOK, ProcessInv, Known
<1>3. DeploymentInv'
  BY DEF AdmissionTypeOK, ProcessInv, DeploymentInv
<1>4. ReceiptInv'
  BY DEF AdmissionTypeOK, ProcessInv, DeploymentInv, ReceiptInv
<1>5. CoreInv'
  BY DEF AdmissionTypeOK, AdmissionRecord, ProcessInv, DeploymentInv, ReceiptInv, CoreInv,
      PendingInv, Known
<1>6. PendingInv'
  BY DEF AdmissionTypeOK, ProcessInv, PendingInv
<1>7. FinalStep
  BY DEF FinalStep, AdmissionTypeOK
<1> QED BY <1>1, <1>2, <1>3, <1>4, <1>5, <1>6, <1>7

\* The Deployment and its receipt become durable.
LEMMA CommitStep ==
  ASSUME IInv, NEW a \in Attempts,
         Commit(a)
  PROVE IInv' /\ FinalStep
<1> USE AdmissionAssumption DEF IInv, Commit, Go, End, Unlocked
<1>0. PICK pc \in {"done", "seal"} :
        process' = [process EXCEPT ![a] =
          [pc |-> pc, id |-> process[a].id, digest |-> process[a].digest, outcome |-> "none"]]
  BY DEF AdmissionTypeOK
<1>1. AdmissionTypeOK'
  BY <1>0 DEF AdmissionTypeOK, ReceiptRecord, ProcessRecord, AdmissionRecord, ProcessInv
<1>2. ProcessInv'
  <2> SUFFICES ASSUME NEW v \in Workers PROVE WorkerInv(v)'
    BY DEF ProcessInv
  <2>1. CASE v = a
    BY <1>0, <2>1 DEF AdmissionTypeOK, ProcessInv, Known
  <2>2. CASE v # a
    <3>1. process'[v] = process[v]
      BY <1>0, <2>2 DEF AdmissionTypeOK
    <3> DEFINE i == process[v].id
    <3>2. WorkerInv(v) /\ WorkerInv(a)
      BY DEF ProcessInv
    <3>3. process[v].pc \in Holding \cup Settling => i # process[a].id
      BY <2>2, <3>2 DEF Known
    <3>4. /\ process[v].pc # "idle" => i \in Admissions
          /\ process[v].pc \in Holding \cup Settling => receipt'[i] = receipt[i]
      BY <3>2, <3>3 DEF AdmissionTypeOK
    <3>5. \A j \in Admissions :
            receipt'[j].digest = receipt[j].digest /\ (receipt[j].disposition # "none" => receipt'[j].disposition # "none")
      BY DEF AdmissionTypeOK
    <3>6. deployment[a] = "none"
      BY DEF DeploymentInv
    <3>7. process[v].pc \in Settling => Known(i, process[v].outcome)'
      BY <3>1, <3>2, <3>4, <3>6 DEF AdmissionTypeOK, ReceiptRecord, Known
    <3>8. process[v].pc \in Holding => lock'[i] = v
      BY <2>2, <3>2, <3>4 DEF AdmissionTypeOK
    <3> QED BY <3>1, <3>2, <3>4, <3>5, <3>7, <3>8 DEF AdmissionTypeOK
  <2> QED BY <2>1, <2>2
<1>3. DeploymentInv'
  BY DEF AdmissionTypeOK, ProcessInv, DeploymentInv
<1>4. ReceiptInv'
  BY DEF AdmissionTypeOK, ProcessInv, DeploymentInv, ReceiptInv
<1>5. CoreInv'
  BY DEF AdmissionTypeOK, AdmissionRecord, ProcessInv, DeploymentInv, ReceiptInv, CoreInv,
      PendingInv, Known
<1>6. PendingInv'
  BY DEF AdmissionTypeOK, ProcessInv, PendingInv
<1>7. FinalStep
  BY DEF FinalStep, AdmissionTypeOK, ReceiptRecord, ProcessInv, ReceiptInv, Known
<1> QED BY <1>1, <1>2, <1>3, <1>4, <1>5, <1>6, <1>7

\* A pending or absent receipt is sealed absent.
LEMMA SealOkStep ==
  ASSUME IInv, NEW w \in Workers,
         At(w, "seal"),
         LockFree(Id(w)),
         receipt[Id(w)].disposition # "committed",
         receipt' = [receipt EXCEPT ![Id(w)] = Absent(Id(w))],
         Go(w, "core", "absent"),
         UNCHANGED <<lock, deployment, core, late, todo>>
  PROVE IInv' /\ FinalStep
<1> USE AdmissionAssumption DEF IInv, Absent, Go, LockFree
<1>1. AdmissionTypeOK'
  BY DEF AdmissionTypeOK, ReceiptRecord, ProcessRecord, AdmissionRecord, ProcessInv
<1>2. ProcessInv'
  <2> SUFFICES ASSUME NEW v \in Workers PROVE WorkerInv(v)'
    BY DEF ProcessInv
  <2>1. CASE v = w
    BY <2>1 DEF AdmissionTypeOK, ProcessInv, Known
  <2>2. CASE v # w
    <3>1. process'[v] = process[v]
      BY <2>2 DEF AdmissionTypeOK
    <3> QED BY <2>2, <3>1, SMTT(30) DEF AdmissionTypeOK, ProcessInv, Known
  <2> QED BY <2>1, <2>2
<1>3. DeploymentInv'
  BY DEF AdmissionTypeOK, ProcessInv, DeploymentInv
<1>4. ReceiptInv'
  <2>1. \A a \in Attempts : process'[a].id = process[a].id
    BY DEF AdmissionTypeOK, ProcessRecord
  <2> SUFFICES ASSUME NEW i \in Admissions PROVE ReceiptOf(i)'
    BY DEF ReceiptInv
  <2>2. CASE i = process[w].id
    BY <2>1, <2>2, SMTT(30) DEF AdmissionTypeOK, ReceiptInv, ProcessInv, CoreInv, Known
  <2>3. CASE i # process[w].id
    <3>1. receipt'[i] = receipt[i]
      BY <2>3 DEF AdmissionTypeOK
    <3> QED BY <2>1, <3>1 DEF AdmissionTypeOK, ReceiptInv
  <2> QED BY <2>2, <2>3
<1>5. CoreInv'
  BY DEF AdmissionTypeOK, ProcessInv, CoreInv, Known
<1>6. PendingInv'
  BY DEF AdmissionTypeOK, ProcessInv, PendingInv
<1>7. FinalStep
  BY DEF FinalStep, AdmissionTypeOK, ReceiptRecord, ProcessInv, ReceiptInv, Known
<1> QED BY <1>1, <1>2, <1>3, <1>4, <1>5, <1>6, <1>7

\* Core settles an outcome, whether or not its caller hears of it.
LEMMA CoreOkStep ==
  ASSUME IInv, NEW w \in Workers,
         At(w, "core"),
         CoreAccepts(Id(w), process[w].outcome),
         core' = CoreSettled(Id(w), process[w].outcome),
         Go(w, "mark", process[w].outcome) \/ End(w),
         todo' \subseteq todo,
         UNCHANGED <<receipt, lock, deployment, late>>
  PROVE IInv' /\ FinalStep
<1> USE AdmissionAssumption DEF IInv, CoreAccepts, CoreSettled, Go, End, NoProcess
<1>1. AdmissionTypeOK'
  BY DEF AdmissionTypeOK, ReceiptRecord, ProcessRecord, AdmissionRecord, ProcessInv
<1>2. ProcessInv'
  BY SMTT(30) DEF AdmissionTypeOK, ProcessInv, Known
<1>3. DeploymentInv'
  BY DEF AdmissionTypeOK, ProcessInv, DeploymentInv
<1>8. \A a \in Attempts : process'[a].id = process[a].id
  BY DEF AdmissionTypeOK, ProcessRecord
<1>9. \A i \in Admissions :
        /\ core[i].state # "none" => core'[i].state # "none"
        /\ core[i].state = "settled" => core'[i].state = "settled" /\ core'[i].outcome = core[i].outcome
  <2>1. process[w].id \in Admissions
    BY DEF ProcessInv
  <2> QED BY <2>1 DEF AdmissionTypeOK
<1>4. ReceiptInv'
  BY <1>8, <1>9 DEF AdmissionTypeOK, ProcessInv, DeploymentInv, ReceiptInv
<1>5. CoreInv'
  BY DEF AdmissionTypeOK, ProcessInv, CoreInv, Known
<1>6. PendingInv'
  BY DEF AdmissionTypeOK, ProcessInv, PendingInv
<1>7. FinalStep
  BY DEF FinalStep, AdmissionTypeOK
<1> QED BY <1>1, <1>2, <1>3, <1>4, <1>5, <1>6, <1>7

\* The receipt of an outcome Core settled is marked.
LEMMA MarkOkStep ==
  ASSUME IInv, NEW w \in Workers,
         At(w, "mark"),
         receipt[Id(w)].disposition = IF process[w].outcome = "absent" THEN "absent" ELSE "committed",
         receipt' = [receipt EXCEPT ![Id(w)] =
           [disposition |-> receipt[Id(w)].disposition, digest |-> receipt[Id(w)].digest,
            deployment |-> receipt[Id(w)].deployment, outcome |-> process[w].outcome, settled |-> TRUE,
            rank |-> receipt[Id(w)].rank]],
         End(w),
         UNCHANGED <<lock, deployment, core, late, todo>>
  PROVE IInv' /\ FinalStep
<1> USE AdmissionAssumption DEF IInv, End, NoProcess
<1>1. AdmissionTypeOK'
  BY DEF AdmissionTypeOK, ReceiptRecord, ProcessRecord, AdmissionRecord, ProcessInv
<1>2. ProcessInv'
  <2> SUFFICES ASSUME NEW v \in Workers PROVE WorkerInv(v)'
    BY DEF ProcessInv
  <2>1. CASE v = w
    BY <2>1 DEF AdmissionTypeOK, ProcessInv, Known
  <2>2. CASE v # w
    <3>1. process'[v] = process[v]
      BY <2>2 DEF AdmissionTypeOK
    <3> QED BY <2>2, <3>1, SMTT(30) DEF AdmissionTypeOK, ProcessInv, Known
  <2> QED BY <2>1, <2>2
<1>3. DeploymentInv'
  BY DEF AdmissionTypeOK, ProcessInv, DeploymentInv
<1>4. ReceiptInv'
  <2>1. \A a \in Attempts : process'[a].id = process[a].id
    BY DEF AdmissionTypeOK, ProcessRecord
  <2> SUFFICES ASSUME NEW i \in Admissions PROVE ReceiptOf(i)'
    BY DEF ReceiptInv
  <2>2. CASE i = process[w].id
    BY <2>1, <2>2, SMTT(30) DEF AdmissionTypeOK, ReceiptInv, ProcessInv, Known
  <2>3. CASE i # process[w].id
    <3>1. receipt'[i] = receipt[i]
      BY <2>3 DEF AdmissionTypeOK
    <3> QED BY <2>1, <3>1 DEF AdmissionTypeOK, ReceiptInv
  <2> QED BY <2>2, <2>3
<1>5. CoreInv'
  BY DEF AdmissionTypeOK, ProcessInv, CoreInv, Known
<1>6. PendingInv'
  BY DEF AdmissionTypeOK, ProcessInv, PendingInv
<1>7. FinalStep
  BY DEF FinalStep, AdmissionTypeOK, ReceiptRecord, ProcessInv, ReceiptInv, Known
<1> QED BY <1>1, <1>2, <1>3, <1>4, <1>5, <1>6, <1>7

\* The handler or the reconciler reports a Deployment that ended.
LEMMA SettleStep ==
  ASSUME IInv, NEW w \in {Reconciler, Handler},
         NEW i \in Admissions,
         At(w, "idle"),
         receipt[i].disposition = "committed",
         Settleable(i),
         BeginSettlement(w, i),
         todo' \subseteq todo,
         UNCHANGED <<receipt, lock, deployment, core, late>>
  PROVE IInv' /\ FinalStep
<1> USE AdmissionAssumption DEF IInv, Settleable, BeginSettlement
<1>1. AdmissionTypeOK'
  BY DEF AdmissionTypeOK, ReceiptRecord, ProcessRecord, AdmissionRecord, ProcessInv
<1>2. ProcessInv'
  <2> SUFFICES ASSUME NEW v \in Workers PROVE WorkerInv(v)'
    BY DEF ProcessInv
  <2>1. CASE v = w
    BY <2>1 DEF AdmissionTypeOK, ProcessInv, Known, ReceiptInv
  <2>2. CASE v # w
    <3>1. process'[v] = process[v]
      BY <2>2 DEF AdmissionTypeOK
    <3> QED BY <2>2, <3>1, SMTT(30) DEF AdmissionTypeOK, ProcessInv, Known
  <2> QED BY <2>1, <2>2
<1>3. DeploymentInv'
  BY DEF AdmissionTypeOK, ProcessInv, DeploymentInv
<1>4. ReceiptInv'
  BY DEF AdmissionTypeOK, ProcessInv, DeploymentInv, ReceiptInv
<1>5. CoreInv'
  BY DEF AdmissionTypeOK, ProcessInv, CoreInv, Known
<1>6. PendingInv'
  BY DEF AdmissionTypeOK, ProcessInv, PendingInv
<1>7. FinalStep
  BY DEF FinalStep, AdmissionTypeOK
<1> QED BY <1>1, <1>2, <1>3, <1>4, <1>5, <1>6, <1>7

\* The reconciler turns to a receipt it read as not committed.
LEMMA ReconcileSealStep ==
  ASSUME IInv, NEW i \in Admissions,
         At(Reconciler, "idle"),
         receipt[i].disposition # "none",
         process' = [process EXCEPT ![Reconciler] =
           [pc |-> "seal", id |-> i, digest |-> receipt[i].digest, outcome |-> "none"]],
         todo' \subseteq todo,
         UNCHANGED <<receipt, lock, deployment, core, late>>
  PROVE IInv' /\ FinalStep
<1> USE AdmissionAssumption DEF IInv
<1>1. AdmissionTypeOK'
  BY DEF AdmissionTypeOK, ReceiptRecord, ProcessRecord, AdmissionRecord, ProcessInv
<1>2. ProcessInv'
  BY SMTT(30) DEF AdmissionTypeOK, ReceiptRecord, ProcessRecord, AdmissionRecord, ProcessInv, DeploymentInv,
      ReceiptInv, CoreInv, PendingInv, Known
<1>3. DeploymentInv'
  BY DEF AdmissionTypeOK, ProcessInv, DeploymentInv
<1>4. ReceiptInv'
  BY DEF AdmissionTypeOK, ProcessInv, DeploymentInv, ReceiptInv
<1>5. CoreInv'
  BY DEF AdmissionTypeOK, ProcessInv, CoreInv, Known
<1>6. PendingInv'
  BY DEF AdmissionTypeOK, ProcessInv, PendingInv
<1>7. FinalStep
  BY DEF FinalStep, AdmissionTypeOK
<1> QED BY <1>1, <1>2, <1>3, <1>4, <1>5, <1>6, <1>7

\* The reconciler reads its batch.
LEMMA ReconcileStep ==
  ASSUME IInv, ReconcileUnsettled
  PROVE IInv' /\ FinalStep
<1> USE AdmissionAssumption DEF IInv, ReconcileUnsettled, Unsettled
<1>1. AdmissionTypeOK'
  <2>1. ASSUME NEW q \in todo' PROVE q \in [id : Admissions, committed : BOOLEAN]
    <3>1. PICK i \in Admissions : q = [id |-> i, committed |-> receipt[i].disposition = "committed"]
      BY <2>1
    <3>2. (receipt[i].disposition = "committed") \in BOOLEAN
      OBVIOUS
    <3> QED BY <3>1, <3>2
  <2> QED BY <2>1 DEF AdmissionTypeOK
<1>2. ProcessInv'
  BY SMTT(30) DEF AdmissionTypeOK, ProcessInv, Known
<1>3. DeploymentInv'
  BY DEF AdmissionTypeOK, ProcessInv, DeploymentInv
<1>4. ReceiptInv'
  BY DEF AdmissionTypeOK, ProcessInv, DeploymentInv, ReceiptInv
<1>5. CoreInv'
  BY DEF AdmissionTypeOK, ProcessInv, CoreInv, Known
<1>6. PendingInv'
  BY DEF AdmissionTypeOK, ReceiptRecord, ProcessInv, PendingInv
<1>7. FinalStep
  BY DEF FinalStep, AdmissionTypeOK
<1> QED BY <1>1, <1>2, <1>3, <1>4, <1>5, <1>6, <1>7

\* The reconciler drops what it read.
LEMMA TodoStep ==
  ASSUME IInv, todo' \subseteq todo,
         process' = process \/ (At(Reconciler, "idle") /\ End(Reconciler)),
         UNCHANGED <<receipt, lock, deployment, core, late>>
  PROVE IInv' /\ FinalStep
<1> USE AdmissionAssumption DEF IInv, End, NoProcess
<1>1. AdmissionTypeOK'
  BY DEF AdmissionTypeOK, ReceiptRecord, ProcessRecord, AdmissionRecord, ProcessInv
<1>2. ProcessInv'
  BY SMTT(30) DEF AdmissionTypeOK, ProcessInv, Known
<1>3. DeploymentInv'
  BY DEF AdmissionTypeOK, ProcessInv, DeploymentInv
<1>4. ReceiptInv'
  BY DEF AdmissionTypeOK, ProcessInv, DeploymentInv, ReceiptInv
<1>5. CoreInv'
  BY DEF AdmissionTypeOK, ProcessInv, CoreInv, Known
<1>6. PendingInv'
  BY DEF AdmissionTypeOK, ProcessInv, PendingInv
<1>7. FinalStep
  BY DEF FinalStep, AdmissionTypeOK
<1> QED BY <1>1, <1>2, <1>3, <1>4, <1>5, <1>6, <1>7

\* A Deployment ends.
LEMMA EndsStep ==
  ASSUME IInv, NEW a \in Attempts,
         NEW status \in Terminal,
         DeploymentEnds(a, status)
  PROVE IInv' /\ FinalStep
<1> USE AdmissionAssumption DEF IInv, DeploymentEnds
<1>1. AdmissionTypeOK'
  BY DEF AdmissionTypeOK, ReceiptRecord, ProcessRecord, AdmissionRecord, ProcessInv
<1>2. ProcessInv'
  BY SMTT(30) DEF AdmissionTypeOK, ProcessInv, Known
<1>3. DeploymentInv'
  BY DEF AdmissionTypeOK, ProcessInv, DeploymentInv
<1>4. ReceiptInv'
  BY DEF AdmissionTypeOK, ProcessInv, DeploymentInv, ReceiptInv
<1>5. CoreInv'
  BY DEF AdmissionTypeOK, ProcessInv, CoreInv, Known
<1>6. PendingInv'
  BY DEF AdmissionTypeOK, ProcessInv, PendingInv
<1>7. FinalStep
  BY DEF FinalStep, AdmissionTypeOK
<1> QED BY <1>1, <1>2, <1>3, <1>4, <1>5, <1>6, <1>7

\* Deployments are deleted.
LEMMA DeleteStep ==
  ASSUME IInv, NEW e,
         DeleteDeploymentsForEnv(e)
  PROVE IInv' /\ FinalStep
<1> USE AdmissionAssumption DEF IInv, DeleteDeploymentsForEnv
<1>1. AdmissionTypeOK'
  BY DEF AdmissionTypeOK, ReceiptRecord, ProcessRecord, AdmissionRecord, ProcessInv
<1>2. ProcessInv'
  <2>1. ASSUME NEW i \in Admissions, NEW outcome, Known(i, outcome) PROVE Known(i, outcome)'
    BY <2>1 DEF AdmissionTypeOK, ReceiptInv, Known
  <2> QED BY <2>1 DEF AdmissionTypeOK, ProcessInv
<1>3. DeploymentInv'
  BY DEF AdmissionTypeOK, ProcessInv, DeploymentInv
<1>4. ReceiptInv'
  BY DEF AdmissionTypeOK, ProcessInv, DeploymentInv, ReceiptInv
<1>5. CoreInv'
  BY DEF AdmissionTypeOK, AdmissionRecord, ProcessInv, DeploymentInv, ReceiptInv, CoreInv,
      PendingInv, Known
<1>6. PendingInv'
  BY DEF AdmissionTypeOK, ProcessInv, PendingInv
<1>7. FinalStep
  BY DEF FinalStep, AdmissionTypeOK
<1> QED BY <1>1, <1>2, <1>3, <1>4, <1>5, <1>6, <1>7

-----------------------------------------------------------------------------
\* Every step keeps the invariant and no step revises a durable outcome.
LEMMA NextStep ==
  ASSUME IInv, Next
  PROVE IInv' /\ FinalStep
<1>1. ASSUME NEW a \in Attempts, NEW i \in Admissions, NEW g \in Digests, NewAttempt(a, i, g)
      PROVE IInv' /\ FinalStep
  BY <1>1, NewAttemptStep
<1>2. ASSUME NEW a \in Attempts, AttemptStep(a) PROVE IInv' /\ FinalStep
  <2>1. CASE PrepareDeploymentAdmissionReceipt(a)
    <3>1. CASE receipt[Id(a)].disposition = "none"
      BY <2>1, <3>1, PrepareNewStep DEF PrepareDeploymentAdmissionReceipt
    <3>2. CASE receipt[Id(a)].disposition # "none" /\ receipt[Id(a)].digest = Digest(a)
      BY <2>1, <3>2, AdvanceStep DEF PrepareDeploymentAdmissionReceipt
    <3>3. CASE receipt[Id(a)].disposition # "none" /\ receipt[Id(a)].digest # Digest(a)
      BY <2>1, <3>3, StopStep DEF PrepareDeploymentAdmissionReceipt
    <3> QED BY <3>1, <3>2, <3>3
  <2>2. CASE GetDeploymentAdmissionReceipt(a)
    <3>1. CASE receipt[Id(a)].disposition = "pending"
      BY <2>2, <3>1, TakeLockStep DEF GetDeploymentAdmissionReceipt
    <3>2. CASE receipt[Id(a)].disposition # "pending"
      BY <2>2, <3>2, RollBackStep DEF GetDeploymentAdmissionReceipt
    <3> QED BY <3>1, <3>2
  <2>3. CASE AuthorizeCore(a)
    <3>1. CASE CoreAuthorizes(Id(a), Digest(a))
      BY <2>3, <3>1, AuthorizeOkStep DEF AuthorizeCore
    <3>2. CASE ~CoreAuthorizes(Id(a), Digest(a))
      BY <2>3, <3>2, RollBackStep DEF AuthorizeCore
    <3> QED BY <3>1, <3>2
  <2>4. CASE AuthorizeTimesOut(a)
    BY <2>4, RollBackStep DEF AuthorizeTimesOut
  <2>5. CASE CreateRefused(a)
    BY <2>5, RollBackStep DEF CreateRefused
  <2>6. CASE BindDeploymentAdmissionReceipt(a)
    <3>1. CASE receipt[Id(a)].disposition = "pending" /\ receipt[Id(a)].digest = Digest(a)
      BY <2>6, <3>1, AdvanceStep DEF BindDeploymentAdmissionReceipt
    <3>2. CASE ~(receipt[Id(a)].disposition = "pending" /\ receipt[Id(a)].digest = Digest(a))
      BY <2>6, <3>2, RollBackStep DEF BindDeploymentAdmissionReceipt
    <3> QED BY <3>1, <3>2
  <2>7. CASE Commit(a)
    BY <2>7, CommitStep
  <2>8. CASE CommitFails(a)
    BY <2>8, RollBackStep DEF CommitFails
  <2> QED BY <1>2, <2>1, <2>2, <2>3, <2>4, <2>5, <2>6, <2>7, <2>8 DEF AttemptStep
<1>3. ASSUME NEW q \in late, LateAuthorization(q) PROVE IInv' /\ FinalStep
  BY <1>3, LateStep
<1>4. ASSUME NEW w \in Workers, Settles(w) \/ CoreUnreachable(w) \/ Crash(w)
      PROVE IInv' /\ FinalStep
  <2> USE DEF GiveUp, Conflict
  <2>1. CASE SealDeploymentAdmissionAbsent(w)
    <3>1. CASE receipt[Id(w)].digest # Digest(w) \/ receipt[Id(w)].disposition = "committed"
      BY <2>1, <3>1, StopStep DEF SealDeploymentAdmissionAbsent
    <3>2. CASE ~(receipt[Id(w)].digest # Digest(w) \/ receipt[Id(w)].disposition = "committed")
      BY <2>1, <3>2, SealOkStep DEF SealDeploymentAdmissionAbsent
    <3> QED BY <3>1, <3>2
  <2>2. CASE SettleAtCore(w)
    <3>1. CASE CoreAccepts(Id(w), process[w].outcome)
      BY <2>2, <3>1, CoreOkStep DEF SettleAtCore
    <3>2. CASE ~CoreAccepts(Id(w), process[w].outcome)
      BY <2>2, <3>2, StopStep DEF SettleAtCore
    <3> QED BY <3>1, <3>2
  <2>3. CASE MarkDeploymentAdmissionCoreSettled(w)
    <3>1. CASE receipt' = receipt
      BY <2>3, <3>1, StopStep DEF MarkDeploymentAdmissionCoreSettled
    <3>2. CASE receipt' # receipt
      BY <2>3, <3>2, MarkOkStep DEF MarkDeploymentAdmissionCoreSettled
    <3> QED BY <3>1, <3>2
  <2>4. CASE CoreUnreachable(w)
    <3>1. CASE core' = core
      BY <2>4, <3>1, StopStep DEF CoreUnreachable
    <3>2. CASE core' # core
      BY <2>4, <3>2, CoreOkStep DEF CoreUnreachable
    <3> QED BY <3>1, <3>2
  <2>5. CASE Crash(w)
    BY <2>5, StopStep DEF Crash
  <2> QED BY <1>4, <2>1, <2>2, <2>3, <2>4, <2>5 DEF Settles
<1>5. ASSUME NEW i \in Admissions, HandleDeploymentUpdated(i) PROVE IInv' /\ FinalStep
  BY <1>5, SettleStep DEF HandleDeploymentUpdated
<1>6. CASE ReconcileUnsettled
  BY <1>6, ReconcileStep
<1>7. CASE ReconcileNext
  <2>1. PICK q \in todo :
          /\ At(Reconciler, "idle")
          /\ \/ /\ ~q.committed
                /\ process' = [process EXCEPT ![Reconciler] =
                     [pc |-> "seal", id |-> q.id, digest |-> receipt[q.id].digest, outcome |-> "none"]]
                /\ todo' = todo \ {q}
             \/ q.committed /\ Settleable(q.id) /\ BeginSettlement(Reconciler, q.id) /\ todo' = todo \ {q}
             \/ GiveUp(Reconciler) \/ Skip(q)
          /\ UNCHANGED <<receipt, lock, deployment, core, late>>
    BY <1>7 DEF ReconcileNext
  <2>2. /\ q.id \in Admissions /\ receipt[q.id].disposition # "none"
        /\ q.committed => receipt[q.id].disposition = "committed"
    BY DEF IInv, AdmissionTypeOK, PendingInv
  <2>3. CASE process' = [process EXCEPT ![Reconciler] =
               [pc |-> "seal", id |-> q.id, digest |-> receipt[q.id].digest, outcome |-> "none"]]
             /\ todo' = todo \ {q}
    BY <2>1, <2>2, <2>3, ReconcileSealStep
  <2>4. CASE q.committed /\ Settleable(q.id) /\ BeginSettlement(Reconciler, q.id) /\ todo' = todo \ {q}
    BY <2>1, <2>2, <2>4, SettleStep
  <2>5. CASE GiveUp(Reconciler) \/ Skip(q)
    BY <2>1, <2>5, TodoStep DEF GiveUp, Skip
  <2> QED BY <2>1, <2>3, <2>4, <2>5
<1>8. ASSUME NEW a \in Attempts, NEW status \in Terminal, DeploymentEnds(a, status)
      PROVE IInv' /\ FinalStep
  BY <1>8, EndsStep
<1>9. ASSUME NEW i \in Admissions, DeleteDeploymentsForEnv(EnvironmentOf[i])
      PROVE IInv' /\ FinalStep
  BY <1>9, DeleteStep
<1> QED BY <1>1, <1>2, <1>3, <1>4, <1>5, <1>6, <1>7, <1>8, <1>9 DEF Next

\* A stuttering step changes nothing the invariant speaks of.
LEMMA StutterStep == IInv /\ UNCHANGED vars => IInv'
BY DEF vars, IInv, AdmissionTypeOK, ProcessInv, DeploymentInv, ReceiptInv, CoreInv, PendingInv, Known

\* Receipts, Core, processes and Deployments agree in every reachable state.
THEOREM AdmissionInvariant == Spec => []IInv
<1>1. IInv /\ [Next]_vars => IInv'
  BY NextStep, StutterStep
<1> QED BY <1>1, InitIInv, PTL DEF Spec

\* Receipts, processes, guards and Deployments keep their types through every
\* attempt, crash and reconciliation.
THEOREM AdmissionTypes == Spec => []AdmissionTypeOK
<1>1. IInv => AdmissionTypeOK
  BY DEF IInv
<1> QED BY <1>1, AdmissionInvariant, PTL

\* A Deployment executes only under the active guard Core granted for its
\* request, for any number of attempts, retries, reconcilers' rounds and crashes.
THEOREM GuardHolds == Spec => []GuardedExecution
BY AdmissionInvariant, IInvSuffices, PTL

\* However many attempts share an idempotency key, at most one creates a Deployment.
THEOREM SingleDeployment == Spec => []OneDeploymentPerAdmission
BY AdmissionInvariant, IInvSuffices, PTL

\* Core and the data plane agree, whatever calls are late, repeated or unanswered:
\* what Core was told is what became of the admission, and a receipt counts as
\* settled only after Core settled the same outcome.
THEOREM CoreAndReceiptsAgree == Spec => []CoreAgrees
<1>1. IInv => CoreAgrees
  BY IInvSuffices DEF CoreAgrees
<1> QED BY <1>1, AdmissionInvariant, PTL

\* Attempts, sealing, marking and reconciliation never revise a durable outcome.
THEOREM OutcomesAreFinal == Spec => OutcomeFinal
<1>1. IInv /\ [Next]_vars => [FinalStep]_vars
  BY NextStep
<1>2. OutcomeFinal <=> [][FinalStep]_vars
  BY PTL DEF OutcomeFinal, FinalStep
<1> QED BY <1>1, <1>2, AdmissionInvariant, PTL DEF Spec
=============================================================================
