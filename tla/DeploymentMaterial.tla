-------------------------- MODULE DeploymentMaterial --------------------------
(***************************************************************************)
(* What a Deployment leaves behind for its requester: encrypted outputs in *)
(* the database and encrypted logs in the object store.  A user's outputs  *)
(* are cleared some time after completion; a plugin's follow its           *)
(* Deployment, because the data plane holds the key.  Reads take several   *)
(* statements, between which results arrive, the cleaner runs and the      *)
(* Environment is deleted.  A ciphertext is modelled by its recipient.     *)
(***************************************************************************)
EXTENDS Naturals, FiniteSets

CONSTANTS Deployments, Readers, UserKey, OperationKey, None

Keys == {UserKey, OperationKey}

VARIABLES
    dep,       \* deployments joined with its receipt and that receipt's material
    had,       \* history: Deployments that ever had outputs
    reader     \* one read in progress each

vars == <<dep, had, reader>>

NoDeployment ==
    [st |-> "none", destroy |-> FALSE, recipient |-> None, receipt |-> FALSE, material |-> None,
     outputs |-> None, late |-> None, logs |-> None, old |-> FALSE]
Idle == [pc |-> "idle", d |-> None, plugin |-> FALSE, kind |-> None, key |-> None, answer |-> None]

\* Requesters: a user with or without a key, a plugin operation whose material
\* the data plane holds, and a receipt from before materials were retained.
Requests ==
    {[NoDeployment EXCEPT !.st = "executing", !.destroy = x, !.recipient = k] :
        x \in BOOLEAN, k \in {UserKey, None}}
    \cup {[NoDeployment EXCEPT !.st = "executing", !.receipt = TRUE, !.material = m, !.recipient = k] :
        m \in {OperationKey, None}, k \in Keys}

Exists(d) == dep[d].st \in {"executing", "succeeded", "failed"}
Completed(d) == dep[d].st \in {"succeeded", "failed"}

\* The exact wrapped identity, not a replay receipt alone.
Owned(d) == dep[d].receipt /\ dep[d].material # None /\ dep[d].material = dep[d].recipient

Init ==
    /\ dep = [d \in Deployments |-> NoDeployment]
    /\ had = {}
    /\ reader = [r \in Readers |-> Idle]

(***************************************************************************)
(* The Deployment's life                                                   *)
(***************************************************************************)
CreateDeployment(d, request) ==
    /\ dep[d].st = "none" /\ dep' = [dep EXCEPT ![d] = request]
    /\ UNCHANGED <<had, reader>>

\* Status, completed_at and outputs are one update.
RunnerResult(d, status) ==
    /\ dep[d].st = "executing"
    /\ LET out == IF status = "succeeded" /\ ~dep[d].destroy THEN dep[d].recipient ELSE None IN
       /\ dep' = [dep EXCEPT ![d].st = status, ![d].outputs = out]
       /\ had' = IF out # None THEN had \cup {d} ELSE had
    /\ UNCHANGED reader

\* A success that came after the Deployment was failed: only its material is kept.
RetainLateRunnerResult(d) ==
    /\ dep[d].st = "failed" /\ Owned(d) /\ d \notin had
    /\ dep' = [dep EXCEPT ![d].late = dep[d].recipient] /\ had' = had \cup {d}
    /\ UNCHANGED reader

RunnerUploadsLogs(d) ==
    /\ Exists(d) /\ dep[d].logs = None /\ dep[d].recipient # None
    /\ dep' = [dep EXCEPT ![d].logs = dep[d].recipient]
    /\ UNCHANGED <<had, reader>>

\* completed_at is now longer ago than the interval.
IntervalPasses(d) ==
    /\ Completed(d) /\ ~dep[d].old
    /\ dep' = [dep EXCEPT ![d].old = TRUE]
    /\ UNCHANGED <<had, reader>>

\* The Environment is deleted: rows first, then the log objects.
DeleteEnvironment(d) ==
    /\ Completed(d)
    /\ dep' = [dep EXCEPT ![d] = [@ EXCEPT !.st = "deleted", !.outputs = None, !.late = None]]
    /\ UNCHANGED <<had, reader>>

RunnerLogsDeleter(d) ==
    /\ dep[d].st = "deleted" /\ dep[d].logs # None
    /\ dep' = [dep EXCEPT ![d].logs = None]
    /\ UNCHANGED <<had, reader>>

(***************************************************************************)
(* ScheduleDeploymentOutputsCleaning                                       *)
(***************************************************************************)
Expired(d) == Completed(d) /\ dep[d].old

ToClear == {d \in Deployments : Expired(d) /\ ~Owned(d) /\ (dep[d].outputs # None \/ dep[d].late # None)}

DeleteDeploymentOutputsByCompletionDate ==
    /\ ToClear # {}
    /\ dep' = [d \in Deployments |-> IF d \in ToClear THEN [dep[d] EXCEPT !.outputs = None, !.late = None] ELSE dep[d]]
    /\ UNCHANGED <<had, reader>>

(***************************************************************************)
(* Readers                                                                 *)
(***************************************************************************)

\* COALESCE(outputs, the late result's outputs for the same recipient)
EncryptedOutputs(d) ==
    IF dep[d].outputs # None THEN dep[d].outputs
    ELSE IF dep[d].late = dep[d].recipient THEN dep[d].late ELSE None

Answer(r, a) == reader' = [reader EXCEPT ![r].pc = "done", ![r].answer = a]
Proceed(r) == reader' = [reader EXCEPT ![r].pc = "read"]

\* A user asks for outputs, or for logs with or without a key to decrypt them;
\* a plugin asks for either and gets plaintext.
BeginRead(r, d, plugin, kind, key) ==
    /\ reader[r].pc = "idle"
    /\ plugin \/ kind = "outputs" => key = None
    /\ reader' = [reader EXCEPT ![r] = [Idle EXCEPT !.pc = "check", !.d = d, !.plugin = plugin,
                                                      !.kind = kind, !.key = key]]
    /\ UNCHANGED <<dep, had>>

\* GetDeploymentEncryptedOutputs and GetDeploymentLogs look at the Deployment first.
UserCheck(r) ==
    LET d == reader[r].d IN
    /\ reader[r].pc = "check" /\ ~reader[r].plugin
    /\ IF ~Exists(d) THEN Answer(r, "404")
       ELSE IF reader[r].kind = "outputs"
               /\ (dep[d].destroy \/ dep[d].st # "succeeded" \/ dep[d].recipient = None)
       THEN Answer(r, "404")
       ELSE Proceed(r)
    /\ UNCHANGED <<dep, had>>

\* A late success stands in for the status of a failed Deployment.
AsSucceeded(d) == dep[d].st = "succeeded" \/ (dep[d].st = "failed" /\ dep[d].late # None)

\* Mutant: the recipient of the material is not compared.
AnyMaterialOwner(d, kind) ==
    IF kind = "outputs" /\ (dep[d].destroy \/ ~AsSucceeded(d)) THEN "404" ELSE "ok"
ValidateExternalDeploymentMaterialOwner(d, kind) ==
    IF kind = "outputs" /\ (dep[d].destroy \/ ~AsSucceeded(d)) THEN "404"
    ELSE IF dep[d].recipient # dep[d].material THEN "409"
    ELSE "ok"

\* handleMaterial: one repeatable-read snapshot of Deployment, receipt, material and late result.
MaterialCheck(r) ==
    LET d == reader[r].d IN
    /\ reader[r].pc = "check" /\ reader[r].plugin
    /\ IF ~Exists(d) \/ ~dep[d].receipt THEN Answer(r, "404")
       ELSE IF dep[d].material = None THEN Answer(r, "409")
       ELSE LET verdict == ValidateExternalDeploymentMaterialOwner(d, reader[r].kind) IN
            IF verdict # "ok" THEN Answer(r, verdict)
            ELSE reader' = [reader EXCEPT ![r].pc = "read", ![r].key = dep[d].material]
    /\ UNCHANGED <<dep, had>>

\* The ciphertext itself is read afterwards, outside that snapshot.
Ciphertext(r) ==
    IF reader[r].kind = "logs" THEN dep[reader[r].d].logs
    ELSE IF Exists(reader[r].d) THEN EncryptedOutputs(reader[r].d) ELSE None

ReadMaterial(r) ==
    /\ reader[r].pc = "read"
    /\ IF Ciphertext(r) = None THEN Answer(r, "404")
       ELSE IF reader[r].key = None THEN Answer(r, <<"ciphertext", Ciphertext(r)>>)
       ELSE IF reader[r].key = Ciphertext(r) THEN Answer(r, <<"plaintext", Ciphertext(r)>>)
       ELSE Answer(r, "undecryptable")
    /\ UNCHANGED <<dep, had>>

ReadAgain(r) ==
    /\ reader[r].pc = "done" /\ reader' = [reader EXCEPT ![r] = Idle]
    /\ UNCHANGED <<dep, had>>

Read(r) ==
    \/ \E d \in Deployments, plugin \in BOOLEAN, kind \in {"outputs", "logs"}, key \in Keys \cup {None} :
        BeginRead(r, d, plugin, kind, key)
    \/ UserCheck(r) \/ MaterialCheck(r) \/ ReadMaterial(r) \/ ReadAgain(r)

Life(d) ==
    \/ \E request \in Requests : CreateDeployment(d, request)
    \/ \E status \in {"succeeded", "failed"} : RunnerResult(d, status)
    \/ RetainLateRunnerResult(d) \/ RunnerUploadsLogs(d) \/ IntervalPasses(d)
    \/ DeleteEnvironment(d) \/ RunnerLogsDeleter(d)

Next == (\E d \in Deployments : Life(d)) \/ DeleteDeploymentOutputsByCompletionDate \/ \E r \in Readers : Read(r)

Spec == Init /\ [][Next]_vars
\* The cleaner's timer fires for as long as some replica runs.
Fairness == WF_vars(DeleteDeploymentOutputsByCompletionDate)
FairSpec == Spec /\ Fairness

(***************************************************************************)
(* Properties                                                              *)
(***************************************************************************)

\* Outputs stay readable for their whole window, and those whose key the data
\* plane itself holds as long as their Deployment exists, results that came late
\* included (DeleteDeploymentOutputsByCompletionDate).
KeptLongEnough ==
    \A d \in had : Exists(d) /\ (Owned(d) \/ ~dep[d].old) => EncryptedOutputs(d) # None

\* A plugin whose read got past the owner check can always decrypt what the
\* second read returns, whatever happened in between (handleMaterial).
PluginCanDecrypt == \A r \in Readers : reader[r].plugin => reader[r].answer # "undecryptable"

\* Outputs the data plane has no key for do not stay: a retained receipt alone
\* does not keep them.
UserOutputsExpire ==
    \A d \in Deployments : (dep[d].old /\ dep[d].material # dep[d].recipient) ~> (EncryptedOutputs(d) = None)
===============================================================================
