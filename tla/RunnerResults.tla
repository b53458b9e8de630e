---------------------------- MODULE RunnerResults ----------------------------
(***************************************************************************)
(* How the outcome a Runner reports reaches its Deployment: the consumer   *)
(* of deployment-result and runner-error events, the HTTP endpoint, the    *)
(* transactional inbox, and what is kept of a completion that arrives      *)
(* after a watchdog has already failed the Deployment.                     *)
(*                                                                         *)
(* All Deployments belong to one Environment.  A delivery looks at the     *)
(* Deployment without a lock (the peek) and then runs one transaction      *)
(* after another; every transaction is one step, and watchdogs, operators, *)
(* other deliveries and further Deployments run between them.  The same    *)
(* event may be in the hands of two replicas at once.                      *)
(*                                                                         *)
(* Operators that no action uses are seeded faults: PROJECT.json names the *)
(* definition each one replaces and the property that then fails.          *)
(***************************************************************************)
EXTENDS Naturals, FiniteSets

CONSTANTS
  Deployments,    \* the Deployments of one Environment
  Kind,           \* ordinary, operation (of a plugin) or observation
  Channel,        \* how its Runner reports: nats or http
  MayRepeat,      \* Deployments whose Pod may be restarted and report again
  Replicas,       \* concurrent deliveries
  MaxDeliveries,  \* MaxDeliver of the Runner results consumer
  PeekMayFail,    \* whether the database may fail under the peek
  Nobody          \* no Deployment, no body

ResultsAssumption ==
  /\ Kind \in [Deployments -> {"ordinary", "operation", "observation"}]
  /\ Channel \in [Deployments -> {"nats", "http"}]
  /\ MayRepeat \subseteq Deployments
  /\ MaxDeliveries \in Nat \ {0} /\ PeekMayFail \in BOOLEAN
  /\ Nobody \notin Deployments

\* What a Runner reports: "observed" is a success that carries a storable
\* observation result, "success" one without it.
Bodies == {"success", "failure", "observed"}
Results == [d : Deployments, type : {"deployment-result"}, body : Bodies]
Errors == [d : Deployments, type : {"runner-error"}, body : {"failure"}]
Mailed == Results \cup Errors

VARIABLES
  status,        \* deployments.status
  revision,      \* deployments.revision
  dispatched,    \* Deployments whose dispatch budget has a first attempt
  slot,          \* runner_job_reservations: none, held, released
  lease,         \* holder of the Environment's lease
  head,          \* last_state_deployment_id
  inbox,         \* runner_event_inbox: pairs of Deployment and event type
  completion,    \* Deployments with completion_received_at
  retained,      \* the body whose digest is kept, in the table of its kind
  late,          \* Deployments with a row in deployment_late_runner_results
  acknowledged,  \* Deployments with an operator's acknowledgement
  history,       \* rows of deployment_history per Deployment
  job,           \* what the Runner really does
  said,          \* the bodies it has reported
  mail,          \* events on their way
  tries,         \* how often each event was delivered
  finished,      \* events the consumer has acknowledged or terminated
  deadLetter,    \* events that failed too often
  replica        \* per delivery: step and event

rows == <<status, revision, dispatched, slot, lease, head, inbox, completion, retained, late,
          acknowledged, history>>
stream == <<mail, tries, finished, deadLetter>>
world == <<job, said>>
vars == <<rows, world, stream, replica>>

Idle == [pc |-> "idle", e |-> Nobody]
DispatchRevision == 1

Init ==
  /\ status = [d \in Deployments |-> "absent"]
  /\ revision = [d \in Deployments |-> DispatchRevision]
  /\ dispatched = {} /\ inbox = {} /\ completion = {} /\ late = {} /\ acknowledged = {}
  /\ slot = [d \in Deployments |-> "none"]
  /\ lease = Nobody /\ head = Nobody
  /\ retained = [d \in Deployments |-> Nobody]
  /\ history = [d \in Deployments |-> 0]
  /\ job = [d \in Deployments |-> "none"] /\ said = {}
  /\ mail = {} /\ tries = [e \in Mailed |-> 0] /\ finished = {} /\ deadLetter = {}
  /\ replica = [r \in Replicas |-> Idle]

CompletedAt(d) == status[d] \in {"succeeded", "failed"}
Exists(d) == status[d] \notin {"absent", "gone"}

\* ReadDeploymentStopEvidence.
StopProven(d) == d \in completion \/ <<d, "deployment-result">> \in inbox \/ d \in late
OutcomeUnreconciled(d) == d \in dispatched /\ ~StopProven(d) /\ d \notin acknowledged
Fenced ==
  \/ head # Nobody /\ status[head] = "failed" /\ Kind[head] = "operation" /\ OutcomeUnreconciled(head)
  \/ \E d \in Deployments : Kind[d] = "observation" /\ status[d] = "failed" /\ slot[d] = "held"

\* ReleaseRunnerJob, given whether this transaction holds a stop proof.
ReleaseRunnerJob(d, proof) ==
  slot' = [slot EXCEPT ![d] = IF @ = "held" /\ (proof \/ d \notin dispatched) THEN "released" ELSE @]

\* TryRecordRunnerEvent: the row of an event, once.
InboxRow(e) == {<<e.d, e.type>>}

\* UpdateDeploymentStatusAndOutputs and CreateDeploymentHistoryRecord.
End(d, outcome, proof) ==
  /\ status' = [status EXCEPT ![d] = outcome]
  /\ revision' = [revision EXCEPT ![d] = @ + 1]
  /\ history' = [history EXCEPT ![d] = @ + 1]
  /\ ReleaseRunnerJob(d, proof)
  /\ lease' = IF lease = d THEN Nobody ELSE lease
  /\ UNCHANGED <<dispatched, head, acknowledged>>

RecordDeploymentCompletion(d) == completion' = completion \cup {d} /\ ReleaseRunnerJob(d, TRUE)
-----------------------------------------------------------------------------
(***************************************************************************)
(* What of a completion is kept when its Deployment has already failed.    *)
(***************************************************************************)
\* RecordLateOrdinaryRunnerCompletion: does it concern this Deployment at all,
LateOrdinary(d) ==
  /\ Kind[d] = "ordinary" /\ status[d] = "failed"
  /\ retained[d] # Nobody \/ slot[d] = "held"

\* does it agree with what was kept before and with the attempt,
LateAgrees(d, body) ==
  \/ retained[d] = body
  \/ retained[d] = Nobody /\ d \in dispatched /\ revision[d] = DispatchRevision + 1

\* and the receipt it leaves: the digest and the stop proof, never an outcome.
RecordLateOrdinary(d, body) ==
  /\ retained' = [retained EXCEPT ![d] = body]
  /\ IF retained[d] = body THEN UNCHANGED <<completion, slot>> ELSE RecordDeploymentCompletion(d)
  /\ UNCHANGED <<status, revision, dispatched, lease, head, late, acknowledged, history>>

\* retainLateRunnerResult: the current failed attempt of a plugin operation,
\* whose receipt and rollback anchor exist, and nobody else holds the lease.
LateAcceptable(d) ==
  /\ Kind[d] = "operation" /\ status[d] = "failed" /\ head = d
  /\ d \in dispatched /\ revision[d] = DispatchRevision + 1
  /\ lease \in {Nobody, d}

NewLate(d) == d \notin late /\ <<d, "deployment-result">> \notin inbox

RetainLate(d, body) ==
  /\ late' = late \cup {d}
  /\ retained' = [retained EXCEPT ![d] = body]
  /\ RecordDeploymentCompletion(d)
  /\ lease' = IF lease = d THEN Nobody ELSE lease
  /\ UNCHANGED <<status, revision, dispatched, head, inbox, acknowledged, history>>
-----------------------------------------------------------------------------
(***************************************************************************)
(* commonUpdateDeploymentResults, one transaction under the row lock.      *)
(***************************************************************************)
\* A Deployment that has ended is never updated again.
AlreadyCompleted(d) == CompletedAt(d)

\* deploymentResultUpdateParams, and what an observation makes of its result.
Outcome(d, body) ==
  IF Kind[d] = "observation"
  THEN IF body = "observed" THEN "succeeded" ELSE "failed"
  ELSE IF body = "failure" THEN "failed" ELSE "succeeded"

\* RunnerCompletionProven: the inbox row of an event proves the same by itself.
Marks(d, viaInbox, proven) == proven /\ (viaInbox = {} \/ Kind[d] = "observation")

ApplyOutcome(d, body, viaInbox, proven) ==
  /\ UNCHANGED late
  /\ inbox' = inbox \cup viaInbox
  /\ completion' = completion \cup IF Marks(d, viaInbox, proven) THEN {d} ELSE {}
  /\ retained' = IF proven /\ Kind[d] = "observation" THEN [retained EXCEPT ![d] = body] ELSE retained
  /\ End(d, Outcome(d, body), <<d, "deployment-result">> \in viaInbox \/ Marks(d, viaInbox, proven))

\* RecordObservationCompletion of an observation that has ended: the proof only.
ObservationReplay(d, body, viaInbox) ==
  /\ inbox' = inbox \cup viaInbox
  /\ retained' = [retained EXCEPT ![d] = body]
  /\ IF retained[d] = body THEN UNCHANGED <<completion, slot>> ELSE RecordDeploymentCompletion(d)
  /\ UNCHANGED <<status, revision, dispatched, lease, head, late, acknowledged, history>>

\* The answers of the transaction: it commits ("done"), is rolled back for a
\* reason that will not go away ("invalid"), or for another one ("error").
CommonUpdate(d, body, viaInbox, proven, answer) ==
  IF ~Exists(d) THEN answer = "invalid" /\ UNCHANGED rows
  ELSE IF viaInbox # {} /\ viaInbox \subseteq inbox THEN answer = "done" /\ UNCHANGED rows
  ELSE IF proven /\ LateOrdinary(d)
  THEN IF LateAgrees(d, body)
       THEN answer = "done" /\ RecordLateOrdinary(d, body) /\ inbox' = inbox \cup viaInbox
       ELSE answer = "error" /\ UNCHANGED rows
  ELSE IF proven /\ Kind[d] = "observation" /\ retained[d] \notin {Nobody, body}
  THEN answer = "error" /\ UNCHANGED rows
  ELSE IF proven /\ Kind[d] = "observation" /\ (retained[d] = body \/ AlreadyCompleted(d))
  THEN answer = "done" /\ ObservationReplay(d, body, viaInbox)
  ELSE IF Kind[d] # "observation" /\ body = "observed" THEN answer = "error" /\ UNCHANGED rows
  ELSE IF AlreadyCompleted(d) THEN answer = "invalid" /\ UNCHANGED rows
  ELSE answer = "done" /\ ApplyOutcome(d, body, viaInbox, proven)
-----------------------------------------------------------------------------
(***************************************************************************)
(* The consumer: applyRunnerDeploymentResult and ApplyRunnerError.         *)
(***************************************************************************)
Step(r, pc) == replica' = [replica EXCEPT ![r].pc = pc] /\ UNCHANGED stream
Release(r) == replica' = [replica EXCEPT ![r] = Idle]

\* A nil error acknowledges the event, a terminal one ends it as well; the
\* transaction has committed by then.
Finish(r) == Step(r, "settled")
Settle(r) ==
  /\ replica[r].pc = "settled"
  /\ finished' = finished \cup {replica[r].e} /\ mail' = mail \ {replica[r].e}
  /\ Release(r) /\ UNCHANGED <<rows, world, tries, deadLetter>>

\* Any other error, a crash or a missed deadline: again, until it was the last time.
Again(r) ==
  /\ IF tries[replica[r].e] >= MaxDeliveries /\ replica[r].e \in mail
     THEN mail' = mail \ {replica[r].e} /\ deadLetter' = deadLetter \cup {replica[r].e}
     ELSE UNCHANGED <<mail, deadLetter>>
  /\ Release(r) /\ UNCHANGED <<tries, finished>>

Deliver(r, e) ==
  /\ replica[r] = Idle /\ e \in mail /\ tries[e] < MaxDeliveries
  /\ tries' = [tries EXCEPT ![e] = @ + 1]
  /\ replica' = [replica EXCEPT ![r] = [pc |-> IF e.type = "runner-error" THEN "error" ELSE "peek",
                                        e |-> e]]
  /\ UNCHANGED <<rows, world, mail, finished, deadLetter>>

PeekEndsLateResults(r) ==
  /\ replica[r].pc = "peek"
  /\ IF status[replica[r].e.d] = "executing" THEN Step(r, "common") ELSE Finish(r)
  /\ UNCHANGED <<rows, world>>

\* The peek reads without a lock; whatever it fails with counts as permanent.
Peek(r) ==
  LET d == replica[r].e.d IN
  /\ replica[r].pc = "peek"
  /\ \/ (~Exists(d) \/ PeekMayFail) /\ Finish(r)
     \/ Exists(d) /\ status[d] = "failed" /\ Kind[d] # "observation" /\ Step(r, "ordinary")
     \/ Exists(d) /\ ~(status[d] = "failed" /\ Kind[d] # "observation") /\ Step(r, "common")
  /\ UNCHANGED <<rows, world>>

\* retainLateOrdinaryCapacityCompletion.
RetainOrdinary(r) ==
  LET d == replica[r].e.d  body == replica[r].e.body IN
  /\ replica[r].pc = "ordinary"
  /\ \/ ~Exists(d) /\ Again(r) /\ UNCHANGED rows
     \/ Exists(d) /\ ~LateOrdinary(d) /\ Step(r, "retain") /\ UNCHANGED rows
     \/ Exists(d) /\ LateOrdinary(d) /\ ~LateAgrees(d, body) /\ Again(r) /\ UNCHANGED rows
     \/ /\ Exists(d) /\ LateOrdinary(d) /\ LateAgrees(d, body)
        /\ RecordLateOrdinary(d, body) /\ UNCHANGED inbox /\ Finish(r)
  /\ UNCHANGED world

\* retainLateRunnerResult: a replay, an applied result and a refusal all end the event.
Retain(r) ==
  LET d == replica[r].e.d  body == replica[r].e.body IN
  /\ replica[r].pc = "retain"
  /\ \/ ~Exists(d) /\ UNCHANGED rows /\ Again(r)
     \/ Exists(d) /\ NewLate(d) /\ LateAcceptable(d) /\ RetainLate(d, body) /\ Finish(r)
     \/ Exists(d) /\ ~(NewLate(d) /\ LateAcceptable(d)) /\ UNCHANGED rows /\ Finish(r)
  /\ UNCHANGED world

Common(r) ==
  LET e == replica[r].e IN
  /\ replica[r].pc \in {"common", "error"}
  /\ \E answer \in {"done", "invalid", "error"} :
       /\ CommonUpdate(e.d, e.body, InboxRow(e), e.type = "deployment-result", answer)
       /\ \/ answer = "done" /\ Finish(r)
          \/ answer = "error" /\ Again(r)
          \/ answer = "invalid" /\ replica[r].pc = "error" /\ Finish(r)
          \/ answer = "invalid" /\ replica[r].pc = "common" /\ Step(r, "second_peek")
  /\ UNCHANGED world

\* The Deployment ended between the peek and the transaction.
SecondPeek(r) ==
  LET d == replica[r].e.d IN
  /\ replica[r].pc = "second_peek"
  /\ \/ Exists(d) /\ status[d] = "failed" /\ Step(r, "retain")
     \/ (~Exists(d) \/ status[d] # "failed" \/ PeekMayFail) /\ Finish(r)
  /\ UNCHANGED <<rows, world>>

\* The database fails, the delivery times out or the replica dies: before the
\* transaction commits, or after it and before the event is acknowledged.
ReplicaDies(r) ==
  /\ replica[r] # Idle
  /\ Again(r)
  /\ UNCHANGED <<rows, world>>

\* UpdateDeploymentResults, which the Runner may repeat.
HttpResult(d, body) ==
  /\ Channel[d] = "http" /\ <<d, body>> \in said
  /\ \E answer \in {"done", "invalid", "error"} : CommonUpdate(d, body, {}, TRUE, answer)
  /\ UNCHANGED <<world, stream, replica>>
-----------------------------------------------------------------------------
(***************************************************************************)
(* Everything around it.                                                   *)
(***************************************************************************)
\* CreateDeployment, as far as the lease, the fence and the head are concerned.
Create(d) ==
  /\ status[d] = "absent" /\ lease = Nobody /\ ~Fenced
  /\ status' = [status EXCEPT ![d] = "executing"]
  /\ lease' = d
  /\ head' = IF Kind[d] = "observation" THEN head ELSE d
  /\ slot' = [slot EXCEPT ![d] = IF Kind[d] = "observation" THEN "held" ELSE "none"]
  /\ UNCHANGED <<revision, dispatched, inbox, completion, retained, late, acknowledged, history,
                 world, stream, replica>>

\* ReserveRunnerDispatch, BeginDeploymentDispatch and the start of the job.
Dispatch(d) ==
  /\ status[d] = "executing" /\ d \notin dispatched
  /\ dispatched' = dispatched \cup {d}
  /\ slot' = [slot EXCEPT ![d] = "held"]
  /\ job' = [job EXCEPT ![d] = "running"]
  /\ UNCHANGED <<status, revision, lease, head, inbox, completion, retained, late, acknowledged,
                 history, said, stream, replica>>

\* A watchdog or an operator fails a Deployment; nothing is proven about its Runner.
ForceFail(d) ==
  /\ status[d] = "executing"
  /\ End(d, "failed", StopProven(d))
  /\ UNCHANGED <<inbox, completion, retained, late>>
  /\ UNCHANGED <<world, stream, replica>>

\* acknowledge-outcome of a failed attempt that still owns its Runner slot; its
\* dispatch window may have closed at any time.
AcknowledgeOutcome(d) ==
  /\ status[d] = "failed" /\ slot[d] = "held" /\ OutcomeUnreconciled(d)
  /\ acknowledged' = acknowledged \cup {d}
  /\ ReleaseRunnerJob(d, TRUE)
  /\ UNCHANGED <<status, revision, dispatched, lease, head, inbox, completion, retained, late, history, world, stream, replica>>

\* A forced deletion, which a held slot refuses.
Delete(d) ==
  /\ CompletedAt(d) /\ slot[d] # "held"
  /\ status' = [status EXCEPT ![d] = "gone"]
  /\ head' = IF head = d THEN Nobody ELSE head
  /\ UNCHANGED <<revision, dispatched, slot, lease, inbox, completion, retained, late, acknowledged,
                 history, world, stream, replica>>

Says(d, body) ==
  /\ said' = said \cup {<<d, body>>}
  /\ mail' = IF Channel[d] = "http" THEN mail
             ELSE mail \cup {[d |-> d, type |-> "deployment-result", body |-> body]}
  /\ UNCHANGED <<rows, tries, finished, deadLetter, replica>>

\* The job ends with its result; only an observation's carries observations.
RunnerStops(d) ==
  /\ job[d] = "running"
  /\ job' = [job EXCEPT ![d] = "stopped"]
  /\ \E body \in Bodies : (body = "observed" => Kind[d] = "observation") /\ Says(d, body)

\* A Pod that is restarted by its Job reports once more, perhaps otherwise.
RunnerRepeats(d) ==
  /\ d \in MayRepeat /\ job[d] = "stopped" /\ Cardinality({b \in Bodies : <<d, b>> \in said}) < 2
  /\ \E body \in {"success", "failure"} : <<d, body>> \notin said /\ Says(d, body)
  /\ UNCHANGED job

\* The agent gives up a command, whatever became of the job.
RunnerGivesUp(d) ==
  /\ d \in dispatched /\ Channel[d] = "nats"
  /\ LET e == [d |-> d, type |-> "runner-error", body |-> "failure"] IN
     tries[e] = 0 /\ e \notin mail /\ mail' = mail \cup {e}
  /\ UNCHANGED <<rows, world, tries, finished, deadLetter, replica>>

Handling(r) == Peek(r) \/ RetainOrdinary(r) \/ Retain(r) \/ Common(r) \/ SecondPeek(r) \/ Settle(r)

Next ==
  \/ \E r \in Replicas :
       \/ Handling(r) \/ ReplicaDies(r)
       \/ \E e \in Mailed : Deliver(r, e)
  \/ \E d \in Deployments :
       \/ Create(d) \/ Dispatch(d) \/ ForceFail(d) \/ AcknowledgeOutcome(d) \/ Delete(d)
       \/ RunnerStops(d) \/ RunnerRepeats(d) \/ RunnerGivesUp(d)
       \/ \E body \in Bodies : HttpResult(d, body)

Spec == Init /\ [][Next]_vars

\* The broker delivers what it has, a delivery ends, and a replica comes back.
Fairness ==
  /\ \A e \in Mailed : WF_vars(\E r \in Replicas : Deliver(r, e))
  /\ \A r \in Replicas : WF_vars(Handling(r))

FairSpec == Spec /\ Fairness
-----------------------------------------------------------------------------
\* Stop proof, which lets the next Deployment run, exists only once the Runner
\* has really stopped: neither a watchdog nor a runner-error event creates it
\* (commonUpdateDeploymentResults, ReadDeploymentStopEvidence).
ProofMeansStopped == \A d \in Deployments : StopProven(d) => job[d] = "stopped"

\* However results, errors, watchdogs and replays meet, a Deployment that has
\* ended keeps its status and the completion kept for it is never replaced.
OutcomeIsFinalStep ==
  \A d \in Deployments :
    /\ CompletedAt(d) => status'[d] \in {status[d], "gone"}
    /\ retained[d] # Nobody => retained'[d] = retained[d]
OutcomeIsFinal == [][OutcomeIsFinalStep]_vars

\* A result the consumer is done with is never lost: either its Deployment has
\* stop proof, or an operator has answered for it (ErrRunnerEventTargetInvalid:
\* only a permanent refusal ends an event).
ProofKept ==
  \A e \in finished : e.type = "deployment-result" /\ Exists(e.d) => StopProven(e.d) \/ e.d \in acknowledged

\* A Runner slot whose result is on its way is given back, unless every
\* delivery failed and the event is left to an operator.
SlotComesBack ==
  \A d \in Deployments :
    (slot[d] = "held" /\ \E e \in mail : e.d = d /\ e.type = "deployment-result")
      ~> (slot[d] # "held" \/ \E e \in deadLetter : e.d = d)
=============================================================================
