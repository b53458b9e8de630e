----------------------- MODULE OutcomeAcknowledgement -----------------------
(***************************************************************************)
(* Operators acknowledge the unknown outcome of one failed Deployment.     *)
(* EnvironmentQueue says what an acknowledgement does to the queue and to  *)
(* the Environment; here are the calls themselves: who is answered what,   *)
(* which record is kept, and the event that wakes a deletion which waits   *)
(* for it.  A call may die at any step and its answer may be lost, so an   *)
(* operator calls again.                                                   *)
(*                                                                         *)
(* The Environment's lock makes the transaction one step; it may also fail *)
(* to commit.  Operators that no action uses are seeded faults:            *)
(* PROJECT.json names the definition each one replaces and the property    *)
(* that then fails.                                                        *)
(***************************************************************************)
EXTENDS Naturals, Sequences

CONSTANTS
  Operators,  \* users a record can be attributed to
  Reasons,    \* trimmed reasons of 1 to 1000 characters
  Callers,    \* concurrent calls
  MaxDeaths,  \* bound on calls that die or lose their answer
  MaxAnswers, \* bound on the answers that are remembered
  None        \* no record, no request

Requests == [actor : Operators, reason : Reasons]

ASSUME AcknowledgementAssumption == MaxDeaths \in Nat /\ MaxAnswers \in Nat /\ None \notin Requests

VARIABLES
  row,      \* the Deployment: failed, proven (stop evidence), gone
  window,   \* its dispatch window: open, closed
  ack,      \* the record, or None
  slot,     \* whether it still holds its Runner slot
  outbox,   \* stored events that are not yet published
  woken,    \* whether the worker has heard of the acknowledgement
  call,     \* per call: its step and request
  answers,  \* whom it was told that the outcome is acknowledged, in order
  deaths

vars == <<row, window, ack, slot, outbox, woken, call, answers, deaths>>

Idle == [pc |-> "idle", request |-> None]

Init ==
  /\ row = "failed" /\ window = "open" /\ ack = None /\ slot = TRUE
  /\ outbox = 0 /\ woken = FALSE
  /\ call = [c \in Callers |-> Idle] /\ answers = <<>> /\ deaths = 0

Goto(c, pc) == call' = [call EXCEPT ![c].pc = pc]
Answer(c, code) ==
  /\ call' = [call EXCEPT ![c] = Idle]
  /\ answers' = IF code \in {200, 201} THEN Append(answers, [code |-> code, request |-> call[c].request])
                ELSE answers
-----------------------------------------------------------------------------
(***************************************************************************)
(* InternalAcknowledgeDeploymentOutcome.                                   *)
(***************************************************************************)
Arrive(c, request) ==
  /\ call[c] = Idle /\ Len(answers) < MaxAnswers
  /\ call' = [call EXCEPT ![c] = [pc |-> "read", request |-> request]]
  /\ UNCHANGED <<row, window, ack, slot, outbox, woken, answers, deaths>>

\* GetDeployment and the permission, before the transaction.
ReadDeployment(c) ==
  /\ call[c].pc = "read"
  /\ \/ row = "gone" /\ Answer(c, 404)
     \/ row # "gone" /\ Answer(c, 403)
     \/ row # "gone" /\ Goto(c, "acknowledge") /\ UNCHANGED answers
  /\ UNCHANGED <<row, window, ack, slot, outbox, woken, deaths>>

AnyReplays(request) == ack # None
Replays(request) == ack # None /\ ack = request

AcknowledgementConflict == row # "failed" \/ ~slot \/ window = "open"

\* The cleanup wake is stored in the transaction of the record.
InsertWake == outbox' = outbox + 1

\* AcknowledgeDeploymentOutcome under the Environment's lock.
Acknowledge(c) ==
  LET request == call[c].request IN
  /\ call[c].pc = "acknowledge"
  /\ \/ row = "gone" /\ Answer(c, 404) /\ UNCHANGED <<ack, slot, outbox>>
     \/ row # "gone" /\ Replays(request) /\ Answer(c, 200) /\ UNCHANGED <<ack, slot, outbox>>
     \/ /\ row # "gone" /\ ~Replays(request) /\ (ack # None \/ AcknowledgementConflict)
        /\ Answer(c, 409) /\ UNCHANGED <<ack, slot, outbox>>
     \/ /\ row # "gone" /\ ~Replays(request) /\ ack = None /\ ~AcknowledgementConflict
        /\ ack' = request /\ slot' = FALSE /\ InsertWake
        /\ Goto(c, "publish") /\ UNCHANGED answers
     \/ row # "gone" /\ Answer(c, 500) /\ UNCHANGED <<ack, slot, outbox>>
  /\ UNCHANGED <<row, window, woken, deaths>>

\* OptimisticPublish; what it cannot publish stays in the outbox.
Publish(c) ==
  /\ call[c].pc = "publish"
  /\ Answer(c, 201)
  /\ \/ woken' = TRUE /\ outbox' = IF outbox > 0 THEN outbox - 1 ELSE 0
     \/ UNCHANGED <<woken, outbox>>
  /\ UNCHANGED <<row, window, ack, slot, deaths>>

CallDies(c) ==
  /\ call[c] # Idle /\ deaths < MaxDeaths
  /\ call' = [call EXCEPT ![c] = Idle] /\ deaths' = deaths + 1
  /\ UNCHANGED <<row, window, ack, slot, outbox, woken, answers>>
-----------------------------------------------------------------------------
\* The outbox relay of some replica.
Relay ==
  /\ outbox > 0
  /\ outbox' = outbox - 1 /\ woken' = TRUE
  /\ UNCHANGED <<row, window, ack, slot, call, answers, deaths>>

WindowCloses ==
  /\ window = "open" /\ window' = "closed"
  /\ UNCHANGED <<row, ack, slot, outbox, woken, call, answers, deaths>>

\* A late completion proves that the Runner stopped.
LateCompletion ==
  /\ row = "failed" /\ row' = "proven" /\ slot' = FALSE
  /\ UNCHANGED <<window, ack, outbox, woken, call, answers, deaths>>

\* The Environment is deleted, which no reservation survives.
DeleteDeployment ==
  /\ row # "gone" /\ ~slot /\ row' = "gone"
  /\ UNCHANGED <<window, ack, slot, outbox, woken, call, answers, deaths>>

Next ==
  \/ \E c \in Callers :
       \/ \E request \in Requests : Arrive(c, request)
       \/ ReadDeployment(c) \/ Acknowledge(c) \/ Publish(c) \/ CallDies(c)
  \/ Relay \/ WindowCloses \/ LateCompletion \/ DeleteDeployment

Fairness == WF_vars(Relay)
Spec == Init /\ [][Next]_vars /\ Fairness
-----------------------------------------------------------------------------
\* One record per Deployment: every operator who was told that it is
\* acknowledged finds exactly their own request in the record, and at most one
\* of them was told that they created it (AcknowledgeDeploymentOutcome).
RecordIsTheirs ==
  /\ \A i \in DOMAIN answers : ack = answers[i].request
  /\ \A i, j \in DOMAIN answers : answers[i].code = 201 /\ answers[j].code = 201 => i = j

\* A deletion that waits for the Deployment is woken by every acknowledgement,
\* whether or not the call that made it lives to publish the event
\* (InternalAcknowledgeDeploymentOutcome stores the event with the record).
WakeArrives == ack # None ~> woken
=============================================================================
