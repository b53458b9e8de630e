-------------------------- MODULE EnvironmentDestroy --------------------------
(***************************************************************************)
(* Deletion of one Environment (worker/handlers/envdestroyhandler and      *)
(* InternalDeleteDeployments): workers handle its events, at least once    *)
(* and beside each other, until a destroy Deployment succeeded, its rows   *)
(* are deleted and the Control Plane forgets the Environment.  Callers     *)
(* that read the Environment's status before its deletion may still create *)
(* Deployments.  A Deployment that failed without proof that its Runner    *)
(* stopped keeps its reservation, and with it every row, until a late      *)
(* result or an operator proves the stop.                                  *)
(*                                                                         *)
(* The admission of a destroy is named after the Deployment it follows.    *)
(***************************************************************************)
EXTENDS Naturals, Sequences, FiniteSets

CONSTANTS
  Workers,
  Internal,         \* the ways operators use InternalDeleteDeployments: a set of values of force
  Refuses,          \* whether creation may also be refused, or fail, for a reason but a busy Environment
  MaxDeployments,   \* bound: Deployments of a behaviour
  MaxRequests,      \* bound: DeleteEnvironment requests
  MaxFaults,        \* bound: crashes and events delivered again
  MaxEvents,        \* bound: events that wait to be handled for the first time
  MaxDeliver        \* deliveries of an event before it goes to the dead letters

VARIABLES
  env,        \* the Control Plane's Environment: status, deletion policy, Deployment its message names
  deps,       \* Deployments in order of creation, deleted ones too; live: the Runner is reserved
  waiting,    \* whether a request waits in the queue
  admission,  \* per Deployment: the receipt of the destroy admission named after it
  events,     \* how many events of the Environment wait for each of their deliveries
  worker,     \* per worker: its step and what it read
  caller,     \* whether a caller read the Environment as active and has not created yet
  hist        \* requests, faults, destroys no message names, whether nothing is left that would
              \* go on with the deletion

vars == <<env, deps, waiting, admission, events, worker, caller, hist>>
tables == <<deps, waiting, admission>>

Idle == [pc |-> "idle", attempt |-> 0, force |-> FALSE, message |-> 0, seen |-> 0, report |-> 0, failure |-> "none"]
NoReceipt == [disposition |-> "none", base |-> 0]

Init ==
  /\ env = [status |-> "active", force |-> FALSE, message |-> 0]
  /\ deps = <<>> /\ waiting = FALSE /\ caller = FALSE /\ events = [n \in 1 .. MaxDeliver |-> 0]
  /\ admission = [d \in 0 .. MaxDeployments |-> NoReceipt]
  /\ worker = [w \in Workers |-> Idle]
  /\ hist = [requests |-> 0, faults |-> 0, unnamed |-> 0, stranded |-> FALSE]

-----------------------------------------------------------------------------
Newest(S) == IF S = {} THEN 0 ELSE CHOOSE i \in S : \A j \in S : j <= i

Rows == {d \in DOMAIN deps : deps[d].row}
Executing == {d \in Rows : deps[d].status = "executing"}

\* The newest Deployment that changes state; a plan is one only when it is the first.
StateHead == Newest({d \in Rows : deps[d].mode # "plan_only" \/ \A e \in Rows : d <= e})

Destroyed(d) ==
  d # 0 => deps[d].mode = "plan_only" \/ (deps[d].mode = "destroy" /\ deps[d].status = "succeeded")

\* Mutant: only reservations keep rows, not the Deployment that executes.
OnlyRunnerOwnership(force) == \A d \in Rows : ~deps[d].live

\* DeleteDeploymentsForEnv refuses while a Runner may be at work or a Deployment executes.
Deletable(force) == (\A d \in Rows : ~deps[d].live) /\ (force \/ Executing = {})

New(mode) == [mode |-> mode, status |-> "executing", live |-> FALSE, row |-> TRUE]

\* Of a deleted row only the mode is remembered.
Deleted == [d \in DOMAIN deps |-> [New(deps[d].mode) EXCEPT !.status = "deleted", !.row = FALSE]]

\* Failed Deployments whose Runner is not known to have stopped.
Kept == {d \in Rows : deps[d].status = "failed" /\ deps[d].live}

\* CreateDeployment finds the Environment busy.
Busy(mode) == Executing # {} \/ (waiting /\ mode # "plan_only")

-----------------------------------------------------------------------------
(***************************************************************************)
(* The handler of an event.                                                *)
(***************************************************************************)
At(w, pc) == worker[w].pc = pc
Goto(w, pc) == worker' = [worker EXCEPT ![w].pc = pc]
\* The handler of w goes on at pc and needs nothing of what it read before.
On(w, pc) == [Idle EXCEPT !.pc = pc, !.attempt = worker[w].attempt]
Ack(w) == worker' = [worker EXCEPT ![w] = Idle]

Publish == events[1] < MaxEvents /\ events' = [events EXCEPT ![1] = @ + 1]
NoEvents == \A n \in 1 .. MaxDeliver : events[n] = 0
LastDelivery(w) == worker[w].attempt = MaxDeliver

\* A handler that returns an error gets its event again, up to MaxDeliver times.
Redeliver(w) ==
  /\ Ack(w)
  /\ events' = IF LastDelivery(w) THEN events ELSE [events EXCEPT ![worker[w].attempt + 1] = @ + 1]

Receive(w) ==
  /\ At(w, "idle")
  /\ \E n \in 1 .. MaxDeliver :
       /\ events[n] > 0 /\ events' = [events EXCEPT ![n] = @ - 1]
       /\ worker' = [worker EXCEPT ![w].pc = "read", ![w].attempt = n]
  /\ UNCHANGED <<env, tables, caller, hist>>

\* The Control Plane's Environment: gone, not deleting, or to be deleted.
ReadEnvironment(w) ==
  /\ At(w, "read")
  /\ IF env.status # "deleting" THEN Ack(w)
     ELSE worker' = [worker EXCEPT ![w].pc = "cancel", ![w].force = env.force, ![w].message = env.message]
  /\ UNCHANGED <<env, tables, events, caller, hist>>

CancelQueued(w) ==
  /\ At(w, "cancel") /\ waiting' = FALSE /\ Goto(w, "look")
  /\ UNCHANGED <<env, deps, admission, events, caller, hist>>

\* The destroy the message names has failed: the deletion waits for a new request.
FailedAsNamed(w, d) == deps[d].mode = "destroy" /\ worker[w].message = d

\* isEnvironmentDestroyed, and what follows from it.
Look(w) ==
  LET d == StateHead IN
  /\ At(w, "look")
  /\ \/ (worker[w].force \/ Destroyed(d))
          /\ worker' = [worker EXCEPT ![w] =
               [On(w, "delete") EXCEPT !.force = worker[w].force, !.seen = Len(deps)]]
     \/ ~worker[w].force /\ ~Destroyed(d) /\
          IF deps[d].status = "executing" THEN Ack(w)
          ELSE IF FailedAsNamed(w, d) THEN worker' = [worker EXCEPT ![w] = On(w, "report")]
          ELSE worker' = [worker EXCEPT ![w] = [On(w, "prepare") EXCEPT !.seen = d]]
  /\ UNCHANGED <<env, tables, events, caller, hist>>

\* A transaction that is rolled back leaves the event to be delivered again.
DeleteRows(w) ==
  /\ At(w, "delete")
  /\ IF Deletable(worker[w].force)
     THEN /\ deps' = Deleted /\ waiting' = FALSE /\ UNCHANGED events
          /\ worker' = [worker EXCEPT ![w] = On(w, "forget")]
     ELSE Redeliver(w) /\ UNCHANGED <<deps, waiting>>
  /\ UNCHANGED <<env, admission, caller, hist>>

ForceDeleteEnvironment(w) ==
  /\ At(w, "forget") /\ Ack(w)
  /\ env' = [status |-> "gone", force |-> FALSE, message |-> 0]
  /\ UNCHANGED <<tables, events, caller, hist>>

\* CreateDeploymentWithOptions up to prepare: the reference is read again.
Prepare(w) ==
  LET k == worker[w].seen IN
  /\ At(w, "prepare")
  /\ IF StateHead = 0 \/ (admission[k] # NoReceipt /\ admission[k].base # StateHead)
     THEN worker' = [worker EXCEPT ![w] = On(w, "report")] /\ UNCHANGED admission
     ELSE /\ Goto(w, "create")
          /\ admission' = IF admission[k] # NoReceipt THEN admission
                          ELSE [admission EXCEPT ![k] = [disposition |-> "pending", base |-> StateHead]]
  /\ UNCHANGED <<env, deps, waiting, events, caller, hist>>

Fail(w, failure) ==
  /\ worker' = [worker EXCEPT ![w].pc = "seal", ![w].failure = failure]
  /\ UNCHANGED <<deps, admission>>

\* The receipt, Core's answer (external), CreateDeployment and the commit.
Create(w) ==
  LET k == worker[w].seen IN
  /\ At(w, "create")
  /\ \/ admission[k].disposition # "pending" /\ Fail(w, "conflict")
     \/ /\ admission[k].disposition = "pending"
        /\ \/ Fail(w, "busy")
           \/ Refuses /\ \E failure \in {"conflict", "error"} : Fail(w, failure)
           \/ /\ ~Busy("destroy") /\ Len(deps) < MaxDeployments
              /\ deps' = Append(deps, New("destroy"))
              /\ admission' = [admission EXCEPT ![k].disposition = "committed"]
              /\ worker' = [worker EXCEPT ![w] = [On(w, "report") EXCEPT !.report = Len(deps) + 1]]
  /\ UNCHANGED <<env, waiting, events, caller, hist>>

\* SealAbsent, refused for a committed receipt; then a busy Environment or an error is retried.
Seal(w) ==
  LET k == worker[w].seen IN
  /\ At(w, "seal")
  /\ IF admission[k].disposition = "committed" THEN Redeliver(w) /\ UNCHANGED admission
     ELSE /\ admission' = [admission EXCEPT ![k].disposition = "absent"]
          /\ IF worker[w].failure \in {"busy", "error"} THEN Redeliver(w)
             ELSE worker' = [worker EXCEPT ![w] = On(w, "report")] /\ UNCHANGED events
  /\ hist' = [hist EXCEPT !.stranded = @ \/ (LastDelivery(w) /\ At(w, "idle")')]
  /\ UNCHANGED <<env, deps, waiting, caller>>

\* updateEnvStatus: waiting for the new destroy, or delete_failed.
Report(w) ==
  LET d == worker[w].report IN
  /\ At(w, "report")
  /\ IF env.status = "gone" THEN Redeliver(w) /\ UNCHANGED env
     ELSE /\ env' = IF d = 0 THEN [env EXCEPT !.status = "delete_failed", !.message = 0]
                    ELSE [env EXCEPT !.status = "deleting", !.message = d]
          /\ Ack(w) /\ UNCHANGED events
  /\ UNCHANGED <<tables, caller, hist>>

-----------------------------------------------------------------------------
(***************************************************************************)
(* Everything else.                                                        *)
(***************************************************************************)
\* InternalDeleteDeployments goes by the newest Deployment, a plan included.
InternalDeleteDeployments(force) ==
  LET d == Newest(Rows) IN
  /\ Rows # {} /\ Deletable(force)
  /\ force \/ (deps[d].mode = "destroy" /\ deps[d].status = "succeeded")
  /\ deps' = Deleted /\ waiting' = FALSE
  /\ UNCHANGED <<env, admission, events, worker, caller, hist>>

DeleteEnvironment(force) ==
  /\ env.status \in {"active", "delete_failed"} /\ hist.requests < MaxRequests
  /\ env' = [status |-> "deleting", force |-> force, message |-> 0]
  /\ Publish /\ hist' = [hist EXCEPT !.requests = @ + 1, !.stranded = FALSE]
  /\ UNCHANGED <<tables, worker, caller>>

CallerReads ==
  /\ ~caller /\ env.status \in {"active", "delete_failed"} /\ caller' = TRUE
  /\ UNCHANGED <<env, tables, events, worker, hist>>

CallerCreates(mode) ==
  /\ caller /\ caller' = FALSE
  /\ \/ ~Busy(mode) /\ Len(deps) < MaxDeployments - 1 /\ deps' = Append(deps, New(mode)) /\ UNCHANGED waiting
     \/ Busy(mode) /\ mode # "plan_only" /\ waiting' = TRUE /\ UNCHANGED deps
     \/ UNCHANGED <<deps, waiting>>
  /\ UNCHANGED <<env, admission, events, worker, hist>>

\* Promotion of what waits: rejected once the Environment is deleting.
Promote ==
  /\ waiting /\ waiting' = FALSE
  /\ \/ /\ env.status \in {"active", "delete_failed"} /\ Executing = {} /\ Len(deps) < MaxDeployments - 1
        /\ deps' = Append(deps, New("deploy"))
     \/ UNCHANGED deps
  /\ UNCHANGED <<env, admission, events, worker, caller, hist>>

\* No Runner begins and ends within the transaction of a worker that did not see its Deployment.
OutlivesTransactions(d) == \A w \in Workers : At(w, "delete") => d <= worker[w].seen

Start(d) ==
  /\ d \in Executing /\ ~deps[d].live /\ deps' = [deps EXCEPT ![d].live = TRUE]
  /\ UNCHANGED <<env, waiting, admission, events, worker, caller, hist>>

\* The end of a Deployment is an event the handler gets as well.  The reservation is
\* given back only with proof that the Runner stopped, which a watchdog does not have.
Complete(d, status, proof) ==
  /\ d \in Executing /\ OutlivesTransactions(d) /\ (status = "succeeded" => proof)
  /\ deps' = [deps EXCEPT ![d].status = status, ![d].live = @ /\ ~proof]
  /\ Publish /\ hist' = [hist EXCEPT !.stranded = FALSE]
  /\ UNCHANGED <<env, waiting, admission, worker, caller>>

\* The result of a Deployment that failed without proof arrives after all: it gives the
\* reservation back and publishes nothing.
LateResult(d) ==
  /\ d \in Kept /\ deps' = [deps EXCEPT ![d].live = FALSE]
  /\ hist' = [hist EXCEPT !.stranded =
                @ \/ (env.status = "deleting" /\ NoEvents /\ \A w \in Workers : At(w, "idle"))]
  /\ UNCHANGED <<env, waiting, admission, events, worker, caller>>

\* Mutant: the acknowledgement stores no event.
AcknowledgesSilently(d) ==
  /\ d \in Kept /\ deps' = [deps EXCEPT ![d].live = FALSE]
  /\ UNCHANGED <<env, waiting, admission, events, worker, caller, hist>>

\* An operator acknowledges the outcome; the event is stored in the same transaction.
AcknowledgeOutcome(d) ==
  /\ d \in Kept /\ deps' = [deps EXCEPT ![d].live = FALSE]
  /\ Publish /\ hist' = [hist EXCEPT !.stranded = FALSE]
  /\ UNCHANGED <<env, waiting, admission, worker, caller>>

\* A worker dies or its acknowledgement is lost: its event is delivered again.
Crash(w) ==
  /\ ~At(w, "idle") /\ hist.faults < MaxFaults
  /\ Redeliver(w)
  /\ hist' = [hist EXCEPT !.faults = @ + 1, !.unnamed = IF worker[w].report # 0 THEN @ + 1 ELSE @,
                          !.stranded = @ \/ LastDelivery(w)]
  /\ UNCHANGED <<env, tables, caller>>

Ends(d) == \E status \in {"succeeded", "failed"}, proof \in BOOLEAN : Complete(d, status, proof)

Step(w) ==
  \/ Receive(w) \/ ReadEnvironment(w) \/ CancelQueued(w) \/ Look(w) \/ DeleteRows(w)
  \/ ForceDeleteEnvironment(w) \/ Prepare(w) \/ Create(w) \/ Seal(w) \/ Report(w)

Quiet == (\A w \in Workers : At(w, "idle")) /\ NoEvents /\ Executing = {} /\ UNCHANGED vars

Next ==
  \/ \E w \in Workers : Step(w) \/ Crash(w)
  \/ \E force \in Internal : InternalDeleteDeployments(force)
  \/ \E force \in BOOLEAN : DeleteEnvironment(force)
  \/ CallerReads \/ Promote \/ Quiet
  \/ \E mode \in {"deploy", "plan_only"} : CallerCreates(mode)
  \/ \E d \in DOMAIN deps : Start(d) \/ Ends(d) \/ LateResult(d) \/ AcknowledgeOutcome(d)

Spec == Init /\ [][Next]_vars

\* Events are delivered, handlers run, Deployments end and what waits is promoted or rejected;
\* late results need not arrive and operators need not acknowledge.
Fairness ==
  /\ \A w \in Workers : WF_vars(Step(w))
  /\ WF_vars(\E d \in DOMAIN deps : Ends(d))
  /\ WF_vars(Promote)

FairSpec == Spec /\ Fairness

-----------------------------------------------------------------------------
\* Rows are deleted without force only when nothing of the Environment was left by a Deployment:
\* the newest one that changes state is a successful destroy, or there is none; also when a caller
\* with an old status created one while the handler was at work.
DeletesOnlyDestroyedStep ==
  Rows # {} /\ Rows' = {} /\ (\A w \in Workers : At(w, "delete") => ~worker[w].force)
    /\ (\E w \in Workers : At(w, "delete") /\ ~At(w, "delete")')
  => Executing = {} /\ Destroyed(StateHead)
DeletesOnlyDestroyed == [][DeletesOnlyDestroyedStep]_vars

\* While events are handled one at a time, a destroy is not repeated on its own: each one has a
\* request for deletion, a predecessor whose id a crash kept from the Environment's message, or a
\* deploy that came after another destroy.
DestroysAreAskedFor ==
  LET destroys == {d \in DOMAIN deps : deps[d].mode = "destroy"}
      between  == {d \in DOMAIN deps \ destroys : \E e \in destroys : e < d}
  IN Cardinality(destroys) <= hist.requests + hist.unnamed + Cardinality(between)

\* A deletion that was asked for ends - the Environment is gone or the deletion is reported
\* failed - unless a failed Deployment keeps its Runner's reservation, which the deletion waits
\* for, or nothing is left that would go on with it: its last event failed in its last delivery,
\* or a late result, which publishes nothing, ended the wait when no event was left.  After an
\* acknowledgement it goes on, however many deliveries were used up before.
DeletionEnds == env.status = "deleting" ~> env.status # "deleting" \/ Kept # {} \/ hist.stranded

\* deployment-queue.md: a busy Environment at destroy creation is a reason to retry instead of
\* setting the Environment to delete_failed.  Where creation is refused for no other reason
\* (Refuses), only a destroy that failed may set it.
DestroyWaitsWhenBusy ==
  ~Refuses /\ env.status = "delete_failed" =>
    \E d \in DOMAIN deps : deps[d].mode = "destroy" /\ deps[d].status = "failed"

=============================================================================
