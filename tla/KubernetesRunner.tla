-------------------------- MODULE KubernetesRunner --------------------------
(***************************************************************************)
(* One Deployment on a Kubernetes Runner: the Job that Start creates, the  *)
(* Pod that Kubernetes schedules for it, the Job's counters that follow    *)
(* the Pod with a delay, and the status check, which reads the Job, the    *)
(* Pod, the warning events and the Pod again, one API call at a time.      *)
(* A Job outlives its status checks (DefaultRunnerJobTTL), so none is      *)
(* collected here.                                                         *)
(***************************************************************************)
EXTENDS Naturals

VARIABLES
  job,       \* whether the Job named after the Deployment exists
  pod,       \* phase of its Pod; "started": still Pending, but a container ran
  counters,  \* the Job's status, as the Job controller last wrote it
  late,      \* whether podSchedulingDelay has passed since the dispatch
  readable,  \* whether the Runner's role may list Pods
  poll,      \* step of the status check that is under way
  verdict    \* RunnerStatus of the last check

vars == <<job, pod, counters, late, readable, poll, verdict>>
cluster == <<job, pod, counters, late, readable>>

Init ==
  /\ job = FALSE /\ pod = "none" /\ counters = "empty" /\ late = FALSE
  /\ readable \in BOOLEAN
  /\ poll = "idle" /\ verdict = "none"

\* podHasStarted: a container may run before the phase says so.
PodHasStarted == pod \in {"started", "running", "succeeded", "failed"}
PodEnded == pod \in {"succeeded", "failed"}
-----------------------------------------------------------------------------
(***************************************************************************)
(* Start and the cluster.                                                  *)
(***************************************************************************)
\* CreateJob: one Pod, never restarted.
Start ==
  /\ ~job /\ pod = "none" /\ counters = "empty"
  /\ job' = TRUE
  /\ UNCHANGED <<pod, counters, late, readable, poll, verdict>>

PodMoves ==
  /\ job
  /\ \/ pod = "none" /\ counters = "empty" /\ pod' = "pending"
     \/ pod = "pending" /\ pod' \in {"started", "running"}
     \/ pod = "started" /\ pod' = "running"
     \/ pod \in {"started", "running"} /\ pod' \in {"succeeded", "failed"}
  /\ UNCHANGED <<job, counters, late, readable, poll, verdict>>

\* The Job controller catches up with the Pod.
CountersFollow ==
  /\ job
  /\ counters' = CASE pod = "none" -> counters
                   [] pod = "pending" -> "active"
                   [] pod = "started" -> "active"
                   [] pod = "running" -> "ready"
                   [] PodEnded -> "finished"
  /\ counters' # counters
  /\ UNCHANGED <<job, pod, late, readable, poll, verdict>>

DelayPasses ==
  /\ ~late /\ late' = TRUE
  /\ UNCHANGED <<job, pod, counters, readable, poll, verdict>>
-----------------------------------------------------------------------------
(***************************************************************************)
(* CheckStatus.                                                            *)
(***************************************************************************)
Continue(step) == poll' = step /\ UNCHANGED verdict
\* Only "waiting" is asked again; every other answer fails the Deployment or ends the checks.
Conclude(v) == poll' = (IF v = "waiting" THEN "idle" ELSE "done") /\ verdict' = v

\* CheckJobStatus.  A Job that is not found is stuck once the delay has passed.
CheckJobStatus ==
  /\ poll = "idle"
  /\ \/ ~job /\ Conclude(IF late THEN "stuck" ELSE "waiting")
     \/ job /\ counters = "finished" /\ Conclude("completed")
     \/ job /\ counters = "ready" /\ Conclude("waiting")
     \/ job /\ counters \in {"empty", "active"} /\ Continue("pod")
     \/ Conclude("error")
  /\ UNCHANGED cluster

NotReady == IF late THEN Continue("events") ELSE Conclude("waiting")
PodVerdict == Conclude(IF PodEnded THEN "completed" ELSE "waiting")

\* GetPodJob when no container of the Job is ready: the counters may be old.
CheckPod ==
  /\ poll = "pod"
  /\ \/ ~readable /\ Conclude("waiting")
     \/ readable /\ pod # "none" /\ PodHasStarted /\ PodVerdict
     \/ readable /\ ~PodHasStarted /\ NotReady
     \/ Conclude("error")
  /\ UNCHANGED cluster

\* GetObjectWarningEvents, which may fail without consequence but takes a while.
FetchWarningEvents ==
  /\ poll = "events" /\ Continue("recheck")
  /\ UNCHANGED cluster

\* Mutant: the Pod is not read again after the events.
StuckAfterEvents == poll = "recheck" /\ Conclude("stuck") /\ UNCHANGED cluster

\* The Pod is read once more before it is given up.
RecheckPod ==
  /\ poll = "recheck"
  /\ \/ PodHasStarted /\ PodVerdict
     \/ ~PodHasStarted /\ Conclude("stuck")
     \/ Conclude("waiting")
  /\ UNCHANGED cluster
-----------------------------------------------------------------------------
CheckStatus == CheckJobStatus \/ CheckPod \/ FetchWarningEvents \/ RecheckPod

Next ==
  \/ Start \/ PodMoves \/ CountersFollow \/ DelayPasses
  \/ CheckJobStatus \/ CheckPod \/ FetchWarningEvents \/ RecheckPod

Spec == Init /\ [][Next]_vars

\* Status checks are delivered again, time passes and a read of the Pod does not
\* fail for ever; Kubernetes need not schedule anything.
Fairness ==
  WF_vars(CheckStatus) /\ WF_vars(DelayPasses) /\ SF_vars(RecheckPod /\ verdict' # "waiting")
FairSpec == Spec /\ Fairness
-----------------------------------------------------------------------------
\* CheckStatus never gives up an infrastructure operation that has begun, although
\* the Job's counters are old and the Pod may start between two of its calls.
StuckMeansNotStartedStep ==
  verdict # "stuck" /\ verdict' = "stuck" => ~PodHasStarted
StuckMeansNotStarted == [][StuckMeansNotStartedStep]_vars

\* "completed", after which nobody looks at the Runner again, is only said of a
\* Pod that has ended.
CompletedMeansEnded == verdict = "completed" => PodEnded

\* A Pod that is never scheduled is reported as stuck, so that the Deployment need
\* not wait for the whole dispatch budget, unless the role cannot list Pods.
UnscheduledIsReported ==
  readable /\ <>[](job /\ ~PodHasStarted) => <>(verdict \in {"stuck", "error"})
=============================================================================
