------------------------------ MODULE MCLiveRequests ------------------------------
(***************************************************************************)
(* What must happen in the end, at the API and behind it: each component   *)
(* under the fairness it states for itself; and the operators who          *)
(* acknowledge an outcome (extended). The components share no state here:  *)
(* each behaviour chooses one part, and the others stay in their initial   *)
(* states.                                                                 *)
(***************************************************************************)
EXTENDS OutcomeAcknowledgement, TLC

CONSTANTS Parts, c1, c2, w1, w2, d1, k1, m1, m2, NoKey, NoManifest, Nobody, UserKey,
    OperationKey

VARIABLES part, waiting, enqueued, due, busy, holder, pending, pc, toKick, owed, failures,
    crashes, req, keyedCall, deps, items, keyLock, admLock, receipt, deleting, promoter, status,
    events, published, waiters, detached, channel, buffered, waitingPc, last, answer, hungUp,
    evicted, panicked, env, destroyDeps, destroyWaiting, admission, destroyEvents, worker,
    caller, hist, dep, had, reader

Body == [key |-> k1, mode |-> "deploy", planOnly |-> "unset", manifest |-> m1, target |-> 0,
         versions |-> {}, malformed |-> FALSE, halt |-> FALSE, whenBusy |-> "queue",
         ttl |-> "unset", dryRun |-> FALSE]
KeyedBodies ==
  {Body, [Body EXCEPT !.manifest = m2], [Body EXCEPT !.whenBusy = "reject"],
   [Body EXCEPT !.mode = "plan_only"], [Body EXCEPT !.key = NoKey, !.manifest = m2]}

Kicks == INSTANCE QueueKicks WITH Processes <- {w1, w2}, MaxItems <- 2, MaxFailures <- 1,
    MaxCrashes <- 1, MaxHandlers <- 1
Keyed == INSTANCE DeploymentRequests WITH Calls <- {c1, c2}, Bodies <- KeyedBodies,
    NoOne <- Nobody, Promoter <- w1, MaxDepth <- 2, MaxDeployments <- 2, call <- keyedCall
Waiting == INSTANCE CompletionHooks WITH WaitingCalls <- {c1, c2}, MaximumWaitersPerHandle <- 1,
    MaxEvents <- 1, pc <- waitingPc
Destroy == INSTANCE EnvironmentDestroy WITH Workers <- {w1}, Internal <- {},
    Refuses <- TRUE, MaxDeployments <- 2, MaxRequests <- 2, MaxFaults <- 1, MaxEvents <- 1,
    MaxDeliver <- 4, deps <- destroyDeps, waiting <- destroyWaiting, events <- destroyEvents
Material == INSTANCE DeploymentMaterial WITH Deployments <- {d1}, Readers <- {c1, c2},
    None <- Nobody

ASSUME Keyed!RequestsAssumption

SuiteInit ==
  /\ part \in Parts
  /\ Kicks!Init
  /\ Keyed!Init
  /\ Waiting!HooksInit
  /\ Init
  /\ Destroy!Init
  /\ Material!Init
  /\ part # "requests" => req = [c \in {c1, c2} |-> Body]

kicksVars == <<waiting, enqueued, due, busy, holder, pending, pc, toKick, owed, failures,
    crashes>>
keyedVars == <<req, keyedCall, deps, items, keyLock, admLock, receipt, deleting, promoter>>
waitingVars == <<status, events, published, waiters, detached, channel, buffered, waitingPc,
    last, answer, hungUp, evicted, panicked>>
destroyVars == <<env, destroyDeps, destroyWaiting, admission, destroyEvents, worker, caller,
    hist>>
materialVars == <<dep, had, reader>>

allVars == <<part, vars, kicksVars, keyedVars, waitingVars, destroyVars, materialVars>>

\* Where every operation may end, the system may rest.
AtRest == part \in {"acknowledgement"} /\ UNCHANGED allVars

\* The chosen component moves, the others stand still.
Move ==
  /\ UNCHANGED part
  /\ IF part = "kicks" THEN Kicks!Next ELSE UNCHANGED kicksVars
  /\ IF part = "requests" THEN Keyed!Next ELSE UNCHANGED keyedVars
  /\ IF part = "waiting" THEN Waiting!HooksNext ELSE UNCHANGED waitingVars
  /\ IF part = "acknowledgement" THEN Next ELSE UNCHANGED vars
  /\ IF part = "destroy" THEN Destroy!Next ELSE UNCHANGED destroyVars
  /\ IF part = "material" THEN Material!Next ELSE UNCHANGED materialVars

SuiteNext == Move \/ AtRest

SuiteSpec == SuiteInit /\ [][SuiteNext]_allVars

\* The fairness each component states for itself, of its own steps only.
FairSpec ==
  /\ SuiteSpec
  /\ WF_kicksVars(part = "kicks" /\ Kicks!EndsUnnoticed)
  /\ WF_kicksVars(part = "kicks" /\ Kicks!BackoffEnds)
  /\ \A p \in {w1, w2} : /\ WF_kicksVars(part = "kicks" /\ Kicks!KickDeploymentQueue(p))
                         /\ WF_kicksVars(part = "kicks" /\ Kicks!SweepDeploymentQueue(p))
  /\ \A p \in {w1, w2}, n \in Kicks!Loops :
       WF_kicksVars(part = "kicks" /\ Kicks!LoopAgain(p, n))
  /\ \A a \in Kicks!Actors : WF_kicksVars(part = "kicks" /\ Kicks!PromotionStep(a))
  /\ \A c \in {c1, c2} : SF_keyedVars(part = "requests" /\ Keyed!CallStep(c))
  /\ WF_keyedVars(part = "requests" /\ Keyed!EndPromotion)
  /\ WF_waitingVars(part = "waiting" /\ Waiting!Deliver)
  /\ WF_waitingVars(part = "waiting" /\ Waiting!DeploymentEnds)
  /\ \A c \in {c1, c2} : WF_waitingVars(part = "waiting" /\ Waiting!Handler(c))
  /\ WF_vars(part = "acknowledgement" /\ Relay)
  /\ WF_destroyVars(part = "destroy" /\ Destroy!Step(w1))
  /\ WF_destroyVars(part = "destroy" /\ \E d \in DOMAIN destroyDeps : Destroy!Ends(d))
  /\ WF_destroyVars(part = "destroy" /\ Destroy!Promote)
  /\ WF_materialVars(part = "material" /\ Material!DeleteDeploymentOutputsByCompletionDate)

-----------------------------------------------------------------------------
\* A kick is never lost inside its process and kicks never pile up; and whatever a
\* crash, a lost event or a held head threw away, the queue drains because the
\* sweeper finds its head (KickDeploymentQueue, SweepDeploymentQueue).
KicksSuffice ==
  /\ [](part = "kicks" => Kicks!KickRemembered /\ Kicks!OnePromotionPerProcess)
  /\ part = "kicks" => Kicks!QueueDrains

\* Every call that creates a Deployment is answered - no transaction waits for a lock
\* that its own call, or one that waits for it, holds - and every call that waits for
\* a Deployment returns once it ended, although every event may be lost
\* (createDeployment, WaitForDeploymentComplete).
CallersAnswered ==
  /\ part = "requests" => Keyed!EveryCallAnswered
  /\ part = "waiting" => Waiting!EveryWaitEnds

\* A deletion that was asked for ends with the Environment gone or the deletion
\* reported failed. It may wait for ever for a failed Deployment whose Runner is not
\* proved stopped; an acknowledgement of that Deployment wakes it, also after its own
\* events used up their deliveries, and whether or not the acknowledging call lives to
\* publish the event. A late result proves the stop and wakes nothing
\* (EnvironmentDestroy, OutcomeAcknowledgement).
DeletionsEnd ==
  /\ part = "destroy" => Destroy!DeletionEnds
  /\ part = "acknowledgement" => WakeArrives

\* Outputs stay for their whole window and can be decrypted by whoever got past the
\* owner check, and those the data plane has no key for do not stay longer
\* (DeploymentMaterial).
MaterialExpires ==
  /\ [](part = "material" => Material!KeptLongEnough /\ Material!PluginCanDecrypt)
  /\ part = "material" => Material!UserOutputsExpire
=============================================================================
