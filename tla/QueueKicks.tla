------------------------------ MODULE QueueKicks ------------------------------
(***************************************************************************)
(* How an Environment's queue gets promoted at all: kicks coalesced in the *)
(* memory of one process (deploymentQueueKicks), promoters of several      *)
(* processes that skip a head another one holds, and the sweeper that makes *)
(* up for kicks which a crash, a lost event or a skip threw away.          *)
(*                                                                         *)
(* What a promotion does with the head is modelled in EnvironmentQueue;    *)
(* here it only takes the head, finds the Environment busy or not, and     *)
(* dispatches, rejects, defers or gives up.  One Environment.              *)
(***************************************************************************)
EXTENDS Naturals, FiniteSets

CONSTANTS
    Processes,     \* data-plane replicas
    MaxItems,      \* bound: requests ever enqueued
    MaxFailures,   \* bound: promotions that fail for a transient reason
    MaxCrashes,    \* bound: process restarts
    MaxHandlers    \* bound: handlers of one process that are about to kick

Loops == 1..2                                     \* goroutines one process could have for the Environment
Actors == (Processes \X Loops) \cup (Processes \X {0})   \* loop 0 is the process's sweeper
ProcessOf(a) == a[1]
Sweeper(p) == <<p, 0>>

VARIABLES
    waiting,    \* queued rows
    enqueued,   \* rows ever inserted
    due,        \* the head's next_attempt_at has passed
    busy,       \* a Deployment executes in the Environment
    holder,     \* the promoter whose transaction locks the head row, or NoPromoter
    pending,    \* queueKicks.pending of each process: absent, no or again
    pc,         \* where each promoter is
    toKick,     \* handlers of a process that committed and have not kicked yet
    owed,       \* history: a kick came after the newest promotion of the process began
    failures, crashes

vars == <<waiting, enqueued, due, busy, holder, pending, pc, toKick, owed, failures, crashes>>
NoPromoter == <<>>

Init ==
    /\ waiting = 0 /\ enqueued = 0 /\ due = TRUE /\ busy = FALSE /\ holder = NoPromoter
    /\ pending = [p \in Processes |-> "absent"]
    /\ pc = [a \in Actors |-> "idle"]
    /\ toKick = [p \in Processes |-> 0]
    /\ owed = [p \in Processes |-> FALSE]
    /\ failures = 0 /\ crashes = 0

(***************************************************************************)
(* Triggers: a commit, and only then a kick                                *)
(***************************************************************************)
HandlerWillKick(p) == toKick[p] < MaxHandlers /\ toKick' = [toKick EXCEPT ![p] = @ + 1]

\* An enqueue commits.  A new row is due at once.
EnqueueDeployment(p) ==
    /\ enqueued < MaxItems
    /\ waiting' = waiting + 1 /\ enqueued' = enqueued + 1
    /\ due' = (due \/ waiting = 0)
    /\ HandlerWillKick(p)
    /\ UNCHANGED <<busy, holder, pending, pc, owed, failures, crashes>>

\* A cancellation takes the row lock NOWAIT, so a held head is refused.
CancelDeploymentQueueItem(p) ==
    /\ waiting > 0 /\ (holder # NoPromoter => waiting > 1)
    /\ waiting' = waiting - 1
    /\ HandlerWillKick(p)
    /\ UNCHANGED <<enqueued, due, busy, holder, pending, pc, owed, failures, crashes>>

\* The Deployment ended and some replica's handler of that event will kick.
DeploymentEnds(p) ==
    /\ busy /\ busy' = FALSE
    /\ HandlerWillKick(p)
    /\ UNCHANGED <<waiting, enqueued, due, holder, pending, pc, owed, failures, crashes>>

\* The lease lapses: nobody is told.
EndsUnnoticed ==
    /\ busy /\ busy' = FALSE
    /\ UNCHANGED <<waiting, enqueued, due, holder, pending, pc, toKick, owed, failures, crashes>>

(***************************************************************************)
(* KickDeploymentQueue                                                     *)
(***************************************************************************)
FreeLoop(p) == CHOOSE n \in Loops : pc[<<p, n>>] = "idle"
StartLoop(p) == pc' = [pc EXCEPT ![<<p, FreeLoop(p)>>] = "start"]

\* Mutant: a kick during a promotion is not remembered.
KickForgotten(p) ==
    /\ toKick[p] > 0 /\ toKick' = [toKick EXCEPT ![p] = @ - 1]
    /\ owed' = [owed EXCEPT ![p] = TRUE]
    /\ IF pending[p] # "absent" THEN UNCHANGED <<pending, pc>>
       ELSE pending' = [pending EXCEPT ![p] = "no"] /\ StartLoop(p)
    /\ UNCHANGED <<waiting, enqueued, due, busy, holder, failures, crashes>>

KickDeploymentQueue(p) ==
    /\ toKick[p] > 0 /\ toKick' = [toKick EXCEPT ![p] = @ - 1]
    /\ owed' = [owed EXCEPT ![p] = TRUE]
    /\ IF pending[p] # "absent"
       THEN pending' = [pending EXCEPT ![p] = "again"] /\ UNCHANGED pc
       ELSE pending' = [pending EXCEPT ![p] = "no"] /\ StartLoop(p)
    /\ UNCHANGED <<waiting, enqueued, due, busy, holder, failures, crashes>>

\* The loop's end: under the mutex, leave or go round again.
LoopAgain(p, n) ==
    /\ pc[<<p, n>>] = "done"
    /\ pending' = [pending EXCEPT ![p] = IF @ = "again" THEN "no" ELSE "absent"]
    /\ pc' = [pc EXCEPT ![<<p, n>>] = IF pending[p] = "again" THEN "start" ELSE "idle"]
    /\ UNCHANGED <<waiting, enqueued, due, busy, holder, toKick, owed, failures, crashes>>

(***************************************************************************)
(* SweepDeploymentQueue: promote directly whatever head is due             *)
(***************************************************************************)
DueDeploymentQueueEnvironments == waiting > 0 /\ due

SweepDeploymentQueue(p) ==
    /\ pc[Sweeper(p)] = "idle" /\ DueDeploymentQueueEnvironments
    /\ pc' = [pc EXCEPT ![Sweeper(p)] = "start"]
    /\ UNCHANGED <<waiting, enqueued, due, busy, holder, pending, toKick, owed, failures, crashes>>

\* ExpireDeploymentQueueItems skips a row a promoter holds and promotes what follows.
SweepExpires(p) ==
    /\ pc[Sweeper(p)] = "idle" /\ waiting > 0 /\ (holder # NoPromoter => waiting > 1)
    /\ waiting' = waiting - 1
    /\ pc' = [pc EXCEPT ![Sweeper(p)] = "start"]
    /\ UNCHANGED <<enqueued, due, busy, holder, pending, toKick, owed, failures, crashes>>

\* Backoff ends: next_attempt_at <= now().
BackoffEnds ==
    /\ ~due /\ due' = TRUE
    /\ UNCHANGED <<waiting, enqueued, busy, holder, pending, pc, toKick, owed, failures, crashes>>

(***************************************************************************)
(* A promotion: ClaimDeploymentQueueHead, CheckEnvironmentAvailable, create *)
(***************************************************************************)
Ended(a) == IF a = Sweeper(ProcessOf(a)) THEN "idle" ELSE "done"

\* FOR UPDATE SKIP LOCKED: nothing waits, or another promoter holds the head.
ClaimDeploymentQueueHead(a) ==
    /\ pc[a] = "start"
    /\ owed' = [owed EXCEPT ![ProcessOf(a)] = IF a = Sweeper(ProcessOf(a)) THEN @ ELSE FALSE]
    /\ IF waiting = 0 \/ holder # NoPromoter
       THEN pc' = [pc EXCEPT ![a] = Ended(a)] /\ UNCHANGED holder
       ELSE pc' = [pc EXCEPT ![a] = "claimed"] /\ holder' = a
    /\ UNCHANGED <<waiting, enqueued, due, busy, pending, toKick, failures, crashes>>

CheckEnvironmentAvailable(a) ==
    /\ pc[a] = "claimed"
    /\ pc' = [pc EXCEPT ![a] = IF busy THEN "found busy" ELSE "creating"]
    /\ UNCHANGED <<waiting, enqueued, due, busy, holder, pending, toKick, owed, failures, crashes>>

\* The rollback of a busy attempt releases the head only now: a kick that
\* skipped the held head meanwhile did nothing.
ReturnBusy(a) ==
    /\ pc[a] = "found busy"
    /\ pc' = [pc EXCEPT ![a] = Ended(a)] /\ holder' = NoPromoter
    /\ UNCHANGED <<waiting, enqueued, due, busy, pending, toKick, owed, failures, crashes>>

Dispatch(a) ==
    /\ pc[a] = "creating" /\ ~busy
    /\ waiting' = waiting - 1 /\ busy' = TRUE /\ holder' = NoPromoter /\ due' = TRUE
    /\ pc' = [pc EXCEPT ![a] = Ended(a)]
    /\ UNCHANGED <<enqueued, pending, toKick, owed, failures, crashes>>

\* A rejected item lets the next one be tried at once, in the same promotion.
RejectItem(a) ==
    /\ pc[a] = "creating"
    /\ waiting' = waiting - 1 /\ holder' = NoPromoter /\ due' = TRUE
    /\ pc' = [pc EXCEPT ![a] = "start"]
    /\ UNCHANGED <<enqueued, busy, pending, toKick, owed, failures, crashes>>

\* queueRetryLater: the item waits out its backoff, which only the sweeper watches.
DeferDeploymentQueueItem(a) ==
    /\ pc[a] = "creating" /\ failures < MaxFailures
    /\ failures' = failures + 1
    /\ due' = FALSE /\ holder' = NoPromoter
    /\ pc' = [pc EXCEPT ![a] = Ended(a)]
    /\ UNCHANGED <<waiting, enqueued, busy, pending, toKick, owed, crashes>>

\* The process dies: its transaction, its goroutines and its pending map with it.
Crash(p) ==
    /\ crashes < MaxCrashes /\ crashes' = crashes + 1
    /\ holder' = IF holder # NoPromoter /\ ProcessOf(holder) = p THEN NoPromoter ELSE holder
    /\ pending' = [pending EXCEPT ![p] = "absent"]
    /\ pc' = [a \in Actors |-> IF ProcessOf(a) = p THEN "idle" ELSE pc[a]]
    /\ toKick' = [toKick EXCEPT ![p] = 0]
    /\ owed' = [owed EXCEPT ![p] = FALSE]
    /\ UNCHANGED <<waiting, enqueued, due, busy, failures>>

PromotionStep(a) ==
    \/ ClaimDeploymentQueueHead(a) \/ CheckEnvironmentAvailable(a) \/ ReturnBusy(a)
    \/ Dispatch(a) \/ RejectItem(a) \/ DeferDeploymentQueueItem(a)

Trigger(p) ==
    EnqueueDeployment(p) \/ CancelDeploymentQueueItem(p) \/ DeploymentEnds(p) \/ SweepExpires(p)

\* Everything is settled and nobody is left to kick.
Quiet ==
    /\ enqueued = MaxItems /\ waiting = 0 /\ ~busy /\ due
    /\ \A a \in Actors : pc[a] = "idle"
    /\ \A p \in Processes : toKick[p] = 0
    /\ UNCHANGED vars

Next ==
    \/ \E p \in Processes : Trigger(p) \/ KickDeploymentQueue(p) \/ SweepDeploymentQueue(p) \/ Crash(p)
    \/ \E p \in Processes, n \in Loops : LoopAgain(p, n)
    \/ \E a \in Actors : PromotionStep(a)
    \/ EndsUnnoticed \/ BackoffEnds \/ Quiet

Spec == Init /\ [][Next]_vars

\* Handlers and goroutines that run go on, a Deployment ends (its lease lapses
\* at the latest), time passes and every replica's sweeper ticks every 15 s.
\* Nothing is assumed of events: DeploymentEnds need never be taken.
Fairness ==
    /\ WF_vars(EndsUnnoticed) /\ WF_vars(BackoffEnds)
    /\ \A p \in Processes : WF_vars(KickDeploymentQueue(p)) /\ WF_vars(SweepDeploymentQueue(p))
    /\ \A p \in Processes, n \in Loops : WF_vars(LoopAgain(p, n))
    /\ \A a \in Actors : WF_vars(PromotionStep(a))

FairSpec == Spec /\ Fairness

(***************************************************************************)
(* Properties                                                              *)
(***************************************************************************)

\* A kick is never lost inside its process (KickDeploymentQueue): as long as no
\* promotion has begun after it, either the process will begin one now or the
\* running one is followed by another.
KickRemembered ==
    \A p \in Processes : owed[p] =>
        \/ pending[p] = "again"
        \/ \E n \in Loops : pc[<<p, n>>] = "start"

\* Kicks never pile up: a process runs at most one background promotion of the
\* Environment, however many handlers kick while it runs.
OnePromotionPerProcess ==
    \A p \in Processes : Cardinality({n \in Loops : pc[<<p, n>>] # "idle"}) <= 1

\* Whatever kicks a crash, a lost event or a held head threw away, the queue
\* drains: the sweeper finds the head (SweepDeploymentQueue).
QueueDrains == (waiting > 0) ~> (waiting = 0)

===============================================================================
