--------------------------- MODULE CompletionHooks ---------------------------
(***************************************************************************)
(* Waiting for a Deployment to complete on one replica: the registry of    *)
(* waiter channels (completionhooks.CompletionHooks), the NATS subscription *)
(* that notifies it, and the long-poll handlers that wait                  *)
(* (WaitForDeploymentComplete).  One Deployment, hence one handle.         *)
(***************************************************************************)
EXTENDS Naturals, Sequences, FiniteSets, SequencesExt

CONSTANTS
    WaitingCalls,              \* calls of the wait endpoint on this replica
    MaximumWaitersPerHandle,
    MaxEvents                  \* bound: completion events that reach the replica

HooksAssumption == MaximumWaitersPerHandle \in Nat \ {0}

VARIABLES
    status,      \* of the deployments row: executing, ended, or deleted with its Environment
    events,      \* completion events published and not yet received
    published,   \* events published so far
    waiters,     \* CompletionHooks.waiters of the handle, oldest first
    detached,    \* channels Notify owns and has not served yet
    channel,     \* each call's channel: none, open, or closed
    buffered,    \* the message Notify left in it
    pc, last, answer,
    hungUp,      \* the call's context is done: its time-out passed or its client left
    evicted,     \* history: a newer waiter closed the channel
    panicked     \* a channel was closed twice or sent to when closed

hooksVars == <<status, events, published, waiters, detached, channel, buffered, pc, last, answer,
          hungUp, evicted, panicked>>
database == <<status, events, published>>
registry == <<waiters, detached, channel, buffered, evicted, panicked>>

HooksInit ==
    /\ status = "executing" /\ events = 0 /\ published = 0
    /\ waiters = <<>> /\ detached = <<>>
    /\ channel = [c \in WaitingCalls |-> "none"] /\ buffered = {}
    /\ pc = [c \in WaitingCalls |-> "idle"] /\ last = {} /\ answer = [c \in WaitingCalls |-> "none"]
    /\ hungUp = {} /\ evicted = {} /\ panicked = FALSE

(***************************************************************************)
(* The Deployment and its events                                           *)
(***************************************************************************)

\* The final status and its event commit together (transactional outbox).
DeploymentEnds ==
    /\ status = "executing" /\ status' = "ended"
    /\ events' = 1 /\ published' = 1
    /\ UNCHANGED <<registry, pc, last, answer, hungUp>>

\* A later change of the ended Deployment, or a second delivery of its event.
EventAgain ==
    /\ status = "ended" /\ published < MaxEvents
    /\ events' = events + 1 /\ published' = published + 1
    /\ UNCHANGED <<status, registry, pc, last, answer, hungUp>>

\* The Environment is deleted and its Deployments with it.
DeploymentDeleted ==
    /\ status = "ended" /\ status' = "deleted"
    /\ UNCHANGED <<events, published, registry, pc, last, answer, hungUp>>

\* Core NATS delivers at most once.
EventLost ==
    /\ events > 0 /\ events' = events - 1
    /\ UNCHANGED <<status, published, registry, pc, last, answer, hungUp>>

(***************************************************************************)
(* CompletionHooks                                                         *)
(***************************************************************************)
CloseAll(s) == [c \in WaitingCalls |-> IF c \in ToSet(s) THEN "closed" ELSE channel[c]]
ClosedTwice(s) == panicked \/ \E c \in ToSet(s) : channel[c] = "closed"

\* numOldWaitersToClose
Excess ==
    IF Len(waiters) >= MaximumWaitersPerHandle THEN Len(waiters) - MaximumWaitersPerHandle + 1 ELSE 0

AddWaiter(c) ==
    /\ pc[c] = "idle" /\ pc' = [pc EXCEPT ![c] = "read"]
    /\ LET old == SubSeq(waiters, 1, Excess) IN
       /\ channel' = [CloseAll(old) EXCEPT ![c] = "open"]
       /\ panicked' = ClosedTwice(old)
       /\ evicted' = evicted \cup ToSet(old)
       /\ waiters' = Append(SubSeq(waiters, Excess + 1, Len(waiters)), c)
    /\ UNCHANGED <<database, detached, buffered, last, answer, hungUp>>

\* Mutant: a notified waiter stays registered.
NotifyKeeping ==
    /\ events > 0 /\ detached = <<>>
    /\ events' = events - 1
    /\ detached' = waiters
    /\ UNCHANGED <<status, published, waiters, channel, buffered, evicted, panicked, pc, last, answer, hungUp>>

\* Notify takes the handle's waiters out of the map and unlocks.
Notify ==
    /\ events > 0 /\ detached = <<>>
    /\ events' = events - 1
    /\ detached' = waiters /\ waiters' = <<>>
    /\ UNCHANGED <<status, published, channel, buffered, evicted, panicked, pc, last, answer, hungUp>>

\* ... and serves them one by one outside the lock.
Deliver ==
    /\ detached # <<>>
    /\ buffered' = buffered \cup {Head(detached)}
    /\ channel' = CloseAll(<<Head(detached)>>)
    /\ panicked' = ClosedTwice(<<Head(detached)>>)
    /\ detached' = Tail(detached)
    /\ UNCHANGED <<database, waiters, evicted, pc, last, answer, hungUp>>

(***************************************************************************)
(* WaitForDeploymentComplete                                               *)
(***************************************************************************)

\* Every return runs the deferred removeWaiter first.
ReturnRegistered(c, code) ==
    /\ pc' = [pc EXCEPT ![c] = "returned"]
    /\ answer' = [answer EXCEPT ![c] = code]
    /\ UNCHANGED waiters
Return(c, code) ==
    /\ pc' = [pc EXCEPT ![c] = "returned"]
    /\ answer' = [answer EXCEPT ![c] = code]
    /\ waiters' = RemoveFirst(waiters, c)

\* The status is read anew on each turn; after the channel fired it is the last one.
ReadStatus(c) ==
    /\ pc[c] = "read"
    /\ IF status = "deleted" THEN Return(c, "404")
       ELSE IF status = "ended" THEN Return(c, "200")
       ELSE IF c \in last THEN Return(c, "408")
       ELSE pc' = [pc EXCEPT ![c] = "select"] /\ UNCHANGED <<answer, waiters>>
    /\ UNCHANGED <<database, detached, channel, buffered, evicted, panicked, last, hungUp>>

\* case <-ch
ChannelFires(c) ==
    /\ pc[c] = "select" /\ (c \in buffered \/ channel[c] = "closed")
    /\ buffered' = buffered \ {c}
    /\ last' = last \cup {c}
    /\ pc' = [pc EXCEPT ![c] = "read"]
    /\ UNCHANGED <<database, waiters, detached, channel, evicted, panicked, answer, hungUp>>

\* Mutant: the database is not polled.
NeverPoll(c) == FALSE /\ UNCHANGED hooksVars
\* case <-time.After(waitForDeploymentPollTime)
Poll(c) ==
    /\ pc[c] = "select"
    /\ pc' = [pc EXCEPT ![c] = "read"]
    /\ UNCHANGED <<database, registry, last, answer, hungUp>>

\* case <-ctx.Done()
ContextDone(c) ==
    /\ pc[c] = "select" /\ c \in hungUp
    /\ Return(c, "408")
    /\ UNCHANGED <<database, detached, channel, buffered, evicted, panicked, last, hungUp>>

\* A read with a finished context fails: the handler returns an error.
ReadFails(c) ==
    /\ pc[c] = "read" /\ c \in hungUp
    /\ Return(c, "error")
    /\ UNCHANGED <<database, detached, channel, buffered, evicted, panicked, last, hungUp>>

HangUp(c) ==
    /\ pc[c] \in {"read", "select"} /\ c \notin hungUp
    /\ hungUp' = hungUp \cup {c}
    /\ UNCHANGED <<database, registry, pc, last, answer>>

Handler(c) == ReadStatus(c) \/ ChannelFires(c) \/ Poll(c) \/ ContextDone(c) \/ ReadFails(c)

Quiet ==
    /\ \A c \in WaitingCalls : pc[c] = "returned"
    /\ status = "deleted" /\ events = 0 /\ detached = <<>>
    /\ UNCHANGED hooksVars

HooksNext ==
    \/ DeploymentEnds \/ DeploymentDeleted \/ EventAgain \/ EventLost \/ Notify \/ Deliver
    \/ \E c \in WaitingCalls : AddWaiter(c) \/ HangUp(c) \/ Handler(c)
    \/ Quiet

HooksSpec == HooksInit /\ [][HooksNext]_hooksVars

\* Reads return, the poll timer fires and the subscription's callback runs to
\* its end.  Events and hang-ups need never come.
HooksFairness ==
    /\ WF_hooksVars(Deliver) /\ WF_hooksVars(DeploymentEnds)
    /\ \A c \in WaitingCalls : WF_hooksVars(Handler(c))
FairHooksSpec == HooksSpec /\ HooksFairness

(***************************************************************************)
(* Properties                                                              *)
(***************************************************************************)

\* Eviction, notification and cancellation never close a channel twice nor
\* send to a closed one, which would take the whole replica down (AddWaiter, Notify).
NeverPanics == ~panicked

\* A caller is told "not completed yet" only if its time ran out or newer
\* callers displaced it, never because of a notification that raced its read
\* (the one last check of WaitForDeploymentComplete).
NoEarlyTimeout == \A c \in WaitingCalls : answer[c] = "408" => c \in hungUp \cup evicted

\* The registry holds at most its maximum, and no call that already returned:
\* nothing leaks (AddWaiter, removeWaiter).
RegistryBounded ==
    /\ Len(waiters) <= MaximumWaitersPerHandle
    /\ \A c \in ToSet(waiters) : pc[c] # "returned"

\* A replica serves its waiting calls: no channel closes twice, no call gives up
\* without cause and none stays behind in the registry (AddWaiter, Notify,
\* WaitForDeploymentComplete).
WaitersServed == NeverPanics /\ NoEarlyTimeout /\ RegistryBounded

\* Once the Deployment ended every waiting call returns although every event
\* may be lost: the poll finds out.
EveryWaitEnds == \A c \in WaitingCalls : (pc[c] # "idle") ~> (pc[c] = "returned")
===============================================================================
