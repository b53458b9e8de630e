---------------------------- MODULE ServerLifecycle ----------------------------
(***************************************************************************)
(* One server process from start to exit, and its restarts                 *)
(* (cmd/server/main.go): resources are opened in order, each defers its    *)
(* own closing, and a signal or a failed component makes main return, which *)
(* runs the deferred closings in reverse.  Handlers commit their events    *)
(* with their work and publish them optimistically afterwards; a scheduled *)
(* flush publishes what is left (reliable outbox).                         *)
(***************************************************************************)
EXTENDS Naturals, Sequences, FiniteSets, SequencesExt

CONSTANTS MaxWork, MaxStops   \* bounds: units of work, and exits of the process

\* Mutant: the database closes before what uses it.
DatabaseOpenedLast ==
    <<"nats", "background", "http", "main", "results", "status", "completions", "database">>

\* The order in which main opens its resources, hence the reverse of closing them.
StartOrder ==
    <<"database", "nats", "background", "http", "main", "results", "status", "completions">>

Consumers == {"main", "results", "status"}
Awaited == Consumers \cup {"http"}         \* closing waits for their handlers
Workers == Awaited \cup {"background"}     \* everything that commits work

VARIABLES
    phase,      \* starting, running, delay, stopping, exited
    opened,     \* how many resources of StartOrder are open
    defers,     \* closings still to run, the next one last
    closing,    \* the component main waits for, or none
    closed,     \* resources that were closed
    cut,        \* components whose handlers were given up on after the time-out
    failing,    \* components blocked in errChan <-
    work,       \* each worker's handler: idle, working or committed
    stranded,   \* history: components whose handler met a closed resource
    begun,      \* units of work begun
    outbox,     \* committed events that are not published
    stops

vars == <<phase, opened, defers, closing, closed, cut, failing, work, stranded, begun, outbox, stops>>
process == <<phase, opened, defers, closing, closed, cut, failing>>

IsOpen(c) == \E i \in 1..opened : StartOrder[i] = c /\ c \notin closed
IdleWork == [c \in Workers |-> "idle"]

Init ==
    /\ phase = "starting" /\ opened = 0 /\ defers = <<>> /\ closing = "none" /\ closed = {} /\ cut = {}
    /\ failing = {} /\ work = IdleWork /\ stranded = {} /\ begun = 0 /\ outbox = 0 /\ stops = 0

(***************************************************************************)
(* Start                                                                   *)
(***************************************************************************)
OpenNext ==
    /\ phase = "starting" /\ opened < Len(StartOrder)
    /\ opened' = opened + 1
    /\ defers' = Append(defers, StartOrder[opened + 1])
    /\ UNCHANGED <<phase, closing, closed, cut, failing, work, stranded, begun, outbox, stops>>

\* The listener and the consumers run once everything is open.
Started ==
    /\ phase = "starting" /\ opened = Len(StartOrder)
    /\ phase' = "running"
    /\ UNCHANGED <<opened, defers, closing, closed, cut, failing, work, stranded, begun, outbox, stops>>

Gone ==
    /\ phase' = "exited" /\ opened' = 0 /\ defers' = <<>> /\ closing' = "none" /\ closed' = {} /\ cut' = {}
    /\ failing' = {} /\ work' = IdleWork
    /\ UNCHANGED <<stranded, begun, outbox>>

\* zap's Fatal exits at once: no deferred closing runs.  A crash is the same.
Fatal ==
    /\ phase # "exited" /\ stops < MaxStops /\ stops' = stops + 1
    /\ Gone

\* The orchestrator starts the container again.
Restart ==
    /\ phase = "exited" /\ phase' = "starting"
    /\ UNCHANGED <<opened, defers, closing, closed, cut, failing, work, stranded, begun, outbox, stops>>

(***************************************************************************)
(* Stop                                                                    *)
(***************************************************************************)

\* A signal: main sleeps for the shutdown delay while everything goes on.
Signal ==
    /\ phase = "running" /\ stops < MaxStops /\ stops' = stops + 1
    /\ phase' = "delay"
    /\ UNCHANGED <<opened, defers, closing, closed, cut, failing, work, stranded, begun, outbox>>

DelayOver ==
    /\ phase = "delay" /\ phase' = "stopping"
    /\ UNCHANGED <<opened, defers, closing, closed, cut, failing, work, stranded, begun, outbox, stops>>

\* A component's Run returns an error and its goroutine sends it.
ComponentFails(c) ==
    /\ phase \in {"running", "delay"} /\ c \notin failing /\ stops < MaxStops /\ stops' = stops + 1
    /\ failing' = failing \cup {c}
    /\ UNCHANGED <<phase, opened, defers, closing, closed, cut, work, stranded, begun, outbox>>

ErrorOnlyLogged(c) ==
    /\ phase = "running" /\ c \in failing
    /\ failing' = failing \ {c}
    /\ UNCHANGED <<phase, opened, defers, closing, closed, cut, work, stranded, begun, outbox, stops>>
\* main's select takes the first error and returns.
ReceiveError(c) ==
    /\ phase = "running" /\ c \in failing
    /\ failing' = failing \ {c} /\ phase' = "stopping"
    /\ UNCHANGED <<opened, defers, closing, closed, cut, work, stranded, begun, outbox, stops>>

\* The draining goroutine takes the errors that come later.
DrainErrors(c) ==
    /\ phase = "stopping" /\ c \in failing
    /\ failing' = failing \ {c}
    /\ UNCHANGED <<phase, opened, defers, closing, closed, cut, work, stranded, begun, outbox, stops>>

\* The next deferred closing.  Consumers and the web server stop taking work and
\* are waited for; everything else closes at once.
RunDefer ==
    /\ phase = "stopping" /\ closing = "none" /\ defers # <<>>
    /\ defers' = Front(defers)
    /\ IF Last(defers) \in Awaited
       THEN closing' = Last(defers) /\ UNCHANGED closed
       ELSE closed' = closed \cup {Last(defers)} /\ UNCHANGED closing
    /\ UNCHANGED <<phase, opened, cut, failing, work, stranded, begun, outbox, stops>>

HandlersDone ==
    /\ closing # "none" /\ work[closing] = "idle"
    /\ closed' = closed \cup {closing} /\ closing' = "none"
    /\ UNCHANGED <<phase, opened, defers, cut, failing, work, stranded, begun, outbox, stops>>

\* A minute for a consumer, the shutdown delay for the web server.
CloseTimesOut ==
    /\ closing # "none" /\ work[closing] # "idle"
    /\ cut' = cut \cup {closing}
    /\ closed' = closed \cup {closing} /\ closing' = "none"
    /\ UNCHANGED <<phase, opened, defers, failing, work, stranded, begun, outbox, stops>>

MainReturns ==
    /\ phase = "stopping" /\ defers = <<>> /\ closing = "none"
    /\ Gone /\ UNCHANGED stops

(***************************************************************************)
(* Work                                                                    *)
(***************************************************************************)
Serves(c) ==
    /\ IsOpen(c) /\ closing # c
    /\ c \in Awaited => phase \notin {"starting", "exited"}

BeginWork(c) ==
    /\ Serves(c) /\ work[c] = "idle" /\ begun < MaxWork
    /\ begun' = begun + 1
    /\ work' = [work EXCEPT ![c] = "working"]
    /\ UNCHANGED <<process, stranded, outbox, stops>>

\* The transaction commits its changes and its event, or the database is gone.
CommitWork(c) ==
    /\ work[c] = "working"
    /\ IF IsOpen("database")
       THEN outbox' = outbox + 1 /\ work' = [work EXCEPT ![c] = "committed"] /\ UNCHANGED stranded
       ELSE work' = [work EXCEPT ![c] = "idle"] /\ stranded' = stranded \cup {<<c, c \in cut>>} /\ UNCHANGED outbox
    /\ UNCHANGED <<process, begun, stops>>

\* OptimisticPublish: best effort, the row is deleted only after the publication.
PublishWork(c) ==
    /\ work[c] = "committed"
    /\ work' = [work EXCEPT ![c] = "idle"]
    /\ outbox' = IF IsOpen("nats") /\ IsOpen("database") /\ outbox > 0 THEN outbox - 1 ELSE outbox
    /\ stranded' = IF IsOpen("nats") THEN stranded ELSE stranded \cup {<<c, c \in cut>>}
    /\ UNCHANGED <<process, begun, stops>>

\* ScheduledFlushPendingMessages
Flush ==
    /\ IsOpen("background") /\ IsOpen("nats") /\ IsOpen("database") /\ outbox > 0
    /\ outbox' = outbox - 1
    /\ UNCHANGED <<process, work, stranded, begun, stops>>

Next ==
    \/ OpenNext \/ Started \/ Fatal \/ Restart \/ Signal \/ DelayOver
    \/ \E c \in Awaited : ComponentFails(c) \/ ReceiveError(c) \/ DrainErrors(c)
    \/ RunDefer \/ HandlersDone \/ CloseTimesOut \/ MainReturns
    \/ \E c \in Workers : BeginWork(c) \/ CommitWork(c) \/ PublishWork(c)
    \/ Flush
    \/ (phase = "running" /\ stops = MaxStops /\ begun = MaxWork
        /\ work = IdleWork /\ failing = {} /\ UNCHANGED vars)

Spec == Init /\ [][Next]_vars

\* main goes on, timers fire and the container is restarted.  Of handlers nothing
\* is assumed: one may hang for ever.
Fairness ==
    /\ WF_vars(OpenNext) /\ WF_vars(Started) /\ WF_vars(Restart) /\ WF_vars(DelayOver)
    /\ \A c \in Awaited : WF_vars(ReceiveError(c)) /\ WF_vars(DrainErrors(c))
    /\ WF_vars(RunDefer) /\ WF_vars(HandlersDone \/ CloseTimesOut) /\ WF_vars(MainReturns)
    /\ WF_vars(Flush)

FairSpec == Spec /\ Fairness

(***************************************************************************)
(* Properties                                                              *)
(***************************************************************************)

\* A handler of a consumer or of the web server finds the database or NATS closed
\* only if main had waited for it in vain: resources close after their users (the
\* order of main's defers).  Background tasks are cancelled, not waited for.
ResourcesOutliveHandlers == \A s \in stranded : s[1] \in Awaited => s[2]

\* After a signal or a failed component the process ends, although handlers may
\* hang and further components may fail (the time-outs of main's closings and the
\* goroutine that drains errChan).
ShutdownEnds == (phase \in {"delay", "stopping"} \/ failing # {}) ~> (phase = "exited")

\* Every event committed with its work is published, whenever the process was
\* stopped or killed (the scheduled flush of the outbox).
CommittedEventsPublished == (outbox > 0) ~> (outbox = 0)
===============================================================================
