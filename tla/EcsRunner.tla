----------------------------- MODULE EcsRunner ------------------------------
(***************************************************************************)
(* The ECS back end of one Environment: every Start cleans up the family   *)
(* of task definitions, registers its own and runs a task with it, one AWS *)
(* call at a time; another Start of the same family may run beside it, on  *)
(* another replica or for the next Deployment.  A status check looks for   *)
(* the Deployment's task among the running ones and then the stopped ones, *)
(* one call each, while the task moves on.  What ECS lists is external: a  *)
(* task is listed some time after RunTask and forgotten some time after it *)
(* ended.                                                                  *)
(***************************************************************************)
EXTENDS Naturals, FiniteSets

CONSTANTS
  Deployments,   \* Deployments of the Environment on this Runner
  Handlers,      \* Starts that may be under way at once
  StaleLimit,    \* ecsDeleteStaleTaskDefinitionLimit
  MaxRevision,   \* bound: task definitions ever registered
  None           \* nothing

EcsAssumption ==
  /\ IsFiniteSet(Handlers) /\ StaleLimit \in Nat /\ StaleLimit >= Cardinality(Handlers)
  /\ MaxRevision \in Nat /\ None \notin Deployments \cup Nat

VARIABLES
  revision,   \* task definitions registered so far
  active,     \* ACTIVE revisions of the family
  inactive,   \* INACTIVE ones, not yet deleted
  task,       \* the task of each Deployment, None before RunTask
  definition, \* the revision each task runs
  handler,    \* per Start: step, Deployment, its own revision, what it listed
  listed,     \* Deployments whose task ECS lists
  search,     \* step of the status check of each Deployment
  checked,    \* its verdict, "none" while it is under way
  hidden      \* history: Deployments whose task the last check was not shown

family == <<revision, active, inactive>>
status == <<listed, search, checked, hidden>>
vars == <<family, task, definition, handler, status>>

IdleHandler == [pc |-> "idle", d |-> None, own |-> 0, listed |-> {}]

Init ==
  /\ revision = 0 /\ active = {} /\ inactive = {}
  /\ task = [d \in Deployments |-> None] /\ definition = [d \in Deployments |-> 0]
  /\ handler = [h \in Handlers |-> IdleHandler]
  /\ listed = {} /\ search = [d \in Deployments |-> "idle"]
  /\ checked = [d \in Deployments |-> "none"] /\ hidden = {}
-----------------------------------------------------------------------------
(***************************************************************************)
(* Start.                                                                  *)
(***************************************************************************)
Step(h, pc) == handler' = [handler EXCEPT ![h].pc = pc]

\* Any AWS call may fail; nothing is undone.
Fails(h) == handler' = [handler EXCEPT ![h] = IdleHandler] /\ UNCHANGED <<family, task, definition>>

Begin(h, d) ==
  /\ handler[h].pc = "idle" /\ revision < MaxRevision
  /\ handler' = [handler EXCEPT ![h] = [IdleHandler EXCEPT !.pc = "list", !.d = d]]
  /\ UNCHANGED <<family, task, definition, status>>

\* At most StaleLimit of them, in the order of the listing.
Stale(S) == {r \in S : Cardinality({q \in S : q < r}) < StaleLimit}

ListActive(h) ==
  /\ handler[h].pc = "list"
  /\ \/ Fails(h)
     \/ /\ handler' = [handler EXCEPT ![h].pc = "deregister", ![h].listed = Stale(active)]
        /\ UNCHANGED <<family, task, definition>>
  /\ UNCHANGED status

\* deregisterActiveTaskDefinitions, one call per definition.
DeregisterActive(h) ==
  /\ handler[h].pc = "deregister"
  /\ \/ handler[h].listed = {} /\ Step(h, "listInactive") /\ UNCHANGED <<family, task, definition>>
     \/ \E r \in handler[h].listed :
          /\ active' = active \ {r}
          /\ inactive' = inactive \cup ({r} \cap active)
          /\ handler' = [handler EXCEPT ![h].listed = @ \ {r}]
          /\ UNCHANGED <<revision, task, definition>>
     \/ handler[h].listed # {} /\ Fails(h)
  /\ UNCHANGED status

\* deleteInActiveTaskDefinitions: a listing, then one call for all of them.
ListInactive(h) ==
  /\ handler[h].pc = "listInactive"
  /\ \/ /\ handler' = [handler EXCEPT ![h].pc = IF inactive = {} THEN "register" ELSE "delete",
                                      ![h].listed = Stale(inactive)]
        /\ UNCHANGED <<family, task, definition>>
     \/ Fails(h)
  /\ UNCHANGED status

DeleteInactive(h) ==
  /\ handler[h].pc = "delete"
  /\ \/ /\ inactive' = inactive \ handler[h].listed
        /\ handler' = [handler EXCEPT ![h].pc = "register", ![h].listed = {}]
        /\ UNCHANGED <<revision, active, task, definition>>
     \/ Fails(h)
  /\ UNCHANGED status

Register(h) ==
  /\ handler[h].pc = "register"
  /\ \/ /\ revision < MaxRevision
        /\ revision' = revision + 1 /\ active' = active \cup {revision'}
        /\ handler' = [handler EXCEPT ![h].pc = "run", ![h].own = revision', ![h].listed = {}]
        /\ UNCHANGED <<inactive, task, definition>>
     \/ Fails(h)
  /\ UNCHANGED status

\* The client token is the Deployment's id: AWS runs one task for it, whoever asks.
RunsOnce(d) == task[d] = None

\* RunTask: a definition that was deregistered meanwhile is refused.
RunTask(h) ==
  LET d == handler[h].d IN
  /\ handler[h].pc = "run"
  /\ \/ /\ handler[h].own \in active /\ RunsOnce(d)
        /\ task' = [task EXCEPT ![d] = "provisioning"]
        /\ definition' = [definition EXCEPT ![d] = handler[h].own]
        /\ handler' = [handler EXCEPT ![h] = IdleHandler]
        /\ UNCHANGED family
     \/ Fails(h)
  /\ UNCHANGED status
-----------------------------------------------------------------------------
(***************************************************************************)
(* The task and its status.                                                *)
(***************************************************************************)
TaskMoves(d) ==
  /\ \/ task[d] = "provisioning" /\ task' = [task EXCEPT ![d] = "running"]
     \/ task[d] \in {"provisioning", "running"} /\ task' = [task EXCEPT ![d] = "stopping"]
     \/ task[d] = "stopping" /\ \E end \in {"exited", "killed"} : task' = [task EXCEPT ![d] = end]
  /\ UNCHANGED <<family, definition, handler, status>>

\* A listing shows a task a while after RunTask, and no longer a while after it ended.
ListingChanges(d) ==
  /\ \/ task[d] # None /\ listed' = listed \cup {d}
     \/ task[d] \in {"exited", "killed"} /\ listed' = listed \ {d}
  /\ UNCHANGED <<family, task, definition, handler, search, checked, hidden>>

Conclude(d, verdict) ==
  search' = [search EXCEPT ![d] = "idle"] /\ checked' = [checked EXCEPT ![d] = verdict]
Continue(d, step) ==
  search' = [search EXCEPT ![d] = step] /\ checked' = [checked EXCEPT ![d] = "none"]

\* findTaskWithTag, which reads every page of the listing.
Running(d) == d \in listed /\ task[d] \in {"provisioning", "running"}
Stopped(d) == d \in listed /\ task[d] \in {"stopping", "exited", "killed"}

\* A check is scheduled once RunTask has answered or IsRunning has found the task.
SearchRunning(d) ==
  /\ search[d] = "idle" /\ task[d] # None
  /\ hidden' = (hidden \cup {d}) \ listed
  /\ Continue(d, IF Running(d) THEN "describe" ELSE "stopped")

SearchStopped(d) ==
  /\ search[d] = "stopped"
  /\ hidden' = hidden \cup ({d} \ listed)
  /\ IF Stopped(d) THEN Continue(d, "describe") ELSE Conclude(d, "completed")

\* The task as DescribeTasks finds it; one that neither started nor stopped in time is stuck.
Verdicts(t) ==
  CASE t \in {"provisioning", "stopping"} -> {"waiting", "stuck"}
    [] t = "running" -> {"waiting"}
    [] t = "exited" -> {"completed"}
    [] t = "killed" -> {"stuck"}

DescribeTask(d) ==
  /\ search[d] = "describe" /\ UNCHANGED hidden
  /\ \E verdict \in Verdicts(task[d]) : Conclude(d, verdict)

\* Any call may fail.
CheckFails(d) == search[d] # "idle" /\ Conclude(d, "error") /\ UNCHANGED hidden

CheckStatus(d) ==
  /\ SearchRunning(d) \/ SearchStopped(d) \/ DescribeTask(d) \/ CheckFails(d)
  /\ UNCHANGED <<family, task, definition, handler, listed>>
-----------------------------------------------------------------------------
Start(h) ==
  \/ ListActive(h) \/ DeregisterActive(h) \/ ListInactive(h) \/ DeleteInactive(h)
  \/ Register(h) \/ RunTask(h)

Next ==
  \/ \E h \in Handlers : Start(h) \/ \E d \in Deployments : Begin(h, d)
  \/ \E d \in Deployments : TaskMoves(d) \/ ListingChanges(d) \/ CheckStatus(d)

Spec == Init /\ [][Next]_vars
-----------------------------------------------------------------------------
\* The cleanup at the start of every Start keeps the family small enough that one
\* page of a listing shows all of it, although Starts overlap and fail half-way.
FamilyBounded == Cardinality(active) <= Cardinality(Handlers)

\* A task always runs a definition that was registered for its own Start.
TasksHaveDefinitionStep ==
  \A d \in Deployments : definition'[d] # definition[d] =>
     /\ definition[d] = 0
     /\ \E h \in Handlers : handler[h].d = d /\ handler[h].own = definition'[d]
TasksHaveDefinition == [][TasksHaveDefinitionStep]_vars

\* Status checks end with "completed".  They say so only of a task that exited by
\* itself, although the task moves between their calls, or of one that ECS did not
\* list when it was looked for: a task that is not found counts as completed.
EcsCompletedMeansExited ==
  \A d \in Deployments : checked[d] = "completed" => task[d] = "exited" \/ d \in hidden

\* A check gives up a task only before it runs, once it is being stopped, or when it
\* did not end by itself.
EcsStuckStep ==
  \A d \in Deployments : checked[d] # "stuck" /\ checked'[d] = "stuck" =>
     task[d] \notin {"running", "exited"}
=============================================================================
