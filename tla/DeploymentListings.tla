-------------------------- MODULE DeploymentListings --------------------------
(***************************************************************************)
(* Reading long lists page by page while the rows change: Deployments by   *)
(* creation time, the last Deployment of every Environment with its fence, *)
(* Environments by the modules they use, and queue items.  Each page is a  *)
(* query of its own that goes on behind the page token of the one before.  *)
(***************************************************************************)
EXTENDS Integers, FiniteSets

CONSTANTS
    Envs,        \* 1..n, in the order of (project_id, env_id)
    Deployments, \* 1..n, in the order in which their rows commit
    Items,       \* 1..n, in the order of environment_deployment_queue.seq
    Times,       \* creation times, 1..n; two Deployments may have the same one
    Kinds,       \* the listings to read
    PerPage

ListingAssumption ==
    /\ Envs \subseteq Nat \ {0} /\ Deployments \subseteq Nat \ {0} /\ Items \subseteq Nat \ {0}
    /\ Times \subseteq Nat \ {0}

NoRow == 0   \* also the empty page token

VARIABLES
    at, envOf,            \* created_at and Environment of each Deployment
    st,                   \* absent, executing, succeeded, unreconciled, acknowledged
    stateHead, lastExec,  \* deployment_environments
    uses,                 \* Environments whose resource_nodes match the searched module
    item,                 \* absent, queued, settled or pruned
    kind, failedOnly,     \* what is listed
    token, pc,
    toRead,               \* Environments of the page whose fence is still to be read, with their failed head
    times,                \* how often each row was returned
    stable,               \* history: rows listed by every query so far
    shown, clear,         \* Environments the page shows as fenced, and as free
    everFenced, everFree  \* history: what was true of an Environment since the page's query

database == <<at, envOf, st, stateHead, lastExec, uses, item>>
history == <<everFenced, everFree>>
reader == <<kind, failedOnly, token, pc, toRead, times, stable, shown, clear>>
vars == <<database, reader, history>>

Existing == {d \in Deployments : st[d] # "absent"}
Failed(d) == st[d] \in {"unreconciled", "acknowledged"}
Fenced(e) == stateHead[e] # NoRow /\ st[stateHead[e]] = "unreconciled"

(***************************************************************************)
(* The rows each query selects, and their order                            *)
(***************************************************************************)
ListDeployments == {d \in Existing : failedOnly => Failed(d)}
QueryLastDeployments == {e \in Envs : (IF failedOnly THEN stateHead[e] ELSE lastExec[e]) # NoRow}
ListLastDeploymentsByNodeProperties == {e \in uses : stateHead[e] # NoRow}
ListDeploymentQueueItems == {i \in Items : item[i] = "queued" \/ (item[i] = "settled" /\ ~failedOnly)}

Rows ==
    CASE kind = "deployments" -> ListDeployments
      [] kind = "last" -> QueryLastDeployments
      [] kind = "modules" -> ListLastDeploymentsByNodeProperties
      [] kind = "queue" -> ListDeploymentQueueItems

\* ORDER BY created_at DESC, (project_id, env_id), or seq
Key(r) == IF kind = "deployments" THEN at[r] ELSE r
Before(a, b) == IF kind = "deployments" THEN a > b ELSE a < b

\* WHERE ... < token, WHERE ... > token
Behind == {r \in Rows : token # NoRow => Before(token, Key(r))}

\* LIMIT PerPage; equal keys come in any order.
FirstOf(S, n) ==
    {P \in SUBSET S : /\ Cardinality(P) = (IF Cardinality(S) < n THEN Cardinality(S) ELSE n)
                      /\ \A r \in P, s \in S \ P : ~Before(Key(s), Key(r))}

LastKey(P) == CHOOSE k \in {Key(r) : r \in P} : \A r \in P : ~Before(k, Key(r))

\* Mutant: the token names the row that told of the next page.
NextTokenOfExtraRow(P) ==
    IF P = Behind THEN NoRow ELSE LastKey(CHOOSE Q \in FirstOf(Behind, PerPage + 1) : P \subseteq Q)
\* One row more than the page is asked for: the token is the last returned row's
\* key if there was one.
NextToken(P) == IF P = Behind THEN NoRow ELSE LastKey(P)

Init ==
    /\ at = [d \in Deployments |-> NoRow] /\ envOf = [d \in Deployments |-> NoRow]
    /\ st = [d \in Deployments |-> "absent"]
    /\ stateHead = [e \in Envs |-> NoRow] /\ lastExec = [e \in Envs |-> NoRow]
    /\ uses = {}
    /\ item = [i \in Items |-> "absent"]
    /\ kind \in Kinds /\ failedOnly \in BOOLEAN
    /\ token = NoRow /\ pc = "start" /\ toRead = {}
    /\ times = [r \in Deployments \cup Envs \cup Items |-> 0] /\ stable = {}
    /\ shown = {} /\ clear = {} /\ everFenced = {} /\ everFree = {}

(***************************************************************************)
(* The database changes under the reader                                   *)
(***************************************************************************)
\* Only the last Deployments are listed with a fence.
Watched == IF kind = "last" THEN Envs ELSE {}
Observed ==
    /\ everFenced' = everFenced \cup {e \in Watched : Fenced(e)'}
    /\ everFree' = everFree \cup {e \in Watched : ~Fenced(e)'}

\* A row commits some time after its created_at was read from the clock.
CreateDeployment(d, e, t, plan) ==
    /\ st[d] = "absent" /\ at[d] = NoRow /\ \A c \in Deployments : c < d => at[c] # NoRow
    /\ lastExec[e] # NoRow => st[lastExec[e]] # "executing"
    /\ ~Fenced(e)
    /\ at' = [at EXCEPT ![d] = t] /\ envOf' = [envOf EXCEPT ![d] = e]
    /\ st' = [st EXCEPT ![d] = "executing"]
    /\ lastExec' = [lastExec EXCEPT ![e] = d]
    /\ stateHead' = [stateHead EXCEPT ![e] = IF plan THEN @ ELSE d]
    /\ UNCHANGED <<uses, item, reader>> /\ Observed

\* A failed plugin Deployment stays unreconciled until an operator acknowledges it.
DeploymentMoves(d, from, to) ==
    /\ st[d] = from /\ st' = [st EXCEPT ![d] = to]
    /\ UNCHANGED <<at, envOf, stateHead, lastExec, uses, item, reader>> /\ Observed

DeleteEnvironment(e) ==
    /\ lastExec[e] # NoRow /\ st[lastExec[e]] # "executing"
    /\ st' = [d \in Deployments |-> IF envOf[d] = e THEN "absent" ELSE st[d]]
    /\ stateHead' = [stateHead EXCEPT ![e] = NoRow] /\ lastExec' = [lastExec EXCEPT ![e] = NoRow]
    /\ uses' = uses \ {e}
    /\ UNCHANGED <<at, envOf, item, reader>> /\ Observed

ChangeNodes(e) ==
    /\ "modules" \in Kinds /\ stateHead[e] # NoRow
    /\ uses' = IF e \in uses THEN uses \ {e} ELSE uses \cup {e}
    /\ UNCHANGED <<at, envOf, st, stateHead, lastExec, item, reader, history>>

\* seq is taken at the insert, so rows may become visible out of order.
ItemMoves(i, from, to) ==
    /\ item[i] = from /\ item' = [item EXCEPT ![i] = to]
    /\ UNCHANGED <<at, envOf, st, stateHead, lastExec, uses, reader, history>>

\* The sweeper deletes items that were settled long ago.
PruneDeploymentQueue(i) == ItemMoves(i, "settled", "pruned")

(***************************************************************************)
(* The reader                                                              *)
(***************************************************************************)
\* LEFT JOIN deployments head ... AND head.status = 'failed'
FailedStateHead(e) == IF stateHead[e] # NoRow /\ Failed(stateHead[e]) THEN stateHead[e] ELSE NoRow

ListPage ==
    /\ pc \in {"start", "more"}
    /\ \E P \in FirstOf(Behind, PerPage) :
        /\ times' = [r \in DOMAIN times |-> IF r \in P THEN times[r] + 1 ELSE times[r]]
        /\ token' = NextToken(P)
        /\ toRead' = IF kind = "last" THEN {<<e, FailedStateHead(e)>> : e \in P} ELSE {}
        /\ pc' = IF kind = "last" /\ P # {} THEN "fences" ELSE IF P = Behind THEN "end" ELSE "more"
    /\ stable' = IF pc = "start" THEN Rows ELSE stable \cap Rows
    /\ shown' = {} /\ clear' = {}
    /\ everFenced' = {e \in Watched : Fenced(e)} /\ everFree' = Watched \ everFenced'
    /\ UNCHANGED <<database, kind, failedOnly>>

\* ReadEnvironmentFence: a statement of its own, some time after the page's query.
ReadEnvironmentFence(d) == st[d] = "unreconciled"

ReadFence(e, head) ==
    /\ pc = "fences" /\ <<e, head>> \in toRead
    /\ head # NoRow => st[head] # "absent"
    /\ toRead' = toRead \ {<<e, head>>}
    /\ IF head # NoRow /\ ReadEnvironmentFence(head)
       THEN shown' = shown \cup {e} /\ UNCHANGED clear
       ELSE clear' = clear \cup {e} /\ UNCHANGED shown
    /\ pc' = IF toRead' # {} THEN "fences" ELSE IF token = NoRow THEN "end" ELSE "more"
    /\ UNCHANGED <<database, kind, failedOnly, token, times, stable, history>>

\* Deleted in between: the whole listing fails.
FenceNotFound(e, head) ==
    /\ pc = "fences" /\ <<e, head>> \in toRead
    /\ head # NoRow /\ st[head] = "absent"
    /\ pc' = "failed"
    /\ UNCHANGED <<database, kind, failedOnly, token, toRead, times, stable, shown, clear, history>>

Writer ==
    \/ \E d \in Deployments, e \in Envs, t \in Times, plan \in BOOLEAN : CreateDeployment(d, e, t, plan)
    \/ \E d \in Deployments :
        \/ DeploymentMoves(d, "executing", "succeeded") \/ DeploymentMoves(d, "executing", "unreconciled")
        \/ DeploymentMoves(d, "unreconciled", "acknowledged")
    \/ \E e \in Envs : DeleteEnvironment(e) \/ ChangeNodes(e)
    \/ \E i \in Items : ItemMoves(i, "absent", "queued") \/ ItemMoves(i, "queued", "settled") \/ PruneDeploymentQueue(i)

Reader == ListPage \/ \E e \in Envs, head \in Deployments \cup {NoRow} : ReadFence(e, head) \/ FenceNotFound(e, head)
Ended == pc \in {"end", "failed"} /\ UNCHANGED vars

Next == (pc \notin {"end", "failed"} /\ Writer) \/ Reader \/ Ended
Spec == Init /\ [][Next]_vars

(***************************************************************************)
(* Properties                                                              *)
(***************************************************************************)

\* Whatever is created, deleted or changed between two pages, no row is returned
\* twice, and a row that every page's query could see is returned - except a
\* Deployment created at the very time of one that was: created_at < token skips it
\* when the page ends between the two (the page tokens of ListDeployments,
\* ListLastDeployments, ListDeploymentQueueItems).
SkippedByTie(r) ==
    kind = "deployments" /\ \E s \in Deployments \ {r} : at[s] = at[r] /\ times[s] = 1
EachRowOnce ==
    /\ \A r \in DOMAIN times : times[r] <= 1
    /\ pc = "end" => \A r \in stable : times[r] = 1 \/ SkippedByTie(r)

\* The page shows an Environment as fenced only if it was at some time since the
\* page's query, and as free only if it was that, although the fence is read apart
\* from the row and the Deployment is acknowledged, replaced or deleted meanwhile
\* (ListLastDeployments, ReadEnvironmentFence).
FenceTruthful == shown \subseteq everFenced /\ clear \subseteq everFree
===============================================================================
