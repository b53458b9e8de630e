--------------------------- MODULE QueueContract ---------------------------
(***************************************************************************)
(* What the deployment queue of one Environment promises its callers,      *)
(* whoever promotes, cancels or expires requests and however they race:    *)
(* one Deployment runs at a time, waiting requests become Deployments in   *)
(* the order they arrived and at most once each, a withdrawn request never *)
(* runs, and nothing that needs the lease overtakes a waiting request.     *)
(***************************************************************************)
EXTENDS Naturals

CONSTANTS MaxArrivals, \* requests that may ever wait
          Nobody       \* no Deployment

VARIABLES
  arrived,  \* requests 1..arrived have been accepted into the queue
  waiting,  \* the requests that still wait
  became,   \* the Deployment each request became, or Nobody
  started,  \* Deployments 1..started have been started
  running,  \* the Deployment that runs, or Nobody
  leased    \* it holds the Environment's lease

contractVars == <<arrived, waiting, became, started, running, leased>>

Requests == 1..MaxArrivals

Init ==
  /\ arrived = 0 /\ waiting = {} /\ became = [i \in Requests |-> Nobody]
  /\ started = 0 /\ running = Nobody /\ leased = FALSE

Arrive ==
  /\ arrived < MaxArrivals
  /\ arrived' = arrived + 1 /\ waiting' = waiting \cup {arrived + 1}
  /\ UNCHANGED <<became, started, running, leased>>

\* Cancelled, expired or rejected, alone or together with others.
Withdraw ==
  /\ waiting' \subseteq waiting /\ waiting' # waiting
  /\ UNCHANGED <<arrived, became, started, running, leased>>

Runs(l) == /\ running = Nobody
           /\ started' = started + 1 /\ running' = started' /\ leased' = l

\* A Deployment that never waited; with the lease only if nobody waits.
StartDirect ==
  /\ \E l \in BOOLEAN : Runs(l) /\ (l => waiting = {})
  /\ UNCHANGED <<arrived, waiting, became>>

\* The request that waited longest becomes a Deployment.
StartOldest ==
  /\ \E i \in waiting : /\ \A j \in waiting : i <= j
                        /\ became' = [became EXCEPT ![i] = started + 1]
                        /\ waiting' = waiting \ {i}
  /\ Runs(TRUE)
  /\ UNCHANGED arrived

Finish ==
  /\ running # Nobody
  /\ running' = Nobody /\ leased' = FALSE
  /\ UNCHANGED <<arrived, waiting, became, started>>

Next == Arrive \/ Withdraw \/ StartDirect \/ StartOldest \/ Finish

Spec == Init /\ [][Next]_contractVars
=============================================================================
