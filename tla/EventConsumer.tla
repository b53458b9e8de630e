---------------------------- MODULE EventConsumer ----------------------------
(***************************************************************************)
(* The main consumer of a Data Plane: how an event gets from the broker    *)
(* through the middleware to the handler of its kind, and what becomes of  *)
(* it when that handler succeeds, fails, is late, panics or dies.  What    *)
(* the handlers do is modelled elsewhere; here they have an effect or not. *)
(*                                                                         *)
(* Operators that no action uses are seeded faults: PROJECT.json names the *)
(* definition each one replaces and the property that then fails.          *)
(***************************************************************************)
EXTENDS Naturals, FiniteSets, TLAPS

CONSTANTS
  Events,
  Kind,        \* per event: created, updated, environment, other
  Workers,     \* concurrent deliveries, on any replica
  MaxDeliver,  \* MainConsumerMaxDeliveries
  Nothing      \* no event

ASSUME ConsumerAssumption ==
  /\ Kind \in [Events -> {"created", "updated", "environment", "other"}]
  /\ MaxDeliver \in Nat \ {0} /\ Nothing \notin Events

VARIABLES
  stage,     \* per event: stream, acknowledged, dead
  attempts,  \* per event: its deliveries
  leased,    \* events that are delivered and within their AckWait
  worker,    \* per worker: its step and event
  settled,   \* events whose admission was settled at Core
  promoted,  \* events after which the queue was promoted
  effect,    \* events whose handler did its work
  panicked   \* history: events a delivery of which ended in a panic

vars == <<stage, attempts, leased, worker, settled, promoted, effect, panicked>>

Idle == [pc |-> "idle", event |-> Nothing]

Init ==
  /\ stage = [e \in Events |-> "stream"] /\ attempts = [e \in Events |-> 0]
  /\ leased = {} /\ worker = [w \in Workers |-> Idle]
  /\ settled = {} /\ promoted = {} /\ effect = {} /\ panicked = {}

Goto(w, pc) == worker' = [worker EXCEPT ![w].pc = pc]
-----------------------------------------------------------------------------
(***************************************************************************)
(* The broker and golib's consumer (external).                             *)
(***************************************************************************)
Deliver(w, e) ==
  /\ worker[w] = Idle /\ stage[e] = "stream" /\ e \notin leased /\ attempts[e] < MaxDeliver
  /\ attempts' = [attempts EXCEPT ![e] = @ + 1] /\ leased' = leased \cup {e}
  /\ worker' = [worker EXCEPT ![w] = [pc |-> "admission", event |-> e]]
  /\ UNCHANGED <<stage, settled, promoted, effect, panicked>>

\* The AckWait ends while the handler is still at it, or after it died.
AckWaitEnds(e) ==
  /\ e \in leased /\ leased' = leased \ {e}
  /\ UNCHANGED <<stage, attempts, worker, settled, promoted, effect, panicked>>

\* nil acknowledges; an error asks for another delivery, the last one goes to
\* the dead letters.  An event that is acknowledged or dead stays so.
Finish(w, result) ==
  LET e == worker[w].event IN
  /\ worker' = [worker EXCEPT ![w] = Idle] /\ leased' = leased \ {e}
  /\ stage' = [stage EXCEPT ![e] =
       CASE @ # "stream" -> @
         [] @ = "stream" /\ result = "nil" -> "acknowledged"
         [] @ = "stream" /\ result # "nil" -> IF attempts[e] = MaxDeliver THEN "dead" ELSE "stream"]

WorkerDies(w) ==
  /\ worker[w] # Idle /\ worker' = [worker EXCEPT ![w] = Idle]
  /\ UNCHANGED <<stage, attempts, leased, settled, promoted, effect, panicked>>
-----------------------------------------------------------------------------
(***************************************************************************)
(* wrapWithPanicRecovery and wrapWithTimeout.                              *)
(***************************************************************************)
\* The recovered error is assigned to a variable that is not the result: a panic
\* acknowledges the event.
RecoveredResult == "nil"

Panics(w) ==
  /\ worker[w].pc \in {"admission", "branch"}
  /\ Finish(w, RecoveredResult)
  /\ panicked' = panicked \cup {worker[w].event}
  /\ UNCHANGED <<attempts, settled, promoted, effect>>

\* The context ends after a minute, which the handler returns as an error.
TimesOut(w) ==
  /\ worker[w].pc \in {"admission", "branch"}
  /\ Finish(w, "error")
  /\ UNCHANGED <<attempts, settled, promoted, effect, panicked>>
-----------------------------------------------------------------------------
(***************************************************************************)
(* deploymentadmissionhandler, then the branches.                          *)
(***************************************************************************)
PromotesAnyway(e) == {"settled", "failed"}
PromotesAfter(e) == {"settled"}

\* Only an update of a Deployment settles an admission; the promotion that
\* follows may fail, which is logged and left to the sweeper.
HandleAdmission(w) ==
  LET e == worker[w].event IN
  /\ worker[w].pc = "admission"
  /\ \/ /\ Kind[e] # "updated"
        /\ Goto(w, "branch") /\ UNCHANGED <<stage, leased, settled, promoted>>
     \/ /\ Kind[e] = "updated" /\ Goto(w, "branch")
        /\ settled' = settled \cup {e}
        /\ promoted' \in {promoted, promoted \cup {e}}
        /\ UNCHANGED <<stage, leased>>
     \/ /\ Kind[e] = "updated" /\ Finish(w, "error") /\ UNCHANGED settled
        /\ promoted' = IF "failed" \in PromotesAfter(e) THEN promoted \cup {e} ELSE promoted
  /\ UNCHANGED <<attempts, effect, panicked>>

ErrorsAreDropped == "nil"
HandlerError == "error"

\* The first branch whose pattern matches; an unsupported event is dropped.
HandleBranch(w) ==
  LET e == worker[w].event IN
  /\ worker[w].pc = "branch"
  /\ \/ Kind[e] = "other" /\ Finish(w, "nil") /\ UNCHANGED effect
     \/ Kind[e] # "other" /\ Finish(w, "nil") /\ effect' = effect \cup {e}
     \/ Kind[e] # "other" /\ Finish(w, HandlerError) /\ UNCHANGED effect
  /\ UNCHANGED <<attempts, settled, promoted, panicked>>

Next ==
  \/ \E w \in Workers :
       \/ \E e \in Events : Deliver(w, e)
       \/ WorkerDies(w) \/ Panics(w) \/ TimesOut(w) \/ HandleAdmission(w) \/ HandleBranch(w)
  \/ \E e \in Events : AckWaitEnds(e)

Spec == Init /\ [][Next]_vars
-----------------------------------------------------------------------------
\* What is acknowledged was handled, by the handler of its kind and by the
\* admission before it, however often it was delivered and by however many
\* workers at once - except where a handler panicked over it: wrapWithPanicRecovery
\* loses the error it recovers, so that event is acknowledged and may be lost
\* (WrapWithObserver, BuildMainConsumer).
AcknowledgedIsHandled ==
  \A e \in Events \ panicked : stage[e] = "acknowledged" /\ Kind[e] # "other" =>
    e \in effect /\ (Kind[e] = "updated" => e \in settled)

\* The queue is promoted by an event only after Core has settled the admission
\* the event is about (deploymentadmissionhandler).
PromotedAfterSettlement == promoted \subseteq settled
-----------------------------------------------------------------------------
(***************************************************************************)
(* Proofs, for any number of events, workers and deliveries.  A worker     *)
(* that has reached the branches has settled its event: that is what the   *)
(* two properties lack to be inductive.                                    *)
(***************************************************************************)
Held == [pc : {"admission", "branch"}, event : Events]

ConsumerTypeOK ==
  /\ stage \in [Events -> {"stream", "acknowledged", "dead"}]
  /\ worker \in [Workers -> Held \cup {Idle}]

PastAdmission ==
  \A w \in Workers : worker[w].pc = "branch" /\ Kind[worker[w].event] = "updated" => worker[w].event \in settled

OrderInv == ConsumerTypeOK /\ PastAdmission /\ PromotedAfterSettlement
ConsumerInv == OrderInv /\ AcknowledgedIsHandled
-----------------------------------------------------------------------------
\* Nothing is delivered, settled or promoted at first.
LEMMA InitConsumer == Init => ConsumerInv
BY DEF Init, ConsumerInv, OrderInv, ConsumerTypeOK, PastAdmission, PromotedAfterSettlement, AcknowledgedIsHandled, Idle

\* Every answer to the broker frees the worker and moves only its event.
LEMMA FinishTyped ==
  ASSUME ConsumerTypeOK, NEW w \in Workers, worker[w] \in Held, NEW result, Finish(w, result)
  PROVE /\ ConsumerTypeOK'
        /\ worker' = [worker EXCEPT ![w] = Idle]
        /\ \A e \in Events : stage'[e] = stage[e] \/ (e = worker[w].event /\ (stage'[e] = "acknowledged" => result = "nil"))
BY DEF ConsumerTypeOK, Finish, Held

\* A worker whose pc is not idle holds an event.
LEMMA Working ==
  ASSUME ConsumerTypeOK, NEW w \in Workers, worker[w].pc \in {"admission", "branch"}
  PROVE worker[w] \in Held /\ worker[w].event \in Events
BY DEF ConsumerTypeOK, Held, Idle

\* Each step keeps the types, the order of settlement and promotion, and the
\* effect behind every acknowledgement that no panic caused.
LEMMA NextStep ==
  ASSUME OrderInv, Next
  PROVE OrderInv' /\ (AcknowledgedIsHandled => AcknowledgedIsHandled')
<1> USE DEF OrderInv
<1>1. ASSUME NEW w \in Workers, NEW e \in Events, Deliver(w, e)
      PROVE OrderInv' /\ (AcknowledgedIsHandled => AcknowledgedIsHandled')
  BY <1>1 DEF Deliver, ConsumerTypeOK, Held, Idle, PastAdmission, PromotedAfterSettlement, AcknowledgedIsHandled
<1>2. ASSUME NEW w \in Workers, WorkerDies(w)
      PROVE OrderInv' /\ (AcknowledgedIsHandled => AcknowledgedIsHandled')
  BY <1>2 DEF WorkerDies, ConsumerTypeOK, Idle, PastAdmission, PromotedAfterSettlement, AcknowledgedIsHandled
<1>3. ASSUME NEW w \in Workers, Panics(w) \/ TimesOut(w)
      PROVE OrderInv' /\ (AcknowledgedIsHandled => AcknowledgedIsHandled')
  <2> DEFINE e == worker[w].event
  <2>1. worker[w] \in Held
    BY <1>3, Working DEF Panics, TimesOut
  <2>2. /\ UNCHANGED <<attempts, settled, promoted, effect>>
        /\ \/ Finish(w, "nil") /\ panicked' = panicked \cup {e}
           \/ Finish(w, "error") /\ panicked' = panicked
    BY <1>3 DEF Panics, TimesOut, RecoveredResult
  <2>3. /\ ConsumerTypeOK' /\ worker' = [worker EXCEPT ![w] = Idle]
        /\ \A f \in Events \ panicked' : stage'[f] = "acknowledged" => stage[f] = "acknowledged"
    BY <2>1, <2>2, FinishTyped
  <2> QED BY <2>2, <2>3 DEF PastAdmission, PromotedAfterSettlement, AcknowledgedIsHandled, Idle, ConsumerTypeOK
<1>4. ASSUME NEW w \in Workers, HandleAdmission(w)
      PROVE OrderInv' /\ (AcknowledgedIsHandled => AcknowledgedIsHandled')
  <2> DEFINE e == worker[w].event
  <2>1. worker[w] \in Held /\ e \in Events
    BY <1>4, Working DEF HandleAdmission
  <2>2. effect' = effect /\ panicked' = panicked
    BY <1>4 DEF HandleAdmission
  <2>3. CASE Kind[e] # "updated" /\ Goto(w, "branch") /\ UNCHANGED <<stage, leased, settled, promoted>>
    BY <2>1, <2>2, <2>3 DEF Goto, Held, Idle, ConsumerTypeOK, PastAdmission, PromotedAfterSettlement, AcknowledgedIsHandled
  <2>4. CASE /\ Goto(w, "branch") /\ settled' = settled \cup {e}
             /\ promoted' \in {promoted, promoted \cup {e}} /\ UNCHANGED <<stage, leased>>
    BY <2>1, <2>2, <2>4 DEF Goto, Held, Idle, ConsumerTypeOK, PastAdmission, PromotedAfterSettlement, AcknowledgedIsHandled
  <2>5. CASE Finish(w, "error") /\ UNCHANGED settled /\ promoted' = promoted
    <3>1. /\ ConsumerTypeOK' /\ worker' = [worker EXCEPT ![w] = Idle]
          /\ \A f \in Events : stage'[f] = "acknowledged" => stage[f] = "acknowledged"
      BY <2>1, <2>5, FinishTyped
    <3> QED BY <2>2, <2>5, <3>1 DEF PastAdmission, PromotedAfterSettlement, AcknowledgedIsHandled, Idle, ConsumerTypeOK
  <2> QED BY <1>4, <2>3, <2>4, <2>5 DEF HandleAdmission, PromotesAfter
<1>5. ASSUME NEW w \in Workers, HandleBranch(w)
      PROVE OrderInv' /\ (AcknowledgedIsHandled => AcknowledgedIsHandled')
  <2> DEFINE e == worker[w].event
  <2>1. worker[w] \in Held /\ e \in Events /\ (Kind[e] = "updated" => e \in settled)
    BY <1>5, Working DEF HandleBranch, PastAdmission
  <2>2. UNCHANGED <<settled, promoted, panicked>>
    BY <1>5 DEF HandleBranch
  <2>3. PICK result \in {"nil", "error"} :
          /\ Finish(w, result) /\ effect \subseteq effect'
          /\ result = "nil" => Kind[e] = "other" \/ e \in effect'
    BY <1>5 DEF HandleBranch, HandlerError
  <2>4. /\ ConsumerTypeOK' /\ worker' = [worker EXCEPT ![w] = Idle]
        /\ \A f \in Events : stage'[f] = stage[f] \/ (f = e /\ (stage'[f] = "acknowledged" => result = "nil"))
    BY <2>1, <2>3, FinishTyped
  <2>5. PastAdmission' /\ PromotedAfterSettlement'
    BY <2>2, <2>4 DEF PastAdmission, PromotedAfterSettlement, Idle, ConsumerTypeOK
  <2>6. AcknowledgedIsHandled => AcknowledgedIsHandled'
    BY <2>1, <2>2, <2>3, <2>4 DEF AcknowledgedIsHandled
  <2> QED BY <2>4, <2>5, <2>6
<1>6. ASSUME NEW e \in Events, AckWaitEnds(e)
      PROVE OrderInv' /\ (AcknowledgedIsHandled => AcknowledgedIsHandled')
  BY <1>6 DEF AckWaitEnds, ConsumerTypeOK, PastAdmission, PromotedAfterSettlement, AcknowledgedIsHandled
<1> QED BY <1>1, <1>2, <1>3, <1>4, <1>5, <1>6 DEF Next

\* Stuttering changes nothing.
LEMMA StutterStep ==
  /\ OrderInv /\ UNCHANGED vars => OrderInv'
  /\ ConsumerInv /\ UNCHANGED vars => ConsumerInv'
BY DEF vars, ConsumerInv, OrderInv, ConsumerTypeOK, PastAdmission, PromotedAfterSettlement, AcknowledgedIsHandled

\* The queue is promoted by an event only after its admission was settled,
\* panics and redeliveries included (deploymentadmissionhandler).
THEOREM PromotionFollows == Spec => []PromotedAfterSettlement
<1>1. Init => OrderInv
  BY InitConsumer DEF ConsumerInv
<1>2. OrderInv /\ [Next]_vars => OrderInv'
  BY NextStep, StutterStep
<1>3. OrderInv => PromotedAfterSettlement
  BY DEF OrderInv
<1> QED BY <1>1, <1>2, <1>3, PTL DEF Spec

\* The main consumer loses no event but to a panic: what it acknowledges was
\* settled and handled, or a handler panicked over it (WrapWithObserver,
\* wrapWithPanicRecovery, BuildMainConsumer).
THEOREM NoEventLost == Spec => []AcknowledgedIsHandled
<1>1. ConsumerInv /\ [Next]_vars => ConsumerInv'
  BY NextStep, StutterStep DEF ConsumerInv
<1>2. ConsumerInv => AcknowledgedIsHandled
  BY DEF ConsumerInv
<1> QED BY <1>1, <1>2, InitConsumer, PTL DEF Spec
=============================================================================
