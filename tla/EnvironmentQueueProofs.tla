----------------------- MODULE EnvironmentQueueProofs -----------------------
(***************************************************************************)
(* Safety of EnvironmentQueue for every number of promoters, callers,      *)
(* Deployments and queue items.                                            *)
(***************************************************************************)
EXTENDS EnvironmentQueueProperties, WellFoundedInduction, TLAPS

USE DEF None

-----------------------------------------------------------------------------
(***************************************************************************)
(* Type correctness                                                        *)
(***************************************************************************)
\* The initial state has the types TypeOK states.
LEMMA InitTypeOK == Init => TypeOK
BY ConstantsAssumption DEF Init, TypeOK, NoDeployment, NoItem, NoIntent, NoLease, IdlePromoter, IdleRequester,
   DeploymentRecord, ItemRecord, PromoterRecord, RequesterRecord, Intent, Modes, Statuses,
   ReasonCodes

\* A settled item is still an item: settlement only changes state, reason,
\* the Deployment the reason is about, and the TTL flag.
LEMMA SettledTyped ==
  ASSUME TypeOK, NEW i \in Items, NEW state \in {"dispatched", "cancelled", "expired", "rejected"},
         NEW reason \in ReasonCodes, NEW about \in {None} \cup Deployments,
         NEW d \in {None} \cup Deployments
  PROVE  Settled(i, state, reason, about, d) \in ItemRecord
BY DEF TypeOK, ItemRecord, Settled

\* Settling one item keeps the queue well typed.
LEMMA SettleTyped ==
  ASSUME TypeOK, NEW i \in Items, NEW state \in {"dispatched", "cancelled", "expired", "rejected"},
         NEW reason \in ReasonCodes, NEW about \in {None} \cup Deployments,
         Settle(i, state, reason, about)
  PROVE  item' \in [Items -> ItemRecord]
BY SettledTyped DEF Settle, TypeOK

\* So does settling everything that waits.
LEMMA SettleQueuedTyped ==
  ASSUME TypeOK, NEW state \in {"dispatched", "cancelled", "expired", "rejected"},
         NEW reason \in ReasonCodes, NEW about \in {None} \cup Deployments,
         SettleQueuedDeployments(state, reason, about)
  PROVE  item' \in [Items -> ItemRecord]
BY SettledTyped DEF SettleQueuedDeployments, TypeOK

\* The queue head is a waiting item.
LEMMA OldestQueued ==
  ASSUME NEW S \in SUBSET Nat, S # {}
  PROVE  /\ Oldest(S) \in S
         /\ \A j \in S : Oldest(S) <= j
<1> DEFINE R == {ss \in Nat \X Nat : ss[1] < ss[2]}
<1>1. IsWellFoundedOn(R, Nat)
  BY NatLessThanWellFounded, Zenon DEF OpToRel
<1>2. \E x \in S : \A y \in S : ~(<<y, x>> \in R)
  <2> HIDE DEF R
  <2> QED BY <1>1, WFMin, Zenon
<1>3. PICK x \in S : \A y \in S : ~(<<y, x>> \in R)
  BY <1>2
<1>4. ASSUME NEW y \in S PROVE x <= y
  <2>1. x \in Nat /\ y \in Nat /\ <<y, x>> \notin R
    BY <1>3
  <2>2. ~(y < x)
    BY <2>1
  <2> QED
    BY <2>1, <2>2
<1> QED
  BY <1>4 DEF Oldest

\* The head is an item, or nothing when nobody waits.
LEMMA QueueHeadTyped ==
  ASSUME TypeOK
  PROVE  /\ QueueHead # None => QueueHead \in Queued /\ \A j \in Queued : QueueHead <= j
         /\ QueueHead = None => Queued = {}
<1>1. Queued \in SUBSET Nat /\ None \notin Queued
  BY ConstantsAssumption DEF Queued, Items
<1>2. CASE Queued = {}
  BY <1>2 DEF QueueHead
<1>3. CASE Queued # {}
  BY <1>1, <1>3, OldestQueued DEF QueueHead
<1> QED
  BY <1>2, <1>3

-----------------------------------------------------------------------------
\* A promotion under way has locked a row of the queue; without this the item
\* it turns into a Deployment would have no type.
PromotionHasItem == \A p \in Promoters : promoter[p].pc # "idle" => promoter[p].item \in Items
TypeInv == TypeOK /\ PromotionHasItem

\* No promotion runs initially.
LEMMA InitTypeInv == Init => TypeInv
BY InitTypeOK DEF Init, TypeInv, PromotionHasItem, IdlePromoter

\* The rows CreateDeployment inserts are well typed.
LEMMA InsertTyped ==
  ASSUME TypeOK, NEW m \in Modes, NEW plugin \in BOOLEAN, NEW base \in {None} \cup Deployments,
         NEW i \in {None} \cup Items, NEW expected \in {None} \cup Deployments,
         InsertDeployment(m, plugin, base, i, expected)
  PROVE  /\ created' \in 0..MaxDeployments /\ dep' \in [Deployments -> DeploymentRecord]
         /\ execHead' \in {None} \cup Deployments /\ stateHead' \in {None} \cup Deployments
         /\ lease' \in [holder : {None} \cup Deployments, live : BOOLEAN]
<1>1. created + 1 \in Deployments /\ created' = created + 1
  BY ConstantsAssumption DEF TypeOK, InsertDeployment, Deployments
<1>2. [mode |-> m, status |-> "executing", plugin |-> plugin, via |-> i,
       fresh |-> BaseCurrent(m, base), guarded |-> expected # None] \in DeploymentRecord
  BY DEF DeploymentRecord, Statuses, BaseCurrent
<1>3. dep' \in [Deployments -> DeploymentRecord]
  BY <1>1, <1>2 DEF TypeOK, InsertDeployment
<1> QED
  BY <1>1, <1>3, ConstantsAssumption DEF TypeOK, InsertDeployment, Deployments

\* Requests through the API keep the types.
LEMMA RequestTyped ==
  ASSUME TypeInv, NEW r \in Requesters, RequestStep(r)
  PROVE  TypeInv'
<1> USE DEF TypeInv, PromotionHasItem, requesterOnly, depVars, evidenceVars, queueVars, ackVars
<1>1. ASSUME NEW pc \in {"idle", "resolve", "admitted", "enqueue"}, NEW in \in Intent,
             NEW expected \in {None} \cup Deployments, NEW base \in {None} \cup Deployments,
             SetRequester(r, pc, in, expected, base)
      PROVE  requester' \in [Requesters -> RequesterRecord]
  BY <1>1 DEF SetRequester, TypeOK, RequesterRecord
<1>2. requester[r].intent \in Intent /\ requester[r].expected \in {None} \cup Deployments
  BY DEF TypeOK, RequesterRecord
<1>3. NoIntent \in Intent
  BY DEF NoIntent, Intent, Modes
<1>4. ASSUME BusyAnswer(r) \/ EndRequest(r) PROVE requester' \in [Requesters -> RequesterRecord]
  BY <1>1, <1>2, <1>3, <1>4 DEF BusyAnswer, EndRequest
<1>5. ASSUME NEW in \in Intents, Request(r, in) PROVE TypeInv'
  <2>1. in \in Intent
    BY ConstantsAssumption
  <2>2. requester' \in [Requesters -> RequesterRecord]
    BY <1>1, <1>5, <2>1 DEF Request, TypeOK
  <2> QED
    BY <1>5, <2>2 DEF Request, TypeOK
<1>6. ASSUME NEW in \in Intents, DestroyEnvironment(r, in) PROVE TypeInv'
  <2>1. in \in Intent
    BY ConstantsAssumption
  <2>2. item' \in [Items -> ItemRecord]
    BY <1>6, SettleQueuedTyped DEF DestroyEnvironment, ReasonCodes
  <2>3. requester' \in [Requesters -> RequesterRecord]
    BY <1>1, <1>6, <2>1 DEF DestroyEnvironment, TypeOK
  <2> QED
    BY <1>6, <2>2, <2>3 DEF DestroyEnvironment, TypeOK
<1>7. CASE ResolveRequest(r)
  <2>1. requester' \in [Requesters -> RequesterRecord]
    BY <1>1, <1>2, <1>7 DEF ResolveRequest, ReferenceDeployment, TypeOK
  <2> QED
    BY <1>7, <2>1 DEF ResolveRequest, TypeOK
<1>8. CASE CoreBusyForRequest(r) \/ RefuseRequest(r)
  BY <1>4, <1>8 DEF CoreBusyForRequest, RefuseRequest, TypeOK
<1>9. CASE CreateRequested(r)
  <2>1. requester' \in [Requesters -> RequesterRecord]
    BY <1>4, <1>9 DEF CreateRequested
  <2>2. CASE UNCHANGED depVars
    BY <1>9, <2>1, <2>2 DEF CreateRequested, TypeOK
  <2>3. CASE InsertDeployment(requester[r].intent.mode, requester[r].intent.plugin,
                              requester[r].base, None, requester[r].expected)
    <3>1. /\ requester[r].intent.mode \in Modes /\ requester[r].intent.plugin \in BOOLEAN
          /\ requester[r].base \in {None} \cup Deployments
      BY <1>2 DEF Intent, TypeOK, RequesterRecord
    <3>2. /\ created' \in 0..MaxDeployments /\ dep' \in [Deployments -> DeploymentRecord]
          /\ execHead' \in {None} \cup Deployments /\ stateHead' \in {None} \cup Deployments
          /\ lease' \in [holder : {None} \cup Deployments, live : BOOLEAN]
      BY <1>2, <2>3, <3>1, InsertTyped
    <3> QED
      BY <1>9, <2>1, <3>2 DEF CreateRequested, TypeOK
  <2> QED
    BY <1>9, <2>2, <2>3 DEF CreateRequested
<1>10. CASE EnqueueDeployment(r)
  <2>1. requester' \in [Requesters -> RequesterRecord]
    BY <1>4, <1>10 DEF EnqueueDeployment
  <2>2. item' \in [Items -> ItemRecord] /\ enqueued' \in 0..MaxItems
    <3>1. CASE UNCHANGED queueVars
      BY <3>1 DEF TypeOK
    <3>2. CASE enqueued' = enqueued + 1
      <4>1. enqueued + 1 \in Items
        BY <1>10, <3>2, ConstantsAssumption DEF EnqueueDeployment, TypeOK
      <4>2. EnqueuedAfter(requester[r].intent) \in {None} \cup Deployments
        BY DEF EnqueuedAfter, TypeOK
      <4>3. Existing \ Executing \in SUBSET Deployments
        BY DEF Existing
      <4>4. [state |-> "queued", intent |-> requester[r].intent,
             after |-> EnqueuedAfter(requester[r].intent),
             expected |-> requester[r].expected, overdue |-> FALSE,
             deployment |-> None, reason |-> "none", about |-> None,
             ended |-> IF requester[r].intent.halt THEN Existing \ Executing ELSE {}] \in ItemRecord
        BY <1>2, <4>2, <4>3 DEF ItemRecord, ReasonCodes
      <4> QED
        BY <1>10, <3>2, <4>1, <4>4, ConstantsAssumption DEF EnqueueDeployment, TypeOK, Items
    <3> QED
      BY <1>10, <3>1, <3>2 DEF EnqueueDeployment
  <2> QED
    BY <1>10, <2>1, <2>2 DEF EnqueueDeployment, TypeOK
<1> QED
  BY <1>5, <1>6, <1>7, <1>8, <1>9, <1>10 DEF RequestStep

\* What the fence's refusal of the whole queue writes.
LEMMA RejectQueuedTyped ==
  ASSUME TypeOK, RejectQueuedDeployments
  PROVE  item' \in [Items -> ItemRecord]
<1>1. (IF ~ObservationHeld /\ Fenced THEN stateHead ELSE None) \in {None} \cup Deployments
  BY DEF TypeOK
<1> QED
  BY <1>1, SettleQueuedTyped DEF RejectQueuedDeployments, ReasonCodes

\* Promotion keeps the types, and a promotion that goes on keeps its item.
LEMMA PromotionTyped ==
  ASSUME TypeInv, NEW p \in Promoters, PromotionRuns(p) \/ AbortPromotion(p)
  PROVE  TypeInv'
<1> USE DEF promoterOnly, depVars, evidenceVars, ackVars
<1>1. ASSUME NEW pc \in {"idle", "claimed", "available", "resolve", "admitted"},
             NEW i \in {None} \cup Items, NEW base \in {None} \cup Deployments,
             pc # "idle" => i \in Items, SetPromoter(p, pc, i, base)
      PROVE  promoter' \in [Promoters -> PromoterRecord] /\ PromotionHasItem'
  BY <1>1 DEF SetPromoter, TypeInv, TypeOK, PromoterRecord, PromotionHasItem
<1>2. ASSUME EndPromotion(p)
      PROVE  promoter' \in [Promoters -> PromoterRecord] /\ PromotionHasItem'
  BY <1>1, <1>2 DEF EndPromotion
<1>3. ASSUME promoter[p].pc # "idle"
      PROVE  promoter[p].item \in Items /\ item[promoter[p].item] \in ItemRecord
  BY <1>3 DEF TypeInv, TypeOK, PromotionHasItem
<1>4. /\ item \in [Items -> ItemRecord] /\ stateHead \in {None} \cup Deployments /\ TypeOK
      /\ promoter[p].base \in {None} \cup Deployments
  BY DEF TypeInv, TypeOK, PromoterRecord
<1>5. ASSUME promoterOnly' = promoterOnly, item' \in [Items -> ItemRecord],
             promoter' \in [Promoters -> PromoterRecord], PromotionHasItem'
      PROVE  TypeInv'
  BY <1>5 DEF TypeInv, TypeOK
<1>6. CASE ClaimHead(p)
  <2>1. QueueHead \in Items
    BY <1>4, <1>6, QueueHeadTyped DEF ClaimHead, Queued
  <2>2. promoter' \in [Promoters -> PromoterRecord] /\ PromotionHasItem'
    BY <1>1, <1>6, <2>1 DEF ClaimHead
  <2> QED
    BY <1>4, <1>5, <1>6, <2>2 DEF ClaimHead
<1>7. CASE ExpireHead(p)
  <2>1. promoter[p].item \in Items
    BY <1>3, <1>7 DEF ExpireHead
  <2>2. item' \in [Items -> ItemRecord]
    BY <1>4, <1>7, <2>1, SettleTyped DEF ExpireHead, ReasonCodes
  <2> QED
    BY <1>2, <1>5, <1>7, <2>2 DEF ExpireHead
<1>8. CASE CheckAvailable(p)
  <2>1. promoter[p].item \in Items
    BY <1>3, <1>8 DEF CheckAvailable
  <2>2. promoter' \in [Promoters -> PromoterRecord] /\ PromotionHasItem'
    BY <1>1, <1>2, <1>8, <2>1 DEF CheckAvailable
  <2>3. item' \in [Items -> ItemRecord]
    BY <1>4, <1>8, RejectQueuedTyped DEF CheckAvailable
  <2> QED
    BY <1>5, <1>8, <2>2, <2>3 DEF CheckAvailable
<1>9. CASE HaltOrProceed(p)
  <2>1. promoter[p].item \in Items
    BY <1>3, <1>9 DEF HaltOrProceed
  <2>2. promoter' \in [Promoters -> PromoterRecord] /\ PromotionHasItem'
    BY <1>1, <1>2, <1>9, <2>1 DEF HaltOrProceed
  <2>3. item' \in [Items -> ItemRecord]
    BY <1>4, <1>9, <2>1, SettleTyped DEF HaltOrProceed, ReasonCodes
  <2> QED
    BY <1>5, <1>9, <2>2, <2>3 DEF HaltOrProceed
<1>10. CASE ResolveItem(p)
  <2>1. promoter[p].item \in Items
    BY <1>3, <1>10 DEF ResolveItem
  <2>2. promoter' \in [Promoters -> PromoterRecord] /\ PromotionHasItem'
    BY <1>1, <1>4, <1>10, <2>1 DEF ResolveItem, ReferenceDeployment
  <2> QED
    BY <1>4, <1>5, <1>10, <2>2 DEF ResolveItem
<1>11. CASE ResolveFails(p)
  <2>1. promoter[p].item \in Items
    BY <1>3, <1>11 DEF ResolveFails
  <2>2. item' \in [Items -> ItemRecord]
    BY <1>4, <1>11, <2>1, SettleTyped DEF ResolveFails, RejectItem, DeferItem, ReasonCodes
  <2> QED
    BY <1>2, <1>5, <1>11, <2>2 DEF ResolveFails, RejectItem, DeferItem
<1>12. CASE CreateQueued(p)
  <2> DEFINE i == promoter[p].item
             verdict == CreateVerdict(item[i].intent.mode, item[i].expected, i)
  <2>1. i \in Items /\ item[i] \in ItemRecord
    BY <1>3, <1>12 DEF CreateQueued
  <2>2. /\ item[i].intent \in Intent /\ item[i].expected \in {None} \cup Deployments
        /\ item[i].intent.mode \in Modes
    BY <2>1 DEF ItemRecord, Intent
  <2>3. ASSUME verdict # "ok", RefusedPromotion(p, verdict), UNCHANGED depVars PROVE TypeInv'
    <3>1. verdict \in {"unreconciled", "busy", "conflict", "base_changed"}
      BY <2>3 DEF CreateVerdict
    <3>2. (IF verdict = "base_changed" THEN stateHead ELSE None) \in {None} \cup Deployments
      BY <1>4
    <3>3. item' \in [Items -> ItemRecord]
      <4>1. CASE verdict = "busy"
        BY <1>4, <2>3, <4>1 DEF RefusedPromotion, DeferItem
      <4>2. CASE verdict = "unreconciled"
        BY <1>4, <2>3, <4>2, RejectQueuedTyped DEF RefusedPromotion
      <4>3. CASE verdict \in {"conflict", "base_changed"}
        <5> HIDE DEF verdict
        <5>1. Settle(i, "rejected", verdict, IF verdict = "base_changed" THEN stateHead ELSE None)
          BY <2>3, <4>3 DEF RefusedPromotion, RejectItem
        <5> QED
          BY <1>4, <2>1, <3>2, <4>3, <5>1, SettleTyped DEF ReasonCodes
      <4> QED
        BY <3>1, <4>1, <4>2, <4>3
    <3>4. EndPromotion(p)
      BY <2>3 DEF RefusedPromotion, DeferItem, RejectItem
    <3> QED
      BY <1>2, <1>5, <1>12, <2>3, <3>3, <3>4 DEF CreateQueued
  <2>4. ASSUME InsertDeployment(item[i].intent.mode, FALSE, promoter[p].base, i, item[i].expected),
               SettleDispatched(i), EndPromotion(p)
        PROVE  TypeInv'
    <3>1. /\ created' \in 0..MaxDeployments /\ dep' \in [Deployments -> DeploymentRecord]
          /\ execHead' \in {None} \cup Deployments /\ stateHead' \in {None} \cup Deployments
          /\ lease' \in [holder : {None} \cup Deployments, live : BOOLEAN]
      BY <1>4, <2>1, <2>2, <2>4, InsertTyped
    <3>2. created + 1 \in Deployments
      BY <1>4, <2>4, ConstantsAssumption DEF InsertDeployment, TypeOK, Deployments
    <3>3. Settled(i, "dispatched", "none", None, created + 1) \in ItemRecord
      BY <1>4, <2>1, <3>2, SettledTyped DEF ReasonCodes
    <3>4. item' \in [Items -> ItemRecord]
      BY <1>4, <2>1, <2>4, <3>3 DEF SettleDispatched
    <3> QED
      BY <1>2, <1>12, <2>4, <3>1, <3>4 DEF CreateQueued, TypeInv, TypeOK
  <2> QED
    BY <1>12, <2>3, <2>4 DEF CreateQueued
<1>13. CASE LockTimeout(p) \/ AbortPromotion(p)
  BY <1>2, <1>4, <1>5, <1>13 DEF LockTimeout, AbortPromotion, DeferItem
<1> QED
  BY <1>6, <1>7, <1>8, <1>9, <1>10, <1>11, <1>12, <1>13 DEF PromotionRuns

\* Cancellation, expiry and the clock keep the types.
LEMMA ItemTyped ==
  ASSUME TypeInv, NEW i \in Items, ItemStep(i)
  PROVE  TypeInv'
<1> USE DEF TypeInv, PromotionHasItem, queueOnly, depVars, evidenceVars, processVars, ackVars
<1>1. CASE CancelDeploymentQueueItem(i)
  <2>1. item' \in [Items -> ItemRecord]
    BY <1>1, SettleTyped DEF CancelDeploymentQueueItem, ReasonCodes
  <2> QED
    BY <1>1, <2>1 DEF CancelDeploymentQueueItem, TypeOK
<1>2. CASE ExpireDeploymentQueueItem(i)
  <2>1. item' \in [Items -> ItemRecord]
    BY <1>2, SettleTyped DEF ExpireDeploymentQueueItem, ReasonCodes
  <2> QED
    BY <1>2, <2>1 DEF ExpireDeploymentQueueItem, TypeOK
<1>3. CASE ItemOverdue(i)
  <2>1. item' \in [Items -> ItemRecord]
    <3>1. item \in [Items -> ItemRecord] /\ item[i] \in ItemRecord
      BY DEF TypeOK
    <3>2. [item[i] EXCEPT !.overdue = TRUE] \in ItemRecord
      BY <3>1 DEF ItemRecord
    <3> QED
      BY <1>3, <3>1, <3>2 DEF ItemOverdue
  <2> QED
    BY <1>3, <2>1 DEF ItemOverdue, TypeOK
<1> QED
  BY <1>1, <1>2, <1>3 DEF ItemStep

\* The life of a Deployment, the lease and the acknowledgement keep the types.
LEMMA DeploymentTyped ==
  ASSUME TypeInv,
         (\E d \in Deployments : DeploymentStep(d)) \/ TryStartObservation \/ LeaseExpires
           \/ AcknowledgeCommits \/ AcknowledgeAborts
  PROVE  TypeInv'
<1> USE DEF TypeInv, PromotionHasItem, lifeOnly, depVars, evidenceVars, queueVars, processVars, ackVars
<1>1. ASSUME NEW d, NEW proofs PROVE Released(d, proofs) \subseteq Deployments
  BY DEF Released, TypeOK
<1>2. ASSUME NEW d PROVE LeaseReleased(d) \in [holder : {None} \cup Deployments, live : BOOLEAN]
  BY DEF LeaseReleased, NoLease, TypeOK
<1>3. ASSUME NEW d \in Deployments, DeploymentStep(d) PROVE TypeInv'
  <2>1. CASE ReserveRunnerDispatch(d) \/ BeginDeploymentDispatch(d) \/ WindowCloses(d)
    BY <1>3, <2>1 DEF ReserveRunnerDispatch, BeginDeploymentDispatch, WindowCloses, TypeOK
  <2>2. CASE RunnerStarts(d) \/ RunnerStops(d)
    BY <1>3, <2>2 DEF RunnerStarts, RunnerStops, RunnerMoves, TypeOK
  <2>3. ASSUME NEW status \in {"succeeded", "failed"}, NEW proofs \in SUBSET Deployments,
               Complete(d, status, proofs)
        PROVE  TypeInv'
    <3>1. dep' \in [Deployments -> DeploymentRecord]
      BY <2>3 DEF Complete, TypeOK, DeploymentRecord, Statuses
    <3>2. reserved' \subseteq Deployments
      BY <1>1, <2>3 DEF Complete
    <3>3. lease' \in [holder : {None} \cup Deployments, live : BOOLEAN]
      BY <1>2, <2>3 DEF Complete
    <3> QED
      BY <2>3, <3>1, <3>2, <3>3 DEF Complete, TypeOK
  <2>4. CASE RunnerResult(d) \/ FailWithoutProof(d)
    <3>1. stopProven \in SUBSET Deployments /\ stopProven \cup {d} \in SUBSET Deployments
      BY DEF TypeOK
    <3> QED
      BY <2>3, <2>4, <3>1 DEF RunnerResult, FailWithoutProof
  <2>5. CASE LateCompletion(d)
    <3>1. reserved' \subseteq Deployments
      BY <1>1, <2>5 DEF LateCompletion
    <3>2. lease' \in [holder : {None} \cup Deployments, live : BOOLEAN]
      BY <1>2, <2>5 DEF LateCompletion, TypeOK
    <3>3. stopProven' \subseteq Deployments
      BY <2>5 DEF LateCompletion, TypeOK
    <3>4. UNCHANGED <<lifeOnly, dep, dispatched, windowClosed, acknowledged, runner>>
      BY <2>5 DEF LateCompletion
    <3> QED
      BY <3>1, <3>2, <3>3, <3>4 DEF TypeOK
  <2>6. CASE AcknowledgeBegins(d)
    BY <2>6 DEF AcknowledgeBegins, ackOnly, TypeOK
  <2>7. CASE RenewDeploymentLease(d)
    BY <1>3, <2>7 DEF RenewDeploymentLease, TypeOK
  <2> QED
    BY <1>3, <2>1, <2>2, <2>4, <2>5, <2>6, <2>7 DEF DeploymentStep
<1>4. CASE TryStartObservation
  <2>1. InsertDeployment("observation", FALSE, stateHead, None, None) /\ "observation" \in Modes
    BY <1>4 DEF TryStartObservation, Modes
  <2>2. /\ created' \in 0..MaxDeployments /\ dep' \in [Deployments -> DeploymentRecord]
        /\ execHead' \in {None} \cup Deployments /\ stateHead' \in {None} \cup Deployments
        /\ lease' \in [holder : {None} \cup Deployments, live : BOOLEAN]
    BY <2>1, InsertTyped DEF TypeOK
  <2>3. created + 1 \in Deployments
    BY <2>1, ConstantsAssumption DEF InsertDeployment, TypeOK, Deployments
  <2> QED
    BY <1>4, <2>2, <2>3 DEF TryStartObservation, TypeOK
<1>5. CASE LeaseExpires
  BY <1>5 DEF LeaseExpires, TypeOK
<1>6. CASE AcknowledgeCommits
  <2>1. reserved' \subseteq Deployments /\ acknowledged' \subseteq Deployments
    BY <1>1, <1>6 DEF AcknowledgeCommits, TypeOK
  <2>2. item' \in [Items -> ItemRecord] /\ waitedThrough' \subseteq Items
    <3>1. CASE PluginDispatched(acking)
      BY <1>6, <3>1, SettleQueuedTyped
      DEF AcknowledgeCommits, RejectBehindFence, TypeOK, ReasonCodes, Queued
    <3>2. CASE ~PluginDispatched(acking)
      BY <1>6, <3>2 DEF AcknowledgeCommits, TypeOK
    <3> QED
      BY <3>1, <3>2
  <2> QED
    BY <1>6, <2>1, <2>2 DEF AcknowledgeCommits, ackOnly, TypeOK
<1>7. CASE AcknowledgeAborts
  BY <1>7 DEF AcknowledgeAborts, ackOnly, TypeOK
<1> QED
  BY <1>3, <1>4, <1>5, <1>6, <1>7

\* Every step keeps the types.
LEMMA TypeStep == TypeInv /\ [Next]_vars => TypeInv'
<1> SUFFICES ASSUME TypeInv, [Next]_vars PROVE TypeInv'
  OBVIOUS
<1>1. CASE UNCHANGED vars
  BY <1>1 DEF TypeInv, PromotionHasItem, TypeOK, vars, depVars, evidenceVars, queueVars, processVars, ackVars
<1>2. CASE Next
  BY <1>2, RequestTyped, PromotionTyped, ItemTyped, DeploymentTyped DEF Next
<1> QED
  BY <1>1, <1>2

\* Every reference the Environment's rows hold stays within the rows that exist,
\* whatever API callers, promoters, Runners and operators do.
THEOREM TypeCorrect == Spec => []TypeOK
<1>1. TypeInv => TypeOK
  BY DEF TypeInv
<1> QED
  BY <1>1, InitTypeInv, TypeStep, PTL DEF Spec

-----------------------------------------------------------------------------
(***************************************************************************)
(* Mutual exclusion.  With the types, the two properties are inductive     *)
(* together: the check of the executing head is sound because only that    *)
(* head can execute, and a lease is never held by anything else.           *)
(***************************************************************************)
Exclusion == OneExecuting /\ LeaseFollowsExecution
ExclusionInv == TypeInv /\ Exclusion

\* Nothing executes initially and nobody holds the lease.
LEMMA InitExclusion == Init => Exclusion
BY ConstantsAssumption DEF Init, Exclusion, OneExecuting, LeaseFollowsExecution, Executing, Existing, NoDeployment,
   NoLease, Deployments

\* CreateDeployment's checks keep a second Deployment out.
LEMMA VerdictExclusive ==
  ASSUME NEW m, NEW expected, NEW i, CreateVerdict(m, expected, i) = "ok"
  PROVE  ~HeadExecuting
BY DEF CreateVerdict

\* A new Deployment becomes the only executing one and takes the lease if it needs it.
LEMMA InsertExclusive ==
  ASSUME ExclusionInv, ~HeadExecuting, NEW m \in Modes, NEW plugin, NEW base, NEW i, NEW expected,
         InsertDeployment(m, plugin, base, i, expected)
  PROVE  Exclusion'
<1> DEFINE d == created + 1
<1>1. created \in Nat /\ d \in Deployments /\ created' = d /\ execHead' = d
  BY ConstantsAssumption DEF ExclusionInv, TypeInv, TypeOK, InsertDeployment, Deployments
<1>2. Executing = {}
  BY DEF ExclusionInv, Exclusion, OneExecuting, HeadExecuting
<1>3. lease.holder = None
  BY <1>2 DEF ExclusionInv, TypeInv, TypeOK, Exclusion, LeaseFollowsExecution
<1>4. /\ dep'[d].status = "executing" /\ dep'[d].mode = m
      /\ \A e \in Deployments : e # d => dep'[e] = dep[e]
  BY <1>1 DEF InsertDeployment, ExclusionInv, TypeInv, TypeOK
<1>5. Executing' = {d}
  <2>1. \A e \in Deployments : e <= created' /\ e # d => e <= created
    BY <1>1 DEF Deployments
  <2>2. d \in Executing'
    BY <1>1, <1>4 DEF Executing, Existing, Deployments
  <2>3. \A e \in Executing' : e = d
    BY <1>2, <1>4, <2>1 DEF Executing, Existing, Deployments
  <2> QED
    BY <2>2, <2>3
<1>6. lease'.holder = IF RequiresEnvironmentLease(m) THEN d ELSE None
  BY <1>1, <1>3 DEF InsertDeployment
<1>7. None \notin Deployments
  BY ConstantsAssumption DEF Deployments
<1>8. OneExecuting'
  BY <1>1, <1>5 DEF OneExecuting
<1>9. LeaseFollowsExecution'
  <2> SUFFICES ASSUME NEW e \in Deployments
               PROVE  lease'.holder = e <=> e \in Executing' /\ RequiresEnvironmentLease(dep'[e].mode)
    BY DEF LeaseFollowsExecution, RequiresEnvironmentLease
  <2> HIDE DEF d
  <2>1. CASE e = d
    BY <1>4, <1>5, <1>6, <1>7, <2>1
  <2>2. CASE e # d
    BY <1>5, <1>6, <1>7, <2>2
  <2> QED
    BY <2>1, <2>2
<1> QED
  BY <1>8, <1>9 DEF Exclusion

\* Steps that leave Deployments, the executing head and the holder alone.
LEMMA ExclusionKept ==
  ASSUME Exclusion, UNCHANGED <<created, dep, execHead>>, lease'.holder = lease.holder
  PROVE  Exclusion'
BY DEF Exclusion, OneExecuting, LeaseFollowsExecution, Executing, Existing

\* A Deployment that ends releases the lease it holds, and no other.
LEMMA CompleteExclusive ==
  ASSUME ExclusionInv, NEW d \in Deployments, NEW status \in {"succeeded", "failed"}, NEW proofs,
         Complete(d, status, proofs)
  PROVE  Exclusion'
<1> USE DEF ExclusionInv, Exclusion, TypeInv, TypeOK
<1>1. /\ created' = created /\ execHead' = execHead
      /\ lease' = IF lease.holder = d THEN NoLease ELSE lease
  BY DEF Complete, lifeOnly, LeaseReleased
<1>2. /\ dep'[d].status = status
      /\ \A e \in Deployments : dep'[e].mode = dep[e].mode /\ (e # d => dep'[e] = dep[e])
  BY DEF Complete, DeploymentRecord
<1>3. Executing' = Executing \ {d}
  BY <1>1, <1>2 DEF Executing, Existing
<1>4. None \notin Deployments
  BY ConstantsAssumption DEF Deployments
<1>5. OneExecuting'
  BY <1>1, <1>3 DEF OneExecuting
<1>6. LeaseFollowsExecution'
  <2> SUFFICES ASSUME NEW e \in Deployments
               PROVE  lease'.holder = e <=> e \in Executing' /\ RequiresEnvironmentLease(dep'[e].mode)
    BY DEF LeaseFollowsExecution, RequiresEnvironmentLease
  <2>1. dep'[e].mode = dep[e].mode
    BY <1>2
  <2>2. lease.holder = e <=> e \in Executing /\ RequiresEnvironmentLease(dep[e].mode)
    BY DEF LeaseFollowsExecution
  <2>3. CASE e = d
    BY <1>1, <1>3, <1>4, <2>3 DEF NoLease
  <2>4. CASE e # d
    BY <1>1, <1>3, <1>4, <2>1, <2>2, <2>4 DEF NoLease
  <2> QED
    BY <2>3, <2>4
<1> QED
  BY <1>5, <1>6

\* Every step keeps the exclusion: one case per action that touches Deployments or the lease.
LEMMA ExclusionStep == ExclusionInv /\ [Next]_vars => Exclusion'
<1> SUFFICES ASSUME ExclusionInv, [Next]_vars PROVE Exclusion'
  OBVIOUS
<1> USE DEF depVars, evidenceVars, queueVars, processVars, ackVars
<1>1. TypeInv /\ TypeOK /\ Exclusion
  BY DEF ExclusionInv, TypeInv
<1>2. CASE UNCHANGED vars
  BY <1>1, <1>2, ExclusionKept DEF vars
<1>3. ASSUME NEW r \in Requesters, RequestStep(r) PROVE Exclusion'
  <2>1. CASE UNCHANGED depVars
    BY <1>1, <2>1, ExclusionKept
  <2>2. CASE CreateRequested(r)
    <3>1. requester[r].intent.mode \in Modes
      BY <1>1 DEF TypeOK, RequesterRecord, Intent
    <3>2. CASE InsertDeployment(requester[r].intent.mode, requester[r].intent.plugin,
                                requester[r].base, None, requester[r].expected)
               /\ CreateVerdict(requester[r].intent.mode, requester[r].expected, None) = "ok"
      BY <3>1, <3>2, VerdictExclusive, InsertExclusive
    <3> QED
      BY <2>1, <2>2, <3>2 DEF CreateRequested
  <2> QED
    BY <1>3, <2>1, <2>2 DEF RequestStep, Request, DestroyEnvironment, ResolveRequest, CoreBusyForRequest,
       RefuseRequest, EnqueueDeployment, requesterOnly
<1>4. ASSUME NEW p \in Promoters, PromotionRuns(p) \/ AbortPromotion(p) PROVE Exclusion'
  <2>1. CASE UNCHANGED depVars
    BY <1>1, <2>1, ExclusionKept
  <2>2. CASE CreateQueued(p)
    <3> DEFINE i == promoter[p].item
    <3>1. item[i].intent.mode \in Modes
      BY <1>1, <2>2 DEF CreateQueued, TypeInv, TypeOK, PromotionHasItem, ItemRecord, Intent
    <3>2. CASE InsertDeployment(item[i].intent.mode, FALSE, promoter[p].base, i, item[i].expected)
               /\ CreateVerdict(item[i].intent.mode, item[i].expected, i) = "ok"
      BY <3>1, <3>2, VerdictExclusive, InsertExclusive
    <3> QED
      BY <2>1, <2>2, <3>2 DEF CreateQueued
  <2> QED
    BY <1>4, <2>1, <2>2 DEF PromotionRuns, ClaimHead, ExpireHead, CheckAvailable, HaltOrProceed, ResolveItem,
       ResolveFails, LockTimeout, AbortPromotion, promoterOnly
<1>5. ASSUME NEW i \in Items, ItemStep(i) PROVE Exclusion'
  BY <1>1, <1>5, ExclusionKept
  DEF ItemStep, CancelDeploymentQueueItem, ExpireDeploymentQueueItem, ItemOverdue, queueOnly
<1>6. ASSUME NEW d \in Deployments, DeploymentStep(d) PROVE Exclusion'
  <2>1. CASE UNCHANGED depVars
    BY <1>1, <2>1, ExclusionKept
  <2>2. CASE RunnerResult(d) \/ FailWithoutProof(d)
    BY <2>2, CompleteExclusive DEF RunnerResult, FailWithoutProof
  <2>3. CASE LateCompletion(d)
    <3>1. d \notin Executing
      BY <2>3 DEF LateCompletion, Executing
    <3>2. lease.holder # d
      BY <1>1, <3>1 DEF Exclusion, LeaseFollowsExecution
    <3> QED
      BY <1>1, <2>3, <3>2, ExclusionKept DEF LateCompletion, LeaseReleased, lifeOnly
  <2>4. CASE RenewDeploymentLease(d)
    BY <1>1, <2>4, ExclusionKept DEF RenewDeploymentLease, lifeOnly, TypeOK
  <2> QED
    BY <1>6, <2>1, <2>2, <2>3, <2>4
    DEF DeploymentStep, ReserveRunnerDispatch, BeginDeploymentDispatch, WindowCloses, RunnerStarts, RunnerStops,
        RunnerMoves, AcknowledgeBegins, lifeOnly, ackOnly
<1>7. CASE TryStartObservation
  <2>1. "observation" \in Modes /\ ~HeadExecuting
    BY <1>7, VerdictExclusive DEF TryStartObservation, Modes
  <2> QED
    BY <1>7, <2>1, InsertExclusive DEF TryStartObservation
<1>8. CASE LeaseExpires
  BY <1>1, <1>8, ExclusionKept DEF LeaseExpires, lifeOnly, TypeOK
<1>9. CASE AcknowledgeCommits \/ AcknowledgeAborts
  BY <1>1, <1>9, ExclusionKept DEF AcknowledgeCommits, AcknowledgeAborts, ackOnly
<1> QED
  BY <1>2, <1>3, <1>4, <1>5, <1>6, <1>7, <1>8, <1>9 DEF Next

\* At most one Deployment of an Environment executes, and only the executing one
\* holds the lease, although CreateDeployment looks at the executing head alone
\* and a lease may expire under a Deployment that still runs.
THEOREM MutualExclusion == Spec => []OneExecutes
<1>1. Init => ExclusionInv
  BY InitTypeInv, InitExclusion DEF ExclusionInv
<1>2. ExclusionInv /\ [Next]_vars => ExclusionInv'
  BY TypeStep, ExclusionStep DEF ExclusionInv
<1>3. ExclusionInv => OneExecutes
  BY DEF ExclusionInv, Exclusion, OneExecutes
<1> QED
  BY <1>1, <1>2, <1>3, PTL DEF Spec

-----------------------------------------------------------------------------
(***************************************************************************)
(* The order of the queue: a locked row stays the head of the queue, a     *)
(* settled item is final, each item becomes at most one Deployment,        *)
(* nothing overtakes what waits, and the whole implements QueueContract.   *)
(***************************************************************************)

(***************************************************************************)
(* The inductive invariant says of a claim what the code relies on without *)
(* naming it: the item waits, nothing older waits, nobody else claims it.  *)
(* It also needs that the sequence numbers not yet handed out name no item *)
(* (Arrived), or a new item could take the place of a settled one.         *)
(***************************************************************************)
Claims ==
  \A p \in Promoters :
    /\ promoter[p].pc = "idle" <=> promoter[p].item = None
    /\ promoter[p].item # None =>
         /\ promoter[p].item \in Queued
         /\ \A j \in Queued : promoter[p].item <= j
         /\ \A q \in Promoters : promoter[q].item = promoter[p].item => q = p
Arrived == \A i \in Items : item[i].state = "none" <=> i > enqueued
QueueInv == TypeInv /\ Claims /\ Arrived

\* What one step may do to items that are settled.
FinalStep == \A i \in Items : item[i].state \notin {"none", "queued"} => item'[i] = item[i]

\* A step settles exactly the items of S.
Settles(S) ==
  \A i \in Items : IF i \in S THEN item'[i].state \notin {"none", "queued"} ELSE item'[i] = item[i]

\* Nothing is claimed and nothing waits initially.
LEMMA InitQueue == Init => Claims /\ Arrived
BY ConstantsAssumption DEF Init, Claims, Arrived, NoItem, IdlePromoter, Items

\* The claims imply the property that the runs check.
LEMMA ClaimsSuffice ==
  ASSUME TypeOK, Claims
  PROVE  ClaimIsHead
<1> SUFFICES ASSUME NEW p \in Promoters, promoter[p].item # None
             PROVE  promoter[p].item = QueueHead
  BY DEF ClaimIsHead, Claims
<1>1. promoter[p].item \in Queued /\ \A j \in Queued : promoter[p].item <= j
  BY DEF Claims
<1>2. QueueHead \in Queued /\ \A j \in Queued : QueueHead <= j
  BY <1>1, QueueHeadTyped
<1>3. promoter[p].item \in Nat /\ QueueHead \in Nat
  BY <1>1, <1>2, ConstantsAssumption DEF Queued, Items
<1>4. promoter[p].item <= QueueHead /\ QueueHead <= promoter[p].item
  BY <1>1, <1>2
<1> QED
  BY <1>3, <1>4

\* Only one promoter at a time holds a row of the Environment's queue.
LEMMA SoleClaim ==
  ASSUME TypeOK, Claims, NEW p \in Promoters, NEW q \in Promoters,
         promoter[p].item # None, promoter[q].item # None
  PROVE  p = q
<1>1. promoter[p].item = promoter[q].item
  BY ClaimsSuffice DEF ClaimIsHead
<1> QED
  BY <1>1 DEF Claims

\* A step whose promoters keep or drop their claims, and keep only items that
\* still wait, preserves the claims if whatever joins the queue is newer.
LEMMA ClaimsKept ==
  ASSUME QueueInv,
         \A j \in Queued' : j \in Queued \/ j > enqueued,
         \A q \in Promoters :
           /\ promoter'[q].pc = "idle" <=> promoter'[q].item = None
           /\ promoter'[q].item \in {None, promoter[q].item}
           /\ promoter'[q].item # None => promoter'[q].item \in Queued'
  PROVE  Claims'
<1> SUFFICES ASSUME NEW p \in Promoters, promoter'[p].item # None
             PROVE  /\ promoter'[p].item \in Queued'
                    /\ \A j \in Queued' : promoter'[p].item <= j
                    /\ \A q \in Promoters : promoter'[q].item = promoter'[p].item => q = p
  BY DEF Claims
<1> DEFINE i == promoter[p].item
<1>1. promoter'[p].item = i /\ i \in Queued'
  OBVIOUS
<1>2. i \in Queued /\ i \in Items /\ \A j \in Queued : i <= j
  BY <1>1 DEF QueueInv, Claims, Queued
<1>3. i <= enqueued /\ i \in Nat /\ enqueued \in Nat
  BY <1>2, ConstantsAssumption DEF QueueInv, TypeInv, TypeOK, Arrived, Queued, Items
<1>4. ASSUME NEW j \in Queued' PROVE i <= j
  <2>1. CASE j \in Queued
    BY <1>2, <2>1
  <2>2. CASE j > enqueued
    <3>1. j \in Nat
      BY ConstantsAssumption DEF Queued, Items
    <3> QED
      BY <1>3, <2>2, <3>1
  <2> QED
    BY <2>1, <2>2
<1>5. ASSUME NEW q \in Promoters, promoter'[q].item = promoter'[p].item PROVE q = p
  <2>1. promoter[q].item = i
    BY <1>1, <1>5
  <2> QED
    BY <1>1, <2>1 DEF QueueInv, Claims
<1> QED
  BY <1>1, <1>4, <1>5

\* Settling waiting items that no promoter goes on to hold is sound.
LEMMA SettlesSound ==
  ASSUME QueueInv, NEW S \in SUBSET Queued, Settles(S), enqueued' = enqueued,
         \A q \in Promoters :
           /\ promoter'[q].pc = "idle" <=> promoter'[q].item = None
           /\ promoter'[q].item \in {None, promoter[q].item}
           /\ promoter'[q].item # None => promoter'[q].item \notin S
  PROVE  Claims' /\ Arrived' /\ FinalStep
<1>1. S \subseteq Items /\ \A i \in S : item[i].state = "queued"
  BY DEF Queued
<1>2. Queued' = Queued \ S
  BY <1>1 DEF Settles, Queued
<1>3. ASSUME NEW q \in Promoters, promoter'[q].item # None PROVE promoter'[q].item \in Queued'
  BY <1>2, <1>3 DEF QueueInv, Claims
<1>4. Claims'
  BY <1>2, <1>3, ClaimsKept
<1>5. Arrived' /\ FinalStep
  BY <1>1 DEF QueueInv, Arrived, FinalStep, Settles
<1> QED
  BY <1>4, <1>5

\* The operators that settle items settle the items they name.
LEMMA SettleSettles ==
  ASSUME TypeOK, NEW state \in {"dispatched", "cancelled", "expired", "rejected"}, NEW reason, NEW about
  PROVE  /\ \A i \in Items : \A d : item' = [item EXCEPT ![i] = Settled(i, state, reason, about, d)] => Settles({i})
         /\ SettleQueuedDeployments(state, reason, about) => Settles(Queued)
         /\ item' = item => Settles({})
BY DEF TypeOK, Settled, SettleQueuedDeployments, Settles

\* A promoter that ends its promotion, having settled its own item, everything
\* that waits, or nothing.
LEMMA PromotionEnds ==
  ASSUME QueueInv, NEW p \in Promoters, EndPromotion(p), enqueued' = enqueued,
         NEW S \in SUBSET Queued, Settles(S), S # {} => promoter[p].item # None
  PROVE  Claims' /\ Arrived' /\ FinalStep
<1>1. /\ promoter'[p].pc = "idle" /\ promoter'[p].item = None
      /\ \A q \in Promoters : q # p => promoter'[q] = promoter[q]
  BY DEF EndPromotion, SetPromoter, QueueInv, TypeInv, TypeOK
<1>2. ASSUME NEW q \in Promoters, promoter'[q].item # None PROVE promoter'[q].item \notin S
  <2>1. q # p /\ promoter[q].item # None
    BY <1>1, <1>2
  <2>2. promoter[p].item = None
    BY <2>1, SoleClaim DEF QueueInv, TypeInv
  <2> QED
    BY <2>2
<1>3. \A q \in Promoters : promoter'[q].pc = "idle" <=> promoter'[q].item = None
  BY <1>1 DEF QueueInv, Claims
<1>4. \A q \in Promoters : promoter'[q].item \in {None, promoter[q].item}
  BY <1>1
<1> QED
  BY <1>2, <1>3, <1>4, SettlesSound

\* A promoter that goes on with the item it holds.
LEMMA PromotionGoesOn ==
  ASSUME QueueInv, NEW p \in Promoters, promoter[p].pc # "idle", NEW pc, pc # "idle", NEW base,
         SetPromoter(p, pc, promoter[p].item, base), UNCHANGED <<enqueued, item>>
  PROVE  Claims' /\ Arrived' /\ FinalStep
<1>1. promoter[p].item # None
  BY DEF QueueInv, Claims
<1>2. /\ promoter'[p].pc = pc /\ promoter'[p].item = promoter[p].item
      /\ \A q \in Promoters : q # p => promoter'[q] = promoter[q]
  BY DEF SetPromoter, QueueInv, TypeInv, TypeOK
<1>3. /\ \A q \in Promoters : promoter'[q].pc = "idle" <=> promoter'[q].item = None
      /\ \A q \in Promoters : promoter'[q].item \in {None, promoter[q].item}
  BY <1>1, <1>2 DEF QueueInv, Claims
<1>4. Settles({})
  BY SettleSettles DEF QueueInv, TypeInv
<1> QED
  BY <1>3, <1>4, SettlesSound

\* Steps of everybody but promoters, who settle only rows nobody has locked.
LEMMA OthersSettle ==
  ASSUME QueueInv, enqueued' = enqueued, promoter' = promoter,
         NEW S \in SUBSET Queued, Settles(S), \A i \in S : ~RowLocked(i)
  PROVE  Claims' /\ Arrived' /\ FinalStep
<1>1. ASSUME NEW q \in Promoters
      PROVE  /\ promoter'[q].pc = "idle" <=> promoter'[q].item = None
             /\ promoter'[q].item \in {None, promoter[q].item}
  BY DEF QueueInv, Claims
<1>2. ASSUME NEW q \in Promoters, promoter'[q].item # None PROVE promoter'[q].item \notin S
  BY <1>2 DEF RowLocked
<1> QED
  BY <1>1, <1>2, SettlesSound

\* Steps of everybody but promoters that leave the queue alone.
LEMMA OthersLeaveItems ==
  ASSUME QueueInv, UNCHANGED <<enqueued, item, promoter>>
  PROVE  Claims' /\ Arrived' /\ FinalStep
BY DEF QueueInv, Claims, Arrived, FinalStep, Queued

\* Promotion: one case per step of promoteDeploymentQueueHead.
LEMMA PromotionQueue ==
  ASSUME QueueInv, NEW p \in Promoters, PromotionRuns(p) \/ AbortPromotion(p)
  PROVE  Claims' /\ Arrived' /\ FinalStep
<1> DEFINE i == promoter[p].item
<1> USE DEF promoterOnly, ackVars
<1>1. TypeInv /\ TypeOK /\ Claims
  BY DEF QueueInv, TypeInv
<1>2. ASSUME promoter[p].pc # "idle" PROVE i # None /\ i \in Items /\ {i} \in SUBSET Queued
  BY <1>2 DEF QueueInv, Claims, Queued
<1>3. ASSUME EndPromotion(p), enqueued' = enqueued, item' = item
      PROVE  Claims' /\ Arrived' /\ FinalStep
  BY <1>1, <1>3, SettleSettles, PromotionEnds
<1>4. ASSUME promoter[p].pc # "idle", EndPromotion(p), enqueued' = enqueued,
             NEW state \in {"dispatched", "cancelled", "expired", "rejected"}, NEW reason, NEW about, NEW d,
             item' = [item EXCEPT ![i] = Settled(i, state, reason, about, d)]
      PROVE  Claims' /\ Arrived' /\ FinalStep
  <2>1. Settles({i})
    BY <1>1, <1>2, <1>4, SettleSettles
  <2> QED
    BY <1>2, <1>4, <2>1, PromotionEnds
<1>5. ASSUME promoter[p].pc # "idle", EndPromotion(p), enqueued' = enqueued, RejectQueuedDeployments
      PROVE  Claims' /\ Arrived' /\ FinalStep
  <2>1. Settles(Queued)
    BY <1>1, <1>5, SettleSettles DEF RejectQueuedDeployments
  <2> QED
    BY <1>2, <1>5, <2>1, PromotionEnds
<1>6. CASE ClaimHead(p)
  <2>1. QueueHead \in Queued /\ QueueHead # None /\ \A j \in Queued : QueueHead <= j
    BY <1>1, <1>6, QueueHeadTyped DEF ClaimHead
  <2>2. \A q \in Promoters : promoter[q].item # QueueHead
    BY <1>6 DEF ClaimHead, RowLocked
  <2>3. \A q \in Promoters : promoter[q].item = None
    BY <1>1, <2>2, ClaimsSuffice DEF ClaimIsHead
  <2>4. /\ promoter'[p].pc = "claimed" /\ promoter'[p].item = QueueHead
        /\ \A q \in Promoters : q # p => promoter'[q] = promoter[q]
    BY <1>1, <1>6 DEF ClaimHead, SetPromoter, TypeOK
  <2>5. Queued' = Queued /\ item' = item /\ enqueued' = enqueued
    BY <1>6 DEF ClaimHead, Queued
  <2>6. Arrived' /\ FinalStep
    BY <2>5 DEF QueueInv, Arrived, FinalStep
  <2>7. Claims'
    BY <1>1, <2>1, <2>3, <2>4, <2>5 DEF Claims
  <2> QED
    BY <2>6, <2>7
<1>7. CASE ExpireHead(p)
  BY <1>4, <1>7 DEF ExpireHead, Settle
<1>8. CASE CheckAvailable(p)
  <2>1. CASE SetPromoter(p, "available", i, None) /\ UNCHANGED item
    BY <1>8, <2>1, PromotionGoesOn DEF CheckAvailable
  <2> QED
    BY <1>3, <1>5, <1>8, <2>1 DEF CheckAvailable
<1>9. CASE HaltOrProceed(p)
  <2>1. CASE HaltingPredecessor(i)
    BY <1>4, <1>9, <2>1 DEF HaltOrProceed, Settle
  <2>2. CASE ~HaltingPredecessor(i)
    BY <1>9, <2>2, PromotionGoesOn DEF HaltOrProceed
  <2> QED
    BY <2>1, <2>2
<1>10. CASE ResolveItem(p)
  BY <1>10, PromotionGoesOn DEF ResolveItem
<1>11. CASE ResolveFails(p)
  BY <1>3, <1>4, <1>11 DEF ResolveFails, RejectItem, DeferItem, Settle
<1>12. CASE CreateQueued(p)
  <2> DEFINE verdict == CreateVerdict(item[i].intent.mode, item[i].expected, i)
  <2>1. promoter[p].pc # "idle" /\ enqueued' = enqueued
    BY <1>12 DEF CreateQueued
  <2>2. CASE SettleDispatched(i) /\ EndPromotion(p)
    BY <1>4, <2>1, <2>2 DEF SettleDispatched
  <2>3. CASE RefusedPromotion(p, verdict)
    <3> HIDE DEF verdict
    <3> QED
      BY <1>3, <1>4, <1>5, <2>1, <2>3 DEF RefusedPromotion, DeferItem, RejectItem, Settle
  <2> QED
    BY <1>12, <2>2, <2>3 DEF CreateQueued
<1>13. CASE LockTimeout(p) \/ AbortPromotion(p)
  BY <1>3, <1>13 DEF LockTimeout, AbortPromotion, DeferItem
<1> QED
  BY <1>6, <1>7, <1>8, <1>9, <1>10, <1>11, <1>12, <1>13 DEF PromotionRuns

\* Everybody else: API calls, cancellation, expiry, Deployments, acknowledgement.
LEMMA OthersQueue ==
  ASSUME QueueInv, [Next]_vars, \A p \in Promoters : ~PromotionRuns(p) /\ ~AbortPromotion(p)
  PROVE  Claims' /\ Arrived' /\ FinalStep
<1> USE DEF depVars, evidenceVars, queueVars, processVars, ackVars
<1>1. TypeInv /\ TypeOK /\ Claims
  BY DEF QueueInv, TypeInv
<1>2. CASE UNCHANGED <<enqueued, item, promoter>>
  BY <1>2, OthersLeaveItems
<1>3. ASSUME NEW r \in Requesters, NEW in \in Intents, DestroyEnvironment(r, in)
      PROVE  Claims' /\ Arrived' /\ FinalStep
  <2>1. Settles(Queued) /\ \A i \in Queued : ~RowLocked(i)
    BY <1>1, <1>3, SettleSettles DEF DestroyEnvironment
  <2> QED
    BY <1>3, <2>1, OthersSettle DEF DestroyEnvironment
<1>4. ASSUME NEW r \in Requesters, EnqueueDeployment(r) PROVE Claims' /\ Arrived' /\ FinalStep
  <2>1. CASE UNCHANGED queueVars
    BY <1>2, <1>4, <2>1 DEF EnqueueDeployment
  <2>2. CASE enqueued' = enqueued + 1
    <3> DEFINE i == enqueued + 1
    <3>1. i \in Items /\ enqueued \in Nat /\ promoter' = promoter
      BY <1>1, <1>4, <2>2, ConstantsAssumption DEF EnqueueDeployment, TypeOK
    <3>2. item[i].state = "none"
      BY <3>1 DEF QueueInv, Arrived
    <3>3. item'[i].state = "queued" /\ \A j \in Items : j # i => item'[j] = item[j]
      BY <1>1, <1>4, <2>2, <3>1 DEF EnqueueDeployment, TypeOK
    <3>4. Queued' = Queued \cup {i} /\ i > enqueued
      BY <3>1, <3>3 DEF Queued
    <3>5. \A q \in Promoters :
            /\ promoter'[q].pc = "idle" <=> promoter'[q].item = None
            /\ promoter'[q].item \in {None, promoter[q].item}
            /\ promoter'[q].item # None => promoter'[q].item \in Queued'
      BY <1>1, <3>1, <3>4 DEF Claims
    <3>6. Claims'
      BY <3>4, <3>5, ClaimsKept
    <3>7. Arrived'
      <4>1. \A j \in Items : j \in Nat
        BY ConstantsAssumption DEF Items
      <4> SUFFICES ASSUME NEW j \in Items PROVE item'[j].state = "none" <=> j > enqueued'
        BY DEF Arrived
      <4>2. CASE j = i
        BY <2>2, <3>1, <3>3, <4>2
      <4>3. CASE j # i
        BY <2>2, <3>1, <3>3, <4>1, <4>3 DEF QueueInv, Arrived
      <4> QED
        BY <4>2, <4>3
    <3>8. FinalStep
      BY <3>2, <3>3 DEF FinalStep
    <3> QED
      BY <3>6, <3>7, <3>8
  <2> QED
    BY <1>4, <2>1, <2>2 DEF EnqueueDeployment
<1>5. ASSUME NEW i \in Items, ItemStep(i) PROVE Claims' /\ Arrived' /\ FinalStep
  <2>1. CASE CancelDeploymentQueueItem(i) \/ ExpireDeploymentQueueItem(i)
    <3>1. Settles({i}) /\ {i} \in SUBSET Queued /\ ~RowLocked(i)
      BY <1>1, <2>1, SettleSettles DEF CancelDeploymentQueueItem, ExpireDeploymentQueueItem, Settle
    <3> QED
      BY <2>1, <3>1, OthersSettle DEF CancelDeploymentQueueItem, ExpireDeploymentQueueItem, queueOnly
  <2>2. CASE ItemOverdue(i)
    <3>1. /\ item[i].state = "queued" /\ UNCHANGED <<enqueued, promoter>>
          /\ \A j \in Items : item'[j].state = item[j].state /\ (j # i => item'[j] = item[j])
      BY <1>1, <2>2 DEF ItemOverdue, Queued, queueOnly, TypeOK, ItemRecord
    <3>2. Queued' = Queued
      BY <3>1 DEF Queued
    <3> QED
      BY <3>1, <3>2 DEF QueueInv, Claims, Arrived, FinalStep
  <2> QED
    BY <1>5, <2>1, <2>2 DEF ItemStep
<1>6. CASE AcknowledgeCommits
  <2>1. CASE RejectBehindFence(acking)
    <3>1. Settles(Queued) /\ \A i \in Queued : ~RowLocked(i)
      BY <1>1, <2>1, SettleSettles DEF RejectBehindFence
    <3> QED
      BY <1>6, <3>1, OthersSettle DEF AcknowledgeCommits, ackOnly
  <2> QED
    BY <1>2, <1>6, <2>1 DEF AcknowledgeCommits, ackOnly
<1>7. ASSUME NEW r \in Requesters, RequestStep(r) PROVE Claims' /\ Arrived' /\ FinalStep
  BY <1>2, <1>3, <1>4, <1>7 DEF RequestStep, Request, ResolveRequest, CoreBusyForRequest, RefuseRequest,
     CreateRequested, requesterOnly
<1>8. ASSUME NEW d \in Deployments, DeploymentStep(d) PROVE Claims' /\ Arrived' /\ FinalStep
  BY <1>2, <1>8
  DEF DeploymentStep, ReserveRunnerDispatch, BeginDeploymentDispatch, WindowCloses, RunnerStarts, RunnerStops,
      RunnerMoves, RunnerResult, FailWithoutProof, Complete, LateCompletion, RenewDeploymentLease,
      AcknowledgeBegins, lifeOnly, ackOnly
<1>9. CASE UNCHANGED vars \/ TryStartObservation \/ LeaseExpires \/ AcknowledgeAborts
  BY <1>2, <1>9 DEF vars, TryStartObservation, LeaseExpires, AcknowledgeAborts, lifeOnly, ackOnly
<1> QED
  BY <1>5, <1>6, <1>7, <1>8, <1>9 DEF Next

\* The inductive step.
LEMMA QueueStep == QueueInv /\ [Next]_vars => QueueInv' /\ FinalStep
<1> SUFFICES ASSUME QueueInv, [Next]_vars PROVE QueueInv' /\ FinalStep
  OBVIOUS
<1>1. TypeInv'
  BY TypeStep DEF QueueInv
<1>2. Claims' /\ Arrived' /\ FinalStep
  BY PromotionQueue, OthersQueue
<1> QED
  BY <1>1, <1>2 DEF QueueInv

\* The row a promoter of any replica has locked is the head of the queue until
\* the promoter lets go, and no other promoter holds it.
THEOREM ClaimsAreHeads == Spec => []ClaimIsHead
<1>1. Init => QueueInv
  BY InitTypeInv, InitQueue DEF QueueInv
<1>2. QueueInv => ClaimIsHead
  BY ClaimsSuffice DEF QueueInv, TypeInv
<1> QED
  BY <1>1, <1>2, QueueStep, PTL DEF Spec

\* No promoter, cancellation, expiry, bulk rejection or acknowledgement settles
\* an item twice or changes what it became.
THEOREM SettlementIsFinal == Spec => SettledForever
<1>1. Init => QueueInv
  BY InitTypeInv, InitQueue DEF QueueInv
<1>2. QueueInv /\ [Next]_vars =>
        [\A i \in Items : item[i].state \notin {"none", "queued"} => item'[i] = item[i]]_vars
  BY QueueStep DEF FinalStep
<1> QED
  BY <1>1, <1>2, QueueStep, PTL DEF Spec, SettledForever
-----------------------------------------------------------------------------
(***************************************************************************)
(* What one step does to the rows of the Environment and of its queue: it  *)
(* withdraws waiting items (perhaps none), adds one, starts a Deployment   *)
(* for the head or for a caller, or ends the executing Deployment.         *)
(***************************************************************************)
RowsKept == UNCHANGED <<created, dep, execHead, stateHead, enqueued>>

\* The items of S leave the queue without a Deployment, halted only by a failed
\* predecessor; the others stay what they were, and all keep what they were enqueued with.
Withdrawn(S) ==
  \A i \in Items :
    /\ item'[i].intent = item[i].intent /\ item'[i].ended = item[i].ended
    /\ item'[i].after = item[i].after /\ item'[i].expected = item[i].expected
    /\ IF i \in S
       THEN /\ item'[i].state \in {"cancelled", "expired", "rejected"} /\ item'[i].deployment = None
            /\ item'[i].reason = "previous_deployment_failed" =>
                 HaltingPredecessor(i) /\ item'[i].about = stateHead
       ELSE /\ item'[i].state = item[i].state /\ item'[i].deployment = item[i].deployment
            /\ item'[i].reason = item[i].reason /\ item'[i].about = item[i].about

Withdraws == RowsKept /\ \E S \in SUBSET Queued : Withdrawn(S)

Arrives(r) ==
  LET in == requester[r].intent IN
  /\ requester[r].pc = "enqueue" /\ enqueued + 1 \in Items /\ enqueued' = enqueued + 1
  /\ UNCHANGED <<created, dep, execHead, stateHead>>
  /\ \E new \in ItemRecord :
       /\ new.state = "queued" /\ new.deployment = None /\ new.intent = in /\ new.reason = "none"
       /\ new.after = EnqueuedAfter(in) /\ new.ended = IF in.halt THEN Existing \ Executing ELSE {}
       /\ item' = [item EXCEPT ![enqueued + 1] = new]

StartsHead(p) ==
  LET i == promoter[p].item IN
  /\ promoter[p].pc = "admitted"
  /\ CreateVerdict(item[i].intent.mode, item[i].expected, i) = "ok"
  /\ InsertDeployment(item[i].intent.mode, FALSE, promoter[p].base, i, item[i].expected)
  /\ SettleDispatched(i) /\ UNCHANGED enqueued

StartsDirectly ==
  /\ \E m \in Modes, plugin \in BOOLEAN, base, expected \in {None} \cup Deployments :
       /\ CreateVerdict(m, expected, None) = "ok"
       /\ InsertDeployment(m, plugin, base, None, expected)
       /\ expected # None => \E r \in Requesters :
            /\ requester[r].pc = "admitted" /\ requester[r].intent.mode = m
            /\ requester[r].base = base /\ requester[r].expected = expected
  /\ UNCHANGED <<enqueued, item>>

Ends(d) ==
  /\ d \in Executing
  /\ \E status \in {"succeeded", "failed"} : dep' = [dep EXCEPT ![d].status = status]
  /\ UNCHANGED <<created, execHead, stateHead, enqueued, item>>

RowStep ==
  \/ Withdraws \/ StartsDirectly
  \/ \E r \in Requesters : Arrives(r)
  \/ \E p \in Promoters : StartsHead(p)
  \/ \E d \in Deployments : Ends(d)

\* Every settlement other than a promotion withdraws the items it names.
LEMMA SettlementWithdraws ==
  ASSUME TypeOK, NEW state \in {"cancelled", "expired", "rejected"}, NEW reason, NEW about
  PROVE  /\ \A i \in Queued :
              Settle(i, state, reason, about) /\
              (reason = "previous_deployment_failed" => HaltingPredecessor(i) /\ about = stateHead)
                => Withdrawn({i})
         /\ SettleQueuedDeployments(state, reason, about) /\ reason # "previous_deployment_failed"
              => Withdrawn(Queued)
         /\ UNCHANGED item => Withdrawn({})
<1>1. Queued \subseteq Items
  BY DEF Queued
<1>2. ASSUME NEW i \in Queued, Settle(i, state, reason, about),
             reason = "previous_deployment_failed" => HaltingPredecessor(i) /\ about = stateHead
      PROVE  Withdrawn({i})
  <2>1. item'[i] = Settled(i, state, reason, about, None) /\ \A j \in Items : j # i => item'[j] = item[j]
    BY <1>1, <1>2 DEF Settle, TypeOK
  <2> QED
    BY <1>2, <2>1 DEF Settled, Withdrawn
<1>3. ASSUME SettleQueuedDeployments(state, reason, about), reason # "previous_deployment_failed"
      PROVE  Withdrawn(Queued)
  BY <1>3 DEF SettleQueuedDeployments, Settled, Withdrawn
<1> QED
  BY <1>2, <1>3 DEF Withdrawn

\* The steps of promoteDeploymentQueueHead.
LEMMA PromotionRows ==
  ASSUME QueueInv, NEW p \in Promoters, PromotionRuns(p) \/ AbortPromotion(p)
  PROVE  Withdraws \/ StartsHead(p)
<1> DEFINE i == promoter[p].item
<1> USE DEF promoterOnly, depVars
<1>1. TypeOK
  BY DEF QueueInv, TypeInv
<1>2. ASSUME promoter[p].pc # "idle" PROVE i \in Queued
  BY <1>2 DEF QueueInv, Claims
<1>3. ASSUME RowsKept, UNCHANGED item PROVE Withdraws
  BY <1>1, <1>3, SettlementWithdraws DEF Withdraws
<1>4. ASSUME RowsKept, promoter[p].pc # "idle", NEW state \in {"expired", "rejected"}, NEW reason, NEW about,
             Settle(i, state, reason, about),
             reason = "previous_deployment_failed" => HaltingPredecessor(i) /\ about = stateHead
      PROVE  Withdraws
  <2>1. Withdrawn({i}) /\ {i} \in SUBSET Queued
    BY <1>1, <1>2, <1>4, SettlementWithdraws
  <2> QED
    BY <1>4, <2>1 DEF Withdraws
<1>5. ASSUME RowsKept, RejectQueuedDeployments PROVE Withdraws
  BY <1>1, <1>5, SettlementWithdraws DEF Withdraws, RejectQueuedDeployments
<1>6. CASE ClaimHead(p) \/ ResolveItem(p) \/ LockTimeout(p) \/ AbortPromotion(p)
  BY <1>3, <1>6 DEF ClaimHead, ResolveItem, LockTimeout, AbortPromotion, DeferItem, RowsKept
<1>7. CASE ExpireHead(p)
  BY <1>4, <1>7 DEF ExpireHead, RowsKept
<1>8. CASE CheckAvailable(p)
  BY <1>3, <1>5, <1>8 DEF CheckAvailable, RowsKept
<1>9. CASE HaltOrProceed(p)
  BY <1>3, <1>4, <1>9 DEF HaltOrProceed, RowsKept
<1>10. CASE ResolveFails(p)
  BY <1>3, <1>4, <1>10 DEF ResolveFails, RejectItem, DeferItem, RowsKept
<1>11. CASE CreateQueued(p)
  <2> DEFINE verdict == CreateVerdict(item[i].intent.mode, item[i].expected, i)
  <2>1. promoter[p].pc # "idle" /\ UNCHANGED enqueued
    BY <1>11 DEF CreateQueued
  <2>2. CASE verdict = "ok"
    BY <1>11, <2>1, <2>2 DEF CreateQueued, StartsHead
  <2>3. CASE verdict # "ok"
    <3>1. RowsKept /\ RefusedPromotion(p, verdict)
      BY <1>11, <2>1, <2>3 DEF CreateQueued, RowsKept
    <3>2. verdict # "previous_deployment_failed"
      BY DEF CreateVerdict
    <3> HIDE DEF verdict
    <3> QED
      BY <1>3, <1>4, <1>5, <2>1, <3>1, <3>2 DEF RefusedPromotion, DeferItem, RejectItem
  <2> QED
    BY <2>2, <2>3
<1> QED
  BY <1>6, <1>7, <1>8, <1>9, <1>10, <1>11 DEF PromotionRuns

\* Every step is one of these.
LEMMA RowSteps == QueueInv /\ [Next]_vars => RowStep
<1> SUFFICES ASSUME QueueInv, [Next]_vars PROVE RowStep
  OBVIOUS
<1> USE DEF depVars, queueVars, processVars, evidenceVars, ackVars
<1>1. TypeOK
  BY DEF QueueInv, TypeInv
<1>2. ASSUME RowsKept, UNCHANGED item PROVE Withdraws
  BY <1>1, <1>2, SettlementWithdraws DEF Withdraws
<1>3. ASSUME NEW r \in Requesters, RequestStep(r) PROVE RowStep
  <2>1. CASE \E in \in Intents : Request(r, in)
    BY <1>2, <2>1 DEF Request, requesterOnly, RowsKept, RowStep
  <2>2. CASE ResolveRequest(r) \/ CoreBusyForRequest(r) \/ RefuseRequest(r)
    BY <1>2, <2>2 DEF ResolveRequest, CoreBusyForRequest, RefuseRequest, requesterOnly, RowsKept, RowStep
  <2>3. CASE \E in \in Intents : DestroyEnvironment(r, in)
    BY <1>1, <2>3, SettlementWithdraws DEF DestroyEnvironment, Withdraws, RowsKept, RowStep
  <2>4. CASE CreateRequested(r)
    <3> DEFINE in == requester[r].intent
    <3>1. /\ in.mode \in Modes /\ in.plugin \in BOOLEAN
          /\ requester[r].base \in {None} \cup Deployments /\ requester[r].expected \in {None} \cup Deployments
      BY <1>1 DEF TypeOK, RequesterRecord, Intent
    <3>2. CASE UNCHANGED depVars
      BY <1>2, <2>4, <3>2 DEF CreateRequested, RowsKept, RowStep
    <3>3. CASE /\ CreateVerdict(in.mode, requester[r].expected, None) = "ok"
               /\ InsertDeployment(in.mode, in.plugin, requester[r].base, None, requester[r].expected)
      BY <2>4, <3>1, <3>3 DEF CreateRequested, StartsDirectly, RowStep
    <3> QED
      BY <2>4, <3>2, <3>3 DEF CreateRequested
  <2>5. CASE EnqueueDeployment(r)
    <3>1. CASE UNCHANGED queueVars
      BY <1>2, <2>5, <3>1 DEF EnqueueDeployment, RowsKept, RowStep
    <3>2. CASE enqueued' = enqueued + 1
      <4> DEFINE new == [state |-> "queued", intent |-> requester[r].intent,
                         after |-> EnqueuedAfter(requester[r].intent),
                         expected |-> requester[r].expected, overdue |-> FALSE,
                         deployment |-> None, reason |-> "none", about |-> None,
                         ended |-> IF requester[r].intent.halt THEN Existing \ Executing ELSE {}]
      <4>1. item' = [item EXCEPT ![enqueued + 1] = new] /\ enqueued + 1 \in Items
        BY <1>1, <2>5, <3>2 DEF EnqueueDeployment, TypeOK
      <4>2. new \in ItemRecord
        <5>1. requester[r].intent \in Intent /\ requester[r].expected \in {None} \cup Deployments
          BY <1>1 DEF TypeOK, RequesterRecord
        <5>2. EnqueuedAfter(requester[r].intent) \in {None} \cup Deployments
          BY <1>1 DEF EnqueuedAfter, TypeOK
        <5>3. (IF requester[r].intent.halt THEN Existing \ Executing ELSE {}) \in SUBSET Deployments
          BY DEF Existing
        <5> QED
          BY <5>1, <5>2, <5>3 DEF ItemRecord, ReasonCodes
      <4> QED
        BY <2>5, <3>2, <4>1, <4>2 DEF EnqueueDeployment, Arrives, RowStep
    <3> QED
      BY <2>5, <3>1, <3>2 DEF EnqueueDeployment
  <2> QED
    BY <1>3, <2>1, <2>2, <2>3, <2>4, <2>5 DEF RequestStep
<1>4. ASSUME NEW p \in Promoters, PromotionRuns(p) \/ AbortPromotion(p) PROVE RowStep
  BY <1>4, PromotionRows DEF RowStep
<1>5. ASSUME NEW i \in Items, ItemStep(i) PROVE RowStep
  <2>1. CASE CancelDeploymentQueueItem(i) \/ ExpireDeploymentQueueItem(i)
    <3>1. Withdrawn({i}) /\ {i} \in SUBSET Queued
      BY <1>1, <2>1, SettlementWithdraws DEF CancelDeploymentQueueItem, ExpireDeploymentQueueItem
    <3> QED
      BY <2>1, <3>1
      DEF CancelDeploymentQueueItem, ExpireDeploymentQueueItem, queueOnly, Withdraws, RowsKept, RowStep
  <2>2. CASE ItemOverdue(i)
    <3>1. Withdrawn({})
      BY <1>1, <2>2 DEF ItemOverdue, Withdrawn, TypeOK, ItemRecord
    <3> QED
      BY <2>2, <3>1 DEF ItemOverdue, queueOnly, Withdraws, RowsKept, RowStep
  <2> QED
    BY <1>5, <2>1, <2>2 DEF ItemStep
<1>6. ASSUME NEW d \in Deployments, DeploymentStep(d) PROVE RowStep
  <2>1. CASE RunnerResult(d) \/ FailWithoutProof(d)
    BY <2>1 DEF RunnerResult, FailWithoutProof, Complete, lifeOnly, Ends, RowStep
  <2>2. CASE UNCHANGED <<lifeOnly, dep>>
    BY <1>2, <2>2 DEF lifeOnly, RowsKept, RowStep
  <2>3. CASE AcknowledgeBegins(d)
    BY <1>2, <2>3 DEF AcknowledgeBegins, ackOnly, RowsKept, RowStep
  <2> QED
    BY <1>6, <2>1, <2>2, <2>3
    DEF DeploymentStep, ReserveRunnerDispatch, BeginDeploymentDispatch, WindowCloses, RunnerStarts, RunnerStops,
        RunnerMoves, LateCompletion, RenewDeploymentLease
<1>7. CASE TryStartObservation
  <2>1. stateHead \in {None} \cup Deployments /\ "observation" \in Modes
    BY <1>1 DEF TypeOK, Modes
  <2> QED
    BY <1>7, <2>1 DEF TryStartObservation, StartsDirectly, RowStep
<1>8. CASE AcknowledgeCommits
  BY <1>1, <1>2, <1>8, SettlementWithdraws
  DEF AcknowledgeCommits, RejectBehindFence, ackOnly, Withdraws, RowsKept, RowStep
<1>9. CASE UNCHANGED vars \/ LeaseExpires \/ AcknowledgeAborts
  BY <1>2, <1>9 DEF vars, LeaseExpires, AcknowledgeAborts, lifeOnly, ackOnly, RowsKept, RowStep
<1> QED
  BY <1>3, <1>4, <1>5, <1>6, <1>7, <1>8, <1>9 DEF Next
-----------------------------------------------------------------------------
(***************************************************************************)
(* Each item becomes at most one Deployment.  Items and Deployments point  *)
(* at each other, and an item that waits or was withdrawn points nowhere.  *)
(***************************************************************************)
Linked ==
  /\ \A d \in Existing : dep[d].via # None => item[dep[d].via].state = "dispatched" /\ item[dep[d].via].deployment = d
  /\ \A i \in Items : IF item[i].state = "dispatched"
                      THEN item[i].deployment \in Existing /\ dep[item[i].deployment].via = i
                      ELSE item[i].deployment = None

\* CreateDeployment adds the Deployment numbered created + 1 and nothing else.
LEMMA InsertRows ==
  ASSUME TypeOK, NEW m \in Modes, NEW plugin, NEW base, NEW i, NEW expected,
         InsertDeployment(m, plugin, base, i, expected)
  PROVE  /\ created' = created + 1 /\ created \in Nat /\ created' \in Deployments
         /\ execHead' = created' /\ created' \notin Existing /\ Existing' = Existing \cup {created'}
         /\ dep'[created'].mode = m /\ dep'[created'].status = "executing" /\ dep'[created'].via = i
         /\ \A d \in Deployments : d # created' => dep'[d] = dep[d]
<1>1. created' = created + 1 /\ created \in Nat /\ created' \in Deployments /\ execHead' = created'
  BY ConstantsAssumption DEF TypeOK, InsertDeployment, Deployments
<1>2. created' \notin Existing
  BY <1>1 DEF Existing
<1>3. Existing' = Existing \cup {created'}
  <2>1. \A d \in Deployments : d \in Nat
    BY ConstantsAssumption DEF Deployments
  <2>2. \A d \in Deployments : d <= created' <=> d <= created \/ d = created'
    BY <1>1, <2>1
  <2>3. Existing = {d \in Deployments : d <= created} /\ Existing' = {d \in Deployments : d <= created'}
    BY DEF Existing
  <2>4. created' <= created'
    BY <1>1
  <2> QED
    BY <1>1, <2>2, <2>3, <2>4
<1> QED
  BY <1>1, <1>2, <1>3 DEF TypeOK, InsertDeployment

\* Nothing is linked initially.
LEMMA InitLinked == Init => Linked
BY ConstantsAssumption DEF Init, Linked, Existing, Deployments, NoDeployment, NoItem

\* The links imply the property that the runs check.
LEMMA LinkedSuffices == TypeOK /\ Linked => DispatchedOnce
<1> SUFFICES ASSUME TypeOK, Linked PROVE DispatchedOnce
  OBVIOUS
<1> DEFINE Via(i) == {d \in Existing : dep[d].via = i}
<1>1. ASSUME NEW i \in Items
      PROVE  /\ item[i].state = "dispatched" => Via(i) = {item[i].deployment}
             /\ item[i].state # "dispatched" => Via(i) = {} /\ item[i].deployment = None
  <2>1. i # None
    BY ConstantsAssumption DEF Items
  <2>2. \A d \in Existing : dep[d].via = i => item[i].state = "dispatched" /\ item[i].deployment = d
    BY <2>1 DEF Linked
  <2> QED
    BY <2>2 DEF Linked
<1> QED
  BY <1>1, Zenon DEF DispatchedOnce

\* Every step keeps the links.
LEMMA LinkedStep == QueueInv /\ Linked /\ [Next]_vars => Linked'
<1> SUFFICES ASSUME QueueInv, Linked, [Next]_vars PROVE Linked'
  OBVIOUS
<1>1. TypeOK /\ TypeOK'
  BY QueueStep DEF QueueInv, TypeInv
<1>2. RowStep
  BY RowSteps
<1>3. /\ None \notin Items
      /\ \A d \in Deployments : dep[d].via \in {None} \cup Items
  <2>1. None \notin Items
    BY ConstantsAssumption DEF Items
  <2>2. \A d \in Deployments : dep[d].via \in {None} \cup Items
    BY <1>1 DEF TypeOK, DeploymentRecord
  <2> QED
    BY <2>1, <2>2
<1>4. CASE Withdraws
  <2>1. PICK S \in SUBSET Queued : Withdrawn(S)
    BY <1>4 DEF Withdraws
  <2>2. dep' = dep /\ Existing' = Existing
    BY <1>4 DEF Withdraws, RowsKept, Existing
  <2>3. \A i \in Items : /\ item[i].state = "dispatched" => i \notin S
                         /\ i \notin S => item'[i].state = item[i].state /\ item'[i].deployment = item[i].deployment
                         /\ i \in S => item'[i].state # "dispatched" /\ item'[i].deployment = None
    BY <2>1 DEF Withdrawn, Queued
  <2>4. Existing \subseteq Deployments
    BY DEF Existing
  <2> QED
    BY <1>3, <2>2, <2>3, <2>4 DEF Linked
<1>5. ASSUME NEW r \in Requesters, Arrives(r) PROVE Linked'
  <2> DEFINE j == enqueued + 1
  <2>1. /\ j \in Items /\ item'[j].state = "queued" /\ item'[j].deployment = None
        /\ \A i \in Items : i # j => item'[i] = item[i]
    BY <1>1, <1>5 DEF Arrives, TypeOK
  <2>2. dep' = dep /\ Existing' = Existing /\ Existing \subseteq Deployments
    BY <1>5 DEF Arrives, Existing
  <2>3. item[j].state = "none"
    BY <1>1, <2>1, ConstantsAssumption DEF QueueInv, Arrived, TypeOK
  <2> QED
    BY <1>3, <2>1, <2>2, <2>3 DEF Linked
<1>6. CASE StartsDirectly
  <2>1. PICK m \in Modes, plugin \in BOOLEAN, base, expected \in {None} \cup Deployments :
          InsertDeployment(m, plugin, base, None, expected)
    BY <1>6 DEF StartsDirectly
  <2>2. /\ Existing' = Existing \cup {created'} /\ dep'[created'].via = None
        /\ created' \notin Existing /\ \A d \in Deployments : d # created' => dep'[d] = dep[d]
    BY <1>1, <2>1, InsertRows
  <2>3. item' = item /\ Existing \subseteq Deployments
    BY <1>6 DEF StartsDirectly, Existing
  <2> QED
    BY <2>2, <2>3 DEF Linked
<1>7. ASSUME NEW p \in Promoters, StartsHead(p) PROVE Linked'
  <2> DEFINE i == promoter[p].item
  <2>1. i \in Items /\ i \in Queued /\ item[i].state = "queued"
    BY <1>7 DEF StartsHead, QueueInv, Claims, Queued
  <2>2. item[i].intent.mode \in Modes
    BY <1>1, <2>1 DEF TypeOK, ItemRecord, Intent
  <2>3. /\ Existing' = Existing \cup {created'} /\ dep'[created'].via = i /\ created' = created + 1
        /\ created' \notin Existing /\ \A d \in Deployments : d # created' => dep'[d] = dep[d]
    BY <1>1, <1>7, <2>2, InsertRows DEF StartsHead
  <2>4. /\ item'[i].state = "dispatched" /\ item'[i].deployment = created'
        /\ \A j \in Items : j # i => item'[j] = item[j]
    BY <1>1, <1>7, <2>1, <2>3 DEF StartsHead, SettleDispatched, Settled, TypeOK
  <2>5. \A d \in Existing : d \in Deployments /\ dep[d].via # i
    BY <1>3, <2>1 DEF Linked, Existing
  <2> HIDE DEF i
  <2> QED
    BY <1>3, <2>1, <2>3, <2>4, <2>5 DEF Linked
<1>8. ASSUME NEW d \in Deployments, Ends(d) PROVE Linked'
  <2>1. item' = item /\ Existing' = Existing /\ Existing \subseteq Deployments
    BY <1>8 DEF Ends, Existing
  <2>2. \A e \in Deployments : dep'[e].via = dep[e].via
    BY <1>1, <1>8 DEF Ends, TypeOK, DeploymentRecord
  <2> QED
    BY <2>1, <2>2 DEF Linked
<1> QED
  BY <1>2, <1>4, <1>5, <1>6, <1>7, <1>8 DEF RowStep

\* Whatever promoters, crashes and retries do, an item becomes at most one
\* Deployment, the one it names, and counts as dispatched only then.
THEOREM OneDeploymentPerItem == Spec => []DispatchedOnce
<1>1. Init => QueueInv /\ Linked
  BY InitTypeInv, InitQueue, InitLinked DEF QueueInv
<1>2. QueueInv /\ Linked /\ [Next]_vars => QueueInv' /\ Linked'
  BY QueueStep, LinkedStep
<1>3. QueueInv /\ Linked => DispatchedOnce
  BY LinkedSuffices DEF QueueInv, TypeInv
<1> QED
  BY <1>1, <1>2, <1>3, PTL DEF Spec

-----------------------------------------------------------------------------
\* What one step may do when it starts a Deployment.
StartStep ==
  created' # created /\ RequiresEnvironmentLease(dep'[created'].mode) =>
    /\ dep'[created'].via = QueueHead
    /\ QueueHead # None => item'[QueueHead].state = "dispatched"

\* requireQueueHead keeps direct callers behind whoever waits, and the row lock
\* makes the promoted item the head.
LEMMA StartsInTurn == QueueInv /\ [Next]_vars => StartStep
<1> SUFFICES ASSUME QueueInv, [Next]_vars, created' # created, RequiresEnvironmentLease(dep'[created'].mode)
             PROVE  /\ dep'[created'].via = QueueHead
                    /\ QueueHead # None => item'[QueueHead].state = "dispatched"
  BY DEF StartStep
<1>1. TypeOK /\ Claims
  BY DEF QueueInv, TypeInv
<1>2. CASE StartsDirectly
  <2>1. PICK m \in Modes, plugin \in BOOLEAN, base, expected \in {None} \cup Deployments :
          CreateVerdict(m, expected, None) = "ok" /\ InsertDeployment(m, plugin, base, None, expected)
    BY <1>2 DEF StartsDirectly
  <2>2. dep'[created'].via = None /\ dep'[created'].mode = m
    BY <1>1, <2>1, InsertRows
  <2>3. QueueHead = None
    BY <2>1, <2>2 DEF CreateVerdict, OutOfTurn
  <2> QED
    BY <2>2, <2>3
<1>3. ASSUME NEW p \in Promoters, StartsHead(p)
      PROVE  dep'[created'].via = QueueHead /\ item'[QueueHead].state = "dispatched"
  <2> DEFINE i == promoter[p].item
  <2>1. i \in Items /\ i # None
    BY <1>3 DEF StartsHead, QueueInv, Claims, Queued
  <2>2. i = QueueHead
    BY <1>1, <2>1, ClaimsSuffice DEF ClaimIsHead
  <2>3. item[i].intent.mode \in Modes
    BY <1>1, <2>1 DEF TypeOK, ItemRecord, Intent
  <2>4. dep'[created'].via = i
    BY <1>1, <1>3, <2>3, InsertRows DEF StartsHead
  <2>5. item'[i].state = "dispatched"
    BY <1>1, <1>3, <2>1 DEF StartsHead, SettleDispatched, Settled, TypeOK
  <2> QED
    BY <2>2, <2>4, <2>5
<1> QED
  BY <1>2, <1>3, RowSteps DEF RowStep, Withdraws, RowsKept, Arrives, Ends

\* No caller overtakes a request that waits, and promoters serve the queue in
\* the order of arrival (requireQueueHead, ClaimHead's row lock).
THEOREM FirstComeFirstServed == Spec => NoOvertaking
<1>1. Init => QueueInv
  BY InitTypeInv, InitQueue DEF QueueInv
<1>2. QueueInv /\ [Next]_vars =>
        [created' # created /\ RequiresEnvironmentLease(dep'[created'].mode) =>
           /\ dep'[created'].via = QueueHead
           /\ QueueHead # None => item'[QueueHead].state = "dispatched"]_vars
  BY StartsInTurn DEF StartStep
<1> QED
  BY <1>1, <1>2, QueueStep, PTL DEF Spec, NoOvertaking
-----------------------------------------------------------------------------
(***************************************************************************)
(* The queue implements QueueContract.  Beyond the invariants above, what  *)
(* waits must need the lease, or a promotion could start beside one.       *)
(***************************************************************************)
Waitable ==
  /\ \A r \in Requesters : requester[r].pc = "enqueue" => MayQueue(requester[r].intent)
  /\ \A i \in Queued : item[i].intent.mode \in {"deploy", "rollback"}
ContractInv == QueueInv /\ Exclusion /\ Linked /\ Waitable

\* Nobody waits or asks to wait initially.
LEMMA InitWaitable == Init => Waitable
BY DEF Init, Waitable, Queued, IdleRequester, NoItem

\* What a step of a caller's request does to its record.
Requesting(r) ==
  \/ EndRequest(r)
  \/ \E in \in Intents, pc \in {"enqueue", "resolve"}, expected \in {None, stateHead} :
       SetRequester(r, pc, in, expected, None) /\ (pc = "enqueue" => MayQueue(in))
  \/ SetRequester(r, "admitted", requester[r].intent, requester[r].expected,
                  ReferenceDeployment(requester[r].intent.mode))
  \/ /\ MayQueue(requester[r].intent)
     /\ SetRequester(r, "enqueue", requester[r].intent, requester[r].expected, None)

\* A request is asked, resolved, told to wait, or over; nobody else touches it.
LEMMA RequesterSteps == [Next]_vars => UNCHANGED requester \/ \E r \in Requesters : Requesting(r)
<1> SUFFICES ASSUME [Next]_vars PROVE UNCHANGED requester \/ \E r \in Requesters : Requesting(r)
  OBVIOUS
<1>1. ASSUME NEW r \in Requesters, RequestStep(r) PROVE UNCHANGED requester \/ Requesting(r)
  <2>1. ASSUME BusyAnswer(r) PROVE Requesting(r)
    BY <2>1 DEF BusyAnswer, Requesting
  <2>2. ASSUME NEW in \in Intents, Request(r, in) PROVE Requesting(r)
    <3> DEFINE verdict == IF MayQueue(in) THEN Availability(None) ELSE "ok"
               pc == IF verdict = "busy" THEN "enqueue" ELSE "resolve"
               expected == IF in.expectBase THEN stateHead ELSE None
    <3>1. /\ pc \in {"enqueue", "resolve"} /\ (pc = "enqueue" => MayQueue(in))
          /\ expected \in {None, stateHead}
      OBVIOUS
    <3>2. SetRequester(r, pc, in, expected, None)
      BY <2>2 DEF Request
    <3> HIDE DEF pc, expected
    <3> QED
      BY <3>1, <3>2 DEF Requesting
  <2>3. ASSUME NEW in \in Intents, DestroyEnvironment(r, in) PROVE UNCHANGED requester \/ Requesting(r)
    BY <2>3 DEF DestroyEnvironment, Requesting
  <2>4. CASE ResolveRequest(r)
    BY <2>4 DEF ResolveRequest, Requesting
  <2>5. CASE EndRequest(r)
    BY <2>5 DEF Requesting
  <2> QED
    BY <1>1, <2>1, <2>2, <2>3, <2>4, <2>5
    DEF RequestStep, CoreBusyForRequest, RefuseRequest, CreateRequested, EnqueueDeployment
<1>2. ASSUME NEW p \in Promoters, PromotionRuns(p) \/ AbortPromotion(p) PROVE UNCHANGED requester
  BY <1>2 DEF PromotionRuns, ClaimHead, ExpireHead, CheckAvailable, HaltOrProceed, ResolveItem, ResolveFails,
     CreateQueued, LockTimeout, AbortPromotion, promoterOnly
<1>3. ASSUME NEW i \in Items, ItemStep(i) PROVE UNCHANGED requester
  BY <1>3
  DEF ItemStep, CancelDeploymentQueueItem, ExpireDeploymentQueueItem, ItemOverdue, queueOnly, processVars
<1>4. ASSUME NEW d \in Deployments, DeploymentStep(d) PROVE UNCHANGED requester
  BY <1>4
  DEF DeploymentStep, ReserveRunnerDispatch, BeginDeploymentDispatch, WindowCloses, RunnerStarts, RunnerStops,
      RunnerMoves, RunnerResult, FailWithoutProof, Complete, LateCompletion, RenewDeploymentLease,
      AcknowledgeBegins, lifeOnly, ackOnly, processVars
<1>5. CASE UNCHANGED vars \/ TryStartObservation \/ LeaseExpires \/ AcknowledgeCommits \/ AcknowledgeAborts
  BY <1>5
  DEF vars, TryStartObservation, LeaseExpires, AcknowledgeCommits, AcknowledgeAborts, lifeOnly, ackOnly, processVars
<1> QED
  BY <1>1, <1>2, <1>3, <1>4, <1>5 DEF Next

\* Only a request that may wait goes on to enqueue.
LEMMA RequestersWaitable ==
  ASSUME QueueInv, Waitable, [Next]_vars
  PROVE  \A r \in Requesters : requester'[r].pc = "enqueue" => MayQueue(requester'[r].intent)
<1>1. TypeOK
  BY DEF QueueInv, TypeInv
<1>2. CASE UNCHANGED requester
  BY <1>2 DEF Waitable
<1>3. ASSUME NEW r \in Requesters, Requesting(r)
      PROVE  \A q \in Requesters : requester'[q].pc = "enqueue" => MayQueue(requester'[q].intent)
  <2>1. /\ requester'[r].pc = "enqueue" => MayQueue(requester'[r].intent)
        /\ \A q \in Requesters : q # r => requester'[q] = requester[q]
    BY <1>1, <1>3 DEF Requesting, SetRequester, EndRequest, TypeOK
  <2> QED
    BY <2>1 DEF Waitable
<1> QED
  BY <1>2, <1>3, RequesterSteps

\* The queue changes by one arrival, by the start of its head, or by withdrawals.
LEMMA QueuedRows ==
  ASSUME QueueInv
  PROVE  /\ \A S \in SUBSET Queued : Withdrawn(S) => Queued' = Queued \ S
         /\ \A r \in Requesters : Arrives(r) => Queued' = Queued \cup {enqueued + 1}
         /\ \A p \in Promoters : StartsHead(p) =>
              promoter[p].item \in Queued /\ Queued' = Queued \ {promoter[p].item}
<1>1. TypeOK
  BY DEF QueueInv, TypeInv
<1>2. ASSUME NEW S \in SUBSET Queued, Withdrawn(S) PROVE Queued' = Queued \ S
  BY <1>2 DEF Withdrawn, Queued
<1>3. ASSUME NEW r \in Requesters, Arrives(r) PROVE Queued' = Queued \cup {enqueued + 1}
  BY <1>1, <1>3 DEF Arrives, Queued, TypeOK
<1>4. ASSUME NEW p \in Promoters, StartsHead(p)
      PROVE  promoter[p].item \in Queued /\ Queued' = Queued \ {promoter[p].item}
  BY <1>1, <1>4 DEF StartsHead, SettleDispatched, Settled, Queued, TypeOK, QueueInv, Claims
<1> QED
  BY <1>2, <1>3, <1>4

\* What waits stays what it was when it was enqueued.
LEMMA WaitableStep == QueueInv /\ Waitable /\ [Next]_vars => Waitable'
<1> SUFFICES ASSUME QueueInv, Waitable, [Next]_vars PROVE Waitable'
  OBVIOUS
<1>1. TypeOK
  BY DEF QueueInv, TypeInv
<1>2. \A i \in Queued' : item'[i].intent.mode \in {"deploy", "rollback"}
  <2>1. CASE Withdraws
    <3>1. PICK S \in SUBSET Queued : Withdrawn(S)
      BY <2>1 DEF Withdraws
    <3> QED
      BY <3>1, QueuedRows DEF Withdrawn, Queued, Waitable
  <2>2. ASSUME NEW r \in Requesters, Arrives(r)
        PROVE \A i \in Queued' : item'[i].intent.mode \in {"deploy", "rollback"}
    <3>1. MayQueue(requester[r].intent)
      BY <2>2 DEF Arrives, Waitable
    <3> QED
      BY <1>1, <2>2, <3>1, QueuedRows DEF Arrives, Waitable, MayQueue, TypeOK, Queued
  <2>3. ASSUME NEW p \in Promoters, StartsHead(p)
        PROVE \A i \in Queued' : item'[i].intent.mode \in {"deploy", "rollback"}
    <3>1. Queued' = Queued \ {promoter[p].item}
      BY <2>3, QueuedRows
    <3>2. \A i \in Items : i # promoter[p].item => item'[i] = item[i]
      BY <1>1, <2>3 DEF StartsHead, SettleDispatched, TypeOK
    <3> QED
      BY <3>1, <3>2 DEF Waitable, Queued
  <2>4. CASE item' = item
    BY <2>4 DEF Waitable, Queued
  <2> QED
    BY <2>1, <2>2, <2>3, <2>4, RowSteps DEF RowStep, StartsDirectly, Ends
<1> QED
  BY <1>2, RequestersWaitable DEF Waitable, MayQueue

\* A start seen through the mapping: nothing ran, and now the new Deployment does.
LEMMA StartMaps ==
  ASSUME ContractInv, NEW m \in Modes, NEW plugin, NEW base, NEW i, NEW expected,
         CreateVerdict(m, expected, i) = "ok", InsertDeployment(m, plugin, base, i, expected)
  PROVE  /\ ~(execHead \in Executing) /\ created' = created + 1
         /\ execHead' = created' /\ execHead' \in Executing' /\ dep'[execHead'].mode = m
         /\ Contract!Runs(RequiresEnvironmentLease(m))
<1>1. TypeOK
  BY DEF ContractInv, QueueInv, TypeInv
<1>2. execHead \notin Executing
  BY VerdictExclusive DEF HeadExecuting
<1>3. /\ created' = created + 1 /\ execHead' = created' /\ created' \in Deployments
      /\ created' \in Existing' /\ dep'[created'].status = "executing" /\ dep'[created'].mode = m
  BY <1>1, InsertRows
<1>4. execHead' \in Executing'
  BY <1>3 DEF Executing
<1> QED
  BY <1>2, <1>3, <1>4 DEF Contract!Runs, RequiresEnvironmentLease

\* Every step of the Environment is a step of the contract or invisible to it.
LEMMA ContractStep == ContractInv /\ [Next]_vars => [Contract!Next]_(Contract!contractVars)
<1> SUFFICES ASSUME ContractInv, [Next]_vars PROVE Contract!Next \/ UNCHANGED Contract!contractVars
  OBVIOUS
<1> DEFINE running == IF execHead \in Executing THEN execHead ELSE None
           leased == execHead \in Executing /\ RequiresEnvironmentLease(dep[execHead].mode)
           became == [i \in Items |-> item[i].deployment]
<1>1. TypeOK /\ QueueInv /\ Linked
  BY DEF ContractInv, QueueInv, TypeInv
<1>2. ASSUME UNCHANGED <<created, dep, execHead>> PROVE UNCHANGED <<running, leased>>
  BY <1>2 DEF Executing, Existing, RequiresEnvironmentLease
<1>3. CASE Withdraws
  <2>1. PICK S \in SUBSET Queued : Withdrawn(S)
    BY <1>3 DEF Withdraws
  <2>2. Queued' = Queued \ S
    BY <1>1, <2>1, QueuedRows
  <2>3. became' = became
    <3>1. \A i \in Items : item'[i].deployment = item[i].deployment
      BY <1>1, <2>1 DEF Withdrawn, Linked, Queued
    <3> QED
      BY <3>1
  <2>4. UNCHANGED <<enqueued, created, running, leased>>
    BY <1>2, <1>3 DEF Withdraws, RowsKept
  <2>5. CASE S = {}
    BY <2>2, <2>3, <2>4, <2>5 DEF Contract!contractVars
  <2>6. CASE S # {}
    <3>1. PICK i \in S : i \in Queued
      BY <2>6
    <3>2. Queued' \subseteq Queued /\ i \notin Queued'
      BY <2>2, <3>1
    <3> QED
      BY <2>3, <2>4, <3>1, <3>2 DEF Contract!Next, Contract!Withdraw
  <2> QED
    BY <2>5, <2>6
<1>4. ASSUME NEW r \in Requesters, Arrives(r) PROVE Contract!Arrive
  <2>1. Queued' = Queued \cup {enqueued + 1} /\ enqueued' = enqueued + 1
    BY <1>1, <1>4, QueuedRows DEF Arrives
  <2>2. enqueued < MaxItems
    BY <1>1, <1>4, ConstantsAssumption DEF Arrives, Items, TypeOK
  <2>3. became' = became
    <3>1. item[enqueued + 1].state = "none" /\ item[enqueued + 1].deployment = None
      BY <1>1, <1>4, ConstantsAssumption DEF Arrives, QueueInv, Arrived, Linked, TypeOK
    <3>2. \A i \in Items : item'[i].deployment = item[i].deployment
      BY <1>1, <1>4, <3>1 DEF Arrives, TypeOK
    <3> QED
      BY <3>2
  <2>4. UNCHANGED <<created, running, leased>>
    BY <1>2, <1>4 DEF Arrives
  <2> QED
    BY <2>1, <2>2, <2>3, <2>4 DEF Contract!Arrive
<1>5. CASE StartsDirectly
  <2>1. PICK m \in Modes, plugin \in BOOLEAN, base, expected \in {None} \cup Deployments :
          CreateVerdict(m, expected, None) = "ok" /\ InsertDeployment(m, plugin, base, None, expected)
    BY <1>5 DEF StartsDirectly
  <2>2. Contract!Runs(RequiresEnvironmentLease(m)) /\ RequiresEnvironmentLease(m) \in BOOLEAN
    BY <2>1, StartMaps DEF RequiresEnvironmentLease
  <2>3. RequiresEnvironmentLease(m) => Queued = {}
    BY <1>1, <2>1, QueueHeadTyped DEF CreateVerdict, OutOfTurn
  <2>4. UNCHANGED <<enqueued, Queued, became>>
    BY <1>5 DEF StartsDirectly, Queued
  <2> QED
    BY <2>2, <2>3, <2>4 DEF Contract!Next, Contract!StartDirect
<1>6. ASSUME NEW p \in Promoters, StartsHead(p) PROVE Contract!StartOldest
  <2> DEFINE i == promoter[p].item
  <2>1. i \in Queued /\ Queued' = Queued \ {i}
    BY <1>1, <1>6, QueuedRows
  <2>2. \A j \in Queued : i <= j
    BY <1>6 DEF StartsHead, ContractInv, QueueInv, Claims
  <2>3. item[i].intent.mode \in Modes /\ RequiresEnvironmentLease(item[i].intent.mode)
    BY <2>1 DEF ContractInv, Waitable, Modes, RequiresEnvironmentLease
  <2>4. Contract!Runs(TRUE) /\ created' = created + 1
    BY <1>6, <2>3, StartMaps DEF StartsHead
  <2>5. became' = [became EXCEPT ![i] = created + 1]
    BY <1>1, <1>6, <2>1 DEF StartsHead, SettleDispatched, Settled, TypeOK, Queued
  <2>6. enqueued' = enqueued
    BY <1>6 DEF StartsHead
  <2> HIDE DEF i
  <2> QED
    BY <2>1, <2>2, <2>4, <2>5, <2>6 DEF Contract!StartOldest
<1>7. ASSUME NEW d \in Deployments, Ends(d) PROVE Contract!Finish
  <2>1. d = execHead /\ execHead \in Executing /\ d # None
    BY <1>7, ConstantsAssumption DEF Ends, ContractInv, Exclusion, OneExecuting, Deployments
  <2>2. execHead' = execHead /\ dep'[d].status # "executing"
    BY <1>1, <1>7 DEF Ends, TypeOK
  <2>3. execHead' \notin Executing'
    BY <2>1, <2>2 DEF Executing
  <2>4. UNCHANGED <<enqueued, created, Queued, became>>
    BY <1>7 DEF Ends, Queued
  <2> QED
    BY <2>1, <2>3, <2>4 DEF Contract!Finish
<1> QED
  BY <1>1, <1>3, <1>4, <1>5, <1>6, <1>7, RowSteps DEF RowStep, Contract!Next

\* The empty Environment is an empty queue.
LEMMA ContractInit == Init => Contract!Init
<1> SUFFICES ASSUME Init PROVE Contract!Init
  OBVIOUS
<1>1. Queued = {}
  BY DEF Init, Queued, NoItem
<1>2. Executing = {}
  BY DEF Init, Executing, Existing, NoDeployment
<1>3. [i \in Items |-> item[i].deployment] = [i \in Items |-> None]
  BY DEF Init, NoItem
<1> QED
  BY <1>1, <1>2, <1>3 DEF Init, Contract!Init, Contract!Requests, Items

\* Seen from outside, the Environment is a queue that serves one Deployment at a
\* time, first come first served and each request at most once, for any number of
\* callers, promoters, items and Deployments.
THEOREM QueueImplementsContract == Spec => ImplementsContract
<1>1. Init => ContractInv
  BY InitTypeInv, InitQueue, InitExclusion, InitLinked, InitWaitable DEF ContractInv, QueueInv
<1>2. ContractInv /\ [Next]_vars => ContractInv'
  BY QueueStep, ExclusionStep, LinkedStep, WaitableStep DEF ContractInv, QueueInv, ExclusionInv
<1> QED
  BY <1>1, <1>2, ContractInit, ContractStep, PTL DEF Spec, ImplementsContract, Contract!Spec
-----------------------------------------------------------------------------
(***************************************************************************)
(* What a promoted request and a Runner may rely on: Runners of one        *)
(* Environment are kept apart, whatever is acknowledged late or fails      *)
(* halfway, and a request that waited starts from what it was promised.    *)
(* Both rest on what a step does to the rows.                              *)
(***************************************************************************)
(***************************************************************************)
(* Runners are kept apart.  The fence works because the newest Deployment  *)
(* is the executing head, and the state head too unless it is a plan       *)
(* (Heads); because a plugin operation is never a plan (PluginModes); and  *)
(* because what is known of a Runner is true, and an unreconciled outcome  *)
(* keeps its slot (Evidence).                                              *)
(***************************************************************************)
Heads ==
  /\ execHead = created
  /\ created # 0 /\ ~IsPlanDeployment(dep[created].mode) => stateHead = created

PluginMode(plugin, m) == plugin => m \in {"deploy", "rollback"}
PluginModes == \A d \in Deployments : PluginMode(dep[d].plugin, dep[d].mode)
PluginIntents == \A r \in Requesters : PluginMode(requester[r].intent.plugin, requester[r].intent.mode)

Evidence ==
  \A d \in Deployments :
    /\ d \in Existing => dep[d].status # "none"
    /\ d \in dispatched => d \in Existing
    /\ runner[d] # "none" => d \in dispatched
    /\ d \in stopProven => runner[d] = "stopped"
    /\ d \in Existing /\ dep[d].status = "succeeded" => d \in stopProven
    /\ OutcomeUnreconciled(d) => d \in reserved

\* Nothing follows a plugin operation or an observation whose outcome is unreconciled.
PluginFence == \A d \in Existing : PluginDispatched(d) /\ OutcomeUnreconciled(d) => created = d
\* An observation starts only when every earlier outcome is reconciled.
ObservedAlone == \A o, d \in Existing : dep[o].mode = "observation" /\ d < o => ~OutcomeUnreconciled(d)

Fences == Heads /\ PluginModes /\ Evidence /\ PluginFence /\ ObservedAlone
FenceInv == QueueInv /\ Exclusion /\ Fences /\ PluginIntents /\ AcknowledgedNeverDispatched

\* Nothing exists, runs or waits initially.
LEMMA InitFence == Init => Fences /\ PluginIntents /\ AcknowledgedNeverDispatched
<1> SUFFICES ASSUME Init PROVE Fences /\ PluginIntents /\ AcknowledgedNeverDispatched
  OBVIOUS
<1>1. Existing = {}
  BY ConstantsAssumption DEF Init, Existing, Deployments
<1>2. PluginIntents /\ AcknowledgedNeverDispatched
  BY DEF Init, PluginIntents, PluginMode, AcknowledgedNeverDispatched, IdleRequester, NoIntent
<1>3. Heads /\ PluginModes
  BY DEF Init, Heads, PluginModes, PluginMode, NoDeployment
<1>4. Evidence /\ PluginFence /\ ObservedAlone
  BY <1>1 DEF Init, Evidence, PluginFence, ObservedAlone, OutcomeUnreconciled
<1> QED
  BY <1>2, <1>3, <1>4 DEF Fences

\* The invariant implies what the runs check.
LEMMA FencesSuffice == FenceInv => RunnersApart
<1> SUFFICES ASSUME FenceInv PROVE RunnersApart
  OBVIOUS
<1> USE DEF FenceInv, Fences
<1>1. ASSUME NEW d \in Existing, runner[d] = "running", d \notin acknowledged PROVE OutcomeUnreconciled(d)
  BY <1>1 DEF Evidence, OutcomeUnreconciled, Existing
<1>2. PluginRunnerExclusive
  BY <1>1 DEF PluginRunnerExclusive, PluginFence
<1>3. RunnerSlotHeld
  BY <1>1 DEF RunnerSlotHeld, Evidence, Existing
<1>4. ObservationReadsAlone
  <2> SUFFICES ASSUME NEW o \in Existing, NEW d \in Existing,
                      dep[o].mode = "observation", runner[o] = "running", o \notin acknowledged,
                      runner[d] = "running", d \notin acknowledged
               PROVE  d = o
    BY DEF ObservationReadsAlone
  <2>1. created = o
    BY <1>1 DEF PluginFence, PluginDispatched
  <2>2. ~(d < o)
    BY <1>1 DEF ObservedAlone
  <2>3. d <= created /\ d \in Nat /\ created \in Nat
    BY <2>1, ConstantsAssumption DEF Existing, Deployments
  <2> QED
    BY <2>1, <2>2, <2>3
<1> QED
  BY <1>2, <1>3, <1>4 DEF RunnersApart

\* CreateDeployment starts nothing behind an unreconciled plugin operation or
\* observation: its failed head is fenced by the state head or by the held slot.
LEMMA InsertFenced ==
  ASSUME QueueInv, Exclusion, Fences,
         NEW m \in Modes, NEW plugin \in BOOLEAN, NEW base, NEW i, NEW expected, PluginMode(plugin, m),
         CreateVerdict(m, expected, i) = "ok", InsertDeployment(m, plugin, base, i, expected),
         UNCHANGED <<dispatched, stopProven, acknowledged, runner>>, reserved \subseteq reserved',
         m = "observation" => ~UncertainOwner
  PROVE  Fences'
<1>1. TypeOK
  BY DEF QueueInv, TypeInv
<1>2. /\ created' = created + 1 /\ created \in Nat /\ created' \in Deployments
      /\ execHead' = created' /\ created' \notin Existing /\ Existing' = Existing \cup {created'}
      /\ dep'[created'].mode = m /\ dep'[created'].status = "executing"
      /\ \A d \in Deployments : d # created' => dep'[d] = dep[d]
  BY <1>1, InsertRows
<1>3. dep'[created'].plugin = plugin /\ (~IsPlanDeployment(m) => stateHead' = created')
  BY <1>1, <1>2 DEF InsertDeployment, TypeOK
<1>4. \A d \in Existing : d \in Deployments /\ d # created' /\ d <= created /\ d \in Nat
  BY <1>2, ConstantsAssumption DEF Existing, Deployments
<1>5. created' \notin dispatched
  BY <1>2 DEF Fences, Evidence
<1>6. Heads'
  BY <1>2, <1>3 DEF Heads
<1>7. PluginModes'
  BY <1>2, <1>3 DEF Fences, PluginModes, PluginMode
<1>8. Evidence'
  BY <1>2, <1>4, <1>5 DEF Fences, Evidence, OutcomeUnreconciled
<1>9. ASSUME NEW d \in Existing, OutcomeUnreconciled(d) PROVE dep[d].status = "failed" /\ d \in reserved
  <2>1. d \in Deployments /\ dep[d].status \notin {"none", "succeeded"} /\ d \in reserved
    BY <1>4, <1>9 DEF Fences, Evidence, OutcomeUnreconciled
  <2>2. d \notin Executing
    BY VerdictExclusive DEF Exclusion, OneExecuting, HeadExecuting
  <2>3. dep[d].status \in {"none", "executing", "succeeded", "failed"}
    BY <1>1, <2>1 DEF TypeOK, DeploymentRecord, Statuses
  <2> QED
    BY <2>1, <2>2, <2>3 DEF Executing
<1>10. ASSUME NEW d \in Existing, OutcomeUnreconciled(d) PROVE ~PluginDispatched(d)
  <2> SUFFICES ASSUME PluginDispatched(d) PROVE FALSE
    OBVIOUS
  <2>1. created = d /\ dep[d].status = "failed" /\ d \in reserved /\ d \in Deployments
    BY <1>4, <1>9, <1>10 DEF Fences, PluginFence
  <2>2. dep[d].mode # "observation"
    BY <2>1 DEF CreateVerdict, ObservationHeld
  <2>3. dep[d].plugin /\ dep[d].mode \in {"deploy", "rollback"}
    BY <2>1, <2>2 DEF PluginDispatched, Fences, PluginModes, PluginMode
  <2>4. stateHead = d /\ d # 0
    BY <2>1, <2>3, ConstantsAssumption DEF Fences, Heads, IsPlanDeployment, Deployments
  <2>5. Fenced
    BY <1>10, <2>1, <2>4 DEF Fenced, BlocksReplacement
  <2> QED
    BY <2>5 DEF CreateVerdict
<1>11. ASSUME NEW d \in Existing' PROVE OutcomeUnreconciled(d)' => d \in Existing /\ OutcomeUnreconciled(d)
  BY <1>2, <1>5 DEF OutcomeUnreconciled
<1>12. PluginFence'
  <2> SUFFICES ASSUME NEW d \in Existing', PluginDispatched(d)', OutcomeUnreconciled(d)' PROVE FALSE
    BY DEF PluginFence
  <2>1. d \in Existing /\ OutcomeUnreconciled(d) /\ dep'[d] = dep[d]
    BY <1>2, <1>4, <1>11
  <2> QED
    BY <1>10, <2>1 DEF PluginDispatched
<1>13. ObservedAlone'
  <2> SUFFICES ASSUME NEW o \in Existing', NEW d \in Existing', dep'[o].mode = "observation", d < o,
                      OutcomeUnreconciled(d)'
               PROVE  FALSE
    BY DEF ObservedAlone
  <2>1. d \in Existing /\ OutcomeUnreconciled(d)
    BY <1>11
  <2>2. CASE o \in Existing
    BY <1>2, <1>4, <2>1, <2>2 DEF Fences, ObservedAlone
  <2>3. CASE o = created'
    BY <1>2, <1>9, <2>1, <2>3 DEF UncertainOwner
  <2> QED
    BY <1>2, <2>2, <2>3
<1> QED
  BY <1>6, <1>7, <1>8, <1>12, <1>13 DEF Fences

\* Steps that dispatch nothing and start nothing only reconcile outcomes.
LEMMA Reconciling ==
  ASSUME TypeOK, Fences, UNCHANGED <<created, execHead, stateHead, dispatched>>,
         stopProven \subseteq stopProven', acknowledged \subseteq acknowledged',
         \A d \in Deployments : dep'[d].mode = dep[d].mode /\ dep'[d].plugin = dep[d].plugin,
         Evidence'
  PROVE  Fences'
<1>1. Existing' = Existing /\ Existing \subseteq Deployments
  BY DEF Existing
<1>2. \A d \in Deployments : OutcomeUnreconciled(d)' => OutcomeUnreconciled(d)
  BY DEF OutcomeUnreconciled
<1>3. \A d \in Deployments : PluginDispatched(d)' <=> PluginDispatched(d)
  BY DEF PluginDispatched
<1>4. PluginModes'
  BY DEF Fences, PluginModes, PluginMode
<1>5. Heads'
  <2>1. created # 0 => created \in Deployments
    BY ConstantsAssumption DEF TypeOK, Deployments
  <2> QED
    BY <2>1 DEF Fences, Heads
<1>6. PluginFence' /\ ObservedAlone'
  BY <1>1, <1>2, <1>3 DEF Fences, PluginFence, ObservedAlone
<1> QED
  BY <1>4, <1>5, <1>6 DEF Fences

\* A slot is given up only for an attempt that is over or was never made.
LEMMA ReleasedKeeps ==
  ASSUME NEW d, NEW proofs, NEW e, e \in reserved
  PROVE  e \in Released(d, proofs) \/ (e = d /\ (d \notin dispatched \/ d \in proofs))
BY DEF Released

\* The end of a Deployment, with its Runner's stop proven or not.
LEMMA CompleteFenced ==
  ASSUME QueueInv, Fences, NEW d \in Executing, NEW status \in {"succeeded", "failed"}, NEW proofs,
         Complete(d, status, proofs), stopProven \subseteq proofs, proofs \subseteq stopProven \cup {d},
         d \in proofs \ stopProven => runner[d] = "stopped", status = "succeeded" => d \in proofs
  PROVE  Fences'
<1>1. TypeOK /\ d \in Deployments /\ d \in Existing
  BY DEF QueueInv, TypeInv, Executing, Existing
<1>2. /\ UNCHANGED <<created, execHead, stateHead, dispatched, acknowledged, runner>>
      /\ stopProven' = proofs /\ reserved' = Released(d, proofs \cup acknowledged)
  BY DEF Complete, lifeOnly
<1>3. /\ dep'[d].status = status /\ \A e \in Deployments : e # d => dep'[e] = dep[e]
      /\ \A e \in Deployments : dep'[e].mode = dep[e].mode /\ dep'[e].plugin = dep[e].plugin
  BY <1>1 DEF Complete, TypeOK, DeploymentRecord
<1>4. Existing' = Existing
  BY <1>2 DEF Existing
<1>5. Evidence'
  <2> SUFFICES ASSUME NEW e \in Deployments
               PROVE  /\ e \in Existing' => dep'[e].status # "none"
                      /\ e \in dispatched' => e \in Existing'
                      /\ runner'[e] # "none" => e \in dispatched'
                      /\ e \in stopProven' => runner'[e] = "stopped"
                      /\ e \in Existing' /\ dep'[e].status = "succeeded" => e \in stopProven'
                      /\ OutcomeUnreconciled(e)' => e \in reserved'
    BY DEF Evidence
  <2>1. OutcomeUnreconciled(e)' => e \in reserved /\ e \in dispatched /\ e \notin proofs \cup acknowledged
    BY <1>2 DEF OutcomeUnreconciled, Fences, Evidence
  <2>2. OutcomeUnreconciled(e)' => e \in reserved'
    BY <1>2, <2>1, ReleasedKeeps
  <2> QED
    BY <1>2, <1>3, <1>4, <2>2 DEF Fences, Evidence
<1> QED
  BY <1>1, <1>2, <1>3, <1>5, Reconciling

\* The other steps of a Deployment's life and its acknowledgement.
LEMMA LifeFenced ==
  ASSUME QueueInv, Exclusion, Fences, NEW d \in Deployments, DeploymentStep(d)
  PROVE  Fences'
<1>1. TypeOK
  BY DEF QueueInv, TypeInv
<1> USE DEF lifeOnly
<1>2. CASE ReserveRunnerDispatch(d)
  <2>1. Evidence'
    BY <1>2 DEF ReserveRunnerDispatch, Fences, Evidence, Existing, OutcomeUnreconciled
  <2> QED
    BY <1>1, <1>2, <2>1, Reconciling DEF ReserveRunnerDispatch
<1>3. CASE BeginDeploymentDispatch(d)
  <2>1. /\ d \in Executing /\ d \in reserved /\ dispatched' = dispatched \cup {d}
        /\ UNCHANGED <<created, execHead, stateHead, dep, stopProven, acknowledged, reserved, runner>>
    BY <1>3 DEF BeginDeploymentDispatch
  <2>2. d = created /\ d \in Existing /\ Existing' = Existing
    BY <2>1 DEF Exclusion, OneExecuting, Fences, Heads, Executing, Existing
  <2>3. Heads' /\ PluginModes'
    BY <2>1 DEF Fences, Heads, PluginModes
  <2>4. Evidence'
    BY <2>1, <2>2 DEF Fences, Evidence, OutcomeUnreconciled
  <2>5. PluginFence'
    BY <2>1, <2>2 DEF Fences, PluginFence, PluginDispatched, OutcomeUnreconciled
  <2>6. ObservedAlone'
    <3>1. \A o \in Existing : o \in Nat /\ d \in Nat /\ o <= d
      BY <2>2, ConstantsAssumption DEF Existing, Deployments
    <3>2. \A o \in Existing : ~(d < o)
      BY <3>1
    <3> QED
      BY <2>1, <2>2, <3>2 DEF Fences, ObservedAlone, OutcomeUnreconciled
  <2> QED
    BY <2>3, <2>4, <2>5, <2>6 DEF Fences
<1>4. CASE RunnerStarts(d) \/ RunnerStops(d)
  <2>1. /\ UNCHANGED <<created, execHead, stateHead, dep, dispatched, stopProven, acknowledged, reserved>>
        /\ d \in dispatched /\ runner[d] # "stopped"
        /\ \A e \in Deployments : e # d => runner'[e] = runner[e]
    BY <1>1, <1>4 DEF RunnerStarts, RunnerStops, RunnerMoves, TypeOK
  <2>2. Evidence'
    BY <2>1 DEF Fences, Evidence, Existing, OutcomeUnreconciled
  <2> QED
    BY <1>1, <2>1, <2>2, Reconciling
<1>5. CASE RunnerResult(d)
  BY <1>5, CompleteFenced DEF RunnerResult
<1>6. CASE FailWithoutProof(d)
  <2>1. d \in Executing /\ Complete(d, "failed", stopProven)
    BY <1>6 DEF FailWithoutProof
  <2> QED
    BY <2>1, CompleteFenced
<1>7. CASE LateCompletion(d)
  <2>1. /\ UNCHANGED <<created, execHead, stateHead, dep, dispatched, acknowledged, runner>>
        /\ stopProven' = stopProven \cup {d} /\ runner[d] = "stopped"
        /\ reserved' = Released(d, stopProven' \cup acknowledged)
    BY <1>7 DEF LateCompletion
  <2>2. \A e \in Deployments : OutcomeUnreconciled(e)' => e \in reserved'
    BY <2>1, ReleasedKeeps DEF OutcomeUnreconciled, Fences, Evidence
  <2>3. Evidence'
    BY <2>1, <2>2 DEF Fences, Evidence, Existing
  <2> QED
    BY <1>1, <2>1, <2>3, Reconciling
<1>8. CASE UNCHANGED <<created, execHead, stateHead, dep, dispatched, stopProven, acknowledged, reserved, runner>>
  <2>1. Evidence'
    BY <1>8 DEF Fences, Evidence, Existing, OutcomeUnreconciled
  <2> QED
    BY <1>1, <1>8, <2>1, Reconciling
<1> QED
  BY <1>2, <1>3, <1>4, <1>5, <1>6, <1>7, <1>8
  DEF DeploymentStep, WindowCloses, RenewDeploymentLease, AcknowledgeBegins, ackOnly, depVars, evidenceVars

\* Every step keeps the fence.
LEMMA FencesStep == FenceInv /\ [Next]_vars => Fences'
<1> SUFFICES ASSUME FenceInv, [Next]_vars PROVE Fences'
  OBVIOUS
<1> USE DEF FenceInv, depVars, evidenceVars
<1>1. TypeOK
  BY DEF QueueInv, TypeInv
<1>2. ASSUME UNCHANGED <<created, execHead, stateHead, dep, dispatched, stopProven, acknowledged, reserved, runner>>
      PROVE  Fences'
  <2>1. Evidence'
    BY <1>2 DEF Fences, Evidence, Existing, OutcomeUnreconciled
  <2> QED
    BY <1>1, <1>2, <2>1, Reconciling
<1>3. ASSUME NEW r \in Requesters, RequestStep(r) PROVE Fences'
  <2> DEFINE in == requester[r].intent
  <2>1. CASE CreateRequested(r)
    <3>1. in.mode \in Modes \ {"observation"} /\ in.plugin \in BOOLEAN /\ PluginMode(in.plugin, in.mode)
      BY <1>1 DEF TypeOK, RequesterRecord, Intent, PluginIntents
    <3>2. CASE /\ CreateVerdict(in.mode, requester[r].expected, None) = "ok"
               /\ InsertDeployment(in.mode, in.plugin, requester[r].base, None, requester[r].expected)
      BY <2>1, <3>1, <3>2, InsertFenced DEF CreateRequested
    <3> QED
      BY <1>2, <2>1, <3>2 DEF CreateRequested
  <2> QED
    BY <1>2, <1>3, <2>1 DEF RequestStep, Request, DestroyEnvironment, ResolveRequest, CoreBusyForRequest,
       RefuseRequest, EnqueueDeployment, requesterOnly
<1>4. ASSUME NEW p \in Promoters, PromotionRuns(p) \/ AbortPromotion(p) PROVE Fences'
  <2> DEFINE i == promoter[p].item
  <2>1. CASE CreateQueued(p)
    <3>1. item[i].intent.mode \in Modes \ {"observation"}
      BY <1>1, <2>1 DEF CreateQueued, QueueInv, TypeInv, PromotionHasItem, TypeOK, ItemRecord, Intent
    <3>2. CASE /\ CreateVerdict(item[i].intent.mode, item[i].expected, i) = "ok"
               /\ InsertDeployment(item[i].intent.mode, FALSE, promoter[p].base, i, item[i].expected)
      BY <2>1, <3>1, <3>2, InsertFenced DEF CreateQueued, PluginMode
    <3> QED
      BY <1>2, <2>1, <3>2 DEF CreateQueued
  <2> QED
    BY <1>2, <1>4, <2>1 DEF PromotionRuns, ClaimHead, ExpireHead, CheckAvailable, HaltOrProceed, ResolveItem,
       ResolveFails, LockTimeout, AbortPromotion, promoterOnly
<1>5. ASSUME NEW i \in Items, ItemStep(i) PROVE Fences'
  BY <1>2, <1>5 DEF ItemStep, CancelDeploymentQueueItem, ExpireDeploymentQueueItem, ItemOverdue, queueOnly
<1>6. CASE TryStartObservation
  <2>1. /\ CreateVerdict("observation", None, None) = "ok" /\ ~UncertainOwner
        /\ InsertDeployment("observation", FALSE, stateHead, None, None) /\ "observation" \in Modes
        /\ UNCHANGED <<dispatched, stopProven, acknowledged, runner>> /\ reserved \subseteq reserved'
    BY <1>6 DEF TryStartObservation, Modes
  <2> QED
    BY <2>1, InsertFenced DEF PluginMode
<1>7. CASE AcknowledgeCommits
  <2>1. /\ UNCHANGED <<created, execHead, stateHead, dep, dispatched, stopProven, runner>>
        /\ acknowledged' = acknowledged \cup {acking}
        /\ reserved' = Released(acking, stopProven \cup acknowledged')
    BY <1>7 DEF AcknowledgeCommits, ackOnly
  <2>2. \A e \in Deployments : OutcomeUnreconciled(e)' => e \in reserved'
    BY <2>1, ReleasedKeeps DEF OutcomeUnreconciled, Fences, Evidence
  <2>3. Evidence'
    BY <2>1, <2>2 DEF Fences, Evidence, Existing
  <2> QED
    BY <1>1, <2>1, <2>3, Reconciling
<1>8. CASE UNCHANGED vars \/ LeaseExpires \/ AcknowledgeAborts
  BY <1>2, <1>8 DEF vars, LeaseExpires, AcknowledgeAborts, lifeOnly, ackOnly
<1> QED
  BY <1>3, <1>4, <1>5, <1>6, <1>7, <1>8, LifeFenced DEF Next

\* Callers ask only for the plugin operations the API knows.
LEMMA PluginIntentsStep == TypeOK /\ PluginIntents /\ [Next]_vars => PluginIntents'
<1> SUFFICES ASSUME TypeOK, PluginIntents, [Next]_vars PROVE PluginIntents'
  OBVIOUS
<1>1. CASE UNCHANGED requester
  BY <1>1 DEF PluginIntents
<1>2. ASSUME NEW r \in Requesters, Requesting(r) PROVE PluginIntents'
  <2>1. \A in \in Intents : PluginMode(in.plugin, in.mode)
    BY ConstantsAssumption DEF PluginMode
  <2>2. /\ requester'[r].intent \in Intents \cup {NoIntent, requester[r].intent}
        /\ \A q \in Requesters : q # r => requester'[q] = requester[q]
    BY <1>2 DEF Requesting, SetRequester, EndRequest, TypeOK
  <2>3. PluginMode(NoIntent.plugin, NoIntent.mode)
    BY DEF NoIntent, PluginMode
  <2>4. PluginMode(requester'[r].intent.plugin, requester'[r].intent.mode)
    BY <2>1, <2>2, <2>3 DEF PluginIntents
  <2> QED
    BY <2>2, <2>4 DEF PluginIntents, PluginMode
<1> QED
  BY <1>1, <1>2, RequesterSteps

\* What was rejected behind an acknowledged outcome stays rejected.
LEMMA AcknowledgedStep == QueueInv /\ AcknowledgedNeverDispatched /\ [Next]_vars => AcknowledgedNeverDispatched'
<1> SUFFICES ASSUME QueueInv, AcknowledgedNeverDispatched, [Next]_vars PROVE AcknowledgedNeverDispatched'
  OBVIOUS
<1>1. FinalStep /\ waitedThrough \subseteq Items
  BY QueueStep DEF QueueInv, TypeInv, TypeOK
<1>2. CASE UNCHANGED waitedThrough
  BY <1>1, <1>2 DEF FinalStep, AcknowledgedNeverDispatched
<1>3. CASE AcknowledgeCommits
  <2>1. CASE PluginDispatched(acking)
    <3>1. /\ SettleQueuedDeployments("rejected", "outcome_unreconciled", acking)
          /\ waitedThrough' = waitedThrough \cup Queued /\ Queued \subseteq Items
      BY <1>3, <2>1 DEF AcknowledgeCommits, RejectBehindFence, Queued
    <3>2. \A i \in Queued : item'[i].state = "rejected"
      BY <3>1 DEF SettleQueuedDeployments, Settled
    <3> QED
      BY <1>1, <3>1, <3>2 DEF FinalStep, AcknowledgedNeverDispatched
  <2> QED
    BY <1>2, <1>3, <2>1 DEF AcknowledgeCommits
<1>4. ASSUME NEW r \in Requesters, RequestStep(r) PROVE UNCHANGED waitedThrough
  BY <1>4 DEF RequestStep, Request, DestroyEnvironment, ResolveRequest, CoreBusyForRequest, RefuseRequest,
     CreateRequested, EnqueueDeployment, requesterOnly, ackVars
<1>5. ASSUME NEW p \in Promoters, PromotionRuns(p) \/ AbortPromotion(p) PROVE UNCHANGED waitedThrough
  BY <1>5 DEF PromotionRuns, ClaimHead, ExpireHead, CheckAvailable, HaltOrProceed, ResolveItem, ResolveFails,
     CreateQueued, LockTimeout, AbortPromotion, promoterOnly, ackVars
<1>6. ASSUME NEW i \in Items, ItemStep(i) PROVE UNCHANGED waitedThrough
  BY <1>6 DEF ItemStep, CancelDeploymentQueueItem, ExpireDeploymentQueueItem, ItemOverdue, queueOnly, processVars,
     ackVars
<1>7. ASSUME NEW d \in Deployments, DeploymentStep(d) PROVE UNCHANGED waitedThrough
  BY <1>7 DEF DeploymentStep, ReserveRunnerDispatch, BeginDeploymentDispatch, WindowCloses, RunnerStarts, RunnerStops,
     RunnerMoves, RunnerResult, FailWithoutProof, Complete, LateCompletion, RenewDeploymentLease,
     AcknowledgeBegins, lifeOnly, processVars, ackVars
<1>8. CASE UNCHANGED vars \/ TryStartObservation \/ LeaseExpires \/ AcknowledgeAborts
  BY <1>2, <1>8 DEF vars, TryStartObservation, LeaseExpires, AcknowledgeAborts, lifeOnly, processVars, ackVars
<1> QED
  BY <1>2, <1>3, <1>4, <1>5, <1>6, <1>7, <1>8 DEF Next

\* While a Runner whose stop nobody proved or attested may still run, nothing
\* follows a plugin operation or an observation, an observation reads alone, every
\* running Runner keeps its slot, and no acknowledgement releases what waited.
THEOREM RunnersKeptApart == Spec => []RunnersApart
<1>1. Init => FenceInv
  BY InitTypeInv, InitQueue, InitExclusion, InitFence DEF FenceInv, QueueInv
<1>2. FenceInv /\ [Next]_vars => FenceInv'
  BY QueueStep, ExclusionStep, FencesStep, PluginIntentsStep, AcknowledgedStep
  DEF FenceInv, QueueInv, ExclusionInv, TypeInv
<1> QED
  BY <1>1, <1>2, FencesSuffice, PTL DEF Spec
-----------------------------------------------------------------------------
(***************************************************************************)
(* What a waiting request was promised.  The promoter reads the state head *)
(* and its status without the Environment's lock; both stay what they were *)
(* because its row lock keeps everything that needs the lease out, so only *)
(* plans can start, and only the first of them moves the state head.       *)
(***************************************************************************)
\* The state head is the newest Deployment that changed the state, if there is one.
StateHeads ==
  /\ stateHead <= created /\ (created # 0 => stateHead # None)
  /\ \A d \in Existing : dep[d].mode \in Mutating => d <= stateHead /\ dep[stateHead].mode \in Mutating

\* A request's expected base was the state head before its reference was read.
Read ==
  \A r \in Requesters :
    /\ requester[r].expected <= stateHead
    /\ requester[r].pc = "admitted" /\ ~IsRollback(requester[r].intent.mode) =>
         requester[r].expected <= requester[r].base /\ requester[r].base <= stateHead

\* What a promotion found out still holds: no change runs, none that halts it
\* failed, and the base it was compiled against is current.
Promises ==
  \A p \in Promoters :
    /\ promoter[p].pc = "admitted" => BaseCurrent(item[promoter[p].item].intent.mode, promoter[p].base)
    /\ promoter[p].pc \in {"available", "resolve", "admitted"} => \A d \in Executing : dep[d].mode \notin Mutating
    /\ promoter[p].pc \in {"resolve", "admitted"} => ~HaltingPredecessor(promoter[p].item)

\* An item that halts on failure knows the head that had ended when it was enqueued.
Waited ==
  \A i \in Items :
    /\ item[i].ended \subseteq Existing
    /\ i \in Queued /\ item[i].intent.halt /\ stateHead \in item[i].ended => item[i].after = stateHead
    /\ i \in Queued /\ item[i].after # None => item[i].after \in item[i].ended

\* HaltSound, with the newest earlier change named and its success final.
Before(i) == {d \in Existing : d < item[i].deployment /\ dep[d].mode \in Mutating}
HaltedBy(i) ==
  /\ item[i].intent.halt /\ item[i].about \in Existing \ item[i].ended
  /\ dep[item[i].about].status = "failed" /\ dep[item[i].about].mode \in Mutating
FollowsSuccess(i) ==
  Before(i) # {} => \E d \in Before(i) : /\ \A e \in Before(i) : e <= d
                                         /\ d \in item[i].ended \/ dep[d].status \notin {"executing", "failed"}
Halts ==
  \A i \in Items :
    /\ item[i].reason = "previous_deployment_failed" => HaltedBy(i)
    /\ item[i].state = "dispatched" /\ item[i].intent.halt => FollowsSuccess(i)

PremiseInv ==
  ContractInv /\ StateHeads /\ Read /\ Promises /\ Waited /\ Halts /\ BaseNotStale

\* Nothing was promised initially.
LEMMA InitPremise == Init => StateHeads /\ Read /\ Promises /\ Waited /\ Halts /\ BaseNotStale
<1> SUFFICES ASSUME Init PROVE StateHeads /\ Read /\ Promises /\ Waited /\ Halts /\ BaseNotStale
  OBVIOUS
<1>1. Existing = {}
  BY ConstantsAssumption DEF Init, Existing, Deployments
<1>2. StateHeads /\ BaseNotStale
  BY <1>1 DEF Init, StateHeads, BaseNotStale
<1>3. Read /\ Promises
  BY DEF Init, Read, Promises, IdleRequester, IdlePromoter
<1>4. Waited /\ Halts
  BY DEF Init, Waited, Halts, Queued, NoItem
<1> QED
  BY <1>2, <1>3, <1>4

\* The invariant implies what the runs check.
LEMMA PremisesSuffice == PremiseInv => PremisesHold
<1> SUFFICES ASSUME PremiseInv PROVE HaltSound
  BY DEF PremiseInv, PremisesHold
<1> DEFINE last(i) == CHOOSE d \in Before(i) : \A e \in Before(i) : e <= d
<1>1. ASSUME NEW i \in Items, item[i].state = "dispatched", item[i].intent.halt, Before(i) # {}
      PROVE  last(i) \in item[i].ended \/ dep[last(i)].status # "failed"
  <2>1. PICK d \in Before(i) : /\ \A e \in Before(i) : e <= d
                               /\ d \in item[i].ended \/ dep[d].status \notin {"executing", "failed"}
    BY <1>1 DEF PremiseInv, Halts, FollowsSuccess
  <2>2. last(i) \in Before(i) /\ \A e \in Before(i) : e <= last(i)
    BY <2>1
  <2>3. d \in Nat /\ last(i) \in Nat
    BY <2>2, ConstantsAssumption DEF Before, Existing, Deployments
  <2>4. d <= last(i) /\ last(i) <= d
    BY <2>1, <2>2
  <2>5. d = last(i)
    BY <2>3, <2>4
  <2> QED
    BY <2>1, <2>5
<1>2. \A i \in Items : item[i].reason = "previous_deployment_failed" =>
         /\ item[i].intent.halt /\ item[i].about \notin item[i].ended
         /\ dep[item[i].about].status = "failed" /\ dep[item[i].about].mode \in Mutating
  BY DEF PremiseInv, Halts, HaltedBy
<1> QED
  BY <1>1, <1>2, Zenon DEF HaltSound, Before

\* The Environment's heads as CreateDeployment moves them.
LEMMA InsertHeads ==
  ASSUME TypeOK, StateHeads, NEW m \in Modes, NEW plugin, NEW base, NEW i, NEW expected,
         InsertDeployment(m, plugin, base, i, expected)
  PROVE  /\ StateHeads' /\ stateHead <= stateHead'
         /\ stateHead' \in {stateHead, created'}
         /\ IsPlanDeployment(m) /\ created # 0 => stateHead' = stateHead
<1>1. /\ created' = created + 1 /\ created \in Nat /\ created' \in Deployments
      /\ created' \notin Existing /\ Existing' = Existing \cup {created'} /\ dep'[created'].mode = m
      /\ \A d \in Deployments : d # created' => dep'[d] = dep[d]
  BY InsertRows
<1>2. stateHead' = IF IsPlanDeployment(m) /\ created # 0 THEN stateHead ELSE created'
  BY <1>1 DEF InsertDeployment
<1>3. stateHead \in Nat /\ stateHead <= created
  BY ConstantsAssumption DEF StateHeads, TypeOK, Deployments
<1>4. \A d \in Existing : d \in Deployments /\ d # created' /\ d \in Nat /\ d <= created
  BY <1>1, ConstantsAssumption DEF Existing, Deployments
<1>5. created' # 0 /\ created' <= created' /\ stateHead <= created'
  BY <1>1, <1>3
<1>6. CASE IsPlanDeployment(m) /\ created # 0
  <2>1. stateHead' = stateHead /\ stateHead # None /\ stateHead \in Deployments /\ stateHead # created'
    BY <1>1, <1>2, <1>3, <1>6 DEF StateHeads, TypeOK
  <2>2. m \notin Mutating
    BY <1>6 DEF IsPlanDeployment, Mutating
  <2>3. StateHeads'
    BY <1>1, <1>4, <1>5, <2>1, <2>2 DEF StateHeads
  <2> QED
    BY <1>3, <2>1, <2>3
<1>7. CASE ~(IsPlanDeployment(m) /\ created # 0)
  <2>1. stateHead' = created'
    BY <1>2, <1>7
  <2>2. \A d \in Existing' : dep'[d].mode \in Mutating => m \in Mutating
    <3>1. CASE created = 0
      <4>1. Existing = {}
        BY <3>1, ConstantsAssumption DEF Existing, Deployments
      <4> QED
        BY <1>1, <4>1
    <3>2. CASE ~IsPlanDeployment(m)
      BY <3>2 DEF IsPlanDeployment, Mutating, Modes
    <3> QED
      BY <1>7, <3>1, <3>2
  <2>3. \A d \in Existing' : d <= created'
    BY <1>1, <1>4
  <2>4. StateHeads'
    BY <1>1, <1>5, <2>1, <2>2, <2>3 DEF StateHeads
  <2> QED
    BY <1>5, <1>7, <2>1, <2>4
<1> QED
  BY <1>6, <1>7

\* No step moves the state head back.
LEMMA HeadsStep ==
  ASSUME QueueInv, StateHeads, [Next]_vars
  PROVE  StateHeads' /\ stateHead <= stateHead' /\ stateHead \in Nat /\ stateHead' \in Nat
<1>1. TypeOK /\ TypeOK'
  BY QueueStep DEF QueueInv, TypeInv
<1>2. stateHead \in Nat /\ stateHead' \in Nat
  BY <1>1, ConstantsAssumption DEF TypeOK, Deployments
<1>3. CASE UNCHANGED <<created, stateHead, dep>>
  BY <1>2, <1>3 DEF StateHeads, Existing
<1>4. CASE StartsDirectly
  BY <1>1, <1>2, <1>4, InsertHeads DEF StartsDirectly
<1>5. ASSUME NEW p \in Promoters, StartsHead(p) PROVE StateHeads' /\ stateHead <= stateHead'
  <2>1. promoter[p].item \in Items
    BY <1>5 DEF StartsHead, QueueInv, Claims, Queued
  <2>2. item[promoter[p].item].intent.mode \in Modes
    BY <1>1, <2>1 DEF TypeOK, ItemRecord, Intent
  <2> QED
    BY <1>1, <1>5, <2>2, InsertHeads DEF StartsHead
<1>6. ASSUME NEW d \in Deployments, Ends(d) PROVE StateHeads' /\ stateHead <= stateHead'
  <2>1. /\ UNCHANGED <<created, stateHead>>
        /\ \A e \in Deployments : dep'[e].mode = dep[e].mode
    BY <1>1, <1>6 DEF Ends, TypeOK, DeploymentRecord
  <2>2. Existing' = Existing /\ \A e \in Existing : e \in Deployments /\ e \in Nat /\ e <= created /\ e # 0
    BY <2>1, ConstantsAssumption DEF Existing, Deployments
  <2>3. \A e \in Existing : created # 0
    BY <1>1, <2>2, ConstantsAssumption DEF TypeOK
  <2>4. (\E e \in Existing : TRUE) => stateHead \in Deployments
    BY <1>1, <2>3 DEF StateHeads, TypeOK
  <2> QED
    BY <1>2, <2>1, <2>2, <2>4 DEF StateHeads
<1> QED
  BY <1>2, <1>3, <1>4, <1>5, <1>6, RowSteps DEF RowStep, Withdraws, RowsKept, Arrives

\* A request's reads stay in order.
LEMMA ReadStep ==
  ASSUME QueueInv, StateHeads, Read, [Next]_vars
  PROVE  Read'
<1>1. TypeOK
  BY DEF QueueInv, TypeInv
<1>2. stateHead <= stateHead' /\ stateHead \in Nat /\ stateHead' \in Nat
  BY HeadsStep
<1>3. \A r \in Requesters : requester[r].expected \in Nat /\ requester[r].base \in Nat
  <2>1. \A d \in {None} \cup Deployments : d \in Nat
    BY ConstantsAssumption DEF Deployments
  <2> QED
    BY <1>1, <2>1 DEF TypeOK, RequesterRecord
<1> DEFINE ReadBy(r) ==
             /\ requester'[r].expected <= stateHead'
             /\ requester'[r].pc = "admitted" /\ ~IsRollback(requester'[r].intent.mode) =>
                  requester'[r].expected <= requester'[r].base /\ requester'[r].base <= stateHead'
<1>4. ASSUME NEW r \in Requesters, requester'[r] = requester[r] PROVE ReadBy(r)
  BY <1>2, <1>3, <1>4 DEF Read
<1>5. ASSUME NEW r \in Requesters, Requesting(r) PROVE ReadBy(r)
  <2>1. ASSUME NEW pc, NEW in, NEW expected, NEW base, SetRequester(r, pc, in, expected, base)
        PROVE  /\ requester'[r].pc = pc /\ requester'[r].intent = in
               /\ requester'[r].expected = expected /\ requester'[r].base = base
    BY <1>1, <2>1 DEF SetRequester, TypeOK
  <2>2. CASE EndRequest(r)
    BY <1>2, <2>1, <2>2 DEF EndRequest
  <2>3. ASSUME NEW in \in Intents, NEW pc \in {"enqueue", "resolve"}, NEW expected \in {None, stateHead},
               SetRequester(r, pc, in, expected, None)
        PROVE  ReadBy(r)
    BY <1>2, <2>1, <2>3
  <2>4. CASE SetRequester(r, "admitted", requester[r].intent, requester[r].expected,
                          ReferenceDeployment(requester[r].intent.mode))
    <3>1. /\ requester'[r].intent = requester[r].intent /\ requester'[r].expected = requester[r].expected
          /\ requester'[r].base = ReferenceDeployment(requester[r].intent.mode)
      BY <2>1, <2>4
    <3>2. requester[r].expected <= stateHead
      BY DEF Read
    <3> QED
      BY <1>2, <1>3, <3>1, <3>2 DEF ReferenceDeployment
  <2>5. CASE SetRequester(r, "enqueue", requester[r].intent, requester[r].expected, None)
    <3>1. requester'[r].pc = "enqueue" /\ requester'[r].expected = requester[r].expected
      BY <2>1, <2>5
    <3> QED
      BY <1>2, <1>3, <3>1 DEF Read
  <2> QED
    BY <1>5, <2>2, <2>3, <2>4, <2>5 DEF Requesting
<1>6. ASSUME NEW r \in Requesters PROVE ReadBy(r)
  <2>1. CASE UNCHANGED requester
    BY <1>4, <2>1
  <2>2. ASSUME NEW q \in Requesters, Requesting(q), q # r PROVE requester'[r] = requester[r]
    BY <1>1, <2>2 DEF Requesting, SetRequester, EndRequest, TypeOK
  <2> HIDE DEF ReadBy
  <2> QED
    BY <1>4, <1>5, <2>1, <2>2, RequesterSteps
<1> QED
  BY <1>6 DEF Read, IsRollback

\* What an item was enqueued with keeps its meaning.
LEMMA WaitedStep ==
  ASSUME QueueInv, StateHeads, Waited, [Next]_vars
  PROVE  Waited'
<1>1. TypeOK
  BY DEF QueueInv, TypeInv
<1>2. CASE Withdraws
  <2>1. PICK S \in SUBSET Queued : Withdrawn(S)
    BY <1>2 DEF Withdraws
  <2>2. Queued' = Queued \ S /\ Existing' = Existing /\ stateHead' = stateHead
    BY <1>2, <2>1, QueuedRows DEF Withdraws, RowsKept, Existing
  <2>3. \A i \in Items : /\ item'[i].intent = item[i].intent /\ item'[i].ended = item[i].ended
                         /\ item'[i].after = item[i].after
    BY <2>1 DEF Withdrawn
  <2> QED
    BY <2>2, <2>3 DEF Waited
<1>3. ASSUME NEW r \in Requesters, Arrives(r) PROVE Waited'
  <2> DEFINE j == enqueued + 1
             in == requester[r].intent
  <2>1. /\ j \in Items /\ item'[j].intent = in /\ item'[j].after = EnqueuedAfter(in)
        /\ item'[j].ended = IF in.halt THEN Existing \ Executing ELSE {}
        /\ \A i \in Items : i # j => item'[i] = item[i]
    BY <1>1, <1>3 DEF Arrives, TypeOK
  <2>2. Queued' = Queued \cup {j} /\ Existing' = Existing /\ stateHead' = stateHead
    BY <1>3, QueuedRows DEF Arrives, Existing
  <2>3. stateHead # None => stateHead \in Existing
    BY <1>1 DEF StateHeads, TypeOK, Existing
  <2>4. None \notin Existing
    BY ConstantsAssumption DEF Existing, Deployments
  <2>5. /\ item'[j].ended \subseteq Existing
        /\ in.halt /\ stateHead \in item'[j].ended => item'[j].after = stateHead
        /\ item'[j].after # None => item'[j].after \in item'[j].ended
    BY <2>1, <2>3, <2>4 DEF EnqueuedAfter
  <2> HIDE DEF j, in
  <2> QED
    BY <2>1, <2>2, <2>5 DEF Waited
<1>4. ASSUME NEW m \in Modes, NEW plugin, NEW base, NEW i, NEW expected,
             InsertDeployment(m, plugin, base, i, expected), Queued' \subseteq Queued,
             \A j \in Items : /\ item'[j].intent = item[j].intent /\ item'[j].ended = item[j].ended
                              /\ item'[j].after = item[j].after
      PROVE  Waited'
  <2>1. Existing' = Existing \cup {created'} /\ created' \notin Existing
    BY <1>1, <1>4, InsertRows
  <2>2. stateHead' \in {stateHead, created'}
    BY <1>1, <1>4, InsertHeads
  <2> QED
    BY <1>4, <2>1, <2>2 DEF Waited
<1>5. CASE StartsDirectly
  <2>1. item' = item /\ Queued' = Queued
    BY <1>5 DEF StartsDirectly, Queued
  <2> QED
    BY <1>4, <1>5, <2>1 DEF StartsDirectly
<1>6. ASSUME NEW p \in Promoters, StartsHead(p) PROVE Waited'
  <2> DEFINE i == promoter[p].item
  <2>1. i \in Items /\ Queued' \subseteq Queued
    BY <1>6, QueuedRows DEF Queued
  <2>2. item[i].intent.mode \in Modes
    BY <1>1, <2>1 DEF TypeOK, ItemRecord, Intent
  <2>3. \A j \in Items : /\ item'[j].intent = item[j].intent /\ item'[j].ended = item[j].ended
                         /\ item'[j].after = item[j].after
    BY <1>1, <1>6, <2>1 DEF StartsHead, SettleDispatched, Settled, TypeOK
  <2> QED
    BY <1>4, <1>6, <2>1, <2>2, <2>3 DEF StartsHead
<1>7. ASSUME NEW d \in Deployments, Ends(d) PROVE Waited'
  BY <1>7 DEF Ends, Waited, Existing, Queued
<1> QED
  BY <1>2, <1>3, <1>5, <1>6, <1>7, RowSteps DEF RowStep

\* What a step of a promotion does to its record.
Promoting(p) ==
  LET i == promoter[p].item IN
  \/ \E pc \in {"idle", "claimed"}, j, base \in {None} \cup Items : SetPromoter(p, pc, j, base)
  \/ /\ UNCHANGED <<created, dep, execHead, stateHead, item>>
     /\ \/ /\ Availability(i) = "ok" /\ SetPromoter(p, "available", i, None)
        \/ /\ promoter[p].pc = "available" /\ ~HaltingPredecessor(i)
           /\ SetPromoter(p, "resolve", i, None)
        \/ /\ promoter[p].pc = "resolve"
           /\ SetPromoter(p, "admitted", i, ReferenceDeployment(item[i].intent.mode))

\* A promotion proceeds one check at a time; nobody else touches it.
LEMMA PromoterSteps == TypeOK /\ [Next]_vars => UNCHANGED promoter \/ \E p \in Promoters : Promoting(p)
<1> SUFFICES ASSUME TypeOK, [Next]_vars PROVE UNCHANGED promoter \/ \E p \in Promoters : Promoting(p)
  OBVIOUS
<1>1. ASSUME NEW p \in Promoters, PromotionRuns(p) \/ AbortPromotion(p) PROVE Promoting(p)
  <2> USE DEF promoterOnly, depVars
  <2>1. ASSUME EndPromotion(p) PROVE Promoting(p)
    BY <2>1 DEF EndPromotion, Promoting
  <2>2. CASE ClaimHead(p)
    <3>1. QueueHead \in Items
      BY <2>2, QueueHeadTyped DEF ClaimHead, Queued
    <3> QED
      BY <2>2, <3>1 DEF ClaimHead, Promoting
  <2>3. CASE CheckAvailable(p)
    BY <2>1, <2>3 DEF CheckAvailable, Promoting
  <2>4. CASE HaltOrProceed(p)
    BY <2>1, <2>4 DEF HaltOrProceed, Promoting
  <2>5. CASE ResolveItem(p)
    BY <2>5 DEF ResolveItem, Promoting
  <2>6. CASE CreateQueued(p)
    BY <2>1, <2>6 DEF CreateQueued, RefusedPromotion, DeferItem, RejectItem
  <2> QED
    BY <1>1, <2>1, <2>2, <2>3, <2>4, <2>5, <2>6
    DEF PromotionRuns, ExpireHead, ResolveFails, LockTimeout, AbortPromotion, RejectItem, DeferItem
<1>2. ASSUME NEW r \in Requesters, RequestStep(r) PROVE UNCHANGED promoter
  BY <1>2 DEF RequestStep, Request, DestroyEnvironment, ResolveRequest, CoreBusyForRequest, RefuseRequest,
     CreateRequested, EnqueueDeployment, requesterOnly
<1>3. ASSUME NEW i \in Items, ItemStep(i) PROVE UNCHANGED promoter
  BY <1>3
  DEF ItemStep, CancelDeploymentQueueItem, ExpireDeploymentQueueItem, ItemOverdue, queueOnly, processVars
<1>4. ASSUME NEW d \in Deployments, DeploymentStep(d) PROVE UNCHANGED promoter
  BY <1>4
  DEF DeploymentStep, ReserveRunnerDispatch, BeginDeploymentDispatch, WindowCloses, RunnerStarts, RunnerStops,
      RunnerMoves, RunnerResult, FailWithoutProof, Complete, LateCompletion, RenewDeploymentLease,
      AcknowledgeBegins, lifeOnly, ackOnly, processVars
<1>5. CASE UNCHANGED vars \/ TryStartObservation \/ LeaseExpires \/ AcknowledgeCommits \/ AcknowledgeAborts
  BY <1>5
  DEF vars, TryStartObservation, LeaseExpires, AcknowledgeCommits, AcknowledgeAborts, lifeOnly, ackOnly, processVars
<1> QED
  BY <1>1, <1>2, <1>3, <1>4, <1>5 DEF Next

\* What holds for the promotion of item i from a base.
Promise(pc, i, base) ==
  /\ pc = "admitted" => BaseCurrent(item[i].intent.mode, base)
  /\ pc \in {"available", "resolve", "admitted"} => \A d \in Executing : dep[d].mode \notin Mutating
  /\ pc \in {"resolve", "admitted"} => ~HaltingPredecessor(i)

\* A Deployment that starts without the lease leaves every promise intact.
LEMMA PlanKeepsPromise ==
  ASSUME TypeOK, StateHeads, NEW m \in Modes, ~RequiresEnvironmentLease(m), NEW plugin, NEW base, NEW i, NEW expected,
         InsertDeployment(m, plugin, base, i, expected), UNCHANGED item,
         NEW pc, NEW j \in Items, NEW b, Promise(pc, j, b)
  PROVE  Promise(pc, j, b)'
<1>1. /\ created' = created + 1 /\ created \in Nat /\ created' \in Deployments
      /\ created' \notin Existing /\ Existing' = Existing \cup {created'} /\ dep'[created'].mode = m
      /\ \A d \in Deployments : d # created' => dep'[d] = dep[d]
  BY InsertRows
<1>2. m \notin Mutating /\ IsPlanDeployment(m)
  BY DEF RequiresEnvironmentLease, Mutating, IsPlanDeployment, Modes
<1>3. \A d \in Executing' : d = created' \/ d \in Executing
  BY <1>1 DEF Executing, Existing
<1>4. pc \in {"available", "resolve", "admitted"} => \A d \in Executing' : dep'[d].mode \notin Mutating
  BY <1>1, <1>2, <1>3 DEF Promise, Executing, Existing
<1>5. CASE created # 0
  <2>1. stateHead' = stateHead /\ stateHead # None /\ stateHead \in Deployments
    BY <1>2, <1>5, InsertHeads DEF StateHeads, TypeOK
  <2>2. stateHead # created'
    BY <1>1, <2>1, ConstantsAssumption DEF StateHeads, Deployments
  <2>3. dep'[stateHead] = dep[stateHead]
    BY <1>1, <2>1, <2>2
  <2>4. BaseCurrent(item[j].intent.mode, b) => BaseCurrent(item[j].intent.mode, b)'
    BY <2>1, <2>3 DEF BaseCurrent
  <2>5. HaltingPredecessor(j)' => HaltingPredecessor(j)
    BY <2>1, <2>3 DEF HaltingPredecessor
  <2> QED
    BY <1>4, <2>4, <2>5 DEF Promise
<1>6. CASE created = 0
  <2>1. stateHead = 0 /\ stateHead' = created'
    BY <1>1, <1>6, ConstantsAssumption DEF StateHeads, TypeOK, Deployments, InsertDeployment
  <2>2. BaseCurrent(item[j].intent.mode, b) => BaseCurrent(item[j].intent.mode, b)'
    BY <1>1, <1>2, <2>1 DEF BaseCurrent
  <2>3. ~HaltingPredecessor(j)'
    BY <1>1, <1>2, <2>1 DEF HaltingPredecessor
  <2> QED
    BY <1>4, <2>2, <2>3 DEF Promise
<1> QED
  BY <1>5, <1>6

\* A promotion that goes on keeps its promises, whatever others do.
LEMMA PromiseKept ==
  ASSUME PremiseInv, [Next]_vars, NEW p \in Promoters, promoter'[p] = promoter[p],
         NEW pc, NEW i, NEW base, promoter[p].pc = pc, promoter[p].item = i, promoter[p].base = base, pc # "idle"
  PROVE  Promise(pc, i, base)'
<1> DEFINE Goal == Promise(pc, i, base)'
<1>1. QueueInv /\ TypeOK /\ Claims /\ StateHeads /\ Promise(pc, i, base)
  BY DEF PremiseInv, ContractInv, QueueInv, TypeInv, Promises, Promise
<1>2. i \in Items /\ i \in Queued /\ i # None
  BY <1>1 DEF Claims, Queued
<1>3. i \in Queued'
  BY <1>1, <1>2, QueueStep DEF QueueInv, Claims
<1>4. QueueHead # None
  BY <1>1, <1>2, QueueHeadTyped
<1>5. ASSUME UNCHANGED <<created, dep, stateHead>>, item'[i].intent = item[i].intent, item'[i].after = item[i].after
      PROVE  Goal
  BY <1>1, <1>5 DEF Promise, BaseCurrent, HaltingPredecessor, Executing, Existing
<1>6. CASE Withdraws
  BY <1>2, <1>5, <1>6 DEF Withdraws, RowsKept, Withdrawn
<1>7. ASSUME NEW r \in Requesters, Arrives(r) PROVE Goal
  <2>1. i # enqueued + 1
    BY <1>1, <1>2, ConstantsAssumption DEF QueueInv, Arrived, Queued, TypeOK
  <2>2. item'[i] = item[i]
    BY <1>1, <1>2, <1>7, <2>1 DEF Arrives, TypeOK
  <2> QED
    BY <1>5, <1>7, <2>2 DEF Arrives
<1>8. CASE StartsDirectly
  <2>1. PICK m \in Modes, plugin \in BOOLEAN, b, expected \in {None} \cup Deployments :
          CreateVerdict(m, expected, None) = "ok" /\ InsertDeployment(m, plugin, b, None, expected)
    BY <1>8 DEF StartsDirectly
  <2>2. ~RequiresEnvironmentLease(m)
    BY <1>4, <2>1 DEF CreateVerdict, OutOfTurn
  <2>3. UNCHANGED item
    BY <1>8 DEF StartsDirectly
  <2> QED
    BY <1>1, <1>2, <2>1, <2>2, <2>3, PlanKeepsPromise
<1>9. ASSUME NEW q \in Promoters, StartsHead(q) PROVE FALSE
  <2>1. promoter[q].item \in Queued /\ Queued' = Queued \ {promoter[q].item}
    BY <1>1, <1>9, QueuedRows
  <2>2. promoter[q].item # None
    BY <2>1, ConstantsAssumption DEF Queued, Items
  <2>3. q = p
    BY <1>1, <1>2, <2>2, SoleClaim
  <2> QED
    BY <1>3, <2>1, <2>3
<1>10. ASSUME NEW d \in Deployments, Ends(d) PROVE Goal
  <2>1. /\ UNCHANGED <<created, stateHead, item>> /\ d \in Executing
        /\ \A e \in Deployments : dep'[e].mode = dep[e].mode /\ (e # d => dep'[e] = dep[e])
        /\ dep'[d].status # "executing"
    BY <1>1, <1>10 DEF Ends, TypeOK, DeploymentRecord
  <2>2. \A e \in Executing' : e \in Executing /\ e \in Deployments
    BY <2>1 DEF Executing, Existing
  <2>3. stateHead # None => stateHead \in Deployments
    BY <1>1 DEF TypeOK
  <2>4. BaseCurrent(item[i].intent.mode, base) => BaseCurrent(item[i].intent.mode, base)'
    BY <2>1, <2>3 DEF BaseCurrent
  <2>5. pc \in {"resolve", "admitted"} => ~HaltingPredecessor(i)'
    <3> SUFFICES ASSUME pc \in {"resolve", "admitted"}, HaltingPredecessor(i)' PROVE FALSE
      OBVIOUS
    <3>1. stateHead \in Deployments /\ dep'[stateHead].mode = dep[stateHead].mode
      BY <2>1, <2>3 DEF HaltingPredecessor
    <3>2. CASE stateHead = d
      BY <1>1, <2>1, <3>1, <3>2 DEF HaltingPredecessor, Promise
    <3>3. CASE stateHead # d
      BY <1>1, <2>1, <3>1, <3>3 DEF HaltingPredecessor, Promise
    <3> QED
      BY <3>2, <3>3
  <2>6. pc \in {"available", "resolve", "admitted"} => \A e \in Executing' : dep'[e].mode \notin Mutating
    BY <1>1, <2>1, <2>2 DEF Promise
  <2> QED
    BY <1>1, <2>4, <2>5, <2>6 DEF Promise
<1> QED
  BY <1>1, <1>6, <1>7, <1>8, <1>9, <1>10, RowSteps DEF RowStep

\* Every promotion's promises hold after every step.
LEMMA PromisesStep ==
  ASSUME PremiseInv, [Next]_vars
  PROVE  Promises'
<1>1. TypeOK /\ Claims /\ Exclusion /\ Promises
  BY DEF PremiseInv, ContractInv, QueueInv, TypeInv
<1> SUFFICES ASSUME NEW p \in Promoters, NEW pc, NEW i, NEW base,
                    promoter'[p].pc = pc, promoter'[p].item = i, promoter'[p].base = base
             PROVE  Promise(pc, i, base)'
  BY DEF Promises, Promise
<1>2. CASE pc \in {"idle", "claimed"}
  BY <1>2 DEF Promise
<1>3. CASE promoter'[p] = promoter[p] /\ pc # "idle"
  BY <1>3, PromiseKept
<1>4. ASSUME UNCHANGED <<created, dep, execHead, stateHead, item>>
      PROVE  /\ Promise(pc, i, base)' <=> Promise(pc, i, base)
             /\ Executing' = Executing
  BY <1>4 DEF Promise, BaseCurrent, HaltingPredecessor, Executing, Existing
<1>5. ASSUME Promoting(p), pc \notin {"idle", "claimed"} PROVE Promise(pc, i, base)'
  <2>1. ASSUME NEW pc2, NEW j, NEW b, SetPromoter(p, pc2, j, b) PROVE pc2 = pc /\ j = i /\ b = base
    BY <1>1, <2>1 DEF SetPromoter, TypeOK
  <2>2. UNCHANGED <<created, dep, execHead, stateHead, item>>
    BY <1>5, <2>1 DEF Promoting
  <2>3. CASE Availability(promoter[p].item) = "ok" /\ SetPromoter(p, "available", promoter[p].item, None)
    <3>1. Executing = {}
      BY <1>1, <2>3 DEF Availability, HeadExecuting, Exclusion, OneExecuting
    <3> QED
      BY <1>4, <2>1, <2>2, <2>3, <3>1 DEF Promise
  <2>4. CASE /\ promoter[p].pc = "available" /\ ~HaltingPredecessor(promoter[p].item)
             /\ SetPromoter(p, "resolve", promoter[p].item, None)
    BY <1>1, <1>4, <2>1, <2>2, <2>4 DEF Promise, Promises
  <2>5. CASE /\ promoter[p].pc = "resolve"
             /\ SetPromoter(p, "admitted", promoter[p].item,
                            ReferenceDeployment(item[promoter[p].item].intent.mode))
    <3>1. pc = "admitted" /\ i = promoter[p].item /\ base = ReferenceDeployment(item[i].intent.mode)
      BY <2>1, <2>5
    <3>2. BaseCurrent(item[i].intent.mode, base)
      BY <3>1 DEF BaseCurrent, ReferenceDeployment
    <3> QED
      BY <1>1, <1>4, <2>2, <2>5, <3>1, <3>2 DEF Promise, Promises
  <2> QED
    BY <1>5, <2>1, <2>3, <2>4, <2>5 DEF Promoting
<1>6. ASSUME NEW q \in Promoters, q # p, Promoting(q) PROVE promoter'[p] = promoter[p]
  BY <1>1, <1>6 DEF Promoting, SetPromoter, TypeOK
<1> QED
  BY <1>1, <1>2, <1>3, <1>5, <1>6, PromoterSteps

\* A failure halts what was enqueued before it, and only that.
LEMMA HaltsStep ==
  ASSUME PremiseInv, [Next]_vars
  PROVE  Halts'
<1>1. QueueInv /\ TypeOK /\ Linked /\ StateHeads /\ Waited /\ Halts /\ Promises
  BY DEF PremiseInv, ContractInv, QueueInv, TypeInv
<1>2. Existing \subseteq Deployments /\ \A d \in Deployments : d \in Nat
  BY ConstantsAssumption DEF Existing, Deployments
<1>3. stateHead # None => stateHead \in Existing
  BY <1>1 DEF StateHeads, TypeOK, Existing
<1>4. \A i \in Items : item[i].state = "dispatched" => item[i].deployment \in Existing
  BY <1>1 DEF Linked
\* Deployments keep their mode, and their status once they ended; new ones are newer.
<1>5. ASSUME NEW i \in Items, item[i].reason = "previous_deployment_failed",
             item'[i].intent = item[i].intent, item'[i].about = item[i].about, item'[i].ended = item[i].ended,
             Existing \subseteq Existing',
             \A d \in Existing : dep'[d].mode = dep[d].mode /\ (dep[d].status # "executing" => dep'[d] = dep[d])
      PROVE  HaltedBy(i)'
  BY <1>1, <1>5 DEF Halts, HaltedBy
<1>6. ASSUME NEW i \in Items, item[i].state = "dispatched", item[i].intent.halt,
             item'[i].deployment = item[i].deployment, item'[i].ended = item[i].ended,
             Existing' \in {Existing, Existing \cup {created + 1}}, created + 1 \notin Existing,
             \A d \in Existing : dep'[d].mode = dep[d].mode /\ (dep[d].status # "executing" => dep'[d] = dep[d])
      PROVE  FollowsSuccess(i)'
  <2>1. item[i].deployment \in Existing /\ ~(created + 1 < item[i].deployment)
    BY <1>1, <1>2, <1>4, <1>6, ConstantsAssumption DEF TypeOK, Existing
  <2>2. Before(i)' = Before(i)
    BY <1>6, <2>1 DEF Before
  <2>3. Before(i) \subseteq Existing
    BY DEF Before
  <2> QED
    BY <1>1, <1>6, <2>2, <2>3 DEF Halts, FollowsSuccess
<1>7. CASE Withdraws
  <2>1. PICK S \in SUBSET Queued : Withdrawn(S)
    BY <1>7 DEF Withdraws
  <2>2. UNCHANGED <<created, dep, stateHead>> /\ Existing' = Existing /\ created + 1 \notin Existing
    BY <1>1, <1>7, ConstantsAssumption DEF Withdraws, RowsKept, Existing, TypeOK
  <2>3. ASSUME NEW i \in Items, item'[i].reason = "previous_deployment_failed" PROVE HaltedBy(i)'
    <3>1. CASE i \notin S
      BY <1>5, <2>1, <2>2, <2>3, <3>1 DEF Withdrawn
    <3>2. CASE i \in S
      <4>1. /\ HaltingPredecessor(i) /\ item'[i].about = stateHead /\ i \in Queued
            /\ item'[i].intent = item[i].intent /\ item'[i].ended = item[i].ended
        BY <2>1, <2>3, <3>2 DEF Withdrawn
      <4>2. stateHead \notin item[i].ended
        BY <1>1, <4>1 DEF Waited, HaltingPredecessor
      <4> QED
        BY <1>3, <2>2, <4>1, <4>2 DEF HaltedBy, HaltingPredecessor
    <3> QED
      BY <3>1, <3>2
  <2>4. ASSUME NEW i \in Items, item'[i].state = "dispatched", item'[i].intent.halt PROVE FollowsSuccess(i)'
    BY <1>6, <2>1, <2>2, <2>4 DEF Withdrawn
  <2> QED
    BY <2>3, <2>4 DEF Halts
<1>8. ASSUME NEW r \in Requesters, Arrives(r) PROVE Halts'
  <2>1. UNCHANGED <<created, dep>> /\ Existing' = Existing /\ created + 1 \notin Existing
    BY <1>1, <1>8, ConstantsAssumption DEF Arrives, Existing, TypeOK
  <2>2. /\ item'[enqueued + 1].state = "queued" /\ item'[enqueued + 1].reason = "none"
        /\ \A i \in Items : i # enqueued + 1 => item'[i] = item[i]
    BY <1>1, <1>8 DEF Arrives, TypeOK
  <2>3. ASSUME NEW i \in Items, item'[i].reason = "previous_deployment_failed" PROVE HaltedBy(i)'
    BY <1>5, <2>1, <2>2, <2>3
  <2>4. ASSUME NEW i \in Items, item'[i].state = "dispatched", item'[i].intent.halt PROVE FollowsSuccess(i)'
    BY <1>6, <2>1, <2>2, <2>4
  <2> QED
    BY <2>3, <2>4 DEF Halts
<1>9. ASSUME NEW m \in Modes, NEW plugin, NEW base, NEW i, NEW expected,
             InsertDeployment(m, plugin, base, i, expected)
      PROVE  /\ created' = created + 1 /\ Existing' = Existing \cup {created + 1} /\ created + 1 \notin Existing
             /\ \A d \in Existing : dep'[d] = dep[d]
  BY <1>1, <1>2, <1>9, InsertRows
<1>10. CASE StartsDirectly
  <2>1. /\ Existing' = Existing \cup {created + 1} /\ created + 1 \notin Existing
        /\ \A d \in Existing : dep'[d] = dep[d]
    BY <1>9, <1>10 DEF StartsDirectly
  <2>2. item' = item
    BY <1>10 DEF StartsDirectly
  <2>3. ASSUME NEW i \in Items, item'[i].reason = "previous_deployment_failed" PROVE HaltedBy(i)'
    BY <1>5, <2>1, <2>2, <2>3
  <2>4. ASSUME NEW i \in Items, item'[i].state = "dispatched", item'[i].intent.halt PROVE FollowsSuccess(i)'
    BY <1>6, <2>1, <2>2, <2>4
  <2> QED
    BY <2>3, <2>4 DEF Halts
<1>11. ASSUME NEW p \in Promoters, StartsHead(p) PROVE Halts'
  <2>1. PICK j \in Items : j = promoter[p].item /\ j \in Queued
    BY <1>1, <1>11, QueuedRows DEF Queued
  <2>2. item[j].intent.mode \in Modes
    BY <1>1, <2>1 DEF TypeOK, ItemRecord, Intent
  <2>3. /\ Existing' = Existing \cup {created + 1} /\ created + 1 \notin Existing
        /\ \A d \in Existing : dep'[d] = dep[d]
    BY <1>9, <1>11, <2>1, <2>2 DEF StartsHead
  <2>4. /\ item'[j].reason = "none" /\ item'[j].deployment = created + 1
        /\ item'[j].intent = item[j].intent /\ item'[j].ended = item[j].ended
        /\ \A i \in Items : i # j => item'[i] = item[i]
    BY <1>1, <1>11, <2>1 DEF StartsHead, SettleDispatched, Settled, TypeOK
  <2>5. ASSUME NEW i \in Items, item'[i].reason = "previous_deployment_failed" PROVE HaltedBy(i)'
    BY <1>5, <2>3, <2>4, <2>5
  <2>6. ASSUME NEW i \in Items, i # j, item'[i].state = "dispatched", item'[i].intent.halt
        PROVE  FollowsSuccess(i)'
    BY <1>6, <2>3, <2>4, <2>6
  <2>7. ASSUME item[j].intent.halt PROVE FollowsSuccess(j)'
    <3>1. Before(j)' = {d \in Existing : dep[d].mode \in Mutating}
      <4>1. \A d \in Existing : d < created + 1
        BY <1>1, <1>2, ConstantsAssumption DEF Existing, TypeOK
      <4>2. ~(created + 1 < created + 1)
        BY <1>1, ConstantsAssumption DEF TypeOK
      <4> QED
        BY <2>3, <2>4, <4>1, <4>2 DEF Before
    <3>2. ASSUME NEW d \in Existing, dep[d].mode \in Mutating
          PROVE  /\ stateHead \in Existing /\ dep[stateHead].mode \in Mutating
                 /\ \A e \in Existing : dep[e].mode \in Mutating => e <= stateHead
                 /\ stateHead \in item[j].ended \/ dep[stateHead].status \notin {"executing", "failed"}
      <4>1. /\ dep[stateHead].mode \in Mutating /\ stateHead # None
            /\ \A e \in Existing : dep[e].mode \in Mutating => e <= stateHead
        BY <1>1, <1>2, <3>2, ConstantsAssumption DEF StateHeads, Existing, Deployments
      <4>2. stateHead \in Existing /\ stateHead \notin Executing
        BY <1>1, <1>3, <1>11, <2>1, <4>1 DEF StartsHead, Promises
      <4>3. ~HaltingPredecessor(j)
        BY <1>1, <1>11, <2>1 DEF StartsHead, Promises
      <4>4. item[j].after = stateHead => stateHead \in item[j].ended
        BY <1>1, <2>1, <4>1 DEF Waited
      <4> QED
        BY <2>7, <4>1, <4>2, <4>3, <4>4 DEF HaltingPredecessor, Executing
    <3> QED
      BY <2>3, <2>4, <3>1, <3>2 DEF FollowsSuccess
  <2> QED
    BY <2>4, <2>5, <2>6, <2>7 DEF Halts
<1>12. ASSUME NEW d \in Deployments, Ends(d) PROVE Halts'
  <2>1. /\ UNCHANGED <<created, item>> /\ Existing' = Existing /\ created + 1 \notin Existing
        /\ \A e \in Deployments : dep'[e].mode = dep[e].mode /\ (dep[e].status # "executing" => dep'[e] = dep[e])
    BY <1>1, <1>12, ConstantsAssumption DEF Ends, Existing, Executing, TypeOK, DeploymentRecord
  <2>2. ASSUME NEW i \in Items, item'[i].reason = "previous_deployment_failed" PROVE HaltedBy(i)'
    BY <1>2, <1>5, <2>1, <2>2
  <2>3. ASSUME NEW i \in Items, item'[i].state = "dispatched", item'[i].intent.halt PROVE FollowsSuccess(i)'
    BY <1>2, <1>6, <2>1, <2>3
  <2> QED
    BY <2>2, <2>3 DEF Halts
<1> QED
  BY <1>1, <1>7, <1>8, <1>10, <1>11, <1>12, RowSteps DEF RowStep

\* A promoted request, and one that named its base, starts from a current graph.
LEMMA FreshStep ==
  ASSUME PremiseInv, [Next]_vars
  PROVE  BaseNotStale'
<1>1. QueueInv /\ TypeOK /\ StateHeads /\ Read /\ Promises /\ BaseNotStale
  BY DEF PremiseInv, ContractInv, QueueInv, TypeInv
<1>2. Existing \subseteq Deployments
  BY DEF Existing
<1>3. ASSUME NEW m \in Modes, NEW plugin, NEW base, NEW i, NEW expected,
             InsertDeployment(m, plugin, base, i, expected), i # None \/ expected # None => BaseCurrent(m, base)
      PROVE  BaseNotStale'
  <2>1. /\ Existing' = Existing \cup {created'} /\ created' \notin Existing /\ created' \in Deployments
        /\ \A d \in Deployments : d # created' => dep'[d] = dep[d]
    BY <1>1, <1>3, InsertRows
  <2>2. /\ dep'[created'].via = i /\ dep'[created'].guarded = (expected # None)
        /\ dep'[created'].fresh = BaseCurrent(m, base)
    BY <1>1, <1>3, <2>1 DEF InsertDeployment, TypeOK
  <2>3. dep'[created'].via # None \/ dep'[created'].guarded => dep'[created'].fresh
    BY <1>3, <2>2
  <2>4. ASSUME NEW d \in Existing, d # created', dep'[d].via # None \/ dep'[d].guarded
        PROVE  dep'[d].fresh
    <3>1. d \in Deployments /\ dep'[d] = dep[d]
      BY <1>2, <2>1, <2>4
    <3> QED
      BY <1>1, <2>4, <3>1 DEF BaseNotStale
  <2> QED
    BY <2>1, <2>3, <2>4 DEF BaseNotStale
<1>4. CASE StartsDirectly
  <2>1. PICK m \in Modes, plugin \in BOOLEAN, base, expected \in {None} \cup Deployments :
          /\ CreateVerdict(m, expected, None) = "ok"
          /\ InsertDeployment(m, plugin, base, None, expected)
          /\ expected # None => \E r \in Requesters :
               /\ requester[r].pc = "admitted" /\ requester[r].intent.mode = m
               /\ requester[r].base = base /\ requester[r].expected = expected
    BY <1>4, Zenon DEF StartsDirectly
  <2>2. ASSUME expected # None PROVE BaseCurrent(m, base)
    <3>1. expected = stateHead
      BY <2>1, <2>2 DEF CreateVerdict, BaseChanged
    <3>2. PICK r \in Requesters :
            /\ requester[r].pc = "admitted" /\ requester[r].intent.mode = m
            /\ requester[r].base = base /\ requester[r].expected = expected
      BY <2>1, <2>2
    <3>3. base \in Nat /\ stateHead \in Nat
      <4>1. \A d \in {None} \cup Deployments : d \in Nat
        BY ConstantsAssumption DEF Deployments
      <4> QED
        BY <1>1, <3>2, <4>1 DEF TypeOK, RequesterRecord
    <3>4. ~IsRollback(m) => stateHead <= base /\ base <= stateHead
      BY <1>1, <3>1, <3>2 DEF Read
    <3>5. ~IsRollback(m) => base = stateHead
      BY <3>3, <3>4
    <3> QED
      BY <3>5 DEF BaseCurrent
  <2> QED
    BY <1>3, <2>1, <2>2
<1>5. ASSUME NEW p \in Promoters, StartsHead(p) PROVE BaseNotStale'
  <2>1. promoter[p].item \in Items
    BY <1>1, <1>5, QueuedRows DEF Queued
  <2>2. item[promoter[p].item].intent.mode \in Modes
    BY <1>1, <2>1 DEF TypeOK, ItemRecord, Intent
  <2>3. BaseCurrent(item[promoter[p].item].intent.mode, promoter[p].base)
    BY <1>1, <1>5 DEF StartsHead, Promises
  <2> QED
    BY <1>3, <1>5, <2>2, <2>3 DEF StartsHead
<1>6. CASE /\ created' = created
           /\ \A d \in Deployments : /\ dep'[d].via = dep[d].via /\ dep'[d].guarded = dep[d].guarded
                                     /\ dep'[d].fresh = dep[d].fresh
  <2>1. Existing' = Existing
    BY <1>6 DEF Existing
  <2> QED
    BY <1>1, <1>2, <1>6, <2>1 DEF BaseNotStale
<1>7. ASSUME NEW d \in Deployments, Ends(d) PROVE BaseNotStale'
  BY <1>1, <1>6, <1>7 DEF Ends, TypeOK, DeploymentRecord
<1> QED
  BY <1>1, <1>4, <1>5, <1>6, <1>7, RowSteps DEF RowStep, Withdraws, RowsKept, Arrives

\* What a waiting request was promised holds when it starts: it follows no failure
\* it was to halt on, is halted by no other, and changes the state it was compiled
\* against, although promoters and callers read all of this without a lock.
THEOREM PromisesAreKept == Spec => []PremisesHold
<1>1. Init => PremiseInv
  BY InitTypeInv, InitQueue, InitExclusion, InitLinked, InitWaitable, InitPremise
  DEF PremiseInv, ContractInv, QueueInv
<1>2. PremiseInv /\ [Next]_vars => PremiseInv'
  <2> SUFFICES ASSUME PremiseInv, [Next]_vars PROVE PremiseInv'
    OBVIOUS
  <2>1. ContractInv'
    BY QueueStep, ExclusionStep, LinkedStep, WaitableStep DEF PremiseInv, ContractInv, QueueInv, ExclusionInv
  <2>2. StateHeads' /\ Read' /\ Waited'
    BY HeadsStep, ReadStep, WaitedStep DEF PremiseInv, ContractInv
  <2> QED
    BY <2>1, <2>2, PromisesStep, HaltsStep, FreshStep DEF PremiseInv
<1> QED
  BY <1>1, <1>2, PremisesSuffice, PTL DEF Spec
=============================================================================
