---------------------------- MODULE OutcomeProofs ----------------------------
(***************************************************************************)
(* What is said of the outcome of a Deployment: by the record of an        *)
(* acknowledgement, and to the calls that wait for the completion.         *)
(***************************************************************************)
EXTENDS OutcomeAcknowledgement, CompletionHooks, SequenceTheorems, TLAPS

(***************************************************************************)
(* One record, and everybody who was told of it finds their own: for any   *)
(* operators, reasons, concurrent calls and lost answers.  The property    *)
(* speaks of the answers only; what makes it inductive is what it leaves   *)
(* out, the call between its commit and its answer: it holds the record it *)
(* will report, there is at most one such call, and nobody was told that   *)
(* they created the record before it.                                      *)
(***************************************************************************)
Told == [code : {200, 201}, request : Requests]

AckTypeOK ==
  /\ ack \in Requests \cup {None}
  /\ answers \in Seq(Told)
  /\ call \in [Callers -> [pc : {"read", "acknowledge", "publish"}, request : Requests] \cup {Idle}]

CreatedBy(i) == answers[i].code = 201

Publishing ==
  \A c \in Callers : call[c].pc = "publish" =>
    /\ ack = call[c].request
    /\ \A d \in Callers : call[d].pc = "publish" => d = c
    /\ \A i \in 1..Len(answers) : ~CreatedBy(i)

\* Before the record exists nobody was told of one.
NoRecord == ack = None => answers = <<>> /\ \A c \in Callers : call[c].pc # "publish"

Theirs ==
  /\ \A i \in 1..Len(answers) : ack = answers[i].request
  /\ \A i, j \in 1..Len(answers) : CreatedBy(i) /\ CreatedBy(j) => i = j

IInv == AckTypeOK /\ Publishing /\ NoRecord /\ Theirs
-----------------------------------------------------------------------------
\* At first there is neither a record nor an answer.
LEMMA InitIInv == Init => IInv
<1> SUFFICES ASSUME Init PROVE IInv
  OBVIOUS
<1>1. ack = None /\ answers = <<>> /\ call = [c \in Callers |-> Idle]
  BY DEF Init
<1>2. AckTypeOK
  BY <1>1 DEF AckTypeOK
<1>3. \A c \in Callers : call[c].pc # "publish"
  BY <1>1 DEF Idle
<1>4. Publishing /\ NoRecord
  BY <1>1, <1>3 DEF Publishing, NoRecord
<1>5. Theirs
  BY <1>1 DEF Theirs
<1> QED BY <1>2, <1>4, <1>5 DEF IInv

\* The invariant is the property and more.
LEMMA IInvSuffices == IInv => RecordIsTheirs
<1> SUFFICES ASSUME IInv PROVE RecordIsTheirs
  OBVIOUS
<1>1. DOMAIN answers = 1..Len(answers)
  BY DEF IInv, AckTypeOK
<1> QED BY <1>1 DEF IInv, Theirs, CreatedBy, RecordIsTheirs

\* A call that is at a step of its own carries a request.
LEMMA Carries ==
  ASSUME AckTypeOK, NEW c \in Callers, call[c].pc \in {"read", "acknowledge", "publish"}
  PROVE call[c].request \in Requests
BY DEF AckTypeOK, Idle

\* A call that ends without telling of a record, or moves on to a step that is
\* not "publish", disturbs nothing.
LEMMA QuietStep ==
  ASSUME IInv, NEW c \in Callers, AckTypeOK', ack' = ack, answers' = answers,
         call'[c].pc # "publish", \A d \in Callers : d # c => call'[d] = call[d]
  PROVE IInv'
<1>1. Theirs'
  BY DEF IInv, Theirs, CreatedBy
<1>2. Publishing' /\ NoRecord'
  BY DEF IInv, Publishing, NoRecord, CreatedBy
<1> QED BY <1>1, <1>2 DEF IInv

\* The facts about calls and answers that a step which is about other things keeps.
LEMMA OtherStep ==
  ASSUME IInv, ack' = ack, answers' = answers, call' = call
  PROVE IInv'
BY DEF IInv, AckTypeOK, Publishing, NoRecord, Theirs, CreatedBy

\* Telling somebody of the record that is theirs.
LEMMA AnswerStep ==
  ASSUME IInv, NEW c \in Callers, NEW code \in {200, 201}, Answer(c, code),
         ack' = ack, ack = call[c].request,
         call[c].request \in Requests, code = 201 => call[c].pc = "publish"
  PROVE IInv'
<1> DEFINE told == [code |-> code, request |-> call[c].request]
<1>1. /\ answers \in Seq(Told) /\ told \in Told /\ answers' = Append(answers, told)
      /\ call' = [call EXCEPT ![c] = Idle]
  BY DEF IInv, AckTypeOK, Answer, Told
<1>2. /\ answers' \in Seq(Told) /\ Len(answers') = Len(answers) + 1
      /\ answers'[Len(answers) + 1] = told
      /\ \A i \in 1..Len(answers) : answers'[i] = answers[i]
  BY <1>1
<1>3. AckTypeOK'
  BY <1>1, <1>2 DEF IInv, AckTypeOK
<1>4. \A d \in Callers : call'[d].pc = "publish" => d # c /\ call'[d] = call[d]
  BY <1>1 DEF IInv, AckTypeOK, Idle
<1>5. ack # None
  BY AcknowledgementAssumption
<1>6. code = 201 => \A d \in Callers : call'[d].pc # "publish"
  BY <1>4 DEF IInv, Publishing
<1>7. Publishing'
  <2> SUFFICES ASSUME NEW d \in Callers, call'[d].pc = "publish"
               PROVE /\ ack' = call'[d].request
                     /\ \A b \in Callers : call'[b].pc = "publish" => b = d
                     /\ \A i \in 1..Len(answers') : ~CreatedBy(i)'
    BY DEF Publishing
  <2>1. /\ ack' = call'[d].request /\ code = 200
        /\ \A b \in Callers : call'[b].pc = "publish" => b = d
        /\ \A i \in 1..Len(answers) : answers[i].code # 201
    BY <1>4, <1>6 DEF IInv, Publishing, CreatedBy
  <2>2. \A i \in 1..Len(answers') : answers'[i].code # 201
    <3> SUFFICES ASSUME NEW i \in 1..Len(answers') PROVE answers'[i].code # 201
      OBVIOUS
    <3>1. CASE i \in 1..Len(answers)
      BY <1>2, <2>1, <3>1
    <3>2. CASE i = Len(answers) + 1
      BY <1>2, <2>1, <3>2
    <3> QED BY <1>1, <1>2, <3>1, <3>2
  <2> QED BY <2>1, <2>2 DEF CreatedBy
<1>8. NoRecord'
  BY <1>5 DEF NoRecord
<1>9. Theirs'
  <2>1. \A i \in 1..Len(answers') : i \in 1..Len(answers) \/ i = Len(answers) + 1
    BY <1>1, <1>2
  <2>2. \A i \in 1..Len(answers') : ack' = answers'[i].request
    <3>1. \A i \in 1..Len(answers) : ack = answers[i].request
      BY DEF IInv, Theirs
    <3> QED BY <1>2, <2>1, <3>1
  <2>3. code = 201 => \A i \in 1..Len(answers) : answers[i].code # 201
    BY DEF IInv, Publishing, CreatedBy
  <2>4. \A i, j \in 1..Len(answers) : answers[i].code = 201 /\ answers[j].code = 201 => i = j
    BY DEF IInv, Theirs, CreatedBy
  <2>5. \A i, j \in 1..Len(answers') : answers'[i].code = 201 /\ answers'[j].code = 201 => i = j
    BY <1>2, <2>1, <2>3, <2>4
  <2> QED BY <2>2, <2>5 DEF Theirs, CreatedBy
<1> QED BY <1>3, <1>7, <1>8, <1>9 DEF IInv

\* The transaction under the Environment's lock.
LEMMA AcknowledgeStep ==
  ASSUME IInv, NEW c \in Callers, Acknowledge(c)
  PROVE IInv'
<1> DEFINE request == call[c].request
<1>1. request \in Requests /\ call[c].pc = "acknowledge" /\ request # None
  BY Carries, AcknowledgementAssumption DEF IInv, Acknowledge
<1>2. ASSUME NEW code \in {404, 409, 500}, Answer(c, code), ack' = ack
      PROVE IInv'
  <2>1. answers' = answers /\ call' = [call EXCEPT ![c] = Idle]
    BY <1>2 DEF Answer
  <2>2. AckTypeOK' /\ call'[c].pc # "publish" /\ \A d \in Callers : d # c => call'[d] = call[d]
    BY <1>2, <2>1 DEF IInv, AckTypeOK, Idle
  <2> QED BY <1>2, <2>1, <2>2, QuietStep
<1>3. CASE Replays(request) /\ Answer(c, 200) /\ ack' = ack
  BY <1>1, <1>3, AnswerStep DEF Replays
<1>4. CASE ack = None /\ ack' = request /\ Goto(c, "publish") /\ answers' = answers
  <2>1. answers = <<>> /\ \A d \in Callers : call[d].pc # "publish"
    BY <1>4 DEF IInv, NoRecord
  <2>2. AckTypeOK'
    BY <1>1, <1>4 DEF IInv, AckTypeOK, Goto, Idle
  <2>3. call' = [call EXCEPT ![c].pc = "publish"] /\ c \in DOMAIN call
    BY <1>4 DEF Goto, IInv, AckTypeOK
  <2>4. call'[c].request = request /\ \A d \in Callers : d # c => call'[d] = call[d]
    BY <1>1, <2>3 DEF IInv, AckTypeOK, Idle
  <2>5. Len(answers') = 0
    BY <1>4, <2>1
  <2>6. Publishing'
    BY <1>4, <2>1, <2>4, <2>5 DEF Publishing
  <2>7. NoRecord' /\ Theirs'
    BY <1>1, <1>4, <2>5 DEF NoRecord, Theirs
  <2> QED BY <2>2, <2>6, <2>7 DEF IInv
<1> QED BY <1>2, <1>3, <1>4 DEF Acknowledge

\* Every step keeps the invariant.
LEMMA NextStep == IInv /\ Next => IInv'
<1> SUFFICES ASSUME IInv, Next PROVE IInv'
  OBVIOUS
<1>1. ASSUME NEW c \in Callers, NEW request \in Requests, Arrive(c, request) PROVE IInv'
  <2>1. /\ call' = [call EXCEPT ![c] = [pc |-> "read", request |-> request]]
        /\ ack' = ack /\ answers' = answers
    BY <1>1 DEF Arrive
  <2>2. AckTypeOK' /\ call'[c].pc # "publish" /\ \A d \in Callers : d # c => call'[d] = call[d]
    BY <2>1 DEF IInv, AckTypeOK
  <2> QED BY <2>1, <2>2, QuietStep
<1>2. ASSUME NEW c \in Callers, ReadDeployment(c) PROVE IInv'
  <2>1. ack' = ack /\ answers' = answers /\ call[c].request \in Requests /\ call[c].pc = "read"
    BY <1>2, Carries DEF IInv, ReadDeployment, Answer
  <2>2. call' = [call EXCEPT ![c] = Idle] \/ call' = [call EXCEPT ![c].pc = "acknowledge"]
    BY <1>2 DEF ReadDeployment, Answer, Goto
  <2>3. AckTypeOK' /\ call'[c].pc # "publish" /\ \A d \in Callers : d # c => call'[d] = call[d]
    BY <2>1, <2>2 DEF IInv, AckTypeOK, Idle
  <2> QED BY <2>1, <2>3, QuietStep
<1>3. ASSUME NEW c \in Callers, Publish(c) PROVE IInv'
  <2>1. call[c].pc = "publish" /\ Answer(c, 201) /\ ack' = ack
    BY <1>3 DEF Publish
  <2>2. ack = call[c].request /\ call[c].request \in Requests
    BY <2>1, Carries DEF IInv, Publishing
  <2> QED BY <2>1, <2>2, AnswerStep
<1>4. ASSUME NEW c \in Callers, CallDies(c) PROVE IInv'
  <2>1. call' = [call EXCEPT ![c] = Idle] /\ ack' = ack /\ answers' = answers
    BY <1>4 DEF CallDies
  <2>2. AckTypeOK' /\ call'[c].pc # "publish" /\ \A d \in Callers : d # c => call'[d] = call[d]
    BY <2>1 DEF IInv, AckTypeOK, Idle
  <2> QED BY <2>1, <2>2, QuietStep
<1>5. CASE Relay \/ WindowCloses \/ LateCompletion \/ DeleteDeployment
  BY <1>5, OtherStep DEF Relay, WindowCloses, LateCompletion, DeleteDeployment
<1> QED BY <1>1, <1>2, <1>3, <1>4, <1>5, AcknowledgeStep DEF Next

\* Whoever was told that the outcome is acknowledged finds their own request in
\* the one record, and one of them at most created it (AcknowledgeDeploymentOutcome).
THEOREM OneRecord == Spec => []RecordIsTheirs
<1>1. IInv /\ [Next]_vars => IInv'
  BY NextStep, OtherStep DEF vars
<1> QED BY <1>1, InitIInv, IInvSuffices, PTL DEF Spec
-----------------------------------------------------------------------------
(***************************************************************************)
(* Waiting for the outcome (CompletionHooks).  Every channel has one owner *)
(* who may close it: the registry, or the one notification that detached   *)
(* it, never both (OwnedOnce); and what owns a channel finds it open and   *)
(* its call still there to be served (Open).  A message and a closed       *)
(* channel are evidence: that the Deployment ended, or that the waiter was *)
(* displaced (Evidence).  The call that reads its Deployment for the last  *)
(* time knows no more than that.                                           *)
(***************************************************************************)
HooksTypeOK ==
  /\ status \in {"executing", "ended", "deleted"} /\ events \in Nat /\ published \in Nat
  /\ waiters \in Seq(WaitingCalls) /\ detached \in Seq(WaitingCalls)
  /\ channel \in [WaitingCalls -> {"none", "open", "closed"}] /\ buffered \subseteq WaitingCalls
  /\ pc \in [WaitingCalls -> {"idle", "read", "select", "returned"}]
  /\ last \subseteq WaitingCalls
  /\ answer \in [WaitingCalls -> {"none", "200", "404", "408", "error"}]
  /\ hungUp \subseteq WaitingCalls /\ evicted \subseteq WaitingCalls /\ panicked \in BOOLEAN

Distinct(s) == \A i, j \in 1..Len(s) : s[i] = s[j] => i = j

OwnedOnce ==
  /\ Distinct(waiters) /\ Distinct(detached)
  /\ \A i \in 1..Len(waiters), j \in 1..Len(detached) : waiters[i] # detached[j]

Open ==
  /\ Len(waiters) <= MaximumWaitersPerHandle
  /\ \A i \in 1..Len(waiters) :
       channel[waiters[i]] = "open" /\ pc[waiters[i]] \in {"read", "select"}
  /\ \A i \in 1..Len(detached) : channel[detached[i]] = "open" /\ pc[detached[i]] # "idle"

Ended == status # "executing"

Evidence ==
  /\ events > 0 \/ detached # <<>> \/ buffered # {} => Ended
  /\ \A c \in WaitingCalls : channel[c] = "closed" \/ c \in last => c \in evicted \/ Ended

HooksInv == HooksTypeOK /\ OwnedOnce /\ Open /\ Evidence /\ NeverPanics /\ NoEarlyTimeout

\* What may be left of a registry: some of its waiters, each of them once.
Within(t, s) ==
  /\ t \in Seq(WaitingCalls) /\ Len(t) <= Len(s) /\ Distinct(t)
  /\ \A i \in 1..Len(t) : \E j \in 1..Len(s) : t[i] = s[j]

\* A part of a sequence without repetition is one.
LEMMA PartWithin ==
  ASSUME NEW s \in Seq(WaitingCalls), Distinct(s), NEW m \in 1..Len(s) + 1, NEW n \in m - 1..Len(s)
  PROVE  /\ Within(SubSeq(s, m, n), s) /\ Len(SubSeq(s, m, n)) = n - m + 1
         /\ \A i \in 1..(n - m + 1) : SubSeq(s, m, n)[i] = s[m + i - 1]
<1> DEFINE t == SubSeq(s, m, n)
<1>1. /\ t \in Seq(WaitingCalls) /\ Len(t) = n - m + 1
      /\ \A i \in 1..(n - m + 1) : t[i] = s[m + i - 1]
  OBVIOUS
<1>2. \A i \in 1..Len(t) : m + i - 1 \in 1..Len(s) /\ t[i] = s[m + i - 1]
  BY <1>1
<1> HIDE DEF t
<1>3. Distinct(t)
  BY <1>1, <1>2 DEF Distinct
<1>4. Within(t, s)
  BY <1>1, <1>2, <1>3 DEF Within
<1> QED
  BY <1>1, <1>4 DEF t

\* What removeWaiter leaves: everybody but the one it removes.
LEMMA RemovedWithin ==
  ASSUME NEW s \in Seq(WaitingCalls), Distinct(s), NEW c \in WaitingCalls
  PROVE  /\ Within(RemoveFirst(s, c), s)
         /\ \A i \in 1..Len(RemoveFirst(s, c)) : RemoveFirst(s, c)[i] # c
<1>1. CASE ~\E i \in 1..Len(s) : s[i] = c
  BY <1>1 DEF RemoveFirst, Within
<1>2. ASSUME NEW k \in 1..Len(s), s[k] = c
      PROVE  /\ Within(RemoveFirst(s, c), s)
             /\ \A i \in 1..Len(RemoveFirst(s, c)) : RemoveFirst(s, c)[i] # c
  <2> DEFINE I == {i \in 1..Len(s) : s[i] = c}
  <2>1. I = {k}
    BY <1>2 DEF Distinct
  <2>2. SelectInSeq(s, LAMBDA v : v = c) = Min(I)
    BY <2>1 DEF SelectInSeq
  <2>3. Min(I) = k
    BY <2>1 DEF Min
  <2> DEFINE t == SubSeq(s, 1, k - 1) \o SubSeq(s, k + 1, Len(s))
  <2>4. RemoveFirst(s, c) = t
    BY <1>2, <2>2, <2>3 DEF RemoveFirst, RemoveAt
  <2>5. /\ t \in Seq(WaitingCalls) /\ Len(t) = Len(s) - 1
        /\ \A i \in 1..Len(t) : t[i] = IF i < k THEN s[i] ELSE s[i + 1]
    <3> DEFINE u == SubSeq(s, 1, k - 1)
               v == SubSeq(s, k + 1, Len(s))
    <3>1. u \in Seq(WaitingCalls) /\ Len(u) = k - 1 /\ \A i \in 1..k - 1 : u[i] = s[i]
      OBVIOUS
    <3>2. /\ v \in Seq(WaitingCalls) /\ Len(v) = Len(s) - k
          /\ \A i \in 1..Len(s) - k : v[i] = s[k + i]
      OBVIOUS
    <3> HIDE DEF u, v
    <3>3. /\ u \o v \in Seq(WaitingCalls) /\ Len(u \o v) = Len(u) + Len(v)
          /\ \A i \in 1..Len(u) + Len(v) : (u \o v)[i] = IF i <= Len(u) THEN u[i] ELSE v[i - Len(u)]
      BY <3>1, <3>2, ConcatProperties
    <3>4. t = u \o v
      BY DEF u, v
    <3> HIDE DEF t
    <3>5. t \in Seq(WaitingCalls) /\ Len(t) = Len(s) - 1
      BY <3>1, <3>2, <3>3, <3>4
    <3>6. ASSUME NEW i \in 1..Len(t) PROVE t[i] = IF i < k THEN s[i] ELSE s[i + 1]
      <4>1. CASE i < k
        BY <3>1, <3>2, <3>3, <3>4, <3>5, <4>1
      <4>2. CASE i >= k
        <5>1. t[i] = v[i - (k - 1)] /\ i - (k - 1) \in 1..Len(s) - k
          BY <3>1, <3>2, <3>3, <3>4, <3>5, <4>2
        <5>2. k + (i - (k - 1)) = i + 1
          BY <3>5
        <5> QED
          BY <3>2, <4>2, <5>1, <5>2
      <4> QED
        BY <3>5, <4>1, <4>2
    <3> QED
      BY <3>5, <3>6
  <2> HIDE DEF t
  <2> DEFINE At(n) == IF n < k THEN n ELSE n + 1
  <2>6. ASSUME NEW i \in 1..Len(t)
        PROVE  At(i) \in 1..Len(s) /\ At(i) # k /\ t[i] = s[At(i)]
    BY <2>5
  <2>7. \A i \in 1..Len(t) : t[i] # c
    <3> SUFFICES ASSUME NEW i \in 1..Len(t) PROVE t[i] # c
      OBVIOUS
    <3>1. At(i) \in 1..Len(s) /\ At(i) # k /\ t[i] = s[At(i)]
      BY <2>6
    <3> HIDE DEF At
    <3> QED
      BY <1>2, <3>1 DEF Distinct
  <2>8. Distinct(t)
    <3> SUFFICES ASSUME NEW i \in 1..Len(t), NEW j \in 1..Len(t), t[i] = t[j] PROVE i = j
      BY DEF Distinct
    <3>1. /\ At(i) \in 1..Len(s) /\ t[i] = s[At(i)]
          /\ At(j) \in 1..Len(s) /\ t[j] = s[At(j)]
      BY <2>6
    <3>2. At(i) = At(j)
      BY <3>1 DEF Distinct
    <3> QED
      BY <2>5, <3>2
  <2>9. \A i \in 1..Len(t) : \E j \in 1..Len(s) : t[i] = s[j]
    BY <2>6
  <2>10. Within(t, s)
    BY <2>5, <2>8, <2>9 DEF Within
  <2> QED
    BY <2>4, <2>7, <2>10
<1> QED
  BY <1>1, <1>2

\* At first nobody waits.
LEMMA InitHooks == ASSUME HooksAssumption PROVE HooksInit => HooksInv
<1> SUFFICES ASSUME HooksInit PROVE HooksInv
  OBVIOUS
<1>1. waiters = <<>> /\ detached = <<>> /\ Len(waiters) = 0 /\ Len(detached) = 0
  BY DEF HooksInit
<1>2. HooksTypeOK
  <2>1. /\ status = "executing" /\ events = 0 /\ published = 0 /\ buffered = {} /\ last = {}
        /\ hungUp = {} /\ evicted = {} /\ panicked = FALSE
    BY DEF HooksInit
  <2>2. /\ channel \in [WaitingCalls -> {"none", "open", "closed"}]
        /\ pc \in [WaitingCalls -> {"idle", "read", "select", "returned"}]
        /\ answer \in [WaitingCalls -> {"none", "200", "404", "408", "error"}]
    BY DEF HooksInit
  <2>3. waiters \in Seq(WaitingCalls) /\ detached \in Seq(WaitingCalls)
    BY <1>1
  <2>4. panicked \in BOOLEAN
    BY <2>1
  <2> QED
    BY <2>1, <2>2, <2>3, <2>4 DEF HooksTypeOK
<1>3. OwnedOnce /\ Open
  BY <1>1 DEF HooksAssumption, OwnedOnce, Distinct, Open
<1>4. Evidence /\ NeverPanics /\ NoEarlyTimeout
  BY DEF HooksInit, Evidence, NeverPanics, NoEarlyTimeout
<1> QED
  BY <1>2, <1>3, <1>4 DEF HooksInv

\* A step that touches no channel, moves no call and leaves the answers.
LEMMA DatabaseStep ==
  ASSUME HooksInv, DeploymentEnds \/ EventAgain \/ DeploymentDeleted \/ EventLost
  PROVE  HooksInv'
<1>1. UNCHANGED <<waiters, detached, channel, buffered, evicted, panicked, pc, last, answer,
                  hungUp>>
  BY DEF DeploymentEnds, EventAgain, DeploymentDeleted, EventLost, registry
<1>2. /\ status' \in {"executing", "ended", "deleted"} /\ events' \in Nat /\ published' \in Nat
      /\ (Ended => Ended') /\ (events' > 0 => Ended' \/ events > 0)
  BY DEF HooksInv, HooksTypeOK, Ended, DeploymentEnds, EventAgain, DeploymentDeleted, EventLost
<1>3. HooksTypeOK' /\ OwnedOnce' /\ Open' /\ NeverPanics' /\ NoEarlyTimeout'
  BY <1>1, <1>2 DEF HooksInv, HooksTypeOK, OwnedOnce, Distinct, Open, NeverPanics, NoEarlyTimeout
<1>4. Evidence'
  BY <1>1, <1>2 DEF HooksInv, Evidence
<1> QED
  BY <1>3, <1>4 DEF HooksInv

\* The evicted waiters are still open, and nobody else owns them.
LEMMA AddWaiterStep ==
  ASSUME HooksAssumption, HooksInv, NEW c \in WaitingCalls, AddWaiter(c)
  PROVE  HooksInv'
<1> DEFINE old == SubSeq(waiters, 1, Excess)
           kept == SubSeq(waiters, Excess + 1, Len(waiters))
<1>1. /\ HooksTypeOK /\ Distinct(waiters) /\ Distinct(detached) /\ Open /\ Evidence /\ ~panicked
      /\ \A i \in 1..Len(waiters), j \in 1..Len(detached) : waiters[i] # detached[j]
  BY DEF HooksInv, OwnedOnce, NeverPanics
<1>2. /\ Excess \in 0..Len(waiters) /\ Len(waiters) - Excess < MaximumWaitersPerHandle
      /\ MaximumWaitersPerHandle \in Nat \ {0}
  BY <1>1 DEF HooksAssumption, Excess, HooksTypeOK, Open
<1>3. /\ Within(old, waiters) /\ Within(kept, waiters)
      /\ Len(old) = Excess /\ Len(kept) = Len(waiters) - Excess
      /\ \A i \in 1..Len(old) : old[i] = waiters[i]
      /\ \A i \in 1..Len(kept) : kept[i] = waiters[Excess + i]
  <2>1. waiters \in Seq(WaitingCalls) /\ Len(waiters) \in Nat
    BY <1>1 DEF HooksTypeOK
  <2>2. Within(old, waiters) /\ Len(old) = Excess /\ \A i \in 1..Excess : old[i] = waiters[i]
    <3>1. 1 \in 1..Len(waiters) + 1 /\ Excess \in 1 - 1..Len(waiters) /\ Excess - 1 + 1 = Excess
      BY <1>2, <2>1
    <3>2. \A i \in 1..Excess : 1 + i - 1 = i
      BY <1>2
    <3>3. /\ Within(old, waiters) /\ Len(old) = Excess - 1 + 1
          /\ \A i \in 1..(Excess - 1 + 1) : old[i] = waiters[1 + i - 1]
      BY <1>1, <2>1, <3>1, PartWithin
    <3> QED
      BY <3>1, <3>2, <3>3
  <2>3. /\ Within(kept, waiters) /\ Len(kept) = Len(waiters) - Excess
        /\ \A i \in 1..(Len(waiters) - Excess) : kept[i] = waiters[Excess + i]
    <3> DEFINE m == Excess + 1
    <3>1. /\ m \in 1..Len(waiters) + 1 /\ Len(waiters) \in m - 1..Len(waiters)
          /\ Len(waiters) - m + 1 = Len(waiters) - Excess
      BY <1>2, <2>1
    <3>2. \A i \in 1..(Len(waiters) - Excess) : m + i - 1 = Excess + i
      BY <1>2, <2>1
    <3> HIDE DEF m
    <3>3. /\ Within(SubSeq(waiters, m, Len(waiters)), waiters)
          /\ Len(SubSeq(waiters, m, Len(waiters))) = Len(waiters) - m + 1
          /\ \A i \in 1..(Len(waiters) - m + 1) :
               SubSeq(waiters, m, Len(waiters))[i] = waiters[m + i - 1]
      BY <1>1, <2>1, <3>1, PartWithin
    <3> QED
      BY <3>1, <3>2, <3>3 DEF m
  <2> QED
    BY <2>2, <2>3
<1>4. /\ pc[c] = "idle" /\ pc' = [pc EXCEPT ![c] = "read"]
      /\ channel' = [CloseAll(old) EXCEPT ![c] = "open"]
      /\ panicked' = ClosedTwice(old) /\ evicted' = evicted \cup ToSet(old)
      /\ waiters' = Append(kept, c)
      /\ UNCHANGED <<status, events, published, detached, buffered, last, answer, hungUp>>
  BY DEF AddWaiter, database
<1> HIDE DEF old, kept
<1>5. old \in Seq(WaitingCalls) /\ kept \in Seq(WaitingCalls)
  BY <1>3 DEF Within
<1>6. ToSet(old) = {old[i] : i \in 1..Len(old)}
  BY <1>5 DEF ToSet
<1>7. \A d \in WaitingCalls :
        channel'[d] = IF d = c THEN "open"
                      ELSE IF d \in ToSet(old) THEN "closed" ELSE channel[d]
  BY <1>4 DEF CloseAll
<1>8. /\ \A i \in 1..Len(kept) :
           kept[i] # c /\ kept[i] \notin ToSet(old) /\ kept[i] \in WaitingCalls
      /\ \A i \in 1..Len(detached) :
           /\ detached[i] # c /\ detached[i] \notin ToSet(old)
           /\ detached[i] \in WaitingCalls
      /\ \A i \in 1..Len(kept), j \in 1..Len(detached) : kept[i] # detached[j]
  <2>1. \A i \in 1..Len(kept) : Excess + i \in 1..Len(waiters) /\ kept[i] = waiters[Excess + i]
    BY <1>1, <1>2, <1>3 DEF HooksTypeOK
  <2>2. \A i \in 1..Len(old) : i \in 1..Len(waiters) /\ old[i] = waiters[i]
    BY <1>1, <1>2, <1>3 DEF HooksTypeOK
  <2>3. /\ \A i \in 1..Len(waiters) : waiters[i] # c /\ waiters[i] \in WaitingCalls
        /\ \A i \in 1..Len(detached) : detached[i] # c /\ detached[i] \in WaitingCalls
    BY <1>1, <1>4 DEF Open, HooksTypeOK
  <2>4. \A i \in 1..Len(kept) : kept[i] \notin ToSet(old)
    <3> SUFFICES ASSUME NEW i \in 1..Len(kept), NEW j \in 1..Len(old), kept[i] = old[j] PROVE FALSE
      BY <1>6
    <3>1. Excess + i = j
      BY <1>1, <2>1, <2>2 DEF Distinct
    <3> QED
      BY <1>2, <1>3, <3>1
  <2>5. \A i \in 1..Len(detached) : detached[i] \notin ToSet(old)
    BY <1>1, <1>6, <2>2
  <2> QED
    BY <1>1, <2>1, <2>3, <2>4, <2>5
<1>9. /\ waiters' \in Seq(WaitingCalls) /\ Len(waiters') = Len(kept) + 1
      /\ \A i \in 1..Len(kept) : waiters'[i] = kept[i]
      /\ waiters'[Len(kept) + 1] = c
  BY <1>4, <1>5
<1>10. Len(kept) \in Nat /\ Distinct(kept)
  BY <1>3, <1>5 DEF Within
<1>11. ~panicked'
  <2>1. \A i \in 1..Len(old) : channel[old[i]] = "open"
    <3>1. \A i \in 1..Len(old) : i \in 1..Len(waiters) /\ old[i] = waiters[i]
      BY <1>1, <1>2, <1>3 DEF HooksTypeOK
    <3> QED
      BY <1>1, <3>1 DEF Open
  <2> QED
    BY <1>1, <1>4, <1>6, <2>1 DEF ClosedTwice
<1>12. HooksTypeOK'
  <2>1. ToSet(old) \subseteq WaitingCalls
    BY <1>5, <1>6
  <2>2. CloseAll(old) \in [WaitingCalls -> {"none", "open", "closed"}]
    BY <1>1 DEF CloseAll, HooksTypeOK
  <2>3. /\ channel' \in [WaitingCalls -> {"none", "open", "closed"}]
        /\ pc' \in [WaitingCalls -> {"idle", "read", "select", "returned"}]
        /\ evicted' \subseteq WaitingCalls
    BY <1>1, <1>4, <2>1, <2>2 DEF HooksTypeOK
  <2>4. panicked' \in BOOLEAN
    BY <1>4 DEF ClosedTwice, HooksTypeOK, HooksInv
  <2> QED
    BY <1>1, <1>4, <1>9, <2>3, <2>4 DEF HooksTypeOK
<1>13. OwnedOnce'
  BY <1>1, <1>4, <1>8, <1>9, <1>10 DEF OwnedOnce, Distinct
<1>14. Open'
  <2>1. \A i \in 1..Len(kept) : channel[kept[i]] = "open" /\ pc[kept[i]] \in {"read", "select"}
    BY <1>1, <1>2, <1>3 DEF Open, HooksTypeOK
  <2>2. \A d \in WaitingCalls : d # c => pc'[d] = pc[d]
    BY <1>4
  <2>3. pc'[c] = "read" /\ channel'[c] = "open"
    BY <1>1, <1>4, <1>7 DEF HooksTypeOK
  <2>4. Len(waiters') <= MaximumWaitersPerHandle
    BY <1>1, <1>2, <1>3, <1>9, <1>10 DEF HooksTypeOK
  <2>5. \A i \in 1..Len(kept) : channel'[kept[i]] = "open" /\ pc'[kept[i]] \in {"read", "select"}
    BY <1>7, <1>8, <2>1, <2>2
  <2>6. \A i \in 1..Len(detached) : channel'[detached[i]] = "open" /\ pc'[detached[i]] # "idle"
    BY <1>1, <1>7, <1>8, <2>2 DEF Open
  <2> QED
    BY <1>4, <1>9, <1>10, <2>3, <2>4, <2>5, <2>6 DEF Open
<1>15. Evidence' /\ NoEarlyTimeout'
  BY <1>1, <1>4, <1>7 DEF Evidence, Ended, HooksInv, NoEarlyTimeout
<1> QED
  BY <1>11, <1>12, <1>13, <1>14, <1>15 DEF HooksInv, NeverPanics

\* The registry hands its waiters over as a whole, to one notification at a time.
LEMMA NotifyStep == ASSUME HooksAssumption, HooksInv, Notify PROVE HooksInv'
<1>1. /\ events > 0 /\ detached = <<>> /\ events' = events - 1
      /\ detached' = waiters /\ waiters' = <<>>
      /\ UNCHANGED <<status, published, channel, buffered, evicted, panicked, pc, last, answer,
                     hungUp>>
  BY DEF Notify
<1>2. Len(waiters') = 0
  BY <1>1
<1>3. HooksTypeOK'
  <2>1. waiters' \in Seq(WaitingCalls) /\ detached' \in Seq(WaitingCalls) /\ events' \in Nat
    BY <1>1 DEF HooksInv, HooksTypeOK
  <2> QED
    BY <1>1, <2>1 DEF HooksInv, HooksTypeOK
<1>4. OwnedOnce'
  BY <1>1, <1>2 DEF HooksInv, OwnedOnce, Distinct
<1>5. Open'
  <2>1. Len(waiters') <= MaximumWaitersPerHandle
    BY <1>2 DEF HooksAssumption
  <2> QED
    BY <1>1, <1>2, <2>1 DEF HooksInv, Open
<1>6. Evidence' /\ NeverPanics' /\ NoEarlyTimeout'
  BY <1>1 DEF HooksInv, HooksTypeOK, Evidence, Ended, NeverPanics, NoEarlyTimeout
<1> QED
  BY <1>3, <1>4, <1>5, <1>6 DEF HooksInv

\* Nobody but the notification can have closed the channel it serves.
LEMMA DeliverStep == ASSUME HooksInv, Deliver PROVE HooksInv'
<1> DEFINE h == Head(detached)
<1>1. /\ detached # <<>> /\ buffered' = buffered \cup {h} /\ channel' = CloseAll(<<h>>)
      /\ panicked' = ClosedTwice(<<h>>) /\ detached' = Tail(detached)
      /\ UNCHANGED <<status, events, published, waiters, evicted, pc, last, answer, hungUp>>
  BY DEF Deliver, database
<1>2. /\ HooksTypeOK /\ OwnedOnce /\ Open /\ Evidence /\ ~panicked
  BY DEF HooksInv, NeverPanics
<1>3. /\ h \in WaitingCalls /\ h = detached[1] /\ 1 \in 1..Len(detached)
      /\ detached' \in Seq(WaitingCalls) /\ Len(detached') = Len(detached) - 1
      /\ \A i \in 1..Len(detached') : detached'[i] = detached[i + 1] /\ i + 1 \in 1..Len(detached)
  BY <1>1, <1>2 DEF HooksTypeOK
<1>4. ToSet(<<h>>) = {h}
  BY DEF ToSet
<1> HIDE DEF h
<1>5. \A d \in WaitingCalls : channel'[d] = IF d = h THEN "closed" ELSE channel[d]
  BY <1>1, <1>4 DEF CloseAll
<1>6. /\ \A i \in 1..Len(waiters) : waiters[i] # h /\ waiters[i] \in WaitingCalls
      /\ \A i \in 1..Len(detached') : detached'[i] # h /\ detached'[i] \in WaitingCalls
  <2>1. \A i \in 1..Len(waiters) : waiters[i] # h /\ waiters[i] \in WaitingCalls
    <3>1. \A i \in 1..Len(waiters) : waiters[i] # detached[1]
      BY <1>2, <1>3 DEF OwnedOnce
    <3>2. \A i \in 1..Len(waiters) : waiters[i] \in WaitingCalls
      BY <1>2 DEF HooksTypeOK
    <3> QED
      BY <1>3, <3>1, <3>2
  <2>2. ASSUME NEW i \in 1..Len(detached') PROVE detached'[i] # h /\ detached'[i] \in WaitingCalls
    <3>1. i + 1 \in 1..Len(detached) /\ detached'[i] = detached[i + 1] /\ i + 1 # 1
      BY <1>3
    <3> QED
      BY <1>2, <1>3, <3>1 DEF OwnedOnce, Distinct, HooksTypeOK
  <2> QED
    BY <2>1, <2>2
<1>7. ~panicked'
  BY <1>1, <1>2, <1>3, <1>4 DEF ClosedTwice, Open
<1>8. HooksTypeOK'
  <2>1. channel' \in [WaitingCalls -> {"none", "open", "closed"}]
    BY <1>1, <1>2 DEF CloseAll, HooksTypeOK
  <2>2. panicked' \in BOOLEAN
    BY <1>7, <1>1 DEF ClosedTwice
  <2> QED
    BY <1>1, <1>2, <1>3, <2>1, <2>2 DEF HooksTypeOK
<1>9. OwnedOnce'
  <2>1. ASSUME NEW i \in 1..Len(detached'), NEW j \in 1..Len(detached'), detached'[i] = detached'[j]
        PROVE  i = j
    <3>1. i + 1 = j + 1
      BY <1>2, <1>3, <2>1 DEF OwnedOnce, Distinct
    <3> QED
      BY <3>1
  <2>2. \A i \in 1..Len(waiters), j \in 1..Len(detached') : waiters[i] # detached'[j]
    BY <1>2, <1>3 DEF OwnedOnce
  <2> QED
    BY <1>1, <1>2, <2>1, <2>2 DEF OwnedOnce, Distinct
<1>10. Open'
  <2>1. \A i \in 1..Len(detached') : channel'[detached'[i]] = "open" /\ pc[detached'[i]] # "idle"
    BY <1>2, <1>3, <1>5, <1>6 DEF Open
  <2> QED
    BY <1>1, <1>2, <1>5, <1>6, <2>1 DEF Open
<1>11. Evidence'
  BY <1>1, <1>2, <1>3, <1>5 DEF Evidence, Ended
<1>12. NoEarlyTimeout'
  BY <1>1 DEF HooksInv, NoEarlyTimeout
<1> QED
  BY <1>7, <1>8, <1>9, <1>10, <1>11, <1>12 DEF HooksInv, NeverPanics

\* A call that moves on without returning.
LEMMA GoesOn ==
  ASSUME HooksInv, NEW c \in WaitingCalls, pc[c] \in {"read", "select"},
         pc' = pc \/ pc' = [pc EXCEPT ![c] = "read"] \/ pc' = [pc EXCEPT ![c] = "select"],
         buffered' \subseteq buffered, hungUp \subseteq hungUp', hungUp' \subseteq WaitingCalls,
         last' = last \/ (last' = last \cup {c} /\ (c \in buffered \/ channel[c] = "closed")),
         UNCHANGED <<status, events, published, waiters, detached, channel, evicted, panicked,
                     answer>>
  PROVE  HooksInv'
<1>1. /\ pc' \in [WaitingCalls -> {"idle", "read", "select", "returned"}]
      /\ \A d \in WaitingCalls : d # c => pc'[d] = pc[d]
      /\ pc'[c] \in {"read", "select"}
  BY DEF HooksInv, HooksTypeOK
<1>2. HooksTypeOK'
  BY <1>1 DEF HooksInv, HooksTypeOK
<1>3. OwnedOnce' /\ NeverPanics' /\ NoEarlyTimeout'
  BY DEF HooksInv, OwnedOnce, Distinct, NeverPanics, NoEarlyTimeout
<1>4. Open'
  <2>1. /\ \A i \in 1..Len(waiters) : waiters[i] \in WaitingCalls
        /\ \A i \in 1..Len(detached) : detached[i] \in WaitingCalls
    BY DEF HooksInv, HooksTypeOK
  <2> QED
    BY <1>1, <2>1 DEF HooksInv, Open
<1>5. Evidence'
  <2>1. events' > 0 \/ detached' # <<>> \/ buffered' # {} => Ended'
    BY DEF HooksInv, Evidence, Ended
  <2>2. \A d \in WaitingCalls : channel'[d] = "closed" \/ d \in last' => d \in evicted' \/ Ended'
    BY DEF HooksInv, Evidence, Ended
  <2> QED
    BY <2>1, <2>2 DEF Evidence
<1> QED
  BY <1>2, <1>3, <1>4, <1>5 DEF HooksInv

\* A call returns and takes its channel out of the registry; a notification that owns the
\* channel by then delivers to nobody, which the buffer makes harmless.
LEMMA ReturnStep ==
  ASSUME HooksAssumption, HooksInv, NEW c \in WaitingCalls, pc[c] # "idle",
         NEW code \in {"200", "404", "408", "error"}, Return(c, code),
         code = "408" => c \in hungUp \cup evicted,
         UNCHANGED <<database, detached, channel, buffered, evicted, panicked, last, hungUp>>
  PROVE  HooksInv'
<1>1. /\ pc' = [pc EXCEPT ![c] = "returned"] /\ answer' = [answer EXCEPT ![c] = code]
      /\ waiters' = RemoveFirst(waiters, c)
      /\ UNCHANGED <<status, events, published>>
  BY DEF Return, database
<1>2. HooksTypeOK /\ Distinct(waiters) /\ Distinct(detached) /\ Open /\ Evidence
  BY DEF HooksInv, OwnedOnce
<1>3. Within(waiters', waiters) /\ \A i \in 1..Len(waiters') : waiters'[i] # c
  BY <1>1, <1>2, RemovedWithin DEF HooksTypeOK
<1>4. /\ waiters' \in Seq(WaitingCalls) /\ Len(waiters') <= Len(waiters) /\ Distinct(waiters')
      /\ \A i \in 1..Len(waiters') : \E j \in 1..Len(waiters) : waiters'[i] = waiters[j]
  BY <1>3 DEF Within
<1>5. /\ pc' \in [WaitingCalls -> {"idle", "read", "select", "returned"}]
      /\ answer' \in [WaitingCalls -> {"none", "200", "404", "408", "error"}]
      /\ pc'[c] = "returned" /\ answer'[c] = code
      /\ \A d \in WaitingCalls : d # c => pc'[d] = pc[d] /\ answer'[d] = answer[d]
  BY <1>1, <1>2 DEF HooksTypeOK
<1>6. HooksTypeOK'
  BY <1>1, <1>2, <1>4, <1>5 DEF HooksTypeOK
<1>7. OwnedOnce'
  <2>1. \A i \in 1..Len(waiters'), j \in 1..Len(detached) : waiters'[i] # detached[j]
    BY <1>4 DEF HooksInv, OwnedOnce
  <2> QED
    BY <1>2, <1>4, <2>1 DEF OwnedOnce, Distinct
<1>8. Open'
  <2>1. Len(waiters') <= MaximumWaitersPerHandle
    <3>1. Len(waiters') <= Len(waiters) /\ Len(waiters) <= MaximumWaitersPerHandle
      BY <1>2, <1>4 DEF Open
    <3> QED
      BY <1>2, <1>4, <3>1 DEF HooksTypeOK, HooksAssumption
  <2>2. \A i \in 1..Len(waiters') :
          channel'[waiters'[i]] = "open" /\ pc'[waiters'[i]] \in {"read", "select"}
    <3> SUFFICES ASSUME NEW i \in 1..Len(waiters')
                 PROVE  channel'[waiters'[i]] = "open" /\ pc'[waiters'[i]] \in {"read", "select"}
      OBVIOUS
    <3>1. PICK j \in 1..Len(waiters) : waiters'[i] = waiters[j]
      BY <1>4
    <3>2. waiters'[i] # c /\ waiters'[i] \in WaitingCalls
      BY <1>3, <1>4
    <3> QED
      BY <1>2, <1>5, <3>1, <3>2 DEF Open
  <2>3. \A i \in 1..Len(detached) : channel[detached[i]] = "open" /\ pc'[detached[i]] # "idle"
    <3>1. \A i \in 1..Len(detached) : detached[i] \in WaitingCalls
      BY <1>2 DEF HooksTypeOK
    <3> QED
      BY <1>2, <1>5, <3>1 DEF Open
  <2> QED
    BY <2>1, <2>2, <2>3 DEF Open
<1>9. Evidence'
  BY <1>1, <1>2 DEF Evidence, Ended
<1>10. NoEarlyTimeout'
  BY <1>5 DEF HooksInv, NoEarlyTimeout
<1>11. NeverPanics'
  BY DEF HooksInv, NeverPanics
<1> QED
  BY <1>6, <1>7, <1>8, <1>9, <1>10, <1>11 DEF HooksInv

\* The steps of a call.  "Not completed yet" after the last read means that the channel
\* fired because the call was displaced: otherwise the Deployment would have ended.
LEMMA CallStep ==
  ASSUME HooksAssumption, HooksInv, NEW c \in WaitingCalls, AddWaiter(c) \/ HangUp(c) \/ Handler(c)
  PROVE  HooksInv'
<1>1. CASE AddWaiter(c)
  BY <1>1, AddWaiterStep
<1>2. CASE HangUp(c)
  <2>1. /\ pc[c] \in {"read", "select"} /\ hungUp' = hungUp \cup {c} /\ pc' = pc
        /\ buffered' = buffered /\ last' = last
        /\ UNCHANGED <<status, events, published, waiters, detached, channel, evicted, panicked,
                       answer>>
    BY <1>2 DEF HangUp, database, registry
  <2>2. hungUp \subseteq hungUp' /\ hungUp' \subseteq WaitingCalls /\ buffered' \subseteq buffered
    BY <2>1 DEF HooksInv, HooksTypeOK
  <2> QED
    BY <2>1, <2>2, GoesOn
<1>3. CASE ReadStatus(c)
  <2>1. /\ pc[c] = "read"
        /\ UNCHANGED <<database, detached, channel, buffered, evicted, panicked, last, hungUp>>
    BY <1>3 DEF ReadStatus
  <2>2. CASE Return(c, "404") \/ Return(c, "200")
    BY <2>1, <2>2, ReturnStep
  <2>3. CASE Return(c, "408") /\ c \in last /\ status \notin {"deleted", "ended"}
    <3>1. c \in evicted
      BY <2>3 DEF HooksInv, HooksTypeOK, Evidence, Ended
    <3> QED
      BY <2>1, <2>3, <3>1, ReturnStep
  <2>4. CASE pc' = [pc EXCEPT ![c] = "select"] /\ UNCHANGED <<answer, waiters>>
    <3>1. /\ hungUp \subseteq hungUp' /\ hungUp' \subseteq WaitingCalls
          /\ buffered' \subseteq buffered
          /\ last' = last
          /\ UNCHANGED <<status, events, published, waiters, detached, channel, evicted, panicked,
                       answer>>
      BY <2>1, <2>4 DEF HooksInv, HooksTypeOK, database
    <3> QED
      BY <2>1, <2>4, <3>1, GoesOn
  <2> QED
    BY <1>3, <2>2, <2>3, <2>4 DEF ReadStatus
<1>4. CASE ChannelFires(c)
  <2>1. /\ pc[c] = "select" /\ (c \in buffered \/ channel[c] = "closed")
        /\ buffered' = buffered \ {c} /\ last' = last \cup {c} /\ pc' = [pc EXCEPT ![c] = "read"]
        /\ hungUp' = hungUp
        /\ UNCHANGED <<status, events, published, waiters, detached, channel, evicted, panicked,
                       answer>>
    BY <1>4 DEF ChannelFires, database
  <2>2. hungUp \subseteq hungUp' /\ hungUp' \subseteq WaitingCalls /\ buffered' \subseteq buffered
    BY <2>1 DEF HooksInv, HooksTypeOK
  <2> QED
    BY <2>1, <2>2, GoesOn
<1>5. CASE Poll(c)
  <2>1. /\ pc[c] = "select" /\ pc' = [pc EXCEPT ![c] = "read"]
        /\ buffered' = buffered /\ last' = last /\ hungUp' = hungUp
        /\ UNCHANGED <<status, events, published, waiters, detached, channel, evicted, panicked,
                       answer>>
    BY <1>5 DEF Poll, database, registry
  <2>2. hungUp \subseteq hungUp' /\ hungUp' \subseteq WaitingCalls /\ buffered' \subseteq buffered
    BY <2>1 DEF HooksInv, HooksTypeOK
  <2> QED
    BY <2>1, <2>2, GoesOn
<1>6. CASE ContextDone(c)
  BY <1>6, ReturnStep DEF ContextDone
<1>7. CASE ReadFails(c)
  BY <1>7, ReturnStep DEF ReadFails
<1> QED
  BY <1>1, <1>2, <1>3, <1>4, <1>5, <1>6, <1>7 DEF Handler

\* Every step keeps the invariant.
LEMMA NextHooks == ASSUME HooksAssumption PROVE HooksInv /\ [HooksNext]_hooksVars => HooksInv'
<1> SUFFICES ASSUME HooksInv, [HooksNext]_hooksVars PROVE HooksInv'
  OBVIOUS
<1>1. CASE UNCHANGED hooksVars \/ Quiet
  <2>1. UNCHANGED hooksVars
    BY <1>1 DEF Quiet
  <2> QED
    BY <2>1 DEF hooksVars, HooksInv, HooksTypeOK, OwnedOnce, Distinct, Open, Evidence, Ended,
         NeverPanics, NoEarlyTimeout
<1>2. CASE DeploymentEnds \/ EventAgain \/ DeploymentDeleted \/ EventLost
  BY <1>2, DatabaseStep
<1>3. CASE Notify \/ Deliver
  BY <1>3, NotifyStep, DeliverStep
<1>4. ASSUME NEW c \in WaitingCalls, AddWaiter(c) \/ HangUp(c) \/ Handler(c) PROVE HooksInv'
  BY <1>4, CallStep
<1> QED
  BY <1>1, <1>2, <1>3, <1>4 DEF HooksNext

\* For any number of waiting calls, any maximum and any number of events, lost or repeated:
\* no channel closes twice, nobody is told "not completed yet" without cause, and the
\* registry stays within its maximum and holds no call that returned (AddWaiter, Notify,
\* WaitForDeploymentComplete).
THEOREM CallsAreServed ==
  ASSUME HooksAssumption
  PROVE  HooksSpec => []WaitersServed
<1>1. HooksInv => WaitersServed
  <2> SUFFICES ASSUME HooksInv PROVE WaitersServed
    OBVIOUS
  <2>1. ToSet(waiters) = {waiters[i] : i \in 1..Len(waiters)}
    BY DEF HooksInv, HooksTypeOK, ToSet
  <2>2. RegistryBounded
    BY <2>1 DEF HooksInv, Open, RegistryBounded
  <2> QED
    BY <2>2 DEF HooksInv, WaitersServed
<1> QED
  BY <1>1, InitHooks, NextHooks, PTL DEF HooksSpec
==============================================================================
