-------------------------- MODULE ObservationProofs --------------------------
(***************************************************************************)
(* What the plugin is told of its requests holds, for any requests, bodies,*)
(* callers, replicas and crashes.                                          *)
(*                                                                         *)
(* The argument is about the lock of the request's identity.  A redeploy   *)
(* holds it while it asks Core, and everybody who decides the identity in  *)
(* one way or the other, by a receipt or by a seal, takes it: so what the  *)
(* redeploy found when it checked (Undecided) is still so when it commits, *)
(* and an identity is decided once.                                        *)
(***************************************************************************)
EXTENDS ObservationRequests, TLAPS

Pcs == {"replay", "lookup", "start", "check", "authorize", "create", "undo", "seal_absent", "resolve"}
Statuses == {"none", "executing", "succeeded", "failed"}
CallRecords == [pc : Pcs, q : Requests, content : Contents, base : Nat]
Told == [q : Requests, what : {"accepted", "skipped", "not_started"}]

ObservationTypeOK ==
  /\ receipt \in [Requests -> Receipts \cup {Nobody}]
  /\ seal \in [Requests -> Contents \cup {Nobody}]
  /\ run \in [Requests -> Statuses]
  /\ head \in Nat
  /\ caller \in [Callers -> CallRecords \cup {Idle}]
  /\ locks \subseteq (Requests \cup {"env"}) \X Callers
  /\ answers \subseteq Told

\* Which requests a call may be about.
Kinds ==
  \A c \in Callers :
    /\ caller[c].pc \in {"replay", "lookup", "start"} => caller[c].q \in Observations
    /\ caller[c].pc \in {"check", "authorize", "create", "undo", "seal_absent"} => caller[c].q \in Redeploys

\* A lock has one holder, and a redeploy in its transaction holds its request's.
Locking ==
  /\ \A k, l \in locks : k[1] = l[1] => k[2] = l[2]
  /\ \A c \in Callers : caller[c].pc \in {"authorize", "create", "undo"} => <<caller[c].q, c>> \in locks

\* What CheckRedeploy found and the request's lock preserves.
Undecided ==
  \A c \in Callers : caller[c].pc \in {"authorize", "create"} =>
    LET q == caller[c].q IN
    /\ seal[q] = Nobody /\ receipt[q] = Nobody
    /\ receipt[RunOf[q]] # Nobody /\ receipt[RunOf[q]].baseline = caller[c].base

\* An identity is decided by a receipt or by a seal, not by both.
DecidedOnce == \A q \in Requests : seal[q] = Nobody \/ receipt[q] = Nobody

Lineage ==
  \A q \in Redeploys : receipt[q] # Nobody =>
    receipt[RunOf[q]] # Nobody /\ receipt[q].baseline = receipt[RunOf[q]].baseline

\* "not_started" was said of a sealed or of a skipped request.
NegativeAnswers ==
  \A a \in answers : a.what = "not_started" =>
    seal[a.q] # Nobody \/ (receipt[a.q] # Nobody /\ receipt[a.q].disposition = "skipped")

Data == Undecided /\ DecidedOnce /\ Lineage /\ NegativeAnswers /\ RunHasReceipt
IInv == ObservationTypeOK /\ Kinds /\ Locking /\ Data
-----------------------------------------------------------------------------
\* Nothing is known of any request at first.
LEMMA InitIInv == Init => IInv
<1> SUFFICES ASSUME Init PROVE IInv
  OBVIOUS
<1>1. ObservationTypeOK
  BY DEF Init, ObservationTypeOK, Statuses
<1>2. \A c \in Callers : caller[c].pc = "idle"
  BY DEF Init, Idle
<1>3. Kinds /\ Locking
  BY <1>2 DEF Init, Kinds, Locking
<1>4. Data
  BY <1>2, ObservationAssumption DEF Init, Data, Undecided, DecidedOnce, Lineage, NegativeAnswers, RunHasReceipt, Requests
<1> QED BY <1>1, <1>3, <1>4 DEF IInv

\* The properties follow from the invariant.
LEMMA IInvSuffices == IInv => NotStartedIsFinal /\ RunHasReceipt /\ RedeploysWhatWasObserved
<1> SUFFICES ASSUME IInv PROVE NotStartedIsFinal /\ RunHasReceipt /\ RedeploysWhatWasObserved
  OBVIOUS
<1>1. RunHasReceipt /\ RedeploysWhatWasObserved
  BY DEF IInv, Data, Lineage, RedeploysWhatWasObserved
<1>2. NotStartedIsFinal
  <2> SUFFICES ASSUME NEW a \in answers, a.what = "not_started" PROVE run[a.q] = "none"
    BY DEF NotStartedIsFinal
  <2>1. a.q \in Requests
    BY DEF IInv, ObservationTypeOK, Told
  <2> QED BY <2>1 DEF IInv, Data, NegativeAnswers, DecidedOnce, RunHasReceipt
<1> QED BY <1>1, <1>2

\* The types of a call that is under way.
LEMMA CallTyped ==
  ASSUME IInv, NEW c \in Callers, caller[c].pc # "idle"
  PROVE /\ caller[c] \in CallRecords /\ caller[c].q \in Requests /\ caller[c].content \in Contents
        /\ caller[c].content # Nobody /\ caller[c].base \in Nat
BY ObservationAssumption DEF IInv, ObservationTypeOK, Idle, CallRecords

\* "missing" means undecided.
LEMMA Missing ==
  ASSUME NEW q \in Requests, NEW content \in Contents, Refusal(q, content) = "missing", ObservationTypeOK
  PROVE seal[q] = Nobody /\ receipt[q] = Nobody
BY DEF Refusal, ObservationTypeOK, Receipts

\* "accepted" and "skipped" are read from the receipt.
LEMMA FromReceipt ==
  ASSUME NEW q \in Requests, NEW content \in Contents, Refusal(q, content) \in {"accepted", "skipped"}
  PROVE receipt[q] # Nobody /\ receipt[q].disposition = Refusal(q, content)
BY DEF Refusal

\* "sealed" is read from the seal.
LEMMA FromSeal ==
  ASSUME NEW q \in Requests, NEW content \in Contents, Refusal(q, content) = "sealed", ObservationTypeOK
  PROVE seal[q] # Nobody
BY DEF Refusal, ObservationTypeOK, Receipts

\* A refusal is one of five words.
LEMMA RefusalTyped ==
  ASSUME NEW q \in Requests, NEW content \in Contents, ObservationTypeOK
  PROVE Refusal(q, content) \in {"sealed", "conflict", "accepted", "skipped", "missing"}
BY DEF Refusal, ObservationTypeOK, Receipts

\* A call's answer frees the call and says one thing of its request.
LEMMA AnswerFrees ==
  ASSUME NEW c \in Callers, NEW what, Answer(c, what)
  PROVE /\ caller' = [caller EXCEPT ![c] = Idle]
        /\ answers' = answers \/ (answers' = answers \cup {[q |-> caller[c].q, what |-> what]}
                                  /\ what \notin {"sealed", "conflict"})
BY DEF Answer, Fail
-----------------------------------------------------------------------------
(***************************************************************************)
(* Steps by what they may disturb                                          *)
(***************************************************************************)
\* Calls: how a step of one call keeps the kinds and the locks.
LEMMA CallStep ==
  ASSUME IInv, NEW c \in Callers, caller' \in [Callers -> CallRecords \cup {Idle}],
         \A d \in Callers : d # c => caller'[d] = caller[d],
         \/ caller'[c] = Idle
         \/ caller'[c].pc \in {"lookup", "start"} /\ caller'[c].q \in Observations
         \/ caller'[c].pc = "seal_absent" /\ caller'[c].q \in Redeploys
         \/ /\ caller'[c].pc \in {"create", "undo"} /\ caller[c].pc \in {"authorize", "create"}
            /\ caller'[c].q = caller[c].q /\ locks' = locks,
         locks' = locks \/ locks' = {k \in locks : k[2] # c}
  PROVE Kinds' /\ Locking' /\ locks' \subseteq (Requests \cup {"env"}) \X Callers
<1>1. Kinds'
  BY DEF IInv, Kinds, Idle
<1>2. locks' \subseteq locks /\ locks' \subseteq (Requests \cup {"env"}) \X Callers
  BY DEF IInv, ObservationTypeOK
<1>3. \A k, l \in locks' : k[1] = l[1] => k[2] = l[2]
  BY <1>2 DEF IInv, Locking
<1>4. ASSUME NEW d \in Callers, caller'[d].pc \in {"authorize", "create", "undo"}
      PROVE <<caller'[d].q, d>> \in locks'
  <2>1. CASE d = c
    BY <1>4, <2>1 DEF Idle, IInv, Locking
  <2>2. CASE d # c
    <3>1. <<caller[d].q, d>> \in locks /\ caller'[d] = caller[d]
      BY <1>4, <2>2 DEF IInv, Locking
    <3> QED BY <2>2, <3>1
  <2> QED BY <2>1, <2>2
<1> QED BY <1>1, <1>2, <1>3, <1>4 DEF Locking

\* A step that decides nothing: receipts and seals stay, runs stay started or
\* not, and nothing new is said, or something that is not "not_started".
LEMMA QuietStep ==
  ASSUME IInv, ObservationTypeOK', receipt' = receipt, seal' = seal,
         \A q \in Requests : run'[q] = "none" <=> run[q] = "none",
         \A a \in answers' : a \in answers \/ a.what # "not_started",
         \A c \in Callers : caller'[c].pc \in {"authorize", "create"} =>
           caller[c].pc \in {"authorize", "create"} /\ caller'[c].q = caller[c].q /\ caller'[c].base = caller[c].base
  PROVE Data'
<1>1. Undecided'
  BY DEF IInv, Data, Undecided
<1>2. DecidedOnce' /\ Lineage'
  BY DEF IInv, Data, DecidedOnce, Lineage
<1>3. NegativeAnswers'
  BY DEF IInv, Data, NegativeAnswers
<1>4. RunHasReceipt'
  BY DEF IInv, Data, RunHasReceipt
<1> QED BY <1>1, <1>2, <1>3, <1>4 DEF Data

\* A step of the world around the requests.
LEMMA OutsideStep ==
  ASSUME IInv, receipt' = receipt, seal' = seal, caller' = caller, locks' = locks, answers' = answers,
         head' \in Nat, run' \in [Requests -> Statuses],
         \A q \in Requests : run'[q] = "none" <=> run[q] = "none"
  PROVE IInv'
<1>1. ObservationTypeOK'
  BY DEF IInv, ObservationTypeOK
<1>2. Kinds' /\ Locking'
  BY DEF IInv, Kinds, Locking
<1>3. Data'
  BY <1>1, QuietStep
<1> QED BY <1>1, <1>2, <1>3 DEF IInv

\* A request that nobody else can be deciding is decided, by a receipt with the
\* run that belongs to it or by a seal.
LEMMA DecideStep ==
  ASSUME IInv, ObservationTypeOK', NEW q \in Requests, seal[q] = Nobody, receipt[q] = Nobody,
         \A p \in Requests : p # q => seal'[p] = seal[p] /\ receipt'[p] = receipt[p] /\ run'[p] = run[p],
         seal'[q] = Nobody \/ receipt'[q] = Nobody,
         run'[q] # "none" <=> (receipt'[q] # Nobody /\ receipt'[q].disposition = "accepted"),
         q \in Redeploys /\ receipt'[q] # Nobody =>
           receipt[RunOf[q]] # Nobody /\ receipt'[q].baseline = receipt[RunOf[q]].baseline,
         \A a \in answers' : a.what = "not_started" =>
           a \in answers \/ (a.q = q /\ (seal'[q] # Nobody \/ (receipt'[q] # Nobody /\ receipt'[q].disposition = "skipped"))),
         \A c \in Callers : caller'[c].pc \in {"authorize", "create"} =>
           caller[c].pc \in {"authorize", "create"} /\ caller'[c] = caller[c] /\ caller[c].q # q
  PROVE Data'
<1> USE DEF IInv, Data
<1>1. Redeploys \subseteq Requests /\ \A p \in Redeploys : RunOf[p] \in Requests
  BY ObservationAssumption DEF Requests
<1>2. Undecided'
  <2> SUFFICES ASSUME NEW c \in Callers, caller'[c].pc \in {"authorize", "create"}
               PROVE LET p == caller'[c].q IN
                     /\ seal'[p] = Nobody /\ receipt'[p] = Nobody
                     /\ receipt'[RunOf[p]] # Nobody /\ receipt'[RunOf[p]].baseline = caller'[c].base
    BY DEF Undecided
  <2>1. caller[c].pc \in {"authorize", "create"} /\ caller'[c] = caller[c] /\ caller[c].q # q /\ caller[c].q \in Redeploys
    BY DEF Kinds
  <2>2. LET p == caller[c].q IN
          /\ seal[p] = Nobody /\ receipt[p] = Nobody
          /\ receipt[RunOf[p]] # Nobody /\ receipt[RunOf[p]].baseline = caller[c].base
    BY <2>1 DEF Undecided
  <2> QED BY <1>1, <2>1, <2>2
<1>3. DecidedOnce'
  BY DEF DecidedOnce
<1>4. Lineage'
  <2> SUFFICES ASSUME NEW p \in Redeploys, receipt'[p] # Nobody
               PROVE receipt'[RunOf[p]] # Nobody /\ receipt'[p].baseline = receipt'[RunOf[p]].baseline
    BY DEF Lineage
  <2>1. receipt[RunOf[p]] # Nobody /\ receipt'[p].baseline = receipt[RunOf[p]].baseline
    BY <1>1 DEF Lineage
  <2> QED BY <1>1, <2>1
<1>5. NegativeAnswers'
  <2> SUFFICES ASSUME NEW a \in answers', a.what = "not_started"
               PROVE seal'[a.q] # Nobody \/ (receipt'[a.q] # Nobody /\ receipt'[a.q].disposition = "skipped")
    BY DEF NegativeAnswers
  <2>1. CASE a \in answers
    <3>1. a.q \in Requests
      BY <2>1 DEF ObservationTypeOK, Told
    <3> QED BY <2>1, <3>1 DEF NegativeAnswers
  <2>2. CASE a \notin answers
    BY <2>2
  <2> QED BY <2>1, <2>2
<1>6. RunHasReceipt'
  BY DEF RunHasReceipt
<1> QED BY <1>2, <1>3, <1>4, <1>5, <1>6

\* Whoever finds the request's lock free knows that no redeploy is deciding it.
LEMMA FreeLock ==
  ASSUME IInv, NEW q, Free(q), NEW c \in Callers, caller[c].pc \in {"authorize", "create", "undo"}
  PROVE caller[c].q # q
BY DEF IInv, Locking, Free

\* A call that ends, with its locks given up if it had some.
LEMMA Ended ==
  ASSUME IInv, NEW c \in Callers, caller' = [caller EXCEPT ![c] = Idle], locks' = locks \/ Drop(c)
  PROVE /\ caller' \in [Callers -> CallRecords \cup {Idle}] /\ Kinds' /\ Locking'
        /\ \A d \in Callers : caller'[d].pc \in {"authorize", "create"} => caller'[d] = caller[d] /\ d # c
        /\ locks' \subseteq (Requests \cup {"env"}) \X Callers
<1>1. caller' \in [Callers -> CallRecords \cup {Idle}] /\ caller'[c] = Idle
      /\ \A d \in Callers : d # c => caller'[d] = caller[d]
  BY DEF IInv, ObservationTypeOK
<1>2. Kinds' /\ Locking' /\ locks' \subseteq (Requests \cup {"env"}) \X Callers
  BY <1>1, CallStep DEF Drop
<1>3. \A d \in Callers : caller'[d].pc \in {"authorize", "create"} => caller'[d] = caller[d] /\ d # c
  BY <1>1 DEF Idle
<1> QED BY <1>1, <1>2, <1>3

\* A call that ends with an answer.
LEMMA Answered ==
  ASSUME IInv, NEW c \in Callers, caller[c].pc # "idle", locks' = locks \/ Drop(c),
         NEW what \in {"sealed", "conflict", "accepted", "skipped", "not_started"}, Answer(c, what)
  PROVE /\ caller' \in [Callers -> CallRecords \cup {Idle}] /\ Kinds' /\ Locking'
        /\ \A d \in Callers : caller'[d].pc \in {"authorize", "create"} => caller'[d] = caller[d] /\ d # c
        /\ locks' \subseteq (Requests \cup {"env"}) \X Callers
        /\ answers' \subseteq Told
        /\ \A a \in answers' : a \in answers \/ (a.q = caller[c].q /\ a.what = what)
<1>1. caller[c].q \in Requests
  BY CallTyped
<1>2. caller' = [caller EXCEPT ![c] = Idle]
  BY AnswerFrees
<1>3. answers' \subseteq Told /\ \A a \in answers' : a \in answers \/ (a.q = caller[c].q /\ a.what = what)
  BY <1>1, AnswerFrees DEF IInv, ObservationTypeOK, Told
<1> QED BY <1>2, <1>3, Ended

\* Observations are decided by TryStartObservation or by a resolution.
LEMMA StartStep ==
  ASSUME IInv, NEW c \in Callers, TryStartObservation(c)
  PROVE IInv'
<1> DEFINE q == caller[c].q
           content == caller[c].content
<1>1. /\ caller[c].pc = "start" /\ Free(q) /\ UNCHANGED <<seal, head, locks>>
      /\ q \in Observations /\ q \in Requests /\ content \in Contents
  BY CallTyped DEF TryStartObservation, Arbitrated, IInv, Kinds
<1>2. ASSUME NEW what \in {"sealed", "conflict", "accepted", "skipped"}, Answer(c, what)
      PROVE /\ caller' \in [Callers -> CallRecords \cup {Idle}] /\ Kinds' /\ Locking'
            /\ \A d \in Callers : caller'[d].pc \in {"authorize", "create"} => caller'[d] = caller[d] /\ d # c
            /\ locks' \subseteq (Requests \cup {"env"}) \X Callers
            /\ answers' \subseteq Told /\ \A a \in answers' : a \in answers \/ a.what # "not_started"
  BY <1>1, <1>2, Answered
<1>3. CASE Refusal(q, content) # "missing" /\ Answer(c, Refusal(q, content)) /\ UNCHANGED <<receipt, run, slots>>
  <2>1. Refusal(q, content) \in {"sealed", "conflict", "accepted", "skipped"}
    BY <1>1, <1>3, RefusalTyped DEF IInv
  <2>2. ObservationTypeOK'
    BY <1>1, <1>2, <1>3, <2>1 DEF IInv, ObservationTypeOK
  <2>3. Data'
    BY <1>1, <1>2, <1>3, <2>1, <2>2, QuietStep
  <2> QED BY <1>2, <1>3, <2>1, <2>2, <2>3 DEF IInv
<1>4. ASSUME Refusal(q, content) = "missing", NEW disposition \in {"accepted", "skipped"}, Answer(c, disposition),
             NEW baseline \in Nat \cup {Nobody}, NEW status \in Statuses,
             receipt' = [receipt EXCEPT ![q] = [content |-> content, disposition |-> disposition, baseline |-> baseline]],
             run' = [run EXCEPT ![q] = status], status # "none" <=> disposition = "accepted"
      PROVE IInv'
  <2> DEFINE r == [content |-> content, disposition |-> disposition, baseline |-> baseline]
  <2>1. r \in Receipts /\ r # Nobody
    BY <1>1, <1>4, ObservationAssumption DEF Receipts
  <2>2. seal[q] = Nobody /\ receipt[q] = Nobody
    BY <1>1, <1>4, Missing DEF IInv
  <2>3. ObservationTypeOK'
    BY <1>1, <1>2, <1>4, <2>1 DEF IInv, ObservationTypeOK
  <2>4. /\ receipt'[q] = r /\ run'[q] = status /\ seal' = seal
        /\ \A p \in Requests : p # q => receipt'[p] = receipt[p] /\ run'[p] = run[p]
    BY <1>1, <1>4 DEF IInv, ObservationTypeOK
  <2>5. q \notin Redeploys
    BY <1>1, ObservationAssumption
  <2>6. \A d \in Callers : caller'[d].pc \in {"authorize", "create"} => caller'[d] = caller[d] /\ caller[d].q # q
    BY <1>1, <1>2, <1>4, FreeLock
  <2>7. Data'
    BY <1>1, <1>2, <1>4, <2>1, <2>2, <2>3, <2>4, <2>5, <2>6, DecideStep
  <2> QED BY <1>2, <1>4, <2>3, <2>7 DEF IInv
<1>5. ASSUME Refusal(q, content) = "missing", Answer(c, "skipped"), UNCHANGED run,
             receipt' = [receipt EXCEPT ![q] = [content |-> content, disposition |-> "skipped", baseline |-> Nobody]]
      PROVE IInv'
  <2>1. run[q] = "none"
    BY <1>1, <1>5, Missing DEF IInv, Data, RunHasReceipt
  <2>2. run' = [run EXCEPT ![q] = "none"]
    BY <1>1, <1>5, <2>1 DEF IInv, ObservationTypeOK
  <2> QED BY <1>4, <1>5, <2>2 DEF Statuses
<1>6. ASSUME Refusal(q, content) = "missing", Answer(c, "accepted"), run' = [run EXCEPT ![q] = "executing"],
             receipt' = [receipt EXCEPT ![q] = [content |-> content, disposition |-> "accepted", baseline |-> head]]
      PROVE IInv'
  <2>1. head \in Nat
    BY DEF IInv, ObservationTypeOK
  <2> QED BY <1>4, <1>6, <2>1 DEF Statuses
<1>7. \/ Refusal(q, content) # "missing" /\ Answer(c, Refusal(q, content)) /\ UNCHANGED <<receipt, run, slots>>
      \/ /\ Refusal(q, content) = "missing" /\ Answer(c, "skipped") /\ UNCHANGED run
         /\ receipt' = [receipt EXCEPT ![q] = [content |-> content, disposition |-> "skipped", baseline |-> Nobody]]
      \/ /\ Refusal(q, content) = "missing" /\ Answer(c, "accepted") /\ run' = [run EXCEPT ![q] = "executing"]
         /\ receipt' = [receipt EXCEPT ![q] = [content |-> content, disposition |-> "accepted", baseline |-> head]]
  BY DEF TryStartObservation, RolledBack
<1> QED BY <1>3, <1>5, <1>6, <1>7

\* A call that ends without deciding anything or saying "not_started".
LEMMA EndQuietly ==
  ASSUME IInv, NEW c \in Callers, caller[c].pc # "idle", locks' = locks \/ Drop(c),
         receipt' = receipt, seal' = seal, run' = run, head' = head,
         \/ Fail(c)
         \/ caller' = [caller EXCEPT ![c] = Idle] /\ answers' = answers
         \/ \E what \in {"sealed", "conflict", "accepted", "skipped"} : Answer(c, what)
  PROVE IInv'
<1>1. /\ caller' \in [Callers -> CallRecords \cup {Idle}] /\ Kinds' /\ Locking'
      /\ \A d \in Callers : caller'[d].pc \in {"authorize", "create"} => caller'[d] = caller[d] /\ d # c
      /\ locks' \subseteq (Requests \cup {"env"}) \X Callers
      /\ answers' \subseteq Told /\ \A a \in answers' : a \in answers \/ a.what # "not_started"
  <2>1. CASE caller' = [caller EXCEPT ![c] = Idle] /\ answers' = answers
    BY <2>1, Ended DEF IInv, ObservationTypeOK
  <2>2. CASE \E what \in {"sealed", "conflict", "accepted", "skipped"} : Answer(c, what)
    BY <2>2, Answered
  <2> QED BY <2>1, <2>2 DEF Fail
<1>2. ObservationTypeOK'
  BY <1>1 DEF IInv, ObservationTypeOK
<1>3. Data'
  BY <1>1, <1>2, QuietStep
<1> QED BY <1>1, <1>2, <1>3 DEF IInv

\* A call that moves on without deciding anything.
LEMMA GotoStep ==
  ASSUME IInv, NEW c \in Callers, caller[c].pc # "idle", NEW pc, caller' = [caller EXCEPT ![c].pc = pc],
         receipt' = receipt, seal' = seal, run' = run, head' = head, answers' = answers,
         \/ pc \in {"lookup", "start"} /\ caller[c].q \in Observations /\ locks' = locks
         \/ pc = "seal_absent" /\ caller[c].q \in Redeploys /\ Drop(c)
         \/ pc \in {"create", "undo"} /\ caller[c].pc \in {"authorize", "create"} /\ locks' = locks
  PROVE IInv'
<1>1. /\ caller[c] \in CallRecords /\ pc \in Pcs
      /\ \A d \in Callers : d # c => caller'[d] = caller[d]
      /\ caller'[c] = [caller[c] EXCEPT !.pc = pc]
  BY CallTyped DEF IInv, ObservationTypeOK, Pcs
<1>2. caller'[c] \in CallRecords /\ caller'[c].pc = pc /\ caller'[c].q = caller[c].q /\ caller'[c].base = caller[c].base
  BY <1>1 DEF CallRecords
<1>3. caller' \in [Callers -> CallRecords \cup {Idle}]
  BY <1>1, <1>2 DEF IInv, ObservationTypeOK
<1>4. Kinds' /\ Locking' /\ locks' \subseteq (Requests \cup {"env"}) \X Callers
  BY <1>1, <1>2, <1>3, CallStep DEF Drop
<1>5. ObservationTypeOK'
  BY <1>3, <1>4 DEF IInv, ObservationTypeOK
<1>6. Data'
  BY <1>1, <1>2, <1>5, QuietStep
<1> QED BY <1>4, <1>5, <1>6 DEF IInv

\* A redeploy starts its transaction: it takes its locks with what it has read.
LEMMA CheckStep ==
  ASSUME IInv, NEW c \in Callers, CheckRedeploy(c)
  PROVE IInv'
<1> DEFINE q == caller[c].q
<1>1. /\ caller[c].pc = "check" /\ UNCHANGED <<receipt, seal, run, head>>
      /\ q \in Redeploys /\ q \in Requests /\ caller[c].content \in Contents /\ caller[c] \in CallRecords
  BY CallTyped DEF CheckRedeploy, IInv, Kinds, envVars
<1>2. CASE Refusal(q, caller[c].content) # "missing" /\ Answer(c, Refusal(q, caller[c].content)) /\ UNCHANGED locks
  <2>1. Refusal(q, caller[c].content) \in {"sealed", "conflict", "accepted", "skipped"}
    BY <1>1, <1>2, RefusalTyped DEF IInv
  <2> QED BY <1>1, <1>2, <2>1, EndQuietly
<1>3. CASE Fail(c) /\ UNCHANGED locks
  BY <1>1, <1>3, EndQuietly
<1>4. CASE /\ Refusal(q, caller[c].content) = "missing" /\ Free(q) /\ Free("env") /\ RedeployMatches(q)
           /\ Hold(c, {q, "env"}) /\ UNCHANGED answers
           /\ caller' = [caller EXCEPT ![c].pc = "authorize", ![c].base = head]
  <2>1. /\ seal[q] = Nobody /\ receipt[q] = Nobody
        /\ receipt[RunOf[q]] # Nobody /\ receipt[RunOf[q]].baseline = head /\ head \in Nat
    BY <1>1, <1>4, Missing DEF RedeployMatches, IInv, ObservationTypeOK
  <2>2. /\ \A d \in Callers : d # c => caller'[d] = caller[d]
        /\ caller'[c] = [caller[c] EXCEPT !.pc = "authorize", !.base = head]
    BY <1>4 DEF IInv, ObservationTypeOK
  <2>3. caller'[c] \in CallRecords /\ caller'[c].pc = "authorize" /\ caller'[c].q = q /\ caller'[c].base = head
    BY <1>1, <2>1, <2>2 DEF CallRecords, Pcs
  <2>4. locks' = locks \cup {<<q, c>>, <<"env", c>>} /\ \A k \in locks : k[1] # q /\ k[1] # "env"
    BY <1>4 DEF Hold, Free
  <2>5. ObservationTypeOK'
    BY <1>1, <1>4, <2>2, <2>3, <2>4 DEF IInv, ObservationTypeOK
  <2>6. Kinds'
    BY <1>1, <2>2, <2>3 DEF IInv, Kinds
  <2>7. Locking'
    <3>1. "env" # q
      BY <1>1, ObservationAssumption
    <3>2. \A k, l \in locks' : k[1] = l[1] => k[2] = l[2]
      <4> SUFFICES ASSUME NEW k \in locks', NEW l \in locks', k[1] = l[1] PROVE k[2] = l[2]
        OBVIOUS
      <4>1. CASE k \in locks /\ l \in locks
        BY <4>1 DEF IInv, Locking
      <4>2. CASE k \notin locks /\ l \notin locks
        BY <2>4, <4>2
      <4>3. CASE (k \in locks /\ l \notin locks) \/ (k \notin locks /\ l \in locks)
        BY <2>4, <4>3
      <4> QED BY <4>1, <4>2, <4>3
    <3>3. \A d \in Callers : caller'[d].pc \in {"authorize", "create", "undo"} => <<caller'[d].q, d>> \in locks'
      BY <2>2, <2>3, <2>4 DEF IInv, Locking
    <3> QED BY <3>2, <3>3 DEF Locking
  <2>8. Undecided'
    BY <1>1, <2>1, <2>2, <2>3 DEF IInv, Data, Undecided
  <2>9. DecidedOnce' /\ Lineage' /\ NegativeAnswers' /\ RunHasReceipt'
    BY <1>1, <1>4 DEF IInv, Data, DecidedOnce, Lineage, NegativeAnswers, RunHasReceipt
  <2> QED BY <2>5, <2>6, <2>7, <2>8, <2>9 DEF IInv, Data
<1> QED BY <1>2, <1>3, <1>4 DEF CheckRedeploy, Arbitrated, EnvironmentLocks

\* A redeploy commits: what it found is still so, because it holds the lock.
LEMMA CommitStep ==
  ASSUME IInv, NEW c \in Callers, CommitRedeploy(c)
  PROVE IInv'
<1> DEFINE q == caller[c].q
           r == [content |-> caller[c].content, disposition |-> "accepted", baseline |-> head]
<1>1. /\ caller[c].pc = "create" /\ seal' = seal /\ head \in Nat
      /\ q \in Redeploys /\ q \in Requests /\ caller[c].content \in Contents
  BY CallTyped DEF CommitRedeploy, IInv, Kinds, ObservationTypeOK
<1>2. CASE Goto(c, "undo") /\ UNCHANGED <<head, headState, run, admission, receipt, locks, answers>>
  BY <1>1, <1>2, GotoStep DEF Goto
<1>3. CASE /\ head = caller[c].base /\ head' = head + 1 /\ run' = [run EXCEPT ![q] = "executing"]
           /\ receipt' = [receipt EXCEPT ![q] = r] /\ Drop(c) /\ Answer(c, "accepted")
  <2>1. /\ seal[q] = Nobody /\ receipt[q] = Nobody
        /\ receipt[RunOf[q]] # Nobody /\ receipt[RunOf[q]].baseline = caller[c].base
    BY <1>1 DEF IInv, Data, Undecided
  <2>2. r \in Receipts /\ r # Nobody
    BY <1>1, ObservationAssumption DEF Receipts
  <2>3. /\ caller' \in [Callers -> CallRecords \cup {Idle}] /\ Kinds' /\ Locking'
        /\ \A d \in Callers : caller'[d].pc \in {"authorize", "create"} => caller'[d] = caller[d] /\ d # c
        /\ locks' \subseteq (Requests \cup {"env"}) \X Callers
        /\ answers' \subseteq Told
        /\ \A a \in answers' : a \in answers \/ a.what # "not_started"
    BY <1>1, <1>3, Answered
  <2>4. ObservationTypeOK'
    BY <1>1, <1>3, <2>2, <2>3 DEF IInv, ObservationTypeOK, Statuses
  <2>5. ASSUME NEW d \in Callers, caller'[d].pc \in {"authorize", "create"}
        PROVE caller'[d] = caller[d] /\ caller[d].q # q
    <3>1. <<q, c>> \in locks /\ <<caller[d].q, d>> \in locks /\ d # c /\ caller'[d] = caller[d]
      BY <1>1, <2>3, <2>5 DEF IInv, Locking
    <3>2. caller[d].q # q
      <4> SUFFICES ASSUME caller[d].q = q PROVE FALSE
        OBVIOUS
      <4>1. <<q, c>>[1] = <<caller[d].q, d>>[1] => <<q, c>>[2] = <<caller[d].q, d>>[2]
        BY <3>1 DEF IInv, Locking
      <4> QED BY <3>1, <4>1
    <3> QED BY <3>1, <3>2
  <2>6. /\ receipt'[q] = r /\ run'[q] = "executing"
        /\ \A p \in Requests : p # q => receipt'[p] = receipt[p] /\ run'[p] = run[p]
    BY <1>1, <1>3 DEF IInv, ObservationTypeOK
  <2>7. Data'
    BY <1>1, <1>3, <2>1, <2>2, <2>3, <2>4, <2>5, <2>6, DecideStep
  <2> QED BY <2>3, <2>4, <2>7 DEF IInv
<1> QED BY <1>2, <1>3 DEF CommitRedeploy

\* A resolution repeats what is decided, or decides that nothing has started.
LEMMA ResolveStep ==
  ASSUME IInv, NEW c \in Callers, ResolveObservationRequest(c) \/ ResolveObservationRedeploy(c)
  PROVE IInv'
<1> DEFINE q == caller[c].q
           refusal == Refusal(q, caller[c].content)
<1>1. /\ caller[c].pc = "resolve" /\ Free(q) /\ UNCHANGED <<receipt, run, head, locks>>
      /\ q \in Requests /\ caller[c].content \in Contents /\ caller[c].content # Nobody
  BY CallTyped DEF ResolveObservationRequest, ResolveObservationRedeploy, ResolveUnderLock, Arbitrated, envVars
<1>2. ASSUME Answer(c, "not_started")
      PROVE /\ caller' \in [Callers -> CallRecords \cup {Idle}] /\ Kinds' /\ Locking'
            /\ \A d \in Callers : caller'[d].pc \in {"authorize", "create"} => caller'[d] = caller[d] /\ d # c
            /\ locks' \subseteq (Requests \cup {"env"}) \X Callers
            /\ answers' \subseteq Told
            /\ \A a \in answers' : a \in answers \/ (a.q = q /\ a.what = "not_started")
  BY <1>1, <1>2, Answered
<1>3. CASE Fail(c) /\ UNCHANGED seal
  BY <1>1, <1>3, EndQuietly
<1>4. CASE refusal = "accepted" /\ Answer(c, "accepted") /\ UNCHANGED seal
  BY <1>1, <1>4, EndQuietly
<1>5. CASE refusal \in {"skipped", "sealed"} /\ Answer(c, "not_started") /\ UNCHANGED seal
  <2>1. seal[q] # Nobody \/ (receipt[q] # Nobody /\ receipt[q].disposition = "skipped")
    BY <1>1, <1>5, FromReceipt, FromSeal DEF IInv
  <2>2. ObservationTypeOK'
    BY <1>1, <1>2, <1>5 DEF IInv, ObservationTypeOK
  <2>3. Undecided' /\ DecidedOnce' /\ Lineage' /\ RunHasReceipt'
    BY <1>1, <1>2, <1>5 DEF IInv, Data, Undecided, DecidedOnce, Lineage, RunHasReceipt
  <2>4. NegativeAnswers'
    BY <1>1, <1>2, <1>5, <2>1 DEF IInv, Data, NegativeAnswers
  <2> QED BY <1>2, <1>5, <2>2, <2>3, <2>4 DEF IInv, Data
<1>6. CASE refusal = "missing" /\ SealObservationRequest(c)
  <2>1. seal' = [seal EXCEPT ![q] = caller[c].content] /\ Answer(c, "not_started")
    BY <1>6 DEF SealObservationRequest
  <2>2. seal[q] = Nobody /\ receipt[q] = Nobody
    BY <1>1, <1>6, Missing DEF IInv
  <2>3. run[q] = "none"
    BY <1>1, <2>2 DEF IInv, Data, RunHasReceipt
  <2>4. seal'[q] # Nobody /\ \A p \in Requests : p # q => seal'[p] = seal[p]
    BY <1>1, <2>1 DEF IInv, ObservationTypeOK
  <2>5. ObservationTypeOK'
    BY <1>1, <1>2, <2>1 DEF IInv, ObservationTypeOK
  <2>6. \A d \in Callers : caller'[d].pc \in {"authorize", "create"} => caller'[d] = caller[d] /\ caller[d].q # q
    BY <1>1, <1>2, <2>1, FreeLock
  <2>7. Data'
    BY <1>1, <1>2, <2>1, <2>2, <2>3, <2>4, <2>5, <2>6, DecideStep
  <2> QED BY <1>2, <2>1, <2>5, <2>7 DEF IInv
<1>7. refusal \in {"sealed", "conflict", "accepted", "skipped", "missing"}
  BY <1>1, RefusalTyped DEF IInv
<1>8. \/ Fail(c) /\ UNCHANGED seal
      \/ refusal = "accepted" /\ Answer(c, "accepted") /\ UNCHANGED seal
      \/ refusal \in {"skipped", "sealed"} /\ Answer(c, "not_started") /\ UNCHANGED seal
      \/ refusal = "missing" /\ SealObservationRequest(c)
  BY DEF ResolveObservationRequest, ResolveObservationRedeploy, Resolution
<1> QED BY <1>3, <1>4, <1>5, <1>6, <1>8

\* A call comes in.
LEMMA EnterStep ==
  ASSUME IInv, NEW c \in Callers, NEW q \in Requests, NEW content \in Contents, Call(c, q, content)
  PROVE IInv'
<1>1. PICK pc \in {"replay", "check", "resolve"} :
        Enter(c, q, content, pc) /\ (pc = "replay" => q \in Observations) /\ (pc = "check" => q \in Redeploys)
  BY DEF Call, HandleObservationStart, HandleObservationRedeploy, HandleObservationRequestResolve,
         HandleObservationRedeployResolve
<1>2. /\ caller' = [caller EXCEPT ![c] = [pc |-> pc, q |-> q, content |-> content, base |-> 0]]
      /\ UNCHANGED <<receipt, seal, run, head, locks, answers>>
  BY <1>1 DEF Enter, envVars
<1>3. [pc |-> pc, q |-> q, content |-> content, base |-> 0] \in CallRecords
  BY DEF CallRecords, Pcs
<1>4. /\ \A d \in Callers : d # c => caller'[d] = caller[d]
      /\ caller'[c] = [pc |-> pc, q |-> q, content |-> content, base |-> 0]
  BY <1>2 DEF IInv, ObservationTypeOK
<1>5. ObservationTypeOK'
  BY <1>2, <1>3 DEF IInv, ObservationTypeOK
<1>6. Kinds' /\ Locking'
  BY <1>1, <1>2, <1>4 DEF IInv, Kinds, Locking
<1>7. Data'
  BY <1>2, <1>4, <1>5, QuietStep
<1> QED BY <1>5, <1>6, <1>7 DEF IInv

\* Every step keeps the invariant.
LEMMA NextStep == IInv /\ Next => IInv'
<1> SUFFICES ASSUME IInv, Next PROVE IInv'
  OBVIOUS
<1>1. ASSUME NEW c \in Callers, ReplayObservationRequest(c) PROVE IInv'
  <2>1. /\ caller[c].pc = "replay" /\ UNCHANGED <<receipt, seal, run, head, locks>>
        /\ caller[c].q \in Observations /\ caller[c].q \in Requests /\ caller[c].content \in Contents
    BY <1>1, CallTyped DEF ReplayObservationRequest, envVars, IInv, Kinds
  <2>2. CASE Goto(c, "lookup") /\ UNCHANGED answers
    BY <2>1, <2>2, GotoStep DEF Goto
  <2>3. CASE Refusal(caller[c].q, caller[c].content) # "missing" /\ Answer(c, Refusal(caller[c].q, caller[c].content))
    BY <2>1, <2>3, RefusalTyped, EndQuietly DEF IInv
  <2> QED BY <1>1, <2>2, <2>3 DEF ReplayObservationRequest
<1>2. ASSUME NEW c \in Callers, LookupTarget(c) PROVE IInv'
  <2>1. /\ caller[c].pc = "lookup" /\ UNCHANGED <<receipt, seal, run, head, locks>> /\ caller[c].q \in Observations
        /\ (Goto(c, "start") /\ UNCHANGED answers) \/ Fail(c)
    BY <1>2 DEF LookupTarget, envVars, IInv, Kinds
  <2> QED BY <2>1, GotoStep, EndQuietly DEF Goto
<1>3. ASSUME NEW c \in Callers, AuthorizeRedeploy(c) PROVE IInv'
  BY <1>3, GotoStep DEF AuthorizeRedeploy, Goto, envVars
<1>4. ASSUME NEW c \in Callers, RollbackRedeploy(c) PROVE IInv'
  <2>1. caller[c].pc = "undo" /\ caller[c].q \in Redeploys
    BY <1>4 DEF RollbackRedeploy, IInv, Kinds
  <2> QED BY <1>4, <2>1, GotoStep DEF RollbackRedeploy, Goto, envVars
<1>5. ASSUME NEW c \in Callers, SealAbsent(c) PROVE IInv'
  BY <1>5, EndQuietly DEF SealAbsent, envVars
<1>6. ASSUME NEW c \in Callers, CallerDies(c) PROVE IInv'
  <2>1. caller[c].pc # "idle"
    BY <1>6 DEF CallerDies, IInv, ObservationTypeOK, CallRecords, Pcs
  <2> QED BY <1>6, <2>1, EndQuietly DEF CallerDies, envVars
<1>7. ASSUME NEW q \in Observations, DeadlinePasses(q) \/ StopProven(q) \/ ResultExpires(q) PROVE IInv'
  BY <1>7, OutsideStep DEF DeadlinePasses, StopProven, ResultExpires, envVars, IInv, ObservationTypeOK
<1>8. ASSUME NEW q \in Observations, RunEnds(q) PROVE IInv'
  <2>1. /\ run[q] = "executing" /\ UNCHANGED <<receipt, seal, head, caller, locks, answers>>
        /\ run' = [run EXCEPT ![q] = "succeeded"] \/ run' = [run EXCEPT ![q] = "failed"]
    BY <1>8 DEF RunEnds
  <2>2. run' \in [Requests -> Statuses] /\ head' \in Nat /\ \A p \in Requests : run'[p] = "none" <=> run[p] = "none"
    BY <2>1 DEF IInv, ObservationTypeOK, Statuses
  <2> QED BY <2>1, <2>2, OutsideStep
<1>9. CASE OtherDeployment \/ CleanerTicks
  BY <1>9, OutsideStep DEF OtherDeployment, CleanerTicks, IInv, ObservationTypeOK
<1>10. CASE DeploymentEnds
  <2>1. run' \in [Requests -> Statuses] /\ \A p \in Requests : run'[p] = "none" <=> run[p] = "none"
    BY <1>10 DEF DeploymentEnds, IInv, ObservationTypeOK, Statuses
  <2> QED BY <1>10, <2>1, OutsideStep DEF DeploymentEnds, IInv, ObservationTypeOK
<1> QED
  BY <1>1, <1>2, <1>3, <1>4, <1>5, <1>6, <1>7, <1>8, <1>9, <1>10,
     EnterStep, StartStep, CheckStep, CommitStep, ResolveStep DEF Next

\* Requests are decided once and what was found under their lock stays so.
THEOREM ObservationInvariant == Spec => []IInv
<1>1. IInv /\ UNCHANGED vars => IInv'
  BY OutsideStep DEF vars, envVars, IInv, ObservationTypeOK
<1> QED BY <1>1, InitIInv, NextStep, PTL DEF Spec

\* What the Control Plane was told has not started never runs, however starts,
\* redeploys and resolutions of one request overlap (LockObservationRequest).
THEOREM NotStartedForever == Spec => []NotStartedIsFinal
BY ObservationInvariant, IInvSuffices, PTL

\* Executions and accepting receipts correspond, through rollbacks and crashes,
\* and a redeploy's Deployment has the base its finding was made on
\* (TryStartObservation, HandleObservationRedeploy).
THEOREM LineageHolds == Spec => []RunLineage
<1>1. IInv => RunLineage
  BY IInvSuffices DEF RunLineage
<1> QED BY <1>1, ObservationInvariant, PTL
=============================================================================
