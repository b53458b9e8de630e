----------------------- MODULE DeploymentRequestsProofs -----------------------
(***************************************************************************)
(* Idempotency keys for any calls, requests and keys, however long the     *)
(* Environment lives: one key makes one Deployment within its window, and  *)
(* everybody who was answered finds their own request in the Deployment    *)
(* they were told of.  The properties speak of rows and answers; what      *)
(* makes them inductive is who holds a key's advisory lock in between, and *)
(* what the holder has looked up.                                          *)
(***************************************************************************)
EXTENDS DeploymentRequests, SequenceTheorems, WellFoundedInduction, TLAPS

-----------------------------------------------------------------------------
(***************************************************************************)
(* Types.                                                                  *)
(***************************************************************************)
Modes == {"deploy", "plan_only", "rollback", "rollback_plan", "destroy"}

Row == [key : Keys \cup {NoKey}, mode : Modes, manifest : {q.manifest : q \in Bodies},
        versions : {q.versions : q \in Bodies}, target : Nat, executing : BOOLEAN, recent : BOOLEAN]

Item == [key : Keys \cup {NoKey}, intent : {IntentSHA256(q) : q \in Bodies}, body : Bodies,
         state : {"queued", "dispatched", "rejected", "cancelled", "expired"},
         deployment : Nat, recent : BOOLEAN]

Steps == {"idle", "replay", "check", "begin", "compile", "prepare", "receipt", "authorize",
          "insert", "seal", "failed", "enqueue", "done"}
Failures == {"none", "refused", "error", "busy", "key refused"}
Kinds == {"none", "refused", "invalid", "key refused", "queued", "internal", "error", "panic",
          "created", "planned", "busy"}
Call == [pc : Steps, deleting : BOOLEAN, failure : Failures, answer : [kind : Kinds, ref : Nat]]

TypeInv ==
  /\ req \in [Calls -> Bodies] /\ call \in [Calls -> Call]
  /\ deps \in Seq(Row) /\ items \in Seq(Item)
  /\ keyLock \in [Keys -> Calls \cup {NoOne, Promoter}]
  /\ deleting \in BOOLEAN /\ promoter \in Nat

-----------------------------------------------------------------------------
(***************************************************************************)
(* The inductive invariant.                                                *)
(***************************************************************************)
\* The row r was made of the request q.
Made(r, q) ==
  /\ r.key = q.key /\ r.mode = ModelMode(q) /\ r.versions = q.versions /\ r.target = q.target
  /\ ~UsesLastGraph(r.mode) => r.manifest = q.manifest

\* No Deployment carries the key within its window.
Unused(k) == \A d \in DOMAIN deps : deps[d].key = k => ~deps[d].recent

\* The main transaction has looked for the key's Deployment and keeps others from making one.
HoldsKey(c) == call[c].pc \in {"compile", "prepare", "receipt", "authorize", "insert"} /\ Key(c) # NoKey

\* What a call has passed it need not check again.
CallChecked(c) ==
  /\ call[c].pc \notin {"idle", "done"} => ~Invalid(req[c])
  /\ call[c].pc \in {"replay", "check", "enqueue"} => Queueable(req[c])
  /\ call[c].pc = "replay" => Key(c) # NoKey
  /\ call[c].pc \in {"prepare", "receipt", "authorize", "insert"} => HasReference(req[c])

\* A call is answered with what was made of its own request.
CallAnswered(c) ==
  LET a == call[c].answer IN
  /\ a.kind # "internal"
  /\ a.kind = "created" => a.ref \in DOMAIN deps /\ Made(deps[a.ref], req[c])
  /\ a.kind = "queued" => /\ a.ref \in DOMAIN items
                          /\ items[a.ref].key = Key(c) /\ items[a.ref].intent = IntentSHA256(req[c])

CallInv(c) ==
  /\ CallChecked(c) /\ CallAnswered(c)
  /\ HoldsKey(c) => keyLock[Key(c)] = c /\ Unused(Key(c))

PromoterInv ==
  promoter # 0 =>
    /\ promoter \in Queued
    /\ PromotedKey(promoter) # NoKey =>
         keyLock[PromotedKey(promoter)] = Promoter /\ Unused(PromotedKey(promoter))

\* The queue holds requests that may wait, as they were sent.
AsSent(r) == ~Invalid(r.body) /\ Queueable(r.body) /\ r.key = r.body.key /\ r.intent = IntentSHA256(r.body)

ItemsTrue ==
  \A i \in DOMAIN items :
    /\ AsSent(items[i])
    /\ items[i].state = "dispatched" =>
         items[i].deployment \in DOMAIN deps /\ Made(deps[items[i].deployment], items[i].body)

RequestsInv ==
  TypeInv /\ (\A c \in Calls : CallInv(c)) /\ PromoterInv /\ OncePerKey /\ ItemsTrue

-----------------------------------------------------------------------------
(***************************************************************************)
(* Lookups.                                                                *)
(***************************************************************************)
\* Both ends of a set of row numbers are in it.
LEMMA Ends ==
  ASSUME NEW n \in Nat, NEW S \in SUBSET (1..n), S # {}
  PROVE  /\ Oldest(S) \in S
         /\ Newest(S) \in S
<1> DEFINE R == {ss \in Nat \X Nat : ss[1] < ss[2]}
<1>1. IsWellFoundedOn(R, Nat)
  BY NatLessThanWellFounded, Zenon DEF OpToRel
<1>2. ASSUME NEW T \in SUBSET Nat, T # {}
      PROVE  \E x \in T : \A y \in T : x <= y
  <2>1. \E x \in T : \A y \in T : ~(<<y, x>> \in R)
    <3> HIDE DEF R
    <3> QED BY <1>1, <1>2, WFMin, Zenon
  <2>2. PICK x \in T : \A y \in T : ~(<<y, x>> \in R)
    BY <2>1
  <2>3. ASSUME NEW y \in T PROVE x <= y
    <3>1. x \in Nat /\ y \in Nat /\ <<y, x>> \notin R
      BY <2>2, <2>3, <1>2
    <3>2. ~(y < x)
      BY <3>1
    <3> QED BY <3>1, <3>2
  <2> QED BY <2>3
<1>3. Oldest(S) \in S
  <2>1. S \in SUBSET Nat
    OBVIOUS
  <2>2. \E x \in S : \A y \in S : x <= y
    BY <1>2, <2>1
  <2> QED BY <2>2 DEF Oldest
<1>4. Newest(S) \in S
  <2> DEFINE T == {n - i : i \in S}
  <2>1. T \in SUBSET Nat /\ T # {}
    <3>1. ASSUME NEW i \in S PROVE n - i \in Nat
      <4>1. i \in Nat /\ i <= n
        OBVIOUS
      <4> QED BY <4>1
    <3> QED BY <3>1
  <2>2. PICK x \in T : \A y \in T : x <= y
    <3> HIDE DEF T
    <3> QED BY <2>1, <1>2
  <2>3. PICK i \in S : x = n - i
    BY <2>2
  <2>4. \A j \in S : j <= i
    <3>1. ASSUME NEW j \in S PROVE j <= i
      <4>1. n - i <= n - j
        BY <2>2, <2>3
      <4> QED BY <4>1
    <3> QED BY <3>1
  <2> QED BY <2>4 DEF Newest
<1> QED
  BY <1>3, <1>4

\* The lookup by key finds a Deployment that carries it within its window, if there is one.
LEMMA FindsDeployment ==
  ASSUME TypeInv, NEW k
  PROVE  /\ DeploymentOfKey(k) = 0 => Unused(k)
         /\ DeploymentOfKey(k) # 0 =>
              /\ DeploymentOfKey(k) \in DOMAIN deps
              /\ deps[DeploymentOfKey(k)].key = k
<1> DEFINE S == {d \in DOMAIN deps : deps[d].key = k /\ deps[d].recent}
<1>1. Len(deps) \in Nat /\ DOMAIN deps = 1..Len(deps)
  BY LenProperties DEF TypeInv
<1>2. S \in SUBSET (1..Len(deps)) /\ DeploymentOfKey(k) = Newest(S)
  BY <1>1 DEF DeploymentOfKey
<1>3. CASE S = {}
  BY <1>2, <1>3 DEF Newest, Unused
<1>4. CASE S # {}
  <2>1. Newest(S) \in S
    BY <1>1, <1>2, <1>4, Ends
  <2>2. Newest(S) \in DOMAIN deps /\ deps[Newest(S)].key = k /\ Newest(S) # 0
    BY <2>1, <1>1
  <2> QED BY <1>2, <2>2
<1> QED
  BY <1>3, <1>4

\* So does the lookup in the queue.
LEMMA FindsItem ==
  ASSUME TypeInv, NEW k, ItemOfKey(k) # 0
  PROVE  ItemOfKey(k) \in DOMAIN items /\ items[ItemOfKey(k)].key = k
<1> DEFINE S == {i \in DOMAIN items : items[i].key = k /\ items[i].recent}
<1>1. Len(items) \in Nat /\ DOMAIN items = 1..Len(items)
  BY LenProperties DEF TypeInv
<1>2. S \in SUBSET (1..Len(items)) /\ ItemOfKey(k) = Newest(S)
  BY <1>1 DEF ItemOfKey
<1>3. S # {}
  BY <1>2 DEF Newest
<1>4. Newest(S) \in S
  BY <1>1, <1>2, <1>3, Ends
<1> QED
  BY <1>2, <1>4

\* There is a state head once a Deployment took the lease.
LEMMA FindsHead ==
  ASSUME TypeInv
  PROVE  /\ StateHead # 0 <=> \E d \in DOMAIN deps : RequiresEnvironmentLease(deps[d].mode)
         /\ StateHead # 0 => StateHead \in DOMAIN deps
<1> DEFINE S == {d \in DOMAIN deps : RequiresEnvironmentLease(deps[d].mode)}
<1>1. Len(deps) \in Nat /\ DOMAIN deps = 1..Len(deps)
  BY LenProperties DEF TypeInv
<1>2. S \in SUBSET (1..Len(deps)) /\ StateHead = Newest(S)
  BY <1>1 DEF StateHead
<1>3. CASE S = {}
  BY <1>2, <1>3 DEF Newest
<1>4. CASE S # {}
  <2>1. Newest(S) \in S
    BY <1>1, <1>2, <1>4, Ends
  <2>2. Newest(S) \in DOMAIN deps /\ Newest(S) # 0
    BY <2>1, <1>1
  <2> QED BY <1>2, <2>2, <1>4
<1> QED
  BY <1>3, <1>4

\* The head of the queue waits.
LEMMA FindsWaiting ==
  ASSUME TypeInv, Queued # {}
  PROVE  Oldest(Queued) \in Queued
<1>1. Len(items) \in Nat /\ DOMAIN items = 1..Len(items)
  BY LenProperties DEF TypeInv
<1>2. Queued \in SUBSET (1..Len(items))
  BY <1>1 DEF Queued
<1> QED
  BY <1>1, <1>2, Ends

-----------------------------------------------------------------------------
(***************************************************************************)
(* What a step of one owner of locks, a call or the promoter, leaves to    *)
(* the others: rows keep what they were made of, at most one row is new    *)
(* and it carries a key that the owner holds, and the locks of others      *)
(* stay.                                                                   *)
(***************************************************************************)
SameRow(new, old) ==
  /\ new.key = old.key /\ new.mode = old.mode /\ new.manifest = old.manifest
  /\ new.versions = old.versions /\ new.target = old.target
  /\ new.recent => old.recent

RowsGrow(k) ==
  /\ deps' \in Seq(Row)
  /\ \A d \in DOMAIN deps : d \in DOMAIN deps' /\ SameRow(deps'[d], deps[d])
  /\ \A d, e \in DOMAIN deps' : d \notin DOMAIN deps /\ e \notin DOMAIN deps => d = e
  /\ \A d \in DOMAIN deps' : d \notin DOMAIN deps => deps'[d].key = k

Grows(owner) ==
  \E k \in Keys \cup {NoKey} :
    RowsGrow(k) /\ (k # NoKey => keyLock[k] = owner /\ Unused(k))

LocksKept(owner) ==
  /\ keyLock' \in [Keys -> Calls \cup {NoOne, Promoter}]
  /\ \A k \in Keys : keyLock[k] \notin {NoOne, owner} => keyLock'[k] = keyLock[k]

ItemsKept ==
  /\ items' \in Seq(Item)
  /\ \A i \in DOMAIN items :
       /\ i \in DOMAIN items'
       /\ items'[i].key = items[i].key /\ items'[i].intent = items[i].intent
       /\ items'[i].body = items[i].body

Frame(owner) == UNCHANGED req /\ LocksKept(owner) /\ Grows(owner) /\ ItemsKept

\* Where no Deployment is created there is no new row.
LEMMA SameRowsGrow ==
  ASSUME TypeInv, UNCHANGED deps, NEW owner
  PROVE  Grows(owner)
<1>1. RowsGrow(NoKey)
  BY DEF RowsGrow, SameRow, TypeInv
<1> QED
  BY <1>1 DEF Grows

\* A Deployment stays what it was made of.
LEMMA MadeStays ==
  ASSUME NEW k, RowsGrow(k), NEW d \in DOMAIN deps, NEW q, Made(deps[d], q)
  PROVE  d \in DOMAIN deps' /\ Made(deps'[d], q)
BY DEF RowsGrow, SameRow, Made

\* The reference of a request stays.
LEMMA ReferenceStays ==
  ASSUME TypeInv, TypeInv', NEW k, RowsGrow(k), NEW q, HasReference(q)
  PROVE  /\ q.target # 0 => q.target \in DOMAIN deps'
         /\ ModelMode(q) = "destroy" => StateHead' # 0
<1>1. q.target # 0 => q.target \in DOMAIN deps'
  BY DEF HasReference, RowsGrow
<1>2. ASSUME StateHead # 0 PROVE StateHead' # 0
  <2> DEFINE S == {e \in DOMAIN deps' : RequiresEnvironmentLease(deps'[e].mode)}
  <2>1. PICK d \in DOMAIN deps : RequiresEnvironmentLease(deps[d].mode)
    BY <1>2, FindsHead
  <2>2. d \in DOMAIN deps' /\ deps'[d].mode = deps[d].mode
    BY <2>1 DEF RowsGrow, SameRow
  <2>3. d \in S
    BY <2>1, <2>2
  <2>4. Len(deps') \in Nat /\ S \in SUBSET (1..Len(deps'))
    BY LenProperties DEF TypeInv
  <2>5. Newest(S) \in S
    BY <2>3, <2>4, Ends
  <2>6. Newest(S) # 0
    BY <2>4, <2>5
  <2>7. StateHead' = Newest(S)
    BY DEF StateHead, Newest
  <2> QED BY <2>6, <2>7
<1> QED
  BY <1>1, <1>2 DEF HasReference

\* A new row never repeats a key, since its owner found the key unused.
LEMMA OnceStays ==
  ASSUME OncePerKey, NEW owner, Grows(owner)
  PROVE  OncePerKey'
<1>1. PICK k \in Keys \cup {NoKey} : RowsGrow(k) /\ (k # NoKey => keyLock[k] = owner /\ Unused(k))
  BY DEF Grows
<1>2. SUFFICES ASSUME NEW a \in DOMAIN deps', NEW b \in DOMAIN deps',
                      deps'[a].key = deps'[b].key, deps'[a].key # NoKey,
                      deps'[a].recent, deps'[b].recent
               PROVE  a = b
  BY DEF OncePerKey
<1>3. CASE a \in DOMAIN deps /\ b \in DOMAIN deps
  BY <1>1, <1>2, <1>3 DEF RowsGrow, SameRow, OncePerKey
<1>4. CASE a \notin DOMAIN deps /\ b \notin DOMAIN deps
  BY <1>1, <1>4 DEF RowsGrow
<1>5. ASSUME NEW o \in DOMAIN deps, NEW n \in DOMAIN deps', n \notin DOMAIN deps,
             deps'[o].key = deps'[n].key, deps'[n].key # NoKey, deps'[o].recent
      PROVE  FALSE
  <2>1. deps'[n].key = k
    BY <1>1, <1>5 DEF RowsGrow
  <2>2. deps[o].key = k /\ deps[o].recent
    BY <1>1, <1>5, <2>1 DEF RowsGrow, SameRow
  <2> QED BY <1>1, <1>5, <2>1, <2>2 DEF Unused
<1> QED
  BY <1>2, <1>3, <1>4, <1>5

\* A key that somebody else holds gets no Deployment.
LEMMA UnusedStays ==
  ASSUME NEW owner, Frame(owner), NEW k \in Keys, Unused(k), keyLock[k] # owner, keyLock[k] # NoOne
  PROVE  Unused(k)' /\ keyLock'[k] = keyLock[k]
<1>1. PICK new \in Keys \cup {NoKey} : RowsGrow(new) /\ (new # NoKey => keyLock[new] = owner)
  BY DEF Frame, Grows
<1>2. NoKey \notin Keys
  BY DEF Keys
<1>3. new # k
  BY <1>1, <1>2
<1>4. Unused(k)'
  BY <1>1, <1>3 DEF RowsGrow, SameRow, Unused
<1> QED
  BY <1>4 DEF Frame, LocksKept

\* The call c as another owner's step leaves it.
LEMMA OthersKeep ==
  ASSUME RequestsAssumption, TypeInv, TypeInv', NEW owner, Frame(owner),
         NEW c \in Calls, c # owner, CallInv(c), call'[c] = call[c]
  PROVE  CallInv(c)'
<1>1. PICK k \in Keys \cup {NoKey} : RowsGrow(k)
  BY DEF Frame, Grows
<1>2. req'[c] = req[c]
  BY DEF Frame
<1>3. CallChecked(c)'
  <2>1. HasReference(req[c]) =>
          /\ req[c].target # 0 => req[c].target \in DOMAIN deps'
          /\ ModelMode(req[c]) = "destroy" => StateHead' # 0
    BY <1>1, ReferenceStays
  <2> QED BY <2>1, <1>2 DEF CallInv, CallChecked, Key, HasReference
<1>4. CallAnswered(c)'
  <2>1. call[c].answer.kind # "internal"
    BY DEF CallInv, CallAnswered
  <2>2. call[c].answer.kind = "created" =>
          call[c].answer.ref \in DOMAIN deps' /\ Made(deps'[call[c].answer.ref], req[c])
    BY <1>1, MadeStays DEF CallInv, CallAnswered
  <2>3. call[c].answer.kind = "queued" =>
          /\ call[c].answer.ref \in DOMAIN items'
          /\ items'[call[c].answer.ref].key = req[c].key
          /\ items'[call[c].answer.ref].intent = IntentSHA256(req[c])
    BY DEF CallInv, CallAnswered, Frame, ItemsKept, Key
  <2> QED BY <1>2, <2>1, <2>2, <2>3 DEF CallAnswered, Key
<1>5. HoldsKey(c)' => keyLock'[req'[c].key] = c /\ \A d \in DOMAIN deps' : deps'[d].key = req'[c].key => ~deps'[d].recent
  <2>1. SUFFICES ASSUME HoldsKey(c)
                 PROVE  keyLock'[req[c].key] = c /\ \A d \in DOMAIN deps' : deps'[d].key = req[c].key => ~deps'[d].recent
    BY <1>2 DEF HoldsKey, Key
  <2>2. req[c].key \in Keys
    BY <2>1 DEF HoldsKey, Key, Keys, TypeInv
  <2>3. keyLock[req[c].key] = c /\ Unused(req[c].key)
    BY <2>1 DEF CallInv, Key
  <2>4. c # NoOne
    BY DEF RequestsAssumption
  <2> QED BY <2>2, <2>3, <2>4, UnusedStays DEF Unused
<1> QED
  BY <1>3, <1>4, <1>5 DEF CallInv, Key, Unused

\* The promoter as another owner's step leaves it: its item still waits.
LEMMA PromoterKeeps ==
  ASSUME RequestsAssumption, TypeInv, PromoterInv, NEW owner, owner # Promoter, Frame(owner),
         promoter' = promoter,
         promoter \in DOMAIN items => items'[promoter].state = items[promoter].state
  PROVE  PromoterInv'
<1>1. CASE promoter = 0
  BY <1>1 DEF PromoterInv
<1>2. CASE promoter # 0
  <2>1. promoter \in Queued /\ promoter \in DOMAIN items
    BY <1>2 DEF PromoterInv, Queued
  <2>2. promoter \in Queued'
    BY <2>1 DEF Queued, Frame, ItemsKept
  <2>3. items'[promoter].key = items[promoter].key
    BY <2>1 DEF Frame, ItemsKept
  <2> DEFINE k == items[promoter].key
  <2>4. ASSUME k # NoKey
        PROVE  keyLock'[k] = Promoter /\ \A d \in DOMAIN deps' : deps'[d].key = k => ~deps'[d].recent
    <3>1. keyLock[k] = Promoter /\ Unused(k)
      BY <1>2, <2>4 DEF PromoterInv, PromotedKey
    <3>2. k \in Keys
      <4>1. items[promoter] \in Item
        BY <2>1, LenProperties, ElementOfSeq DEF TypeInv
      <4> QED BY <4>1, <2>4 DEF Item
    <3>3. Promoter # NoOne
      BY DEF RequestsAssumption
    <3> HIDE DEF k
    <3> QED BY <3>1, <3>2, <3>3, UnusedStays DEF Unused
  <2> QED BY <1>2, <2>2, <2>3, <2>4 DEF PromoterInv, PromotedKey, Unused
<1> QED
  BY <1>1, <1>2

\* Items that stay as they are, or are new and wait, stay true.
LEMMA ItemsStayTrue ==
  ASSUME ItemsTrue, NEW owner, Frame(owner),
         \A i \in DOMAIN items' : \/ i \in DOMAIN items /\ items'[i] = items[i]
                                  \/ AsSent(items'[i]) /\ items'[i].state # "dispatched"
  PROVE  ItemsTrue'
<1>1. PICK k \in Keys \cup {NoKey} : RowsGrow(k)
  BY DEF Frame, Grows
<1>2. SUFFICES ASSUME NEW i \in DOMAIN items', i \in DOMAIN items, items'[i] = items[i]
               PROVE  /\ AsSent(items'[i])
                      /\ items'[i].state = "dispatched" =>
                           /\ items'[i].deployment \in DOMAIN deps'
                           /\ Made(deps'[items'[i].deployment], items'[i].body)
  BY DEF ItemsTrue
<1>3. AsSent(items[i])
  BY <1>2 DEF ItemsTrue
<1>4. ASSUME items[i].state = "dispatched"
      PROVE  items[i].deployment \in DOMAIN deps' /\ Made(deps'[items[i].deployment], items[i].body)
  <2>1. items[i].deployment \in DOMAIN deps /\ Made(deps[items[i].deployment], items[i].body)
    BY <1>2, <1>4 DEF ItemsTrue
  <2> QED BY <1>1, <2>1, MadeStays
<1> QED
  BY <1>2, <1>3, <1>4

-----------------------------------------------------------------------------
(***************************************************************************)
(* A step of a call.                                                       *)
(***************************************************************************)
Moves(c) ==
  /\ call' \in [Calls -> Call]
  /\ \A o \in Calls : o # c => call'[o] = call[o]

CallFrame(c) ==
  /\ Frame(c) /\ Moves(c) /\ UNCHANGED <<deleting, promoter>>
  /\ \A i \in DOMAIN items : items'[i] = items[i]
  /\ \A i \in DOMAIN items' : i \notin DOMAIN items => AsSent(items'[i]) /\ items'[i].state = "queued"

\* What every step of a call must show: its frame and the invariant of its own call.
LEMMA CallSuffices ==
  ASSUME RequestsAssumption, RequestsInv, NEW c \in Calls, CallFrame(c), CallInv(c)'
  PROVE  RequestsInv'
<1>1. TypeInv'
  <2>1. deps' \in Seq(Row)
    BY DEF CallFrame, Frame, Grows, RowsGrow
  <2> QED BY <2>1 DEF RequestsInv, TypeInv, CallFrame, Frame, Moves, LocksKept, ItemsKept
<1>2. ASSUME NEW o \in Calls PROVE CallInv(o)'
  <2>1. CASE o = c
    BY <2>1
  <2>2. CASE o # c
    <3>1. call'[o] = call[o] /\ Frame(c) /\ CallInv(o) /\ TypeInv
      BY <2>2 DEF CallFrame, Moves, RequestsInv
    <3> QED BY <1>1, <2>2, <3>1, OthersKeep
  <2> QED BY <2>1, <2>2
<1>3. PromoterInv'
  BY PromoterKeeps DEF RequestsInv, CallFrame, RequestsAssumption
<1>4. OncePerKey'
  BY OnceStays DEF RequestsInv, CallFrame, Frame
<1>5. ItemsTrue'
  <2>1. \A i \in DOMAIN items' : \/ i \in DOMAIN items /\ items'[i] = items[i]
                                 \/ AsSent(items'[i]) /\ items'[i].state # "dispatched"
    BY DEF CallFrame
  <2> QED BY <2>1, ItemsStayTrue DEF RequestsInv, CallFrame
<1> QED
  BY <1>1, <1>2, <1>3, <1>4, <1>5 DEF RequestsInv

\* A call that goes on.
LEMMA Goes ==
  ASSUME TypeInv, NEW c \in Calls, NEW pc \in Steps, Goto(c, pc)
  PROVE  /\ Moves(c)
         /\ call'[c].pc = pc /\ call'[c].answer = call[c].answer
BY DEF TypeInv, Goto, Moves, Call

\* A call that is answered.
LEMMA Answers ==
  ASSUME TypeInv, NEW c \in Calls, NEW kind \in Kinds, NEW ref \in Nat, Answer(c, kind, ref)
  PROVE  /\ Moves(c)
         /\ call'[c].pc = "done" /\ call'[c].answer = [kind |-> kind, ref |-> ref]
BY DEF TypeInv, Answer, Moves, Call, Steps

\* A transaction that ends gives back its own locks only.
LEMMA Unlocks ==
  ASSUME TypeInv, NEW owner, keyLock' = Unlocked(keyLock, owner)
  PROVE  LocksKept(owner)
BY DEF TypeInv, Unlocked, LocksKept

\* A step that touches no table.
LEMMA QuietFrame ==
  ASSUME TypeInv, NEW c \in Calls, Moves(c), LocksKept(c), UNCHANGED <<req, deps, items, deleting, promoter>>
  PROVE  CallFrame(c)
<1>1. Grows(c)
  BY SameRowsGrow
<1>2. ItemsKept
  BY DEF ItemsKept, TypeInv
<1> QED
  BY <1>1, <1>2 DEF CallFrame, Frame

\* A call that changed no table and is refused or failed names nothing.
LEMMA QuietRefusal ==
  ASSUME RequestsAssumption, RequestsInv, NEW c \in Calls, Moves(c), LocksKept(c),
         UNCHANGED <<req, deps, items, deleting, promoter>>,
         call'[c].pc = "done", call'[c].answer.kind \in Kinds \ {"internal", "created", "queued"}
  PROVE  RequestsInv'
<1>1. CallFrame(c)
  BY QuietFrame DEF RequestsInv
<1>2. CallInv(c)'
  BY DEF CallInv, CallChecked, CallAnswered, HoldsKey
<1> QED
  BY <1>1, <1>2, CallSuffices

\* A rolled back transaction.
LEMMA Fails ==
  ASSUME RequestsAssumption, RequestsInv, NEW c \in Calls, call[c].pc \notin {"idle", "done"},
         NEW failure \in Failures, NEW prepared \in BOOLEAN, Fail(c, failure, prepared),
         UNCHANGED receipt
  PROVE  RequestsInv'
<1>1. Moves(c) /\ call'[c].pc \in {"seal", "failed"} /\ call'[c].answer = call[c].answer
  <2> DEFINE pc == IF prepared THEN "seal" ELSE "failed"
  <2>1. pc \in Steps /\ pc \in {"seal", "failed"}
    BY DEF Steps
  <2>2. call' = [call EXCEPT ![c].failure = failure, ![c].pc = pc]
    BY DEF Fail
  <2> HIDE DEF pc
  <2> QED BY <2>1, <2>2 DEF RequestsInv, TypeInv, Moves, Call
<1>2. LocksKept(c)
  BY Unlocks DEF Fail, RequestsInv
<1>3. CallFrame(c)
  BY <1>1, <1>2, QuietFrame DEF RequestsInv, Fail, tables
<1>4. CallInv(c)'
  BY <1>1 DEF Fail, RequestsInv, CallInv, CallChecked, CallAnswered, HoldsKey, Key, tables
<1> QED
  BY <1>3, <1>4, CallSuffices

\* A call that changed no table and goes on.
LEMMA QuietGo ==
  ASSUME RequestsAssumption, RequestsInv, NEW c \in Calls, Moves(c), LocksKept(c),
         UNCHANGED <<req, deps, items, deleting, promoter>>,
         call'[c].answer = call[c].answer, CallChecked(c)',
         HoldsKey(c)' => keyLock'[Key(c)] = c /\ Unused(Key(c))
  PROVE  RequestsInv'
<1>1. CallFrame(c)
  BY QuietFrame DEF RequestsInv
<1>2. CallAnswered(c)'
  BY DEF RequestsInv, CallInv, CallAnswered, Key
<1>3. CallInv(c)'
  BY <1>2 DEF CallInv, HoldsKey, Key, Unused
<1> QED
  BY <1>1, <1>3, CallSuffices

\* A call that changed no table and is answered with a Deployment or a queue item.
LEMMA QuietAnswer ==
  ASSUME RequestsAssumption, RequestsInv, NEW c \in Calls, Moves(c), LocksKept(c),
         UNCHANGED <<req, deps, items, deleting, promoter>>,
         call'[c].pc = "done", CallAnswered(c)'
  PROVE  RequestsInv'
<1>1. CallFrame(c)
  BY QuietFrame DEF RequestsInv
<1>2. CallInv(c)'
  BY DEF CallInv, CallChecked, HoldsKey
<1> QED
  BY <1>1, <1>2, CallSuffices

\* Locks that nobody touches.
LEMMA SameLocks ==
  ASSUME TypeInv, UNCHANGED keyLock, NEW owner
  PROVE  LocksKept(owner)
BY DEF TypeInv, LocksKept

\* A refused call.
LEMMA Refused ==
  ASSUME RequestsAssumption, RequestsInv, NEW c \in Calls, LocksKept(c),
         UNCHANGED <<req, deps, items, deleting, promoter>>,
         NEW kind \in Kinds \ {"internal", "created", "queued"}, NEW ref \in Nat, Answer(c, kind, ref)
  PROVE  RequestsInv'
<1>1. TypeInv /\ kind \in Kinds
  BY DEF RequestsInv
<1>2. Moves(c) /\ call'[c].pc = "done" /\ call'[c].answer = [kind |-> kind, ref |-> ref]
  BY <1>1, Answers
<1>3. call'[c].answer.kind = kind
  BY <1>2
<1> QED
  BY <1>2, <1>3, QuietRefusal

LEMMA ArriveStep ==
  ASSUME RequestsAssumption, RequestsInv, NEW c \in Calls, Arrive(c)
  PROVE  RequestsInv'
<1>1. LocksKept(c) /\ UNCHANGED <<req, deps, items, deleting, promoter, keyLock>>
  BY SameLocks DEF Arrive, RequestsInv, tables, locks
<1>2. ASSUME NEW kind \in {"refused", "invalid"}, Answer(c, kind, 0)
      PROVE  RequestsInv'
  BY <1>1, <1>2, Refused DEF Kinds
<1>3. ASSUME ~Invalid(req[c]), NEW pc \in {"replay", "check", "begin"},
             call' = [call EXCEPT ![c].deleting = deleting, ![c].pc = pc],
             pc \in {"replay", "check"} => Queueable(req[c]),
             pc = "replay" => req[c].key # NoKey
      PROVE  RequestsInv'
  <2>1. pc \in Steps
    BY DEF Steps
  <2>2. Moves(c) /\ call'[c].pc = pc /\ call'[c].answer = call[c].answer
    BY <1>3, <2>1 DEF RequestsInv, TypeInv, Moves, Call
  <2>3. CallChecked(c)' /\ ~HoldsKey(c)'
    BY <1>1, <1>3, <2>2 DEF CallChecked, HoldsKey, Key
  <2> QED BY <1>1, <2>2, <2>3, QuietGo
<1> DEFINE q == req[c]
           pc == IF Queueable(q) /\ q.key # NoKey THEN "replay"
                 ELSE IF Queueable(q) /\ q.whenBusy = "queue" THEN "check" ELSE "begin"
<1>4. \/ Answer(c, "refused", 0) \/ Answer(c, "invalid", 0)
      \/ ~Invalid(q) /\ call' = [call EXCEPT ![c].deleting = deleting, ![c].pc = pc]
  BY DEF Arrive
<1>5. pc \in {"replay", "check", "begin"} /\ (pc \in {"replay", "check"} => Queueable(q))
      /\ (pc = "replay" => q.key # NoKey)
  OBVIOUS
<1> HIDE DEF pc
<1> QED
  BY <1>2, <1>3, <1>4, <1>5

LEMMA FindReplayStep ==
  ASSUME RequestsAssumption, RequestsInv, NEW c \in Calls, FindReplay(c)
  PROVE  RequestsInv'
<1>1. LocksKept(c) /\ UNCHANGED <<req, deps, items, deleting, promoter, keyLock>>
  BY SameLocks DEF FindReplay, RequestsInv, tables, locks
<1>2. call[c].pc = "replay" /\ ~Invalid(req[c]) /\ Queueable(req[c]) /\ TypeInv
  BY DEF FindReplay, At, RequestsInv, CallInv, CallChecked
<1>3. ASSUME NEW pc \in {"begin", "check"}, Goto(c, pc)
      PROVE  RequestsInv'
  <2>1. Moves(c) /\ call'[c].pc = pc /\ call'[c].answer = call[c].answer
    BY <1>2, <1>3, Goes DEF Steps
  <2>2. CallChecked(c)' /\ ~HoldsKey(c)'
    BY <1>1, <1>2, <2>1 DEF CallChecked, HoldsKey, Key
  <2> QED BY <1>1, <2>1, <2>2, QuietGo
<1> DEFINE i == ItemOfKey(Key(c))
<1>4. CASE Answer(c, "key refused", 0)
  BY <1>1, <1>4, Refused DEF Kinds
<1>5. CASE i # 0 /\ items[i].intent = IntentSHA256(req[c]) /\ Answer(c, "queued", i)
  <2>1. i \in DOMAIN items /\ items[i].key = Key(c)
    BY <1>2, <1>5, FindsItem
  <2>2. i \in Nat /\ "queued" \in Kinds
    BY <2>1, <1>2, LenProperties DEF TypeInv, Kinds
  <2> HIDE DEF i
  <2>3. Moves(c) /\ call'[c].pc = "done" /\ call'[c].answer = [kind |-> "queued", ref |-> i]
    BY <1>2, <1>5, <2>2, Answers
  <2>4. CallAnswered(c)'
    BY <1>1, <1>5, <2>1, <2>3 DEF CallAnswered, Key
  <2> QED BY <1>1, <2>3, <2>4, QuietAnswer
<1>6. \/ Answer(c, "key refused", 0)
      \/ i # 0 /\ items[i].intent = IntentSHA256(req[c]) /\ Answer(c, "queued", i)
      \/ Goto(c, "begin") \/ Goto(c, "check")
  BY DEF FindReplay, AfterReplay
<1> HIDE DEF i
<1> QED
  BY <1>3, <1>4, <1>5, <1>6

LEMMA CheckStep ==
  ASSUME RequestsAssumption, RequestsInv, NEW c \in Calls, CheckEnvironmentAvailable(c)
  PROVE  RequestsInv'
<1>1. LocksKept(c) /\ UNCHANGED <<req, deps, items, deleting, promoter, keyLock>>
  BY SameLocks DEF CheckEnvironmentAvailable, RequestsInv, tables, locks
<1>2. call[c].pc = "check" /\ ~Invalid(req[c]) /\ Queueable(req[c]) /\ TypeInv
  BY DEF CheckEnvironmentAvailable, At, RequestsInv, CallInv, CallChecked
<1>3. ASSUME NEW pc \in {"enqueue", "begin"}, Goto(c, pc)
      PROVE  RequestsInv'
  <2>1. Moves(c) /\ call'[c].pc = pc /\ call'[c].answer = call[c].answer
    BY <1>2, <1>3, Goes DEF Steps
  <2>2. CallChecked(c)' /\ ~HoldsKey(c)'
    BY <1>1, <1>2, <2>1 DEF CallChecked, HoldsKey, Key
  <2> QED BY <1>1, <2>1, <2>2, QuietGo
<1>4. Answer(c, "refused", 0) \/ Goto(c, "enqueue") \/ Goto(c, "begin")
  BY DEF CheckEnvironmentAvailable
<1> QED
  BY <1>1, <1>3, <1>4, Refused DEF Kinds

\* The main transaction begins with the key's lock and the lookup of its Deployment.
LEMMA BeginStep ==
  ASSUME RequestsAssumption, RequestsInv, NEW c \in Calls, Begin(c)
  PROVE  RequestsInv'
<1> DEFINE q == req[c]
           d == DeploymentOfKey(q.key)
<1>1. UNCHANGED <<req, deps, items, deleting, promoter>> /\ TypeInv
  BY DEF Begin, tables, RequestsInv
<1>2. call[c].pc = "begin" /\ ~Invalid(q) /\ q \in Bodies
  BY DEF Begin, At, RequestsInv, CallInv, CallChecked, TypeInv
<1>3. ~(UsesLastGraph(ModelMode(q)) /\ q.manifest # NoManifest)
  <2>1. q.mode \in {"deploy", "plan_only", "rollback", "destroy"}
    BY <1>2 DEF RequestsAssumption
  <2> QED BY <1>2, <2>1 DEF Invalid, NeedsNoManifest, UsesLastGraph, ModelMode
<1>4. ASSUME UNCHANGED keyLock, NEW kind \in {"refused", "error", "key refused", "panic"},
             NEW ref \in Nat, Answer(c, kind, ref)
      PROVE  RequestsInv'
  <2>1. LocksKept(c)
    BY <1>1, <1>4, SameLocks
  <2>2. kind \in Kinds \ {"internal", "created", "queued"}
    BY DEF Kinds
  <2> QED BY <1>1, <1>4, <2>1, <2>2, Refused
<1>5. ASSUME KeyFree(q.key), q.key = NoKey \/ d = 0, Goto(c, "compile"), keyLock' = Locked(keyLock, q.key, c)
      PROVE  RequestsInv'
  <2>1. Moves(c) /\ call'[c].pc = "compile" /\ call'[c].answer = call[c].answer
    BY <1>1, <1>5, Goes DEF Steps
  <2>2. LocksKept(c)
    BY <1>1, <1>5 DEF KeyFree, Locked, LocksKept, TypeInv
  <2>3. CallChecked(c)'
    BY <1>1, <1>2, <2>1 DEF CallChecked
  <2>4. HoldsKey(c)' => keyLock'[Key(c)] = c /\ Unused(Key(c))
    <3>1. SUFFICES ASSUME q.key # NoKey PROVE keyLock'[q.key] = c /\ Unused(q.key)
      BY <1>1 DEF HoldsKey, Key
    <3>2. q.key \in Keys
      BY <1>2, <3>1 DEF Keys
    <3>3. keyLock'[q.key] = c
      BY <1>1, <1>5, <3>1, <3>2 DEF Locked, TypeInv
    <3>4. Unused(q.key)
      BY <1>1, <1>5, <3>1, FindsDeployment
    <3> QED BY <3>3, <3>4
  <2> QED BY <1>1, <2>1, <2>2, <2>3, <2>4, QuietGo
<1>6. ASSUME UNCHANGED keyLock, q.key # NoKey, d # 0, Replays(q, d), Answer(c, "created", d)
      PROVE  RequestsInv'
  <2>1. d \in DOMAIN deps /\ deps[d].key = q.key
    BY <1>1, <1>6, FindsDeployment
  <2>2. d \in Nat
    BY <1>1, <2>1, LenProperties DEF TypeInv
  <2>3. Made(deps[d], q)
    BY <1>6, <2>1 DEF Replays, Made, UsesLastGraph
  <2> HIDE DEF d
  <2>4. Moves(c) /\ call'[c].pc = "done" /\ call'[c].answer = [kind |-> "created", ref |-> d]
    BY <1>1, <1>6, <2>2, Answers DEF Kinds
  <2>5. CallAnswered(c)'
    BY <1>1, <2>1, <2>3, <2>4 DEF CallAnswered
  <2>6. LocksKept(c)
    BY <1>1, <1>6, SameLocks
  <2> QED BY <1>1, <2>4, <2>5, <2>6, QuietAnswer
<1>7. d \in Nat
  <2>1. d # 0 => d \in DOMAIN deps
    BY <1>1, FindsDeployment
  <2> QED BY <1>1, <2>1, LenProperties DEF TypeInv
<1>8. \/ UNCHANGED keyLock /\ (Answer(c, "refused", 0) \/ Answer(c, "error", 0))
      \/ KeyFree(q.key) /\ (q.key = NoKey \/ d = 0) /\ Goto(c, "compile") /\ keyLock' = Locked(keyLock, q.key, c)
      \/ /\ q.key # NoKey /\ d # 0 /\ UNCHANGED keyLock
         /\ \/ Answer(c, "key refused", 0)
            \/ Replays(q, d) /\ (Answer(c, "panic", d) \/ Answer(c, "created", d))
  <2> HIDE DEF d
  <2>1. \/ Answer(c, "refused", 0) /\ UNCHANGED keyLock
        \/ \E failure \in {"refused", "error"} : Answer(c, failure, 0) /\ UNCHANGED keyLock
        \/ /\ KeyFree(q.key)
           /\ IF q.key = NoKey \/ d = 0
              THEN Goto(c, "compile") /\ keyLock' = Locked(keyLock, q.key, c)
              ELSE /\ IF ~Replays(q, d) THEN Answer(c, "key refused", 0)
                      ELSE Answer(c, IF q.dryRun THEN "panic" ELSE "created", d)
                   /\ UNCHANGED keyLock
    BY <1>3 DEF Begin, d
  <2>2. \/ (IF q.dryRun THEN "panic" ELSE "created") = "panic"
        \/ (IF q.dryRun THEN "panic" ELSE "created") = "created"
    OBVIOUS
  <2> QED BY <2>1, <2>2
<1> HIDE DEF d
<1> QED
  BY <1>4, <1>5, <1>6, <1>7, <1>8

LEMMA CompileStep ==
  ASSUME RequestsAssumption, RequestsInv, NEW c \in Calls, Compile(c)
  PROVE  RequestsInv'
<1> DEFINE q == req[c]
<1>1. call[c].pc = "compile" /\ ~Invalid(q) /\ TypeInv
  BY DEF Compile, At, RequestsInv, CallInv, CallChecked
<1>2. CASE \E failure \in {"refused", "error"} : Fail(c, failure, FALSE)
  <2>1. PICK failure \in {"refused", "error"} : Fail(c, failure, FALSE)
    BY <1>2
  <2>2. failure \in Failures /\ UNCHANGED receipt
    BY <2>1 DEF Failures, Fail, tables
  <2> QED BY <1>1, <2>1, <2>2, Fails
<1>3. CASE /\ Answer(c, "planned", 0) /\ keyLock' = Unlocked(keyLock, c)
           /\ UNCHANGED <<req, tables, admLock, promoter>>
  <2>1. LocksKept(c) /\ "planned" \in Kinds \ {"internal", "created", "queued"}
    BY <1>1, <1>3, Unlocks DEF Kinds
  <2> QED BY <1>3, <2>1, Refused DEF tables
<1>4. ASSUME HasReference(q), NEW pc \in {"insert", "authorize", "prepare"}, Goto(c, pc),
             UNCHANGED <<req, tables, locks, promoter>>
      PROVE  RequestsInv'
  <2>1. Moves(c) /\ call'[c].pc = pc /\ call'[c].answer = call[c].answer
    BY <1>1, <1>4, Goes DEF Steps
  <2>2. UNCHANGED <<req, deps, items, deleting, promoter, keyLock>>
    BY <1>4 DEF tables, locks
  <2>3. CallChecked(c)'
    BY <1>1, <1>4, <2>1, <2>2 DEF CallChecked, HasReference, StateHead
  <2>4. HoldsKey(c)' => keyLock'[Key(c)] = c /\ Unused(Key(c))
    BY <1>1, <2>2 DEF HoldsKey, Key, RequestsInv, CallInv
  <2> QED BY <1>1, <2>1, <2>2, <2>3, <2>4, SameLocks, QuietGo
<1> DEFINE pc == IF ~RequiresEnvironmentLease(ModelMode(q)) THEN "insert"
                 ELSE IF q.key = NoKey THEN "authorize" ELSE "prepare"
<1>5. \/ \E failure \in {"refused", "error"} : Fail(c, failure, FALSE)
      \/ Answer(c, "planned", 0) /\ keyLock' = Unlocked(keyLock, c) /\ UNCHANGED <<req, tables, admLock, promoter>>
      \/ HasReference(q) /\ Goto(c, pc) /\ UNCHANGED <<req, tables, locks, promoter>>
  BY DEF Compile
<1>6. pc \in {"insert", "authorize", "prepare"}
  OBVIOUS
<1> HIDE DEF pc
<1> QED
  BY <1>2, <1>3, <1>4, <1>5, <1>6

\* The transaction goes on with the key's lock.
LEMMA HoldsOn ==
  ASSUME RequestsAssumption, RequestsInv, NEW c \in Calls,
         call[c].pc \in {"prepare", "receipt", "authorize"},
         NEW pc \in {"receipt", "authorize", "insert"}, Goto(c, pc),
         UNCHANGED <<req, deps, items, deleting, promoter, keyLock>>
  PROVE  RequestsInv'
<1>1. TypeInv /\ ~Invalid(req[c]) /\ HasReference(req[c])
  BY DEF RequestsInv, CallInv, CallChecked
<1>2. Moves(c) /\ call'[c].pc = pc /\ call'[c].answer = call[c].answer
  BY <1>1, Goes DEF Steps
<1>3. CallChecked(c)'
  BY <1>1, <1>2 DEF CallChecked, HasReference, StateHead
<1>4. HoldsKey(c)' => keyLock'[Key(c)] = c /\ Unused(Key(c))
  BY DEF HoldsKey, Key, RequestsInv, CallInv
<1> QED
  BY <1>1, <1>2, <1>3, <1>4, SameLocks, QuietGo

LEMMA PrepareStep ==
  ASSUME RequestsAssumption, RequestsInv, NEW c \in Calls, Prepare(c)
  PROVE  RequestsInv'
<1>1. call[c].pc = "prepare"
  BY DEF Prepare, At
<1>2. CASE Fail(c, "key refused", FALSE)
  <2>1. "key refused" \in Failures /\ UNCHANGED receipt
    BY <1>2 DEF Failures, Fail, tables
  <2> QED BY <1>1, <1>2, <2>1, Fails
<1>3. CASE Goto(c, "receipt") /\ UNCHANGED <<req, deps, items, deleting, locks, promoter>>
  BY <1>1, <1>3, HoldsOn DEF locks
<1> QED
  BY <1>2, <1>3 DEF Prepare

LEMMA GetReceiptStep ==
  ASSUME RequestsAssumption, RequestsInv, NEW c \in Calls, GetReceipt(c)
  PROVE  RequestsInv'
<1>1. call[c].pc = "receipt"
  BY DEF GetReceipt, At
<1>2. CASE Fail(c, "key refused", TRUE)
  <2>1. "key refused" \in Failures /\ UNCHANGED receipt
    BY <1>2 DEF Failures, Fail, tables
  <2> QED BY <1>1, <1>2, <2>1, Fails
<1>3. CASE Goto(c, "authorize") /\ UNCHANGED <<req, tables, keyLock, promoter>>
  BY <1>1, <1>3, HoldsOn DEF tables
<1> QED
  BY <1>2, <1>3 DEF GetReceipt

LEMMA AuthorizeCoreStep ==
  ASSUME RequestsAssumption, RequestsInv, NEW c \in Calls, AuthorizeCore(c)
  PROVE  RequestsInv'
<1>1. call[c].pc = "authorize"
  BY DEF AuthorizeCore, At
<1>2. CASE Goto(c, "insert") /\ UNCHANGED <<req, tables, locks, promoter>>
  BY <1>1, <1>2, HoldsOn DEF tables, locks
<1>3. ASSUME NEW failure \in {"busy", "refused", "error"}, Fail(c, failure, Key(c) # NoKey)
      PROVE  RequestsInv'
  <2>1. failure \in Failures /\ UNCHANGED receipt /\ (Key(c) # NoKey) \in BOOLEAN
    BY <1>3 DEF Failures, Fail, tables
  <2> QED BY <1>1, <1>3, <2>1, Fails
<1> QED
  BY <1>2, <1>3 DEF AuthorizeCore

-----------------------------------------------------------------------------
(***************************************************************************)
(* A new Deployment.                                                       *)
(***************************************************************************)
\* What is stored of a request.
LEMMA NewRow ==
  ASSUME RequestsAssumption, TypeInv, NEW q \in Bodies, HasReference(q), ~Invalid(q)
  PROVE  NewDeployment(q, q.key) \in Row /\ Made(NewDeployment(q, q.key), q)
<1>1. q.mode \in {"deploy", "plan_only", "rollback", "destroy"} /\ q.target \in Nat
  BY DEF RequestsAssumption
<1>2. ModelMode(q) \in Modes
  BY <1>1 DEF ModelMode, Modes
<1>3. StoredManifest(q) \in {p.manifest : p \in Bodies}
  <2>1. ASSUME NEW d \in DOMAIN deps PROVE deps[d].manifest \in {p.manifest : p \in Bodies}
    <3>1. deps[d] \in Row
      BY LenProperties, ElementOfSeq DEF TypeInv
    <3> QED BY <3>1 DEF Row
  <2>2. q.target # 0 => StoredManifest(q) = deps[q.target].manifest /\ q.target \in DOMAIN deps
    <3>1. q.target # 0 => ModelMode(q) # "destroy"
      BY DEF Invalid, ModelMode
    <3> QED BY <3>1 DEF StoredManifest, HasReference
  <2>3. q.target = 0 /\ ModelMode(q) = "destroy" =>
          StoredManifest(q) = deps[StateHead].manifest /\ StateHead \in DOMAIN deps
    BY FindsHead DEF StoredManifest, HasReference
  <2>4. q.target = 0 /\ ModelMode(q) # "destroy" => StoredManifest(q) = q.manifest
    BY DEF StoredManifest
  <2> QED BY <2>1, <2>2, <2>3, <2>4
<1>4. ~UsesLastGraph(ModelMode(q)) => StoredManifest(q) = q.manifest
  <2>1. q.target # 0 => q.mode = "rollback"
    BY DEF Invalid
  <2>2. q.mode = "rollback" => UsesLastGraph(ModelMode(q))
    BY DEF UsesLastGraph, ModelMode
  <2>3. ModelMode(q) = "destroy" => UsesLastGraph(ModelMode(q))
    BY DEF UsesLastGraph
  <2> QED BY <2>1, <2>2, <2>3 DEF StoredManifest
<1>5. q.key \in Keys \cup {NoKey} /\ q.versions \in {p.versions : p \in Bodies}
  BY DEF Keys
<1> QED
  BY <1>1, <1>2, <1>3, <1>4, <1>5 DEF NewDeployment, Row, Made

\* It is stored behind all others.
LEMMA AppendGrows ==
  ASSUME TypeInv, NEW r \in Row, deps' = Append(deps, r)
  PROVE  /\ RowsGrow(r.key)
         /\ Len(deps) + 1 \in DOMAIN deps' /\ deps'[Len(deps) + 1] = r /\ Len(deps) + 1 \in Nat
<1>1. Len(deps) \in Nat /\ DOMAIN deps = 1..Len(deps)
  BY LenProperties DEF TypeInv
<1>2. /\ deps' \in Seq(Row) /\ Len(deps') = Len(deps) + 1
      /\ \A i \in 1..Len(deps) : deps'[i] = deps[i]
      /\ deps'[Len(deps) + 1] = r
  BY AppendProperties DEF TypeInv
<1>3. DOMAIN deps' = 1..(Len(deps) + 1)
  BY <1>2, LenProperties
<1>4. \A d \in DOMAIN deps' : d \notin DOMAIN deps => d = Len(deps) + 1
  BY <1>1, <1>3
<1>5. \A d \in DOMAIN deps : d \in DOMAIN deps' /\ SameRow(deps'[d], deps[d])
  BY <1>1, <1>2, <1>3 DEF SameRow
<1> QED
  BY <1>1, <1>2, <1>3, <1>4, <1>5 DEF RowsGrow

LEMMA InsertStep ==
  ASSUME RequestsAssumption, RequestsInv, NEW c \in Calls, Insert(c)
  PROVE  RequestsInv'
<1> DEFINE q == req[c]
           mode == ModelMode(q)
           prepared == RequiresEnvironmentLease(mode) /\ q.key # NoKey
           n == Len(deps) + 1
<1>1. call[c].pc = "insert" /\ ~Invalid(q) /\ HasReference(q) /\ TypeInv /\ q \in Bodies
  BY DEF Insert, At, RequestsInv, CallInv, CallChecked, TypeInv
<1>2. ASSUME NEW failure \in {"busy", "error"}, Fail(c, failure, prepared)
      PROVE  RequestsInv'
  <2>1. failure \in Failures /\ UNCHANGED receipt /\ prepared \in BOOLEAN
    BY <1>2 DEF Failures, Fail, tables
  <2> HIDE DEF prepared
  <2> QED BY <1>1, <1>2, <2>1, Fails
<1>3. CASE /\ deps' = Append(deps, NewDeployment(q, q.key)) /\ Answer(c, "created", n)
           /\ keyLock' = Unlocked(keyLock, c) /\ UNCHANGED <<req, items, deleting, promoter>>
  <2> DEFINE r == NewDeployment(q, q.key)
  <2>1. r \in Row /\ Made(r, q)
    BY <1>1, NewRow
  <2>2. r.key = q.key
    BY <2>1 DEF Made
  <2>3. deps' = Append(deps, r)
    BY <1>3
  <2>4. RowsGrow(r.key) /\ n \in DOMAIN deps' /\ deps'[n] = r /\ n \in Nat
    <3> HIDE DEF r
    <3> QED BY <1>1, <2>1, <2>3, AppendGrows
  <2> HIDE DEF r, n
  <2>5. q.key # NoKey => keyLock[q.key] = c /\ Unused(q.key)
    BY <1>1 DEF RequestsInv, CallInv, HoldsKey, Key
  <2>6. Grows(c)
    BY <1>1, <2>2, <2>4, <2>5 DEF Grows, Keys
  <2>7. Moves(c) /\ call'[c].pc = "done" /\ call'[c].answer = [kind |-> "created", ref |-> n]
    BY <1>1, <1>3, <2>4, Answers DEF Kinds
  <2>8. LocksKept(c)
    BY <1>1, <1>3, Unlocks
  <2>9. CallFrame(c)
    BY <1>1, <1>3, <2>6, <2>7, <2>8 DEF CallFrame, Frame, ItemsKept, TypeInv
  <2>10. CallAnswered(c)'
    BY <1>3, <2>1, <2>4, <2>7 DEF CallAnswered
  <2>11. CallInv(c)'
    BY <2>7, <2>10 DEF CallInv, CallChecked, HoldsKey
  <2> QED BY <2>9, <2>11, CallSuffices
<1>4. \/ Fail(c, "busy", prepared) \/ Fail(c, "error", prepared)
      \/ /\ deps' = Append(deps, NewDeployment(q, q.key)) /\ Answer(c, "created", n)
         /\ keyLock' = Unlocked(keyLock, c) /\ UNCHANGED <<req, items, deleting, promoter>>
  BY DEF Insert
<1> QED
  BY <1>2, <1>3, <1>4

LEMMA SealStep ==
  ASSUME RequestsAssumption, RequestsInv, NEW c \in Calls, Seal(c)
  PROVE  RequestsInv'
<1>1. call[c].pc = "seal" /\ TypeInv /\ ~Invalid(req[c])
  BY DEF Seal, At, RequestsInv, CallInv, CallChecked
<1>2. UNCHANGED <<req, deps, items, deleting, promoter, keyLock>>
  BY DEF Seal, locks
<1>3. ASSUME NEW failure \in Failures, call' = [call EXCEPT ![c].pc = "failed", ![c].failure = failure]
      PROVE  RequestsInv'
  <2>1. "failed" \in Steps
    BY DEF Steps
  <2>2. Moves(c) /\ call'[c].pc = "failed" /\ call'[c].answer = call[c].answer
    BY <1>1, <1>3, <2>1 DEF TypeInv, Moves, Call
  <2>3. CallChecked(c)' /\ ~HoldsKey(c)'
    BY <1>1, <1>2, <2>2 DEF CallChecked, HoldsKey
  <2> QED BY <1>1, <1>2, <2>2, <2>3, SameLocks, QuietGo
<1>4. call[c].failure \in Failures /\ "error" \in Failures /\ "key refused" \in Failures
  BY <1>1 DEF TypeInv, Call, Failures
<1>5. \/ call' = [call EXCEPT ![c].pc = "failed", ![c].failure = "key refused"]
      \/ \E f \in {call[c].failure, "error"} : call' = [call EXCEPT ![c].pc = "failed", ![c].failure = f]
  BY DEF Seal
<1> QED
  BY <1>3, <1>4, <1>5

LEMMA FailedStep ==
  ASSUME RequestsAssumption, RequestsInv, NEW c \in Calls, Failed(c)
  PROVE  RequestsInv'
<1>1. call[c].pc = "failed" /\ TypeInv /\ ~Invalid(req[c])
  BY DEF Failed, At, RequestsInv, CallInv, CallChecked
<1>2. UNCHANGED <<req, deps, items, deleting, promoter, keyLock>> /\ LocksKept(c)
  BY <1>1, SameLocks DEF Failed, tables, locks
<1>3. CASE Queueable(req[c]) /\ Goto(c, "enqueue")
  <2>1. Moves(c) /\ call'[c].pc = "enqueue" /\ call'[c].answer = call[c].answer
    BY <1>1, <1>3, Goes DEF Steps
  <2>2. CallChecked(c)' /\ ~HoldsKey(c)'
    BY <1>1, <1>2, <1>3, <2>1 DEF CallChecked, HoldsKey
  <2> QED BY <1>1, <1>2, <2>1, <2>2, QuietGo
<1>4. CASE Answer(c, call[c].failure, 0)
  <2>1. call[c].failure \in Kinds \ {"internal", "created", "queued"}
    BY <1>1 DEF TypeInv, Call, Failures, Kinds
  <2> QED BY <1>2, <1>4, <2>1, Refused
<1> QED
  BY <1>3, <1>4 DEF Failed

LEMMA EnqueueStep ==
  ASSUME RequestsAssumption, RequestsInv, NEW c \in Calls, Enqueue(c)
  PROVE  RequestsInv'
<1> DEFINE q == req[c]
           i == IF q.key = NoKey THEN 0 ELSE ItemOfKey(q.key)
           n == Len(items) + 1
           r == [key |-> q.key, intent |-> IntentSHA256(q), body |-> q,
                 state |-> "queued", deployment |-> 0, recent |-> TRUE]
<1>1. call[c].pc = "enqueue" /\ TypeInv /\ ~Invalid(q) /\ Queueable(q) /\ q \in Bodies
  BY DEF Enqueue, At, RequestsInv, CallInv, CallChecked, TypeInv
<1>2. UNCHANGED <<req, deps, deleting, promoter, keyLock>> /\ LocksKept(c)
  BY <1>1, SameLocks DEF Enqueue, locks
<1>3. ASSUME NEW kind \in {"refused", "key refused"}, Answer(c, kind, 0), UNCHANGED items
      PROVE  RequestsInv'
  <2>1. kind \in Kinds \ {"internal", "created", "queued"}
    BY DEF Kinds
  <2> QED BY <1>2, <1>3, <2>1, Refused
<1>4. CASE i # 0 /\ items[i].intent = IntentSHA256(q) /\ Answer(c, "queued", i) /\ UNCHANGED items
  <2>1. i \in DOMAIN items /\ items[i].key = q.key
    BY <1>1, <1>4, FindsItem
  <2>2. i \in Nat
    BY <1>1, <2>1, LenProperties DEF TypeInv
  <2> HIDE DEF i
  <2>3. Moves(c) /\ call'[c].pc = "done" /\ call'[c].answer = [kind |-> "queued", ref |-> i]
    BY <1>1, <1>4, <2>2, Answers DEF Kinds
  <2>4. CallAnswered(c)'
    BY <1>2, <1>4, <2>1, <2>3 DEF CallAnswered, Key
  <2> QED BY <1>2, <1>4, <2>3, <2>4, QuietAnswer
<1>5. CASE items' = Append(items, r) /\ Answer(c, "queued", n)
  <2>1. r \in Item /\ AsSent(r) /\ r.state = "queued" /\ r.key = q.key /\ r.intent = IntentSHA256(q)
    BY <1>1 DEF Item, AsSent, Keys
  <2> HIDE DEF r
  <2>2. Len(items) \in Nat /\ DOMAIN items = 1..Len(items)
    BY <1>1, LenProperties DEF TypeInv
  <2>3. /\ items' \in Seq(Item) /\ Len(items') = Len(items) + 1
        /\ \A j \in 1..Len(items) : items'[j] = items[j]
        /\ items'[n] = r
    BY <1>1, <1>5, <2>1, AppendProperties DEF TypeInv
  <2>4. DOMAIN items' = 1..n
    BY <2>3, LenProperties
  <2>5. /\ \A j \in DOMAIN items : j \in DOMAIN items' /\ items'[j] = items[j]
        /\ \A j \in DOMAIN items' : j \notin DOMAIN items => items'[j] = r
        /\ n \in Nat /\ n \in DOMAIN items'
    BY <2>2, <2>3, <2>4
  <2> HIDE DEF n
  <2>6. Moves(c) /\ call'[c].pc = "done" /\ call'[c].answer = [kind |-> "queued", ref |-> n]
    BY <1>1, <1>5, <2>5, Answers DEF Kinds
  <2>7. ItemsKept /\ Grows(c)
    BY <1>1, <1>2, <2>3, <2>5, SameRowsGrow DEF ItemsKept
  <2>8. CallFrame(c)
    BY <1>2, <2>1, <2>5, <2>6, <2>7 DEF CallFrame, Frame
  <2>9. CallAnswered(c)'
    BY <1>2, <2>1, <2>3, <2>5, <2>6 DEF CallAnswered, Key
  <2>10. CallInv(c)'
    BY <2>6, <2>9 DEF CallInv, CallChecked, HoldsKey
  <2> QED BY <2>8, <2>10, CallSuffices
<1>6. \/ Answer(c, "refused", 0) /\ UNCHANGED items
      \/ i # 0 /\ items[i].intent = IntentSHA256(q) /\ Answer(c, "queued", i) /\ UNCHANGED items
      \/ Answer(c, "key refused", 0) /\ UNCHANGED items
      \/ items' = Append(items, r) /\ Answer(c, "queued", n)
  <2> HIDE DEF r, n
  <2> QED BY DEF Enqueue, r, n
<1> QED
  BY <1>3, <1>4, <1>5, <1>6

\* Whatever a call does.
LEMMA CallSteps ==
  ASSUME RequestsAssumption, RequestsInv, NEW c \in Calls, CallStep(c)
  PROVE  RequestsInv'
BY ArriveStep, FindReplayStep, CheckStep, BeginStep, CompileStep, PrepareStep, GetReceiptStep,
   AuthorizeCoreStep, InsertStep, SealStep, FailedStep, EnqueueStep DEF CallStep

-----------------------------------------------------------------------------
(***************************************************************************)
(* The promoter and the rest of the world.                                 *)
(***************************************************************************)
LEMMA WorldSuffices ==
  ASSUME RequestsAssumption, RequestsInv, NEW owner \in {NoOne, Promoter}, Frame(owner),
         UNCHANGED call, deleting' \in BOOLEAN, promoter' \in Nat, PromoterInv', ItemsTrue'
  PROVE  RequestsInv'
<1>1. TypeInv'
  <2>1. deps' \in Seq(Row)
    BY DEF Frame, Grows, RowsGrow
  <2> QED BY <2>1 DEF RequestsInv, TypeInv, Frame, LocksKept, ItemsKept
<1>2. ASSUME NEW c \in Calls PROVE CallInv(c)'
  <2>1. c # owner
    BY DEF RequestsAssumption
  <2> QED BY <1>1, <2>1, OthersKeep DEF RequestsInv
<1>3. OncePerKey'
  BY OnceStays DEF RequestsInv, Frame
<1> QED
  BY <1>1, <1>2, <1>3 DEF RequestsInv

\* A settled item keeps its request.
LEMMA Settles ==
  ASSUME TypeInv, NEW i \in DOMAIN items, NEW d \in Nat,
         NEW state \in {"dispatched", "rejected", "cancelled", "expired"}, items' = Settled(i, state, d)
  PROVE  /\ ItemsKept /\ DOMAIN items' = DOMAIN items
         /\ items'[i].state = state /\ items'[i].deployment = d
         /\ \A j \in DOMAIN items : j # i => items'[j] = items[j]
<1>1. items[i] \in Item /\ i \in 1..Len(items)
  BY LenProperties, ElementOfSeq DEF TypeInv
<1> DEFINE r == [items[i] EXCEPT !.state = state, !.deployment = d]
<1>2. /\ r \in Item /\ r.state = state /\ r.deployment = d
      /\ r.key = items[i].key /\ r.intent = items[i].intent /\ r.body = items[i].body
  BY <1>1 DEF Item
<1>3. items' = [items EXCEPT ![i] = r]
  BY DEF Settled
<1> HIDE DEF r
<1>4. items' \in Seq(Item) /\ Len(items') = Len(items)
      /\ \A j \in 1..Len(items) : items'[j] = IF j = i THEN r ELSE items[j]
  BY <1>1, <1>2, <1>3, ExceptSeq DEF TypeInv
<1>5. DOMAIN items' = DOMAIN items /\ DOMAIN items = 1..Len(items)
  BY <1>4, LenProperties DEF TypeInv
<1> QED
  BY <1>1, <1>2, <1>4, <1>5 DEF ItemsKept

\* An item that is dispatched to what was made of its request keeps the queue true.
LEMMA SettlesTruly ==
  ASSUME TypeInv, ItemsTrue, NEW owner, Frame(owner), NEW i \in DOMAIN items, NEW d \in Nat,
         NEW state \in {"dispatched", "rejected", "cancelled", "expired"}, items' = Settled(i, state, d),
         state = "dispatched" => d \in DOMAIN deps' /\ Made(deps'[d], items[i].body)
  PROVE  ItemsTrue'
<1>1. PICK k \in Keys \cup {NoKey} : RowsGrow(k)
  BY DEF Frame, Grows
<1>2. /\ ItemsKept /\ DOMAIN items' = DOMAIN items
      /\ items'[i].state = state /\ items'[i].deployment = d
      /\ \A j \in DOMAIN items : j # i => items'[j] = items[j]
  BY Settles
<1>3. ASSUME NEW j \in DOMAIN items
      PROVE  /\ AsSent(items'[j])
             /\ items'[j].state = "dispatched" =>
                  items'[j].deployment \in DOMAIN deps' /\ Made(deps'[items'[j].deployment], items'[j].body)
  <2>1. AsSent(items'[j]) /\ items'[j].body = items[j].body
    BY <1>2 DEF ItemsTrue, AsSent, ItemsKept
  <2>2. CASE j = i
    BY <1>2, <2>1, <2>2
  <2>3. CASE j # i /\ items[j].state = "dispatched"
    <3>1. items[j].deployment \in DOMAIN deps /\ Made(deps[items[j].deployment], items[j].body)
      BY <2>3 DEF ItemsTrue
    <3>2. items[j].deployment \in DOMAIN deps' /\ Made(deps'[items[j].deployment], items[j].body)
      BY <1>1, <3>1, MadeStays
    <3> QED BY <1>2, <2>1, <2>3, <3>2
  <2>4. CASE j # i /\ items[j].state # "dispatched"
    BY <1>2, <2>1, <2>4
  <2> QED BY <2>2, <2>3, <2>4
<1> QED
  BY <1>2, <1>3 DEF ItemsTrue

LEMMA PromoteStep ==
  ASSUME RequestsAssumption, RequestsInv, Promote
  PROVE  RequestsInv'
<1> DEFINE i == Oldest(Queued)
           k == PromotedKey(i)
           d == IF k = NoKey THEN 0 ELSE DeploymentOfKey(k)
<1>1. TypeInv /\ UNCHANGED <<req, call, deps, deleting>> /\ KeyFree(k) /\ promoter = 0
  BY DEF Promote, RequestsInv
<1>2. i \in Queued
  BY <1>1, FindsWaiting DEF Promote
<1>3. i \in DOMAIN items /\ i \in Nat
  BY <1>1, <1>2, LenProperties DEF Queued, TypeInv
<1> HIDE DEF i
<1>4. k = items[i].key /\ k \in Keys \cup {NoKey} /\ AsSent(items[i])
  <2>1. items[i] \in Item
    BY <1>1, <1>3, LenProperties, ElementOfSeq DEF TypeInv
  <2> QED BY <1>3, <2>1 DEF PromotedKey, Item, RequestsInv, ItemsTrue
<1>5. Grows(Promoter)
  BY <1>1, SameRowsGrow
<1>6. CASE d = 0 /\ promoter' = i /\ keyLock' = Locked(keyLock, k, Promoter) /\ UNCHANGED items
  <2>1. LocksKept(Promoter)
    BY <1>1, <1>4, <1>6 DEF KeyFree, Locked, LocksKept, TypeInv
  <2>2. Frame(Promoter)
    BY <1>1, <1>5, <1>6, <2>1 DEF Frame, ItemsKept, TypeInv
  <2>3. k # NoKey => keyLock'[k] = Promoter /\ Unused(k)
    BY <1>1, <1>4, <1>6, FindsDeployment DEF Locked, TypeInv
  <2>4. PromoterInv'
    <3>1. promoter' \in Queued'
      BY <1>2, <1>6 DEF Queued
    <3>2. items'[promoter'].key = k
      BY <1>4, <1>6
    <3> HIDE DEF k
    <3> QED BY <1>1, <2>3, <3>1, <3>2 DEF PromoterInv, PromotedKey, Unused
  <2>5. ItemsTrue'
    BY <1>1, <1>6 DEF RequestsInv, ItemsTrue
  <2> QED BY <1>1, <1>3, <1>6, <2>2, <2>4, <2>5, WorldSuffices DEF TypeInv
<1>7. ASSUME d # 0, UNCHANGED <<promoter, keyLock>>, NEW state \in {"dispatched", "rejected"},
             NEW e \in {0, d}, items' = Settled(i, state, e),
             state = "dispatched" => e = d /\ Replays(items[i].body, d)
      PROVE  RequestsInv'
  <2>1. d \in DOMAIN deps /\ deps[d].key = k /\ d \in Nat
    <3>1. d = DeploymentOfKey(k)
      BY <1>7
    <3>2. d \in DOMAIN deps /\ deps[d].key = k
      BY <1>1, <1>7, <3>1, FindsDeployment
    <3> HIDE DEF d
    <3> QED BY <1>1, <3>2, LenProperties DEF TypeInv
  <2> HIDE DEF d, k
  <2>2. ItemsKept
    BY <1>1, <1>3, <1>7, <2>1, Settles
  <2>3. Frame(Promoter)
    BY <1>1, <1>5, <1>7, <2>2, SameLocks DEF Frame
  <2>4. state = "dispatched" => Made(deps[d], items[i].body)
    BY <1>4, <1>7, <2>1 DEF Replays, Made, AsSent, UsesLastGraph
  <2>5. state = "dispatched" => e \in DOMAIN deps' /\ Made(deps'[e], items[i].body)
    BY <1>1, <1>7, <2>1, <2>4
  <2>6. ItemsTrue'
    BY <1>1, <1>3, <1>7, <2>1, <2>3, <2>5, SettlesTruly DEF RequestsInv
  <2>7. PromoterInv'
    BY <1>1, <1>7 DEF PromoterInv
  <2> QED BY <1>1, <1>7, <2>3, <2>6, <2>7, WorldSuffices DEF TypeInv
<1>8. \/ d = 0 /\ promoter' = i /\ keyLock' = Locked(keyLock, k, Promoter) /\ UNCHANGED items
      \/ /\ d # 0 /\ UNCHANGED <<promoter, keyLock>>
         /\ \/ Replays(items[i].body, d) /\ items' = Settled(i, "dispatched", d)
            \/ items' = Settled(i, "rejected", 0)
  <2> HIDE DEF d
  <2> QED BY DEF Promote, i, d
<1> HIDE DEF d, k
<1> QED
  BY <1>6, <1>7, <1>8

LEMMA EndPromotionStep ==
  ASSUME RequestsAssumption, RequestsInv, EndPromotion
  PROVE  RequestsInv'
<1> DEFINE i == promoter
           q == items[i].body
           k == items[i].key
           n == Len(deps) + 1
<1>1. TypeInv /\ UNCHANGED <<req, call, deleting>> /\ promoter' = 0 /\ i # 0
  BY DEF EndPromotion, RequestsInv
<1>2. i \in DOMAIN items /\ i \in Nat
  BY <1>1 DEF RequestsInv, PromoterInv, Queued, TypeInv
<1>3. k \in Keys \cup {NoKey} /\ AsSent(items[i]) /\ q \in Bodies
  <2>1. items[i] \in Item
    BY <1>1, <1>2, LenProperties, ElementOfSeq DEF TypeInv
  <2> QED BY <1>2, <2>1 DEF Item, RequestsInv, ItemsTrue
<1>4. k # NoKey => keyLock[k] = Promoter /\ Unused(k)
  BY <1>1 DEF RequestsInv, PromoterInv, PromotedKey
<1>5. LocksKept(Promoter) /\ PromoterInv'
  BY <1>1, Unlocks DEF EndPromotion, PromoterInv
<1>6. CASE UNCHANGED deps /\ (items' = Settled(i, "rejected", 0) \/ UNCHANGED items)
  <2>1. ItemsKept
    BY <1>1, <1>2, <1>6, Settles DEF ItemsKept, TypeInv
  <2>2. Frame(Promoter)
    BY <1>1, <1>5, <1>6, <2>1, SameRowsGrow DEF Frame
  <2>3. ItemsTrue'
    <3>1. CASE UNCHANGED items
      BY <1>6, <3>1 DEF RequestsInv, ItemsTrue
    <3>2. CASE items' = Settled(i, "rejected", 0)
      BY <1>1, <1>2, <2>2, <3>2, SettlesTruly DEF RequestsInv
    <3> QED BY <1>6, <3>1, <3>2
  <2> QED BY <1>1, <1>5, <2>2, <2>3, WorldSuffices DEF TypeInv
<1>7. CASE /\ HasReference(q) /\ deps' = Append(deps, NewDeployment(q, k))
           /\ items' = Settled(i, "dispatched", n)
  <2> DEFINE r == NewDeployment(q, q.key)
  <2>1. k = q.key /\ ~Invalid(q)
    BY <1>3 DEF AsSent
  <2>2. r \in Row /\ Made(r, q)
    BY <1>1, <1>3, <1>7, <2>1, NewRow
  <2>3. deps' = Append(deps, r) /\ r.key = k
    BY <1>7, <2>1, <2>2 DEF Made
  <2>4. RowsGrow(r.key) /\ n \in DOMAIN deps' /\ deps'[n] = r /\ n \in Nat
    <3> HIDE DEF r
    <3> QED BY <1>1, <2>2, <2>3, AppendGrows
  <2> HIDE DEF r, n
  <2>5. Grows(Promoter)
    BY <1>3, <1>4, <2>3, <2>4 DEF Grows
  <2>6. ItemsKept
    BY <1>1, <1>2, <1>7, <2>4, Settles
  <2>7. Frame(Promoter)
    BY <1>1, <1>5, <2>5, <2>6 DEF Frame
  <2>8. ItemsTrue'
    BY <1>1, <1>2, <1>7, <2>2, <2>4, <2>7, SettlesTruly DEF RequestsInv
  <2> QED BY <1>1, <1>5, <2>7, <2>8, WorldSuffices DEF TypeInv
<1>8. \/ HasReference(q) /\ deps' = Append(deps, NewDeployment(q, k)) /\ items' = Settled(i, "dispatched", n)
      \/ UNCHANGED deps /\ (items' = Settled(i, "rejected", 0) \/ UNCHANGED items)
  BY DEF EndPromotion, PromotedKey
<1> QED
  BY <1>6, <1>7, <1>8

\* A queue item is cancelled or expires while nobody promotes it.
LEMMA SettleItemStep ==
  ASSUME RequestsAssumption, RequestsInv, NEW i \in DOMAIN items, SettleItem(i)
  PROVE  RequestsInv'
<1>1. TypeInv /\ UNCHANGED <<req, call, deps, deleting, promoter, keyLock>> /\ i # promoter
  BY DEF SettleItem, RequestsInv, locks
<1>2. PICK state \in {"cancelled", "expired"} : items' = Settled(i, state, 0)
  BY DEF SettleItem
<1>3. ItemsKept /\ \A j \in DOMAIN items : j # i => items'[j] = items[j]
  BY <1>1, <1>2, Settles
<1>4. Frame(NoOne)
  BY <1>1, <1>3, SameLocks, SameRowsGrow DEF Frame
<1>5. ItemsTrue'
  BY <1>1, <1>2, <1>4, SettlesTruly DEF RequestsInv
<1>6. PromoterInv'
  BY <1>1, <1>3, <1>4, PromoterKeeps DEF RequestsInv, RequestsAssumption
<1> QED
  BY <1>1, <1>4, <1>5, <1>6, WorldSuffices DEF TypeInv

\* Rows that keep their number and lose at most their window or their execution.
LEMMA RowsFade ==
  ASSUME TypeInv, DOMAIN deps' = DOMAIN deps,
         \A d \in DOMAIN deps : deps'[d] \in Row /\ SameRow(deps'[d], deps[d]),
         deps' = [d \in DOMAIN deps |-> deps'[d]]
  PROVE  RowsGrow(NoKey)
<1>1. Len(deps) \in Nat /\ DOMAIN deps = 1..Len(deps)
  BY LenProperties DEF TypeInv
<1>2. deps' \in [1..Len(deps) -> Row]
  BY <1>1
<1>3. deps' \in Seq(Row)
  BY <1>1, <1>2, SeqDef
<1> QED
  BY <1>3 DEF RowsGrow

\* A Deployment ends.
LEMMA CompleteStep ==
  ASSUME RequestsAssumption, RequestsInv, NEW d \in DOMAIN deps, CompleteDeployment(d)
  PROVE  RequestsInv'
<1>1. TypeInv /\ UNCHANGED <<req, call, items, deleting, promoter, keyLock>>
  BY DEF CompleteDeployment, RequestsInv, locks
<1>2. \A e \in DOMAIN deps : deps[e] \in Row
  BY <1>1, LenProperties, ElementOfSeq DEF TypeInv
<1>3. deps' = [deps EXCEPT ![d].executing = FALSE]
  BY DEF CompleteDeployment
<1>4. DOMAIN deps' = DOMAIN deps /\ deps' = [e \in DOMAIN deps |-> deps'[e]]
  BY <1>3
<1>5. \A e \in DOMAIN deps : deps'[e] \in Row /\ SameRow(deps'[e], deps[e])
  BY <1>2, <1>3 DEF Row, SameRow
<1>6. RowsGrow(NoKey)
  BY <1>1, <1>4, <1>5, RowsFade
<1>7. Frame(NoOne)
  BY <1>1, <1>6, SameLocks DEF Frame, Grows, ItemsKept, TypeInv
<1>8. PromoterInv'
  BY <1>1, <1>7, PromoterKeeps DEF RequestsInv, RequestsAssumption
<1>9. ItemsTrue'
  BY <1>1, <1>7, ItemsStayTrue DEF RequestsInv
<1> QED
  BY <1>1, <1>7, <1>8, <1>9, WorldSuffices DEF TypeInv

LEMMA BeginDeletionStep ==
  ASSUME RequestsAssumption, RequestsInv, BeginDeletion
  PROVE  RequestsInv'
<1>1. TypeInv /\ UNCHANGED <<req, call, deps, items, promoter, keyLock>> /\ deleting' \in BOOLEAN
  BY DEF BeginDeletion, RequestsInv, locks
<1>2. Frame(NoOne)
  BY <1>1, SameLocks, SameRowsGrow DEF Frame, ItemsKept, TypeInv
<1>3. PromoterInv'
  BY <1>1, <1>2, PromoterKeeps DEF RequestsInv, RequestsAssumption
<1>4. ItemsTrue'
  BY <1>1 DEF RequestsInv, ItemsTrue
<1> QED
  BY <1>1, <1>2, <1>3, <1>4, WorldSuffices DEF TypeInv

\* The idempotency window passes over everything that ended.
LEMMA WindowPassesStep ==
  ASSUME RequestsAssumption, RequestsInv, WindowPasses
  PROVE  RequestsInv'
<1>1. TypeInv /\ UNCHANGED <<req, call, deleting, promoter, keyLock>> /\ promoter = 0
  BY DEF WindowPasses, RequestsInv, locks
<1>2. \A e \in DOMAIN deps : deps[e] \in Row
  BY <1>1, LenProperties, ElementOfSeq DEF TypeInv
<1>3. deps' = [d \in DOMAIN deps |-> [deps[d] EXCEPT !.recent = FALSE]]
  BY DEF WindowPasses
<1>4. DOMAIN deps' = DOMAIN deps /\ deps' = [e \in DOMAIN deps |-> deps'[e]]
  BY <1>3
<1>5. \A e \in DOMAIN deps : deps'[e] \in Row /\ SameRow(deps'[e], deps[e])
  BY <1>2, <1>3 DEF Row, SameRow
<1>6. RowsGrow(NoKey)
  BY <1>1, <1>4, <1>5, RowsFade
<1>7. items' = [i \in DOMAIN items |-> [items[i] EXCEPT !.recent = FALSE]]
  BY DEF WindowPasses
<1>8. \A i \in DOMAIN items : items[i] \in Item
  BY <1>1, LenProperties, ElementOfSeq DEF TypeInv
<1>9. \A i \in DOMAIN items :
        /\ items'[i] \in Item /\ items'[i].key = items[i].key /\ items'[i].intent = items[i].intent
        /\ items'[i].body = items[i].body /\ items'[i].state = items[i].state
        /\ items'[i].deployment = items[i].deployment
  BY <1>7, <1>8 DEF Item
<1>10. items' \in Seq(Item) /\ DOMAIN items' = DOMAIN items
  <2>1. Len(items) \in Nat /\ DOMAIN items = 1..Len(items)
    BY <1>1, LenProperties DEF TypeInv
  <2>2. items' \in [1..Len(items) -> Item]
    BY <1>7, <1>9, <2>1
  <2> QED BY <1>7, <2>1, <2>2, SeqDef
<1>11. Frame(NoOne)
  BY <1>1, <1>6, <1>9, <1>10, SameLocks DEF Frame, Grows, ItemsKept
<1>12. PromoterInv'
  BY <1>1 DEF PromoterInv
<1>13. ItemsTrue'
  <2>1. ASSUME NEW i \in DOMAIN items
        PROVE  /\ AsSent(items'[i])
               /\ items'[i].state = "dispatched" =>
                    items'[i].deployment \in DOMAIN deps' /\ Made(deps'[items'[i].deployment], items'[i].body)
    <3>1. /\ AsSent(items[i])
          /\ items[i].state = "dispatched" =>
               items[i].deployment \in DOMAIN deps /\ Made(deps[items[i].deployment], items[i].body)
      BY DEF RequestsInv, ItemsTrue
    <3>2. items[i].state = "dispatched" =>
            items[i].deployment \in DOMAIN deps' /\ Made(deps'[items[i].deployment], items[i].body)
      BY <1>6, <3>1, MadeStays
    <3>3. AsSent(items'[i])
      BY <1>9, <3>1 DEF AsSent
    <3> QED BY <1>9, <3>2, <3>3
  <2> QED BY <1>10, <2>1 DEF ItemsTrue
<1> QED
  BY <1>1, <1>11, <1>12, <1>13, WorldSuffices DEF TypeInv

-----------------------------------------------------------------------------
\* At first nobody holds a lock and nothing was created.
LEMMA InitInv ==
  ASSUME RequestsAssumption, Init
  PROVE  RequestsInv
<1>1. deps \in Seq(Row) /\ items \in Seq(Item) /\ DOMAIN deps = {} /\ DOMAIN items = {}
  BY EmptySeq DEF Init
<1>2. TypeInv
  BY <1>1 DEF Init, TypeInv, Call, Steps, Failures, Kinds, NoAnswer
<1>3. \A c \in Calls : CallInv(c)
  BY DEF Init, CallInv, CallChecked, CallAnswered, HoldsKey, NoAnswer
<1> QED
  BY <1>1, <1>2, <1>3 DEF Init, RequestsInv, PromoterInv, OncePerKey, ItemsTrue

LEMMA NextInv ==
  ASSUME RequestsAssumption, RequestsInv, [Next]_vars
  PROVE  RequestsInv'
<1>1. ASSUME NEW c \in Calls, CallStep(c) PROVE RequestsInv'
  BY <1>1, CallSteps
<1>2. CASE Promote
  BY <1>2, PromoteStep
<1>3. CASE EndPromotion
  BY <1>3, EndPromotionStep
<1>4. CASE BeginDeletion
  BY <1>4, BeginDeletionStep
<1>5. CASE WindowPasses
  BY <1>5, WindowPassesStep
<1>6. ASSUME NEW i \in DOMAIN items, SettleItem(i) PROVE RequestsInv'
  BY <1>6, SettleItemStep
<1>7. ASSUME NEW d \in DOMAIN deps, CompleteDeployment(d) PROVE RequestsInv'
  BY <1>7, CompleteStep
<1>8. CASE UNCHANGED vars
  <2>1. UNCHANGED <<req, call, deps, items, deleting, promoter, keyLock>> /\ TypeInv
    BY <1>8 DEF vars, RequestsInv
  <2>2. Frame(NoOne)
    BY <2>1, SameLocks, SameRowsGrow DEF Frame, ItemsKept, TypeInv
  <2>3. PromoterInv'
    BY <2>1, <2>2, PromoterKeeps DEF RequestsInv, RequestsAssumption
  <2>4. ItemsTrue'
    BY <2>1 DEF RequestsInv, ItemsTrue
  <2> QED BY <2>1, <2>2, <2>3, <2>4, WorldSuffices DEF TypeInv
<1> QED
  BY <1>1, <1>2, <1>3, <1>4, <1>5, <1>6, <1>7, <1>8 DEF Next, Idle

\* What the calls were answered is true of the Deployments they were told of.
LEMMA NamedIsMade ==
  ASSUME RequestsInv, NEW c \in Calls, NEW d \in Named(c)
  PROVE  d \in DOMAIN deps /\ Made(deps[d], req[c])
<1>1. CallAnswered(c) /\ ItemsTrue
  BY DEF RequestsInv, CallInv
<1>2. CASE call[c].answer.kind = "created"
  BY <1>1, <1>2 DEF Named, CallAnswered
<1>3. CASE call[c].answer.kind # "created"
  <2> DEFINE i == call[c].answer.ref
  <2>1. call[c].answer.kind = "queued" /\ items[i].state = "dispatched" /\ d = items[i].deployment
    BY <1>3 DEF Named
  <2>2. i \in DOMAIN items /\ items[i].key = Key(c) /\ items[i].intent = IntentSHA256(req[c])
    BY <1>1, <2>1 DEF CallAnswered
  <2> HIDE DEF i
  <2>3. AsSent(items[i]) /\ d \in DOMAIN deps /\ Made(deps[d], items[i].body)
    BY <1>1, <2>1, <2>2 DEF ItemsTrue
  <2>4. IntentSHA256(items[i].body) = IntentSHA256(req[c]) /\ items[i].body.key = req[c].key
    BY <2>2, <2>3 DEF AsSent, Key
  <2> QED BY <2>3, <2>4 DEF IntentSHA256, Made
<1> QED
  BY <1>2, <1>3

LEMMA InvImpliesKeyedOnce ==
  ASSUME RequestsInv
  PROVE  KeyedOnce
<1>1. OncePerKey /\ ValidatedNeverInternal
  BY DEF RequestsInv, CallInv, CallAnswered, ValidatedNeverInternal
<1>2. AnswersAgree
  <2>1. SUFFICES ASSUME NEW a \in Calls, NEW b \in Calls, Key(a) = Key(b), Key(a) # NoKey,
                        NEW d \in Named(a), NEW e \in Named(b), deps[d].recent, deps[e].recent
                 PROVE  d = e
    BY DEF AnswersAgree
  <2>2. /\ d \in DOMAIN deps /\ deps[d].key = Key(a)
        /\ e \in DOMAIN deps /\ deps[e].key = Key(b)
    BY NamedIsMade DEF Made, Key
  <2> QED BY <1>1, <2>1, <2>2 DEF OncePerKey
<1>3. KeyBindsRequest
  BY NamedIsMade DEF KeyBindsRequest, Made
<1> QED
  BY <1>1, <1>2, <1>3 DEF KeyedOnce

\* Rows, queue items and calls are well typed, and whoever is past the lookup of its key
\* holds the key's advisory lock (createDeployment, promoteQueueHead).
THEOREM KeysAreHeld ==
  ASSUME RequestsAssumption
  PROVE  Spec => []RequestsInv
<1>1. Init => RequestsInv
  BY InitInv
<1>2. RequestsInv /\ [Next]_vars => RequestsInv'
  BY NextInv
<1> QED
  BY <1>1, <1>2, PTL DEF Spec

\* One idempotency key makes one Deployment within its window, all its calls end up at it, and
\* a call never gets the Deployment of another request, for any calls, keys and requests, any
\* depth of the queue and any number of windows (createDeployment, enqueueDeployment,
\* promoteQueueHead).
THEOREM KeysAreUsedOnce ==
  ASSUME RequestsAssumption
  PROVE  Spec => []KeyedOnce
<1>1. RequestsInv => KeyedOnce
  BY InvImpliesKeyedOnce
<1> QED
  BY <1>1, KeysAreHeld, PTL

=============================================================================
