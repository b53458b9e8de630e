--------------------------- MODULE ResourceProofs ---------------------------
(***************************************************************************)
(* Credentials, programs and active resources, for any number of callers,  *)
(* resources, modules, providers and Deployments.                          *)
(*                                                                         *)
(* Credentials.  A token that one version of the key named and signed can  *)
(* be verified as long as it is valid, for any life of a token that is     *)
(* shorter than a rotation.  What makes it inductive is an arithmetic fact *)
(* about two rotations: a token read under version i expires at most       *)
(* TokenLife after version i+1 was created, hence before version i+2 can   *)
(* be.                                                                     *)
(***************************************************************************)
EXTENDS RunnerCredentials, ActiveResources, SequenceTheorems, TLAPS

Tokens == [kid : Nat, signer : Nat, exp : Nat]

CredentialTypeOK ==
  /\ now \in Nat /\ versions \in Seq(Nat) /\ faults \in Nat
  /\ pc \in [Callers -> {"idle", "create", "sign", "exchange", "cluster", "done"}]
  /\ token \in [Callers -> Tokens]

\* Versions were created in the past, at least a RotatePeriod apart.
Spaced ==
  /\ \A i \in 1..Len(versions) : versions[i] <= now
  /\ \A i \in 1..Len(versions) : i + 1 <= Len(versions) => versions[i] + RotatePeriod <= versions[i + 1]

\* The token was read under some version before the next one came.
Recent(t) ==
  /\ t.exp <= now + TokenLife /\ t.signer <= Len(versions)
  /\ \E i \in 1..Len(versions) :
       /\ t.kid = versions[i]
       /\ i + 1 <= Len(versions) => t.exp <= versions[i + 1] + TokenLife

TokensRecent ==
  \A c \in Callers :
    /\ token[c] = NoToken \/ Recent(token[c])
    /\ pc[c] = "sign" => Recent(token[c])

IInv == CredentialTypeOK /\ Spaced /\ TokensRecent
-----------------------------------------------------------------------------
\* In the initial state there are neither keys nor tokens.
LEMMA InitIInv == Init => IInv
BY CredentialAssumption DEF Init, IInv, CredentialTypeOK, Spaced, TokensRecent, NoToken, Tokens

\* A token that expires a TokenLife after some moment has expired a RotatePeriod
\* after it.
LEMMA Outlived ==
  ASSUME NEW first \in Nat, NEW second \in Nat, NEW t \in Nat, NEW expiry \in Nat,
         first + RotatePeriod <= second, second <= t, expiry <= first + TokenLife
  PROVE ~(t <= expiry)
BY CredentialAssumption

\* The property follows: two rotations after a token was read it has expired.
LEMMA IInvVerifiable == IInv => VerifiableWhileValid
<1> SUFFICES ASSUME IInv, NEW c \in Callers, token[c].signer # 0,
                    versions[token[c].signer] = token[c].kid, now <= token[c].exp
             PROVE Verifies(token[c])
  BY DEF VerifiableWhileValid
<1>1. token[c] \in Tokens /\ now \in Nat /\ versions \in Seq(Nat) /\ TokenLife \in Nat /\ RotatePeriod \in Nat
  BY CredentialAssumption DEF IInv, CredentialTypeOK
<1>2. Recent(token[c])
  BY DEF IInv, TokensRecent, NoToken
<1>3. PICK i \in 1..Len(versions) :
        token[c].kid = versions[i] /\ (i + 1 <= Len(versions) => token[c].exp <= versions[i + 1] + TokenLife)
  BY <1>2 DEF Recent
<1>4. i + 2 > Len(versions)
  <2> SUFFICES ASSUME i + 2 <= Len(versions) PROVE FALSE
    BY <1>1, <1>3
  <2>1. i + 1 \in 1..Len(versions) /\ i + 2 \in 1..Len(versions)
    BY <1>1, <1>3
  <2>2. versions[i + 1] \in Nat /\ versions[i + 2] \in Nat
    BY <1>1, <2>1
  <2>3. versions[i + 1] + RotatePeriod <= versions[i + 2] /\ versions[i + 2] <= now
    <3>1. (i + 1) + 1 = i + 2
      BY <1>3
    <3> QED BY <2>1, <3>1 DEF IInv, Spaced
  <2>4. token[c].exp <= versions[i + 1] + TokenLife /\ token[c].exp \in Nat
    BY <1>1, <1>3, <2>1 DEF Tokens
  <2> QED BY <1>1, <2>2, <2>3, <2>4, Outlived, CredentialAssumption
<1>5. token[c].kid \in GetJwks
  BY <1>1, <1>3, <1>4 DEF GetJwks, Latest
<1>6. token[c].signer \in DOMAIN versions
  BY <1>1, <1>2 DEF Recent, Tokens
<1> QED BY <1>1, <1>5, <1>6 DEF Verifies, Tokens

\* A token stays recent when time passes and when a version is added that is
\* created now.
LEMMA RecentKept ==
  ASSUME IInv, NEW t \in Tokens, Recent(t), now' \in Nat, now' >= now,
         versions' = versions \/ versions' = Append(versions, now)
  PROVE Recent(t)'
<1>1. now \in Nat /\ versions \in Seq(Nat) /\ TokenLife \in Nat /\ t.exp \in Nat /\ t.signer \in Nat
  BY CredentialAssumption DEF IInv, CredentialTypeOK, Tokens
<1>2. PICK i \in 1..Len(versions) :
        t.kid = versions[i] /\ (i + 1 <= Len(versions) => t.exp <= versions[i + 1] + TokenLife)
  BY DEF Recent
<1>3. t.exp <= now' + TokenLife /\ t.signer <= Len(versions')
  BY <1>1 DEF Recent
<1>4. CASE versions' = versions
  BY <1>2, <1>3, <1>4 DEF Recent
<1>5. CASE versions' = Append(versions, now)
  <2>1. Len(versions') = Len(versions) + 1 /\ versions'[Len(versions) + 1] = now
        /\ \A j \in 1..Len(versions) : versions'[j] = versions[j]
    BY <1>1, <1>5
  <2>2. i \in 1..Len(versions') /\ t.kid = versions'[i]
    BY <1>1, <1>2, <2>1
  <2>3. ASSUME i + 1 <= Len(versions') PROVE t.exp <= versions'[i + 1] + TokenLife
    <3>1. CASE i = Len(versions)
      BY <1>1, <2>1, <3>1 DEF Recent
    <3>2. CASE i # Len(versions)
      <4>1. i + 1 \in 1..Len(versions)
        BY <1>1, <1>2, <3>2
      <4> QED BY <1>2, <2>1, <4>1
    <3> QED BY <3>1, <3>2
  <2> QED BY <1>3, <2>2, <2>3 DEF Recent
<1> QED BY <1>4, <1>5

\* Vault keeps the versions apart: a rotation waits for the RotatePeriod.
LEMMA SpacedKept ==
  ASSUME IInv, now' \in Nat, now' >= now,
         \/ versions' = versions
         \/ versions' = Append(versions, now) /\ versions = <<>>
         \/ versions' = Append(versions, now) /\ now - versions[Len(versions)] >= RotatePeriod
  PROVE versions' \in Seq(Nat) /\ Spaced'
<1>1. now \in Nat /\ versions \in Seq(Nat) /\ RotatePeriod \in Nat /\ Spaced
  BY CredentialAssumption DEF IInv, CredentialTypeOK
<1>2. CASE versions' = versions
  BY <1>1, <1>2 DEF Spaced
<1>3. CASE versions' = Append(versions, now) /\ (versions = <<>> \/ now - versions[Len(versions)] >= RotatePeriod)
  <2>1. versions' \in Seq(Nat) /\ Len(versions') = Len(versions) + 1 /\ versions'[Len(versions) + 1] = now
        /\ \A j \in 1..Len(versions) : versions'[j] = versions[j]
    BY <1>1, <1>3
  <2>2. \A i \in 1..Len(versions') : versions'[i] <= now'
    <3> SUFFICES ASSUME NEW i \in 1..Len(versions') PROVE versions'[i] <= now'
      OBVIOUS
    <3>1. CASE i \in 1..Len(versions)
      <4>1. versions'[i] = versions[i] /\ versions[i] <= now /\ versions[i] \in Nat
        BY <1>1, <2>1, <3>1 DEF Spaced
      <4> QED BY <1>1, <4>1
    <3>2. CASE i = Len(versions) + 1
      BY <1>1, <2>1, <3>2
    <3> QED BY <1>1, <2>1, <3>1, <3>2
  <2>3. ASSUME NEW i \in 1..Len(versions'), i + 1 <= Len(versions')
        PROVE versions'[i] + RotatePeriod <= versions'[i + 1]
    <3>1. i \in 1..Len(versions)
      BY <1>1, <2>1, <2>3
    <3>2. CASE i = Len(versions)
      <4>1. versions # <<>> /\ now - versions[i] >= RotatePeriod /\ versions[i] \in Nat
        BY <1>1, <1>3, <3>1, <3>2
      <4>2. versions'[i] = versions[i] /\ versions'[i + 1] = now
        BY <2>1, <3>1, <3>2
      <4> QED BY <1>1, <4>1, <4>2
    <3>3. CASE i # Len(versions)
      <4>1. i + 1 \in 1..Len(versions)
        BY <1>1, <3>1, <3>3
      <4>2. versions[i] + RotatePeriod <= versions[i + 1]
        BY <1>1, <3>1, <4>1 DEF Spaced
      <4> QED BY <2>1, <3>1, <4>1, <4>2
    <3> QED BY <3>2, <3>3
  <2> QED BY <2>1, <2>2, <2>3 DEF Spaced
<1> QED BY <1>2, <1>3

\* A step that leaves every caller its token or takes it away keeps the invariant.
LEMMA StepKeeps ==
  ASSUME IInv, CredentialTypeOK', now' >= now,
         \/ versions' = versions
         \/ versions' = Append(versions, now) /\ versions = <<>>
         \/ versions' = Append(versions, now) /\ now - versions[Len(versions)] >= RotatePeriod,
         \A c \in Callers : \/ token'[c] = NoToken /\ pc'[c] # "sign"
                            \/ token'[c] = token[c] /\ (pc'[c] = "sign" => pc[c] = "sign")
  PROVE IInv'
<1>1. now' \in Nat /\ token \in [Callers -> Tokens]
  BY DEF IInv, CredentialTypeOK
<1>2. Spaced'
  BY <1>1, SpacedKept
<1>3. ASSUME NEW c \in Callers, token'[c] = token[c], Recent(token[c])
      PROVE Recent(token[c])'
  <2>1. PICK t \in Tokens : t = token[c]
    BY <1>1
  <2>2. Recent(t)'
    BY <1>1, <1>3, <2>1, RecentKept
  <2> QED BY <1>3, <2>1, <2>2 DEF Recent
<1>4. TokensRecent'
  BY <1>3 DEF TokensRecent, IInv
<1> QED BY <1>2, <1>4 DEF IInv

\* Types are kept by every step.
LEMMA TypeStep == IInv /\ Next => CredentialTypeOK'
<1> SUFFICES ASSUME IInv, Next PROVE CredentialTypeOK'
  OBVIOUS
<1>1. CredentialTypeOK /\ NoToken \in Tokens /\ TokenLife \in Nat
  BY CredentialAssumption DEF IInv, NoToken, Tokens
<1>2. ASSUME NEW c \in Callers, ReadKey(c) PROVE CredentialTypeOK'
  <2>1. CASE versions = <<>>
    BY <1>1, <1>2, <2>1 DEF ReadKey, CreatesMissing, Goto, CredentialTypeOK
  <2>2. CASE versions # <<>>
    <3>1. versions[Latest] \in Nat
      BY <1>1, <2>2 DEF Latest, CredentialTypeOK
    <3>2. [kid |-> versions[Latest], signer |-> 0, exp |-> now + TokenLife] \in Tokens
      BY <1>1, <3>1 DEF Tokens, CredentialTypeOK
    <3> QED BY <1>1, <1>2, <2>2, <3>2 DEF ReadKey, Goto, CredentialTypeOK
  <2> QED BY <2>1, <2>2
<1>3. ASSUME NEW c \in Callers, CreateKey(c) PROVE CredentialTypeOK'
  <2>1. Created \in Seq(Nat)
    BY <1>1 DEF Created, CredentialTypeOK
  <2>2. /\ versions' = Created /\ pc' = [pc EXCEPT ![c] = "idle"]
        /\ now' = now /\ token' = token /\ faults' = faults
    BY <1>3 DEF CreateKey, Goto
  <2> QED BY <1>1, <2>1, <2>2 DEF CredentialTypeOK
<1>4. ASSUME NEW c \in Callers, SignData(c) PROVE CredentialTypeOK'
  <2>1. [token[c] EXCEPT !.signer = Latest] \in Tokens
    <3>1. token[c] \in Tokens /\ Len(versions) \in Nat
      BY <1>1 DEF CredentialTypeOK
    <3> QED BY <3>1 DEF Tokens, Latest
  <2> QED BY <1>1, <1>4, <2>1 DEF SignData, Goto, CredentialTypeOK
<1>5. ASSUME NEW c \in Callers, ExchangeAws(c) \/ ExchangeGcp(c) PROVE CredentialTypeOK'
  BY <1>1, <1>5 DEF ExchangeAws, ExchangeGcp, Goto, Failed, Forget, CredentialTypeOK
<1>6. ASSUME NEW c \in Callers, KubeconfigAws(c) \/ KubeconfigGcp(c) PROVE CredentialTypeOK'
  BY <1>1, <1>6 DEF KubeconfigAws, KubeconfigGcp, Goto, CredentialTypeOK
<1>7. ASSUME NEW c \in Callers, CallFails(c) PROVE CredentialTypeOK'
  BY <1>1, <1>7 DEF CallFails, Goto, Failed, Forget, CredentialTypeOK
<1>8. ASSUME Rotate \/ Tick \/ Finished PROVE CredentialTypeOK'
  <2>1. CASE Rotate
    <3>1. Append(versions, now) \in Seq(Nat)
      BY <1>1 DEF CredentialTypeOK
    <3> QED BY <1>1, <2>1, <3>1 DEF Rotate, CredentialTypeOK
  <2>2. CASE Tick
    BY <1>1, <2>2 DEF Tick, CredentialTypeOK
  <2>3. CASE Finished
    BY <1>1, <2>3 DEF Finished, vars, CredentialTypeOK
  <2> QED BY <1>8, <2>1, <2>2, <2>3
<1> QED BY <1>2, <1>3, <1>4, <1>5, <1>6, <1>7, <1>8 DEF Next, CallerStep

\* A token that was just read names the newest version.
LEMMA ReadStep ==
  ASSUME IInv, NEW c \in Callers, ReadKey(c), CredentialTypeOK'
  PROVE IInv'
<1>1. /\ now \in Nat /\ versions \in Seq(Nat) /\ TokenLife \in Nat
      /\ pc \in [Callers -> {"idle", "create", "sign", "exchange", "cluster", "done"}]
      /\ token \in [Callers -> Tokens] /\ now' = now /\ versions' = versions
  BY CredentialAssumption DEF IInv, CredentialTypeOK, ReadKey
<1>2. CASE versions = <<>>
  BY <1>1, <1>2, StepKeeps DEF ReadKey, CreatesMissing, Goto
<1>3. CASE versions # <<>>
  <2>1. /\ pc' = [pc EXCEPT ![c] = "sign"]
        /\ token' = [token EXCEPT ![c] = [kid |-> versions[Len(versions)], signer |-> 0, exp |-> now + TokenLife]]
    BY <1>3 DEF ReadKey, Goto, Latest
  <2>2. Len(versions) \in 1..Len(versions)
    BY <1>1, <1>3
  <2>3. Recent(token[c])'
    BY <1>1, <2>1, <2>2 DEF Recent
  <2>4. ASSUME NEW d \in Callers, d # c
        PROVE token'[d] = token[d] /\ pc'[d] = pc[d]
    BY <1>1, <2>1, <2>4
  <2>5. TokensRecent'
    <3>1. ASSUME NEW d \in Callers, d # c, Recent(token[d]) PROVE Recent(token[d])'
      BY <1>1, <2>4, <3>1 DEF Recent
    <3> QED BY <2>3, <2>4, <3>1 DEF TokensRecent, IInv
  <2>6. Spaced'
    BY <1>1 DEF IInv, Spaced
  <2> QED BY <2>5, <2>6 DEF IInv
<1> QED BY <1>2, <1>3

\* A signature does not change which version the header names.
LEMMA SignStep ==
  ASSUME IInv, NEW c \in Callers, SignData(c), CredentialTypeOK'
  PROVE IInv'
<1>1. /\ now \in Nat /\ versions \in Seq(Nat) /\ pc[c] = "sign"
      /\ pc \in [Callers -> {"idle", "create", "sign", "exchange", "cluster", "done"}]
      /\ token \in [Callers -> Tokens] /\ now' = now /\ versions' = versions
      /\ pc' = [pc EXCEPT ![c] = "exchange"] /\ token' = [token EXCEPT ![c].signer = Len(versions)]
  BY DEF IInv, CredentialTypeOK, SignData, Goto, Latest
<1>2. Recent(token[c])
  BY <1>1 DEF IInv, TokensRecent
<1>3. token'[c].kid = token[c].kid /\ token'[c].exp = token[c].exp /\ token'[c].signer = Len(versions)
  BY <1>1 DEF Tokens
<1>4. Recent(token[c])'
  BY <1>1, <1>2, <1>3 DEF Recent
<1>5. ASSUME NEW d \in Callers, d # c
      PROVE token'[d] = token[d] /\ pc'[d] = pc[d]
  BY <1>1, <1>5
<1>6. ASSUME NEW d \in Callers, d # c, Recent(token[d]) PROVE Recent(token[d])'
  BY <1>1, <1>5, <1>6 DEF Recent
<1>7. TokensRecent'
  BY <1>4, <1>5, <1>6 DEF TokensRecent, IInv
<1>8. Spaced'
  BY <1>1 DEF IInv, Spaced
<1> QED BY <1>7, <1>8 DEF IInv

\* Every step keeps the invariant.
LEMMA NextStep == IInv /\ Next => IInv'
<1> SUFFICES ASSUME IInv, Next PROVE IInv'
  OBVIOUS
<1>1. /\ CredentialTypeOK' /\ now \in Nat /\ versions \in Seq(Nat)
      /\ pc \in [Callers -> {"idle", "create", "sign", "exchange", "cluster", "done"}]
      /\ token \in [Callers -> Tokens]
  BY TypeStep DEF IInv, CredentialTypeOK
<1>2. ASSUME NEW c \in Callers, ReadKey(c) \/ SignData(c) PROVE IInv'
  BY <1>1, <1>2, ReadStep, SignStep
<1>3. ASSUME NEW c \in Callers, CreateKey(c) PROVE IInv'
  <2>1. versions' = versions \/ (versions = <<>> /\ versions' = Append(versions, now))
    BY <1>1, <1>3 DEF CreateKey, Created
  <2>2. \A d \in Callers : token'[d] = token[d] /\ (pc'[d] = "sign" => pc[d] = "sign")
    BY <1>1, <1>3 DEF CreateKey, Goto
  <2> QED BY <1>1, <1>3, <2>1, <2>2, StepKeeps DEF CreateKey
<1>4. ASSUME NEW c \in Callers,
             ExchangeAws(c) \/ ExchangeGcp(c) \/ KubeconfigAws(c) \/ KubeconfigGcp(c) \/ CallFails(c)
      PROVE IInv'
  <2>1. now' = now /\ versions' = versions
    BY <1>4 DEF ExchangeAws, ExchangeGcp, KubeconfigAws, KubeconfigGcp, CallFails
  <2>2. \E p \in {"idle", "cluster", "done"} :
          pc' = [pc EXCEPT ![c] = p] /\ (token' = token \/ token' = [token EXCEPT ![c] = NoToken])
    BY <1>4 DEF ExchangeAws, ExchangeGcp, KubeconfigAws, KubeconfigGcp, CallFails, Goto, Failed, Forget
  <2>3. \A d \in Callers : \/ token'[d] = NoToken /\ pc'[d] # "sign"
                           \/ token'[d] = token[d] /\ (pc'[d] = "sign" => pc[d] = "sign")
    BY <1>1, <2>2
  <2> QED BY <1>1, <2>1, <2>3, StepKeeps
<1>5. CASE Rotate
  BY <1>1, <1>5, StepKeeps DEF Rotate, Latest
<1>6. CASE Tick \/ Finished
  BY <1>1, <1>6, StepKeeps DEF Tick, Finished, vars
<1> QED BY <1>2, <1>3, <1>4, <1>5, <1>6 DEF Next, CallerStep

\* A token whose header and signature agree is accepted until it expires, for
\* every number of callers, failures and rotations (GetJwks publishes two versions).
THEOREM TokensStayVerifiable == Spec => []VerifiableWhileValid
<1>1. IInv /\ UNCHANGED vars => IInv'
  BY DEF vars, IInv, CredentialTypeOK, Spaced, TokensRecent, Recent
<1> QED BY <1>1, InitIInv, NextStep, IInvVerifiable, PTL DEF Spec

-----------------------------------------------------------------------------
(***************************************************************************)
(* Graphs and programs.  A sound graph has whole nodes, modules for its    *)
(* resources only, and no edge from a live node to one that is on its way  *)
(* out; its program is closed.                                             *)
(***************************************************************************)
SoundNode(g, c) ==
  /\ g.nodes[c] = [module |-> g.nodes[c].module, deleted |-> g.nodes[c].deleted]
  /\ g.nodes[c].deleted \in BOOLEAN
  /\ IF c = Workload THEN g.nodes[c].module = NoModule ELSE g.nodes[c].module \in Modules

SoundGraph(g) ==
  /\ DOMAIN g.nodes \subseteq Coordinates /\ DOMAIN g.edges = DOMAIN g.nodes
  /\ \A c \in DOMAIN g.nodes : SoundNode(g, c)
  /\ \A c \in Live(g) : g.edges[c] \subseteq Live(g) \ {Workload}

\* Nothing is in the empty graph.
LEMMA EmptyIsSound ==
  SoundGraph(EmptyGraph) /\ DOMAIN EmptyGraph.nodes = {} /\ Live(EmptyGraph) = {}
<1>1. DOMAIN EmptyGraph.nodes = {} /\ DOMAIN EmptyGraph.edges = {}
  BY DEF EmptyGraph
<1> QED
  BY <1>1 DEF SoundGraph, Live

\* A manifest expands to live nodes, closed under what their modules depend on.
LEMMA BuiltIsSound ==
  ASSUME GraphAssumption, NEW requested \in SUBSET Resources, NEW selected \in [Resources -> Modules],
         NEW g, g = BuildGraph(requested, selected)
  PROVE  SoundGraph(g) /\ Live(g) = DOMAIN g.nodes
<1> DEFINE Closed(S) == requested \subseteq S /\ \A c \in S : DependsOn[selected[c]] \subseteq S
           expanded == {c \in Resources : \A S \in SUBSET Resources : Closed(S) => c \in S}
           all == expanded \cup {Workload}
<1>1. CASE requested = {}
  <2>1. g = EmptyGraph
    BY <1>1 DEF BuildGraph
  <2> QED
    BY <2>1, EmptyIsSound
<1>2. CASE requested # {}
  <2>1. requested \subseteq expanded
    OBVIOUS
  <2>2. \A c \in expanded : DependsOn[selected[c]] \subseteq expanded
    BY DEF GraphAssumption
  <2>3. expanded \subseteq Resources /\ Workload \notin Resources
    BY DEF GraphAssumption
  <2>4. g = [nodes |-> [c \in all |-> [module |-> IF c = Workload THEN NoModule ELSE selected[c],
                                       deleted |-> FALSE]],
             edges |-> [c \in all |-> IF c = Workload THEN requested ELSE DependsOn[selected[c]]]]
    BY <1>2 DEF BuildGraph
  <2> HIDE DEF expanded
  <2>5. /\ DOMAIN g.nodes = all /\ DOMAIN g.edges = all
        /\ \A c \in all : g.nodes[c] = [module |-> IF c = Workload THEN NoModule ELSE selected[c],
                                        deleted |-> FALSE]
        /\ \A c \in all : g.edges[c] = IF c = Workload THEN requested ELSE DependsOn[selected[c]]
    BY <2>4
  <2>6. \A c \in all : SoundNode(g, c) /\ ~g.nodes[c].deleted
    <3> TAKE c \in all
    <3>1. g.nodes[c] = [module |-> IF c = Workload THEN NoModule ELSE selected[c], deleted |-> FALSE]
      BY <2>5
    <3>2. c # Workload => selected[c] \in Modules
      BY <2>3
    <3> QED
      BY <3>1, <3>2 DEF SoundNode
  <2>7. Live(g) = all
    BY <2>5, <2>6 DEF Live
  <2>8. \A c \in all : g.edges[c] \subseteq all \ {Workload}
    BY <2>1, <2>2, <2>3, <2>5
  <2>9. all \subseteq Coordinates
    BY <2>3 DEF Coordinates
  <2> HIDE DEF all
  <2> QED
    BY <2>5, <2>6, <2>7, <2>8, <2>9 DEF SoundGraph
<1> QED
  BY <1>1, <1>2

\* What the new graph dropped stays, flagged: nothing alive of the last graph is missing,
\* and nothing at all if the last Deployment failed.
LEMMA DroppedIsKept ==
  ASSUME GraphAssumption, NEW new, NEW last, SoundGraph(new), SoundGraph(last),
         Live(new) = DOMAIN new.nodes, NEW includeDeleted \in BOOLEAN,
         NEW g, g = AddDeletedNodes(new, last, includeDeleted)
  PROVE  /\ SoundGraph(g) /\ Live(g) = DOMAIN new.nodes
         /\ \A c \in DOMAIN last.nodes \ {Workload} :
              includeDeleted \/ c \in Live(last) => c \in DOMAIN g.nodes
<1> DEFINE dropped == {c \in DOMAIN last.nodes \ DOMAIN new.nodes :
                         /\ last.nodes[c].module # NoModule
                         /\ ~last.nodes[c].deleted \/ includeDeleted}
<1>1. g = [nodes |-> [c \in DOMAIN new.nodes \cup dropped |->
                       IF c \in dropped THEN [last.nodes[c] EXCEPT !.deleted = TRUE]
                                        ELSE new.nodes[c]],
           edges |-> [c \in DOMAIN new.nodes \cup dropped |->
                       IF c \in dropped THEN last.edges[c] ELSE new.edges[c]]]
  BY DEF AddDeletedNodes
<1>2. /\ dropped \subseteq DOMAIN last.nodes /\ dropped \cap DOMAIN new.nodes = {}
      /\ \A c \in dropped : last.nodes[c].module # NoModule
  OBVIOUS
<1>3. \A c \in DOMAIN last.nodes \ {Workload} :
        includeDeleted \/ c \in Live(last) => c \in DOMAIN new.nodes \cup dropped
  <2> TAKE c \in DOMAIN last.nodes \ {Workload}
  <2>1. last.nodes[c].module # NoModule
    BY DEF SoundGraph, SoundNode, GraphAssumption
  <2>2. c \in Live(last) => ~last.nodes[c].deleted
    BY DEF Live
  <2> QED
    BY <2>1, <2>2
<1> HIDE DEF dropped
<1>4. /\ DOMAIN g.nodes = DOMAIN new.nodes \cup dropped
      /\ DOMAIN g.edges = DOMAIN new.nodes \cup dropped
      /\ \A c \in DOMAIN new.nodes : g.nodes[c] = new.nodes[c] /\ g.edges[c] = new.edges[c]
      /\ \A c \in dropped : g.nodes[c] = [last.nodes[c] EXCEPT !.deleted = TRUE]
  BY <1>1, <1>2
<1>5. \A c \in DOMAIN new.nodes : SoundNode(g, c) /\ ~g.nodes[c].deleted
  <2> TAKE c \in DOMAIN new.nodes
  <2>1. SoundNode(new, c) /\ ~new.nodes[c].deleted
    BY DEF SoundGraph, Live
  <2> QED
    BY <1>4, <2>1 DEF SoundNode
<1>6. \A c \in dropped : SoundNode(g, c) /\ g.nodes[c].deleted
  <2> TAKE c \in dropped
  <2>1. SoundNode(last, c) /\ c # Workload
    BY <1>2 DEF SoundGraph, SoundNode
  <2>2. g.nodes[c] = [module |-> last.nodes[c].module, deleted |-> TRUE]
    <3>1. last.nodes[c] = [module |-> last.nodes[c].module, deleted |-> last.nodes[c].deleted]
      BY <2>1 DEF SoundNode
    <3>2. g.nodes[c] = [last.nodes[c] EXCEPT !.deleted = TRUE]
      BY <1>4
    <3> QED
      BY <3>1, <3>2
  <2> QED
    BY <2>1, <2>2 DEF SoundNode
<1>7. Live(g) = DOMAIN new.nodes
  BY <1>4, <1>5, <1>6 DEF Live
<1>8. \A c \in Live(g) : g.edges[c] \subseteq Live(g) \ {Workload}
  BY <1>4, <1>7 DEF SoundGraph
<1>9. DOMAIN g.nodes \subseteq Coordinates
  BY <1>2, <1>4 DEF SoundGraph
<1> QED
  BY <1>3, <1>4, <1>5, <1>6, <1>7, <1>8, <1>9 DEF SoundGraph

\* The program of a sound graph whose providers resolve is closed and configured.
LEMMA ProgramIsSound ==
  ASSUME GraphAssumption, HashesDistinguish, NEW g, SoundGraph(g), AddProviderMapping(g),
         NEW tofu, tofu = BuildTofuFromGraph(g)
  PROVE  /\ tofu.modules = Live(g) \ {Workload}
         /\ \A c \in tofu.modules : /\ tofu.dependsOn[c] \subseteq tofu.modules
                                    /\ tofu.uses[c] \subseteq tofu.providers
         /\ tofu.reads \subseteq tofu.modules
<1> DEFINE resources == DOMAIN g.nodes \ {Workload}
           live == resources \cap Live(g)
           used == UNION {ProviderOf[g.nodes[c].module] : c \in resources}
           Chosen(h) == CHOOSE p \in used : HashUniqueProviderConfiguration(p) = h
           configured == {Chosen(h) : h \in {HashUniqueProviderConfiguration(p) : p \in used}}
<1>1. /\ tofu.providers = {LocalProviderName(p) : p \in configured}
      /\ tofu.reads = UNION {RefersTo[p] : p \in configured}
      /\ tofu.modules = live
      /\ \A c \in live : tofu.uses[c] = {LocalProviderName(p) : p \in ProviderOf[g.nodes[c].module]}
      /\ \A c \in live : tofu.dependsOn[c]
           = g.edges[c] \cup UNION {RefersTo[p] : p \in ProviderOf[g.nodes[c].module]}
  BY DEF BuildTofuFromGraph
<1>2. live = Live(g) \ {Workload}
  BY DEF Live
<1>3. \A c \in resources : \A p \in ProviderOf[g.nodes[c].module] :
        p \in used /\ p \in Providers /\ RefersTo[p] \subseteq live
  <2> TAKE c \in resources
  <2>1. g.nodes[c].module \in Modules
    BY DEF SoundGraph, SoundNode
  <2> TAKE p \in ProviderOf[g.nodes[c].module]
  <2>2. p \in Providers /\ RefersTo[p] \subseteq Resources /\ Workload \notin Resources
    BY <2>1 DEF GraphAssumption
  <2>3. \A t \in RefersTo[p] : t \in Live(g)
    BY DEF AddProviderMapping, ResolvesSubstitutions
  <2> QED
    BY <1>2, <2>2, <2>3
<1>4. \A p \in used : p \in Providers /\ RefersTo[p] \subseteq live
  BY <1>3
<1> HIDE DEF used, live
<1>5. \A p \in used : /\ Chosen(HashUniqueProviderConfiguration(p)) \in used
                      /\ HashUniqueProviderConfiguration(Chosen(HashUniqueProviderConfiguration(p)))
                           = HashUniqueProviderConfiguration(p)
                      /\ Chosen(HashUniqueProviderConfiguration(p)) \in configured
  OBVIOUS
<1>6. \A p \in configured : p \in used
  BY <1>5
<1>7. \A p \in used : LocalProviderName(p) \in tofu.providers
  <2> TAKE p \in used
  <2> DEFINE twin == Chosen(HashUniqueProviderConfiguration(p))
  <2>1. /\ twin \in configured /\ twin \in Providers /\ p \in Providers
        /\ HashUniqueProviderConfiguration(twin) = HashUniqueProviderConfiguration(p)
    BY <1>4, <1>5
  <2> HIDE DEF twin, configured
  <2>2. LocalProviderName(twin) = LocalProviderName(p)
    BY <2>1 DEF HashesDistinguish
  <2> QED
    BY <1>1, <2>1, <2>2
<1> HIDE DEF configured
<1>8. tofu.reads \subseteq live
  BY <1>1, <1>4, <1>6
<1>9. \A c \in live : c \in resources /\ g.edges[c] \subseteq live
  BY <1>2 DEF SoundGraph, live
<1> HIDE DEF resources
<1>10. \A c \in live : tofu.uses[c] \subseteq tofu.providers /\ tofu.dependsOn[c] \subseteq live
  BY <1>1, <1>3, <1>7, <1>9
<1> QED
  BY <1>1, <1>2, <1>8, <1>10
-----------------------------------------------------------------------------
(***************************************************************************)
(* Deployments.  Every one has a sound graph, its own program and a base   *)
(* before it; the state head is the last one that may have changed the     *)
(* Environment, and only the last one executes.                            *)
(***************************************************************************)
Listed(s) == s \in Seq(Range(s))

IsDeployment(x) ==
  x = [mode |-> x.mode, status |-> x.status, graph |-> x.graph, base |-> x.base,
       tofu |-> x.tofu, diff |-> x.diff]

GraphOf(s, d) == IF d = 0 THEN EmptyGraph ELSE s[d].graph

SoundDeployment(s, d) ==
  /\ IsDeployment(s[d]) /\ s[d].mode \in Modes
  /\ s[d].status \in {"executing", "succeeded", "failed"}
  /\ SoundGraph(s[d].graph) /\ AddProviderMapping(s[d].graph)
  /\ s[d].base \in 0..(d - 1)
  /\ s[d].tofu = BuildTofuFromGraph(s[d].graph)
  /\ s[d].diff = DiffGraphs(GraphOf(s, s[d].base), s[d].graph)

HeadInv ==
  /\ Listed(deps) /\ rules \in Rules
  /\ state \in 0..Len(deps) /\ (deps # <<>> => state # 0)
  /\ \A d \in 1..Len(deps) : SoundDeployment(deps, d)
  /\ \A d \in 1..(Len(deps) - 1) : deps[d].status # "executing"
  /\ \A d \in (state + 1)..Len(deps) : IsPlan(deps[d].mode)
  /\ state # 0 /\ IsPlan(deps[state].mode) => \A d \in 1..Len(deps) : IsPlan(deps[d].mode)

\* The programs of such Deployments are sound.
LEMMA HeadProgramSound ==
  ASSUME GraphAssumption, HashesDistinguish, HeadInv PROVE ProgramSound
<1>1. ASSUME NEW d \in 1..Len(deps) PROVE SoundDeployment(deps, d)
  BY <1>1 DEF HeadInv
<1>2. ProgramClosed /\ ProvidersConfigured
  <2>1. ASSUME NEW d \in 1..Len(deps)
        PROVE  /\ \A c \in deps[d].tofu.modules :
                    /\ deps[d].tofu.dependsOn[c] \subseteq deps[d].tofu.modules
                    /\ deps[d].tofu.uses[c] \subseteq deps[d].tofu.providers
               /\ deps[d].tofu.reads \subseteq deps[d].tofu.modules
    <3>1. /\ SoundGraph(deps[d].graph) /\ AddProviderMapping(deps[d].graph)
          /\ deps[d].tofu = BuildTofuFromGraph(deps[d].graph)
      BY <1>1 DEF SoundDeployment
    <3> QED
      BY <3>1, ProgramIsSound
  <2> QED
    BY <2>1 DEF ProgramClosed, ProvidersConfigured
<1>3. DiffExact
  <2> SUFFICES ASSUME NEW d \in 1..Len(deps), NEW before, before = GraphOf(deps, deps[d].base),
                      Live(before) = DOMAIN before.nodes
               PROVE  /\ deps[d].diff.added = Live(deps[d].graph) \ Live(before)
                      /\ deps[d].diff.removed = Live(before) \ Live(deps[d].graph)
    BY DEF DiffExact, GraphOf, Graph
  <2>1. deps[d].diff = DiffGraphs(before, deps[d].graph)
    BY <1>1 DEF SoundDeployment
  <2> QED
    BY <2>1 DEF DiffGraphs
<1> QED
  BY <1>2, <1>3 DEF ProgramSound

\* A function on 1..n is a sequence.
LEMMA FunctionIsSeq ==
  ASSUME NEW S, NEW n \in Nat, NEW f \in [1..n -> S]
  PROVE  f \in Seq(S)
OBVIOUS

\* Appending a Deployment leaves the earlier ones as they are.
LEMMA AppendListed ==
  ASSUME NEW s, Listed(s), NEW x
  PROVE  /\ Len(Append(s, x)) = Len(s) + 1 /\ Append(s, x)[Len(s) + 1] = x /\ Len(s) \in Nat
         /\ \A i \in 1..Len(s) : Append(s, x)[i] = s[i]
         /\ Listed(Append(s, x))
<1> DEFINE S == Range(s) \cup {x}
           t == Append(s, x)
<1>1. s \in Seq(Range(s))
  BY DEF Listed
<1>2. s \in Seq(S)
  BY <1>1
<1>3. /\ t \in Seq(S) /\ Len(t) = Len(s) + 1 /\ t[Len(s) + 1] = x /\ Len(s) \in Nat
      /\ \A i \in 1..Len(s) : t[i] = s[i]
  BY <1>2
<1> HIDE DEF t
<1>4. Listed(t)
  <2>1. DOMAIN t = 1..Len(t) /\ Len(t) \in Nat
    BY <1>3
  <2>2. \A i \in 1..Len(t) : t[i] \in Range(t)
    BY <2>1 DEF Range
  <2>3. t = [i \in 1..Len(t) |-> t[i]]
    BY <1>3
  <2> QED
    BY <2>1, <2>2, <2>3 DEF Listed
<1> QED
  BY <1>3, <1>4 DEF t

Ended(s, status) == [s EXCEPT ![Len(s)].status = status]

\* Ending the last one changes nothing but its status.
LEMMA StatusListed ==
  ASSUME NEW s, Listed(s), s # <<>>, IsDeployment(s[Len(s)]), NEW o,
         NEW t, t = Ended(s, o)
  PROVE  /\ Listed(t) /\ Len(t) = Len(s) /\ Len(s) \in Nat \ {0}
         /\ \A i \in 1..Len(s) : i # Len(s) => t[i] = s[i]
         /\ t[Len(s)].status = o
         /\ \A i \in 1..Len(s) :
              /\ IsDeployment(s[i]) => IsDeployment(t[i])
              /\ t[i].mode = s[i].mode /\ t[i].graph = s[i].graph
              /\ t[i].base = s[i].base /\ t[i].tofu = s[i].tofu /\ t[i].diff = s[i].diff
<1>1. s \in Seq(Range(s)) /\ DOMAIN s = 1..Len(s) /\ Len(s) \in Nat /\ Len(s) \in 1..Len(s)
  BY DEF Listed
<1> DEFINE y == s[Len(s)]
<1>2. t = [s EXCEPT ![Len(s)] = [y EXCEPT !.status = o]]
  BY DEF Ended
<1>3. y = [mode |-> y.mode, status |-> y.status, graph |-> y.graph, base |-> y.base,
           tofu |-> y.tofu, diff |-> y.diff]
  BY DEF IsDeployment
<1> HIDE DEF y
<1> DEFINE z == [y EXCEPT !.status = o]
<1>4. z = [mode |-> y.mode, status |-> o, graph |-> y.graph, base |-> y.base,
           tofu |-> y.tofu, diff |-> y.diff]
  BY <1>3
<1>5. t = [s EXCEPT ![Len(s)] = z]
  BY <1>2
<1> HIDE DEF z
<1>6. DOMAIN t = 1..Len(s) /\ t[Len(s)] = z /\ \A i \in 1..Len(s) : i # Len(s) => t[i] = s[i]
  BY <1>1, <1>5
<1>7. Listed(t) /\ Len(t) = Len(s)
  <2>1. \A i \in 1..Len(s) : t[i] \in Range(t)
    BY <1>6 DEF Range
  <2>2. t = [i \in 1..Len(s) |-> t[i]]
    BY <1>5, <1>6
  <2>3. t \in [1..Len(s) -> Range(t)]
    BY <2>1, <2>2
  <2>4. t \in Seq(Range(t))
    <3>1. Len(s) \in Nat
      BY <1>1
    <3> QED
      BY <2>3, <3>1, FunctionIsSeq
  <2>5. Len(t) = Len(s)
    <3>1. DOMAIN t = 1..Len(t) /\ Len(t) \in Nat
      BY <2>4, LenProperties
    <3>2. 1..Len(t) = 1..Len(s) /\ Len(s) \in Nat
      BY <1>1, <1>6, <3>1
    <3> QED
      BY <3>1, <3>2
  <2> QED
    BY <2>4, <2>5 DEF Listed
<1>8. IsDeployment(z)
  BY <1>4 DEF IsDeployment
<1>9. /\ z.mode = y.mode /\ z.graph = y.graph /\ z.base = y.base /\ z.tofu = y.tofu
      /\ z.diff = y.diff /\ z.status = o
  BY <1>4
<1>10. \A i \in 1..Len(s) :
              /\ IsDeployment(s[i]) => IsDeployment(t[i])
              /\ t[i].mode = s[i].mode /\ t[i].graph = s[i].graph
              /\ t[i].base = s[i].base /\ t[i].tofu = s[i].tofu /\ t[i].diff = s[i].diff
  BY <1>6, <1>8, <1>9 DEF y
<1>11. Len(s) \in Nat \ {0}
  BY <1>1
<1>12. t[Len(s)].status = o
  BY <1>6, <1>9
<1> HIDE DEF z
<1> QED
  BY <1>6, <1>7, <1>10, <1>11, <1>12

\* A Deployment stays sound when others are added and its status changes.
LEMMA SoundStays ==
  ASSUME NEW s, NEW t, NEW d \in Nat \ {0}, SoundDeployment(s, d), IsDeployment(t[d]),
         t[d].status \in {"executing", "succeeded", "failed"},
         \A i \in 1..d : /\ t[i].mode = s[i].mode /\ t[i].graph = s[i].graph
                         /\ t[i].base = s[i].base /\ t[i].tofu = s[i].tofu
                         /\ t[i].diff = s[i].diff
  PROVE  SoundDeployment(t, d)
<1>1. d \in 1..d /\ s[d].base \in 0..(d - 1)
  BY DEF SoundDeployment
<1>2. GraphOf(t, s[d].base) = GraphOf(s, s[d].base)
  BY <1>1 DEF GraphOf
<1>3. /\ t[d].mode = s[d].mode /\ t[d].graph = s[d].graph /\ t[d].base = s[d].base
      /\ t[d].tofu = s[d].tofu /\ t[d].diff = s[d].diff
  BY <1>1
<1> QED
  BY <1>1, <1>2, <1>3 DEF SoundDeployment
-----------------------------------------------------------------------------
NewDeployment(mode, g, base) ==
  [mode |-> mode, status |-> "executing", graph |-> g, base |-> base,
   tofu |-> BuildTofuFromGraph(g), diff |-> DiffGraphs(GraphOf(deps, base), g)]

Compiled(mode, base, requested) ==
  NewGraph(UsesLastGraph(mode), GraphOf(deps, base), base # 0 /\ deps[base].status = "failed",
           requested, rules)

\* What a creation does.
CreatesFrom(mode, requested, base, g) ==
  /\ UsesLastGraph(mode) => base # 0
  /\ g = Compiled(mode, base, requested)
  /\ AddProviderMapping(g)
  /\ deps # <<>> => deps[Len(deps)].status # "executing"
  /\ deps' = Append(deps, NewDeployment(mode, g, base))
  /\ state' = StateHead(mode, Len(deps) + 1)
  /\ IF Stamps(mode)
     THEN /\ nodes' = StampNodes(Len(deps) + 1, StampedGraph(mode, g))
          /\ edges' = DetachOld(Len(deps) + 1, nodes',
                                StampEdges(Len(deps) + 1, StampedGraph(mode, g)))
     ELSE UNCHANGED <<nodes, edges>>
  /\ UNCHANGED <<rules, infra>>

LEMMA CreateDoes ==
  ASSUME NEW mode, NEW requested, NEW target, NEW withActive,
         Create(mode, requested, target, withActive)
  PROVE  \E g : CreatesFrom(mode, requested, Reference(mode, target), g)
<1> DEFINE base == Reference(mode, target)
           g == Compiled(mode, base, requested)
<1>1. /\ deps # <<>> => deps[Len(deps)].status # "executing"
      /\ UsesLastGraph(mode) => base # 0
      /\ UNCHANGED <<rules, infra>>
      /\ state' = StateHead(mode, Len(deps) + 1)
  BY DEF Create
<1>2. AddProviderMapping(g)
  BY DEF Create, Compiles, Compiled, GraphOf, Graph
<1>3. deps' = Append(deps, NewDeployment(mode, g, base))
  BY DEF Create, Compiled, GraphOf, Graph, NewDeployment
<1>4. IF Stamps(mode)
      THEN /\ nodes' = StampNodes(Len(deps) + 1, StampedGraph(mode, g))
           /\ edges' = DetachOld(Len(deps) + 1, nodes',
                                 StampEdges(Len(deps) + 1, StampedGraph(mode, g)))
      ELSE UNCHANGED <<nodes, edges>>
  BY DEF Create, Compiled, GraphOf, Graph
<1> QED
  BY <1>1, <1>2, <1>3, <1>4 DEF CreatesFrom

\* The graph it compiles is sound, and keeps what the head's graph still stands for.
LEMMA CompiledIsSound ==
  ASSUME ResourcesAssumption, HeadInv, NEW mode \in Modes, NEW requested \in SUBSET Resources,
         NEW base \in 0..Len(deps), NEW g, CreatesFrom(mode, requested, base, g)
  PROVE  /\ SoundGraph(g)
         /\ base # 0 => \A c \in DOMAIN deps[base].graph.nodes \ {Workload} :
              deps[base].status = "failed" \/ c \in Live(deps[base].graph) => c \in DOMAIN g.nodes
<1> DEFINE last == GraphOf(deps, base)
<1>1. SoundGraph(last)
  <2>1. CASE base = 0
    BY <2>1, EmptyIsSound DEF GraphOf
  <2>2. CASE base # 0
    <3>1. base \in 1..Len(deps)
      BY <2>2
    <3> QED
      BY <2>2, <3>1 DEF GraphOf, HeadInv, SoundDeployment
  <2> QED
    BY <2>1, <2>2
<1>2. base # 0 => last = deps[base].graph
  BY DEF GraphOf
<1> HIDE DEF last
<1>3. CASE UsesLastGraph(mode)
  <2>1. g = last
    BY <1>3 DEF CreatesFrom, Compiled, NewGraph, last
  <2> QED
    BY <1>1, <1>2, <2>1
<1>4. CASE ~UsesLastGraph(mode)
  <2> DEFINE new == BuildGraph(requested, rules)
             includeDeleted == base # 0 /\ deps[base].status = "failed"
  <2>1. g = AddDeletedNodes(new, last, includeDeleted)
    BY <1>4 DEF CreatesFrom, Compiled, NewGraph, last
  <2>2. rules \in [Resources -> Modules] /\ GraphAssumption
    BY DEF HeadInv, ResourcesAssumption
  <2>3. SoundGraph(new) /\ Live(new) = DOMAIN new.nodes
    BY <2>2, BuiltIsSound
  <2>4. includeDeleted \in BOOLEAN
    OBVIOUS
  <2> HIDE DEF new
  <2>5. /\ SoundGraph(g)
        /\ \A c \in DOMAIN last.nodes \ {Workload} :
             includeDeleted \/ c \in Live(last) => c \in DOMAIN g.nodes
    <3> HIDE DEF includeDeleted
    <3> QED
      BY <1>1, <2>1, <2>2, <2>3, <2>4, DroppedIsKept
  <2> QED
    BY <1>2, <2>5
<1> QED
  BY <1>3, <1>4

LEMMA CreateKeepsHead ==
  ASSUME ResourcesAssumption, HeadInv, NEW mode \in Modes, NEW requested \in SUBSET Resources,
         NEW base \in 0..Len(deps), NEW g, CreatesFrom(mode, requested, base, g)
  PROVE  /\ HeadInv'
         /\ Len(deps') = Len(deps) + 1 /\ Len(deps) \in Nat
         /\ deps'[Len(deps) + 1] = NewDeployment(mode, g, base)
         /\ \A i \in 1..Len(deps) : deps'[i] = deps[i]
<1> DEFINE n == Len(deps)
           x == NewDeployment(mode, g, base)
<1>1. Listed(deps) /\ deps' = Append(deps, x)
  BY DEF HeadInv, CreatesFrom
<1> HIDE DEF x
<1>2. /\ Len(deps') = n + 1 /\ deps'[n + 1] = x /\ n \in Nat /\ Listed(deps')
      /\ \A i \in 1..n : deps'[i] = deps[i]
  BY <1>1, AppendListed
<1>3. /\ IsDeployment(x) /\ x.mode = mode /\ x.graph = g /\ x.base = base /\ x.status = "executing"
      /\ x.tofu = BuildTofuFromGraph(g) /\ x.diff = DiffGraphs(GraphOf(deps, base), g)
  BY DEF x, NewDeployment, IsDeployment
<1>4. SoundDeployment(deps', n + 1)
  <2>1. GraphOf(deps', base) = GraphOf(deps, base)
    BY <1>2 DEF GraphOf
  <2>2. SoundGraph(g) /\ AddProviderMapping(g)
    BY CompiledIsSound DEF CreatesFrom
  <2>3. base \in 0..((n + 1) - 1)
    BY <1>2
  <2> QED
    BY <1>2, <1>3, <2>1, <2>2, <2>3 DEF SoundDeployment
<1>5. ASSUME NEW d \in 1..n PROVE SoundDeployment(deps', d)
  <2>1. SoundDeployment(deps, d) /\ d \in Nat \ {0} /\ \A i \in 1..d : deps'[i] = deps[i]
    BY <1>2 DEF HeadInv
  <2>2. IsDeployment(deps'[d]) /\ deps'[d].status \in {"executing", "succeeded", "failed"}
    BY <1>2, <2>1 DEF SoundDeployment
  <2> QED
    BY <2>1, <2>2, SoundStays
<1>6. \A d \in 1..Len(deps') : SoundDeployment(deps', d)
  BY <1>2, <1>4, <1>5
<1>7. rules' \in Rules
  BY DEF HeadInv, CreatesFrom
<1>8. /\ state' \in 0..Len(deps') /\ state' # 0
      /\ state' = IF IsPlan(mode) /\ state # 0 THEN state ELSE n + 1
  BY <1>2 DEF CreatesFrom, StateHead, HeadInv
<1>9. \A d \in 1..(Len(deps') - 1) : deps'[d].status # "executing"
  <2>1. \A d \in 1..n : deps[d].status # "executing"
    BY <1>2 DEF CreatesFrom, HeadInv
  <2> QED
    BY <1>2, <2>1
<1>10. \A d \in (state' + 1)..Len(deps') : IsPlan(deps'[d].mode)
  <2>1. CASE IsPlan(mode) /\ state # 0
    <3>1. \A d \in (state + 1)..n : IsPlan(deps[d].mode) /\ d \in 1..n
      BY <1>2 DEF HeadInv
    <3> QED
      BY <1>2, <1>3, <1>8, <2>1, <3>1 DEF HeadInv
  <2>2. CASE ~(IsPlan(mode) /\ state # 0)
    BY <1>2, <1>8, <2>2
  <2> QED
    BY <2>1, <2>2
<1>11. state' # 0 /\ IsPlan(deps'[state'].mode) => \A d \in 1..Len(deps') : IsPlan(deps'[d].mode)
  <2>1. CASE IsPlan(mode) /\ state # 0
    <3>1. state \in 1..n /\ state' = state /\ deps'[state] = deps[state]
      BY <1>2, <1>8, <2>1 DEF HeadInv
    <3>2. IsPlan(deps[state].mode) => \A d \in 1..n : IsPlan(deps[d].mode)
      BY <2>1 DEF HeadInv
    <3> QED
      BY <1>2, <1>3, <2>1, <3>1, <3>2
  <2>2. CASE ~IsPlan(mode)
    BY <1>2, <1>3, <1>8, <2>2
  <2>3. CASE IsPlan(mode) /\ state = 0
    <3>1. n = 0
      BY <1>2, <2>3 DEF HeadInv, Listed
    <3> QED
      BY <1>2, <1>3, <2>3, <3>1
  <2> QED
    BY <2>1, <2>2, <2>3
<1> QED
  BY <1>2, <1>6, <1>7, <1>8, <1>9, <1>10, <1>11 DEF HeadInv, x

\* An end keeps the order of the Deployments, and the one that ends is the state head
\* unless it is a plan.
LEMMA CompleteKeepsHead ==
  ASSUME HeadInv, NEW ok \in BOOLEAN, NEW reported, Complete(ok, reported)
  PROVE  /\ HeadInv'
         /\ Len(deps') = Len(deps) /\ Len(deps) \in Nat \ {0}
         /\ deps[Len(deps)].status = "executing"
         /\ deps'[Len(deps)].status = IF ok THEN "succeeded" ELSE "failed"
         /\ \A i \in 1..Len(deps) : i # Len(deps) => deps'[i] = deps[i]
         /\ \A i \in 1..Len(deps) : deps'[i].mode = deps[i].mode /\ deps'[i].graph = deps[i].graph
         /\ state' = state /\ state \in 1..Len(deps)
         /\ ~IsPlan(deps[Len(deps)].mode) => state = Len(deps)
<1> DEFINE n == Len(deps)
           status == IF ok THEN "succeeded" ELSE "failed"
<1>1. /\ Listed(deps) /\ deps # <<>> /\ deps[n].status = "executing"
      /\ deps' = Ended(deps, status) /\ rules' = rules /\ state' = state
  BY DEF HeadInv, Complete, Ended
<1>2. n \in 1..n
  BY <1>1 DEF Listed
<1>3. IsDeployment(deps[n])
  BY <1>2 DEF HeadInv, SoundDeployment
<1> HIDE DEF status
<1>4. /\ Listed(deps') /\ Len(deps') = n /\ n \in Nat \ {0} /\ deps'[n].status = status
      /\ \A i \in 1..n : i # n => deps'[i] = deps[i]
      /\ \A i \in 1..n :
              /\ IsDeployment(deps[i]) => IsDeployment(deps'[i])
              /\ deps'[i].mode = deps[i].mode /\ deps'[i].graph = deps[i].graph
              /\ deps'[i].base = deps[i].base /\ deps'[i].tofu = deps[i].tofu
              /\ deps'[i].diff = deps[i].diff
  BY <1>1, <1>3, StatusListed
<1>5. ASSUME NEW d \in 1..n PROVE SoundDeployment(deps', d)
  <2>1. SoundDeployment(deps, d) /\ d \in Nat \ {0} /\ \A i \in 1..d : i \in 1..n
    BY <1>4 DEF HeadInv
  <2>2. IsDeployment(deps'[d]) /\ deps'[d].status \in {"executing", "succeeded", "failed"}
    BY <1>4, <2>1 DEF SoundDeployment, status
  <2> QED
    BY <1>4, <2>1, <2>2, SoundStays
<1>6. state \in 1..n
  BY <1>1, <1>4 DEF HeadInv
<1>7. \A d \in 1..(n - 1) : deps'[d].status # "executing"
  <2> TAKE d \in 1..(n - 1)
  <2>1. d \in 1..n /\ d # n
    BY <1>4
  <2> QED
    BY <1>4, <2>1 DEF HeadInv
<1>8. \A d \in (state + 1)..n : IsPlan(deps'[d].mode)
  <2> TAKE d \in (state + 1)..n
  <2>1. d \in 1..n
    BY <1>4, <1>6
  <2> QED
    BY <1>4, <2>1 DEF HeadInv
<1>9. IsPlan(deps'[state].mode) => \A d \in 1..n : IsPlan(deps'[d].mode)
  <2>1. deps'[state].mode = deps[state].mode /\ \A d \in 1..n : deps'[d].mode = deps[d].mode
    BY <1>4, <1>6
  <2> QED
    BY <1>6, <2>1 DEF HeadInv
<1>10. ~IsPlan(deps[n].mode) => state = n
  <2> SUFFICES ASSUME state # n PROVE IsPlan(deps[n].mode)
    OBVIOUS
  <2>1. n \in (state + 1)..n
    BY <1>4, <1>6
  <2> QED
    BY <2>1 DEF HeadInv
<1>11. HeadInv'
  BY <1>1, <1>4, <1>5, <1>6, <1>7, <1>8, <1>9 DEF HeadInv
<1> QED
  BY <1>1, <1>4, <1>6, <1>10, <1>11 DEF status
-----------------------------------------------------------------------------
(***************************************************************************)
(* The tables.  Nodes and edges carry the stamps of Deployments that       *)
(* changed the Environment; those of the state head stand on exactly what  *)
(* it provisions.                                                          *)
(***************************************************************************)
Provisioned(x) == IF x.mode = "destroy" THEN {} ELSE Live(x.graph)

IsRow(r) == r = [dep |-> r.dep, module |-> r.module, meta |-> r.meta]

Stamped ==
  state # 0 /\ ~IsPlan(deps[state].mode) =>
    /\ \A c \in Provisioned(deps[state]) :
         /\ c \in DOMAIN nodes /\ nodes[c].dep = state
         /\ nodes[c].module = deps[state].graph.nodes[c].module
    /\ \A c \in DOMAIN nodes : nodes[c].dep = state => c \in Provisioned(deps[state])

TableInv ==
  /\ nodes = [c \in DOMAIN nodes |-> nodes[c]]
  /\ \A c \in DOMAIN nodes : /\ IsRow(nodes[c]) /\ nodes[c].dep \in 1..Len(deps)
                             /\ ~IsPlan(deps[nodes[c].dep].mode)
  /\ edges = [e \in DOMAIN edges |-> edges[e]]
  /\ \A e \in DOMAIN edges : /\ e[1] \in DOMAIN nodes /\ e[2] \in DOMAIN nodes
                             /\ edges[e] \in 1..Len(deps)
  /\ Stamped

Remembers == TableInv /\ ActiveMatchesHead /\ FailureForgetsNothing /\ NewNeverPointsToOld

\* What the stamping of a new Deployment leaves in the tables.
TablesStamped(d, g, table, joins) ==
  /\ table = [c \in DOMAIN table |-> table[c]] /\ DOMAIN table = DOMAIN nodes \cup Live(g)
  /\ \A c \in Live(g) : /\ IsRow(table[c]) /\ table[c].dep = d
                        /\ table[c].module = g.nodes[c].module
  /\ \A c \in DOMAIN nodes \ Live(g) : table[c] = nodes[c]
  /\ joins = [e \in DOMAIN joins |-> joins[e]]
  /\ \A e \in DOMAIN joins :
       /\ table[e[1]].dep = d => joins[e] = d
       /\ \/ joins[e] = d /\ e[1] \in Live(g) /\ e[2] \in Live(g)
          \/ e \in DOMAIN edges /\ joins[e] = edges[e]

\* New rows carry the stamp, old ones stay, and an edge of a stamped node is new.
LEMMA StampDoes ==
  ASSUME TableInv, NEW d \in Nat, NEW g, SoundGraph(g),
         NEW table, table = StampNodes(d, g), NEW joins, joins = DetachOld(d, table, StampEdges(d, g))
  PROVE  TablesStamped(d, g, table, joins)
<1>1. /\ table = [c \in DOMAIN nodes \cup Live(g) |->
                   IF c \in Live(g)
                   THEN [dep |-> d, module |-> g.nodes[c].module,
                         meta |-> IF c \in DOMAIN nodes THEN nodes[c].meta ELSE 0]
                   ELSE nodes[c]]
  BY DEF StampNodes
<1>2. /\ table = [c \in DOMAIN table |-> table[c]] /\ DOMAIN table = DOMAIN nodes \cup Live(g)
      /\ \A c \in DOMAIN nodes \ Live(g) : table[c] = nodes[c]
  BY <1>1
<1>3. \A c \in Live(g) : /\ IsRow(table[c]) /\ table[c].dep = d
                         /\ table[c].module = g.nodes[c].module
  <2> TAKE c \in Live(g)
  <2>1. table[c] = [dep |-> d, module |-> g.nodes[c].module,
                    meta |-> IF c \in DOMAIN nodes THEN nodes[c].meta ELSE 0]
    BY <1>1
  <2> QED
    BY <2>1 DEF IsRow
<1> DEFINE fresh == {e \in Live(g) \X (DOMAIN g.nodes) : e[2] \in g.edges[e[1]]}
           all == StampEdges(d, g)
           kept == {e \in DOMAIN all : table[e[1]].dep = d => all[e] = d}
<1>4. all = [e \in DOMAIN edges \cup fresh |-> IF e \in fresh THEN d ELSE edges[e]]
  BY DEF StampEdges
<1>5. joins = [e \in kept |-> all[e]]
  BY DEF DetachOld, Restrict
<1>6. \A e \in fresh : e[1] \in Live(g) /\ e[2] \in Live(g)
  <2> TAKE e \in fresh
  <2>1. e[1] \in Live(g) /\ e[2] \in g.edges[e[1]]
    OBVIOUS
  <2> QED
    BY <2>1 DEF SoundGraph
<1> HIDE DEF fresh
<1>7. /\ DOMAIN all = DOMAIN edges \cup fresh
      /\ \A e \in fresh : all[e] = d
      /\ \A e \in DOMAIN all : e \notin fresh => e \in DOMAIN edges /\ all[e] = edges[e]
  BY <1>4
<1> HIDE DEF all
<1>8. DOMAIN joins = kept /\ \A e \in kept : joins[e] = all[e]
  BY <1>5
<1>9. joins = [e \in DOMAIN joins |-> joins[e]]
  BY <1>5
<1>10. \A e \in DOMAIN joins :
         /\ table[e[1]].dep = d => joins[e] = d
         /\ \/ joins[e] = d /\ e[1] \in Live(g) /\ e[2] \in Live(g)
            \/ e \in DOMAIN edges /\ joins[e] = edges[e]
  BY <1>6, <1>7, <1>8
<1> QED
  BY <1>2, <1>3, <1>9, <1>10 DEF TablesStamped
-----------------------------------------------------------------------------
\* A step creates a Deployment, ends the last one, or leaves the Environment alone.
LEMMA StepDoes ==
  ASSUME ResourcesAssumption, HeadInv, [ResourcesNext]_resourcesVars
  PROVE  \/ \E mode \in Modes, requested \in SUBSET Resources, base \in 0..Len(deps) :
              (~IsRollback(mode) => base = state) /\ \E g : CreatesFrom(mode, requested, base, g)
         \/ \E ok \in BOOLEAN, reported \in SUBSET Resources : Complete(ok, reported)
         \/ rules' \in Rules /\ UNCHANGED <<deps, state, nodes, edges, infra>>
<1>1. CASE \E mode \in Modes, requested \in SUBSET Resources, withActive \in BOOLEAN :
             ~IsRollback(mode) /\ Create(mode, requested, 0, withActive)
  <2> PICK mode \in Modes, requested \in SUBSET Resources, withActive \in BOOLEAN :
             ~IsRollback(mode) /\ Create(mode, requested, 0, withActive)
    BY <1>1
  <2>1. PICK g : CreatesFrom(mode, requested, Reference(mode, 0), g)
    BY CreateDoes
  <2>2. Reference(mode, 0) = state /\ state \in 0..Len(deps)
    BY DEF Reference, HeadInv
  <2>3. CreatesFrom(mode, requested, state, g)
    BY <2>1, <2>2
  <2> QED
    BY <2>2, <2>3
<1>2. CASE \E mode \in Modes, target \in 1..Len(deps), withActive \in BOOLEAN :
             IsRollback(mode) /\ Create(mode, {}, target, withActive)
  <2> PICK mode \in Modes, target \in 1..Len(deps), withActive \in BOOLEAN :
             IsRollback(mode) /\ Create(mode, {}, target, withActive)
    BY <1>2
  <2>1. PICK g : CreatesFrom(mode, {}, Reference(mode, target), g)
    BY CreateDoes
  <2>2. Reference(mode, target) = target /\ target \in 0..Len(deps) /\ {} \in SUBSET Resources
    BY DEF Reference
  <2>3. CreatesFrom(mode, {}, target, g)
    BY <2>1, <2>2
  <2> QED
    BY <2>2, <2>3
<1>3. CASE \E ok \in BOOLEAN, reported \in SUBSET Resources : Complete(ok, reported)
  BY <1>3
<1>4. CASE \E new \in Rules : SetRules(new)
  BY <1>4 DEF SetRules
<1>5. CASE UNCHANGED resourcesVars
  BY <1>5 DEF resourcesVars, HeadInv
<1> QED
  BY <1>1, <1>2, <1>3, <1>4, <1>5 DEF ResourcesNext

\* What the deployments of an Environment say of each other holds at first and is kept.
LEMMA HeadHolds ==
  ASSUME ResourcesAssumption PROVE ResourcesSpec => []HeadInv
<1>1. ResourcesInit => HeadInv
  <2> SUFFICES ASSUME ResourcesInit PROVE HeadInv
    OBVIOUS
  <2>1. deps = <<>> /\ Len(deps) = 0 /\ state = 0 /\ rules \in Rules
    BY DEF ResourcesInit
  <2>2. Listed(deps)
    BY <2>1 DEF Listed
  <2> QED
    BY <2>1, <2>2 DEF HeadInv
<1>2. ASSUME HeadInv, [ResourcesNext]_resourcesVars PROVE HeadInv'
  <2>1. ASSUME NEW mode \in Modes, NEW requested \in SUBSET Resources, NEW base \in 0..Len(deps),
               NEW g, CreatesFrom(mode, requested, base, g)
        PROVE  HeadInv'
    BY <1>2, <2>1, CreateKeepsHead
  <2>2. ASSUME NEW ok \in BOOLEAN, NEW reported, Complete(ok, reported) PROVE HeadInv'
    BY <1>2, <2>2, CompleteKeepsHead
  <2>3. CASE rules' \in Rules /\ UNCHANGED <<deps, state, nodes, edges, infra>>
    BY <1>2, <2>3 DEF HeadInv, SoundDeployment, GraphOf
  <2> QED
    BY <1>2, <2>1, <2>2, <2>3, StepDoes
<1> QED
  BY <1>1, <1>2, PTL DEF ResourcesSpec

\* Whatever a manifest, the rules and the earlier Deployments: generated programs are closed
\* under dependencies and configure every provider they use, and the diff is exact
\* (BuildTofuFromGraph, AddDeletedNodes, CalculateDeploymentDiff).
THEOREM ProgramsAreSound ==
  ASSUME ResourcesAssumption, HashesDistinguish
  PROVE  ResourcesSpec => []ProgramSound
<1>1. GraphAssumption
  BY DEF ResourcesAssumption
<1>2. HeadInv => ProgramSound
  BY <1>1, HeadProgramSound
<1> QED
  BY <1>2, HeadHolds, PTL
-----------------------------------------------------------------------------
\* The facts about Deployments the lemmas on the tables use.
LEMMA ProvisionsAre ==
  /\ \A d : Provisions(d) = Provisioned(deps[d])
  /\ \A d : Provisions(d)' = Provisioned(deps'[d])
BY DEF Provisions, Provisioned, ListDeploymentResourceNodes, Graph

\* A creation keeps them, and a plan's touches nothing.
LEMMA CreateRemembers ==
  ASSUME ResourcesAssumption, "rollback_plan" \notin Modes, HeadInv, Remembers,
         NEW mode \in Modes, NEW requested \in SUBSET Resources, NEW base \in 0..Len(deps),
         NEW g, CreatesFrom(mode, requested, base, g)
  PROVE  Remembers' /\ (mode = "plan_only" => UNCHANGED <<nodes, edges>>)
<1> DEFINE n == Len(deps)
           x == deps'[n + 1]
<1>1. /\ HeadInv' /\ Len(deps') = n + 1 /\ n \in Nat /\ \A i \in 1..n : deps'[i] = deps[i]
      /\ x = NewDeployment(mode, g, base)
  BY CreateKeepsHead
<1>2. x.mode = mode /\ x.graph = g /\ x.status = "executing"
  BY <1>1 DEF NewDeployment
<1>3. /\ state \in 0..n /\ (n # 0 => state # 0)
      /\ state' = IF IsPlan(mode) /\ state # 0 THEN state ELSE n + 1
  BY <1>1 DEF HeadInv, Listed, CreatesFrom, StateHead
<1>4. \A c \in DOMAIN nodes : /\ IsRow(nodes[c]) /\ nodes[c].dep \in 1..n
                              /\ ~IsPlan(deps[nodes[c].dep].mode)
  BY DEF Remembers, TableInv
<1>5. \A e \in DOMAIN edges : e[1] \in DOMAIN nodes /\ e[2] \in DOMAIN nodes /\ edges[e] \in 1..n
  BY DEF Remembers, TableInv
<1>6. ASSUME DOMAIN nodes \subseteq DOMAIN nodes' PROVE FailureForgetsNothing'
  <2> SUFFICES ASSUME NEW d \in 1..(n + 1),
                      deps'[d].status = "succeeded", ~IsPlan(deps'[d].mode),
                      \A e \in d + 1..(n + 1) : deps'[e].status # "succeeded"
               PROVE  Provisioned(deps'[d]) \subseteq DOMAIN nodes'
    BY <1>1, ProvisionsAre DEF FailureForgetsNothing
  <2>1. d \in 1..n /\ deps'[d] = deps[d]
    BY <1>1, <1>2
  <2>2. \A e \in d + 1..n : deps[e].status # "succeeded"
    BY <1>1, <2>1
  <2>3. Provisioned(deps[d]) \subseteq DOMAIN nodes
    BY <2>1, <2>2, ProvisionsAre DEF Remembers, FailureForgetsNothing
  <2> QED
    BY <1>6, <2>1, <2>3
<1>7. CASE mode = "plan_only"
  <2>1. UNCHANGED <<nodes, edges>> /\ IsPlan(mode)
    BY <1>7 DEF CreatesFrom, Stamps, IsPlan
  <2>2. FailureForgetsNothing'
    BY <1>6, <2>1
  <2>3. ASSUME state # 0
        PROVE  Stamped' /\ ActiveMatchesHead' /\ NewNeverPointsToOld'
    <3>1. state' = state /\ deps'[state] = deps[state]
      BY <1>1, <1>3, <2>1, <2>3
    <3>2. Stamped'
      BY <2>1, <2>3, <3>1 DEF Remembers, TableInv, Stamped
    <3>3. ActiveMatchesHead'
      BY <2>1, <2>3, <3>1, ProvisionsAre DEF Remembers, ActiveMatchesHead, Graph
    <3>4. NewNeverPointsToOld'
      BY <2>1, <3>1 DEF Remembers, NewNeverPointsToOld
    <3> QED
      BY <3>2, <3>3, <3>4
  <2>4. ASSUME state = 0
        PROVE  Stamped' /\ ActiveMatchesHead' /\ NewNeverPointsToOld'
    <3>1. n = 0 /\ state' = 1 /\ IsPlan(deps'[1].mode)
      BY <1>1, <1>2, <1>3, <2>1, <2>4
    <3>2. DOMAIN nodes = {} /\ DOMAIN edges = {}
      BY <1>4, <1>5, <3>1
    <3> QED
      BY <2>1, <3>1, <3>2 DEF Stamped, ActiveMatchesHead, NewNeverPointsToOld
  <2>5. TableInv'
    <3>1. \A c \in DOMAIN nodes : /\ IsRow(nodes[c]) /\ nodes[c].dep \in 1..(n + 1)
                                  /\ ~IsPlan(deps'[nodes[c].dep].mode)
      BY <1>1, <1>4
    <3>2. \A e \in DOMAIN edges : /\ e[1] \in DOMAIN nodes /\ e[2] \in DOMAIN nodes
                                  /\ edges[e] \in 1..(n + 1)
      BY <1>1, <1>5
    <3>3. nodes = [c \in DOMAIN nodes |-> nodes[c]] /\ edges = [e \in DOMAIN edges |-> edges[e]]
      BY DEF Remembers, TableInv
    <3>4. Stamped'
      BY <2>3, <2>4
    <3> QED
      BY <1>1, <2>1, <3>1, <3>2, <3>3, <3>4 DEF TableInv
  <2> QED
    BY <2>1, <2>2, <2>3, <2>4, <2>5 DEF Remembers
<1>8. CASE mode # "plan_only"
  <2> DEFINE G == StampedGraph(mode, g)
  <2>1. /\ ~IsPlan(mode) /\ state' = n + 1
        /\ nodes' = StampNodes(n + 1, G)
        /\ edges' = DetachOld(n + 1, nodes', StampEdges(n + 1, G))
    BY <1>3, <1>8 DEF IsPlan, CreatesFrom, Stamps
  <2>2. /\ SoundGraph(G) /\ Live(G) = Provisioned(x)
        /\ \A c \in Live(G) : G.nodes[c].module = g.nodes[c].module
    <3>1. SoundGraph(g)
      BY CompiledIsSound
    <3>2. CASE mode = "destroy"
      <4>1. G = EmptyGraph /\ Provisioned(x) = {}
        BY <1>2, <3>2 DEF StampedGraph, Provisioned
      <4> QED
        BY <4>1, EmptyIsSound
    <3>3. CASE mode # "destroy"
      <4>1. G = g /\ Provisioned(x) = Live(g)
        BY <1>2, <3>3 DEF StampedGraph, Provisioned
      <4> QED
        BY <3>1, <4>1
    <3> QED
      BY <3>2, <3>3
  <2> HIDE DEF G, x
  <2>3. /\ nodes' = [c \in DOMAIN nodes' |-> nodes'[c]]
        /\ DOMAIN nodes' = DOMAIN nodes \cup Live(G)
        /\ \A c \in Live(G) : /\ IsRow(nodes'[c]) /\ nodes'[c].dep = n + 1
                              /\ nodes'[c].module = G.nodes[c].module
        /\ \A c \in DOMAIN nodes \ Live(G) : nodes'[c] = nodes[c]
        /\ edges' = [e \in DOMAIN edges' |-> edges'[e]]
        /\ \A e \in DOMAIN edges' :
             /\ nodes'[e[1]].dep = n + 1 => edges'[e] = n + 1
             /\ \/ edges'[e] = n + 1 /\ e[1] \in Live(G) /\ e[2] \in Live(G)
                \/ e \in DOMAIN edges /\ edges'[e] = edges[e]
    <3>1. TableInv /\ n + 1 \in Nat
      BY <1>1 DEF Remembers
    <3>2. PICK d \in Nat : d = n + 1
      BY <3>1
    <3>3. nodes' = StampNodes(d, G) /\ edges' = DetachOld(d, nodes', StampEdges(d, G)) /\ SoundGraph(G)
      BY <2>1, <2>2, <3>2
    <3> HIDE DEF n
    <3>4. TablesStamped(d, G, nodes', edges')
      BY <3>1, <3>3, StampDoes
    <3> QED
      BY <3>2, <3>4 DEF TablesStamped
  <2>4. FailureForgetsNothing'
    BY <1>6, <2>3
  <2>5. ActiveMatchesHead'
    BY <1>2, <2>1 DEF ActiveMatchesHead, x
  <2>6. \A c \in DOMAIN nodes' :
          /\ IsRow(nodes'[c]) /\ nodes'[c].dep \in 1..(n + 1)
          /\ ~IsPlan(deps'[nodes'[c].dep].mode)
          /\ nodes'[c].dep = n + 1 => c \in Live(G)
    <3> TAKE c \in DOMAIN nodes'
    <3>1. CASE c \in Live(G)
      BY <1>1, <1>2, <2>1, <2>3, <3>1 DEF x
    <3>2. CASE c \notin Live(G)
      <4>1. c \in DOMAIN nodes /\ nodes'[c] = nodes[c]
        BY <2>3, <3>2
      <4> QED
        BY <1>1, <1>4, <4>1
    <3> QED
      BY <3>1, <3>2
  <2>7. \A e \in DOMAIN edges' : /\ e[1] \in DOMAIN nodes' /\ e[2] \in DOMAIN nodes'
                                 /\ edges'[e] \in 1..(n + 1)
    BY <1>1, <1>5, <2>3
  <2>8. Stamped'
    <3>1. \A c \in Live(G) : /\ c \in DOMAIN nodes' /\ nodes'[c].dep = n + 1
                             /\ nodes'[c].module = x.graph.nodes[c].module
      BY <1>2, <2>2, <2>3
    <3> QED
      BY <2>1, <2>2, <2>6, <3>1 DEF Stamped, x
  <2>9. TableInv'
    BY <1>1, <2>3, <2>6, <2>7, <2>8 DEF TableInv
  <2>10. NewNeverPointsToOld'
    <3> SUFFICES ASSUME NEW e \in DOMAIN edges', nodes'[e[1]].dep = n + 1
                 PROVE  nodes'[e[2]].dep = n + 1 /\ edges'[e] = n + 1
      BY <2>1 DEF NewNeverPointsToOld
    <3>1. edges'[e] = n + 1
      BY <2>3
    <3>2. ~(e \in DOMAIN edges /\ edges'[e] = edges[e])
      BY <1>1, <1>5, <3>1
    <3> QED
      BY <2>3, <3>1, <3>2
  <2> QED
    BY <1>8, <2>4, <2>5, <2>9, <2>10 DEF Remembers
<1> QED
  BY <1>7, <1>8

\* What a result does to the tables: rows stay or go, and only their metadata changes.
TableDiscarded(n, discards, kept, table) ==
  /\ table = [c \in DOMAIN table |-> table[c]] /\ DOMAIN table = DOMAIN kept
  /\ DOMAIN table \subseteq DOMAIN nodes
  /\ \A c \in DOMAIN nodes : c \in DOMAIN table <=> ~discards \/ nodes[c].dep = n
  /\ \A c \in DOMAIN table : /\ IsRow(table[c]) /\ table[c].dep = nodes[c].dep
                             /\ table[c].module = nodes[c].module
                             /\ (nodes[c].dep # n => table[c] = nodes[c])

Kept(n, discards) == IF discards THEN DiscardOld(n, nodes) ELSE nodes

\* With a discard the rows of the Deployment stay.
LEMMA DiscardDoes ==
  ASSUME NEW n, NEW discards \in BOOLEAN, NEW kept, NEW reported,
         \A c \in DOMAIN nodes : IsRow(nodes[c]), kept = Kept(n, discards),
         NEW table, table = Describe(n, kept, reported)
  PROVE  TableDiscarded(n, discards, kept, table)
<1>1. /\ DOMAIN kept \subseteq DOMAIN nodes /\ \A c \in DOMAIN kept : kept[c] = nodes[c]
      /\ \A c \in DOMAIN nodes : c \in DOMAIN kept <=> ~discards \/ nodes[c].dep = n
  <2>1. CASE discards
    <3> DEFINE same == {c \in DOMAIN nodes : nodes[c].dep = n}
    <3>1. kept = [c \in same |-> nodes[c]]
      BY <2>1 DEF Kept, DiscardOld, Restrict
    <3>2. DOMAIN kept = same /\ \A c \in same : kept[c] = nodes[c]
      BY <3>1
    <3> QED
      BY <2>1, <3>2
  <2>2. CASE ~discards
    BY <2>2 DEF Kept
  <2> QED
    BY <2>1, <2>2
<1>2. table = [c \in DOMAIN kept |->
                IF c \in reported /\ kept[c].dep = n THEN [kept[c] EXCEPT !.meta = n] ELSE kept[c]]
  BY DEF Describe
<1>3. /\ table = [c \in DOMAIN table |-> table[c]] /\ DOMAIN table = DOMAIN kept
      /\ \A c \in DOMAIN kept : table[c] =
           IF c \in reported /\ kept[c].dep = n THEN [kept[c] EXCEPT !.meta = n] ELSE kept[c]
  BY <1>2
<1>4. ASSUME NEW c \in DOMAIN table
      PROVE  /\ IsRow(table[c]) /\ table[c].dep = nodes[c].dep
             /\ table[c].module = nodes[c].module
             /\ (nodes[c].dep # n => table[c] = nodes[c])
  <2>1. c \in DOMAIN nodes /\ kept[c] = nodes[c] /\ IsRow(nodes[c])
    BY <1>1, <1>3, <1>4
  <2>2. CASE c \in reported /\ kept[c].dep = n
    <3>1. table[c] = [nodes[c] EXCEPT !.meta = n]
      BY <1>3, <1>4, <2>1, <2>2
    <3>2. nodes[c] = [dep |-> nodes[c].dep, module |-> nodes[c].module, meta |-> nodes[c].meta]
      BY <2>1 DEF IsRow
    <3>3. table[c] = [dep |-> nodes[c].dep, module |-> nodes[c].module, meta |-> n]
      BY <3>1, <3>2
    <3> QED
      BY <2>1, <2>2, <3>3 DEF IsRow
  <2>3. CASE ~(c \in reported /\ kept[c].dep = n)
    BY <1>3, <1>4, <2>1, <2>3
  <2> QED
    BY <2>2, <2>3
<1> QED
  BY <1>1, <1>3, <1>4 DEF TableDiscarded

\* An edge goes with its nodes.
LEMMA CascadeDoes ==
  ASSUME NEW kept, NEW joins, joins = Cascade(kept)
  PROVE  /\ joins = [e \in DOMAIN joins |-> joins[e]]
         /\ \A e \in DOMAIN joins : /\ e \in DOMAIN edges /\ joins[e] = edges[e]
                                    /\ e[1] \in kept /\ e[2] \in kept
<1> DEFINE both == {e \in DOMAIN edges : e[1] \in kept /\ e[2] \in kept}
<1>1. joins = [e \in both |-> edges[e]]
  BY DEF Cascade, Restrict
<1>2. DOMAIN joins = both /\ \A e \in both : joins[e] = edges[e]
  BY <1>1
<1>3. joins = [e \in DOMAIN joins |-> joins[e]]
  BY <1>1
<1> QED
  BY <1>2, <1>3

LEMMA CompleteRemembers ==
  ASSUME ResourcesAssumption, HeadInv, Remembers,
         NEW ok \in BOOLEAN, NEW reported, Complete(ok, reported)
  PROVE  Remembers' /\ (IsPlan(deps[Len(deps)].mode) => UNCHANGED <<nodes, edges>>)
<1> DEFINE n == Len(deps)
           discards == Discards(deps[n].mode, ok)
           kept == Kept(n, discards)
<1>1. /\ Len(deps') = n /\ n \in Nat \ {0}
      /\ deps[n].status = "executing"
      /\ deps'[n].status = IF ok THEN "succeeded" ELSE "failed"
      /\ \A i \in 1..n : i # n => deps'[i] = deps[i]
      /\ \A i \in 1..n : deps'[i].mode = deps[i].mode /\ deps'[i].graph = deps[i].graph
      /\ state' = state /\ state \in 1..n
      /\ ~IsPlan(deps[n].mode) => state = n
  BY CompleteKeepsHead
<1>2. discards <=> ~IsPlan(deps[n].mode) /\ ok
  BY DEF Discards
<1>3. nodes' = Describe(n, kept, reported) /\ edges' = Cascade(DOMAIN kept)
  BY DEF Complete, Kept
<1>4. /\ \A c \in DOMAIN nodes : /\ IsRow(nodes[c]) /\ nodes[c].dep \in 1..n
                                 /\ ~IsPlan(deps[nodes[c].dep].mode)
      /\ \A e \in DOMAIN edges : e[1] \in DOMAIN nodes /\ e[2] \in DOMAIN nodes /\ edges[e] \in 1..n
      /\ nodes = [c \in DOMAIN nodes |-> nodes[c]] /\ edges = [e \in DOMAIN edges |-> edges[e]]
      /\ Stamped
  BY DEF Remembers, TableInv
<1>5. /\ nodes' = [c \in DOMAIN nodes' |-> nodes'[c]] /\ DOMAIN nodes' = DOMAIN kept
      /\ DOMAIN nodes' \subseteq DOMAIN nodes
      /\ \A c \in DOMAIN nodes : c \in DOMAIN nodes' <=> ~discards \/ nodes[c].dep = n
      /\ \A c \in DOMAIN nodes' : /\ IsRow(nodes'[c]) /\ nodes'[c].dep = nodes[c].dep
                                  /\ nodes'[c].module = nodes[c].module
                                  /\ (nodes[c].dep # n => nodes'[c] = nodes[c])
  <2>1. discards \in BOOLEAN
    BY DEF Discards
  <2>2. \A c \in DOMAIN nodes : IsRow(nodes[c])
    BY <1>4
  <2>3. kept = Kept(n, discards)
    OBVIOUS
  <2> HIDE DEF kept, discards
  <2>4. TableDiscarded(n, discards, kept, nodes')
    BY <1>3, <2>1, <2>2, <2>3, DiscardDoes
  <2> QED
    BY <2>4 DEF TableDiscarded
<1> HIDE DEF kept, discards
<1>6. /\ edges' = [e \in DOMAIN edges' |-> edges'[e]]
      /\ \A e \in DOMAIN edges' : /\ e \in DOMAIN edges /\ edges'[e] = edges[e]
                                  /\ e[1] \in DOMAIN nodes' /\ e[2] \in DOMAIN nodes'
  BY <1>3, <1>5, CascadeDoes
<1>7. ~discards => DOMAIN nodes' = DOMAIN nodes
  BY <1>5
<1>8. \A d \in 1..n : Provisioned(deps'[d]) = Provisioned(deps[d])
  BY <1>1 DEF Provisioned
<1>9. Stamped'
  <2> SUFFICES ASSUME ~IsPlan(deps[state].mode)
               PROVE  /\ \A c \in Provisioned(deps[state]) :
                           /\ c \in DOMAIN nodes' /\ nodes'[c].dep = state
                           /\ nodes'[c].module = deps[state].graph.nodes[c].module
                      /\ \A c \in DOMAIN nodes' : nodes'[c].dep = state
                                                    => c \in Provisioned(deps[state])
    BY <1>1, <1>8 DEF Stamped
  <2>1. /\ \A c \in Provisioned(deps[state]) :
             /\ c \in DOMAIN nodes /\ nodes[c].dep = state
             /\ nodes[c].module = deps[state].graph.nodes[c].module
        /\ \A c \in DOMAIN nodes : nodes[c].dep = state => c \in Provisioned(deps[state])
    BY <1>1, <1>4 DEF Stamped
  <2>2. discards => state = n
    BY <1>1, <1>2
  <2> QED
    BY <1>5, <2>1, <2>2
<1>10. TableInv'
  <2>1. \A c \in DOMAIN nodes' : /\ IsRow(nodes'[c]) /\ nodes'[c].dep \in 1..n
                                 /\ ~IsPlan(deps'[nodes'[c].dep].mode)
    BY <1>1, <1>4, <1>5
  <2>2. \A e \in DOMAIN edges' : /\ e[1] \in DOMAIN nodes' /\ e[2] \in DOMAIN nodes'
                                 /\ edges'[e] \in 1..n
    BY <1>4, <1>6
  <2> QED
    BY <1>1, <1>5, <1>6, <1>9, <2>1, <2>2 DEF TableInv
<1>11. discards => DOMAIN nodes' = Provisioned(deps[n])
  <2> SUFFICES ASSUME discards PROVE DOMAIN nodes' = Provisioned(deps[n])
    OBVIOUS
  <2>1. state = n /\ ~IsPlan(deps[n].mode) /\ n # 0
    BY <1>1, <1>2
  <2>2. /\ \A c \in Provisioned(deps[n]) : c \in DOMAIN nodes /\ nodes[c].dep = n
        /\ \A c \in DOMAIN nodes : nodes[c].dep = n => c \in Provisioned(deps[n])
    BY <1>4, <2>1 DEF Stamped
  <2> QED
    BY <1>5, <2>2
<1>12. ActiveMatchesHead'
  <2> SUFFICES ASSUME deps'[state].status = "succeeded", ~IsPlan(deps[state].mode)
               PROVE  /\ DOMAIN nodes' = Provisioned(deps[state])
                      /\ \A c \in DOMAIN nodes' :
                           /\ nodes'[c].dep = state
                           /\ nodes'[c].module = deps[state].graph.nodes[c].module
    BY <1>1, <1>8, ProvisionsAre DEF ActiveMatchesHead, Graph
  <2>1. CASE state = n
    <3>1. discards
      BY <1>1, <1>2, <2>1
    <3>2. \A c \in DOMAIN nodes' : nodes'[c].dep = n
      BY <1>5, <3>1
    <3>3. DOMAIN nodes' = Provisioned(deps[n])
      BY <1>11, <3>1
    <3>4. \A c \in Provisioned(deps[n]) : nodes'[c].module = deps[n].graph.nodes[c].module
      BY <1>1, <1>9, <2>1, <1>8 DEF Stamped
    <3> QED
      BY <2>1, <3>2, <3>3, <3>4
  <2>2. CASE state # n
    <3>1. ~discards /\ deps[state].status = "succeeded" /\ state # 0
      BY <1>1, <1>2, <2>2
    <3>2. /\ DOMAIN nodes = Provisioned(deps[state])
          /\ \A c \in DOMAIN nodes : nodes[c].dep = state
                                     /\ nodes[c].module = deps[state].graph.nodes[c].module
      BY <3>1, ProvisionsAre DEF Remembers, ActiveMatchesHead, Graph
    <3> QED
      BY <1>5, <1>7, <3>1, <3>2
  <2> QED
    BY <2>1, <2>2
<1>13. FailureForgetsNothing'
  <2> SUFFICES ASSUME NEW d \in 1..n, deps'[d].status = "succeeded", ~IsPlan(deps[d].mode),
                      \A e \in d + 1..n : deps'[e].status # "succeeded"
               PROVE  Provisioned(deps[d]) \subseteq DOMAIN nodes'
    BY <1>1, <1>8, ProvisionsAre DEF FailureForgetsNothing
  <2>1. CASE d = n
    <3>1. discards
      BY <1>1, <1>2, <2>1
    <3> QED
      BY <1>11, <2>1, <3>1
  <2>2. CASE d # n
    <3>1. n \in d + 1..n /\ ~ok
      BY <1>1, <2>2
    <3>2. ~discards
      BY <1>2, <3>1
    <3>3. deps[d].status = "succeeded"
      BY <1>1, <2>2
    <3>4. \A e \in d + 1..n : deps[e].status # "succeeded"
      <4> TAKE e \in d + 1..n
      <4>1. e \in 1..n
        BY <1>1
      <4> QED
        BY <1>1, <4>1
    <3>5. Provisioned(deps[d]) \subseteq DOMAIN nodes
      BY <3>3, <3>4, ProvisionsAre DEF Remembers, FailureForgetsNothing
    <3> QED
      BY <1>7, <3>2, <3>5
  <2> QED
    BY <2>1, <2>2
<1>14. NewNeverPointsToOld'
  <2> SUFFICES ASSUME NEW e \in DOMAIN edges', nodes'[e[1]].dep = state
               PROVE  nodes'[e[2]].dep = state /\ edges'[e] = state
    BY <1>1 DEF NewNeverPointsToOld
  <2>1. e \in DOMAIN edges /\ nodes[e[1]].dep = state
    BY <1>5, <1>6
  <2>2. nodes[e[2]].dep = state /\ edges[e] = state
    BY <2>1 DEF Remembers, NewNeverPointsToOld
  <2> QED
    BY <1>5, <1>6, <2>2
<1>15. IsPlan(deps[n].mode) => UNCHANGED <<nodes, edges>>
  <2> SUFFICES ASSUME IsPlan(deps[n].mode) PROVE nodes' = nodes /\ edges' = edges
    OBVIOUS
  <2>1. ~discards
    BY <1>2
  <2>2. \A c \in DOMAIN nodes : nodes[c].dep # n
    BY <1>4
  <2>3. DOMAIN nodes' = DOMAIN nodes /\ \A c \in DOMAIN nodes : nodes'[c] = nodes[c]
    BY <1>5, <1>7, <2>1, <2>2
  <2>4. nodes' = nodes
    BY <1>4, <1>5, <2>3
  <2>5. edges' = edges
    <3>1. {e \in DOMAIN edges : e[1] \in DOMAIN kept /\ e[2] \in DOMAIN kept} = DOMAIN edges
      BY <1>4, <1>5, <2>3
    <3> QED
      BY <1>3, <1>4, <3>1 DEF Cascade, Restrict
  <2> QED
    BY <2>4, <2>5
<1> QED
  BY <1>10, <1>12, <1>13, <1>14, <1>15 DEF Remembers
-----------------------------------------------------------------------------
(***************************************************************************)
(* The resources that may exist: nothing before a Deployment that changes  *)
(* the Environment, then only what the state head's graph knows, and after *)
(* its success only what it provisions.                                    *)
(***************************************************************************)
NoRollback == \A e \in 1..Len(deps) : ~IsRollback(deps[e].mode)

InfraInv ==
  NoRollback =>
    /\ (state = 0 \/ IsPlan(deps[state].mode)) => infra = {}
    /\ (state # 0 /\ ~IsPlan(deps[state].mode)) => \A r \in infra :
         /\ r[1] \in DOMAIN deps[state].graph.nodes \ {Workload}
         /\ deps[state].status = "succeeded" => r[1] \in Provisioned(deps[state])

\* A new graph keeps the resources the state head may have left.
LEMMA CreateKeepsInfra ==
  ASSUME ResourcesAssumption, HeadInv, InfraInv,
         NEW mode \in Modes, NEW requested \in SUBSET Resources, NEW base \in 0..Len(deps),
         ~IsRollback(mode) => base = state,
         NEW g, CreatesFrom(mode, requested, base, g)
  PROVE  InfraInv'
<1> DEFINE n == Len(deps)
<1>1. /\ Len(deps') = n + 1 /\ n \in Nat /\ \A i \in 1..n : deps'[i] = deps[i]
      /\ deps'[n + 1] = NewDeployment(mode, g, base)
  BY CreateKeepsHead
<1>2. deps'[n + 1].mode = mode /\ deps'[n + 1].graph = g /\ deps'[n + 1].status = "executing"
  BY <1>1 DEF NewDeployment
<1>3. /\ state \in 0..n /\ infra' = infra
      /\ state' = IF IsPlan(mode) /\ state # 0 THEN state ELSE n + 1
  BY <1>1 DEF HeadInv, CreatesFrom, StateHead
<1> SUFFICES ASSUME NoRollback'
             PROVE  /\ (state' = 0 \/ IsPlan(deps'[state'].mode)) => infra = {}
                    /\ (state' # 0 /\ ~IsPlan(deps'[state'].mode)) => \A r \in infra :
                         /\ r[1] \in DOMAIN deps'[state'].graph.nodes \ {Workload}
                         /\ deps'[state'].status = "succeeded" => r[1] \in Provisioned(deps'[state'])
  BY <1>3 DEF InfraInv
<1>4. NoRollback /\ ~IsRollback(mode)
  <2>1. \A e \in 1..(n + 1) : ~IsRollback(deps'[e].mode)
    BY <1>1 DEF NoRollback
  <2> QED
    BY <1>1, <1>2, <2>1 DEF NoRollback
<1>5. CASE IsPlan(mode)
  <2>1. CASE state = 0
    <3>1. state' = n + 1 /\ IsPlan(deps'[state'].mode) /\ infra = {}
      BY <1>2, <1>3, <1>4, <1>5, <2>1 DEF InfraInv
    <3> QED
      BY <3>1
  <2>2. CASE state # 0
    <3>1. state' = state /\ deps'[state] = deps[state]
      BY <1>1, <1>3, <1>5, <2>2
    <3> QED
      BY <1>4, <2>2, <3>1 DEF InfraInv
  <2> QED
    BY <2>1, <2>2
<1>6. CASE ~IsPlan(mode)
  <2>1. state' = n + 1
    BY <1>3, <1>6
  <2>2. ASSUME NEW r \in infra PROVE r[1] \in DOMAIN g.nodes \ {Workload}
    <3>1. state # 0 /\ ~IsPlan(deps[state].mode)
      BY <1>4, <2>2 DEF InfraInv
    <3>2. /\ r[1] \in DOMAIN deps[state].graph.nodes \ {Workload}
          /\ deps[state].status = "succeeded" => r[1] \in Provisioned(deps[state])
      BY <1>4, <2>2, <3>1 DEF InfraInv
    <3>3. state \in 1..n /\ base = state
      BY <1>1, <1>3, <1>4, <3>1
    <3>4. deps[state].status \in {"succeeded", "failed"}
      <4>1. deps[state].status \in {"executing", "succeeded", "failed"}
        BY <3>3 DEF HeadInv, SoundDeployment
      <4>2. deps # <<>> => deps[n].status # "executing"
        BY DEF CreatesFrom
      <4>3. state # n => deps[state].status # "executing"
        <5>1. state # n => state \in 1..(n - 1)
          BY <1>1, <3>3
        <5> QED
          BY <5>1 DEF HeadInv
      <4>4. deps # <<>>
        BY <3>3
      <4> QED
        BY <4>1, <4>2, <4>3, <4>4
    <3>5. Provisioned(deps[state]) \subseteq Live(deps[state].graph)
      BY DEF Provisioned
    <3>6. base # 0 => \A c \in DOMAIN deps[base].graph.nodes \ {Workload} :
            deps[base].status = "failed" \/ c \in Live(deps[base].graph) => c \in DOMAIN g.nodes
      BY CompiledIsSound
    <3> QED
      BY <3>1, <3>2, <3>3, <3>4, <3>5, <3>6
  <2> QED
    BY <1>1, <1>2, <1>6, <2>1, <2>2
<1> QED
  BY <1>5, <1>6

\* A program's modules are the live resources.
LEMMA ModulesAreLive ==
  ASSUME NEW g, NEW tofu, tofu = BuildTofuFromGraph(g)
  PROVE  tofu.modules = (DOMAIN g.nodes \ {Workload}) \cap Live(g)
<1> DEFINE resources == DOMAIN g.nodes \ {Workload}
           live == resources \cap Live(g)
           used == UNION {ProviderOf[g.nodes[c].module] : c \in resources}
           Chosen(h) == CHOOSE p \in used : HashUniqueProviderConfiguration(p) = h
           configured == {Chosen(h) : h \in {HashUniqueProviderConfiguration(p) : p \in used}}
<1>1. tofu = [providers |-> {LocalProviderName(p) : p \in configured},
              reads |-> UNION {RefersTo[p] : p \in configured},
              modules |-> live,
              uses |-> [c \in live |-> {LocalProviderName(p) : p \in ProviderOf[g.nodes[c].module]}],
              dependsOn |-> [c \in live |->
                g.edges[c] \cup UNION {RefersTo[p] : p \in ProviderOf[g.nodes[c].module]}]]
  BY DEF BuildTofuFromGraph
<1> HIDE DEF configured, live
<1>2. tofu.modules = live
  BY <1>1
<1> QED
  BY <1>2 DEF live

\* A success leaves what the program describes, a failure a mixture of that and what there was.
LEMMA CompleteKeepsInfra ==
  ASSUME HeadInv, InfraInv, NEW ok \in BOOLEAN, NEW reported, Complete(ok, reported)
  PROVE  InfraInv'
<1> DEFINE n == Len(deps)
<1>1. /\ Len(deps') = n /\ n \in Nat \ {0}
      /\ deps'[n].status = IF ok THEN "succeeded" ELSE "failed"
      /\ \A i \in 1..n : i # n => deps'[i] = deps[i]
      /\ \A i \in 1..n : deps'[i].mode = deps[i].mode /\ deps'[i].graph = deps[i].graph
      /\ state' = state /\ state \in 1..n
      /\ ~IsPlan(deps[n].mode) => state = n
  BY CompleteKeepsHead
<1>2. infra' \in Applied(n, ok)
  BY DEF Complete
<1> SUFFICES ASSUME NoRollback'
             PROVE  /\ IsPlan(deps[state].mode) => infra' = {}
                    /\ ~IsPlan(deps[state].mode) => \A r \in infra' :
                         /\ r[1] \in DOMAIN deps[state].graph.nodes \ {Workload}
                         /\ deps'[state].status = "succeeded" => r[1] \in Provisioned(deps[state])
  BY <1>1 DEF InfraInv, Provisioned
<1>3. NoRollback
  BY <1>1 DEF NoRollback
<1>4. CASE IsPlan(deps[n].mode)
  <2>1. infra' = infra
    BY <1>2, <1>4 DEF Applied
  <2>2. CASE state = n
    BY <1>1, <1>3, <1>4, <2>1, <2>2 DEF InfraInv
  <2>3. CASE state # n
    BY <1>1, <1>3, <2>1, <2>3 DEF InfraInv
  <2> QED
    BY <2>2, <2>3
<1>5. CASE ~IsPlan(deps[n].mode)
  <2> DEFINE g == deps[n].graph
  <2>1. state = n /\ n \in 1..n
    BY <1>1, <1>5
  <2>2. deps[n].tofu.modules \subseteq Live(g) \ {Workload} /\ Live(g) \subseteq DOMAIN g.nodes
    <3>1. deps[n].tofu = BuildTofuFromGraph(g)
      <4>1. SoundDeployment(deps, n)
        BY <2>1 DEF HeadInv
      <4> QED
        BY <4>1 DEF SoundDeployment
    <3>2. deps[n].tofu.modules = (DOMAIN g.nodes \ {Workload}) \cap Live(g)
      BY <3>1, ModulesAreLive
    <3> QED
      BY <3>2 DEF Live
  <2>3. \A r \in Described(n) : r[1] \in Provisioned(deps[n]) /\ r[1] \in DOMAIN g.nodes \ {Workload}
    <3>1. CASE deps[n].mode = "destroy"
      BY <3>1 DEF Described
    <3>2. CASE deps[n].mode # "destroy"
      <4>1. Described(n) = {<<c, deps[n].tofu.uses[c]>> : c \in deps[n].tofu.modules}
        BY <3>2 DEF Described
      <4>2. Provisioned(deps[n]) = Live(g)
        BY <3>2 DEF Provisioned
      <4> QED
        BY <2>2, <4>1, <4>2
    <3> QED
      BY <3>1, <3>2
  <2>4. CASE ok
    <3>1. infra' = Described(n)
      BY <1>2, <1>5, <2>4 DEF Applied
    <3> QED
      BY <1>5, <2>1, <2>3, <3>1
  <2>5. CASE ~ok
    <3>1. infra' \subseteq infra \cup Described(n)
      BY <1>2, <1>5, <2>5 DEF Applied
    <3>2. \A r \in infra : r[1] \in DOMAIN g.nodes \ {Workload}
      BY <1>1, <1>3, <1>5, <2>1 DEF InfraInv
    <3>3. deps'[n].status # "succeeded"
      BY <1>1, <2>5
    <3> QED
      BY <1>5, <2>1, <2>3, <3>1, <3>2, <3>3
  <2> QED
    BY <2>4, <2>5
<1> QED
  BY <1>4, <1>5

\* As long as nothing was rolled back, the program that is about to run knows every resource.
LEMMA InfraIsKnown ==
  ASSUME HeadInv, InfraInv PROVE NothingForgotten
<1> SUFFICES ASSUME NEW d \in 1..Len(deps), d = Len(deps), ~IsPlan(deps[d].mode),
                    \A e \in 1..d : ~IsRollback(deps[e].mode)
             PROVE  \A r \in infra : r[1] \in DOMAIN deps[d].graph.nodes
  BY DEF NothingForgotten, Graph
<1>1. NoRollback
  BY DEF NoRollback
<1>2. state = d
  <2> SUFFICES ASSUME state # d PROVE FALSE
    OBVIOUS
  <2>1. state \in 0..Len(deps) /\ Len(deps) \in Nat
    BY DEF HeadInv, Listed
  <2>2. d \in (state + 1)..Len(deps)
    BY <2>1
  <2> QED
    BY <2>2 DEF HeadInv
<1> QED
  BY <1>1, <1>2 DEF InfraInv

\* Whatever a manifest, the rules and the outcomes, unless rollbacks are planned: the active
\* resources of a successful head are exactly its nodes, a failure or a plan drops none, new
\* nodes never depend on nodes being removed, and the next program still knows every resource
\* that may exist (InitActiveResourcesFromGraph, DiscardOldActiveResources, AddDeletedNodes).
THEOREM ResourcesStayRemembered ==
  ASSUME ResourcesAssumption, "rollback_plan" \notin Modes
  PROVE  ResourcesSpec => ResourcesRemembered
<1>1. ResourcesInit => Remembers /\ InfraInv
  <2> SUFFICES ASSUME ResourcesInit PROVE Remembers /\ InfraInv
    OBVIOUS
  <2>1. /\ deps = <<>> /\ Len(deps) = 0 /\ state = 0 /\ infra = {}
        /\ nodes = <<>> /\ DOMAIN nodes = {} /\ edges = <<>> /\ DOMAIN edges = {}
    BY DEF ResourcesInit
  <2>2. TableInv
    BY <2>1 DEF TableInv, Stamped
  <2>3. ActiveMatchesHead /\ FailureForgetsNothing /\ NewNeverPointsToOld
    BY <2>1 DEF ActiveMatchesHead, FailureForgetsNothing, NewNeverPointsToOld
  <2> QED
    BY <2>1, <2>2, <2>3 DEF Remembers, InfraInv
<1>2. ASSUME HeadInv, Remembers, InfraInv, [ResourcesNext]_resourcesVars
      PROVE  Remembers' /\ InfraInv' /\ PlanLeavesResourcesStep
  <2>1. ASSUME NEW mode \in Modes, NEW requested \in SUBSET Resources, NEW base \in 0..Len(deps),
               ~IsRollback(mode) => base = state, NEW g, CreatesFrom(mode, requested, base, g)
        PROVE  Remembers' /\ InfraInv' /\ PlanLeavesResourcesStep
    <3>1. Remembers' /\ (mode = "plan_only" => UNCHANGED <<nodes, edges>>)
      BY <1>2, <2>1, CreateRemembers
    <3>2. InfraInv'
      BY <1>2, <2>1, CreateKeepsInfra
    <3>3. PlanLeavesResourcesStep
      <4>1. /\ Len(deps') = Len(deps) + 1 /\ Len(deps) \in Nat
            /\ deps'[Len(deps) + 1] = NewDeployment(mode, g, base)
            /\ \A i \in 1..Len(deps) : deps'[i] = deps[i]
        BY <1>2, <2>1, CreateKeepsHead
      <4>2. deps'[Len(deps) + 1].mode = mode
        BY <4>1 DEF NewDeployment
      <4> SUFFICES ASSUME NEW d \in 1..Len(deps'), deps'[d].mode = "plan_only",
                          d > Len(deps) \/ deps[d].status # deps'[d].status
                   PROVE  UNCHANGED <<nodes, edges>>
        BY DEF PlanLeavesResourcesStep
      <4>3. d = Len(deps) + 1
        BY <4>1
      <4> QED
        BY <3>1, <4>2, <4>3
    <3> QED
      BY <3>1, <3>2, <3>3
  <2>2. ASSUME NEW ok \in BOOLEAN, NEW reported, Complete(ok, reported)
        PROVE  Remembers' /\ InfraInv' /\ PlanLeavesResourcesStep
    <3>1. Remembers' /\ (IsPlan(deps[Len(deps)].mode) => UNCHANGED <<nodes, edges>>)
      BY <1>2, <2>2, CompleteRemembers
    <3>2. InfraInv'
      BY <1>2, <2>2, CompleteKeepsInfra
    <3>3. PlanLeavesResourcesStep
      <4>1. /\ Len(deps') = Len(deps) /\ Len(deps) \in Nat \ {0}
            /\ \A i \in 1..Len(deps) : i # Len(deps) => deps'[i] = deps[i]
            /\ \A i \in 1..Len(deps) : deps'[i].mode = deps[i].mode
        BY <1>2, <2>2, CompleteKeepsHead
      <4> SUFFICES ASSUME NEW d \in 1..Len(deps'), deps'[d].mode = "plan_only",
                          d > Len(deps) \/ deps[d].status # deps'[d].status
                   PROVE  UNCHANGED <<nodes, edges>>
        BY DEF PlanLeavesResourcesStep
      <4>2. d = Len(deps) /\ deps[d].mode = "plan_only"
        BY <4>1
      <4> QED
        BY <3>1, <4>2 DEF IsPlan
    <3> QED
      BY <3>1, <3>2, <3>3
  <2>3. CASE rules' \in Rules /\ UNCHANGED <<deps, state, nodes, edges, infra>>
    <3>1. Remembers'
      BY <1>2, <2>3 DEF Remembers, TableInv, Stamped, ActiveMatchesHead, FailureForgetsNothing,
                        NewNeverPointsToOld, Provisions, ListDeploymentResourceNodes, Graph
    <3>2. InfraInv'
      BY <1>2, <2>3 DEF InfraInv, NoRollback
    <3>3. PlanLeavesResourcesStep
      BY <2>3 DEF PlanLeavesResourcesStep
    <3> QED
      BY <3>1, <3>2, <3>3
  <2> QED
    BY <1>2, <2>1, <2>2, <2>3, StepDoes
<1>3. HeadInv /\ Remembers /\ InfraInv
        => ActiveMatchesHead /\ FailureForgetsNothing /\ NewNeverPointsToOld /\ NothingForgotten
  BY InfraIsKnown DEF Remembers
<1>4. ResourcesSpec => []HeadInv
  BY HeadHolds
<1> QED
  BY <1>1, <1>2, <1>3, <1>4, PTL DEF ResourcesSpec, ResourcesRemembered, PlanLeavesResources

=============================================================================
