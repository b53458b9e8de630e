-------------------------- MODULE RunnerCredentials --------------------------
(***************************************************************************)
(* Credentials for cloud Runners.  A replica signs an identity token with  *)
(* a transit key of Vault and exchanges it at a cloud for credentials; the *)
(* cloud verifies it with the keys this service publishes.  Vault rotates  *)
(* the key by itself.  The key is read, for the token's header, and used,  *)
(* for its signature, in two calls, and it is created on first use by      *)
(* whichever replicas find it missing.                                     *)
(*                                                                         *)
(* Time is counted in ticks.  Operators that no action uses are seeded     *)
(* faults: PROJECT.json names the definition each one replaces and the     *)
(* property that then fails.                                               *)
(***************************************************************************)
EXTENDS Naturals, Sequences, FiniteSets

CONSTANTS
  Eks,           \* callers whose Runner is on AWS
  Gke,           \* callers whose Runner is on Google Cloud
  TokenLife,     \* DefaultTokenExpiredAfter
  RotatePeriod,  \* KeyAutoRotatePeriod
  MaxTime,       \* bound on ticks
  MaxFaults      \* bound on failed calls

Callers == Eks \cup Gke

ASSUME CredentialAssumption ==
  /\ TokenLife \in Nat /\ RotatePeriod \in Nat /\ TokenLife < RotatePeriod
  /\ MaxTime \in Nat /\ MaxFaults \in Nat

VARIABLES
  now,
  versions,  \* the creation times of the key's versions; empty: no such key
  pc,        \* per caller: idle, create, read, sign, exchange, cluster, done
  token,     \* per caller: the token at hand
  faults

vars == <<now, versions, pc, token, faults>>

\* kid: the creation time in the header; signer: the version that signed.
NoToken == [kid |-> 0, signer |-> 0, exp |-> 0]

Init ==
  /\ now = 1 /\ versions = <<>> /\ faults = 0
  /\ pc = [c \in Callers |-> "idle"] /\ token = [c \in Callers |-> NoToken]

Goto(c, to) == pc' = [pc EXCEPT ![c] = to]
-----------------------------------------------------------------------------
(***************************************************************************)
(* Vault (external): signing uses the latest version, creating a key that  *)
(* exists changes nothing.                                                 *)
(***************************************************************************)
Latest == Len(versions)
Created == IF versions = <<>> THEN <<now>> ELSE versions

Rotate ==
  /\ versions # <<>> /\ now - versions[Latest] >= RotatePeriod
  /\ versions' = Append(versions, now)
  /\ UNCHANGED <<now, pc, token, faults>>

Tick ==
  /\ now < MaxTime /\ now' = now + 1
  /\ UNCHANGED <<versions, pc, token, faults>>
-----------------------------------------------------------------------------
LatestOnly == {versions[i] : i \in {j \in DOMAIN versions : j = Latest}}

\* GetJwks: the two newest versions, under their creation time.
GetJwks == {versions[i] : i \in {j \in DOMAIN versions : j + 2 > Latest}}

Verifies(t) ==
  /\ t.exp >= now /\ t.kid \in GetJwks
  /\ t.signer \in DOMAIN versions /\ versions[t.signer] = t.kid

CreatesMissing(c) == Goto(c, "create")

\* ReadKey by ensureOIDCKey; the header names the version that was latest.
ReadKey(c) ==
  /\ pc[c] = "idle"
  /\ IF versions = <<>> THEN CreatesMissing(c) /\ UNCHANGED token
     ELSE Goto(c, "sign") /\ token' = [token EXCEPT ![c] =
            [kid |-> versions[Latest], signer |-> 0, exp |-> now + TokenLife]]
  /\ UNCHANGED <<now, versions, faults>>

CreateKey(c) ==
  /\ pc[c] = "create"
  /\ versions' = Created /\ Goto(c, "idle")
  /\ UNCHANGED <<now, token, faults>>

\* SignData: whatever version is the latest by now.
SignData(c) ==
  /\ pc[c] = "sign"
  /\ token' = [token EXCEPT ![c].signer = Latest] /\ Goto(c, "exchange")
  /\ UNCHANGED <<now, versions, faults>>

Forget(c) == token' = [token EXCEPT ![c] = NoToken]

\* A call fails, or a token is refused: the caller's event is delivered again.
Failed(c) == Goto(c, "idle") /\ Forget(c)

\* ExchangeOauthToken: AWS verifies the token and returns temporary credentials.
ExchangeAws(c) ==
  /\ c \in Eks /\ pc[c] = "exchange"
  /\ IF Verifies(token[c]) THEN Goto(c, "cluster") /\ UNCHANGED token ELSE Failed(c)
  /\ UNCHANGED <<now, versions, faults>>

\* Exchange of the GKE adapter.
ExchangeGcp(c) ==
  /\ c \in Gke /\ pc[c] = "exchange"
  /\ IF Verifies(token[c]) THEN Goto(c, "cluster") /\ UNCHANGED token ELSE Failed(c)
  /\ UNCHANGED <<now, versions, faults>>

\* GetKubeconfig: the cluster is described, and a token for it made, with them.
KubeconfigAws(c) ==
  /\ c \in Eks /\ pc[c] = "cluster" /\ Goto(c, "done")
  /\ UNCHANGED <<now, versions, token, faults>>

KubeconfigGcp(c) ==
  /\ c \in Gke /\ pc[c] = "cluster" /\ Goto(c, "done")
  /\ UNCHANGED <<now, versions, token, faults>>

CallFails(c) ==
  /\ pc[c] \notin {"idle", "done"} /\ faults < MaxFaults
  /\ faults' = faults + 1 /\ Failed(c)
  /\ UNCHANGED <<now, versions>>

CallerStep(c) ==
  \/ ReadKey(c) \/ CreateKey(c) \/ SignData(c)
  \/ ExchangeAws(c) \/ ExchangeGcp(c) \/ KubeconfigAws(c) \/ KubeconfigGcp(c)

Finished == now = MaxTime /\ (\A c \in Callers : pc[c] = "done") /\ UNCHANGED vars

Next == (\E c \in Callers : CallerStep(c) \/ CallFails(c)) \/ Rotate \/ Tick \/ Finished

Fairness == \A c \in Callers : WF_vars(CallerStep(c))
Spec == Init /\ [][Next]_vars /\ Fairness
-----------------------------------------------------------------------------
\* A token that one version both named and signed can be verified until it
\* expires, however the key is rotated meanwhile: GetJwks publishes two versions
\* and a rotation takes longer than a token lives.
VerifiableWhileValid ==
  \A c \in Callers :
    LET t == token[c] IN
    t.signer # 0 /\ versions[t.signer] = t.kid /\ now <= t.exp => Verifies(t)

\* Every Runner gets its credentials in the end: a key that is missing is
\* created once, and a token that a rotation tore apart between ReadKey and
\* SignData is refused, forgotten and made again.
CredentialsInTheEnd == \A c \in Callers : <>(pc[c] = "done")
=============================================================================
