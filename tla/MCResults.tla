------------------------------ MODULE MCResults ------------------------------
(***************************************************************************)
(* What comes back from a Runner and what callers read of it: the consumer *)
(* of events (extended), Runner results, and the listings of Deployments,  *)
(* Environments, queue items and metadata keys. The components share no    *)
(* state here: each behaviour chooses one part, and the others stand       *)
(* still.                                                                  *)
(***************************************************************************)
EXTENDS EventConsumer, TLC

CONSTANTS Parts, c, u, x, x1, x2, op, ord, obs, Nobody

VARIABLES part, status, revision, dispatched, slot, lease, head, inbox,
    completion, retained, late, acknowledged, history, job, said, mail, tries, finished,
    deadLetter, replica, at, envOf, st, stateHead, lastExec, uses, item, kind, failedOnly,
    token, pc, toRead, times, stable, shown, clear, everFenced, everFree, keys, update, listing,
    lasted, deleted

KindOf == (op :> "operation") @@ (ord :> "ordinary") @@ (obs :> "observation")

\* One event of each kind.
EventKind == (c :> "created") @@ (u :> "updated") @@ (x :> "other")

Proof == INSTANCE RunnerResults WITH Deployments <- {op, ord},
    Kind <- [d \in {op, ord} |-> KindOf[d]],
    Channel <- [d \in {op, ord} |-> IF d = op THEN "nats" ELSE "http"], MayRepeat <- {},
    Replicas <- {x1, x2}, MaxDeliveries <- 2, PeekMayFail <- FALSE
Outcome == INSTANCE RunnerResults WITH Deployments <- {ord, obs},
    Kind <- [d \in {ord, obs} |-> KindOf[d]],
    Channel <- [d \in {ord, obs} |-> IF d = ord THEN "nats" ELSE "http"], MayRepeat <- {obs},
    Replicas <- {x1, x2}, MaxDeliveries <- 2, PeekMayFail <- FALSE
Listing == INSTANCE DeploymentListings WITH Envs <- 1 .. 2, Items <- {}, Times <- 1 .. 3,
    PerPage <- 1, Deployments <- 1 .. 3, Kinds <- {"deployments"}
EnvListing == INSTANCE DeploymentListings WITH Envs <- 1 .. 2, Items <- {}, Times <- 1 .. 2,
    PerPage <- 1, Deployments <- 1 .. 2, Kinds <- {"last", "modules"}
ItemListing == INSTANCE DeploymentListings WITH Envs <- 1 .. 2, Items <- 1 .. 4, Times <- {},
    PerPage <- 2, Deployments <- {}, Kinds <- {"queue"}
KeyListing == INSTANCE MetadataKeys WITH MaxName <- 3, Values <- {op}, Null <- Nobody,
    Updaters <- {}, PerPages <- {0, 2}
KeyUpdate == INSTANCE MetadataKeys WITH MaxName <- 1, Values <- {op}, Null <- Nobody,
    Updaters <- {x1, x2}, PerPages <- {1}

ASSUME Proof!ResultsAssumption
ASSUME Outcome!ResultsAssumption
ASSUME Listing!ListingAssumption
ASSUME EnvListing!ListingAssumption
ASSUME ItemListing!ListingAssumption

Unused == "-"
NoResults ==
  /\ status = Unused /\ revision = Unused /\ dispatched = Unused /\ slot = Unused
  /\ lease = Unused /\ head = Unused /\ inbox = Unused /\ completion = Unused
  /\ retained = Unused /\ late = Unused /\ acknowledged = Unused /\ history = Unused
  /\ job = Unused /\ said = Unused /\ mail = Unused /\ tries = Unused /\ finished = Unused
  /\ deadLetter = Unused /\ replica = Unused
NoListings ==
  /\ at = Unused /\ envOf = Unused /\ st = Unused /\ stateHead = Unused /\ lastExec = Unused
  /\ uses = Unused /\ item = Unused /\ kind = Unused /\ failedOnly = Unused
  /\ token = Unused /\ pc = Unused /\ toRead = Unused /\ times = Unused /\ stable = Unused
  /\ shown = Unused /\ clear = Unused /\ everFenced = Unused /\ everFree = Unused
NoMetadata ==
  /\ keys = Unused /\ update = Unused /\ listing = Unused /\ lasted = Unused
  /\ deleted = Unused

SuiteInit ==
  /\ part \in Parts
  /\ Init
  /\ CASE part = "proof" -> Proof!Init
       [] part = "outcome" -> Outcome!Init
       [] OTHER -> NoResults
  /\ CASE part = "deployments" -> Listing!Init
       [] part = "environments" -> EnvListing!Init
       [] part = "queue items" -> ItemListing!Init
       [] OTHER -> NoListings
  /\ CASE part = "metadata" -> KeyListing!Init
       [] part = "key update" -> KeyUpdate!Init
       [] OTHER -> NoMetadata

resultsVars == <<status, revision, dispatched, slot, lease, head, inbox, completion, retained,
    late, acknowledged, history, job, said, mail, tries, finished, deadLetter, replica>>
listingsVars == <<at, envOf, st, stateHead, lastExec, uses, item, kind, failedOnly, token, pc,
    toRead, times, stable, shown, clear, everFenced, everFree>>
metadataVars == <<keys, update, listing, lasted, deleted>>

allVars == <<part, vars, resultsVars, listingsVars, metadataVars>>

\* Where every operation may end, the system may rest.
AtRest == part \in {"consumer", "proof", "outcome"} /\ UNCHANGED allVars

\* The chosen component moves, the others stand still.
Move ==
  /\ UNCHANGED part
  /\ IF part = "consumer" THEN Next ELSE UNCHANGED vars
  /\ CASE part = "proof" -> Proof!Next
       [] part = "outcome" -> Outcome!Next
       [] OTHER -> UNCHANGED resultsVars
  /\ CASE part = "deployments" -> Listing!Next
       [] part = "environments" -> EnvListing!Next
       [] part = "queue items" -> ItemListing!Next
       [] OTHER -> UNCHANGED listingsVars
  /\ CASE part = "metadata" -> KeyListing!Next
       [] part = "key update" -> KeyUpdate!Next
       [] OTHER -> UNCHANGED metadataVars

SuiteNext == Move \/ AtRest

SuiteSpec == SuiteInit /\ [][SuiteNext]_allVars

\* Handlers and replicas are interchangeable.
Replicas == Permutations({x1, x2})

-----------------------------------------------------------------------------
\* However results, errors, watchdogs and replays meet: stop proof exists only once
\* the Runner has stopped; a result the consumer is done with left that proof or an
\* operator answered for it; and an ended Deployment keeps its status and its completion
\* (RunnerResults).
ResultsKept ==
  /\ [](part = "proof" => Proof!ProofMeansStopped /\ Proof!ProofKept)
  /\ [][part = "outcome" => Outcome!OutcomeIsFinalStep]_resultsVars

\* Whatever is created, deleted or changed between two pages, a listing returns every
\* row that all its queries could see exactly once - but for a Deployment with the same
\* created_at as one it returned, which it may skip; an Environment is shown as fenced,
\* or as free, only if it was that since the page's query; and an update under way when
\* its metadata key is deleted does not bring the key back (DeploymentListings,
\* MetadataKeys).
ListingsTrue ==
  /\ [](part = "deployments" => Listing!EachRowOnce)
  /\ [](part = "environments" => EnvListing!EachRowOnce /\ EnvListing!FenceTruthful)
  /\ [](part = "queue items" => ItemListing!EachRowOnce)
  /\ [](part = "metadata" => KeyListing!ListingComplete)
  /\ [][part = "key update" => KeyUpdate!UpdateNeverCreatesStep]_metadataVars
=============================================================================
