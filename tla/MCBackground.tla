---------------------------- MODULE MCBackground ---------------------------
(***************************************************************************)
(* The background work of one deployment, in one run for TLC: four         *)
(* instances of IndexingJobs, three of IngestionJobs, the due-work         *)
(* coordinator and the capabilities of a worker, side by side.  They share *)
(* no modelled state, so a behaviour is about the one instance that is     *)
(* `shown`.  The constants and variables of IndexingJobs itself are those  *)
(* of the commands: jobs created by hand and a cancelling admin; they rest *)
(* in their initial state when another instance is shown.                  *)
(* The others share a second set of variables: each serves whichever       *)
(* instance has it, and holds None for the rest.                           *)
(***************************************************************************)
EXTENDS MCIndexingJobs

CONSTANTS
    MoreJobs, TwoWorkers,                                         \* IndexingJobs
    OneSource, ChainedJobs, Retried, OneAdmin, TwoAdmins, OneKey, TwoKeys,
    Recoverers,                                                   \* IngestionJobs
    d1, i1, i2, g1,                                               \* DueWork
    common, jobs, indexing, qa, Callers                           \* LazyCapability

VARIABLES
    shown,
    peak, holder, work, post, origin, hand, reads, found,         \* of the others
    older, rec, request, written,                                 \* IngestionJobs
    at, time, remaining, progressed, turn, slots, head, exhausted, refused, tried,
    made, current, flight, call

ofQueue == <<peak, holder, work, origin, hand, reads>>
ofArticle == <<post, found>>
ofIngestion == <<older, rec, request, written>>
ofCoordinator == <<at, time, remaining, progressed, turn, slots, head, exhausted, refused, tried>>
ofWorker == <<made, current, flight, call>>
all == <<shown, vars, ofQueue, ofArticle, ofIngestion, ofCoordinator, ofWorker>>

\* Two invocations at one article, recovery, a cancelling admin.
Rush == INSTANCE IndexingJobs WITH
    Job <- MoreJobs, Worker <- TwoWorkers, MaxAttempts <- 2, MaxGeneration <- 2,
    MaxContent <- 1, MaxPolicy <- 1, Volatile <- FALSE, Moderated <- FALSE, Manual <- {},
    highWater <- peak, owner <- holder, job <- work, article <- post, src <- origin,
    worker <- hand, seen <- reads, batch <- found

\* The source is paused, reviewed and reconciled under its invocation.
Writers == INSTANCE IndexingJobs WITH
    MaxGeneration <- 1, MaxPolicy <- 2, Manual <- {},
    highWater <- peak, owner <- holder, job <- work, article <- post, src <- origin,
    worker <- hand, seen <- reads, batch <- found

\* An ingestion finds new content while the old one is worked on, and a takedown hides it.
Contents == INSTANCE IndexingJobs WITH
    Job <- MoreJobs, MaxGeneration <- 1, MaxContent <- 2, Volatile <- FALSE, Moderated <- TRUE,
    Manual <- {},
    highWater <- peak, owner <- holder, job <- work, article <- post, src <- origin,
    worker <- hand, seen <- reads, batch <- found

\* Whole retry chains: two admins who repeat one request race recovery for the
\* linked retry.
Chains == INSTANCE IngestionJobs WITH
    Source <- OneSource, Job <- ChainedJobs, Worker <- Worker, Recoverer <- Recoverers,
    Admin <- TwoAdmins, Key <- OneKey, Purgeable <- Retried, Volatile <- {},
    MaxAttempts <- 2, LeaseTicks <- 1, MaxLatency <- 0, DeferTicks <- 0,
    MaxGeneration <- 2, MaxPolicy <- 1,
    highWater <- peak, owner <- holder, job <- work, src <- origin, worker <- hand,
    seen <- reads

\* Two admins with requests of their own, after one lease of the source.
Rivals == INSTANCE IngestionJobs WITH
    Source <- OneSource, Job <- ChainedJobs, Worker <- Worker, Recoverer <- Recoverers,
    Admin <- TwoAdmins, Key <- TwoKeys, Purgeable <- Retried, Volatile <- {},
    MaxAttempts <- 2, LeaseTicks <- 1, MaxLatency <- 0, DeferTicks <- 0,
    MaxGeneration <- 1, MaxPolicy <- 1,
    highWater <- peak, owner <- holder, job <- work, src <- origin, worker <- hand,
    seen <- reads

\* A source document that changes under one invocation at a time.
Policy == INSTANCE IngestionJobs WITH
    Source <- OneSource, Job <- ChainedJobs \ Retried, Worker <- Worker,
    Recoverer <- Recoverers, Admin <- OneAdmin, Key <- OneKey, Purgeable <- {},
    Volatile <- OneSource, MaxAttempts <- 3, LeaseTicks <- 1, MaxLatency <- 0,
    DeferTicks <- 0, MaxGeneration <- 2, MaxPolicy <- 2,
    highWater <- peak, owner <- holder, job <- work, src <- origin, worker <- hand,
    seen <- reads

\* One run over a deletion, two indexing jobs of an article and an ingestion.
Coordinator == INSTANCE DueWork WITH
    Job <- {d1, i1, i2, g1},
    QueueOf <- d1 :> "account-deletion" @@ i1 :> "indexing" @@ i2 :> "indexing"
               @@ g1 :> "ingestion",
    SubjectOf <- d1 :> None @@ i1 :> common @@ i2 :> common @@ g1 :> qa,
    AvailableAt <- d1 :> 1 @@ i1 :> 2 @@ i2 :> 2 @@ g1 :> 1,
    MaxJobs <- 3, MaxRecoveries <- 2, Budget <- 3, job <- work

\* Two requests that meet a cold worker.
Cold == INSTANCE LazyCapability WITH
    Capability <- {common, jobs, indexing, qa}, Caller <- Callers, MaxAttempts <- 2,
    Needs <- common :> {} @@ jobs :> {common} @@ indexing :> {common, jobs}
             @@ qa :> {common, jobs, indexing}

-----------------------------------------------------------------------------
NotQueue == peak = None /\ holder = None /\ origin = None /\ hand = None /\ reads = None
NotIndexing == post = None /\ found = None
NotIngestion == older = None /\ rec = None /\ request = None /\ written = None
NotCoordinator ==
    /\ at = None /\ time = None /\ remaining = None /\ progressed = None /\ turn = None
    /\ slots = None /\ head = None /\ exhausted = None /\ refused = None /\ tried = None
NotWorker == made = None /\ current = None /\ flight = None /\ call = None

InitShown ==
    /\ Init
    /\ \/ /\ shown = "commands" /\ work = None
          /\ NotQueue /\ NotIndexing /\ NotIngestion /\ NotCoordinator /\ NotWorker
       \/ /\ \/ shown = "rush" /\ Rush!Init
             \/ shown = "writers" /\ Writers!Init
             \/ shown = "contents" /\ Contents!Init
          /\ NotIngestion /\ NotCoordinator /\ NotWorker
       \/ /\ \/ shown = "chains" /\ Chains!Init
             \/ shown = "rivals" /\ Rivals!Init
             \/ shown = "policy" /\ Policy!Init
          /\ NotIndexing /\ NotCoordinator /\ NotWorker
       \/ /\ shown = "coordinator" /\ Coordinator!Init
          /\ NotQueue /\ NotIndexing /\ NotIngestion /\ NotWorker
       \/ /\ shown = "cold" /\ Cold!Init /\ work = None
          /\ NotQueue /\ NotIndexing /\ NotIngestion /\ NotCoordinator

NextShown ==
    /\ UNCHANGED shown
    /\ \/ /\ shown = "commands" /\ Next
          /\ UNCHANGED <<ofQueue, ofArticle, ofIngestion, ofCoordinator, ofWorker>>
       \/ /\ \/ shown = "rush" /\ Rush!Next
             \/ shown = "writers" /\ Writers!Next
             \/ shown = "contents" /\ Contents!Next
          /\ UNCHANGED <<vars, ofIngestion, ofCoordinator, ofWorker>>
       \/ /\ \/ shown = "chains" /\ Chains!Next
             \/ shown = "rivals" /\ Rivals!Next
             \/ shown = "policy" /\ Policy!Next
          /\ UNCHANGED <<vars, ofArticle, ofCoordinator, ofWorker>>
       \/ /\ shown = "coordinator" /\ Coordinator!Next
          /\ UNCHANGED <<vars, peak, holder, ofArticle, origin, hand, reads, ofIngestion, ofWorker>>
       \/ /\ shown = "cold" /\ Cold!Next
          /\ UNCHANGED <<vars, ofQueue, ofArticle, ofIngestion, ofCoordinator>>

SpecShown == InitShown /\ [][NextShown]_all

-----------------------------------------------------------------------------
\* IndexingJobs where invocations meet, and where the article and its source change
\* under them: what is owed, dropped and earned, as in the commands; and its types.
\* IngestionJobs, around whole retry chains and a source that changes: the retry
\* forest, no success without its batch, and no batch past the gates of its source.
QueuesHold ==
    /\ []TypeOK
    /\ [](shown = "rush" => Rush!TypeOK /\ Rush!StaleEmbeddingIsOwed)
    /\ [](shown = "writers" => /\ Writers!TypeOK /\ Writers!StaleEmbeddingIsOwed
                           /\ Writers!OldTextIsReconciled)
    /\ [](shown = "contents" => Contents!TypeOK)
    /\ [][/\ shown = "rush" => /\ Rush!LateOutputStep /\ Rush!SuccessStep
                               /\ Rush!CancellationStep /\ Rush!TakingStep
          /\ shown = "writers" => Writers!LateOutputStep /\ Writers!SuccessStep
          /\ shown = "contents" => Contents!LateOutputStep /\ Contents!SuccessStep]_all
    /\ [](shown = "chains" => Chains!LinkedRetries)
    /\ [](shown = "rivals" => Rivals!LinkedRetries)
    /\ [](shown = "policy" => Policy!SuccessWasWritten)
    /\ [][shown = "policy" => Policy!BatchStep]_all

\* DueWork: a run leaves no due job while it has slots and time, and every queue
\* has its turn.
DueWorkIsTaken ==
    shown = "coordinator" =>
        Coordinator!TypeOK /\ Coordinator!NothingIsLeftBehind /\ Coordinator!NoQueueIsPassedOver

\* LazyCapability: nothing is made twice, and nobody waits for a flight that is over.
FlightsHold == shown = "cold" => Cold!TypeOK /\ Cold!MadeOnce /\ Cold!WaitsAreUnderWay

\* Identities that the specifications only compare.
SymmetricShown == Permutations(TwoWorkers)
=============================================================================
