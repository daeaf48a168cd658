------------------------------- MODULE MCFair -------------------------------
(***************************************************************************)
(* What must happen in the end, in one run for TLC: one instance of each of *)
(* five modules, side by side.  The components share no modelled state, so *)
(* a behaviour is about the one instance that is `shown`: `origin` and     *)
(* `worker` serve whichever of the others has them, and a variable that is *)
(* not of the one that is shown holds None.  The constants of              *)
(* SourceReconciliation are those of the module itself, a runner under an  *)
(* administrator's commands; while another instance is shown its variables *)
(* rest in its initial state.                                              *)
(***************************************************************************)
EXTENDS SourceReconciliation

CONSTANTS
    Execution, Mortal, Route, Domain, Pool, AnyDomain, AnyPool, AnyRoute, \* ProviderRouting
    Job, Worker,                           \* IndexingJobs
    Articles, Chat, Requests, OfSource,    \* Takedown
    Workers                                \* AccountDeletion

VARIABLES
    shown,
    origin,                                     \* the source of a job, or of a takedown
    worker,                                     \* of indexing jobs, or of deletions
    domain, circuit, reservation, execution,    \* ProviderRouting
    highWater, holder, job, article,            \* IndexingJobs: holder is its owner,
    reads, found,                               \* reads its seen and found its batch
    art, req, due, cites, answer, cleanup,      \* Takedown: cleanup is its batch
    user, data, request, suppressed, writer     \* AccountDeletion

provider == <<domain, circuit, reservation, execution>>
indexing == <<highWater, holder, job, article, reads, found>>
takedown == <<art, req, due, cites, answer, cleanup>>
deletion == <<user, data, request, suppressed, writer>>
all == <<shown, vars, origin, worker, provider, indexing, takedown, deletion>>

\* Two executions of one route, one of which may be killed as it probes.
Provider == INSTANCE ProviderRouting WITH
    DomainOf <- [r \in Route |-> AnyDomain], PoolOf <- [r \in Route |-> AnyPool],
    Primary <- AnyRoute, ModelFallback <- None, ProviderFallback <- None,
    MaxExternalAttempts <- 1, MaxConcurrency <- 2, FailureThreshold <- 1,
    ReservationTicks <- 1, CooldownTicks <- 1, AttemptTicks <- 0

\* One invocation, which may crash, recovery and an admin who cancels.
Indexing == INSTANCE IndexingJobs WITH
    src <- origin, owner <- holder, seen <- reads, batch <- found,
    MaxAttempts <- 1, MaxGeneration <- 2, MaxContent <- 1, MaxPolicy <- 1,
    Volatile <- TRUE, Moderated <- FALSE, Manual <- {}

\* Two requests for the same article, cleaned up a chat at a time.
Cleaning == INSTANCE Takedown WITH
    src <- origin, batch <- cleanup,
    Article <- Articles, Request <- Requests, Scopes <- {{"metadata"}}, Targets <- Articles,
    MaxPolicy <- 1

\* Two invocations of the queue of account deletions.
Deletion == INSTANCE AccountDeletion WITH
    Worker <- Workers, Writer <- {}, LeaseTicks <- 1, DeferTicks <- 1

-----------------------------------------------------------------------------
NoProvider ==
    domain = None /\ circuit = None /\ reservation = None /\ execution = None

NoIndexing ==
    /\ highWater = None /\ holder = None /\ job = None /\ article = None
    /\ reads = None /\ found = None

NoTakedown ==
    /\ art = None /\ req = None /\ due = None /\ cites = None /\ answer = None
    /\ cleanup = None

NoDeletion ==
    user = None /\ data = None /\ request = None /\ suppressed = None /\ writer = None

InitShown ==
    /\ Init
    /\ \/ /\ shown = "source"
          /\ NoProvider /\ NoIndexing /\ NoTakedown /\ NoDeletion
          /\ origin = None /\ worker = None
       \/ /\ shown = "provider" /\ Provider!Init
          /\ NoIndexing /\ NoTakedown /\ NoDeletion
          /\ origin = None /\ worker = None
       \/ /\ shown = "indexing" /\ Indexing!Init
          /\ NoProvider /\ NoTakedown /\ NoDeletion
       \/ /\ shown = "takedown" /\ Cleaning!Init
          /\ NoProvider /\ NoIndexing /\ NoDeletion
          /\ worker = None
       \/ /\ shown = "deletion" /\ Deletion!Init
          /\ NoProvider /\ NoIndexing /\ NoTakedown
          /\ origin = None

\* A step of the instance that is shown.
OfSourceModule(A) ==
    /\ shown = "source" /\ A
    /\ UNCHANGED <<shown, origin, worker, provider, indexing, takedown, deletion>>
OfProvider(A) ==
    /\ shown = "provider" /\ A
    /\ UNCHANGED <<shown, vars, origin, worker, indexing, takedown, deletion>>
OfIndexing(A) ==
    /\ shown = "indexing" /\ A
    /\ UNCHANGED <<shown, vars, provider, takedown, deletion>>
OfTakedown(A) ==
    /\ shown = "takedown" /\ A
    /\ UNCHANGED <<shown, vars, worker, provider, indexing, deletion>>
OfDeletion(A) ==
    /\ shown = "deletion" /\ A
    /\ UNCHANGED <<shown, vars, origin, provider, indexing, takedown>>

NextShown ==
    \/ OfSourceModule(Next)
    \/ OfProvider(Provider!Next)
    \/ OfIndexing(Indexing!Next)
    \/ OfTakedown(Cleaning!Next)
    \/ OfDeletion(Deletion!Next)

\* The fairness each module states, for the behaviours that show it.
FairnessShown ==
    \/ /\ shown = "source"
       /\ \A r \in Runner :
            /\ WF_all(OfSourceModule(Reconcile(r)))
            /\ SF_all(OfSourceModule(SelectSource(r)))
            /\ SF_all(OfSourceModule(ClearExpired(r)))
            /\ SF_all(OfSourceModule(Acquire(r)))
            /\ SF_all(OfSourceModule(OpenPage(r)))
            /\ SF_all(OfSourceModule(MaterializePage(r)))
       /\ WF_all(OfSourceModule(Unattended /\ Expire))
    \/ /\ shown = "provider"
       /\ \A x \in Execution :
            /\ WF_all(OfProvider(Provider!Start(x)))
            /\ WF_all(OfProvider(Provider!Advance(x)))
            /\ SF_all(OfProvider(Provider!AdmitProviderDomain(x)))
       /\ SF_all(OfProvider(Provider!Tick))
    \/ /\ shown = "indexing"
       /\ \A w \in Worker :
            /\ WF_all(OfIndexing(Indexing!Beside(Indexing!Queue(w))))
            /\ WF_all(OfIndexing(Indexing!Beside(Indexing!Processor(w))))
       /\ WF_all(OfIndexing(Indexing!Beside(Indexing!Unattended /\ Indexing!Expire)))
       /\ WF_all(OfIndexing(Indexing!Beside(Indexing!Recover)))
    \/ /\ shown = "takedown"
       /\ WF_all(OfTakedown(Cleaning!CleanupBatch))
    \/ /\ shown = "deletion"
       /\ WF_all(OfDeletion(Deletion!Tick))
       /\ WF_all(OfDeletion(Deletion!RecoverExpired))
       /\ \A w \in Workers :
            /\ WF_all(OfDeletion(Deletion!SelectDue(w)))
            /\ WF_all(OfDeletion(Deletion!Leave(w)))
            /\ SF_all(OfDeletion(Deletion!Proceeds(w)))
            /\ SF_all(OfDeletion(Deletion!CleansUp(w)))
            /\ SF_all(OfDeletion(Deletion!Complete(w)))

FairSpecShown == InitShown /\ [][NextShown]_all /\ FairnessShown

-----------------------------------------------------------------------------
\* SourceReconciliation: every version is reconciled, overtaken or archived.
VersionsAreReconciled ==
    \A v \in Version : []<>~(shown = "source" /\ Unreconciled(v))

\* ProviderRouting: a half-open provider gets its probe back, whoever held it.
ProbeComesBack ==
    \A x \in Execution : []<>~(shown = "provider" /\ Provider!ProbedBy(<<x, "none">>))

\* IndexingJobs: the lease of an article comes back.
ArticleComesBack == []<>~(shown = "indexing" /\ holder # None)

\* Takedown: an approved request is cleaned up, when nothing makes the requests
\* before it refuse.
CleanupEnds == \A r \in Requests : []<>~(shown = "takedown" /\ Cleaning!Waits(r))

\* AccountDeletion: a requested deletion is completed or reported as failed.
DeletionEnds == []<>~(shown = "deletion" /\ Deletion!UnderWay)
=============================================================================
