# TechPulse-AI: a TLA+ verification project

TechPulse-AI ingests articles from registered sources, indexes them, answers
questions about them with external AI providers, and manages the accounts of its
readers. It runs as serverless functions over one MongoDB replica set: there is
no long-lived process, so every rule of the system that outlives one HTTP request
is kept by documents and by the filters of the transactions that change them.
Invocations overlap, are killed at the platform's limit (300 s, `vercel.json`),
stop waiting for calls that go on without them, and read clocks before the
transactions that use them. Those are the behaviours this project models.

Paths below are relative to `src/`. Code is named by its function; PROJECT.json
maps every definition to its lines.

## 1. The system

### 1.1 Components

| Component | State it keeps | Operations | Modelled by |
|---|---|---|---|
| Source leases (`server/repositories/mongo/lease-repository.js`) | `jobLeases`: a generation high-water mark and an active owner (job, generation, token, expiry) per key | acquire, heartbeat, release, listExpired, clearExpired | `LeaseFencing` (abstract), `IngestionJobs`; as used by others, `IndexingJobs`, `SourceReconciliation` |
| Ingestion jobs (`.../job-repository.js`, `jobs/ingestion-queue.js`, `application/jobs`, `application/ingestion`) | `ingestionJobs`: status, attempt, parent, generation, policy version, idempotency key; the invocation's own state | create, select, claim, run, heartbeat, defer, complete, finalise, cancel, retry, recover (two phases), purge | `IngestionJobs` |
| Article batch commit (`.../article-repository.js`) | `articles`, clusters | fenced commit of a batch or of an empty one, of a summary, of an embedding | its fences, in `IngestionJobs`, `IndexingJobs`, `Takedown` |
| Source registry (`application/sources`, `domain/source`, `.../source-repository.js`) | `sources`: status, policy version, review and technical checks, a reconciliation marker | create, review, activate, pause, archive, re-check, update, all as a compare-and-set of the whole document | `SourceReconciliation`; what an ingestion sees of it, in `IngestionJobs` |
| Source-policy reconciliation (`application/indexing/source-policy-reconciliation*.js`) | the marker and its cursor, a lease | select, acquire, open a page, materialise it, complete, fail, recover | `SourceReconciliation` |
| Indexing (`.../indexing-job-repository.js`, `jobs/indexing-queue.js`, `application/indexing`) | `indexingJobs`, the artifacts of an article, its lease | as ingestion, with in-place deferral and a processor that outlives its caller | `IndexingJobs` |
| Due-work coordinator (`jobs/due-work-coordinator.js`, `jobs/queue-registry.js`) | one run: slots, blocked and exhausted sets | recovery loop, reserved turns, spill | `DueWork` |
| Provider routing (`ai/provider-router.js`) | one logical generation: candidate, attempts, failure | execute with a model and a provider fallback | `ProviderRouting` |
| Provider admission (`ai/provider-admission.js`, `.../provider-admission-repository.js`) | `providerAdmissionStates`: reservations of a pool, a circuit per route | reserve, release, prune, probe | `ProviderRouting` |
| Failure domains (`.../provider-failure-domain-repository.js`, `ai/provider-error-taxonomy.js`) | `providerFailureDomainStates`: a circuit per provider | admit, report | `ProviderRouting` |
| Account deletion (`.../account-deletion-repository.js`, `jobs/account-deletion-queue.js`, `application/account-deletion`) | `accountDeletionRequests` with flags and an inline lease, `users`, `governanceSuppressions` | request, retry, claim, defer, clean up, fail, complete, recover, purge | `AccountDeletion` |
| Chat and answer attempts (`.../chat-repository.js`, `application/qa/service.js`) | `chatSessions`, `answerAttempts`, quota buckets | reserve, renew, append (three kinds), refuse, expire, purge, delete a chat | `AnswerAttempts`; evidence, in `Takedown`; the deletion of the user, in `AccountDeletion` |
| Saved articles (`application/saved`) | `savedArticles` | save | its race with a deletion, in `AccountDeletion` |
| Authentication and sessions (`.../auth-repository.js`, `application/auth/service.js`) | `users` (password, sessionVersion, status), `sessions` | login, touch, logout, change of the password, suspension, restoration | `UserSessions` |
| Takedown (`.../takedown-repository.js`, `application/takedowns`) | `takedownRequests`, the redaction flags of articles and citations | review, hide, clean up by pages, complete | `Takedown` |
| Lazy runtime (`bootstrap/lazy-runtime.js`) | the capabilities a worker has made, the flights under way | make a capability once, with those it needs | `LazyCapability` |
| Question page (`client/app/integration/use-public-integration.js` `useQa`, `client/features/public/views/QaView.jsx`) | session list, thread, the conversation to continue; a queue of calls, two epochs | ask, open, begin, delete, clear, navigate, sign in as another; the answers of four kinds of calls | `QaConversation` |
| Rate limits, administration and audit, cron events, retrieval, connectors, HTTP, the rest of the client, scripts | buckets; audit rows; none that outlives a call | | section 8 |

### 1.2 How they interact

A cron request or an administrator starts `due-work-coordinator`, which first
recovers what earlier runs left, then takes one candidate of each queue in the
order account deletion, indexing, ingestion, then whatever is oldest. A queue
adapter acquires a lease (ingestion, indexing) or claims with an inline one
(account deletion), and runs the work against the run's deadline. An ingestion
commits articles and the indexing jobs for them in one transaction, under a fence
made of job, generation, owner token and policy version. An indexing job commits
a summary or an embedding under a fence of its own, to which the input it was made
from belongs. A change of a source's policy marks the source; a runner then fans
the new version out to its articles as indexing jobs, page by page. A takedown
hides articles, pauses the source when it is about all of it, and leaves the rest
to the cron. Indexing and question answering call the provider router, which asks
the failure domain, then the pool's admission, and reports the outcome to both. A
deletion changes the user document that every write on behalf of the user is meant
to be fenced by; so do a change of the password and a suspension. The question
page sends its questions, deletions and clearings one after the other, reads the
list and a conversation beside them, and goes on when the user does: it drops the
answers whose epoch has moved since their click.

### 1.3 What is hard, and what makes each part correct

- *Overlapping invocations.* A lease can expire and pass on while its former
  owner still has calls in flight. Correct: nothing is written under a generation
  that is not the newest (`ExclusiveFence`, `GenerationsAreFences`,
  `NoStaleBatch`, `ImplementsFencing`, `LateOutputIsDropped`).
- *Clocks read early.* A transaction compares an expiry with a time read before
  it, recovery with the time its run began. Correct: a live lease is never taken
  from its owner (`LiveLeaseIsKept`, `EndsAreEarned`). For account deletion the
  clock of the claim is used for every later write, and the expiry says nothing
  (section 6).
- *Deadlines that abandon calls.* The caller reports failure and the call
  commits. Correct: the first recorded outcome of an attempt stays
  (`TerminalIsFinal`, `EndsAreFinal`), a success was written
  (`SuccessWasWritten`, `EndsAreEarned`), a receipt tells what became of
  its question (`ReceiptsAreTrue`).
- *Crashes.* Between claim and completion nobody remembers the work but the
  document. Correct: recovery ends every such attempt, with its retry, once
  (`CrashKeepsRetry`, `LinkedRetries`, `QueuesHold`, `RunningEnds`, `LeaseComesBack`,
  `ArticleComesBack`); a deletion, a reconciliation and a cleanup resume and end
  (`EvidenceIsKept`, `FlagsAreEvidence`, `DeletionEnds`, `VersionsAreReconciled`,
  `CleanupEnds`).
- *Work fanned out while its subject changes.* Articles arrive, policies change
  and takedowns come between two pages. Correct: a marker that says completed
  covers what the source had when its version began (`MarkersAreTrue`), rights
  change with a version only (`RightsAreVersioned`), what was taken down stays
  down and uncited (`RightsHold`), an embedding that is out of date is owed
  (`StaleEmbeddingIsOwed`). A batch or a text that lands beside a change of its
  source is not kept out, as some documents ask (section 6). It was permitted when
  its transaction began (`NoStaleBatch`, `LateOutputIsDropped`), and
  reconciliation finds it (`QueuesHold`, `MarkersAreTrue`).
- *External calls with unknown outcomes.* Correct: a pool's limit holds for the
  calls really in flight (`ConcurrencyHolds`), one probe at a time decides a circuit and
  no circuit is stuck (`CircuitsHold`, `OutcomesDecide`, `ProbeComesBack`), and an
  ambiguous call is not repeated (`OneFallback`).
- *Snapshot isolation.* A transaction that only reads a document does not
  conflict with one that writes it: a batch and the source (`NoStaleBatch`), a
  text or a completion and the source or the cancellation of its job
  (`LateOutputIsDropped`, `EndsAreEarned`), a command and the session or the
  user (`OnlyLiveSessionsAct`, `FlagsAreEvidence`), a login and the password
  (`SessionsAreCurrent`). Section 6 has what the documents say of them.
- *Budgets.* Recovery, reserved turns and spilled jobs share slots and time.
  Correct: a run leaves no due work behind while it has both, and passes over no
  queue (`DueWorkIsTaken`; section 6 for what an overlong execution does).
- *Answers that come after the user has moved on.* Correct: the page shows and
  continues conversations of the user who is signed in only, sends no question in
  another user's name, shows one conversation at a time and does not list again
  what it knows to be deleted (`ScreenHolds`; section 6 for what it does not do).
- *Shared loads.* Correct: a capability is made once, and nobody waits for a
  flight that is over (`FlightsHold`).

PROJECT.json lists every hazard at its line with the properties that cover it.

## 2. Modules

`LeaseFencing` is the abstract promise of ADR-0010: resources are held at most
once, every grant takes a generation never used before, and the protected data
takes effects of the holder's generation only.

`IngestionJobs` models the two collections, any number of concurrent
`claimAndExecute` invocations with the calls they leave behind, recovery loops,
administrators' requests and changes of the source document.

| In the module | In the code |
|---|---|
| `highWater`, `owner` | `jobLeases.generationHighWater`, `.activeOwner` |
| `job`, `older` | `ingestionJobs` and the order of `updatedAt` among running ones (phase two takes the oldest first) |
| `worker[w].pc` | the call `claimAndExecute` awaits or has left in flight |
| `worker[w].exec`, `.beat`, `.age` | the executor, the heartbeat in flight with its clock's age, the age of the main call's clock |
| `rec` | `recoverExpiredIngestion`: listing, phase one (lease by lease), phase two (orphans) |
| `request` | an administrator's create or retry between building the job and inserting it |
| `written` | history: the fence of the last batch of a source |
| `seen` | the outdated reads of the source, and of the clock, that an open transaction of an invocation may have made |

Time is relative. A lease has `ttl` ticks left and a call an `age`, so
`expiresAt > now` reads `ttl + age > 0`. `maxTimeMS` of a call
and the budget of a recovery run bound an age (`MaxLatency`). A lease is granted
and renewed from the clock its call read, so it may have less than `LeaseTicks`
left when the call commits. A step of the module is the commit of one repository
transaction; what a function does between two awaits is part of the step before
it. The documents a transaction writes are as it read them, or the commit is
refused. Those it only reads may be older: while a call is in flight, `seen`
collects what its snapshot may have shown, and the commit goes by any of these
readings or by the source as it is. `commitIngestionBatch` and `completeWithFence`
read the source in this way.

`IndexingJobs` models the jobs of one article. Its lease may expire at any time,
which covers every clock; `worker` has the invocation and the processor it leaves
running when its deadline or heartbeat ends the wait. Hashes are not computed: a
text is told from another by the job that wrote it, and the input of an embedding
is the content, the policy version and that job. The writers outside the queue
(ingestion, moderation, the source's policy) are actions of their own. As in
`IngestionJobs`, `seen` has the outdated readings an open transaction of an
invocation may go by, here the cancellation flag of its job and the source, which
`commitArtifact` and `completeWithFence` only read; `batch` has those of the
source in an open transaction of an ingestion that brings new content.

`SourceReconciliation` models one source document with everything that writes it.
A transaction that writes the source is a read and a commit that fails when the
document was written in between (`stale`); a batch only reads it, so its snapshot
and its commit are two steps that may have anything between them. `born` and
`fanned` tell what a version owes to which article.

`Takedown` models requests for the articles of one source, a queue of approved
ones in the order of `updatedAt`, the answers that cite the articles, and the
ingestion and reconciliation that write them meanwhile.

`AnswerAttempts` models receipts by idempotency key, and the executions of
requests that compete for them: reservation, preparation, renewal before each call
for an answer or its support, what the provider does, append or refusal. The
preparation reads the actor again, asks the intent planner, on a failure by its
next route, and asks for the embedding of the question, all under a
receipt that is `reserved` and that nobody renews (section 6). `written` counts the
assistant messages under a receipt.

`DueWork` models one run of the coordinator in ticks of one reserved attempt.
What a queue does with a job is in its own module; here a claim is refused or
takes a slot and any part of the time left, and ingestion creates indexing jobs.

`UserSessions` models the sessions of one user. A request checks a credential,
takes a snapshot, and conflicts at its commit only where it writes itself. A touch
(preferences, the append of an answer, a decision on a takedown), a logout, a
change of the password and a change of the status write the user. A login and a
command (a reservation, a change of a source, an administrator's job) only read
what they are fenced by.

`QaConversation` models the question page of one browser: what the hook keeps
(`ui`), its queue of calls, the list and the opening under way, and the service as
far as these calls see it. An epoch is a flag of the call that was made under it.
A call may be refused, or succeed and lose its answer. `ThreadIsOne` excepts a
thread over which an opening or a clearing began and did not succeed: the hook
sets the conversation to continue at the click and leaves the thread on screen.

`LazyCapability` models the flights of capabilities that need one another.

`ProviderRouting` models the executions of the router, the reservations and route
circuits of the pools, and the circuits of the failure domains. One tick is the
adapters' call timeout; a reservation lasts two, a cooldown two. A compare-and-set
that fails before or after its commit is an explicit outcome. The budget of a
pool is nondeterminism: `Reserve` may always be denied.

`AccountDeletion` models one account (workflows of two accounts share no
document): the service, the adapter and its bounded operations, the repository,
recovery and purge, and four transactions on behalf of the same user as a
snapshot and a commit.

*Composition.* `IngestionJobs` composes leases, jobs, recovery, administrators
and the source; `Takedown` composes requests, articles, chats, ingestion and
reconciliation; `IndexingJobs` the queue with every other writer of the article.
Beyond that the components meet in documents which each module already has every
writer of. `MCBackground`, `MCGovernance`, `MCProviders` and `MCFair` therefore
put several instances side by side in one run: a behaviour is about the one
instance that is `shown` and the variables of the others hold `None`. One module
is extended rather than instantiated (`ProviderRouting`, `SourceReconciliation`,
`AccountDeletion`, `IndexingJobs`): its variables rest in its initial state while
another instance is shown, and its own properties, those its theorems state, are
checked by their own names. A property about the other instances is the
conjunction of the modules' own properties, each under its `shown`. The runs claim
nothing about an interaction of the instances. Bounds of an instance are given in
its `INSTANCE ... WITH`.

Model values stand for workers, admins, keys and sessions alike where instances
are symmetric in them: TLC applies every combination of the permutations to every
state, and sets shared between instances keep these few.

`IngestionJobs_proofs`, `IndexingJobs_proofs`, `ProviderRouting_proofs`,
`AccountDeletion_proofs`, `UserSessions_proofs`, `SourceReconciliation_proofs`,
`AnswerAttempts_proofs` and `Takedown_proofs` hold the theorems.
`ProviderConfiguration` declares the constants of a registry and their
assumptions. Operators named in a comment as a *fault* are not part of any
specification: each is the bug that a property of that module is there to find.

## 3. Runs

| Run | Question | Instances |
|---|---|---|
| `ingestion_fencing` | Do overlapping invocations, late heartbeats, stale clocks and crashes break the fence, an outcome or a crashed job's retry? Is each retry the next attempt of a failed one, each success written? Is it a fencing lease? | 1 source, 2 jobs, 2 workers, a recovery loop, an admin, a lease of 2 ticks and calls up to 1 tick old |
| `ingestion_liveness` | Does every running job end and every lease come back? | 1 worker, 1 recovery loop, 2 keys, fair |
| `background` | Does a late text reach the article, a success mean its artifact, a new summary owe an embedding, a live job stay with its owner? The same where two invocations meet and where the article and its source change; is a text that landed beside a change of the source reconciled? With rival administrators, is one retry linked per failed attempt? With a changing source, is each batch that of a running attempt which its transaction found permitted (`QueuesHold`)? Is due work taken, is a capability made once? | `IndexingJobs`: 3 jobs, two leases one after the other, jobs made by hand, a source that is paused and reviewed (the module's own properties); 4 jobs and 2 workers, a source that stays; 3 jobs, two policy versions and a source that is paused, reviewed and reconciled; 4 jobs, new content and moderation. `IngestionJobs`: 3 jobs in chains with 2 admins repeating one request; the same with requests of their own; a source that is paused, reviewed and activated again, in 2 policy versions. `DueWork`: 4 jobs in 3 queues, 3 slots. `LazyCapability`: 4 capabilities, 2 callers |
| `providers` | Are circuits probed by one call, decided by it, opened by the right failures, never stuck? Does a pool's limit hold? Is there one fallback, of the right kind? | 2 executions and 2 models behind one credential that allows 1 call (the module's own properties); 2 executions, 1 route, threshold 3; 1 execution, 3 routes of 2 providers (`RoutersHold`) |
| `governance` | Do the flags of a deletion say what the collections say? Does a session outlive its password, or act when it should not? Do receipts, takedowns and markers tell the truth? Does the page show what belongs to its user? | `AccountDeletion`: 2 workers, 2 user transactions. `UserSessions`: 3 requests, 3 sessions, 2 passwords. `AnswerAttempts`: 2 requests, 2 keys, 3 chats. `QaConversation`: 2 users, 3 conversations, 3 calls in the queue, 7 clicks. `Takedown`: 2 requests for an article or its source; one for a source of 2 articles, in pages of 1. `SourceReconciliation`: an admin, a batch and a runner; two runners, a batch and a takedown; two admins and a takedown |
| `endings` | Does a marker tell the truth and never go back? Is a version reconciled, a probe returned, a lease given back, a takedown cleaned up, a deletion ended? | one instance each of `SourceReconciliation`, `ProviderRouting`, `IndexingJobs`, `Takedown`, `AccountDeletion`, fair |
| `deletion_wins`, `deletion_expired_lease`, `orphaned_indexing`, `stale_cursor`, `blocked_cleanup`, `reserved_turn` | Disagreements of code and documents (section 6) | the smallest instance that shows them |

*Why the bounds are enough.* Two overlapping holders are the least in which one
acts on what the other has changed, and a generation bound of two gives each its
own. A lease of two ticks with calls one tick old is the least in which a
heartbeat and a recovery disagree about expiry. Three jobs give a chain and a
rival child of its first link, four a second artifact beside a chain, or new
content; two leases let a new summary follow an embedding. Two keys tell two
requests apart. Three failures reach the real threshold; a pool limit of one is
the tightest. A page of one article and two articles give a cursor that something
can be behind; two policy versions are one that is overtaken while a transaction,
a page or a batch of it is under way. A conversation of three messages is at its
bound after one answer, and a budget of one tick under a reservation of two keeps
the order of the real ones. Three requests of a user are a change of the password,
one that was checked before it and one after. Seven clicks are enough to open the
page, have two conversations and act three times on them while calls are in
flight; a deletion and a clearing can wait behind a question, one more call is
what the queue of three adds. Three slots are the least `createQueueRegistry`
accepts for three queues; a fourth job is left for the spill. Two callers and a
chain of capabilities with a shared dependency give a joined flight and a nested
one.

`MaxGeneration`, `MaxPolicy`, `MaxContent`, `MaxArticle`, `MaxVersion`,
`MaxLatency`, `Volatile`, `Purgeable`, `Mortal`, `Moderated`, `Manual`, `Scopes`,
`Targets`, `SignedIn`, `MaxUser`, `MaxSession`, `MaxQueue`, `MaxClicks` and
`Takedowns` are bounds of the models, each named as such
at its declaration; the theorems hold for every value of theirs. An administrator
asks for a job of `IngestionJobs` while a document of `Job` is left for it. Symmetry is used
in safety runs only, on identities the specification only compares.

*Deadlock* is checked except where the system may really stop: a deletion that is
purged, a takedown that is cleaned up, a run of the coordinator that has ended or
a worker with every capability has nothing left to do.

## 4. Fairness

- `IngestionJobs`: an invocation's own calls return or fail (`maxTimeMS`) and its
  heartbeat timer fires (weak); the cron keeps starting runs and their calls end
  (weak); recovery's calls, which a commit of somebody else may abort, and time
  are strongly fair. Administrators, source changes and crashes have none.
- `IndexingJobs`: an invocation's waits have deadlines and its processor's calls
  time out (weak), a lease nobody renews expires (weak), recovery runs (weak).
- `SourceReconciliation`: a runner goes on (weak); its selection and its
  transactions, which other writers of the source may abort, succeed at last
  (strong); an unattended lease expires (weak). Administrators have none: a
  version may always be overtaken.
- `Takedown`: the cron cleans up (weak).
- `ProviderRouting`: executions run to their end (each call has a timeout),
  requests keep coming (`Start`), and one that keeps being admitted is in the end
  admitted when it may probe. A killed process does nothing more.
- `AccountDeletion`: the cron starts runs and recovers; an invocation ends; a
  claim made in time, a cleanup step and a completion that are possible again and
  again succeed at last. The code has no limit on attempts, so without the last
  one a deletion can go round for ever; this is stated as an assumption, not
  hidden in the model.

In `endings` a behaviour shows one component, so `FairnessShown` is a disjunction
over `shown` of what each module states in its own `FairSpec`.

*Isolation.* Every transaction of the repositories runs under snapshot isolation:
it is refused when a document it writes was written since its snapshot, and never
for one it only reads. `IngestionJobs`, `IndexingJobs`, `SourceReconciliation`,
`Takedown`, `UserSessions` and `AccountDeletion` keep snapshot and commit apart
for the transactions that only read a source, a job, a user or a session; no
property assumes that such a read is still true at the commit. Elsewhere a step
reads what it does not write as it is at its commit (the actor of a renewal of
`AnswerAttempts`); no property is about the time between.

## 5. Proofs

TLAPS checks these for every value of the constants that the named assumptions
allow (numbers of jobs, workers, sources, attempts; lengths of leases).

| Theorem | States | Rests on |
|---|---|---|
| `TypeCorrect` (`IngestionJobs_proofs`) | `[]TypeOK` | `TypeInv`: `TypeOK`, and an invocation or recovery loop that is under way names a job |
| `FencesAreGenerations`, `FenceIsExclusive` | `[]GenerationsAreFences`, `[]ExclusiveFence` | `FenceInv` |
| `NoBatchIsStale` | `NoStaleBatch` | `FenceInv` |
| `LeasesFence` | `ImplementsFencing`: the refinement of `LeaseFencing` | `FenceInv`; each step is a grant, a return, an effect or a stutter |
| `RetriesAreLinked` | `[]LinkedRetries` | `RetryInv` |
| `OutcomesAreFinal` | `TerminalIsFinal` | `RetryInv` |
| `SuccessesWereWritten` | `[]SuccessWasWritten` | `ResultInv`, `FenceInv`, `NoBatchIsStale`'s step |
| `LiveLeasesAreKept` | `LiveLeaseIsKept` | `WhoClears` |
| `CrashesKeepRetries` | `CrashKeepsRetry` | `SweepInv`, `FenceInv` |
| `TypeCorrect` (`IndexingJobs_proofs`) | `[]TypeOK` | `IInv` |
| `StaleEmbeddingStaysOwed` | `[]StaleEmbeddingIsOwed` | `IInv` |
| `LateOutputDropped` | `LateOutputIsDropped` | `IInv` |
| `EndsEarned` | `EndsAreEarned` | `IInv` |
| `TypeCorrect` (`ProviderRouting_proofs`) | `[]TypeOK` | `IInv` |
| `PoolLimit` | `[]ConcurrencyHolds` | `IInv`, an injection of calls into reservations |
| `CircuitsAreSound` | `[]CircuitsHold` | `IInv` |
| `ProbesDecide` | `OutcomesDecide` | `IInv` |
| `FallsBackOnce` | `OneFallback` | `IInv` |
| `FlagsAreProof` (`AccountDeletion_proofs`; `TypeCorrect` too) | `[]FlagsAreEvidence` | `IInv` |
| `EvidenceStays` | `EvidenceIsKept` | `IInv`, `ClosedAtRest` |
| `CurrentAlways` (`UserSessions_proofs`; `TypeCorrect` too) | `[]SessionsAreCurrent` | `IInv` |
| `ActsWhileLive` | `OnlyLiveSessionsAct` | `IInv` |
| `OnlyTheNewSession` | `OneSessionIsLeft` | `IInv` |
| `MarkersStayTrue` (`SourceReconciliation_proofs`; `TypeCorrect` too) | `[]MarkersAreTrue` | `IInv` |
| `VersionsAreMonotonic` | `RightsAreVersioned` | `IInv` |
| `ReceiptsStayTrue` (`AnswerAttempts_proofs`; `TypeCorrect` too) | `[]ReceiptsAreTrue` | `IInv` |
| `ConversationsStayInBounds` | `[]ConversationsFit` | `IInv` |
| `EndsStayFinal` | `EndsAreFinal` | `IInv` |
| `OneAskerAlways` | `OneAsker` | `LeaseInv`, `Outlasts` |
| `DownForGood` (`Takedown_proofs`; `TypeCorrect` too) | `[]TakenDownStaysDown` | `IInv` |
| `RedactedForGood` | `[]RedactionHolds` | `IInv` |
| `GoneForGood` | `[]CompletedIsGone` | `IInv` |
| `FlagsStayTrue` | `[]FlagsAreTrue`: a redacted request's article is gone | `IInv` |
| `DownWithoutRequest` | `NothingComesBack`: what is down stays down, its request purged or not | `IInv`, `Kept` |

*Assumptions.* Most only type the constants, or say that `None` is none of the
things it stands in for (`BoundsAssumption`, `NoneAssumption`, `Constants`). That
an article has finitely many jobs and invocations, and room for the two jobs of its
first ingestion, is asked by `IndexingAssumption`: the module counts them to insert
several documents in one transaction and to bound attempts. Three are about the
code. `PolicyAssumption` is what `provider-registry.js` demands of a
workload policy: the model fallback shares the primary's failure domain, the
provider fallback does not, and there are one or two external attempts.
`TimingAssumption` orders the clocks of admission: a call ends within its
reservation, and a reservation (60 s, `provider-admission.js:95`) is no longer
than a cooldown (60 s, `provider-admission-repository.js:3`). `Outlasts`, for
`OneAskerAlways` only, says that the budget of a question (30 s) is within the
reservation of its receipt (60 s). Ingestion needs no order of its clocks: leases,
calls and recovery runs may last as long as they like.

*Fences.* None of the fencing properties is inductive alone: that the owner
holds the newest generation does not say that a stale invocation holds another
one. `FenceInv` adds that jobs which are named exist, that invocations with a
fence for one source hold different generations, none above the high-water mark,
and that a batch written under the generation that owns the lease was written by
the owner's job. Only three steps disturb it: an acquire, a claim and a batch.
Every other step is *quiet*: it leaves the high-water marks and batches alone, may
clear an owner, ends but does not start jobs, and gives no invocation a fence. One
lemma shows quiet steps keep `FenceInv`, one lemma per actor shows its steps are
quiet, and three lemmas treat the rest. They are about `documents`; of what open
transactions have read, the invariants need its type only (`SeenOK`).
`NoBatchIsStale` is absolute in what the transaction writes: generation, owner and
job. That the lease had not expired and that the source permitted the job is
claimed of a reading of its transaction, because more is not so (section 6).

*Retries and outcomes.* For the retry forest the steps are sorted by what they
make of a job document instead: `Moves` is what a step may make of one (source,
attempt and parent stay, an end stays but for the purge, keys are dropped only),
and a step `Grows` the collection by at most one `Fresh` document, the next
attempt of a failed, retryable job that has no child, under a key nobody has.
`RetryInv` adds to `LinkedRetries` what an administrator's request that is built
and not yet inserted says of its parent, which is what must still hold when it is
inserted. `SuccessWasWritten` needs that an invocation which calls its result a
success has written under the generation it holds, and has one only after the
claim (`ResultInv`); batches never go back, by the step of `NoStaleBatch`.

*Indexing.* Most steps are *plain*: they grant no lease, begin no invocation and
no execution, give no job back to the queue and put no text on the article. `IInv`
is shown once for all of them (`PlainKeeps`), and `Select`, `Acquire`, `Claim`,
`Defer` and `Answer` have a proof each. As for ingestion, an owner holds the newest
generation and no other invocation has it (`Generations`). `Texts` says that a text
on the article, or in the identity of a job that was made from it, is of a job that
can write no more: it has ended, or the one invocation that could write for it no
longer executes. The identity of the embedding that a new summary owes is therefore
unused, and the upsert that could silently do nothing (`$setOnInsert`) does insert. `Earned` says that an
invocation which may record a success finds its artifact there, so that the job an
embedding is owed by cannot succeed while the embedding lags (`Owed`). A deferral
counts its attempt in place, by an invocation whose copy of the job may be old, so
that attempts pass their limit; `AttemptsFit` bounds them by the invocations that
are still behind, which is what `TypeOK` needs. `IInv` is these parts (`CoreInv`) and
`Views`: what an open transaction has read of the source is what the source was
under its version or an earlier one, so that nothing is made under a version that
never was. `LateOutputDropped` and `EndsEarned` say of the lease, the job's status
and the article what they are at the commit, and of the cancellation and the policy
what the transaction has read.

*Crashes.* Phase two of recovery records a final failure, so that a crashed
attempt is safe only if phase two never takes one that still owns its lease. It
looks for orphans only when its run's clock found no expired lease; that clock may
be old by then, and heartbeats go on. `SweepInv` says why this is enough. A
heartbeat in flight read its clock after the lease it renews was granted or
renewed last (`BeatsAreLate`), so a renewal never shortens a lease, because one
invocation holds a fence and has one heartbeat in flight; and the attempt a run
has listed as an orphan, if it owns its lease, owns one that the run's clock finds
alive (`OrphansHaveNoLease`), because later grants are of later generations. An
earlier proof needed calls to be shorter than a lease, which nothing in the code
guarantees (a run's budget is up to 240 s, a lease 30 s); the invariant does not.

*Providers.* A pool's limit is about calls, the code counts reservations. `IInv`
says that a call in flight has a reservation with the time its age leaves
(`CallsAreReserved`), so the calls inject into the live reservations of the pool,
whose number `Reserve` bounds (`PoolsFit`). A probe of a failure domain under way
is the one the half-open circuit names, for as long as it may last
(`ProbesAreHeld`), hence nobody else decides that circuit. No reservation on a
route outlasts the cooldown of its open circuit, and of a half-open one there is
only its probe's (`RouteCircuits`), so that its release closes or opens it.
`OneFallback` follows from what the phase of an execution says of its attempts and
its failure (`Phases`).

*Deletion.* `FlagsAreEvidence` is not inductive: the worker that writes
the tombstone goes by the flags it has seen, not by the document. `IInv` adds that
under a valid claim what a worker has seen is still set (`SeenIsSet`), that one
about to complete has seen everything, and that no flag is set while the user is
active, which is why the writes that lock the user cannot follow a batch. The
claim's owner is what makes it valid, not the lease's expiry: the proof does not
use time at all, in agreement with section 6. `ClosedAtRest` says that no clock
runs on a closed request, and is only needed for its finality.

*Sessions.* Nothing is newer than the user, and a session, or a request's
snapshot, that carries the user's version was made for the user as it is: each
change of the password and each suspension takes a version of its own. A login
whose snapshot has become old commits a session under a version that authenticates
nobody. A transaction that writes the user commits under a snapshot that is still
true, so its session is usable at the commit; a command writes neither, and
`ActsWhileLive` says that the session it acts under is usable or was ended by a
commit after its snapshot. `deletion_wins` is one such command.

*Reconciliation.* A copy of the source that nobody has written over *is* the
source (`Copies`), so what a command or a page makes of its copy is made of the
source. A page's snapshot holds every article its version began with, a page is
the front of those beyond the cursor, and so what the cursor has passed has the
jobs of the version (`Covered`). The last part is promised without takedowns only:
with one, the marker is completed too early, which is the run `stale_cursor`.

*Questions.* Whoever executes under a receipt is the request that created it, so
nobody else ends it while it is under way, except an expiry; what an append writes
fits in the conversation its transaction read. `LeaseInv` adds two things. A receipt
whose execution prepares its prompt is `reserved` (`PlanningFits`): no retry of the
key takes it, no expiry ends it, and the planner and the embedding are asked by its
creator alone. Afterwards an answer, or its support, is asked for while the
reservation is alive, because it is renewed before each of these calls and outlasts
the budget (`ReservationFits`).

*Takedowns.* A request is followed by what it says of its article: effective, the
article is down; redacted, it is gone and no chat cites it (`RequestFits`). Every
step of anybody leaves an article that is down as it is and cites none (`Kept`), so
that only a request's own steps matter to it. An answer that was under way when its
article was hidden is refused by the evidence fence of its append, which reads the
articles again; the last page of a cleanup, which sets the last flag, has removed
all that was in scope, although earlier pages and other requests came before it
(`LastPageCleans`). A reconciliation may turn a removed summary back to pending
(section 6), so that gone means without a summary, not marked as removed. The
theorems are about requests for one article: a source that was taken down can be
activated again and ingests new articles.

*Only model-checked.* Liveness (`RunningEnds`, `LeaseComesBack` and the five of
`endings`) needs `ENABLED`, which the prover does not have. `DueWork`,
`LazyCapability` and `QaConversation` have no proof. The conjunctions of the runs
over several instances (`RoutersHold`, `QueuesHold`, `RightsHold`, and in
`MCGovernance` `TypesHold`, `ReceiptsAreTrue`, `EndsAreFinal`, `SessionsAreCurrent`
and `OnlyLiveSessionsAct`) are checked under `shown`; a theorem is about the
module's own property, of every instance. `FlagsAreTrue` and `NothingComesBack` of
`Takedown_proofs` are no run's: they are parts of its argument worth a name, and
TLC finds no violation of them on an instance like the first of `governance`.
No module declares a RECURSIVE operator.

## 6. Where code and documents disagree

Each is a run that must find its property violated; PROJECT.json quotes the lines.

- `deletion_wins`: `reserveAnswerAttempt` fences itself with reads of the user
  and session documents; under snapshot isolation its commit does not conflict
  with a deletion that began after its snapshot. It can leave an answer attempt
  and quota buckets after the deletion has completed, where `docs/PRD.md:360`
  says that a deletion that wins the race leaves none. `appendAnswer` and
  `saveVisibleArticle` write the document they are fenced by, and
  `FlagsAreEvidence` holds for their collections.
- `deletion_expired_lease`: the adapter passes the time of its claim to every
  later write, so that `leaseExpiresAt > now` stays true for ever;
  `docs/adr/0014-use-inline-leases-for-stable-deletion-workflows.md:16` asks for
  an unexpired lease. What stops an old worker is the requeue by recovery, which
  is enough for `EvidenceIsKept`.
- `orphaned_indexing`: recovery of indexing goes through expired leases only. A
  claim whose transaction commits and whose session fails to close is taken for a
  failed one and its lease is released: the job stays running for ever.
  `docs/TECHNICAL-DESIGN.md:388` promises the second phase that ingestion has.
- `stale_cursor`: a takedown of a source resets its marker field by field but not
  the cursor. The next page of the new version starts where the old version was,
  and the marker is completed without the articles before it, against
  `docs/DATA-MODEL.md:291`.
- `blocked_cleanup`: the cleanup takes the oldest approved request; one whose
  targets an earlier one has closed throws, keeps its place and blocks the rest,
  where `docs/adr/0012` and `docs/TECHNICAL-DESIGN.md:331` promise a cleanup that
  can be run again.
- `reserved_turn`: an execution is given the deadline of the whole run, so that
  the queues after it can lose the turn that `docs/adr/0011` reserves for them.

Observed while modelling, and kept in the models as the code has them:

- An ingestion batch only reads its source (`article-repository.js:852`). It does
  not conflict with a pause, a re-review or an update of the source that commits
  beside it, and its articles land under the older version, where
  `docs/DATA-MODEL.md:522`, `docs/PRD.md:294` and `:361` and
  `docs/TECHNICAL-DESIGN.md:378` ask for a match of the current one.
  `NoStaleBatch` states what holds, that the transaction found it permitted;
  `MarkersAreTrue` and `RightsHold` have such batches in them.
- A commit of an artifact only reads the job's cancellation flag and the source
  (`article-repository.js:1083`, `:1088`), a completion the source
  (`indexing-job-repository.js:670`), while `cancelIndexingJob` (`:708`) writes the
  job alone: a text can land, and a job succeed, beside a cancellation or a change
  of the policy that has committed (`docs/TECHNICAL-DESIGN.md:378` asks for a match
  of the source's version). The reconciliation of the new version, which is
  still to be done then, covers a text under the old one (`OldTextIsReconciled`).
- The session fences of `chat-repository.js:366`, `source-repository.js:117`,
  `job-repository.js:224` and `indexing-job-repository.js:330` only read the user
  and the session, and the deletion and clearing of conversations
  (`chat-repository.js:404`, `:410`) read them outside any transaction: each can
  take effect beside a revocation that commits after the read, where
  `docs/PRD.md:360` wants the user and the version of the session to hold at the
  commit. `assertActiveSessionForUser` and `takedown-repository.js:141` write the
  user. The run `deletion_wins` shows the case the document spells out.
- The intent planner (`qa/service.js:639`, `bootstrap/qa.js:114`) and the embedding
  of the question (`qa/service.js:408`) are asked under a receipt that is
  `reserved`, without `renewProviderStage`; the actor is read once more before the
  planner (`:637`) and not before the embedding. A receipt whose execution dies
  there, whose second reading of the actor fails or whose retrieval fails stays
  `reserved` until it is purged: only a `provider-running` one expires, and a
  question with its key is refused as still being processed. `OneAsker` says what
  these calls have instead of a reservation.
- A reconciliation turns a summary that a takedown removed back to pending, so a
  takedown of a summary only never finds its article done again
  (`takedown-repository.js:241`, `article-repository.js:1190`); `hideTargets`
  refuses an article that the policy has hidden.
- A batch that commits and loses its acknowledgement (`ingestion-queue.js:298`) is
  a failed job with a retry whose articles exist; deduplication, which is not
  modelled, is what makes the retry harmless.
- A succeeded retry is purged after 14 days and its failed parent after 30
  (`job-repository.js:175`): in between the parent can be retried again. `Purge`
  is an action, and `LinkedRetries` speaks of the jobs that are stored.
- A cancellation of a running job is a flag (`job-repository.js:660`): a worker
  that completes without reading it ends the job as a success.
- A call admitted before a route's circuit opened closes it when it succeeds
  (`provider-admission-repository.js:113`); a domain's circuit ignores it, which
  is what `OutcomesDecide` is about.
- The question page (`use-public-integration.js`): a question asked while the
  deletion of its conversation is under way carries the conversation's id and is
  sent to it after the deletion (line 985; `docs/PROJECT-MODIFICATIONS.md:20` says
  a new one is begun); the first of two quick deletions stays on the list (line
  1087 returns before the list is filtered; `:17` says the epoch is there for
  quick deletions); a deletion while a question or an opening is under way leaves
  the page loading for ever, because the answer it waits for is dropped (lines
  1014, 939); a list served before a clearing and landing after it brings its
  conversations back (`clearSessions` moves the list's epoch at the click only);
  after a change of the article in the address nothing loads the list again (line
  840). TLC finds a behaviour for each when the corresponding formula is added to
  `QaConversation`; none is a run, for the runs above are about the service.
- An administrator's retry of an indexing job that recovery has already linked a
  retry to makes a second one under its own key.

## 7. Plan

Done: the fencing lease, ingestion, indexing, provider routing, account deletion,
sessions, reconciliation, questions and takedowns, checked and proved as section 5
lists; the coordinator, the lazy runtime and the question page, modelled and
checked.

To prove next, in this order: `MadeOnce` and `WaitsAreUnderWay` of `LazyCapability`
(a flight under way is the current one of its capability, which is not made yet);
`NothingIsLeftBehind` of `DueWork` (a queue is exhausted only while it has no
eligible job that is not blocked); `ScreenHolds` of `QaConversation`.

To extend: quota buckets beside the receipts, the form and the purge of takedown
requests, Google sign-in with its one-time state, the waves of the indexing drain,
and the invariant of `QaConversation` that a question continues only a
conversation the service still has, once the hook makes it true.

## 8. What is not modelled, and why

- Connectors, safe fetch, HTTP routing, rendering and the client's other views are I/O
  or pure formatting. An executor, a provider call and a request appear in the
  models by their outcomes, a hang included. They are most of the repository's
  lines (the generated schemas and the client alone are more than a third), which
  is why the modules translate a small share of them all.
- Question compilation and retrieval are pure functions over text and keep no
  state.
- Rate limits and the budget of a pool may only deny, and a denial is an outcome
  every modelled request can have.
- Cron lifecycle events and audit rows are written and never read to decide
  anything; audit rows are written in the transactions that are modelled.
- Migrations, contract checks, seeds and evaluation scripts run outside the
  system.
- Of the modelled parts: deduplication, clusters and publication of a batch; the
  creation and search of sources; checkpoints and counters of jobs; quota buckets
  and the retention of chats; registration, expiry of sessions, Google sign-in and
  key rotation; the scope proposals of the question page, which the application
  never enables; role changes; the suppression record of a takedown; the report of
  the coordinator's next run; schema readiness; the wording of errors.
