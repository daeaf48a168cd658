---------------------------- MODULE IndexingJobs ----------------------------
(***************************************************************************)
(* Indexing work on ONE article: the indexingJobs and jobLeases documents  *)
(* of that article, the queue adapter that runs a job under the article's  *)
(* lease, the artifact processor it calls, lease recovery, the admin       *)
(* commands, and the writers outside the queue (ingestion, moderation, the *)
(* source's policy).  Articles share nothing but their source.             *)
(*                                                                         *)
(* A worker is one invocation of claimAndExecute with the artifact         *)
(* processor it leaves running when its deadline or its heartbeat ends the *)
(* wait.  Every repository call is one snapshot transaction and one step,  *)
(* its commit.  What it writes is as it was read, or the commit is         *)
(* refused; what it only reads, the cancellation of a job and the source,  *)
(* may have changed beside it: see `seen`.                                 *)
(* A lease may expire at any time (heartbeats fail); a call that judged it *)
(* with an older clock is a call made before it expired.                   *)
(*                                                                         *)
(* A provider's text is told from another by the job that wrote it; the    *)
(* input of an embedding includes the summary of its time, so an input is  *)
(* the article's content, the policy version and that job.                 *)
(***************************************************************************)
EXTENDS Integers, FiniteSets

CONSTANTS
    Job,            \* job documents that can ever be created
    Worker,         \* concurrent claimAndExecute invocations
    None,           \* absence of an owner, a parent, a text
    MaxAttempts,    \* attempts of a chain (3)
    MaxGeneration,  \* bound on acquires of the article's lease
    MaxContent,     \* bound on content versions of the article
    MaxPolicy,      \* bound on policy versions of its source
    Manual,         \* bound: tasks an admin creates jobs for
    Volatile,       \* bound: may its source be paused or reviewed?
    Moderated       \* bound: may the article be hidden and removed?

ASSUME IndexingAssumption ==
    /\ MaxAttempts \in Nat \ {0}
    /\ MaxGeneration \in Nat
    /\ MaxContent \in Nat \ {0}
    /\ MaxPolicy \in Nat \ {0}
    /\ Volatile \in BOOLEAN /\ Moderated \in BOOLEAN
    /\ Manual \subseteq {"summary", "embedding", "visibility-reconcile"}
    /\ IsFiniteSet(Job) /\ Cardinality(Job) >= 2
    /\ IsFiniteSet(Worker) /\ Worker # {}

VARIABLES
    highWater,  \* jobLeases.generationHighWater of the article
    owner,      \* jobLeases.activeOwner of the article
    job,        \* the article's indexingJobs
    article,    \* what its input depends on, and its two artifacts
    src,        \* its source: policy and reconciliation marker
    worker,     \* local state of each invocation
    seen,       \* outdated reads an open transaction of each may have made
    batch       \* and those of an open transaction of an ingestion

vars == <<highWater, owner, job, article, src, worker, seen, batch>>
lease == <<highWater, owner>>

Purpose == {"summary", "embedding"}
Task == Purpose \cup {"visibility-reconcile"}
Terminal == {"succeeded", "failed", "cancelled"}
\* In-place increments can pass MaxAttempts: one per invocation (see Defer).
Attempts == 1..(MaxAttempts + Cardinality(Worker) - 1)

Input == [content: 1..MaxContent, policy: 1..MaxPolicy, text: Job \cup {None}]

ASSUME NoneAssumption == None \notin Job \cup Input

Owner == [job: Job, gen: 1..MaxGeneration, live: BOOLEAN]
ASSUME NoOwnerAssumption == None \notin Owner

\* `made`: the content and the summary in an ingestion job's identity.
JobDocument ==
    [status: {"unused", "queued", "running"} \cup Terminal, task: Task,
     policy: 0..MaxPolicy, attempt: Attempts, parent: Job \cup {None},
     gen: 0..MaxGeneration, retryable: BOOLEAN, cancel: BOOLEAN,
     made: Input \cup {None}]

\* `of`: what it was made of; `text`: the job whose output it is.
Artifact ==
    [status: {"pending", "processing", "ready", "failed", "removed"},
     of: Input \cup {None}, text: Job \cup {None}]

Article ==
    [status: {"published", "hidden", "removed"}, content: 1..MaxContent,
     summary: Artifact, embedding: Artifact]

Stage == {"off", "capture", "mark", "provider", "reconcile"}
\* What the executor answered: "unattempted" and "durable" are retryable errors
\* of a call that never left, the second one with durableRecovery.
Results == {"pending", "succeeded", "cancelled", "unattempted", "durable",
            "retryable", "failed"}

WorkerState ==
    [pc: {"idle", "selected", "claiming", "checking", "running", "releasing",
          "deferring", "completing"},
     job: Job \cup {None}, attempt: Attempts, gen: 0..MaxGeneration,
     exec: Stage, input: Input \cup {None}, aborted: BOOLEAN, result: Results]

\* What a transaction reads of the source; and, for an invocation, of its job.
SourcePolicy == [version: 1..MaxPolicy, active: BOOLEAN, allows: SUBSET Purpose]
Reading == [cancel: BOOLEAN, source: SourcePolicy]

DocumentsOK ==
    /\ highWater \in 0..MaxGeneration
    /\ owner \in Owner \cup {None}
    /\ job \in [Job -> JobDocument]
    /\ article \in Article
    /\ src \in [version: 1..MaxPolicy, active: BOOLEAN, licensed: BOOLEAN,
                allows: SUBSET Purpose, marked: BOOLEAN]
    /\ worker \in [Worker -> WorkerState]

TypeOK ==
    /\ DocumentsOK
    /\ seen \in [Worker -> SUBSET Reading]
    /\ batch \in SUBSET SourcePolicy

Blank(status) == [status |-> status, of |-> None, text |-> None]
Idle == [pc |-> "idle", job |-> None, attempt |-> 1, gen |-> 0, exec |-> "off",
         input |-> None, aborted |-> FALSE, result |-> "pending"]

NoDocument == [status |-> "unused", task |-> "summary", policy |-> 0, attempt |-> 1,
               parent |-> None, gen |-> 0, retryable |-> FALSE, cancel |-> FALSE,
               made |-> None]

-----------------------------------------------------------------------------
(* Shared vocabulary *)

\* The text an embedding would be made from now.
SummaryText == IF article.summary.status = "ready" THEN article.summary.text ELSE None

\* buildPolicyDerivedInput for the article as it is, under a version of the policy.
InputUnder(version, purpose) ==
    [content |-> article.content, policy |-> version,
     text |-> IF purpose = "embedding" THEN SummaryText ELSE None]
InputNow(purpose) == InputUnder(src.version, purpose)

Permits(policy, purpose) == policy.active /\ purpose \in policy.allows
Allowed(purpose) == Permits(src, purpose)

Unused == {j \in Job : job[j].status = "unused"}

\* The documents `jobs` and a set of new ones, each in an unused slot: inserts
\* of one transaction.
Filled(jobs, new, unused) ==
    LET slot == CHOOSE f \in [new -> unused] : \A a, b \in new : a # b => f[a] # f[b]
    IN  [j \in Job |-> IF \E d \in new : slot[d] = j
                      THEN CHOOSE d \in new : slot[d] = j ELSE jobs[j]]

\* Not enabled when the bound on jobs is reached.
InsertAll(jobs, new) ==
    /\ Cardinality(new) <= Cardinality(Unused)
    /\ job' = Filled(jobs, new, Unused)

Queued(task, made, version) ==
    [NoDocument EXCEPT !.status = "queued", !.task = task, !.policy = version,
                       !.made = made]

\* $setOnInsert by actorScope and idempotencyKey: an identity used before, by a
\* job in any state, inserts nothing.
IngestionJobs(tasks, made) ==
    {Queued(t, made, made.policy) : t \in {u \in tasks :
        \A j \in Job : ~(job[j].task = u /\ job[j].made = made)}}

Fenced(w) ==
    /\ owner # None /\ owner.live
    /\ owner.job = worker[w].job /\ owner.gen = worker[w].gen

\* Fault: a call looks at its job, not at the lease.
OwnsByJob(w) == job[worker[w].job].status = "running"

Owns(w) ==
    /\ Fenced(w)
    /\ job[worker[w].job].status = "running"
    /\ job[worker[w].job].gen = worker[w].gen

\* What a transaction that commits now may have read.
PolicyNow == [version |-> src.version, active |-> src.active, allows |-> src.allows]
Now(w) == [cancel |-> job[worker[w].job].cancel, source |-> PolicyNow]
Reads(w) == seen[w] \cup {Now(w)}

\* commitArtifact: may w write its artifact now, when it has read that its job's
\* cancellation was (or was not) requested?  The lease and the article are written,
\* and so are as they are now; the job and the source are only read.
Writable(w, read, cancelled) ==
    LET j == worker[w].job IN
    /\ Owns(w)
    /\ read.cancel = cancelled
    /\ job[j].policy = read.source.version
    /\ Permits(read.source, job[j].task)
    /\ article.status = "published"
    /\ InputUnder(read.source.version, job[j].task) = worker[w].input
SetArtifact(w, artifact) == article' = [article EXCEPT ![job[worker[w].job].task] = artifact]

Is(w, pc) == worker[w].pc = pc
Go(w, pc) == worker' = [worker EXCEPT ![w].pc = pc]

\* The invocation returns; the processor may still be at work, its signal aborted.
Return(w) ==
    worker' = [worker EXCEPT ![w] =
        IF worker[w].exec = "off" THEN Idle
        ELSE [worker[w] EXCEPT !.pc = "idle", !.aborted = TRUE, !.result = "failed"]]

\* shouldDeferOutcome: it looks at the attempt of the candidate, not of the job.
Defers(w, result) ==
    \/ result = "durable"
    \/ result = "unattempted" /\ worker[w].attempt < MaxAttempts

\* The processor ends with `result`; an invocation that still waits acts on it.
Finish(w, result) ==
    worker' = [worker EXCEPT ![w] =
        IF worker[w].pc = "idle" THEN Idle
        ELSE IF worker[w].pc # "running" THEN [worker[w] EXCEPT !.exec = "off", !.input = None]
        ELSE [worker[w] EXCEPT !.exec = "off", !.input = None, !.result = result,
                               !.pc = IF Defers(w, result) THEN "deferring" ELSE "completing"]]

Init ==
    /\ highWater = 0
    /\ owner = None
    /\ article = [status |-> "published", content |-> 1,
                  summary |-> Blank("pending"), embedding |-> Blank("pending")]
    /\ src = [version |-> 1, active |-> TRUE, licensed |-> TRUE, allows |-> Purpose,
              marked |-> FALSE]
    /\ worker = [w \in Worker |-> Idle]
    /\ seen = [w \in Worker |-> {}]
    /\ batch = {}
    /\ LET document == [NoDocument EXCEPT !.status = "queued", !.policy = 1,
                           !.made = [content |-> 1, policy |-> 1, text |-> None]]
       IN  job = Filled([j \in Job |-> NoDocument],
                        {[document EXCEPT !.task = t] : t \in Purpose}, Job)

-----------------------------------------------------------------------------
(* The queue adapter: claimAndExecute *)

\* selectDueIndexing; the drain selects a wave and runs it later, so the
\* candidate is a copy that grows old.  When a job is due is left open.
Select(w, j) ==
    /\ worker[w] = Idle
    /\ job[j].status = "queued"
    /\ worker' = [worker EXCEPT ![w] = [Idle EXCEPT !.pc = "selected", !.job = j,
                                                   !.attempt = job[j].attempt]]
    /\ UNCHANGED <<lease, job, article, src>>

Acquire(w) ==
    /\ Is(w, "selected")
    /\ owner = None
    /\ highWater < MaxGeneration
    /\ highWater' = highWater + 1
    /\ owner' = [job |-> worker[w].job, gen |-> highWater', live |-> TRUE]
    /\ worker' = [worker EXCEPT ![w].pc = "claiming", ![w].gen = highWater']
    /\ UNCHANGED <<job, article, src>>

\* The article is leased, the deadline has passed or the signal is aborted.
NotAdmitted(w) ==
    /\ Is(w, "selected")
    /\ worker' = [worker EXCEPT ![w] = Idle]
    /\ UNCHANGED <<lease, job, article, src>>

\* claimQueuedWithFence.  The claim commits, but the invocation may learn it too
\* late (it defers the job) or never: the cleanup of the session failed, which
\* it takes for a claim that failed.
Claim(w) ==
    /\ Is(w, "claiming")
    /\ Fenced(w)
    /\ job[worker[w].job].status = "queued"
    /\ job' = [job EXCEPT ![worker[w].job].status = "running",
                          ![worker[w].job].gen = worker[w].gen]
    /\ \E pc \in {"checking", "deferring", "releasing"} : Go(w, pc)
    /\ UNCHANGED <<lease, article, src>>

\* The fence is stale, the job is no longer queued, or the deadline has passed.
ClaimFails(w) ==
    /\ Is(w, "claiming")
    /\ Go(w, "releasing")
    /\ UNCHANGED <<lease, job, article, src>>

\* releaseLease: matches nothing when the lease is another's or expired.
Release(w) ==
    /\ Is(w, "releasing")
    /\ owner' = IF Fenced(w) THEN None ELSE owner
    /\ Return(w)
    /\ UNCHANGED <<highWater, job, article, src>>

\* cancellationRequestedWithFence before the executor is called.
Start(w) ==
    /\ Is(w, "checking")
    /\ Owns(w)
    /\ worker' = [worker EXCEPT ![w] =
          IF job[worker[w].job].cancel
          THEN [worker[w] EXCEPT !.pc = "completing", !.result = "cancelled"]
          ELSE [worker[w] EXCEPT !.pc = "running", !.exec = "capture"]]
    /\ UNCHANGED <<lease, job, article, src>>

\* The wait ends at the deadline; the processor is told to stop, and goes on.
DeadlineFires(w) ==
    /\ Is(w, "running")
    /\ worker' = [worker EXCEPT ![w].pc = "completing", ![w].aborted = TRUE,
                                ![w].result = "failed"]
    /\ UNCHANGED <<lease, job, article, src>>

\* A heartbeat failed: the invocation throws and leaves its job to recovery.
HeartbeatLost(w) ==
    /\ Is(w, "running")
    /\ Return(w)
    /\ UNCHANGED <<lease, job, article, src>>

\* completeWithFence: it writes the job and its lease, and reads the source.
Complete(w) ==
    LET j == worker[w].job
        stale(policy) == \/ job[j].policy # policy.version
                         \/ job[j].task # "visibility-reconcile" /\ ~policy.active
        status(policy) ==
            IF stale(policy) \/ worker[w].result \notin {"succeeded", "cancelled"} THEN "failed"
            ELSE worker[w].result
    IN  /\ Is(w, "completing")
        /\ Owns(w)
        /\ \E read \in Reads(w) :
             job' = [job EXCEPT ![j].status = status(read.source),
               ![j].retryable = /\ ~stale(read.source)
                                /\ worker[w].result \in {"retryable", "unattempted"}]
        /\ owner' = None
        /\ Return(w)
        /\ UNCHANGED <<highWater, article, src>>

\* deferWithFence: back to the queue, one attempt used unless the outcome says
\* the provider will be available again (or the claim was late).
Defer(w) ==
    LET j == worker[w].job
        more == IF worker[w].result = "unattempted" THEN 1 ELSE 0
    IN  /\ Is(w, "deferring")
        /\ Owns(w)
        /\ job' = [job EXCEPT ![j] =
              IF job[j].cancel THEN [job[j] EXCEPT !.status = "cancelled"]
              ELSE [job[j] EXCEPT !.status = "queued", !.gen = 0,
                                  !.attempt = job[j].attempt + more]]
        /\ owner' = None
        /\ Return(w)
        /\ UNCHANGED <<highWater, article, src>>

\* A bounded mutation is refused by the fence, or does not answer in time.
Unresolved(w) ==
    /\ worker[w].pc \in {"releasing", "checking", "deferring", "completing"}
    /\ Return(w)
    /\ UNCHANGED <<lease, job, article, src>>

\* The process ends, and the processor with it.
Crash(w) ==
    /\ worker[w] # Idle
    /\ worker' = [worker EXCEPT ![w] = Idle]
    /\ UNCHANGED <<lease, job, article, src>>

-----------------------------------------------------------------------------
(* The artifact processor *)

\* throwIfAborted, and the catch clause of an aborted signal: nothing is written.
Abandon(w) ==
    /\ worker[w].exec # "off"
    /\ worker[w].aborted
    /\ Finish(w, "failed")
    /\ UNCHANGED <<lease, job, article, src>>

\* The article and its source are read, and the input is built.
Capture(w) ==
    LET j == worker[w].job
        task == job[j].task
        unusable == article.status = "removed" \/ job[j].policy # src.version
    IN  /\ worker[w].exec = "capture"
        /\ UNCHANGED <<lease, job, article, src>>
        /\ \/ unusable /\ Finish(w, "failed")
           \/ /\ ~unusable /\ task = "visibility-reconcile"
              /\ worker' = [worker EXCEPT ![w].exec = "reconcile"]
           \/ ~unusable /\ task \in Purpose /\ ~Allowed(task) /\ Finish(w, "failed")
           \/ /\ ~unusable /\ task \in Purpose /\ Allowed(task)
              /\ IF article[task].status = "ready" /\ article[task].of = InputNow(task)
                 THEN Finish(w, "succeeded")
                 ELSE worker' = [worker EXCEPT ![w].exec = "mark",
                                               ![w].input = InputNow(task)]

\* What a policy leaves of an artifact.
KeptUnder(policy, purpose) ==
    IF /\ Permits(policy, purpose) /\ article[purpose].status = "ready"
       /\ article[purpose].of.policy = policy.version
    THEN article[purpose]
    ELSE Blank(IF Permits(policy, purpose) THEN "pending" ELSE "removed")

\* reconcileArticleVisibility: like an artifact's commit, it only reads the source.
Reconcile(w) ==
    /\ worker[w].exec = "reconcile"
    /\ \E policy \in {read.source : read \in Reads(w)} :
         IF /\ Owns(w) /\ article.status # "removed"
            /\ job[worker[w].job].policy = policy.version
         THEN /\ article' = [article EXCEPT
                    !.status = IF policy.active THEN article.status ELSE "hidden",
                    !.summary = KeptUnder(policy, "summary"),
                    !.embedding = KeptUnder(policy, "embedding")]
              /\ Finish(w, "succeeded")
         ELSE Finish(w, "failed") /\ UNCHANGED article
    /\ UNCHANGED <<lease, job, src>>

\* The cancellation is read once more, then markArtifactProcessing.
Mark(w) ==
    /\ worker[w].exec = "mark"
    /\ UNCHANGED <<lease, job, src>>
    /\ \E read \in Reads(w) :
         \/ /\ Owns(w) /\ read.cancel
            /\ Finish(w, "cancelled")
            /\ UNCHANGED article
         \/ /\ Writable(w, read, FALSE)
            /\ SetArtifact(w, Blank("processing"))
            /\ worker' = [worker EXCEPT ![w].exec = "provider"]
         \/ /\ ~Writable(w, read, FALSE)
            /\ Finish(w, "failed")
            /\ UNCHANGED article

\* Fault: the successor's identity does not hold the summary.
OwedOnce(w, read) ==
    IF job[worker[w].job].task = "summary" /\ Permits(read.source, "embedding")
    THEN IngestionJobs({"embedding"}, worker[w].input) ELSE {}

\* A new summary owes a new embedding, under the policy that was read with it.
OwedBy(w, read) ==
    IF job[worker[w].job].task = "summary" /\ Permits(read.source, "embedding")
    THEN IngestionJobs({"embedding"}, [worker[w].input EXCEPT !.text = worker[w].job]) ELSE {}

\* The provider's answer is committed, with what it owes.
Answer(w) ==
    /\ worker[w].exec = "provider"
    /\ \E read \in Reads(w) : Writable(w, read, FALSE) /\ InsertAll(job, OwedBy(w, read))
    /\ SetArtifact(w, [status |-> "ready", of |-> worker[w].input, text |-> worker[w].job])
    /\ Finish(w, "succeeded")
    /\ UNCHANGED <<lease, src>>

\* The provider fails: a call that never left gives the artifact back.
ProviderFails(w) ==
    /\ worker[w].exec = "provider"
    /\ \E read \in Reads(w) : Writable(w, read, FALSE)
    /\ \E result \in {"unattempted", "durable", "retryable", "failed"} :
         /\ SetArtifact(w, Blank(IF result \in {"unattempted", "durable"}
                                 THEN "pending" ELSE "failed"))
         /\ Finish(w, result)
    /\ UNCHANGED <<lease, job, src>>

\* resetCancelledArtifact.
AnswerCancelled(w) ==
    /\ worker[w].exec = "provider"
    /\ \E read \in Reads(w) : Writable(w, read, TRUE)
    /\ SetArtifact(w, Blank("pending"))
    /\ Finish(w, "cancelled")
    /\ UNCHANGED <<lease, job, src>>

\* Fault: a commit that wrote nothing is taken for one that did.
AnswerUnheard(w) ==
    /\ worker[w].exec = "provider"
    /\ \E read \in Reads(w) : ~Writable(w, read, FALSE)
    /\ Finish(w, "succeeded")
    /\ UNCHANGED <<lease, job, article, src>>

\* artifact_commit_stale, or a cancellation check the fence refuses.
AnswerStale(w) ==
    /\ worker[w].exec = "provider"
    /\ \E read \in Reads(w) : ~Writable(w, read, FALSE)
    /\ Finish(w, "failed")
    /\ UNCHANGED <<lease, job, article, src>>

-----------------------------------------------------------------------------
(* Lease recovery and the admin *)

Expire ==
    /\ owner # None /\ owner.live
    /\ owner' = [owner EXCEPT !.live = FALSE]
    /\ UNCHANGED <<highWater, job, article, src, worker>>

\* Fault: only an owner whose job runs is cleared.
RecoverRunning ==
    LET j == owner.job
        parent == job[j]
        ended == [job EXCEPT ![j].status = IF parent.cancel THEN "cancelled" ELSE "failed",
                             ![j].retryable = ~parent.cancel]
    IN  /\ owner # None /\ ~owner.live
        /\ parent.status = "running" /\ parent.gen = owner.gen
        /\ owner' = None
        /\ job' = ended
        /\ UNCHANGED <<highWater, article, src, worker>>

\* recoverExpiredIndexing: one transaction ends the expired owner's job, links a
\* retry to it, gives its artifact back and clears the owner.
Recover ==
    LET j == owner.job
        parent == job[j]
        found == parent.status = "running" /\ parent.gen = owner.gen
        retry == found /\ ~parent.cancel /\ parent.attempt < MaxAttempts
        child == [parent EXCEPT !.status = "queued", !.attempt = parent.attempt + 1,
                                !.parent = j, !.gen = 0, !.cancel = FALSE, !.made = None]
        ended == [job EXCEPT ![j].status = IF parent.cancel THEN "cancelled" ELSE "failed",
                             ![j].retryable = ~parent.cancel]
        stuck == /\ found /\ parent.task \in Purpose /\ article.status = "published"
                 /\ article[parent.task].status = "processing"
    IN  /\ owner # None /\ ~owner.live
        /\ owner' = None
        /\ IF found THEN InsertAll(ended, IF retry THEN {child} ELSE {}) ELSE UNCHANGED job
        /\ article' = IF stuck
                      THEN [article EXCEPT ![parent.task] =
                              Blank(IF retry \/ parent.cancel THEN "pending" ELSE "failed")]
                      ELSE article
        /\ UNCHANGED <<highWater, src, worker>>

\* cancelIndexingJob.
Cancel(j) ==
    /\ job[j].status \in {"queued", "running"}
    /\ job' = [job EXCEPT ![j] =
          IF job[j].status = "queued" THEN [job[j] EXCEPT !.status = "cancelled"]
          ELSE [job[j] EXCEPT !.cancel = TRUE]]
    /\ UNCHANGED <<lease, article, src, worker>>

\* retryIndexingJob: unique by parent and attempt.  The retry takes the policy of
\* its time.
Retry(j) ==
    LET child == [Queued(job[j].task, None, src.version) EXCEPT !.attempt = job[j].attempt + 1, !.parent = j]
    IN  /\ job[j].status = "failed" /\ job[j].retryable
        /\ job[j].attempt < MaxAttempts
        /\ article.status # "removed" /\ src.active
        /\ \A k \in Job : ~(job[k].parent = j /\ job[k].attempt = child.attempt)
        /\ InsertAll(job, {child})
        /\ UNCHANGED <<lease, article, src, worker>>

\* createSummaryJob and createIndexingJob.
Create(task) ==
    /\ task \in Manual
    /\ article.status # "removed" /\ src.active
    /\ InsertAll(job, {Queued(task, None, src.version)})
    /\ UNCHANGED <<lease, article, src, worker>>

-----------------------------------------------------------------------------
(* Writers outside the queue *)

\* commitIngestionBatch merges the item again, with or without something new,
\* and enqueues the work on the article as it then is, under the policy it read.
Ingest ==
    /\ article.status # "removed"
    /\ \E policy \in batch \cup {PolicyNow},
          content \in {article.content, article.content + 1} \cap 1..MaxContent :
         LET made == [content |-> content, policy |-> policy.version, text |-> SummaryText] IN
         /\ policy.active
         /\ article' = [article EXCEPT !.content = content]
         /\ InsertAll(job, IF article.status = "published"
                           THEN IngestionJobs(policy.allows, made) ELSE {})
    /\ UNCHANGED <<lease, src, worker>>

\* A takedown hides the article whatever its jobs are doing.
Hide ==
    /\ Moderated
    /\ article.status # "removed"
    /\ article' = [article EXCEPT !.status = "hidden"]
    /\ UNCHANGED <<lease, job, src, worker>>

\* Its cleanup removes artifacts, or leaves a tombstone.
Cleanup ==
    /\ Moderated
    /\ article.status = "hidden"
    /\ \/ \E gone \in (SUBSET Purpose) \ {{}} :
            article' = [article EXCEPT
              !.summary = IF "summary" \in gone THEN Blank("removed") ELSE article.summary,
              !.embedding = IF "embedding" \in gone THEN Blank("removed") ELSE article.embedding]
       \/ article' = [article EXCEPT !.status = "removed", !.summary = Blank("removed"),
                                     !.embedding = Blank("removed")]
    /\ UNCHANGED <<lease, job, src, worker>>

\* requestPolicyReReview pauses an active source; reviewSourcePolicy decides anew.
ReReview ==
    /\ Volatile
    /\ src.version < MaxPolicy
    /\ src' = [version |-> src.version + 1, active |-> FALSE, licensed |-> FALSE,
               allows |-> {}, marked |-> TRUE]
    /\ UNCHANGED <<lease, job, article, worker>>

Review ==
    /\ Volatile
    /\ ~src.active
    /\ src.version < MaxPolicy
    /\ \E licensed \in BOOLEAN, allows \in SUBSET Purpose :
         src' = [version |-> src.version + 1, active |-> FALSE, licensed |-> licensed,
                 allows |-> allows, marked |-> TRUE]
    /\ UNCHANGED <<lease, job, article, worker>>

\* transitionOperationalStatus: the policy version stays.
PauseOrActivate ==
    /\ Volatile
    /\ src.active \/ src.licensed
    /\ src' = [src EXCEPT !.active = ~src.active]
    /\ UNCHANGED <<lease, job, article, worker>>

\* materializeReconciliationPage: the article's page of the marked version.
Materialize ==
    /\ src.marked
    /\ src' = [src EXCEPT !.marked = FALSE]
    /\ InsertAll(job, {Queued(t, None, src.version) :
                         t \in {"visibility-reconcile"} \cup {p \in Purpose : Allowed(p)}})
    /\ UNCHANGED <<lease, article, worker>>

-----------------------------------------------------------------------------
Queue(w) ==
    \/ \E j \in Job : Select(w, j)
    \/ Acquire(w) \/ NotAdmitted(w) \/ Claim(w) \/ ClaimFails(w) \/ Release(w)
    \/ Start(w) \/ DeadlineFires(w) \/ HeartbeatLost(w)
    \/ Complete(w) \/ Defer(w) \/ Unresolved(w)

Processor(w) ==
    \/ Abandon(w) \/ Capture(w) \/ Reconcile(w) \/ Mark(w)
    \/ Answer(w) \/ ProviderFails(w) \/ AnswerCancelled(w) \/ AnswerStale(w)

AdminStep ==
    \/ \E j \in Job : Cancel(j) \/ Retry(j)
    \/ \E task \in Task : Create(task)

Outside == Hide \/ Cleanup \/ ReReview \/ Review \/ PauseOrActivate \/ Materialize

Step ==
    \/ \E w \in Worker : Queue(w) \/ Processor(w) \/ Crash(w)
    \/ Expire \/ Recover
    \/ AdminStep \/ Outside

\* An artifact's commit writes the lease and the article, a completion the lease and
\* the job: a step that writes one of these as well refuses the transaction, which
\* begins anew.  Any other step it does not notice.
InTransaction(w) ==
    worker[w].exec \in {"mark", "provider", "reconcile"} \/ worker[w].pc = "completing"

Unnoticed(w, written) ==
    /\ InTransaction(w) /\ worker'[w].exec = worker[w].exec
    /\ highWater' = highWater /\ (owner' = None <=> owner = None)
    /\ IF worker[w].exec # "off" THEN ~written
       ELSE worker'[w] = worker[w] /\ job'[worker[w].job] = job[worker[w].job]

\* What was read before the step goes on being what an open transaction has read;
\* `written`: the step writes the article.
Snapshots(written) ==
    /\ seen' = [w \in Worker |-> IF Unnoticed(w, written) THEN Reads(w) \ {Now(w)'} ELSE {}]
    /\ batch' = IF written THEN {}
                ELSE {p \in batch \cup {PolicyNow} : p.active} \ {PolicyNow'}

\* A step beside the transactions that are open.
Beside(A) == A /\ Snapshots(article' # article)

Next == Beside(Step) \/ (Ingest /\ Snapshots(TRUE))

Spec == Init /\ [][Next]_vars

\* Nobody renews the lease: its invocation has returned, or never came back.
Unattended ==
    /\ owner # None
    /\ \A w \in Worker : ~(worker[w].pc # "idle" /\ worker[w].gen = owner.gen)

\* Every wait of an invocation has a deadline, a lease nobody renews expires, and
\* cron keeps starting runs, which recover before they claim.
Fairness ==
    /\ \A w \in Worker : WF_vars(Beside(Queue(w))) /\ WF_vars(Beside(Processor(w)))
    /\ WF_vars(Beside(Unattended /\ Expire))
    /\ WF_vars(Beside(Recover))

FairSpec == Spec /\ Fairness

-----------------------------------------------------------------------------
(* Properties *)

\* A visible article whose embedding was made from an older summary has an
\* embedding job for the new one that has not succeeded: commitSummaryArtifact
\* enqueues it in its own transaction, whatever happens to the invocation.
StaleEmbeddingIsOwed ==
    (/\ article.status = "published"
     /\ Allowed("embedding")
     /\ article.summary.status = "ready"
     /\ article.embedding.status = "ready"
     /\ article.embedding.of.policy = src.version
     /\ article.summary.of.policy = src.version
     /\ article.embedding.of.text # article.summary.text)
    => \E j \in Job : /\ job[j].task = "embedding"
                      /\ job[j].status # "succeeded"
                      /\ job[j].made # None /\ job[j].made.text = article.summary.text

LateOutputStep ==
    \A p \in Purpose :
      article'[p].status = "ready" /\ article'[p] # article[p] =>
        LET j == article'[p].text IN
          /\ article.status = "published"
          /\ article'[p].of = InputUnder(job[j].policy, p)
          /\ job[j].status = "running"
          /\ owner # None /\ owner.live /\ owner.job = j /\ owner.gen = job[j].gen
          /\ \E w \in Worker :
               /\ worker[w].job = j /\ worker[w].gen = owner.gen
               /\ \E read \in Reads(w) :
                    /\ ~read.cancel
                    /\ read.source.version = job[j].policy /\ Permits(read.source, p)

\* A text reaches the article only from a job that runs, holds the article's lease
\* and saw the article as it is: late output of a processor nobody waits for is
\* dropped.  That its job was not cancelled, and that the policy permitted it, it has
\* read in its transaction: either may have changed beside it.
LateOutputIsDropped == [][LateOutputStep]_vars

\* A text that is visible under an older policy is still to be reconciled: it was
\* there when the policy changed or was committed beside the change, and in both
\* cases the version's reconciliation of the article is yet to be done.
OldTextIsReconciled ==
    (/\ article.status = "published"
     /\ \E p \in Purpose : article[p].status = "ready" /\ article[p].of.policy # src.version)
    => \/ src.marked
       \/ \E j \in Job : /\ job[j].task = "visibility-reconcile"
                         /\ job[j].policy = src.version /\ job[j].status # "succeeded"

\* A job succeeds only when the visible article has its artifact, under the
\* policy the job was made for.
SuccessStep ==
    \A j \in Job :
      (/\ job[j].status = "running" /\ job'[j].status = "succeeded"
       /\ job[j].task \in Purpose /\ article.status = "published")
      => /\ article[job[j].task].status = "ready"
         /\ article[job[j].task].of.policy = job[j].policy

\* A cancellation is never forgotten: the job never goes back to the queue.
CancellationStep ==
    \A j \in Job : job[j].cancel =>
      /\ job'[j].cancel /\ job'[j].status # "queued"

\* An expired lease is the only one recovery takes: a job runs until its own
\* invocation ends it or its lease has expired.
TakingStep ==
    \A j \in Job :
      (/\ owner # None /\ owner.live /\ owner.job = j /\ job[j].status = "running"
       /\ job'[j].status # "running")
      => \E w \in Worker : /\ worker[w].job = j /\ worker[w].gen = job[j].gen
                           /\ worker[w].pc \in {"completing", "deferring"}

\* However a job ends, the end is earned: a success by its artifact, and any end of
\* a job under a live lease by its own invocation; a cancellation stays asked for.
EndsAreEarned == [][SuccessStep /\ CancellationStep /\ TakingStep]_vars

\* A lease always comes back to the pool, whoever died with it.
ArticleComesBack == owner # None ~> owner = None

\* A running job whose lease was released or superseded is recovered too
\* (docs/TECHNICAL-DESIGN.md, 388; docs/PRD.md, 290).
RunningIndexingEnds ==
    \A j \in Job : job[j].status = "running" ~> job[j].status # "running"
=============================================================================
