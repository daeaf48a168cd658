--------------------------- MODULE IngestionJobs ---------------------------
(***************************************************************************)
(* Durable ingestion work: the ingestionJobs and jobLeases collections,    *)
(* the queue adapter that claims and runs a job under a fenced lease, the  *)
(* two-phase recovery of the due-work coordinator, and the admin commands. *)
(*                                                                         *)
(* A worker is one invocation of claimAndExecute, with the calls it leaves *)
(* in flight when it returns.  Every repository method is one transaction, *)
(* and one step, its commit.  What it writes is as it was read, or the     *)
(* commit is refused; a source, which it only reads, may have changed      *)
(* beside it (see `seen`), and expiry is judged with a clock read earlier. *)
(* Time is relative: a lease has `ttl` ticks left (zero or less: expired)  *)
(* and a call has an `age`, the ticks since it read its clock, so that     *)
(* "expiresAt > now" reads ttl + age > 0.  maxTimeMS bounds a call, here   *)
(* by MaxLatency ticks, so ttl is not counted below -MaxLatency: no call   *)
(* in flight can tell the difference.                                      *)
(*                                                                         *)
(* The owner token is random per acquire and generations are unique per    *)
(* lease key, so equal generations stand for equal tokens.                 *)
(***************************************************************************)
EXTENDS Integers, FiniteSets

CONSTANTS
    Source,         \* ingestion sources: one lease key each
    Job,            \* job documents that can ever be created
    Worker,         \* concurrent claimAndExecute invocations
    Recoverer,      \* concurrent due-work runs, in their recovery loop
    Admin,          \* admin requests that can be in flight
    Key,            \* idempotency keys of admin requests
    Volatile,       \* bound: the sources whose document changes during a run
    None,           \* absence of an owner, a parent, a key, a request
    Purgeable,      \* bound: the jobs whose retention can end during a run
    MaxAttempts,    \* attempts of a chain (3)
    LeaseTicks,     \* leaseMs
    MaxLatency,     \* bound on the age of a clock: maxTimeMS of a call, budgetMs of a recovery
    DeferTicks,     \* delayMs of deferWithFence
    MaxGeneration,  \* bound on acquires per source
    MaxPolicy       \* bound on source policy versions

ASSUME BoundsAssumption ==
    /\ MaxAttempts \in Nat \ {0}
    /\ LeaseTicks \in Nat \ {0}
    /\ MaxLatency \in Nat
    /\ DeferTicks \in Nat
    /\ MaxGeneration \in Nat
    /\ MaxPolicy \in Nat \ {0}
    /\ Volatile \subseteq Source
    /\ Purgeable \subseteq Job

VARIABLES
    highWater,  \* jobLeases.generationHighWater, per source
    owner,      \* jobLeases.activeOwner, per source
    job,        \* ingestionJobs
    older,      \* running jobs with an earlier updatedAt, per running job
    src,        \* the source document: policy version and the gates on it
    worker,     \* local state of each invocation
    rec,        \* local state of each recovery loop
    request,    \* the job an admin request has built and not yet inserted
    written,    \* history: the fence of the last article batch, per source
    seen        \* outdated reads an open transaction of each worker may have made

documents == <<highWater, owner, job, older, src, worker, rec, request, written>>
vars == <<documents, seen>>
stores == <<highWater, owner, job, older, written>>

NoBeat == -1

Terminal == {"succeeded", "failed", "cancelled"}
Results == {"pending", "succeeded", "retryable", "final", "heartbeat_lost", "fence_stale"}
Calls == {"claiming", "releasing", "completing", "finalizing", "deferring"}

Owner == [job: Job, gen: 1..MaxGeneration, ttl: -MaxLatency..LeaseTicks]

ASSUME NoneAssumption == None \notin Job \cup Key \cup Owner

JobDocument ==
    [status: {"unused", "queued", "running", "purged"} \cup Terminal,
     source: Source, attempt: 0..MaxAttempts, parent: Job \cup {None},
     gen: 0..MaxGeneration, policy: 0..MaxPolicy, key: Key \cup {None},
     retryable: BOOLEAN, cancel: BOOLEAN, wait: 0..DeferTicks]

SourceDocument ==
    [version: 1..MaxPolicy, active: BOOLEAN, licensed: BOOLEAN, checked: BOOLEAN]

WorkerState ==
    [pc: {"idle", "selected", "running"} \cup Calls, job: Job \cup {None},
     gen: 0..MaxGeneration, age: 0..MaxLatency, beat: {NoBeat} \cup (0..MaxLatency),
     exec: {"off", "fetching", "committing"}, result: Results]

RecovererState ==
    [pc: {"idle", "listing", "lease", "orphan"}, job: Job \cup {None},
     gen: 0..MaxGeneration, age: 0..MaxLatency]

Request ==
    [key: Key, source: Source, policy: 1..MaxPolicy, parent: Job \cup {None},
     attempt: 1..MaxAttempts]

\* What a transaction reads and does not write: whether there is a source that
\* permits its job, and its clock.
Reading == [permitted: BOOLEAN, age: 0..MaxLatency]

DocumentsOK ==
    /\ highWater \in [Source -> 0..MaxGeneration]
    /\ owner \in [Source -> Owner \cup {None}]
    /\ job \in [Job -> JobDocument]
    /\ older \in [Job -> SUBSET Job]
    /\ src \in [Source -> SourceDocument]
    /\ worker \in [Worker -> WorkerState]
    /\ rec \in [Recoverer -> RecovererState]
    /\ request \in [Admin -> Request \cup {None}]
    /\ written \in [Source -> [job: Job \cup {None}, gen: 0..MaxGeneration]]

TypeOK == DocumentsOK /\ seen \in [Worker -> SUBSET Reading]

Idle == [pc |-> "idle", job |-> None, gen |-> 0, age |-> 0, beat |-> NoBeat,
         exec |-> "off", result |-> "pending"]
Resting == [pc |-> "idle", job |-> None, gen |-> 0, age |-> 0]
NoDocument(s) ==
    [status |-> "unused", source |-> s, attempt |-> 0, parent |-> None, gen |-> 0,
     policy |-> 0, key |-> None, retryable |-> FALSE, cancel |-> FALSE, wait |-> 0]

Init ==
    /\ highWater = [s \in Source |-> 0]
    /\ owner = [s \in Source |-> None]
    /\ \E s \in Source : job = [j \in Job |-> NoDocument(s)]
    /\ older = [j \in Job |-> {}]
    /\ src = [s \in Source |-> [version |-> 1, active |-> TRUE, licensed |-> TRUE,
                                checked |-> TRUE]]
    /\ worker = [w \in Worker |-> Idle]
    /\ rec = [r \in Recoverer |-> Resting]
    /\ request = [a \in Admin |-> None]
    /\ written = [s \in Source |-> [job |-> None, gen |-> 0]]
    /\ seen = [w \in Worker |-> {}]

-----------------------------------------------------------------------------
(* Shared vocabulary *)

Unused == {j \in Job : job[j].status = "unused"}
NewJob == CHOOSE j \in Job : job[j].status = "unused"
Stored(j) == job[j].status \notin {"unused", "purged"}
Running == {j \in Job : job[j].status = "running"}
Due == {j \in Job : job[j].status = "queued" /\ job[j].wait = 0}

\* What a source must be for a job of policy version v to run (the claim of the
\* connector type and license is one gate here, the technical check another).
Licensed(source, v) == source.active /\ source.licensed /\ source.version = v
Eligible(source, v) == Licensed(source, v) /\ source.checked

\* activeOwner is exactly this job at this generation.
OwnedBy(j, g) ==
    LET o == owner[job[j].source] IN o # None /\ o.job = j /\ o.gen = g
\* ... and, by a clock read `age` ticks ago, it has not expired.
Fenced(j, g, age) == OwnedBy(j, g) /\ owner[job[j].source].ttl + age > 0

\* Fault: attempts are told apart by their generation alone.
AnyStatusAs(j, g) == job[j].gen = g

RunningAs(j, g) == job[j].status = "running" /\ job[j].gen = g

\* The source query of a batch, or of a completion (one that leaves a batch in
\* flight fails its job whatever it finds).
Permitted(w) ==
    LET j == worker[w].job
        source == src[job[j].source] IN
    IF worker[w].exec = "committing" THEN Eligible(source, job[j].policy)
    ELSE Licensed(source, job[j].policy)

\* What the transaction that w commits now may have read.
Now(w) == [permitted |-> Permitted(w), age |-> 0]
Reads(w) == seen[w] \cup {Now(w)}

LeaseExpired(s, age) == owner[s] # None /\ owner[s].ttl + age <= 0

\* The order of updatedAt among running jobs.
Touch(j) == older' = [k \in Job |-> IF k = j THEN Running \ {j} ELSE older[k] \ {j}]
Leave(j) == older' = [k \in Job |-> IF k = j THEN {} ELSE older[k] \ {j}]

Clear(s) == owner' = [owner EXCEPT ![s] = None]
Failed(j, again) ==
    [job EXCEPT ![j] = [@ EXCEPT !.status = "failed", !.retryable = again]]

\* Fault: the retry counts as the attempt it repeats.
RecoveryChildUncounted(j) ==
    [job[j] EXCEPT !.status = "queued", !.parent = j, !.gen = 0, !.key = None,
                   !.retryable = FALSE, !.cancel = FALSE, !.wait = 0]

\* recoveryChildFor: the queued copy of a failed attempt, with no key of an
\* admin, no checkpoint and no cancellation request.
RecoveryChild(j) ==
    [job[j] EXCEPT !.status = "queued", !.attempt = @ + 1, !.parent = j, !.gen = 0,
                   !.key = None, !.retryable = FALSE, !.cancel = FALSE, !.wait = 0]

\* failed/retryable, with the linked retry while attempts remain.
FailAndRetry(j) ==
    IF job[j].attempt < MaxAttempts
    THEN /\ Unused # {}
         /\ job' = [Failed(j, TRUE) EXCEPT ![NewJob] = RecoveryChild(j)]
    ELSE job' = Failed(j, TRUE)

\* The invocation returns; an executor's commit may still be in flight.
Return(w) ==
    worker' = [worker EXCEPT ![w] =
        IF @.exec = "committing"
        THEN [@ EXCEPT !.pc = "idle", !.age = 0, !.beat = NoBeat, !.result = "final"]
        ELSE Idle]

Call(w, pc) == worker' = [worker EXCEPT ![w] = [@ EXCEPT !.pc = pc, !.age = 0]]

-----------------------------------------------------------------------------
(* Selecting, acquiring and claiming *)

Select(w) ==
    /\ worker[w].pc = "idle" /\ worker[w].exec = "off"
    /\ \E j \in Due : worker' = [worker EXCEPT ![w] = [Idle EXCEPT !.pc = "selected", !.job = j]]
    /\ UNCHANGED <<stores, src, rec, request>>

\* The lease runs from the clock that the call read before it was sent.
Grant(s, j, gen) ==
    \E lag \in 0..MaxLatency :
        owner' = [owner EXCEPT ![s] = [job |-> j, gen |-> gen, ttl |-> LeaseTicks - lag]]

\* Fault: an expired owner is taken over without having been recovered.
AcquireOverExpired(w) ==
    LET s == job[worker[w].job].source IN
    /\ worker[w].pc = "selected"
    /\ owner[s] = None \/ LeaseExpired(s, 0)
    /\ highWater[s] < MaxGeneration
    /\ highWater' = [highWater EXCEPT ![s] = @ + 1]
    /\ Grant(s, worker[w].job, highWater[s] + 1)
    /\ worker' = [worker EXCEPT ![w] = [@ EXCEPT !.pc = "claiming", !.gen = highWater[s] + 1]]
    /\ UNCHANGED <<job, older, src, rec, request, written>>

\* Fault: the high-water mark is read but not advanced past the first grant.
AcquireSameGeneration(w) ==
    LET s == job[worker[w].job].source IN
    /\ worker[w].pc = "selected"
    /\ owner[s] = None
    /\ highWater' = [highWater EXCEPT ![s] = 1]
    /\ Grant(s, worker[w].job, 1)
    /\ worker' = [worker EXCEPT ![w] = [@ EXCEPT !.pc = "claiming", !.gen = 1]]
    /\ UNCHANGED <<job, older, src, rec, request, written>>

Acquire(w) ==
    LET s == job[worker[w].job].source IN
    /\ worker[w].pc = "selected"
    /\ owner[s] = None
    /\ highWater[s] < MaxGeneration
    /\ highWater' = [highWater EXCEPT ![s] = @ + 1]
    /\ Grant(s, worker[w].job, highWater[s] + 1)
    /\ worker' = [worker EXCEPT ![w] = [@ EXCEPT !.pc = "claiming", !.gen = highWater[s] + 1]]
    /\ UNCHANGED <<job, older, src, rec, request, written>>

\* The claim commits.  The adapter then runs the job, or finds its admission
\* deadline passed and defers it, or sees the session cleanup fail after the
\* commit and merely releases the lease it acquired.
Claim(w) ==
    LET j == worker[w].job IN
    /\ worker[w].pc = "claiming"
    /\ Fenced(j, worker[w].gen, worker[w].age)
    /\ j \in Due
    /\ job' = [job EXCEPT ![j] = [@ EXCEPT !.status = "running", !.gen = worker[w].gen]]
    /\ Touch(j)
    /\ \/ worker' = [worker EXCEPT ![w] = [@ EXCEPT !.pc = "running", !.age = 0,
                                                    !.exec = "fetching"]]
       \/ Call(w, "deferring")
       \/ Call(w, "releasing")
    /\ UNCHANGED <<highWater, owner, src, rec, request, written>>

\* The claim finds its fence stale, the job taken or cancelled, or the deadline
\* passed, at any point before it commits.
ClaimRefused(w) ==
    /\ worker[w].pc = "claiming"
    /\ Call(w, "releasing")
    /\ UNCHANGED <<stores, src, rec, request>>

Release(w) ==
    /\ worker[w].pc = "releasing"
    /\ Fenced(worker[w].job, worker[w].gen, worker[w].age)
    /\ Clear(job[worker[w].job].source)
    /\ Return(w)
    /\ UNCHANGED <<highWater, job, older, src, rec, request, written>>

-----------------------------------------------------------------------------
(* Executing *)

InRun(w) == worker[w].pc = "running" /\ worker[w].result = "pending"

\* captureSource, the connector and the second look at the source.
Fetched(w) ==
    LET j == worker[w].job IN
    /\ InRun(w) /\ worker[w].exec = "fetching"
    /\ Eligible(src[job[j].source], job[j].policy)
    /\ worker' = [worker EXCEPT ![w] = [@ EXCEPT !.exec = "committing"]]
    /\ UNCHANGED <<stores, src, rec, request>>

\* The executor rejects: connector, policy, stale fence or aborted commit.
ExecutorFails(w) ==
    /\ InRun(w)
    /\ \E result \in {"retryable", "final"} :
         worker' = [worker EXCEPT ![w] = [@ EXCEPT !.exec = "off", !.result = result]]
    /\ UNCHANGED <<stores, src, rec, request>>

\* Fault: the commit trusts the running job and does not touch the lease.
MayCommitUnfenced(j, g, read) == RunningAs(j, g) /\ read.permitted

\* The lease and the job are written with the articles; the source is only read.
MayCommit(j, g, read) == Fenced(j, g, read.age) /\ RunningAs(j, g) /\ read.permitted

\* commitIngestionBatch reads its clock inside the transaction.  It may run
\* after the adapter stopped waiting for it; its acknowledgement may be lost.
CommitIngestionBatch(w) ==
    LET j == worker[w].job
        s == job[j].source IN
    /\ worker[w].exec = "committing"
    /\ \E read \in Reads(w) : MayCommit(j, worker[w].gen, read)
    /\ written' = [written EXCEPT ![s] = [job |-> j, gen |-> worker[w].gen]]
    /\ Touch(j)
    /\ IF worker[w].pc = "idle"
       THEN worker' = [worker EXCEPT ![w] = Idle]
       ELSE \E result \in IF InRun(w) THEN {"succeeded", "final"} ELSE {worker[w].result} :
              worker' = [worker EXCEPT ![w] = [@ EXCEPT !.exec = "off", !.result = result]]
    /\ UNCHANGED <<highWater, owner, job, src, rec, request>>

\* A commit nobody waits for aborts.
LateCommitAborts(w) ==
    /\ worker[w].exec = "committing" /\ ~InRun(w)
    /\ worker' = [worker EXCEPT ![w] = IF @.pc = "idle" THEN Idle ELSE [@ EXCEPT !.exec = "off"]]
    /\ UNCHANGED <<stores, src, rec, request>>

\* Fault: a deadline that catches the commit in flight reports success.
DeadlineReportsSuccess(w) ==
    /\ InRun(w)
    /\ worker' = [worker EXCEPT ![w] = [@ EXCEPT
                    !.result = IF worker[w].exec = "committing" THEN "succeeded" ELSE "final"]]
    /\ UNCHANGED <<stores, src, rec, request>>

\* What goes on of an executor that is no longer awaited.
LeftInFlight(w) == IF worker[w].exec = "committing" THEN "committing" ELSE "off"

\* The execution deadline: the adapter stops waiting and fails the job.
DeadlineFires(w) ==
    /\ InRun(w)
    /\ worker' = [worker EXCEPT ![w] = [@ EXCEPT !.exec = LeftInFlight(w), !.result = "final"]]
    /\ UNCHANGED <<stores, src, rec, request>>

Beating(w) ==
    /\ worker[w].pc \in {"running", "completing", "finalizing"}
    /\ worker[w].result # "heartbeat_lost"

\* The interval timer: the heartbeat reads its clock and is sent.
HeartbeatSent(w) ==
    /\ Beating(w) /\ worker[w].beat = NoBeat
    /\ OwnedBy(worker[w].job, worker[w].gen) =>
         owner[job[worker[w].job].source].ttl < LeaseTicks
    /\ worker' = [worker EXCEPT ![w] = [@ EXCEPT !.beat = 0]]
    /\ UNCHANGED <<stores, src, rec, request>>

\* Fault: a heartbeat adds a lease to the time that is left.
HeartbeatAccumulates(w) ==
    LET s == job[worker[w].job].source IN
    /\ worker[w].beat # NoBeat
    /\ Fenced(worker[w].job, worker[w].gen, worker[w].beat)
    /\ owner' = [owner EXCEPT ![s] = [@ EXCEPT !.ttl = @ + LeaseTicks]]
    /\ worker' = [worker EXCEPT ![w] = [@ EXCEPT !.beat = NoBeat]]
    /\ UNCHANGED <<highWater, job, older, src, rec, request, written>>

Heartbeat(w) ==
    LET s == job[worker[w].job].source IN
    /\ worker[w].beat # NoBeat
    /\ Fenced(worker[w].job, worker[w].gen, worker[w].beat)
    /\ owner' = [owner EXCEPT ![s] = [@ EXCEPT !.ttl = LeaseTicks - worker[w].beat]]
    /\ worker' = [worker EXCEPT ![w] = [@ EXCEPT !.beat = NoBeat]]
    /\ UNCHANGED <<highWater, job, older, src, rec, request, written>>

\* A heartbeat that matched nothing ends a run that is still awaited.
HeartbeatLost(w) ==
    /\ worker[w].beat # NoBeat
    /\ ~Fenced(worker[w].job, worker[w].gen, worker[w].beat)
    /\ worker' = [worker EXCEPT ![w] =
         IF InRun(w)
         THEN [@ EXCEPT !.pc = "finalizing", !.age = 0, !.beat = NoBeat,
                        !.exec = LeftInFlight(w),
                        !.result = "heartbeat_lost"]
         ELSE [@ EXCEPT !.beat = NoBeat]]
    /\ UNCHANGED <<stores, src, rec, request>>

-----------------------------------------------------------------------------
(* Completing *)

BeginComplete(w) ==
    /\ worker[w].pc = "running" /\ worker[w].result # "pending"
    /\ Call(w, "completing")
    /\ UNCHANGED <<stores, src, rec, request>>

\* The policy is judged again, as the transaction reads it; cancellation is not.
CompleteWithFence(w) ==
    LET j == worker[w].job
        s == job[j].source IN
    /\ worker[w].pc = "completing"
    /\ Fenced(j, worker[w].gen, worker[w].age)
    /\ RunningAs(j, worker[w].gen)
    /\ \E read \in Reads(w) :
         job' = IF worker[w].result = "succeeded" /\ read.permitted
                THEN [job EXCEPT ![j] = [@ EXCEPT !.status = "succeeded"]]
                ELSE Failed(j, worker[w].result = "retryable" /\ read.permitted)
    /\ Leave(j)
    /\ Clear(s)
    /\ Return(w)
    /\ UNCHANGED <<highWater, src, rec, request, written>>

CompletionStale(w) ==
    LET j == worker[w].job IN
    /\ worker[w].pc = "completing"
    /\ ~(Fenced(j, worker[w].gen, worker[w].age) /\ RunningAs(j, worker[w].gen))
    /\ worker' = [worker EXCEPT ![w] = [@ EXCEPT !.pc = "finalizing", !.age = 0,
                                                 !.result = "fence_stale"]]
    /\ UNCHANGED <<stores, src, rec, request>>

\* The attempt is still running and no later one was granted.
OwnsAttempt(j, g) == RunningAs(j, g) /\ highWater[job[j].source] = g

\* The worker terminalises its own attempt once the lease is lost: an owner that
\* is still this attempt must have expired, unless a heartbeat already missed it.
FinalizeOrphanedAttempt(w) ==
    LET j == worker[w].job
        s == job[j].source IN
    /\ worker[w].pc = "finalizing"
    /\ OwnsAttempt(j, worker[w].gen)
    /\ \/ /\ owner[s] = None
          /\ job' = Failed(j, TRUE)
          /\ UNCHANGED owner
       \/ /\ OwnedBy(j, worker[w].gen)
          /\ worker[w].result = "heartbeat_lost" \/ LeaseExpired(s, worker[w].age)
          /\ FailAndRetry(j)
          /\ Clear(s)
    /\ Leave(j)
    /\ Return(w)
    /\ UNCHANGED <<highWater, src, rec, request, written>>

DeferWithFence(w) ==
    LET j == worker[w].job IN
    /\ worker[w].pc = "deferring"
    /\ Fenced(j, worker[w].gen, worker[w].age)
    /\ RunningAs(j, worker[w].gen)
    /\ job' = [job EXCEPT ![j] =
         IF @.cancel THEN [@ EXCEPT !.status = "cancelled"]
                     ELSE [@ EXCEPT !.status = "queued", !.gen = 0, !.wait = DeferTicks]]
    /\ Leave(j)
    /\ Clear(job[j].source)
    /\ Return(w)
    /\ UNCHANGED <<highWater, src, rec, request, written>>

\* A call fails, misses its fence or outlasts its grace, or the heartbeat cannot
\* be verified: the invocation returns and leaves the documents as they are.
GiveUp(w) ==
    /\ \/ worker[w].pc \in {"selected", "releasing", "completing", "finalizing", "deferring"}
       \/ InRun(w)
    /\ Return(w)
    /\ UNCHANGED <<stores, src, rec, request>>

WorkerCrash(w) ==
    /\ worker[w] # Idle
    /\ worker' = [worker EXCEPT ![w] = Idle]
    /\ UNCHANGED <<stores, src, rec, request>>

-----------------------------------------------------------------------------
(* Recovery: one lease or one orphan at a time, judged by the start of the run *)

RecoverStart(r) ==
    /\ rec[r].pc = "idle"
    /\ rec' = [rec EXCEPT ![r] = [Resting EXCEPT !.pc = "listing"]]
    /\ UNCHANGED <<stores, src, worker, request>>

\* Fault: only leases whose job is still running count as expired.
ExpiredAndRunning(r) ==
    {s \in Source : LeaseExpired(s, rec[r].age) /\ RunningAs(owner[s].job, owner[s].gen)}

ExpiredFor(r) == {s \in Source : LeaseExpired(s, rec[r].age)}

\* Fault: the orphan phase is never reached, or never held back.
NeverSweeps(r) == FALSE
AlwaysSweeps(r) == TRUE

\* The orphan phase has the slots the lease phase left: with one slot, none
\* unless nothing had expired.
Sweeps(r) == ExpiredFor(r) = {}

\* listExpired, and only when it finds nothing the oldest running job.
RecoverList(r) ==
    /\ rec[r].pc = "listing"
    /\ \/ \E s \in ExpiredFor(r) :
            /\ \A t \in ExpiredFor(r) : owner[s].ttl <= owner[t].ttl
            /\ rec' = [rec EXCEPT ![r] = [@ EXCEPT !.pc = "lease", !.job = owner[s].job,
                                                   !.gen = owner[s].gen]]
       \/ /\ Sweeps(r)
          /\ \E j \in Running :
               /\ older[j] = {}
               /\ rec' = [rec EXCEPT ![r] = [@ EXCEPT !.pc = "orphan", !.job = j,
                                                      !.gen = job[j].gen]]
    /\ UNCHANGED <<stores, src, worker, request>>

Listing(r) == rec' = [rec EXCEPT ![r] = [Resting EXCEPT !.pc = "listing", !.age = rec[r].age]]

\* Fault: the expiry found when listing is not checked again.
NamesLeaseUnchecked(r) == OwnedBy(rec[r].job, rec[r].gen)

\* The listed owner is still there and still expired.
NamesExpiredLease(r) ==
    OwnedBy(rec[r].job, rec[r].gen) /\ LeaseExpired(job[rec[r].job].source, rec[r].age)

RecoverLease(r) ==
    LET j == rec[r].job
        s == job[j].source IN
    /\ rec[r].pc = "lease"
    /\ NamesExpiredLease(r)
    /\ IF RunningAs(j, rec[r].gen)
       THEN FailAndRetry(j) /\ Leave(j)
       ELSE UNCHANGED <<job, older>>
    /\ Clear(s)
    /\ Listing(r)
    /\ UNCHANGED <<highWater, src, worker, request, written>>

RecoverOrphan(r) ==
    LET j == rec[r].job IN
    /\ rec[r].pc = "orphan"
    /\ RunningAs(j, rec[r].gen)
    /\ ~Fenced(j, rec[r].gen, rec[r].age)
    /\ job' = Failed(j, FALSE)
    /\ Leave(j)
    /\ Listing(r)
    /\ UNCHANGED <<highWater, owner, src, worker, request, written>>

\* Nothing to recover, a transaction that found its target changed, a failure,
\* or the end of the run's budget.
RecoverEnd(r) ==
    /\ rec[r].pc # "idle"
    /\ rec' = [rec EXCEPT ![r] = Resting]
    /\ UNCHANGED <<stores, src, worker, request>>

-----------------------------------------------------------------------------
(* Admin commands: read and build, then reuse or insert in a transaction *)
(* Bound: they are asked while Job has a document left for them. *)

AskCreate(a) ==
    /\ request[a] = None /\ Unused # {}
    /\ \E k \in Key, s \in Source :
         /\ Eligible(src[s], src[s].version)
         /\ request' = [request EXCEPT ![a] =
              [key |-> k, source |-> s, policy |-> src[s].version, parent |-> None,
               attempt |-> 1]]
    /\ UNCHANGED <<stores, src, worker, rec>>

AskRetry(a) ==
    /\ request[a] = None /\ Unused # {}
    /\ \E k \in Key, p \in Job :
         LET s == job[p].source IN
         /\ job[p].status = "failed" /\ job[p].retryable
         /\ job[p].attempt < MaxAttempts
         /\ Eligible(src[s], src[s].version)
         /\ request' = [request EXCEPT ![a] =
              [key |-> k, source |-> s, policy |-> src[s].version, parent |-> p,
               attempt |-> job[p].attempt + 1]]
    /\ UNCHANGED <<stores, src, worker, rec>>

\* Fault: only the actor's key is looked up.
ExistingByKey(q) == {j \in Job : Stored(j) /\ job[j].key = q.key}

\* existingIdempotentJob: by actor key, then by parent and attempt.
Existing(q) ==
    {j \in Job : /\ Stored(j)
                 /\ \/ job[j].key = q.key
                    \/ q.parent # None /\ job[j].parent = q.parent /\ job[j].attempt = q.attempt}

InsertJob(a) ==
    LET q == request[a] IN
    /\ q # None
    /\ Existing(q) = {}
    /\ Unused # {}
    /\ job' = [job EXCEPT ![NewJob] =
         [status |-> "queued", source |-> q.source, attempt |-> q.attempt,
          parent |-> q.parent, gen |-> 0, policy |-> q.policy, key |-> q.key,
          retryable |-> FALSE, cancel |-> FALSE, wait |-> 0]]
    /\ request' = [request EXCEPT ![a] = None]
    /\ UNCHANGED <<highWater, owner, older, src, worker, rec, written>>

\* The request resolves to an existing job, conflicts with it, is over its
\* rate limit, or its actor's session has ended.
RequestEnds(a) ==
    /\ request[a] # None
    /\ request' = [request EXCEPT ![a] = None]
    /\ UNCHANGED <<stores, src, worker, rec>>

CancelIngestionJob(j) ==
    /\ \/ /\ job[j].status = "queued"
          /\ job' = [job EXCEPT ![j] = [@ EXCEPT !.status = "cancelled", !.wait = 0]]
          /\ UNCHANGED older
       \/ /\ job[j].status = "running"
          /\ job' = [job EXCEPT ![j] = [@ EXCEPT !.cancel = TRUE]]
          /\ Touch(j)
    /\ UNCHANGED <<highWater, owner, src, worker, rec, request, written>>

\* Retention (14 and 30 days) outlives every call that still names the job.
PurgeDueIngestionJobs(j) ==
    /\ job[j].status \in Terminal
    /\ \A w \in Worker : worker[w].job # j
    /\ \A r \in Recoverer : rec[r].job # j
    /\ \A a \in Admin : request[a] # None => request[a].parent # j
    /\ job' = [job EXCEPT ![j] = [@ EXCEPT !.status = "purged", !.key = None]]
    /\ UNCHANGED <<highWater, owner, older, src, worker, rec, request, written>>

-----------------------------------------------------------------------------
(* The source document, as the source registry changes it *)

SetSource(s, document) ==
    /\ src' = [src EXCEPT ![s] = document]
    /\ UNCHANGED <<stores, worker, rec, request>>

TransitionOperationalStatus(s) ==
    /\ ~src[s].active => src[s].licensed /\ src[s].checked
    /\ SetSource(s, [src[s] EXCEPT !.active = ~@])

\* A configuration update takes a new version and may drop the technical check.
ApplySourceUpdate(s) ==
    /\ src[s].version < MaxPolicy
    /\ \E checked \in {FALSE, src[s].checked} :
         SetSource(s, [src[s] EXCEPT !.version = @ + 1, !.checked = checked])

ReviewSourcePolicy(s) ==
    /\ ~src[s].active /\ src[s].version < MaxPolicy
    /\ \E licensed \in BOOLEAN :
         SetSource(s, [src[s] EXCEPT !.version = @ + 1, !.licensed = licensed])

RequestPolicyReReview(s) ==
    /\ src[s].version < MaxPolicy
    /\ SetSource(s, [src[s] EXCEPT !.version = @ + 1, !.active = FALSE, !.licensed = FALSE])

RunTechnicalCheck(s) ==
    \E passed \in BOOLEAN : SetSource(s, [src[s] EXCEPT !.checked = passed])

-----------------------------------------------------------------------------
(* Time *)

Tick ==
    /\ \A w \in Worker : /\ worker[w].pc \in Calls => worker[w].age < MaxLatency
                         /\ worker[w].beat < MaxLatency
    /\ \A r \in Recoverer : rec[r].pc # "idle" => rec[r].age < MaxLatency
    /\ owner' = [s \in Source |->
         IF owner[s] = None \/ owner[s].ttl = -MaxLatency THEN owner[s]
         ELSE [owner[s] EXCEPT !.ttl = @ - 1]]
    /\ job' = [j \in Job |-> [job[j] EXCEPT !.wait = IF @ = 0 THEN 0 ELSE @ - 1]]
    /\ worker' = [w \in Worker |-> [worker[w] EXCEPT
         !.age = IF worker[w].pc \in Calls THEN @ + 1 ELSE @,
         !.beat = IF @ = NoBeat THEN @ ELSE @ + 1]]
    /\ rec' = [r \in Recoverer |-> [rec[r] EXCEPT
         !.age = IF rec[r].pc = "idle" THEN @ ELSE @ + 1]]
    /\ UNCHANGED <<highWater, older, src, request, written>>

-----------------------------------------------------------------------------

\* Steps that bring an invocation closer to its end.
Progress(w) ==
    \/ Acquire(w) \/ Claim(w) \/ ClaimRefused(w) \/ Release(w)
    \/ Fetched(w) \/ ExecutorFails(w) \/ CommitIngestionBatch(w) \/ LateCommitAborts(w)
    \/ DeadlineFires(w) \/ BeginComplete(w) \/ CompleteWithFence(w) \/ CompletionStale(w)
    \/ FinalizeOrphanedAttempt(w) \/ DeferWithFence(w) \/ GiveUp(w)

Beat(w) == Heartbeat(w) \/ HeartbeatLost(w)

WorkerStep(w) == Select(w) \/ Progress(w) \/ HeartbeatSent(w) \/ Beat(w) \/ WorkerCrash(w)

RecovererStep(r) ==
    RecoverStart(r) \/ RecoverList(r) \/ RecoverLease(r) \/ RecoverOrphan(r) \/ RecoverEnd(r)

AdminStep ==
    \/ \E a \in Admin : AskCreate(a) \/ AskRetry(a) \/ InsertJob(a) \/ RequestEnds(a)
    \/ \E j \in Job : CancelIngestionJob(j)
    \/ \E j \in Purgeable : PurgeDueIngestionJobs(j)
    \/ \E s \in Volatile :
         \/ TransitionOperationalStatus(s) \/ ApplySourceUpdate(s) \/ ReviewSourcePolicy(s)
         \/ RequestPolicyReReview(s) \/ RunTechnicalCheck(s)

Work ==
    \/ \E w \in Worker : WorkerStep(w)
    \/ \E r \in Recoverer : RecovererStep(r)
    \/ AdminStep

\* A batch and a completion write the lease and the job: a step that writes one of
\* them (a heartbeat lengthens the lease) refuses the transaction, which begins
\* anew.  A step that leaves both alone is not noticed, whatever it does to a source.
InTransaction(w) ==
    worker[w].exec = "committing" \/ (worker[w].exec = "off" /\ worker[w].pc = "completing")

Unnoticed(w) ==
    LET j == worker[w].job
        s == job[j].source IN
    /\ worker'[w].exec = worker[w].exec
    /\ worker[w].exec = "off" => worker'[w].pc = "completing"
    /\ job'[j] = job[j]
    /\ OwnedBy(j, worker[w].gen) /\ OwnedBy(j, worker[w].gen)'
    /\ owner'[s].ttl <= owner[s].ttl

\* What was read before the step goes on being what an open transaction has read,
\* `ticks` longer ago; its deadline ends one that takes longer than MaxLatency.
Snapshots(ticks) ==
    seen' = [w \in Worker |->
        IF InTransaction(w) /\ Unnoticed(w)
        THEN {[read EXCEPT !.age = @ + ticks] : read \in
                {r \in Reads(w) : r.age + ticks <= MaxLatency}} \ {Now(w)'}
        ELSE {}]

\* A step beside the transactions that are open.
Beside(A) == A /\ Snapshots(0)

Passes == Tick /\ Snapshots(1)

Next == Beside(Work) \/ Passes

Spec == Init /\ [][Next]_vars

\* Every awaited call returns or is bounded by a timer, cron keeps starting
\* recovery runs, and a recovery transaction that can commit is not made to
\* fail for ever.
Fairness ==
    /\ \A w \in Worker : WF_vars(Beside(Progress(w))) /\ WF_vars(Beside(Beat(w)))
    /\ \A r \in Recoverer :
         /\ WF_vars(Beside(RecoverStart(r))) /\ WF_vars(Beside(RecoverEnd(r)))
         /\ SF_vars(Beside(RecoverList(r))) /\ SF_vars(Beside(RecoverLease(r)))
         /\ SF_vars(Beside(RecoverOrphan(r)))
    /\ SF_vars(Passes)

FairSpec == Spec /\ Fairness

-----------------------------------------------------------------------------
(* Safety *)

\* Invocations that hold a fence, live or stale.
Holds(w) == worker[w].gen # 0

\* At any time at most one invocation per source could pass a fence check: two
\* overlapping runs of claimAndExecute never both write for a source.
ExclusiveFence ==
    \A v, w \in Worker :
        /\ Holds(v) /\ Fenced(worker[v].job, worker[v].gen, 0)
        /\ Holds(w) /\ Fenced(worker[w].job, worker[w].gen, 0)
        /\ job[worker[v].job].source = job[worker[w].job].source
        => v = w

\* A generation names one attempt: the owner holds the newest one, running jobs
\* of a source hold different ones, none above the high-water mark, and a running
\* job whose generation the lease carries is the job the lease names.
GenerationsAreFences ==
    /\ \A s \in Source : owner[s] # None =>
         /\ owner[s].gen = highWater[s]
         /\ job[owner[s].job].source = s
    /\ \A j \in Running :
         LET s == job[j].source IN
         /\ job[j].gen \in 1..highWater[s]
         /\ owner[s] # None /\ owner[s].gen = job[j].gen => owner[s].job = j
    /\ \A j, k \in Running :
         job[j].source = job[k].source /\ job[j].gen = job[k].gen => j = k

\* The retry forest: a job with a parent follows a failed, retryable attempt of
\* the same source as its next attempt; a parent has one child and a key one job,
\* whatever the races between recovery, finalisation and admin retries.
LinkedRetries ==
    /\ \A c \in Job : job[c].parent # None =>
         LET p == job[job[c].parent] IN
         /\ p.status \in {"failed", "purged"} /\ p.retryable
         /\ p.source = job[c].source
         /\ job[c].attempt = p.attempt + 1
    /\ \A c, d \in Job :
         /\ Stored(c) /\ Stored(d)
         /\ \/ job[c].parent # None /\ job[c].parent = job[d].parent
            \/ job[c].key # None /\ job[c].key = job[d].key
         => c = d

\* A job is reported succeeded only after its own attempt wrote its batch: the
\* source has seen a batch of that generation, or of a later one.
SuccessWasWritten ==
    \A j \in Job : job[j].status = "succeeded" =>
        written[job[j].source].gen >= job[j].gen

-----------------------------------------------------------------------------
(* What a step may never do *)

BatchStep ==
    \A s \in Source : written'[s] # written[s] =>
      LET j == written'[s].job IN
      /\ written'[s].gen = highWater[s]
      /\ written'[s].gen > written[s].gen
      /\ OwnedBy(j, written'[s].gen) /\ RunningAs(j, written'[s].gen)
      /\ \E w \in Worker :
           /\ worker[w].job = j /\ worker[w].gen = written'[s].gen
           /\ \E read \in Reads(w) : owner[s].ttl + read.age > 0 /\ read.permitted

\* An article batch is written only under the newest generation of its source, for
\* the job that holds the lease and runs under it, and batches never go back a
\* generation.  That the lease had not expired and that the source permitted the
\* job's policy version is what its transaction has read: time has passed since,
\* and the source may have changed beside it.
NoStaleBatch == [][BatchStep]_vars

\* A terminal job is history: a late completion, finalisation or recovery of the
\* same attempt leaves its outcome as it was first recorded.
TerminalIsFinal ==
    [][\A j \in Job : job[j].status \in Terminal =>
         \/ job'[j] = job[j]
         \/ job'[j].status = "purged"]_vars

\* A lease that has not expired is given up only by the invocation holding it:
\* neither recovery phase, judging by an old clock, takes it away.
LiveLeaseIsKept ==
    [][\A s \in Source :
         owner[s] # None /\ owner[s].ttl > 0 /\ owner'[s] = None =>
            \E w \in Worker : /\ worker[w].gen = owner[s].gen
                              /\ worker[w].job = owner[s].job
                              /\ worker'[w] # worker[w]]_vars

\* Abandoned: running under a lease that still names it, with no invocation left.
Abandoned(j) ==
    /\ job[j].status = "running"
    /\ OwnedBy(j, job[j].gen)
    /\ \A w \in Worker : ~(worker[w].job = j /\ worker[w].gen = job[j].gen)

HasChild(j) == \E c \in Job : job[c].parent = j

\* Crash after claim: whichever recovery step ends an abandoned attempt leaves
\* it retryable and, below the attempt limit, with its linked retry.  The orphan
\* phase, which records a final failure, never takes such a job.
CrashKeepsRetry ==
    [][\A j \in Job :
         Abandoned(j) /\ job'[j].status # "running" =>
            /\ job'[j].status = "failed" /\ job'[j].retryable
            /\ job[j].attempt = MaxAttempts \/ HasChild(j)']_vars

-----------------------------------------------------------------------------
(* Liveness *)

\* No job stays running for ever: its worker ends it, or its lease expires and
\* phase one ends it, or it has no lease and phase two reaches it.
RunningEnds == \A j \in Job : job[j].status = "running" ~> job[j].status # "running"

\* A source is never blocked for ever by a dead owner.
LeaseComesBack == \A s \in Source : owner[s] # None ~> owner[s] = None

\* The state of the abstract fencing lease this module implements.
Fencing == INSTANCE LeaseFencing WITH
    Resource <- Source,
    generation <- highWater,
    held <- [s \in Source |-> owner[s] # None],
    effect <- [s \in Source |-> written[s].gen]

\* Every step is a grant, a return or an effect of a fencing lease, or leaves it.
ImplementsFencing == Fencing!Spec
=============================================================================
