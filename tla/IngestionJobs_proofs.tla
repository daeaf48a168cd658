------------------------ MODULE IngestionJobs_proofs ------------------------
(***************************************************************************)
(* Theorems about IngestionJobs for every value of its constants.          *)
(*                                                                         *)
(* 1. Types: TypeInv is the type invariant with what the local states of   *)
(*    invocations and recovery loops say of the job they name.             *)
(* 2. Fences: FenceInv adds what makes generations fences; of all the      *)
(*    steps only Acquire, Claim and CommitIngestionBatch can add to what   *)
(*    it speaks of, and every other step is Quiet.                         *)
(* 3. Outcomes: a step lets each job document move as Moves allows, and    *)
(*    adds at most one, which is Fresh (RetryInv, the retry forest); a     *)
(*    result waits for the batch of its own attempt (ResultInv); and a job *)
(*    that the orphan phase of recovery takes has no expired lease         *)
(*    (SweepInv).                                                          *)
(* Each of these invariants is inductive, given the ones before it.        *)
(***************************************************************************)
EXTENDS IngestionJobs, TLAPS

-----------------------------------------------------------------------------
(* 1. Types *)

\* A step of the documents and the local states, whatever open transactions have
\* read beside it.
Step == Work \/ Tick

LEMMA StepsOfDocuments == [Next]_vars => [Step]_documents
BY DEF Next, Beside, Passes, Step, vars


\* An invocation that is under way, or left a call in flight, names a job.
WorkersName ==
    \A w \in Worker :
        worker[w].pc # "idle" \/ worker[w].exec # "off" \/ worker[w].beat # NoBeat
            => worker[w].job \in Job

\* A recovery loop about to write names the job it listed.
RecoverersName ==
    \A r \in Recoverer : rec[r].pc \in {"lease", "orphan"} => rec[r].job \in Job

TypeInv == DocumentsOK /\ WorkersName /\ RecoverersName

\* What a completion reads of the source only says whether it is permitted.
LEMMA CompletionReads ==
    ASSUME NEW w \in Worker, CompleteWithFence(w)
    PROVE  \E permitted \in BOOLEAN :
             job' = IF worker[w].result = "succeeded" /\ permitted
                    THEN [job EXCEPT ![worker[w].job] = [@ EXCEPT !.status = "succeeded"]]
                    ELSE Failed(worker[w].job, worker[w].result = "retryable" /\ permitted)
<1>1. PICK read \in Reads(w) :
        job' = IF worker[w].result = "succeeded" /\ read.permitted
               THEN [job EXCEPT ![worker[w].job] = [@ EXCEPT !.status = "succeeded"]]
               ELSE Failed(worker[w].job, worker[w].result = "retryable" /\ read.permitted)
  BY DEF CompleteWithFence
<1>2. CASE read.permitted
  BY <1>1, <1>2
<1>3. CASE ~read.permitted
  BY <1>1, <1>3
<1> QED
  BY <1>2, <1>3

\* The new job is an unused one.
LEMMA NewJobIsUnused ==
    ASSUME Unused # {}
    PROVE  NewJob \in Unused
BY DEF NewJob, Unused

\* The updates of a job document that actions make keep it a job document.
LEMMA DocumentUpdates ==
    ASSUME NEW d \in JobDocument
    PROVE  /\ \A again \in BOOLEAN :
                [d EXCEPT !.status = "failed", !.retryable = again] \in JobDocument
           /\ \A j \in Job : d.attempt < MaxAttempts =>
                [d EXCEPT !.status = "queued", !.attempt = @ + 1, !.parent = j, !.gen = 0,
                          !.key = None, !.retryable = FALSE, !.cancel = FALSE, !.wait = 0]
                  \in JobDocument
           /\ \A g \in 0..MaxGeneration :
                [d EXCEPT !.status = "running", !.gen = g] \in JobDocument
           /\ [d EXCEPT !.status = "succeeded"] \in JobDocument
           /\ [d EXCEPT !.status = "cancelled"] \in JobDocument
           /\ [d EXCEPT !.status = "cancelled", !.wait = 0] \in JobDocument
           /\ [d EXCEPT !.cancel = TRUE] \in JobDocument
           /\ [d EXCEPT !.status = "purged", !.key = None] \in JobDocument
           /\ [d EXCEPT !.status = "queued", !.gen = 0, !.wait = DeferTicks] \in JobDocument
           /\ [d EXCEPT !.wait = IF @ = 0 THEN 0 ELSE @ - 1] \in JobDocument
<1>0. 0 \in 0..DeferTicks /\ DeferTicks \in 0..DeferTicks /\ 0 \in 0..MaxGeneration
  BY BoundsAssumption
<1>1. \A again \in BOOLEAN :
        [d EXCEPT !.status = "failed", !.retryable = again] \in JobDocument
  BY DEF JobDocument, Terminal
<1>2. ASSUME NEW j \in Job, d.attempt < MaxAttempts
      PROVE  [d EXCEPT !.status = "queued", !.attempt = @ + 1, !.parent = j, !.gen = 0,
                       !.key = None, !.retryable = FALSE, !.cancel = FALSE, !.wait = 0]
               \in JobDocument
  <2>1. d.attempt + 1 \in 0..MaxAttempts
    BY <1>2, BoundsAssumption DEF JobDocument
  <2> QED
    BY <2>1, <1>0 DEF JobDocument, Terminal
<1>3. \A g \in 0..MaxGeneration : [d EXCEPT !.status = "running", !.gen = g] \in JobDocument
  BY DEF JobDocument, Terminal
<1>4. /\ [d EXCEPT !.status = "succeeded"] \in JobDocument
      /\ [d EXCEPT !.status = "cancelled"] \in JobDocument
  BY DEF JobDocument, Terminal
<1>5. [d EXCEPT !.status = "cancelled", !.wait = 0] \in JobDocument
  BY <1>0 DEF JobDocument, Terminal
<1>6. [d EXCEPT !.cancel = TRUE] \in JobDocument
  BY DEF JobDocument, Terminal
<1>7. [d EXCEPT !.status = "purged", !.key = None] \in JobDocument
  BY DEF JobDocument, Terminal
<1>8. [d EXCEPT !.status = "queued", !.gen = 0, !.wait = DeferTicks] \in JobDocument
  BY <1>0 DEF JobDocument, Terminal
<1>9. [d EXCEPT !.wait = IF @ = 0 THEN 0 ELSE @ - 1] \in JobDocument
  <2>1. (IF d.wait = 0 THEN 0 ELSE d.wait - 1) \in 0..DeferTicks
    BY BoundsAssumption DEF JobDocument
  <2> QED
    BY <2>1 DEF JobDocument, Terminal
<1> QED
  BY <1>1, <1>2, <1>3, <1>4, <1>5, <1>6, <1>7, <1>8, <1>9

\* A good local state of an invocation.
WorkerOK(state) ==
    /\ state \in WorkerState
    /\ state.pc # "idle" \/ state.exec # "off" \/ state.beat # NoBeat => state.job \in Job

\* The updates of an invocation's local state that actions make keep it good.
LEMMA StateUpdates ==
    ASSUME NEW d, WorkerOK(d)
    PROVE  /\ \A pc \in Calls \cup {"running"} : d.pc # "idle" =>
                /\ WorkerOK([d EXCEPT !.pc = pc, !.age = 0])
                /\ WorkerOK([d EXCEPT !.pc = pc, !.age = 0, !.exec = "fetching"])
                /\ \A result \in Results :
                     WorkerOK([d EXCEPT !.pc = pc, !.age = 0, !.result = result])
           /\ \A g \in 0..MaxGeneration : d.pc # "idle" =>
                WorkerOK([d EXCEPT !.pc = "claiming", !.gen = g])
           /\ d.exec = "committing" =>
                WorkerOK([d EXCEPT !.pc = "idle", !.age = 0, !.beat = NoBeat, !.result = "final"])
           /\ d.pc # "idle" => \A exec \in {"off", "committing"} :
                WorkerOK([d EXCEPT !.exec = exec])
           /\ d.pc # "idle" => \A exec \in {"off", "committing"}, result \in Results :
                /\ WorkerOK([d EXCEPT !.exec = exec, !.result = result])
                /\ WorkerOK([d EXCEPT !.pc = "finalizing", !.age = 0, !.beat = NoBeat,
                                       !.exec = exec, !.result = result])
           /\ d.pc # "idle" => WorkerOK([d EXCEPT !.beat = 0])
           /\ WorkerOK([d EXCEPT !.beat = NoBeat])
<1>0. 0 \in 0..MaxLatency
  BY BoundsAssumption
<1> USE DEF WorkerOK, WorkerState, Calls, Results, NoBeat
<1>1. ASSUME NEW pc \in Calls \cup {"running"}, d.pc # "idle"
      PROVE  WorkerOK([d EXCEPT !.pc = pc, !.age = 0])
  BY <1>0, <1>1
<1>2. ASSUME NEW pc \in Calls \cup {"running"}, d.pc # "idle"
      PROVE  WorkerOK([d EXCEPT !.pc = pc, !.age = 0, !.exec = "fetching"])
  BY <1>0, <1>2
<1>3. ASSUME NEW pc \in Calls \cup {"running"}, d.pc # "idle", NEW result \in Results
      PROVE  WorkerOK([d EXCEPT !.pc = pc, !.age = 0, !.result = result])
  BY <1>0, <1>3
<1>4. ASSUME NEW g \in 0..MaxGeneration, d.pc # "idle"
      PROVE  WorkerOK([d EXCEPT !.pc = "claiming", !.gen = g])
  BY <1>4
<1>5. ASSUME d.exec = "committing"
      PROVE  WorkerOK([d EXCEPT !.pc = "idle", !.age = 0, !.beat = NoBeat, !.result = "final"])
  BY <1>0, <1>5
<1>6. ASSUME d.pc # "idle", NEW exec \in {"off", "committing"}
      PROVE  WorkerOK([d EXCEPT !.exec = exec])
  BY <1>6
<1>7. ASSUME d.pc # "idle", NEW exec \in {"off", "committing"}, NEW result \in Results
      PROVE  WorkerOK([d EXCEPT !.exec = exec, !.result = result])
  BY <1>7
<1>8. ASSUME d.pc # "idle", NEW exec \in {"off", "committing"}, NEW result \in Results
      PROVE  WorkerOK([d EXCEPT !.pc = "finalizing", !.age = 0, !.beat = NoBeat,
                                !.exec = exec, !.result = result])
  BY <1>0, <1>8
<1>9. ASSUME d.pc # "idle"
      PROVE  WorkerOK([d EXCEPT !.beat = 0])
  BY <1>0, <1>9
<1>10. WorkerOK([d EXCEPT !.beat = NoBeat])
  OBVIOUS
<1> HIDE DEF WorkerOK, WorkerState, Calls, Results, NoBeat
<1> QED
  BY <1>1, <1>2, <1>3, <1>4, <1>5, <1>6, <1>7, <1>8, <1>9, <1>10

\* A failed attempt is still a job document.
LEMMA FailedType ==
    ASSUME DocumentsOK, NEW j \in Job, NEW again \in BOOLEAN
    PROVE  Failed(j, again) \in [Job -> JobDocument]
<1>1. [job[j] EXCEPT !.status = "failed", !.retryable = again] \in JobDocument
  BY DocumentUpdates DEF DocumentsOK
<1> QED
  BY <1>1 DEF Failed, DocumentsOK

\* Failing with a linked retry keeps the documents typed.
LEMMA FailAndRetryType ==
    ASSUME DocumentsOK, NEW j \in Job, FailAndRetry(j)
    PROVE  job' \in [Job -> JobDocument]
<1>1. Failed(j, TRUE) \in [Job -> JobDocument]
  BY FailedType
<1>2. CASE job[j].attempt < MaxAttempts
  <2>1. RecoveryChild(j) \in JobDocument
    BY <1>2, DocumentUpdates DEF RecoveryChild, DocumentsOK
  <2>2. job' = [Failed(j, TRUE) EXCEPT ![NewJob] = RecoveryChild(j)]
    BY <1>2 DEF FailAndRetry
  <2> QED
    BY <1>1, <2>1, <2>2
<1>3. CASE ~(job[j].attempt < MaxAttempts)
  BY <1>1, <1>3 DEF FailAndRetry
<1> QED
  BY <1>2, <1>3

\* Moving a job in the order of updatedAt keeps the order typed.
LEMMA OrderType ==
    ASSUME DocumentsOK, NEW j \in Job, Touch(j) \/ Leave(j)
    PROVE  older' \in [Job -> SUBSET Job]
BY DEF DocumentsOK, Touch, Leave, Running

\* Clearing an owner keeps owners typed.
LEMMA ClearType ==
    ASSUME DocumentsOK, NEW s \in Source, Clear(s)
    PROVE  owner' \in [Source -> Owner \cup {None}]
BY DEF DocumentsOK, Clear

\* A grant leaves an owner with the job and generation it was given.
LEMMA GrantType ==
    ASSUME TypeInv, NEW s \in Source, NEW j \in Job, NEW g \in 1..MaxGeneration,
           Grant(s, j, g)
    PROVE  /\ owner' \in [Source -> Owner \cup {None}]
           /\ \E o \in Owner : /\ owner' = [owner EXCEPT ![s] = o]
                              /\ o # None /\ o.job = j /\ o.gen = g
<1>1. PICK lag \in 0..MaxLatency :
        owner' = [owner EXCEPT ![s] = [job |-> j, gen |-> g, ttl |-> LeaseTicks - lag]]
  BY DEF Grant
<1> DEFINE o == [job |-> j, gen |-> g, ttl |-> LeaseTicks - lag]
<1>2. LeaseTicks - lag \in -MaxLatency..LeaseTicks
  BY BoundsAssumption
<1>3. o \in Owner /\ o.job = j /\ o.gen = g
  BY <1>2 DEF Owner
<1>4. owner' = [owner EXCEPT ![s] = o]
  BY <1>1
<1> HIDE DEF o
<1> QED
  BY <1>3, <1>4, NoneAssumption DEF TypeInv, DocumentsOK

\* In every state of TypeInv each invocation is good.
LEMMA WorkersOK ==
    ASSUME TypeInv, NEW w \in Worker
    PROVE  WorkerOK(worker[w])
BY DEF TypeInv, DocumentsOK, WorkersName, WorkerOK

\* Replacing one invocation's state by a good one keeps them all good.
LEMMA OneWorkerType ==
    ASSUME TypeInv, NEW w \in Worker, NEW state, WorkerOK(state),
           worker' = [worker EXCEPT ![w] = state]
    PROVE  worker' \in [Worker -> WorkerState] /\ WorkersName'
BY DEF TypeInv, DocumentsOK, WorkersName, WorkerOK

\* An idle invocation is good.
LEMMA IdleOK == WorkerOK(Idle)
BY BoundsAssumption DEF WorkerOK, Idle, WorkerState, Calls, Results, NoBeat

\* Returning keeps the local states good.
LEMMA ReturnType ==
    ASSUME TypeInv, NEW w \in Worker, Return(w)
    PROVE  worker' \in [Worker -> WorkerState] /\ WorkersName'
<1>1. CASE worker[w].exec = "committing"
  <2> DEFINE state == [worker[w] EXCEPT !.pc = "idle", !.age = 0, !.beat = NoBeat,
                                        !.result = "final"]
  <2>1. WorkerOK(state)
    BY <1>1, WorkersOK, StateUpdates
  <2>2. worker' = [worker EXCEPT ![w] = state]
    BY <1>1 DEF Return
  <2> QED
    BY <2>1, <2>2, OneWorkerType
<1>2. CASE worker[w].exec # "committing"
  <2>1. worker' = [worker EXCEPT ![w] = Idle]
    BY <1>2 DEF Return
  <2> QED
    BY <2>1, IdleOK, OneWorkerType
<1> QED
  BY <1>1, <1>2

\* Entering a repository call keeps the local states good.
LEMMA CallType ==
    ASSUME TypeInv, NEW w \in Worker, NEW pc \in Calls, worker[w].pc # "idle", Call(w, pc)
    PROVE  worker' \in [Worker -> WorkerState] /\ WorkersName'
<1>1. WorkerOK([worker[w] EXCEPT !.pc = pc, !.age = 0])
  BY WorkersOK, StateUpdates
<1> QED
  BY <1>1, OneWorkerType DEF Call

\* The initial states are typed.
LEMMA InitTyped == Init => TypeInv
<1> SUFFICES ASSUME Init PROVE TypeInv
  OBVIOUS
<1>1. /\ 0 \in 0..MaxLatency /\ 0 \in 0..MaxGeneration /\ 0 \in 0..MaxAttempts
      /\ 0 \in 0..MaxPolicy /\ 0 \in 0..DeferTicks /\ 1 \in 1..MaxPolicy
  BY BoundsAssumption
<1>2. PICK s \in Source : job = [j \in Job |-> NoDocument(s)]
  BY DEF Init
<1>3. NoDocument(s) \in JobDocument
  BY <1>1 DEF NoDocument, JobDocument
<1>4. job \in [Job -> JobDocument]
  BY <1>2, <1>3
<1>5. worker \in [Worker -> WorkerState] /\ WorkersName
  BY IdleOK DEF Init, WorkerOK, WorkersName, Idle, NoBeat
<1>6. Resting \in RecovererState
  BY <1>1 DEF Resting, RecovererState
<1>7. rec \in [Recoverer -> RecovererState] /\ RecoverersName
  BY <1>6 DEF Init, RecoverersName, Resting
<1>8. src \in [Source -> SourceDocument]
  BY <1>1 DEF Init, SourceDocument
<1>9. /\ highWater \in [Source -> 0..MaxGeneration]
      /\ owner \in [Source -> Owner \cup {None}]
      /\ older \in [Job -> SUBSET Job]
      /\ request \in [Admin -> Request \cup {None}]
      /\ written \in [Source -> [job: Job \cup {None}, gen: 0..MaxGeneration]]
  BY <1>1 DEF Init
<1> QED
  BY <1>4, <1>5, <1>7, <1>8, <1>9 DEF TypeInv, DocumentsOK

\* A step that changes only local states of invocations, to good ones.
LEMMA LocalStep ==
    ASSUME TypeInv, UNCHANGED <<stores, src, rec, request>>,
           worker' \in [Worker -> WorkerState], WorkersName'
    PROVE  TypeInv'
BY DEF TypeInv, DocumentsOK, RecoverersName, stores

\* Every step of an invocation keeps the state typed.
LEMMA WorkerStepTyped ==
    ASSUME TypeInv, NEW w \in Worker, WorkerStep(w)
    PROVE  TypeInv'
<1>0. WorkerOK(worker[w])
  BY WorkersOK
<1>1. CASE Select(w)
  <2>1. PICK j \in Job :
          worker' = [worker EXCEPT ![w] = [Idle EXCEPT !.pc = "selected", !.job = j]]
    BY <1>1 DEF Select, Due
  <2>2. WorkerOK([Idle EXCEPT !.pc = "selected", !.job = j])
    BY IdleOK DEF WorkerOK, WorkerState, Idle
  <2> QED
    BY <1>1, <2>1, <2>2, OneWorkerType, LocalStep DEF Select
<1>2. CASE Acquire(w)
  <2> DEFINE s == job[worker[w].job].source
             g == highWater[s] + 1
  <2>1. worker[w].pc = "selected" /\ worker[w].job \in Job /\ s \in Source
    BY <1>0, <1>2 DEF Acquire, WorkerOK, TypeInv, DocumentsOK, JobDocument
  <2>2. g \in 1..MaxGeneration /\ g \in 0..MaxGeneration
    BY <1>2, <2>1, BoundsAssumption DEF Acquire, TypeInv, DocumentsOK
  <2>3. worker' \in [Worker -> WorkerState] /\ WorkersName'
    <3>1. WorkerOK([worker[w] EXCEPT !.pc = "claiming", !.gen = g])
      BY <1>0, <2>1, <2>2, StateUpdates
    <3> QED
      BY <1>2, <3>1, OneWorkerType DEF Acquire
  <2>4. owner' \in [Source -> Owner \cup {None}]
    BY <1>2, <2>1, <2>2, GrantType DEF Acquire
  <2>5. highWater' \in [Source -> 0..MaxGeneration]
    BY <1>2, <2>2 DEF Acquire, TypeInv, DocumentsOK
  <2> QED
    BY <1>2, <2>3, <2>4, <2>5 DEF Acquire, TypeInv, DocumentsOK, RecoverersName
<1>3. CASE Claim(w)
  <2> DEFINE j == worker[w].job
  <2>1. worker[w].pc = "claiming" /\ j \in Job /\ worker[w].gen \in 0..MaxGeneration
    BY <1>0, <1>3 DEF Claim, WorkerOK, WorkerState
  <2>2. job' \in [Job -> JobDocument]
    <3>1. [job[j] EXCEPT !.status = "running", !.gen = worker[w].gen] \in JobDocument
      BY <2>1, DocumentUpdates DEF TypeInv, DocumentsOK
    <3> QED
      BY <1>3, <3>1 DEF Claim, TypeInv, DocumentsOK
  <2>3. older' \in [Job -> SUBSET Job]
    BY <1>3, <2>1, OrderType DEF Claim, TypeInv
  <2>4. worker' \in [Worker -> WorkerState] /\ WorkersName'
    <3>1. CASE worker' = [worker EXCEPT ![w] = [@ EXCEPT !.pc = "running", !.age = 0,
                                                        !.exec = "fetching"]]
      <4>1. WorkerOK([worker[w] EXCEPT !.pc = "running", !.age = 0, !.exec = "fetching"])
        BY <1>0, <2>1, StateUpdates
      <4> QED
        BY <3>1, <4>1, OneWorkerType
    <3>2. CASE Call(w, "deferring") \/ Call(w, "releasing")
      BY <2>1, <3>2, CallType DEF Calls
    <3> QED
      BY <1>3, <3>1, <3>2 DEF Claim
  <2> QED
    BY <1>3, <2>2, <2>3, <2>4 DEF Claim, TypeInv, DocumentsOK, RecoverersName
<1>4. CASE ClaimRefused(w)
  BY <1>4, CallType, LocalStep DEF ClaimRefused, Calls
<1>5. CASE Release(w)
  <2>1. worker[w].job \in Job /\ job[worker[w].job].source \in Source
    BY <1>0, <1>5 DEF Release, WorkerOK, TypeInv, DocumentsOK, JobDocument
  <2>2. owner' \in [Source -> Owner \cup {None}]
    BY <1>5, <2>1, ClearType DEF Release, TypeInv
  <2> QED
    BY <1>5, <2>2, ReturnType DEF Release, TypeInv, DocumentsOK, RecoverersName
<1>6. CASE Fetched(w)
  <2>1. WorkerOK([worker[w] EXCEPT !.exec = "committing"])
    BY <1>0, <1>6, StateUpdates DEF Fetched, InRun, WorkerOK, WorkerState
  <2> QED
    BY <1>6, <2>1, OneWorkerType, LocalStep DEF Fetched
<1>7. CASE ExecutorFails(w)
  <2>1. PICK result \in {"retryable", "final"} :
          worker' = [worker EXCEPT ![w] = [@ EXCEPT !.exec = "off", !.result = result]]
    BY <1>7 DEF ExecutorFails
  <2>2. WorkerOK([worker[w] EXCEPT !.exec = "off", !.result = result])
    BY <1>0, <1>7, StateUpdates DEF ExecutorFails, InRun, Results
  <2> QED
    BY <1>7, <2>1, <2>2, OneWorkerType, LocalStep DEF ExecutorFails
<1>8. CASE CommitIngestionBatch(w)
  <2> DEFINE j == worker[w].job
             s == job[j].source
  <2>1. j \in Job /\ s \in Source /\ worker[w].gen \in 0..MaxGeneration
    BY <1>0, <1>8
    DEF CommitIngestionBatch, WorkerOK, WorkerState, TypeInv, DocumentsOK, JobDocument
  <2>2. worker' \in [Worker -> WorkerState] /\ WorkersName'
    <3>1. CASE worker[w].pc = "idle"
      BY <1>8, <3>1, IdleOK, OneWorkerType DEF CommitIngestionBatch
    <3>2. CASE worker[w].pc # "idle"
      <4>1. PICK result \in IF InRun(w) THEN {"succeeded", "final"} ELSE {worker[w].result} :
              worker' = [worker EXCEPT ![w] = [@ EXCEPT !.exec = "off", !.result = result]]
        BY <1>8, <3>2 DEF CommitIngestionBatch
      <4>2. result \in Results
        BY <1>0, <4>1 DEF WorkerOK, WorkerState, Results
      <4>3. WorkerOK([worker[w] EXCEPT !.exec = "off", !.result = result])
        BY <1>0, <3>2, <4>2, StateUpdates
      <4> QED
        BY <4>1, <4>3, OneWorkerType
    <3> QED
      BY <3>1, <3>2
  <2>3. older' \in [Job -> SUBSET Job]
    BY <1>8, <2>1, OrderType DEF CommitIngestionBatch, TypeInv
  <2>4. written' \in [Source -> [job: Job \cup {None}, gen: 0..MaxGeneration]]
    BY <1>8, <2>1 DEF CommitIngestionBatch, TypeInv, DocumentsOK
  <2> QED
    BY <1>8, <2>2, <2>3, <2>4 DEF CommitIngestionBatch, TypeInv, DocumentsOK, RecoverersName
<1>9. CASE LateCommitAborts(w)
  <2>1. CASE worker[w].pc = "idle"
    <3>1. worker' = [worker EXCEPT ![w] = Idle]
      BY <1>9, <2>1 DEF LateCommitAborts
    <3> QED
      BY <1>9, <3>1, IdleOK, OneWorkerType, LocalStep DEF LateCommitAborts
  <2>2. CASE worker[w].pc # "idle"
    <3>1. worker' = [worker EXCEPT ![w] = [@ EXCEPT !.exec = "off"]]
      BY <1>9, <2>2 DEF LateCommitAborts
    <3>2. WorkerOK([worker[w] EXCEPT !.exec = "off"])
      BY <1>0, <2>2, StateUpdates
    <3> QED
      BY <1>9, <3>1, <3>2, OneWorkerType, LocalStep DEF LateCommitAborts
  <2> QED
    BY <2>1, <2>2
<1>10. CASE DeadlineFires(w)
  <2>1. LeftInFlight(w) \in {"off", "committing"} /\ "final" \in Results /\ worker[w].pc # "idle"
    BY <1>10 DEF DeadlineFires, InRun, Results, LeftInFlight
  <2>2. WorkerOK([worker[w] EXCEPT !.exec = LeftInFlight(w), !.result = "final"])
    BY <1>0, <2>1, StateUpdates
  <2> QED
    BY <1>10, <2>2, OneWorkerType, LocalStep DEF DeadlineFires
<1>11. CASE HeartbeatSent(w)
  <2>1. WorkerOK([worker[w] EXCEPT !.beat = 0])
    BY <1>0, <1>11, StateUpdates DEF HeartbeatSent, Beating
  <2> QED
    BY <1>11, <2>1, OneWorkerType, LocalStep DEF HeartbeatSent
<1>12. CASE Heartbeat(w)
  <2> DEFINE s == job[worker[w].job].source
  <2>1. worker[w].job \in Job /\ s \in Source
    BY <1>0, <1>12 DEF Heartbeat, WorkerOK, TypeInv, DocumentsOK, JobDocument
  <2>2. LeaseTicks - worker[w].beat \in -MaxLatency..LeaseTicks
    BY <1>0, <1>12, BoundsAssumption DEF Heartbeat, WorkerOK, WorkerState
  <2>3. owner[s] \in Owner
    BY <1>12, <2>1 DEF Heartbeat, Fenced, OwnedBy, TypeInv, DocumentsOK
  <2>4. [owner[s] EXCEPT !.ttl = LeaseTicks - worker[w].beat] \in Owner
    BY <2>2, <2>3 DEF Owner
  <2>5. owner' \in [Source -> Owner \cup {None}]
    BY <1>12, <2>1, <2>4 DEF Heartbeat, TypeInv, DocumentsOK
  <2>6. worker' \in [Worker -> WorkerState] /\ WorkersName'
    BY <1>0, <1>12, StateUpdates, OneWorkerType DEF Heartbeat
  <2> QED
    BY <1>12, <2>5, <2>6 DEF Heartbeat, TypeInv, DocumentsOK, RecoverersName
<1>13. CASE HeartbeatLost(w)
  <2>1. CASE InRun(w)
    <3> DEFINE state == [worker[w] EXCEPT !.pc = "finalizing", !.age = 0, !.beat = NoBeat,
                                          !.exec = LeftInFlight(w), !.result = "heartbeat_lost"]
    <3>1. /\ LeftInFlight(w) \in {"off", "committing"} /\ "heartbeat_lost" \in Results
          /\ worker[w].pc # "idle"
      BY <2>1 DEF InRun, Results, LeftInFlight
    <3>2. WorkerOK(state)
      BY <1>0, <3>1, StateUpdates
    <3>3. worker' = [worker EXCEPT ![w] = state]
      BY <1>13, <2>1 DEF HeartbeatLost
    <3> QED
      BY <1>13, <3>2, <3>3, OneWorkerType, LocalStep DEF HeartbeatLost
  <2>2. CASE ~InRun(w)
    <3>1. worker' = [worker EXCEPT ![w] = [@ EXCEPT !.beat = NoBeat]]
      BY <1>13, <2>2 DEF HeartbeatLost
    <3>2. WorkerOK([worker[w] EXCEPT !.beat = NoBeat])
      BY <1>0, StateUpdates
    <3> QED
      BY <1>13, <3>1, <3>2, OneWorkerType, LocalStep DEF HeartbeatLost
  <2> QED
    BY <2>1, <2>2
<1>14. CASE BeginComplete(w)
  BY <1>14, CallType, LocalStep DEF BeginComplete, Calls
<1>15. CASE CompleteWithFence(w)
  <2> DEFINE j == worker[w].job
             s == job[j].source
  <2>1. j \in Job /\ s \in Source
    BY <1>0, <1>15 DEF CompleteWithFence, WorkerOK, TypeInv, DocumentsOK, JobDocument
  <2>2. job' \in [Job -> JobDocument]
    <3>0. PICK permitted \in BOOLEAN :
            job' = IF worker[w].result = "succeeded" /\ permitted
                   THEN [job EXCEPT ![j] = [@ EXCEPT !.status = "succeeded"]]
                   ELSE Failed(j, worker[w].result = "retryable" /\ permitted)
      BY <1>15, CompletionReads
    <3>1. CASE worker[w].result = "succeeded" /\ permitted
      <4>1. [job[j] EXCEPT !.status = "succeeded"] \in JobDocument
        BY <2>1, DocumentUpdates DEF TypeInv, DocumentsOK
      <4>2. job' = [job EXCEPT ![j] = [@ EXCEPT !.status = "succeeded"]]
        BY <3>0, <3>1
      <4> QED
        BY <4>1, <4>2 DEF TypeInv, DocumentsOK
    <3>2. CASE ~(worker[w].result = "succeeded" /\ permitted)
      <4> DEFINE again == worker[w].result = "retryable" /\ permitted
      <4>1. job' = Failed(j, again)
        BY <3>0, <3>2
      <4>2. again \in BOOLEAN
        OBVIOUS
      <4> HIDE DEF again
      <4> QED
        BY <2>1, <4>1, <4>2, FailedType DEF TypeInv
    <3> QED
      BY <3>1, <3>2
  <2>3. older' \in [Job -> SUBSET Job]
    BY <1>15, <2>1, OrderType DEF CompleteWithFence, TypeInv
  <2>4. owner' \in [Source -> Owner \cup {None}]
    BY <1>15, <2>1, ClearType DEF CompleteWithFence, TypeInv
  <2>5. worker' \in [Worker -> WorkerState] /\ WorkersName'
    BY <1>15, ReturnType DEF CompleteWithFence
  <2> QED
    BY <1>15, <2>2, <2>3, <2>4, <2>5
    DEF CompleteWithFence, TypeInv, DocumentsOK, RecoverersName
<1>16. CASE CompletionStale(w)
  <2>1. WorkerOK([worker[w] EXCEPT !.pc = "finalizing", !.age = 0, !.result = "fence_stale"])
    BY <1>0, <1>16, StateUpdates DEF CompletionStale, Calls, Results
  <2> QED
    BY <1>16, <2>1, OneWorkerType, LocalStep DEF CompletionStale
<1>17. CASE FinalizeOrphanedAttempt(w)
  <2> DEFINE j == worker[w].job
             s == job[j].source
  <2>1. j \in Job /\ s \in Source
    BY <1>0, <1>17 DEF FinalizeOrphanedAttempt, WorkerOK, TypeInv, DocumentsOK, JobDocument
  <2>2. job' \in [Job -> JobDocument]
    BY <1>17, <2>1, FailedType, FailAndRetryType DEF FinalizeOrphanedAttempt, TypeInv
  <2>3. older' \in [Job -> SUBSET Job]
    BY <1>17, <2>1, OrderType DEF FinalizeOrphanedAttempt, TypeInv
  <2>4. owner' \in [Source -> Owner \cup {None}]
    BY <1>17, <2>1, ClearType DEF FinalizeOrphanedAttempt, TypeInv, DocumentsOK
  <2>5. worker' \in [Worker -> WorkerState] /\ WorkersName'
    BY <1>17, ReturnType DEF FinalizeOrphanedAttempt
  <2> QED
    BY <1>17, <2>2, <2>3, <2>4, <2>5
    DEF FinalizeOrphanedAttempt, TypeInv, DocumentsOK, RecoverersName
<1>18. CASE DeferWithFence(w)
  <2> DEFINE j == worker[w].job
  <2>1. j \in Job /\ job[j].source \in Source
    BY <1>0, <1>18 DEF DeferWithFence, WorkerOK, TypeInv, DocumentsOK, JobDocument
  <2>2. /\ [job[j] EXCEPT !.status = "cancelled"] \in JobDocument
        /\ [job[j] EXCEPT !.status = "queued", !.gen = 0, !.wait = DeferTicks] \in JobDocument
    BY <2>1, DocumentUpdates DEF TypeInv, DocumentsOK
  <2>3. job' \in [Job -> JobDocument]
    BY <1>18, <2>1, <2>2 DEF DeferWithFence, TypeInv, DocumentsOK
  <2>4. older' \in [Job -> SUBSET Job]
    BY <1>18, <2>1, OrderType DEF DeferWithFence, TypeInv
  <2>5. owner' \in [Source -> Owner \cup {None}]
    BY <1>18, <2>1, ClearType DEF DeferWithFence, TypeInv
  <2>6. worker' \in [Worker -> WorkerState] /\ WorkersName'
    BY <1>18, ReturnType DEF DeferWithFence
  <2> QED
    BY <1>18, <2>3, <2>4, <2>5, <2>6 DEF DeferWithFence, TypeInv, DocumentsOK, RecoverersName
<1>19. CASE GiveUp(w)
  BY <1>19, ReturnType, LocalStep DEF GiveUp
<1>20. CASE WorkerCrash(w)
  BY <1>20, IdleOK, OneWorkerType, LocalStep DEF WorkerCrash
<1> QED
  BY <1>1, <1>2, <1>3, <1>4, <1>5, <1>6, <1>7, <1>8, <1>9, <1>10, <1>11, <1>12, <1>13,
     <1>14, <1>15, <1>16, <1>17, <1>18, <1>19, <1>20
  DEF WorkerStep, Progress, Beat

\* Going back to list, or to rest, keeps the recovery loops typed.
LEMMA RecovererUpdates ==
    ASSUME TypeInv, NEW r \in Recoverer,
           \/ Listing(r)
           \/ rec' = [rec EXCEPT ![r] = Resting]
           \/ rec' = [rec EXCEPT ![r] = [Resting EXCEPT !.pc = "listing"]]
    PROVE  rec' \in [Recoverer -> RecovererState] /\ RecoverersName'
<1>0. 0 \in 0..MaxLatency /\ 0 \in 0..MaxGeneration /\ rec[r].age \in 0..MaxLatency
  BY BoundsAssumption DEF RecovererState, TypeInv, DocumentsOK
<1>1. /\ Resting \in RecovererState
      /\ [Resting EXCEPT !.pc = "listing"] \in RecovererState
      /\ [Resting EXCEPT !.pc = "listing", !.age = rec[r].age] \in RecovererState
  BY <1>0 DEF Resting, RecovererState
<1>2. PICK state \in RecovererState :
        state.pc \in {"idle", "listing"} /\ rec' = [rec EXCEPT ![r] = state]
  BY <1>1 DEF Listing, Resting
<1> QED
  BY <1>2 DEF TypeInv, DocumentsOK, RecoverersName

\* Every step of a recovery loop keeps the state typed.
LEMMA RecovererStepTyped ==
    ASSUME TypeInv, NEW r \in Recoverer, RecovererStep(r)
    PROVE  TypeInv'
<1>1. CASE RecoverStart(r)
  BY <1>1, RecovererUpdates DEF RecoverStart, TypeInv, DocumentsOK, WorkersName, stores
<1>2. CASE RecoverList(r)
  <2>1. PICK pc \in {"lease", "orphan"}, j \in Job, g \in 0..MaxGeneration :
          rec' = [rec EXCEPT ![r] = [@ EXCEPT !.pc = pc, !.job = j, !.gen = g]]
    <3>1. ASSUME NEW s \in ExpiredFor(r)
          PROVE  owner[s].job \in Job /\ owner[s].gen \in 0..MaxGeneration
      BY BoundsAssumption DEF ExpiredFor, LeaseExpired, TypeInv, DocumentsOK, Owner
    <3>2. ASSUME NEW j \in Running
          PROVE  j \in Job /\ job[j].gen \in 0..MaxGeneration
      BY DEF Running, TypeInv, DocumentsOK, JobDocument
    <3> QED
      BY <1>2, <3>1, <3>2 DEF RecoverList
  <2>2. [rec[r] EXCEPT !.pc = pc, !.job = j, !.gen = g] \in RecovererState
    <3>1. rec[r] \in RecovererState
      BY DEF TypeInv, DocumentsOK
    <3> QED
      BY <3>1 DEF RecovererState
  <2>3. rec' \in [Recoverer -> RecovererState] /\ RecoverersName'
    BY <2>1, <2>2 DEF RecoverersName, RecovererState, TypeInv, DocumentsOK
  <2> QED
    BY <1>2, <2>3 DEF RecoverList, TypeInv, DocumentsOK, WorkersName, stores
<1>3. CASE RecoverLease(r)
  <2>1. rec[r].job \in Job /\ job[rec[r].job].source \in Source
    BY <1>3 DEF RecoverLease, TypeInv, DocumentsOK, RecoverersName, JobDocument
  <2>2. job' \in [Job -> JobDocument] /\ older' \in [Job -> SUBSET Job]
    BY <1>3, <2>1, FailAndRetryType, OrderType DEF RecoverLease, TypeInv, DocumentsOK
  <2>3. owner' \in [Source -> Owner \cup {None}]
    BY <1>3, <2>1, ClearType DEF RecoverLease, TypeInv
  <2> QED
    BY <1>3, <2>2, <2>3, RecovererUpdates DEF RecoverLease, TypeInv, DocumentsOK, WorkersName
<1>4. CASE RecoverOrphan(r)
  <2>1. rec[r].job \in Job
    BY <1>4 DEF RecoverOrphan, TypeInv, RecoverersName
  <2>2. job' \in [Job -> JobDocument] /\ older' \in [Job -> SUBSET Job]
    BY <1>4, <2>1, FailedType, OrderType DEF RecoverOrphan, TypeInv
  <2> QED
    BY <1>4, <2>2, RecovererUpdates DEF RecoverOrphan, TypeInv, DocumentsOK, WorkersName
<1>5. CASE RecoverEnd(r)
  BY <1>5, RecovererUpdates DEF RecoverEnd, TypeInv, DocumentsOK, WorkersName, stores
<1> QED
  BY <1>1, <1>2, <1>3, <1>4, <1>5 DEF RecovererStep

\* Changing the document of a source to a typed one keeps the state typed.
LEMMA SourceStepTyped ==
    ASSUME TypeInv, NEW s \in Source, NEW document \in SourceDocument, SetSource(s, document)
    PROVE  TypeInv'
BY DEF SetSource, TypeInv, DocumentsOK, WorkersName, RecoverersName, stores

\* A change of the job documents and their order to typed ones keeps the rest.
LEMMA JobStepTyped ==
    ASSUME TypeInv, job' \in [Job -> JobDocument], older' \in [Job -> SUBSET Job],
           request' \in [Admin -> Request \cup {None}],
           UNCHANGED <<highWater, owner, src, worker, rec, written>>
    PROVE  TypeInv'
BY DEF TypeInv, DocumentsOK, WorkersName, RecoverersName

\* Every admin command, and every change of a source, keeps the state typed.
LEMMA AdminStepTyped ==
    ASSUME TypeInv, AdminStep
    PROVE  TypeInv'
<1>1. ASSUME NEW a \in Admin, AskCreate(a) \/ AskRetry(a) PROVE TypeInv'
  <2>1. ASSUME NEW s \in Source PROVE src[s].version \in 1..MaxPolicy
    BY DEF TypeInv, DocumentsOK, SourceDocument
  <2>2. ASSUME NEW p \in Job, job[p].attempt < MaxAttempts
        PROVE  job[p].attempt + 1 \in 1..MaxAttempts /\ job[p].source \in Source
    BY <2>2, BoundsAssumption DEF TypeInv, DocumentsOK, JobDocument
  <2>3. 1 \in 1..MaxAttempts
    BY BoundsAssumption
  <2>4. request' \in [Admin -> Request \cup {None}]
    <3>1. CASE AskCreate(a)
      BY <3>1, <2>1, <2>3 DEF AskCreate, Request, TypeInv, DocumentsOK
    <3>2. CASE AskRetry(a)
      BY <3>2, <2>1, <2>2 DEF AskRetry, Request, TypeInv, DocumentsOK
    <3> QED
      BY <1>1, <3>1, <3>2
  <2> QED
    BY <1>1, <2>4, JobStepTyped DEF AskCreate, AskRetry, TypeInv, DocumentsOK, stores
<1>2. ASSUME NEW a \in Admin, InsertJob(a) PROVE TypeInv'
  <2> DEFINE q == request[a]
             d == [status |-> "queued", source |-> q.source, attempt |-> q.attempt,
                   parent |-> q.parent, gen |-> 0, policy |-> q.policy, key |-> q.key,
                   retryable |-> FALSE, cancel |-> FALSE, wait |-> 0]
  <2>1. q \in Request
    BY <1>2 DEF InsertJob, TypeInv, DocumentsOK
  <2>2. /\ q.source \in Source /\ q.attempt \in 0..MaxAttempts /\ q.policy \in 0..MaxPolicy
        /\ q.parent \in Job \cup {None} /\ q.key \in Key \cup {None}
        /\ 0 \in 0..MaxGeneration /\ 0 \in 0..DeferTicks
    BY <2>1, BoundsAssumption DEF Request
  <2>3. d \in JobDocument
    BY <2>2 DEF JobDocument
  <2>4. job' \in [Job -> JobDocument]
    BY <1>2, <2>3 DEF InsertJob, TypeInv, DocumentsOK
  <2>5. request' \in [Admin -> Request \cup {None}]
    BY <1>2 DEF InsertJob, TypeInv, DocumentsOK
  <2> QED
    BY <1>2, <2>4, <2>5, JobStepTyped DEF InsertJob, TypeInv, DocumentsOK
<1>3. ASSUME NEW a \in Admin, RequestEnds(a) PROVE TypeInv'
  BY <1>3, JobStepTyped DEF RequestEnds, TypeInv, DocumentsOK, stores
<1>4. ASSUME NEW j \in Job, CancelIngestionJob(j) PROVE TypeInv'
  <2>1. /\ [job[j] EXCEPT !.status = "cancelled", !.wait = 0] \in JobDocument
        /\ [job[j] EXCEPT !.cancel = TRUE] \in JobDocument
    BY DocumentUpdates DEF TypeInv, DocumentsOK
  <2>2. job' \in [Job -> JobDocument]
    BY <1>4, <2>1 DEF CancelIngestionJob, TypeInv, DocumentsOK
  <2>3. older' \in [Job -> SUBSET Job]
    BY <1>4, OrderType DEF CancelIngestionJob, TypeInv, DocumentsOK
  <2> QED
    BY <1>4, <2>2, <2>3, JobStepTyped DEF CancelIngestionJob, TypeInv, DocumentsOK
<1>5. ASSUME NEW j \in Job, PurgeDueIngestionJobs(j) PROVE TypeInv'
  <2>1. [job[j] EXCEPT !.status = "purged", !.key = None] \in JobDocument
    BY DocumentUpdates DEF TypeInv, DocumentsOK
  <2>2. job' \in [Job -> JobDocument]
    BY <1>5, <2>1 DEF PurgeDueIngestionJobs, TypeInv, DocumentsOK
  <2> QED
    BY <1>5, <2>2, JobStepTyped DEF PurgeDueIngestionJobs, TypeInv, DocumentsOK
<1>6. ASSUME NEW s \in Source,
             \/ TransitionOperationalStatus(s) \/ ApplySourceUpdate(s)
             \/ ReviewSourcePolicy(s) \/ RequestPolicyReReview(s) \/ RunTechnicalCheck(s)
      PROVE  TypeInv'
  <2>1. src[s] \in SourceDocument
    BY DEF TypeInv, DocumentsOK
  <2>2. ASSUME src[s].version < MaxPolicy PROVE src[s].version + 1 \in 1..MaxPolicy
    BY <2>1, <2>2, BoundsAssumption DEF SourceDocument
  <2>3. PICK document \in SourceDocument : SetSource(s, document)
    <3>1. CASE TransitionOperationalStatus(s)
      <4>1. [src[s] EXCEPT !.active = ~@] \in SourceDocument
        BY <2>1 DEF SourceDocument
      <4> QED
        BY <3>1, <4>1 DEF TransitionOperationalStatus
    <3>2. CASE ApplySourceUpdate(s)
      <4>1. PICK checked \in BOOLEAN :
              SetSource(s, [src[s] EXCEPT !.version = @ + 1, !.checked = checked])
        BY <2>1, <3>2 DEF ApplySourceUpdate, SourceDocument
      <4>2. [src[s] EXCEPT !.version = @ + 1, !.checked = checked] \in SourceDocument
        BY <2>1, <2>2, <3>2 DEF ApplySourceUpdate, SourceDocument
      <4> QED
        BY <4>1, <4>2
    <3>3. CASE ReviewSourcePolicy(s)
      <4>1. PICK licensed \in BOOLEAN :
              SetSource(s, [src[s] EXCEPT !.version = @ + 1, !.licensed = licensed])
        BY <3>3 DEF ReviewSourcePolicy
      <4>2. [src[s] EXCEPT !.version = @ + 1, !.licensed = licensed] \in SourceDocument
        BY <2>1, <2>2, <3>3 DEF ReviewSourcePolicy, SourceDocument
      <4> QED
        BY <4>1, <4>2
    <3>4. CASE RequestPolicyReReview(s)
      <4>1. [src[s] EXCEPT !.version = @ + 1, !.active = FALSE, !.licensed = FALSE]
              \in SourceDocument
        BY <2>1, <2>2, <3>4 DEF RequestPolicyReReview, SourceDocument
      <4> QED
        BY <3>4, <4>1 DEF RequestPolicyReReview
    <3>5. CASE RunTechnicalCheck(s)
      <4>1. PICK passed \in BOOLEAN : SetSource(s, [src[s] EXCEPT !.checked = passed])
        BY <3>5 DEF RunTechnicalCheck
      <4>2. [src[s] EXCEPT !.checked = passed] \in SourceDocument
        BY <2>1 DEF SourceDocument
      <4> QED
        BY <4>1, <4>2
    <3> QED
      BY <1>6, <3>1, <3>2, <3>3, <3>4, <3>5
  <2> QED
    BY <2>3, SourceStepTyped
<1> QED
  BY <1>1, <1>2, <1>3, <1>4, <1>5, <1>6, BoundsAssumption DEF AdminStep

\* The passing of time keeps the state typed.
LEMMA TickTyped ==
    ASSUME TypeInv, Tick
    PROVE  TypeInv'
<1>1. owner' \in [Source -> Owner \cup {None}]
  <2> SUFFICES ASSUME NEW s \in Source, owner[s] # None, owner[s].ttl # -MaxLatency
               PROVE  [owner[s] EXCEPT !.ttl = @ - 1] \in Owner
    BY DEF Tick, TypeInv, DocumentsOK
  <2>1. owner[s] \in Owner
    BY DEF TypeInv, DocumentsOK
  <2>2. owner[s].ttl - 1 \in -MaxLatency..LeaseTicks
    BY <2>1, BoundsAssumption DEF Owner
  <2> QED
    BY <2>1, <2>2 DEF Owner
<1>2. job' \in [Job -> JobDocument]
  BY DocumentUpdates DEF Tick, TypeInv, DocumentsOK
<1>3. ASSUME NEW w \in Worker
      PROVE  WorkerOK([worker[w] EXCEPT
                !.age = IF worker[w].pc \in Calls THEN @ + 1 ELSE @,
                !.beat = IF @ = NoBeat THEN @ ELSE @ + 1])
  <2> DEFINE age == IF worker[w].pc \in Calls THEN worker[w].age + 1 ELSE worker[w].age
             beat == IF worker[w].beat = NoBeat THEN worker[w].beat ELSE worker[w].beat + 1
  <2>1. WorkerOK(worker[w])
    BY WorkersOK
  <2>0. /\ worker[w].pc \in Calls => worker[w].age < MaxLatency
        /\ worker[w].beat < MaxLatency
        /\ worker[w].age \in 0..MaxLatency
        /\ worker[w].beat \in {-1} \cup (0..MaxLatency)
    BY <2>1 DEF Tick, WorkerOK, WorkerState, NoBeat
  <2>2. age \in 0..MaxLatency
    BY <2>0, BoundsAssumption
  <2>3. beat \in {NoBeat} \cup (0..MaxLatency) /\ (beat # NoBeat => worker[w].beat # NoBeat)
    BY <2>0, BoundsAssumption DEF NoBeat
  <2> HIDE DEF age, beat
  <2>4. [worker[w] EXCEPT !.age = age, !.beat = beat] \in WorkerState
    BY <2>1, <2>2, <2>3 DEF WorkerOK, WorkerState
  <2>5. WorkerOK([worker[w] EXCEPT !.age = age, !.beat = beat])
    BY <2>1, <2>3, <2>4 DEF WorkerOK, WorkerState
  <2> QED
    BY <2>5 DEF age, beat
<1>4. worker' \in [Worker -> WorkerState] /\ WorkersName'
  BY <1>3 DEF Tick, WorkerOK, WorkersName, TypeInv, DocumentsOK
<1>5. ASSUME NEW r \in Recoverer
      PROVE  rec'[r] \in RecovererState /\ rec'[r].pc = rec[r].pc /\ rec'[r].job = rec[r].job
  <2> DEFINE age == IF rec[r].pc = "idle" THEN rec[r].age ELSE rec[r].age + 1
  <2>1. rec[r] \in RecovererState
    BY DEF TypeInv, DocumentsOK
  <2>2. rec[r].age \in 0..MaxLatency /\ (rec[r].pc # "idle" => rec[r].age < MaxLatency)
    BY <2>1 DEF Tick, RecovererState
  <2>3. age \in 0..MaxLatency
    BY <2>2, BoundsAssumption
  <2>4. rec'[r] = [rec[r] EXCEPT !.age = age]
    BY DEF Tick
  <2> HIDE DEF age
  <2> QED
    BY <2>1, <2>3, <2>4 DEF RecovererState
<1>6. rec' \in [Recoverer -> RecovererState] /\ RecoverersName'
  BY <1>5 DEF Tick, RecoverersName, TypeInv
<1> QED
  BY <1>1, <1>2, <1>4, <1>6 DEF Tick, TypeInv, DocumentsOK

\* Every step keeps the state typed.
LEMMA NextTyped == TypeInv /\ [Step]_documents => TypeInv'
<1> SUFFICES ASSUME TypeInv, [Step]_documents PROVE TypeInv'
  OBVIOUS
<1>1. CASE UNCHANGED documents
  BY <1>1 DEF documents, TypeInv, DocumentsOK, WorkersName, RecoverersName
<1>2. CASE Step
  BY <1>2, WorkerStepTyped, RecovererStepTyped, AdminStepTyped, TickTyped DEF Step, Work
<1> QED
  BY <1>1, <1>2

\* What transactions may have read keeps its type, too.
SeenOK == seen \in [Worker -> SUBSET Reading]

LEMMA NowTyped == ASSUME NEW w \in Worker PROVE Now(w) \in Reading
<1>1. Permitted(w) \in BOOLEAN
  BY DEF Permitted, Eligible, Licensed
<1>2. 0 \in 0..MaxLatency
  BY BoundsAssumption
<1> QED
  BY <1>1, <1>2 DEF Now, Reading

LEMMA SnapshotsTyped ==
    ASSUME SeenOK, NEW ticks \in {0, 1}, Snapshots(ticks)
    PROVE  SeenOK'
<1> DEFINE reads(w) == {r \in Reads(w) : r.age + ticks <= MaxLatency}
           kept(w) == {[read EXCEPT !.age = @ + ticks] : read \in reads(w)} \ {Now(w)'}
<1>1. ASSUME NEW w \in Worker, NEW read \in reads(w)
      PROVE  [read EXCEPT !.age = @ + ticks] \in Reading
  <2>1. read \in Reading /\ read.age + ticks <= MaxLatency
    BY <1>1, NowTyped DEF SeenOK, Reads
  <2>2. read.age + ticks \in 0..MaxLatency
    BY <2>1, BoundsAssumption DEF Reading
  <2> QED
    BY <2>1, <2>2 DEF Reading
<1>2. \A w \in Worker : kept(w) \subseteq Reading
  BY <1>1
<1>3. seen' = [w \in Worker |-> IF InTransaction(w) /\ Unnoticed(w) THEN kept(w) ELSE {}]
  BY DEF Snapshots
<1> HIDE DEF kept
<1> QED
  BY <1>2, <1>3 DEF SeenOK

\* Documents, leases and local states keep their types: in particular a lease is
\* never extended past leaseMs, no attempt number passes the limit, and no
\* generation passes its bound.
THEOREM TypeCorrect == Spec => []TypeOK
<1>1. Init => SeenOK
  BY DEF Init, SeenOK
<1>2. SeenOK /\ [Next]_vars => SeenOK'
  BY SnapshotsTyped DEF Next, Beside, Passes, vars, SeenOK
<1>3. TypeInv /\ SeenOK => TypeOK
  BY DEF TypeInv, TypeOK, SeenOK
<1> QED
  BY <1>1, <1>2, <1>3, InitTyped, NextTyped, StepsOfDocuments, PTL DEF Spec

-----------------------------------------------------------------------------
(* 2. Fences *)

\* Jobs that owners and invocations name have been created.
NamedExist ==
    /\ \A s \in Source : owner[s] # None => job[owner[s].job].status # "unused"
    /\ \A w \in Worker : worker[w].job \in Job => job[worker[w].job].status # "unused"

\* The fences invocations hold, live or stale, were granted and differ.
HoldersApart ==
    /\ \A w \in Worker : Holds(w) =>
         worker[w].job \in Job /\ worker[w].gen <= highWater[job[worker[w].job].source]
    /\ \A v, w \in Worker :
         /\ Holds(v) /\ Holds(w)
         /\ job[worker[v].job].source = job[worker[w].job].source
         /\ worker[v].gen = worker[w].gen
         => v = w

\* The last batch carries a granted generation; under the generation that owns
\* the lease now only the owner's job can have written.
WrittenByOwner ==
    \A s \in Source :
        /\ written[s].gen <= highWater[s]
        /\ owner[s] # None /\ written[s].gen = owner[s].gen => written[s].job = owner[s].job

FenceInv == NamedExist /\ HoldersApart /\ WrittenByOwner /\ GenerationsAreFences

\* No owner appears, one that stays keeps its job and generation, and at most one
\* goes.
OwnersQuiet ==
    /\ \A s \in Source : owner'[s] # None =>
         owner[s] # None /\ owner'[s].job = owner[s].job /\ owner'[s].gen = owner[s].gen
    /\ \A s, t \in Source :
         owner[s] # None /\ owner'[s] = None /\ owner[t] # None /\ owner'[t] = None => s = t

\* Created jobs stay created, for their source, and none starts to run.
JobsQuiet ==
    /\ \A j \in Job : job[j].status # "unused" =>
         job'[j].status # "unused" /\ job'[j].source = job[j].source
    /\ \A j \in Job : job'[j].status = "running" =>
         job[j].status = "running" /\ job'[j].gen = job[j].gen

\* No invocation obtains a fence, and one that names a new job names a created one.
WorkersQuiet ==
    \A w \in Worker :
        /\ worker'[w].gen # 0 =>
             worker'[w].gen = worker[w].gen /\ worker'[w].job = worker[w].job
        /\ worker'[w].job \in Job =>
             worker'[w].job = worker[w].job \/ job[worker'[w].job].status # "unused"

\* A step that grants nothing, starts no job and writes no batch.
Quiet == UNCHANGED <<highWater, written>> /\ OwnersQuiet /\ JobsQuiet /\ WorkersQuiet

-----------------------------------------------------------------------------
(* Which steps are quiet *)

\* Leaving the stores alone is quiet.
LEMMA SameStores ==
    ASSUME UNCHANGED stores
    PROVE  UNCHANGED <<highWater, written>> /\ OwnersQuiet /\ JobsQuiet
BY DEF stores, OwnersQuiet, JobsQuiet

\* Clearing one owner is quiet.
LEMMA ClearQuiet ==
    ASSUME TypeInv, NEW s \in Source, Clear(s)
    PROVE  OwnersQuiet
BY DEF TypeInv, DocumentsOK, Clear, OwnersQuiet

\* So is a job document that ends, or goes back to the queue, for its own source.
LEMMA OneJobQuiet ==
    ASSUME TypeInv, NEW j \in Job, NEW d, job' = [job EXCEPT ![j] = d],
           d.status \notin {"unused", "running"}, d.source = job[j].source
    PROVE  JobsQuiet
BY DEF TypeInv, DocumentsOK, JobsQuiet

\* So is a failed attempt ...
LEMMA FailedQuiet ==
    ASSUME TypeInv, NEW j \in Job, NEW again \in BOOLEAN, job' = Failed(j, again)
    PROVE  JobsQuiet
<1>1. job[j] \in JobDocument
  BY DEF TypeInv, DocumentsOK
<1> DEFINE d == [job[j] EXCEPT !.status = "failed", !.retryable = again]
<1>2. d.status = "failed" /\ d.source = job[j].source
  BY <1>1 DEF JobDocument
<1>3. job' = [job EXCEPT ![j] = d]
  BY DEF Failed
<1> HIDE DEF d
<1> QED
  BY <1>2, <1>3, OneJobQuiet

\* ... with its linked retry: the new job is queued.
LEMMA FailAndRetryQuiet ==
    ASSUME TypeInv, NEW j \in Job, job[j].status # "unused", FailAndRetry(j)
    PROVE  JobsQuiet
<1>1. CASE job[j].attempt < MaxAttempts
  <2> DEFINE child == RecoveryChild(j)
             failed == [job[j] EXCEPT !.status = "failed", !.retryable = TRUE]
  <2>1. job[j] \in JobDocument
    BY DEF TypeInv, DocumentsOK
  <2>2. failed.status = "failed" /\ failed.source = job[j].source /\ child.status = "queued"
    BY <2>1 DEF JobDocument, RecoveryChild
  <2>3. NewJob \in Job /\ job[NewJob].status = "unused"
    BY <1>1, NewJobIsUnused DEF FailAndRetry, Unused
  <2>4. job' = [[job EXCEPT ![j] = failed] EXCEPT ![NewJob] = child]
    BY <1>1 DEF FailAndRetry, Failed
  <2> HIDE DEF child, failed
  <2> QED
    BY <2>2, <2>3, <2>4 DEF TypeInv, DocumentsOK, JobsQuiet
<1>2. CASE ~(job[j].attempt < MaxAttempts)
  BY <1>2, FailedQuiet DEF FailAndRetry
<1> QED
  BY <1>1, <1>2

\* A new local state with the fence and job of the old one, or without a fence
\* and with a created job, is quiet.
LEMMA OneWorkerQuiet ==
    ASSUME TypeInv, NEW w \in Worker, NEW state, worker' = [worker EXCEPT ![w] = state],
           state.gen = 0 \/ state.gen = worker[w].gen,
           \/ state.job = worker[w].job
           \/ state.gen = 0 /\ (state.job \in Job => job[state.job].status # "unused")
    PROVE  WorkersQuiet
BY DEF TypeInv, DocumentsOK, WorkersQuiet

\* Being idle is quiet.
LEMMA IdleQuiet ==
    ASSUME TypeInv, NEW w \in Worker, worker' = [worker EXCEPT ![w] = Idle]
    PROVE  WorkersQuiet
<1>1. Idle.gen = 0 /\ Idle.job \notin Job
  BY NoneAssumption DEF Idle
<1> QED
  BY <1>1, OneWorkerQuiet

\* Returning and entering a call are quiet.
LEMMA ReturnQuiet ==
    ASSUME TypeInv, NEW w \in Worker,
           Return(w) \/ \E pc \in Calls : Call(w, pc)
    PROVE  WorkersQuiet
<1>1. worker[w] \in WorkerState
  BY DEF TypeInv, DocumentsOK
<1>2. CASE worker' = [worker EXCEPT ![w] = Idle]
  BY <1>2, IdleQuiet
<1>3. CASE \E pc \in Calls : Call(w, pc)
  <2>1. PICK pc \in Calls : worker' = [worker EXCEPT ![w] = [@ EXCEPT !.pc = pc, !.age = 0]]
    BY <1>3 DEF Call
  <2> DEFINE state == [worker[w] EXCEPT !.pc = pc, !.age = 0]
  <2>2. state.gen = worker[w].gen /\ state.job = worker[w].job
    BY <1>1 DEF WorkerState
  <2>3. worker' = [worker EXCEPT ![w] = state]
    BY <2>1
  <2> HIDE DEF state
  <2> QED
    BY <2>2, <2>3, OneWorkerQuiet
<1>4. CASE Return(w) /\ worker[w].exec = "committing"
  <2> DEFINE state == [worker[w] EXCEPT !.pc = "idle", !.age = 0, !.beat = NoBeat,
                                        !.result = "final"]
  <2>1. state.gen = worker[w].gen /\ state.job = worker[w].job
    BY <1>1 DEF WorkerState
  <2>2. worker' = [worker EXCEPT ![w] = state]
    BY <1>4 DEF Return
  <2> HIDE DEF state
  <2> QED
    BY <2>1, <2>2, OneWorkerQuiet
<1> QED
  BY <1>2, <1>3, <1>4 DEF Return

\* A step of an invocation that is not a grant, a claim or a batch is quiet.
LEMMA WorkerStepQuiet ==
    ASSUME TypeInv, NamedExist, NEW w \in Worker, WorkerStep(w),
           ~(Acquire(w) \/ Claim(w) \/ CommitIngestionBatch(w))
    PROVE  Quiet
<1>0. WorkerOK(worker[w]) /\ worker[w] \in WorkerState
  BY WorkersOK DEF WorkerOK
<1>1. ASSUME worker[w].pc # "idle" \/ worker[w].beat # NoBeat
      PROVE  /\ worker[w].job \in Job
             /\ job[worker[w].job].source \in Source
             /\ job[worker[w].job].status # "unused"
             /\ job[worker[w].job] \in JobDocument
  BY <1>0, <1>1 DEF WorkerOK, NamedExist, TypeInv, DocumentsOK, JobDocument
<1>2. CASE Select(w)
  <2>1. PICK j \in Due :
          worker' = [worker EXCEPT ![w] = [Idle EXCEPT !.pc = "selected", !.job = j]]
    BY <1>2 DEF Select
  <2> DEFINE state == [Idle EXCEPT !.pc = "selected", !.job = j]
  <2>2. state.gen = 0 /\ state.job = j /\ job[j].status # "unused"
    BY DEF Idle, Due
  <2>3. worker' = [worker EXCEPT ![w] = state]
    BY <2>1
  <2> HIDE DEF state
  <2> QED
    BY <1>2, <2>2, <2>3, OneWorkerQuiet, SameStores DEF Select, Quiet
<1>3. CASE ClaimRefused(w)
  BY <1>3, ReturnQuiet, SameStores DEF ClaimRefused, Quiet, Calls
<1>4. CASE Release(w)
  <2>1. JobsQuiet
    BY <1>4 DEF Release, JobsQuiet
  <2> QED
    BY <1>1, <1>4, <2>1, ClearQuiet, ReturnQuiet DEF Release, Quiet
<1>5. ASSUME UNCHANGED <<stores, src, rec, request>>,
             NEW state, worker' = [worker EXCEPT ![w] = state],
             state.gen = worker[w].gen, state.job = worker[w].job
      PROVE  Quiet
  BY <1>5, OneWorkerQuiet, SameStores DEF Quiet
<1>6. CASE Fetched(w)
  <2> DEFINE state == [worker[w] EXCEPT !.exec = "committing"]
  <2>1. state.gen = worker[w].gen /\ state.job = worker[w].job
    BY <1>0 DEF WorkerState
  <2>2. worker' = [worker EXCEPT ![w] = state]
    BY <1>6 DEF Fetched
  <2> HIDE DEF state
  <2> QED
    BY <1>5, <1>6, <2>1, <2>2 DEF Fetched
<1>7. CASE ExecutorFails(w)
  <2>1. PICK result \in {"retryable", "final"} :
          worker' = [worker EXCEPT ![w] = [@ EXCEPT !.exec = "off", !.result = result]]
    BY <1>7 DEF ExecutorFails
  <2> DEFINE state == [worker[w] EXCEPT !.exec = "off", !.result = result]
  <2>2. state.gen = worker[w].gen /\ state.job = worker[w].job
    BY <1>0 DEF WorkerState
  <2>3. worker' = [worker EXCEPT ![w] = state]
    BY <2>1
  <2> HIDE DEF state
  <2> QED
    BY <1>5, <1>7, <2>2, <2>3 DEF ExecutorFails
<1>8. CASE LateCommitAborts(w)
  <2> DEFINE state == [worker[w] EXCEPT !.exec = "off"]
  <2>1. state.gen = worker[w].gen /\ state.job = worker[w].job
    BY <1>0 DEF WorkerState
  <2>2. worker' = [worker EXCEPT ![w] = Idle] \/ worker' = [worker EXCEPT ![w] = state]
    BY <1>8 DEF LateCommitAborts
  <2> HIDE DEF state
  <2> QED
    BY <1>5, <1>8, <2>1, <2>2, IdleQuiet, SameStores DEF LateCommitAborts, Quiet
<1>9. CASE DeadlineFires(w)
  <2> DEFINE state == [worker[w] EXCEPT !.exec = LeftInFlight(w), !.result = "final"]
  <2>1. state.gen = worker[w].gen /\ state.job = worker[w].job
    BY <1>0 DEF WorkerState
  <2>2. worker' = [worker EXCEPT ![w] = state]
    BY <1>9 DEF DeadlineFires
  <2> HIDE DEF state
  <2> QED
    BY <1>5, <1>9, <2>1, <2>2 DEF DeadlineFires
<1>10. CASE HeartbeatSent(w)
  <2> DEFINE state == [worker[w] EXCEPT !.beat = 0]
  <2>1. state.gen = worker[w].gen /\ state.job = worker[w].job
    BY <1>0 DEF WorkerState
  <2>2. worker' = [worker EXCEPT ![w] = state]
    BY <1>10 DEF HeartbeatSent
  <2> HIDE DEF state
  <2> QED
    BY <1>5, <1>10, <2>1, <2>2 DEF HeartbeatSent
<1>11. CASE Heartbeat(w)
  <2> DEFINE s == job[worker[w].job].source
             state == [worker[w] EXCEPT !.beat = NoBeat]
             beaten == [owner[s] EXCEPT !.ttl = LeaseTicks - worker[w].beat]
  <2>1. state.gen = worker[w].gen /\ state.job = worker[w].job
    BY <1>0 DEF WorkerState
  <2>2. s \in Source /\ owner[s] # None /\ owner[s] \in Owner
    BY <1>1, <1>11 DEF Heartbeat, Fenced, OwnedBy, TypeInv, DocumentsOK
  <2>3. LeaseTicks - worker[w].beat \in -MaxLatency..LeaseTicks
    BY <1>0, <1>11, BoundsAssumption DEF Heartbeat, WorkerState
  <2>4. beaten \in Owner /\ beaten.job = owner[s].job /\ beaten.gen = owner[s].gen
    BY <2>2, <2>3 DEF Owner
  <2>5. owner' = [owner EXCEPT ![s] = beaten] /\ worker' = [worker EXCEPT ![w] = state]
    BY <1>11 DEF Heartbeat
  <2> HIDE DEF state, beaten
  <2>6. OwnersQuiet
    BY <2>2, <2>4, <2>5, NoneAssumption DEF OwnersQuiet, TypeInv, DocumentsOK
  <2>7. JobsQuiet
    BY <1>11 DEF Heartbeat, JobsQuiet
  <2> QED
    BY <1>11, <2>1, <2>5, <2>6, <2>7, OneWorkerQuiet DEF Heartbeat, Quiet
<1>12. CASE HeartbeatLost(w)
  <2> DEFINE lost == [worker[w] EXCEPT !.pc = "finalizing", !.age = 0, !.beat = NoBeat,
                                       !.exec = LeftInFlight(w), !.result = "heartbeat_lost"]
             late == [worker[w] EXCEPT !.beat = NoBeat]
  <2>1. /\ lost.gen = worker[w].gen /\ lost.job = worker[w].job
        /\ late.gen = worker[w].gen /\ late.job = worker[w].job
    BY <1>0 DEF WorkerState
  <2>2. worker' = [worker EXCEPT ![w] = lost] \/ worker' = [worker EXCEPT ![w] = late]
    BY <1>12 DEF HeartbeatLost
  <2> HIDE DEF lost, late
  <2> QED
    BY <1>5, <1>12, <2>1, <2>2 DEF HeartbeatLost
<1>13. CASE BeginComplete(w)
  BY <1>13, ReturnQuiet, SameStores DEF BeginComplete, Quiet, Calls
<1>14. CASE CompleteWithFence(w)
  <2> DEFINE j == worker[w].job
             s == job[j].source
             done == [job[j] EXCEPT !.status = "succeeded"]
  <2>1. j \in Job /\ s \in Source /\ job[j] \in JobDocument
    BY <1>1, <1>14 DEF CompleteWithFence
  <2>2. done.status = "succeeded" /\ done.source = job[j].source
    BY <2>1 DEF JobDocument
  <2>3. job' = [job EXCEPT ![j] = done] \/ \E again \in BOOLEAN : job' = Failed(j, again)
    BY <1>14, CompletionReads
  <2>4. Clear(s) /\ Return(w) /\ UNCHANGED <<highWater, written>>
    BY <1>14 DEF CompleteWithFence
  <2> HIDE DEF done
  <2>5. JobsQuiet
    BY <2>1, <2>2, <2>3, OneJobQuiet, FailedQuiet
  <2> QED
    BY <2>1, <2>4, <2>5, ClearQuiet, ReturnQuiet DEF Quiet
<1>15. CASE CompletionStale(w)
  <2> DEFINE state == [worker[w] EXCEPT !.pc = "finalizing", !.age = 0, !.result = "fence_stale"]
  <2>1. state.gen = worker[w].gen /\ state.job = worker[w].job
    BY <1>0 DEF WorkerState
  <2>2. worker' = [worker EXCEPT ![w] = state]
    BY <1>15 DEF CompletionStale
  <2> HIDE DEF state
  <2> QED
    BY <1>5, <1>15, <2>1, <2>2 DEF CompletionStale
<1>16. CASE FinalizeOrphanedAttempt(w)
  <2> DEFINE j == worker[w].job
             s == job[j].source
  <2>1. j \in Job /\ s \in Source /\ job[j].status # "unused"
    BY <1>1, <1>16 DEF FinalizeOrphanedAttempt
  <2>2. JobsQuiet
    BY <1>16, <2>1, FailedQuiet, FailAndRetryQuiet DEF FinalizeOrphanedAttempt
  <2>3. OwnersQuiet
    BY <1>16, <2>1, ClearQuiet DEF FinalizeOrphanedAttempt, OwnersQuiet
  <2> QED
    BY <1>16, <2>2, <2>3, ReturnQuiet DEF FinalizeOrphanedAttempt, Quiet
<1>17. CASE DeferWithFence(w)
  <2> DEFINE j == worker[w].job
             d == IF job[j].cancel THEN [job[j] EXCEPT !.status = "cancelled"]
                  ELSE [job[j] EXCEPT !.status = "queued", !.gen = 0, !.wait = DeferTicks]
  <2>1. j \in Job /\ job[j].source \in Source /\ job[j] \in JobDocument
    BY <1>1, <1>17 DEF DeferWithFence
  <2>2. d.status \in {"cancelled", "queued"} /\ d.source = job[j].source
    BY <2>1 DEF JobDocument
  <2>3. job' = [job EXCEPT ![j] = d]
    BY <1>17 DEF DeferWithFence
  <2> HIDE DEF d
  <2>4. JobsQuiet
    BY <2>1, <2>2, <2>3, OneJobQuiet
  <2> QED
    BY <1>17, <2>1, <2>4, ClearQuiet, ReturnQuiet DEF DeferWithFence, Quiet
<1>18. CASE GiveUp(w)
  BY <1>18, ReturnQuiet, SameStores DEF GiveUp, Quiet
<1>19. CASE WorkerCrash(w)
  BY <1>19, IdleQuiet, SameStores DEF WorkerCrash, Quiet
<1> QED
  BY <1>2, <1>3, <1>4, <1>6, <1>7, <1>8, <1>9, <1>10, <1>11, <1>12, <1>13, <1>14, <1>15,
     <1>16, <1>17, <1>18, <1>19 DEF WorkerStep, Progress, Beat

\* Steps of recovery loops are quiet.
LEMMA RecovererStepQuiet ==
    ASSUME TypeInv, NEW r \in Recoverer, RecovererStep(r)
    PROVE  Quiet
<1>1. CASE RecoverStart(r) \/ RecoverList(r) \/ RecoverEnd(r)
  BY <1>1, SameStores DEF RecoverStart, RecoverList, RecoverEnd, Quiet, WorkersQuiet
<1>2. ASSUME UNCHANGED worker PROVE WorkersQuiet
  BY <1>2 DEF WorkersQuiet
<1>3. CASE RecoverLease(r)
  <2>1. rec[r].job \in Job /\ job[rec[r].job].source \in Source
    BY <1>3 DEF RecoverLease, TypeInv, DocumentsOK, RecoverersName, JobDocument
  <2>2. JobsQuiet
    <3>1. CASE RunningAs(rec[r].job, rec[r].gen)
      BY <1>3, <2>1, <3>1, FailAndRetryQuiet DEF RecoverLease, RunningAs
    <3>2. CASE ~RunningAs(rec[r].job, rec[r].gen)
      BY <1>3, <3>2 DEF RecoverLease, JobsQuiet
    <3> QED
      BY <3>1, <3>2
  <2> QED
    BY <1>2, <1>3, <2>1, <2>2, ClearQuiet DEF RecoverLease, Quiet
<1>4. CASE RecoverOrphan(r)
  <2>1. rec[r].job \in Job
    BY <1>4 DEF RecoverOrphan, TypeInv, RecoverersName
  <2>2. JobsQuiet
    BY <1>4, <2>1, FailedQuiet DEF RecoverOrphan
  <2>3. OwnersQuiet
    BY <1>4 DEF RecoverOrphan, OwnersQuiet
  <2> QED
    BY <1>2, <1>4, <2>2, <2>3 DEF RecoverOrphan, Quiet
<1> QED
  BY <1>1, <1>3, <1>4 DEF RecovererStep

\* Admin commands and changes of a source are quiet.
LEMMA AdminStepQuiet ==
    ASSUME TypeInv, AdminStep
    PROVE  Quiet
<1>1. ASSUME UNCHANGED <<highWater, owner, worker, written>>, JobsQuiet
      PROVE  Quiet
  BY <1>1 DEF Quiet, OwnersQuiet, WorkersQuiet
<1>2. ASSUME NEW a \in Admin, AskCreate(a) \/ AskRetry(a) \/ RequestEnds(a)
      PROVE  Quiet
  BY <1>1, <1>2, SameStores DEF AskCreate, AskRetry, RequestEnds, stores
<1>3. ASSUME NEW a \in Admin, InsertJob(a) PROVE Quiet
  <2> DEFINE q == request[a]
             d == [status |-> "queued", source |-> q.source, attempt |-> q.attempt,
                   parent |-> q.parent, gen |-> 0, policy |-> q.policy, key |-> q.key,
                   retryable |-> FALSE, cancel |-> FALSE, wait |-> 0]
  <2>1. NewJob \in Job /\ job[NewJob].status = "unused"
    BY <1>3, NewJobIsUnused DEF InsertJob, Unused
  <2>2. job' = [job EXCEPT ![NewJob] = d] /\ d.status = "queued"
    BY <1>3 DEF InsertJob
  <2> HIDE DEF d
  <2>3. JobsQuiet
    BY <2>1, <2>2 DEF JobsQuiet, TypeInv, DocumentsOK
  <2> QED
    BY <1>1, <1>3, <2>3 DEF InsertJob
<1>4. ASSUME NEW j \in Job, CancelIngestionJob(j) PROVE Quiet
  <2>0. job[j] \in JobDocument
    BY DEF TypeInv, DocumentsOK
  <2>1. CASE job[j].status = "queued"
    <3> DEFINE d == [job[j] EXCEPT !.status = "cancelled", !.wait = 0]
    <3>1. job' = [job EXCEPT ![j] = d]
      BY <1>4, <2>1 DEF CancelIngestionJob
    <3>2. d.status = "cancelled" /\ d.source = job[j].source
      BY <2>0 DEF JobDocument
    <3> HIDE DEF d
    <3>3. JobsQuiet
      BY <3>1, <3>2, OneJobQuiet
    <3> QED
      BY <1>1, <1>4, <3>3 DEF CancelIngestionJob
  <2>2. CASE job[j].status = "running"
    <3> DEFINE d == [job[j] EXCEPT !.cancel = TRUE]
    <3>1. job' = [job EXCEPT ![j] = d]
      BY <1>4, <2>2 DEF CancelIngestionJob
    <3>2. d.status = job[j].status /\ d.source = job[j].source /\ d.gen = job[j].gen
      BY <2>0 DEF JobDocument
    <3> HIDE DEF d
    <3>3. JobsQuiet
      BY <3>1, <3>2 DEF JobsQuiet, TypeInv, DocumentsOK
    <3> QED
      BY <1>1, <1>4, <3>3 DEF CancelIngestionJob
  <2> QED
    BY <1>4, <2>1, <2>2 DEF CancelIngestionJob
<1>5. ASSUME NEW j \in Job, PurgeDueIngestionJobs(j) PROVE Quiet
  <2> DEFINE d == [job[j] EXCEPT !.status = "purged", !.key = None]
  <2>1. job' = [job EXCEPT ![j] = d]
    BY <1>5 DEF PurgeDueIngestionJobs
  <2>2. d.status = "purged" /\ d.source = job[j].source
    BY DEF JobDocument, TypeInv, DocumentsOK
  <2> HIDE DEF d
  <2>3. JobsQuiet
    BY <2>1, <2>2, OneJobQuiet
  <2> QED
    BY <1>1, <1>5, <2>3 DEF PurgeDueIngestionJobs
<1>6. ASSUME NEW s \in Source,
             \/ TransitionOperationalStatus(s) \/ ApplySourceUpdate(s)
             \/ ReviewSourcePolicy(s) \/ RequestPolicyReReview(s) \/ RunTechnicalCheck(s)
      PROVE  Quiet
  <2>1. UNCHANGED stores /\ UNCHANGED worker
    BY <1>6 DEF TransitionOperationalStatus, ApplySourceUpdate, ReviewSourcePolicy,
                RequestPolicyReReview, RunTechnicalCheck, SetSource
  <2> QED
    BY <2>1, <1>1, SameStores DEF stores
<1> QED
  BY <1>2, <1>3, <1>4, <1>5, <1>6, BoundsAssumption DEF AdminStep

\* Time passing is quiet: it ages leases, and leaves who holds them.
LEMMA TickQuiet ==
    ASSUME TypeInv, Tick
    PROVE  Quiet
<1>1. OwnersQuiet
  <2>1. ASSUME NEW s \in Source, owner[s] # None
        PROVE  /\ owner'[s] # None
               /\ owner'[s].job = owner[s].job
               /\ owner'[s].gen = owner[s].gen
    <3>1. owner[s] \in Owner
      BY <2>1 DEF TypeInv, DocumentsOK
    <3>2. CASE owner[s].ttl = -MaxLatency
      BY <2>1, <3>2 DEF Tick
    <3>3. CASE owner[s].ttl # -MaxLatency
      <4> DEFINE aged == [owner[s] EXCEPT !.ttl = @ - 1]
      <4>1. owner[s].ttl - 1 \in -MaxLatency..LeaseTicks
        BY <3>1, <3>3, BoundsAssumption DEF Owner
      <4>2. aged \in Owner /\ aged.job = owner[s].job /\ aged.gen = owner[s].gen
        BY <3>1, <4>1 DEF Owner
      <4>3. owner'[s] = aged
        BY <2>1, <3>3 DEF Tick
      <4> HIDE DEF aged
      <4> QED
        BY <4>2, <4>3, NoneAssumption
    <3> QED
      BY <3>2, <3>3
  <2>2. ASSUME NEW s \in Source, owner[s] = None PROVE owner'[s] = None
    BY <2>2 DEF Tick
  <2> QED
    BY <2>1, <2>2 DEF OwnersQuiet
<1>2. JobsQuiet
  <2>1. ASSUME NEW j \in Job
        PROVE  /\ job'[j].status = job[j].status
               /\ job'[j].source = job[j].source
               /\ job'[j].gen = job[j].gen
    BY DEF Tick, JobDocument, TypeInv, DocumentsOK
  <2> QED
    BY <2>1 DEF JobsQuiet
<1>3. WorkersQuiet
  <2>1. ASSUME NEW w \in Worker
        PROVE  worker'[w].gen = worker[w].gen /\ worker'[w].job = worker[w].job
    BY DEF Tick, WorkerState, TypeInv, DocumentsOK
  <2> QED
    BY <2>1 DEF WorkersQuiet
<1> QED
  BY <1>1, <1>2, <1>3 DEF Tick, Quiet

\* So every step is a grant, a claim, a batch, or quiet.
LEMMA StepsAreQuiet ==
    ASSUME TypeInv, NamedExist, [Step]_documents
    PROVE  \/ \E w \in Worker : Acquire(w) \/ Claim(w) \/ CommitIngestionBatch(w)
           \/ Quiet
<1>1. CASE UNCHANGED documents
  BY <1>1, SameStores DEF documents, stores, Quiet, WorkersQuiet
<1>2. CASE Step
  BY <1>2, WorkerStepQuiet, RecovererStepQuiet, AdminStepQuiet, TickQuiet DEF Step, Work
<1> QED
  BY <1>1, <1>2

-----------------------------------------------------------------------------
(* The fence invariant *)

\* Initially nothing is named, held or written.
LEMMA InitFenced == Init => FenceInv
<1> SUFFICES ASSUME Init PROVE FenceInv
  OBVIOUS
<1>1. PICK s0 \in Source : job = [j \in Job |-> NoDocument(s0)]
  BY DEF Init
<1>2. \A s \in Source : owner[s] = None /\ written[s].gen = 0 /\ highWater[s] = 0
  BY DEF Init
<1>3. \A w \in Worker : worker[w].gen = 0 /\ worker[w].job \notin Job
  BY NoneAssumption DEF Init, Idle
<1>4. Running = {}
  BY <1>1 DEF Running, NoDocument
<1> QED
  BY <1>2, <1>3, <1>4
  DEF FenceInv, NamedExist, HoldersApart, WrittenByOwner, GenerationsAreFences, Holds

\* Quiet steps keep the invariant.
LEMMA QuietKeepsFences ==
    ASSUME TypeInv, TypeInv', FenceInv, Quiet
    PROVE  FenceInv'
<1>0. /\ highWater' = highWater /\ written' = written
      /\ \A s \in Source : owner[s] # None => owner[s].job \in Job
      /\ \A j \in Job : job[j].source \in Source /\ job'[j].source \in Source
      /\ \A w \in Worker : worker'[w].job \in Job \cup {None}
  BY DEF Quiet, TypeInv, DocumentsOK, Owner, JobDocument, WorkerState
<1>1. NamedExist'
  BY <1>0 DEF FenceInv, NamedExist, Quiet, OwnersQuiet, JobsQuiet, WorkersQuiet
<1>2. ASSUME NEW w \in Worker, worker'[w].gen # 0
      PROVE  /\ worker'[w].gen = worker[w].gen /\ worker'[w].job = worker[w].job
             /\ Holds(w) /\ worker[w].job \in Job
             /\ job'[worker[w].job].source = job[worker[w].job].source
  BY <1>2
  DEF FenceInv, NamedExist, HoldersApart, Holds, Quiet, JobsQuiet, WorkersQuiet
<1>3. HoldersApart'
  BY <1>0, <1>2 DEF FenceInv, HoldersApart, Holds
<1>4. WrittenByOwner'
  BY <1>0 DEF FenceInv, WrittenByOwner, Quiet, OwnersQuiet
<1>5. GenerationsAreFences'
  <2>1. ASSUME NEW j \in Job, job'[j].status = "running"
        PROVE  /\ j \in Running /\ job'[j].gen = job[j].gen
               /\ job'[j].source = job[j].source
    BY <2>1 DEF Running, Quiet, JobsQuiet
  <2>2. ASSUME NEW s \in Source, owner'[s] # None
        PROVE  /\ owner[s] # None /\ owner'[s].job = owner[s].job
               /\ owner'[s].gen = owner[s].gen
               /\ job'[owner[s].job].source = job[owner[s].job].source
    BY <1>0, <2>2 DEF FenceInv, NamedExist, Quiet, OwnersQuiet, JobsQuiet
  <2> QED
    BY <1>0, <2>1, <2>2 DEF FenceInv, GenerationsAreFences, Running
<1> QED
  BY <1>1, <1>3, <1>4, <1>5 DEF FenceInv

\* A grant keeps the invariant: its generation is above every one in use.
LEMMA AcquireKeepsFences ==
    ASSUME TypeInv, FenceInv, NEW w \in Worker, Acquire(w)
    PROVE  FenceInv'
<1> DEFINE j == worker[w].job
           s == job[j].source
           g == highWater[s] + 1
<1>1. /\ worker[w] \in WorkerState /\ j \in Job /\ s \in Source /\ job[j].status # "unused"
      /\ highWater[s] \in Nat /\ g \in 1..MaxGeneration
  BY BoundsAssumption
  DEF Acquire, TypeInv, DocumentsOK, WorkersName, JobDocument, FenceInv, NamedExist
<1>2. /\ owner[s] = None /\ job' = job /\ written' = written
      /\ highWater' = [highWater EXCEPT ![s] = g]
      /\ Grant(s, j, g)
      /\ worker' = [worker EXCEPT ![w] = [worker[w] EXCEPT !.pc = "claiming", !.gen = g]]
  BY DEF Acquire
<1>3. /\ owner'[s].job = j /\ owner'[s].gen = g
      /\ \A t \in Source : t # s => owner'[t] = owner[t]
  BY <1>1, <1>2, GrantType DEF TypeInv, DocumentsOK
<1>4. /\ worker'[w].job = j /\ worker'[w].gen = g
      /\ \A v \in Worker : v # w => worker'[v] = worker[v]
  BY <1>1, <1>2 DEF TypeInv, DocumentsOK, WorkerState
<1>5. /\ highWater'[s] = g
      /\ \A t \in Source : t # s => highWater'[t] = highWater[t]
  BY <1>1, <1>2 DEF TypeInv, DocumentsOK
<1>6. \A i \in Job : /\ job[i].source \in Source
                     /\ highWater[job[i].source] \in Nat
                     /\ job[i].gen \in Nat
  BY BoundsAssumption DEF TypeInv, DocumentsOK, JobDocument
<1>7. \A v \in Worker : worker[v].gen \in Nat
  BY BoundsAssumption DEF TypeInv, DocumentsOK, WorkerState
<1>8. NamedExist'
  BY <1>1, <1>2, <1>3, <1>4 DEF FenceInv, NamedExist
<1>9. HoldersApart'
  <2>1. ASSUME NEW v \in Worker, v # w, worker[v].gen # 0
        PROVE  /\ worker[v].job \in Job /\ worker[v].gen <= highWater[job[worker[v].job].source]
               /\ job[worker[v].job].source = s => worker[v].gen # g
    <3>1. worker[v].job \in Job /\ worker[v].gen <= highWater[job[worker[v].job].source]
      BY <2>1 DEF FenceInv, HoldersApart, Holds
    <3> QED
      BY <1>1, <1>7, <3>1
  <2>2. ASSUME NEW v \in Worker, worker'[v].gen # 0
        PROVE  worker'[v].job \in Job /\ worker'[v].gen <= highWater'[job[worker'[v].job].source]
    <3>1. CASE v = w
      BY <1>1, <1>4, <1>5, <3>1
    <3>2. CASE v # w
      <4>1. /\ worker[v].job \in Job
            /\ worker[v].gen <= highWater[job[worker[v].job].source]
        BY <1>4, <2>1, <2>2, <3>2
      <4> QED
        BY <1>1, <1>4, <1>5, <1>6, <1>7, <3>2, <4>1
    <3> QED
      BY <3>1, <3>2
  <2>3. ASSUME NEW u \in Worker, NEW v \in Worker, worker'[u].gen # 0, worker'[v].gen # 0,
               job[worker'[u].job].source = job[worker'[v].job].source,
               worker'[u].gen = worker'[v].gen
        PROVE  u = v
    BY <1>4, <2>1, <2>3 DEF FenceInv, HoldersApart, Holds
  <2> QED
    BY <1>2, <2>2, <2>3 DEF HoldersApart, Holds
<1>10. WrittenByOwner'
  <2>1. ASSUME NEW t \in Source
        PROVE  written[t].gen \in Nat /\ written[t].gen <= highWater[t]
    BY BoundsAssumption DEF FenceInv, WrittenByOwner, TypeInv, DocumentsOK
  <2>2. ASSUME NEW t \in Source, t # s
        PROVE  /\ written'[t].gen <= highWater'[t]
               /\ owner'[t] # None /\ written'[t].gen = owner'[t].gen
                     => written'[t].job = owner'[t].job
    BY <1>2, <1>3, <1>5, <2>2 DEF FenceInv, WrittenByOwner
  <2>3. written'[s].gen <= highWater'[s] /\ written'[s].gen # owner'[s].gen
    BY <1>1, <1>2, <1>3, <1>5, <2>1
  <2> QED
    BY <2>2, <2>3 DEF WrittenByOwner
<1>11. GenerationsAreFences'
  <2>1. ASSUME NEW t \in Source, owner'[t] # None
        PROVE  owner'[t].gen = highWater'[t] /\ job[owner'[t].job].source = t
    BY <1>3, <1>5, <2>1 DEF FenceInv, GenerationsAreFences
  <2>2. ASSUME NEW i \in Running
        PROVE  /\ job[i].gen \in 1..highWater'[job[i].source]
               /\ job[i].source = s => job[i].gen # g
               /\ /\ owner'[job[i].source] # None
                  /\ owner'[job[i].source].gen = job[i].gen
                  => owner'[job[i].source].job = i
    <3>1. i \in Job /\ job[i].gen \in 1..highWater[job[i].source]
      BY DEF FenceInv, GenerationsAreFences, Running
    <3>2. CASE job[i].source = s
      BY <1>1, <1>3, <1>5, <1>6, <3>1, <3>2
    <3>3. CASE job[i].source # s
      BY <1>3, <1>5, <1>6, <3>1, <3>3 DEF FenceInv, GenerationsAreFences
    <3> QED
      BY <3>2, <3>3
  <2>3. Running' = Running
    BY <1>2 DEF Running
  <2> QED
    BY <1>2, <2>1, <2>2, <2>3 DEF FenceInv, GenerationsAreFences
<1> QED
  BY <1>8, <1>9, <1>10, <1>11 DEF FenceInv

\* A claim keeps it: the job starts to run under the generation its owner holds,
\* which no other running job of the source carries.
LEMMA ClaimKeepsFences ==
    ASSUME TypeInv, FenceInv, NEW w \in Worker, Claim(w)
    PROVE  FenceInv'
<1> DEFINE j == worker[w].job
           s == job[j].source
           g == worker[w].gen
           d == [job[j] EXCEPT !.status = "running", !.gen = g]
<1>1. /\ worker[w] \in WorkerState /\ j \in Job /\ s \in Source /\ job[j] \in JobDocument
  BY DEF Claim, TypeInv, DocumentsOK, WorkersName, JobDocument
<1>2. /\ owner[s] # None /\ owner[s].job = j /\ owner[s].gen = g
      /\ highWater' = highWater /\ owner' = owner /\ written' = written
      /\ job' = [job EXCEPT ![j] = d]
  BY DEF Claim, Fenced, OwnedBy
<1>3. g \in 1..highWater[s]
  BY <1>1, <1>2 DEF FenceInv, GenerationsAreFences, TypeInv, DocumentsOK, Owner
<1>4. d.status = "running" /\ d.source = s /\ d.gen = g
  BY <1>1 DEF JobDocument
<1> HIDE DEF d
<1>5. /\ job'[j].status = "running" /\ job'[j].source = s /\ job'[j].gen = g
      /\ \A i \in Job : i # j => job'[i] = job[i]
  BY <1>1, <1>2, <1>4 DEF TypeInv, DocumentsOK
<1>6. \A i \in Job : job'[i].source = job[i].source
  BY <1>5
<1>7. WorkersQuiet
  <2>1. CASE \E pc \in Calls : Call(w, pc)
    BY <2>1, ReturnQuiet
  <2>2. CASE ~\E pc \in Calls : Call(w, pc)
    <3> DEFINE state == [worker[w] EXCEPT !.pc = "running", !.age = 0, !.exec = "fetching"]
    <3>1. worker' = [worker EXCEPT ![w] = state]
      BY <2>2 DEF Claim, Calls
    <3>2. state.gen = worker[w].gen /\ state.job = worker[w].job
      BY <1>1 DEF WorkerState
    <3> HIDE DEF state
    <3> QED
      BY <3>1, <3>2, OneWorkerQuiet
  <2> QED
    BY <2>1, <2>2
<1>8. \A v \in Worker : worker'[v].gen # 0 =>
         /\ worker'[v].gen = worker[v].gen /\ worker'[v].job = worker[v].job /\ Holds(v)
         /\ worker[v].job \in Job
  BY <1>7 DEF WorkersQuiet, Holds, FenceInv, HoldersApart
<1>9. NamedExist'
  <2>1. \A t \in Source : owner[t] # None => owner[t].job \in Job
    BY DEF TypeInv, DocumentsOK, Owner
  <2> QED
    BY <1>2, <1>5, <1>7, <2>1 DEF FenceInv, NamedExist, WorkersQuiet
<1>10. HoldersApart'
  BY <1>2, <1>6, <1>8 DEF FenceInv, HoldersApart, Holds
<1>11. WrittenByOwner'
  BY <1>2 DEF FenceInv, WrittenByOwner
<1>12. GenerationsAreFences'
  <2>1. ASSUME NEW t \in Source, owner[t] # None
        PROVE  owner[t].gen = highWater[t] /\ job'[owner[t].job].source = t
    <3>1. owner[t].job \in Job
      BY <2>1 DEF TypeInv, DocumentsOK, Owner
    <3> QED
      BY <1>6, <2>1, <3>1 DEF FenceInv, GenerationsAreFences
  <2>2. ASSUME NEW i \in Job, job'[i].status = "running"
        PROVE  /\ job'[i].gen \in 1..highWater[job'[i].source]
               /\ /\ owner[job'[i].source] # None
                  /\ owner[job'[i].source].gen = job'[i].gen
                  => owner[job'[i].source].job = i
               /\ i # j => i \in Running
    BY <1>2, <1>3, <1>5, <2>2 DEF FenceInv, GenerationsAreFences, Running
  <2>3. ASSUME NEW i \in Job, NEW k \in Job, job'[i].status = "running",
               job'[k].status = "running", job'[i].source = job'[k].source,
               job'[i].gen = job'[k].gen
        PROVE  i = k
    <3>1. CASE i # j /\ k # j
      BY <1>5, <2>2, <2>3, <3>1 DEF FenceInv, GenerationsAreFences
    <3>2. CASE i = j \/ k = j
      BY <1>2, <1>5, <2>2, <2>3, <3>2
    <3> QED
      BY <3>1, <3>2
  <2> QED
    BY <1>2, <2>1, <2>2, <2>3 DEF GenerationsAreFences, Running
<1> QED
  BY <1>9, <1>10, <1>11, <1>12 DEF FenceInv

\* A batch keeps it: it is written by the owner, under the newest generation.
LEMMA BatchKeepsFences ==
    ASSUME TypeInv, FenceInv, NEW w \in Worker, CommitIngestionBatch(w)
    PROVE  FenceInv'
<1> DEFINE j == worker[w].job
           s == job[j].source
<1>1. /\ worker[w] \in WorkerState /\ j \in Job /\ s \in Source
  BY DEF CommitIngestionBatch, MayCommit, Fenced, OwnedBy, TypeInv, DocumentsOK, WorkersName,
         JobDocument
<1>2. /\ owner[s] # None /\ owner[s].job = j /\ owner[s].gen = worker[w].gen
      /\ highWater' = highWater /\ owner' = owner /\ job' = job
      /\ written' = [written EXCEPT ![s] = [job |-> j, gen |-> worker[w].gen]]
  BY DEF CommitIngestionBatch, MayCommit, Fenced, OwnedBy
<1>3. WorkersQuiet
  <2>1. CASE worker' = [worker EXCEPT ![w] = Idle]
    BY <2>1, IdleQuiet
  <2>2. CASE worker' # [worker EXCEPT ![w] = Idle]
    <3>1. PICK result :
            worker' = [worker EXCEPT ![w] = [@ EXCEPT !.exec = "off", !.result = result]]
      BY <2>2 DEF CommitIngestionBatch
    <3> DEFINE state == [worker[w] EXCEPT !.exec = "off", !.result = result]
    <3>2. worker' = [worker EXCEPT ![w] = state]
      BY <3>1
    <3>3. state.gen = worker[w].gen /\ state.job = worker[w].job
      BY <1>1 DEF WorkerState
    <3> HIDE DEF state
    <3> QED
      BY <3>2, <3>3, OneWorkerQuiet
  <2> QED
    BY <2>1, <2>2
<1>4. \A v \in Worker : worker'[v].gen # 0 =>
         worker'[v].gen = worker[v].gen /\ worker'[v].job = worker[v].job /\ Holds(v)
  BY <1>3 DEF WorkersQuiet, Holds
<1>5. NamedExist'
  BY <1>2, <1>3 DEF FenceInv, NamedExist, WorkersQuiet
<1>6. HoldersApart'
  BY <1>2, <1>4 DEF FenceInv, HoldersApart, Holds
<1>7. WrittenByOwner'
  <2>1. /\ written'[s].job = j /\ written'[s].gen = worker[w].gen
        /\ \A t \in Source : t # s => written'[t] = written[t]
    BY <1>1, <1>2 DEF TypeInv, DocumentsOK
  <2>2. worker[w].gen = highWater[s] /\ highWater[s] \in Nat
    BY <1>1, <1>2, BoundsAssumption DEF FenceInv, GenerationsAreFences, TypeInv, DocumentsOK
  <2> QED
    BY <1>2, <2>1, <2>2 DEF FenceInv, WrittenByOwner
<1>8. GenerationsAreFences'
  BY <1>2 DEF FenceInv, GenerationsAreFences, Running
<1> QED
  BY <1>5, <1>6, <1>7, <1>8 DEF FenceInv

\* Every step keeps the invariant.
LEMMA NextFenced == TypeInv /\ TypeInv' /\ FenceInv /\ [Step]_documents => FenceInv'
BY StepsAreQuiet, QuietKeepsFences, AcquireKeepsFences, ClaimKeepsFences, BatchKeepsFences
DEF FenceInv

\* Both invariants hold throughout.
LEMMA AlwaysFenced == Spec => [](TypeInv /\ FenceInv)
<1>1. Init => TypeInv /\ FenceInv
  BY InitTyped, InitFenced
<1>2. TypeInv /\ FenceInv /\ [Step]_documents => TypeInv' /\ FenceInv'
  BY NextTyped, NextFenced
<1> QED
  BY <1>1, <1>2, StepsOfDocuments, PTL DEF Spec

-----------------------------------------------------------------------------
(* What follows *)

\* The lease document and the running jobs agree on who holds which generation,
\* whatever heartbeats, recoveries and crashes interleave.
THEOREM FencesAreGenerations == Spec => []GenerationsAreFences
<1>1. FenceInv => GenerationsAreFences
  BY DEF FenceInv
<1> QED
  BY <1>1, AlwaysFenced, PTL

\* Of any number of overlapping claimAndExecute invocations, at most one per
\* source passes a fence check.
THEOREM FenceIsExclusive == Spec => []ExclusiveFence
<1>1. TypeInv /\ FenceInv => ExclusiveFence
  BY DEF FenceInv, HoldersApart, ExclusiveFence, Fenced, OwnedBy, Holds
<1> QED
  BY <1>1, AlwaysFenced, PTL

\* A step that writes a batch does so under the newest generation.
LEMMA BatchesAreFresh == TypeInv /\ FenceInv /\ [Step]_documents => BatchStep
<1> SUFFICES ASSUME TypeInv, FenceInv, [Step]_documents, NEW s \in Source,
                    written'[s] # written[s]
             PROVE  LET j == written'[s].job IN
                    /\ written'[s].gen = highWater[s]
                    /\ written'[s].gen > written[s].gen
                    /\ OwnedBy(j, written'[s].gen) /\ RunningAs(j, written'[s].gen)
                    /\ \E w \in Worker :
                         /\ worker[w].job = j /\ worker[w].gen = written'[s].gen
                         /\ \E read \in Reads(w) :
                              owner[s].ttl + read.age > 0 /\ read.permitted
  BY DEF BatchStep
<1>1. PICK w \in Worker : CommitIngestionBatch(w)
  BY StepsAreQuiet DEF FenceInv, Quiet, Acquire, Claim
<1> DEFINE j == worker[w].job
<1>2. /\ written' = [written EXCEPT ![job[j].source] = [job |-> j, gen |-> worker[w].gen]]
      /\ OwnedBy(j, worker[w].gen) /\ RunningAs(j, worker[w].gen)
      /\ \E read \in Reads(w) :
           owner[job[j].source].ttl + read.age > 0 /\ read.permitted
  BY <1>1 DEF CommitIngestionBatch, MayCommit, Fenced
<1>3. s = job[j].source /\ written'[s] = [job |-> j, gen |-> worker[w].gen]
  BY <1>2 DEF TypeInv, DocumentsOK
<1>4. /\ owner[s] # None /\ owner[s].job = j /\ owner[s].gen = worker[w].gen
  BY <1>2, <1>3 DEF OwnedBy
<1>6. /\ worker[w].gen = highWater[s] /\ written[s].gen <= highWater[s]
      /\ highWater[s] \in Nat /\ written[s].gen \in Nat
  BY <1>4, BoundsAssumption
  DEF FenceInv, GenerationsAreFences, WrittenByOwner, TypeInv, DocumentsOK
<1>7. written[s].gen # worker[w].gen
  <2> SUFFICES ASSUME written[s].gen = worker[w].gen PROVE FALSE
    OBVIOUS
  <2>1. written[s].job = j
    BY <1>4 DEF FenceInv, WrittenByOwner
  <2>2. written[s] = [job |-> j, gen |-> worker[w].gen]
    BY <2>1 DEF TypeInv, DocumentsOK
  <2> QED
    BY <1>3, <2>2
<1> QED
  <2>1. written'[s].job = j /\ written'[s].gen = worker[w].gen /\ worker[w].job = j
    BY <1>3
  <2>2. written'[s].gen > written[s].gen /\ written'[s].gen = highWater[s]
    BY <1>6, <1>7, <2>1
  <2>3. OwnedBy(j, written'[s].gen) /\ RunningAs(j, written'[s].gen)
    BY <1>2, <2>1
  <2>4. \E read \in Reads(w) : owner[s].ttl + read.age > 0 /\ read.permitted
    BY <1>2, <1>3
  <2> HIDE DEF j
  <2> QED
    BY <2>1, <2>2, <2>3, <2>4

\* No article batch is written by an attempt that was superseded or has ended, nor
\* by one whose transaction found its lease expired or its source closed to it:
\* what is only read can change until the commit, what is written cannot.
THEOREM NoBatchIsStale == Spec => NoStaleBatch
<1>1. TypeInv /\ FenceInv /\ [Next]_vars => [BatchStep]_vars
  BY BatchesAreFresh, StepsOfDocuments
<1> QED
  BY <1>1, AlwaysFenced, PTL DEF Spec, NoStaleBatch

\* The leases implement the fencing lease of ADR-0010: every step is a grant of a
\* new generation, a return, an effect of the generation in force, or no step.
THEOREM LeasesFence == Spec => ImplementsFencing
<1>1. Init => Fencing!Init
  <2> SUFFICES ASSUME Init PROVE Fencing!Init
    OBVIOUS
  <2>1. /\ highWater = [s \in Source |-> 0]
        /\ \A s \in Source : owner[s] = None /\ written[s].gen = 0
    BY DEF Init
  <2> QED
    BY <2>1 DEF Fencing!Init
<1>2. TypeInv /\ FenceInv /\ TypeInv' /\ [Step]_documents => [Fencing!Next]_(Fencing!vars)
  <2> SUFFICES ASSUME TypeInv, FenceInv, TypeInv', [Step]_documents
               PROVE  [Fencing!Next]_(Fencing!vars)
    OBVIOUS
  <2> DEFINE held == [s \in Source |-> owner[s] # None]
             effect == [s \in Source |-> written[s].gen]
  <2>1. CASE \E w \in Worker : Acquire(w)
    <3>1. PICK w \in Worker : Acquire(w)
      BY <2>1
    <3>0. PICK s \in Source : s = job[worker[w].job].source
      BY <3>1 DEF Acquire, TypeInv, DocumentsOK, WorkersName, JobDocument
    <3>2. s \in Source /\ owner[s] = None
      BY <3>0, <3>1 DEF Acquire
    <3>3. /\ Grant(s, worker[w].job, highWater[s] + 1) /\ written' = written
          /\ highWater' = [highWater EXCEPT ![s] = @ + 1]
      BY <3>0, <3>1 DEF Acquire
    <3>4. PICK o \in Owner : owner' = [owner EXCEPT ![s] = o] /\ o # None
      <4>1. worker[w].job \in Job
        BY <3>1 DEF Acquire, TypeInv, WorkersName
      <4>2. highWater[s] + 1 \in 1..MaxGeneration
        BY <3>0, <3>1, <3>2, BoundsAssumption DEF Acquire, TypeInv, DocumentsOK
      <4> QED
        BY <3>2, <3>3, <4>1, <4>2, GrantType
    <3>5. held' = [held EXCEPT ![s] = TRUE] /\ effect' = effect /\ ~held[s]
      BY <3>2, <3>3, <3>4 DEF TypeInv, DocumentsOK
    <3> HIDE DEF held, effect
    <3>6. Fencing!Grant(s)
      BY <3>3, <3>5 DEF Fencing!Grant, held, effect
    <3> QED
      BY <3>2, <3>6 DEF Fencing!Next
  <2>2. CASE \E w \in Worker : Claim(w)
    BY <2>2 DEF Claim, Fencing!vars
  <2>3. CASE \E w \in Worker : CommitIngestionBatch(w)
    <3>1. PICK w \in Worker : CommitIngestionBatch(w)
      BY <2>3
    <3> DEFINE j == worker[w].job
    <3>2. PICK s \in Source : s = job[j].source
      BY <3>1 DEF CommitIngestionBatch, TypeInv, DocumentsOK, WorkersName, JobDocument
    <3>3. /\ owner[s] # None /\ owner[s].gen = worker[w].gen
          /\ highWater' = highWater /\ owner' = owner
          /\ written' = [written EXCEPT ![s] = [job |-> j, gen |-> worker[w].gen]]
      BY <3>1, <3>2 DEF CommitIngestionBatch, MayCommit, Fenced, OwnedBy
    <3>4. worker[w].gen = highWater[s]
      BY <3>2, <3>3 DEF FenceInv, GenerationsAreFences
    <3>5. effect' = [effect EXCEPT ![s] = highWater[s]] /\ held' = held /\ held[s]
      BY <3>2, <3>3, <3>4 DEF TypeInv, DocumentsOK
    <3>6. Fencing!Effect(s)
      BY <3>3, <3>5 DEF Fencing!Effect
    <3> QED
      BY <3>2, <3>6 DEF Fencing!Next
  <2>4. CASE Quiet
    <3>1. highWater' = highWater /\ effect' = effect
      BY <2>4 DEF Quiet
    <3>2. CASE \A s \in Source : owner[s] # None => owner'[s] # None
      <4>1. held' = held
        BY <2>4, <3>2 DEF Quiet, OwnersQuiet
      <4> QED
        BY <3>1, <4>1 DEF Fencing!vars
    <3>3. CASE \E s \in Source : owner[s] # None /\ owner'[s] = None
      <4>1. PICK s \in Source : owner[s] # None /\ owner'[s] = None
        BY <3>3
      <4>2. held' = [held EXCEPT ![s] = FALSE] /\ held[s]
        BY <2>4, <4>1 DEF Quiet, OwnersQuiet
      <4>3. Fencing!Return(s)
        BY <3>1, <4>2 DEF Fencing!Return
      <4> QED
        BY <4>1, <4>3 DEF Fencing!Next
    <3> QED
      BY <3>2, <3>3
  <2> QED
    BY <2>1, <2>2, <2>3, <2>4, StepsAreQuiet DEF FenceInv
<1> QED
  BY <1>1, <1>2, AlwaysFenced, StepsOfDocuments, PTL DEF Spec, ImplementsFencing, Fencing!Spec

-----------------------------------------------------------------------------
(* 3. Outcomes *)

\* Only queued jobs wait.
Rests(d) == d.status # "queued" => d.wait = 0

\* What a step may make of a document d.
Moves(d, e) ==
    /\ e.source = d.source /\ e.attempt = d.attempt /\ e.parent = d.parent
    /\ d.status \in Terminal => e = d \/ (e.status = "purged" /\ e.retryable = d.retryable)
    /\ d.status = "purged" => e.status = "purged" /\ e.retryable = d.retryable
    /\ d.status = "unused" <=> e.status = "unused"
    /\ e.key = d.key \/ e.status = "purged"
    /\ Rests(e)

\* What a retry, asked for or inserted, says of its parent p.
Follows(p, source, attempt) ==
    /\ p.status \in {"failed", "purged"} /\ p.retryable
    /\ p.source = source /\ attempt = p.attempt + 1

\* A job that a step adds: the one child of its parent, the one job of its key.
Fresh(c) ==
    /\ job[c].status = "unused" /\ job'[c].status = "queued" /\ Rests(job'[c])
    /\ job'[c].parent # None =>
         /\ job'[c].parent \in Job \ {c}
         /\ Follows(job'[job'[c].parent], job'[c].source, job'[c].attempt)
         /\ \A d \in Job : Stored(d) => job[d].parent # job'[c].parent
    /\ job'[c].key # None => \A d \in Job : Stored(d) => job[d].key # job'[c].key

\* One step, with the job it adds, or None.
Grows(c) ==
    /\ c \in Job => Fresh(c)
    /\ \A j \in Job \ {c} : Moves(job[j], job'[j])

RequestFits(a) ==
    request[a] # None /\ request[a].parent # None =>
        Follows(job[request[a].parent], request[a].source, request[a].attempt)

RetryInv ==
    /\ LinkedRetries
    /\ \A j \in Job : Rests(job[j])
    /\ \A a \in Admin : RequestFits(a)

-----------------------------------------------------------------------------
\* The updates of a document that actions make are moves.
LEMMA DocumentMoves ==
    ASSUME NEW d \in JobDocument, Rests(d)
    PROVE  /\ Moves(d, d)
           /\ Moves(d, [d EXCEPT !.wait = IF @ = 0 THEN 0 ELSE @ - 1])
           /\ d.status = "queued" =>
                /\ d.wait = 0 => \A g \in 0..MaxGeneration :
                     Moves(d, [d EXCEPT !.status = "running", !.gen = g])
                /\ Moves(d, [d EXCEPT !.status = "cancelled", !.wait = 0])
           /\ d.status = "running" =>
                /\ \A again \in BOOLEAN :
                     Moves(d, [d EXCEPT !.status = "failed", !.retryable = again])
                /\ Moves(d, [d EXCEPT !.status = "succeeded"])
                /\ Moves(d, [d EXCEPT !.status = "cancelled"])
                /\ Moves(d, [d EXCEPT !.status = "queued", !.gen = 0, !.wait = DeferTicks])
                /\ Moves(d, [d EXCEPT !.cancel = TRUE])
           /\ d.status \in Terminal => Moves(d, [d EXCEPT !.status = "purged", !.key = None])
<1> USE DEF Moves, Rests, Terminal
<1>1. Moves(d, d)
  OBVIOUS
<1>2. Moves(d, [d EXCEPT !.wait = IF @ = 0 THEN 0 ELSE @ - 1])
  <2> DEFINE wait == IF d.wait = 0 THEN 0 ELSE d.wait - 1
  <2>1. CASE d.wait = 0
    <3>1. [d EXCEPT !.wait = 0] = d
      BY <2>1, SMT DEF JobDocument
    <3> QED
      BY <1>1, <2>1, <3>1
  <2>2. CASE d.wait # 0
    BY <2>2, SMT DEF JobDocument
  <2> QED
    BY <2>1, <2>2
<1>3. ASSUME d.status = "queued", d.wait = 0, NEW g \in 0..MaxGeneration
      PROVE  Moves(d, [d EXCEPT !.status = "running", !.gen = g])
  BY <1>3, SMT DEF JobDocument
<1>4. ASSUME d.status = "queued" PROVE Moves(d, [d EXCEPT !.status = "cancelled", !.wait = 0])
  BY <1>4, SMT DEF JobDocument
<1>5. ASSUME d.status = "running", NEW again \in BOOLEAN
      PROVE  Moves(d, [d EXCEPT !.status = "failed", !.retryable = again])
  BY <1>5, SMT DEF JobDocument
<1>6. ASSUME d.status = "running"
      PROVE  /\ Moves(d, [d EXCEPT !.status = "succeeded"])
             /\ Moves(d, [d EXCEPT !.status = "cancelled"])
  BY <1>6, SMT DEF JobDocument
<1>7. ASSUME d.status = "running"
      PROVE  /\ Moves(d, [d EXCEPT !.status = "queued", !.gen = 0, !.wait = DeferTicks])
             /\ Moves(d, [d EXCEPT !.cancel = TRUE])
  BY <1>7, SMT DEF JobDocument
<1>8. ASSUME d.status \in Terminal
      PROVE  Moves(d, [d EXCEPT !.status = "purged", !.key = None])
  BY <1>8, SMT DEF JobDocument
<1> HIDE DEF Moves, Rests, Terminal
<1> QED
  BY <1>1, <1>2, <1>3, <1>4, <1>5, <1>6, <1>7, <1>8

\* A step that grows the jobs so, and asks for no other retry, keeps the forest.
LEMMA GrowthKeeps ==
    ASSUME TypeInv, TypeInv', RetryInv, NEW c, Grows(c),
           \A a \in Admin : request'[a] # None => request'[a] = request[a]
    PROVE  RetryInv'
<1>1. ASSUME NEW j \in Job, NEW source, NEW attempt, Follows(job[j], source, attempt)
      PROVE  Follows(job'[j], source, attempt)
  <2>1. Moves(job[j], job'[j])
    BY <1>1 DEF Grows, Fresh, Follows
  <2> QED
    BY <1>1, <2>1 DEF Moves, Follows, Terminal
<1>2. \A j \in Job : Rests(job'[j])
  BY DEF Grows, Fresh, Moves
<1>3. ASSUME NEW a \in Admin PROVE RequestFits(a)'
  <2> SUFFICES ASSUME request'[a] # None, request'[a].parent # None
               PROVE  Follows(job'[request'[a].parent], request'[a].source, request'[a].attempt)
    BY DEF RequestFits
  <2>1. request'[a] = request[a] /\ request[a] \in Request
    BY DEF TypeInv, DocumentsOK
  <2>2. request[a].parent \in Job
    BY <2>1 DEF Request
  <2> QED
    BY <1>1, <2>1, <2>2 DEF RetryInv, RequestFits
<1>4. \A x \in Job : job[x].parent \in Job \cup {None} /\ job'[x].parent \in Job \cup {None}
  BY DEF TypeInv, DocumentsOK, JobDocument
<1>5. ASSUME NEW x \in Job, job'[x].parent # None
      PROVE  Follows(job'[job'[x].parent], job'[x].source, job'[x].attempt)
  <2>1. CASE x = c
    BY <1>5, <2>1 DEF Grows, Fresh
  <2>2. CASE x # c
    <3>1. Moves(job[x], job'[x])
      BY <2>2 DEF Grows
    <3>2. /\ job'[x].parent = job[x].parent /\ job'[x].source = job[x].source
          /\ job'[x].attempt = job[x].attempt
      BY <3>1 DEF Moves
    <3>3. Follows(job[job[x].parent], job[x].source, job[x].attempt)
      BY <1>5, <3>2 DEF RetryInv, LinkedRetries, Follows
    <3> QED
      BY <1>1, <1>4, <1>5, <3>2, <3>3
  <2> QED
    BY <2>1, <2>2
<1>6. ASSUME NEW x \in Job, x # c, Stored(x)'
      PROVE  Stored(x) /\ job'[x].parent = job[x].parent /\ job'[x].key = job[x].key
  BY <1>6 DEF Grows, Moves, Stored
<1>7. ASSUME NEW x \in Job, NEW y \in Job, Stored(x)', Stored(y)', x # y,
             \/ job'[x].parent # None /\ job'[x].parent = job'[y].parent
             \/ job'[x].key # None /\ job'[x].key = job'[y].key
      PROVE  FALSE
  <2>1. CASE x = c \/ y = c
    BY <1>6, <1>7, <2>1 DEF Grows, Fresh
  <2>2. CASE x # c /\ y # c
    BY <1>6, <1>7, <2>2 DEF RetryInv, LinkedRetries
  <2> QED
    BY <2>1, <2>2
<1>8. LinkedRetries'
  BY <1>5, <1>7 DEF LinkedRetries, Follows
<1> QED
  BY <1>2, <1>3, <1>8 DEF RetryInv

-----------------------------------------------------------------------------
(* Which steps grow so: all of them *)

\* None of the jobs is added, and all stay as they are.
LEMMA NothingGrows ==
    ASSUME TypeInv, RetryInv, job' = job
    PROVE  Grows(None)
<1>1. \A j \in Job : Moves(job[j], job'[j])
  BY DocumentMoves DEF RetryInv, TypeInv, DocumentsOK
<1> QED
  BY <1>1, NoneAssumption DEF Grows

\* One document moves.
LEMMA OneMoves ==
    ASSUME TypeInv, RetryInv, NEW j \in Job, NEW d, Moves(job[j], d),
           job' = [job EXCEPT ![j] = d]
    PROVE  Grows(None)
<1>1. ASSUME NEW k \in Job PROVE Moves(job[k], job'[k])
  <2>1. CASE k = j
    BY <2>1 DEF TypeInv, DocumentsOK
  <2>2. CASE k # j
    <3>1. job'[k] = job[k] /\ job[k] \in JobDocument /\ Rests(job[k])
      BY <2>2 DEF RetryInv, TypeInv, DocumentsOK
    <3> QED
      BY <3>1, DocumentMoves
  <2> QED
    BY <2>1, <2>2
<1> QED
  BY <1>1, NoneAssumption DEF Grows

\* A running attempt fails.
LEMMA FailedMoves ==
    ASSUME TypeInv, RetryInv, NEW j \in Job, NEW again \in BOOLEAN,
           job[j].status = "running", job' = Failed(j, again)
    PROVE  Grows(None)
<1> DEFINE d == [job[j] EXCEPT !.status = "failed", !.retryable = again]
<1>1. Moves(job[j], d)
  BY DocumentMoves DEF RetryInv, TypeInv, DocumentsOK
<1>2. job' = [job EXCEPT ![j] = d]
  BY DEF Failed
<1> HIDE DEF d
<1> QED
  BY <1>1, <1>2, OneMoves

\* It fails with its linked retry, which is the first: running jobs have no child.
LEMMA RetryGrows ==
    ASSUME TypeInv, RetryInv, NEW j \in Job, job[j].status = "running", FailAndRetry(j)
    PROVE  \E c \in Job \cup {None} : Grows(c)
<1>1. CASE job[j].attempt < MaxAttempts
  <2> DEFINE child == RecoveryChild(j)
             failed == [job[j] EXCEPT !.status = "failed", !.retryable = TRUE]
             c == NewJob
  <2>0. job[j] \in JobDocument /\ Rests(job[j]) /\ job[j].attempt \in Nat
    BY BoundsAssumption DEF RetryInv, TypeInv, DocumentsOK, JobDocument
  <2>1. c \in Job /\ job[c].status = "unused" /\ c # j
    BY <1>1, NewJobIsUnused DEF FailAndRetry, Unused
  <2>2. job' = [[job EXCEPT ![j] = failed] EXCEPT ![c] = child]
    BY <1>1 DEF FailAndRetry, Failed
  <2>3. Moves(job[j], failed)
    BY <2>0, DocumentMoves
  <2>4. /\ failed.status = "failed" /\ failed.retryable /\ failed.source = job[j].source
        /\ failed.attempt = job[j].attempt
    BY <2>0 DEF JobDocument
  <2>5. /\ child.status = "queued" /\ child.wait = 0 /\ child.parent = j /\ child.key = None
        /\ child.source = job[j].source /\ child.attempt = job[j].attempt + 1
    BY <2>0 DEF RecoveryChild, JobDocument
  <2> HIDE DEF child, failed, c
  <2>6. job'[c] = child /\ job'[j] = failed /\ \A k \in Job \ {c, j} : job'[k] = job[k]
    BY <2>1, <2>2 DEF TypeInv, DocumentsOK
  <2>7. \A d \in Job : job[d].parent # j
    BY NoneAssumption DEF RetryInv, LinkedRetries
  <2>8. Fresh(c)
    BY <2>1, <2>4, <2>5, <2>6, <2>7 DEF Fresh, Follows, Rests
  <2>9. \A k \in Job \ {c} : Moves(job[k], job'[k])
    <3> TAKE k \in Job \ {c}
    <3>1. CASE k = j
      BY <2>3, <2>6, <3>1
    <3>2. CASE k # j
      <4>1. job'[k] = job[k] /\ job[k] \in JobDocument /\ Rests(job[k])
        BY <2>6, <3>2 DEF RetryInv, TypeInv, DocumentsOK
      <4> QED
        BY <4>1, DocumentMoves
    <3> QED
      BY <3>1, <3>2
  <2> QED
    BY <2>1, <2>8, <2>9 DEF Grows
<1>2. CASE ~(job[j].attempt < MaxAttempts)
  BY <1>2, FailedMoves DEF FailAndRetry
<1> QED
  BY <1>1, <1>2

LEMMA WorkerGrows ==
    ASSUME TypeInv, RetryInv, NEW w \in Worker, WorkerStep(w)
    PROVE  request' = request /\ \E c \in Job \cup {None} : Grows(c)
<1>0. request' = request
  BY DEF WorkerStep, Progress, Beat, Select, Acquire, Claim, ClaimRefused, Release, Fetched,
         ExecutorFails, CommitIngestionBatch, LateCommitAborts, DeadlineFires, HeartbeatSent,
         Heartbeat, HeartbeatLost, BeginComplete, CompleteWithFence, CompletionStale,
         FinalizeOrphanedAttempt, DeferWithFence, GiveUp, WorkerCrash
<1> DEFINE j == worker[w].job
<1>1. CASE job' = job
  BY <1>0, <1>1, NothingGrows
<1>2. ASSUME j \in Job
      PROVE  job[j] \in JobDocument /\ Rests(job[j])
  BY <1>2 DEF RetryInv, TypeInv, DocumentsOK
<1>3. CASE Claim(w)
  <2>1. j \in Job /\ job[j].status = "queued" /\ job[j].wait = 0
    BY <1>3 DEF Claim, Due
  <2>2. worker[w].gen \in 0..MaxGeneration
    BY DEF TypeInv, DocumentsOK, WorkerState
  <2> DEFINE d == [job[j] EXCEPT !.status = "running", !.gen = worker[w].gen]
  <2>3. Moves(job[j], d)
    BY <1>2, <2>1, <2>2, DocumentMoves
  <2>4. job' = [job EXCEPT ![j] = d]
    BY <1>3 DEF Claim
  <2> HIDE DEF d, j
  <2> QED
    BY <1>0, <2>1, <2>3, <2>4, OneMoves
<1>4. CASE CompleteWithFence(w)
  <2>1. j \in Job /\ job[j].status = "running"
    BY <1>4 DEF CompleteWithFence, RunningAs, TypeInv, DocumentsOK, WorkersName
  <2> DEFINE d == [job[j] EXCEPT !.status = "succeeded"]
  <2>2. CASE job' = [job EXCEPT ![j] = d]
    <3>1. Moves(job[j], d)
      BY <1>2, <2>1, DocumentMoves
    <3> HIDE DEF d, j
    <3> QED
      BY <1>0, <2>1, <2>2, <3>1, OneMoves
  <2>3. CASE \E again \in BOOLEAN : job' = Failed(j, again)
    BY <1>0, <2>1, <2>3, FailedMoves
  <2> QED
    BY <1>4, <2>2, <2>3 DEF CompleteWithFence
<1>5. CASE FinalizeOrphanedAttempt(w)
  <2>1. j \in Job /\ job[j].status = "running"
    BY <1>5 DEF FinalizeOrphanedAttempt, OwnsAttempt, RunningAs, TypeInv, DocumentsOK, WorkersName,
                Calls
  <2> QED
    BY <1>0, <1>5, <2>1, FailedMoves, RetryGrows DEF FinalizeOrphanedAttempt
<1>6. CASE DeferWithFence(w)
  <2>1. j \in Job /\ job[j].status = "running"
    BY <1>6 DEF DeferWithFence, RunningAs, TypeInv, DocumentsOK, WorkersName
  <2>2. PICK d : Moves(job[j], d) /\ job' = [job EXCEPT ![j] = d]
    BY <1>2, <1>6, <2>1, DocumentMoves DEF DeferWithFence
  <2> QED
    BY <1>0, <2>1, <2>2, OneMoves
<1> QED
  BY <1>1, <1>3, <1>4, <1>5, <1>6
  DEF WorkerStep, Progress, Beat, Select, Acquire, ClaimRefused, Release, Fetched,
      ExecutorFails, CommitIngestionBatch, LateCommitAborts, DeadlineFires, HeartbeatSent,
      Heartbeat, HeartbeatLost, BeginComplete, CompletionStale, GiveUp, WorkerCrash, stores

LEMMA RecovererGrows ==
    ASSUME TypeInv, RetryInv, NEW r \in Recoverer, RecovererStep(r)
    PROVE  request' = request /\ \E c \in Job \cup {None} : Grows(c)
<1>1. CASE job' = job
  BY <1>1, NothingGrows
  DEF RecovererStep, RecoverStart, RecoverList, RecoverLease, RecoverOrphan, RecoverEnd
<1>2. CASE RecoverLease(r) /\ job' # job
  <2>1. rec[r].job \in Job /\ job[rec[r].job].status = "running" /\ FailAndRetry(rec[r].job)
    BY <1>2 DEF RecoverLease, RunningAs, TypeInv, RecoverersName
  <2> QED
    BY <1>2, <2>1, RetryGrows DEF RecoverLease
<1>3. CASE RecoverOrphan(r)
  <2>1. rec[r].job \in Job /\ job[rec[r].job].status = "running"
    BY <1>3 DEF RecoverOrphan, RunningAs, TypeInv, RecoverersName
  <2> QED
    BY <1>3, <2>1, FailedMoves DEF RecoverOrphan
<1> QED
  BY <1>1, <1>2, <1>3 DEF RecovererStep, RecoverStart, RecoverList, RecoverEnd, stores

LEMMA TickGrows ==
    ASSUME TypeInv, RetryInv, Tick
    PROVE  request' = request /\ Grows(None)
<1>1. ASSUME NEW j \in Job PROVE Moves(job[j], job'[j])
  <2>1. job'[j] = [job[j] EXCEPT !.wait = IF @ = 0 THEN 0 ELSE @ - 1]
    BY DEF Tick
  <2>2. job[j] \in JobDocument /\ Rests(job[j])
    BY DEF RetryInv, TypeInv, DocumentsOK
  <2> QED
    BY <2>1, <2>2, DocumentMoves
<1> QED
  BY <1>1, NoneAssumption DEF Tick, Grows

\* What an admin request inserts is the first child of its parent, and the one job
\* of its key: existingIdempotentJob has looked for both in the transaction.
LEMMA InsertGrows ==
    ASSUME TypeInv, RetryInv, NEW a \in Admin, InsertJob(a)
    PROVE  \E c \in Job : Grows(c)
<1> DEFINE q == request[a]
           d == [status |-> "queued", source |-> q.source, attempt |-> q.attempt,
                 parent |-> q.parent, gen |-> 0, policy |-> q.policy, key |-> q.key,
                 retryable |-> FALSE, cancel |-> FALSE, wait |-> 0]
           c == NewJob
<1>1. q \in Request /\ q # None /\ Existing(q) = {} /\ RequestFits(a)
  BY DEF InsertJob, RetryInv, TypeInv, DocumentsOK
<1>2. c \in Job /\ job[c].status = "unused"
  BY NewJobIsUnused DEF InsertJob, Unused
<1>3. job' = [job EXCEPT ![c] = d]
  BY DEF InsertJob
<1>4. /\ d.status = "queued" /\ d.wait = 0 /\ d.parent = q.parent /\ d.key = q.key
      /\ d.source = q.source /\ d.attempt = q.attempt
  OBVIOUS
<1> HIDE DEF d, c
<1>5. job'[c] = d /\ \A k \in Job \ {c} : job'[k] = job[k]
  BY <1>2, <1>3 DEF TypeInv, DocumentsOK
<1>6. ASSUME q.parent # None
      PROVE  /\ q.parent \in Job \ {c}
             /\ Follows(job[q.parent], q.source, q.attempt)
             /\ \A x \in Job : Stored(x) => job[x].parent # q.parent
  <2>1. Follows(job[q.parent], q.source, q.attempt) /\ q.parent \in Job
    BY <1>1, <1>6 DEF RequestFits, Request
  <2>2. ASSUME NEW x \in Job, Stored(x), job[x].parent = q.parent PROVE FALSE
    <3>1. job[x].attempt = q.attempt
      BY <1>6, <2>1, <2>2 DEF RetryInv, LinkedRetries, Follows
    <3> QED
      BY <1>1, <1>6, <2>2, <3>1 DEF Existing
  <2> QED
    BY <1>2, <2>1, <2>2 DEF Follows
<1>7. \A x \in Job : Stored(x) => job[x].key # q.key
  BY <1>1 DEF Existing
<1> HIDE DEF q
<1>8. Fresh(c)
  BY <1>2, <1>4, <1>5, <1>6, <1>7 DEF Fresh, Rests
<1>9. \A k \in Job \ {c} : Moves(job[k], job'[k])
  <2> TAKE k \in Job \ {c}
  <2>1. job'[k] = job[k] /\ job[k] \in JobDocument /\ Rests(job[k])
    BY <1>5 DEF RetryInv, TypeInv, DocumentsOK
  <2> QED
    BY <2>1, DocumentMoves
<1> QED
  BY <1>2, <1>8, <1>9 DEF Grows

LEMMA AdminGrows ==
    ASSUME TypeInv, RetryInv, AdminStep
    PROVE  \/ /\ \A a \in Admin : request'[a] # None => request'[a] = request[a]
              /\ \E c \in Job \cup {None} : Grows(c)
           \/ \E a \in Admin : AskCreate(a) \/ AskRetry(a)
<1>1. ASSUME NEW a \in Admin, InsertJob(a) \/ RequestEnds(a)
      PROVE  /\ \A x \in Admin : request'[x] # None => request'[x] = request[x]
             /\ \E c \in Job \cup {None} : Grows(c)
  <2>1. request' = [request EXCEPT ![a] = None]
    BY <1>1 DEF InsertJob, RequestEnds
  <2>2. CASE InsertJob(a)
    BY <2>1, <2>2, InsertGrows DEF TypeInv, DocumentsOK
  <2>3. CASE RequestEnds(a)
    BY <2>1, <2>3, NothingGrows DEF RequestEnds, stores, TypeInv, DocumentsOK
  <2> QED
    BY <1>1, <2>2, <2>3
<1>2. ASSUME NEW j \in Job, CancelIngestionJob(j) \/ PurgeDueIngestionJobs(j)
      PROVE  request' = request /\ Grows(None)
  <2>1. job[j] \in JobDocument /\ Rests(job[j])
    BY DEF RetryInv, TypeInv, DocumentsOK
  <2>2. PICK d : Moves(job[j], d) /\ job' = [job EXCEPT ![j] = d]
    <3>1. CASE CancelIngestionJob(j)
      BY <2>1, <3>1, DocumentMoves DEF CancelIngestionJob
    <3>2. CASE PurgeDueIngestionJobs(j)
      BY <2>1, <3>2, DocumentMoves DEF PurgeDueIngestionJobs
    <3> QED
      BY <1>2, <3>1, <3>2
  <2> QED
    BY <1>2, <2>2, OneMoves DEF CancelIngestionJob, PurgeDueIngestionJobs
<1>3. ASSUME NEW s \in Source,
             \/ TransitionOperationalStatus(s) \/ ApplySourceUpdate(s)
             \/ ReviewSourcePolicy(s) \/ RequestPolicyReReview(s) \/ RunTechnicalCheck(s)
      PROVE  request' = request /\ Grows(None)
  BY <1>3, NothingGrows
  DEF TransitionOperationalStatus, ApplySourceUpdate, ReviewSourcePolicy,
      RequestPolicyReReview, RunTechnicalCheck, SetSource, stores
<1> QED
  BY <1>1, <1>2, <1>3, BoundsAssumption DEF AdminStep

\* A request for a retry is built of a failed attempt.
LEMMA AskKeeps ==
    ASSUME TypeInv, TypeInv', RetryInv, NEW a \in Admin, AskCreate(a) \/ AskRetry(a)
    PROVE  Grows(None) /\ RetryInv'
<1>1. job' = job
  BY DEF AskCreate, AskRetry, stores
<1>2. RequestFits(a)'
  <2>1. CASE AskCreate(a)
    BY <2>1 DEF AskCreate, RequestFits, TypeInv, DocumentsOK
  <2>2. CASE AskRetry(a)
    <3>1. PICK k \in Key, p \in Job :
            /\ job[p].status = "failed" /\ job[p].retryable
            /\ request' = [request EXCEPT ![a] =
                 [key |-> k, source |-> job[p].source,
                  policy |-> src[job[p].source].version, parent |-> p,
                  attempt |-> job[p].attempt + 1]]
      BY <2>2 DEF AskRetry
    <3>2. /\ request'[a].parent = p /\ request'[a].source = job[p].source
          /\ request'[a].attempt = job[p].attempt + 1
      BY <3>1 DEF TypeInv, DocumentsOK
    <3> QED
      BY <1>1, <3>1, <3>2 DEF RequestFits, Follows
  <2> QED
    BY <2>1, <2>2
<1>3. ASSUME NEW x \in Admin, x # a PROVE RequestFits(x)'
  <2>1. request'[x] = request[x]
    BY <1>3 DEF AskCreate, AskRetry, TypeInv, DocumentsOK
  <2> QED
    BY <1>1, <2>1 DEF RetryInv, RequestFits
<1>4. LinkedRetries' /\ \A j \in Job : Rests(job'[j])
  BY <1>1 DEF RetryInv, LinkedRetries, Stored
<1> QED
  BY <1>1, <1>2, <1>3, <1>4, NothingGrows DEF RetryInv

-----------------------------------------------------------------------------
\* Every step grows the jobs as it may, and keeps the invariant.
LEMMA NextGrows ==
    ASSUME TypeInv, TypeInv', RetryInv, [Step]_documents
    PROVE  RetryInv' /\ \E c \in Job \cup {None} : Grows(c)
<1>1. CASE UNCHANGED documents
  BY <1>1, NothingGrows, GrowthKeeps DEF documents
<1>2. CASE Tick \/ (\E w \in Worker : WorkerStep(w)) \/ (\E r \in Recoverer : RecovererStep(r))
  <2>1. PICK c \in Job \cup {None} : Grows(c) /\ request' = request
    BY <1>2, TickGrows, WorkerGrows, RecovererGrows
  <2> QED
    BY <2>1, GrowthKeeps
<1>3. CASE AdminStep
  BY <1>3, AdminGrows, AskKeeps, GrowthKeeps
<1> QED
  BY <1>1, <1>2, <1>3 DEF Step, Work

LEMMA InitLinked == Init => RetryInv
<1> SUFFICES ASSUME Init PROVE RetryInv
  OBVIOUS
<1>1. PICK s \in Source : job = [j \in Job |-> NoDocument(s)]
  BY DEF Init
<1>2. \A j \in Job : /\ job[j].status = "unused" /\ job[j].parent = None
                     /\ job[j].wait = 0
  BY <1>1 DEF NoDocument
<1>3. \A a \in Admin : request[a] = None
  BY DEF Init
<1> QED
  BY <1>2, <1>3 DEF RetryInv, LinkedRetries, Stored, Rests, RequestFits

LEMMA AlwaysLinked == Spec => [](TypeInv /\ RetryInv)
<1>1. Init => TypeInv /\ RetryInv
  BY InitTyped, InitLinked
<1>2. TypeInv /\ RetryInv /\ [Step]_documents => TypeInv' /\ RetryInv'
  BY NextTyped, NextGrows
<1> QED
  BY <1>1, <1>2, StepsOfDocuments, PTL DEF Spec

\* However recovery, finalisation and admin retries race, a job with a parent is
\* its next attempt, a parent has one child and a key one job (recoveryChildFor,
\* existingIdempotentJob).
THEOREM RetriesAreLinked == Spec => []LinkedRetries
<1>1. RetryInv => LinkedRetries
  BY DEF RetryInv
<1> QED
  BY <1>1, AlwaysLinked, PTL

\* A late completion, finalisation or recovery leaves the outcome of an attempt as
\* it was first recorded.
THEOREM OutcomesAreFinal == Spec => TerminalIsFinal
<1>1. TypeInv /\ TypeInv' /\ RetryInv /\ [Step]_documents =>
        [\A j \in Job : job[j].status \in Terminal =>
           \/ job'[j] = job[j]
           \/ job'[j].status = "purged"]_vars
  <2> SUFFICES ASSUME TypeInv, TypeInv', RetryInv, [Step]_documents,
                      NEW j \in Job, job[j].status \in Terminal
               PROVE  job'[j] = job[j] \/ job'[j].status = "purged"
    OBVIOUS
  <2>1. PICK c \in Job \cup {None} : Grows(c)
    BY NextGrows
  <2>2. Moves(job[j], job'[j])
    BY <2>1 DEF Grows, Fresh, Terminal
  <2> QED
    BY <2>2 DEF Moves
<1> QED
  BY <1>1, AlwaysLinked, StepsOfDocuments, PTL DEF Spec, TerminalIsFinal

-----------------------------------------------------------------------------
(* A success was written *)

\* No attempt becomes a success.
NoSuccess ==
    \A j \in Job : job'[j].status = "succeeded" => job[j].status = "succeeded"

\* No invocation comes by a success, and a job is selected without a result.
NoResult ==
    \A w \in Worker :
        /\ worker'[w].result = "succeeded" => worker[w].result = "succeeded"
        /\ worker'[w].pc = "selected" =>
             \/ worker'[w].result # "succeeded"
             \/ worker[w].pc = "selected" /\ worker[w].result = "succeeded"

\* An invocation that calls its result a success has written a batch under its
\* generation, and since then batches were of later ones.
ResultInv ==
    /\ \A w \in Worker : worker[w].result = "succeeded" =>
         /\ worker[w].pc # "selected"
         /\ Holds(w) => written[job[worker[w].job].source].gen >= worker[w].gen
    /\ SuccessWasWritten

\* One local state changes.
LEMMA OneResult ==
    ASSUME TypeInv, NEW w \in Worker, NEW state, worker' = [worker EXCEPT ![w] = state],
           state.result \in {worker[w].result, "pending", "retryable", "final",
                             "heartbeat_lost", "fence_stale"},
           state.pc = "selected" => state.result = "pending"
    PROVE  NoResult
BY DEF NoResult, TypeInv, DocumentsOK

\* Every step of an invocation but a batch.
LEMMA WorkerNoResult ==
    ASSUME TypeInv, NEW w \in Worker, WorkerStep(w), ~CommitIngestionBatch(w)
    PROVE  NoResult
<1>0. worker[w] \in WorkerState
  BY DEF TypeInv, DocumentsOK
<1>1. CASE worker' = [worker EXCEPT ![w] = Idle]
  <2>1. Idle.result = "pending"
    BY DEF Idle
  <2> QED
    BY <1>1, <2>1, OneResult
<1>2. CASE Select(w)
  <2>1. PICK j \in Due :
          worker' = [worker EXCEPT ![w] = [Idle EXCEPT !.pc = "selected", !.job = j]]
    BY <1>2 DEF Select
  <2> DEFINE state == [Idle EXCEPT !.pc = "selected", !.job = j]
  <2>2. state.result = "pending"
    BY DEF Idle
  <2>3. worker' = [worker EXCEPT ![w] = state]
    BY <2>1
  <2> HIDE DEF state
  <2> QED
    BY <2>2, <2>3, OneResult
<1>3. CASE Acquire(w)
  <2> DEFINE s == job[worker[w].job].source
             state == [worker[w] EXCEPT !.pc = "claiming", !.gen = highWater[s] + 1]
  <2>1. state.result = worker[w].result /\ state.pc = "claiming"
    BY <1>0 DEF WorkerState
  <2>2. worker' = [worker EXCEPT ![w] = state]
    BY <1>3 DEF Acquire
  <2> HIDE DEF state
  <2> QED
    BY <2>1, <2>2, OneResult
<1>4. ASSUME NEW pc \in Calls, Call(w, pc) PROVE NoResult
  <2> DEFINE state == [worker[w] EXCEPT !.pc = pc, !.age = 0]
  <2>1. state.result = worker[w].result /\ state.pc # "selected"
    BY <1>0 DEF WorkerState, Calls
  <2>2. worker' = [worker EXCEPT ![w] = state]
    BY <1>4 DEF Call
  <2> HIDE DEF state
  <2> QED
    BY <2>1, <2>2, OneResult
<1>5. CASE Claim(w)
  <2>1. CASE worker' = [worker EXCEPT ![w] = [@ EXCEPT !.pc = "running", !.age = 0,
                                                       !.exec = "fetching"]]
    <3> DEFINE state == [worker[w] EXCEPT !.pc = "running", !.age = 0, !.exec = "fetching"]
    <3>1. state.result = worker[w].result /\ state.pc = "running"
      BY <1>0 DEF WorkerState
    <3>2. worker' = [worker EXCEPT ![w] = state]
      BY <2>1
    <3> HIDE DEF state
    <3> QED
      BY <3>1, <3>2, OneResult
  <2> QED
    BY <1>4, <1>5, <2>1 DEF Claim, Calls
<1>6. CASE Return(w)
  <2> DEFINE state == [worker[w] EXCEPT !.pc = "idle", !.age = 0, !.beat = NoBeat,
                                        !.result = "final"]
  <2>1. state.result = "final" /\ state.pc = "idle"
    BY <1>0 DEF WorkerState
  <2>2. worker' = [worker EXCEPT ![w] = state] \/ worker' = [worker EXCEPT ![w] = Idle]
    BY <1>6 DEF Return
  <2> HIDE DEF state
  <2> QED
    BY <1>1, <2>1, <2>2, OneResult
<1>7. CASE Fetched(w)
  <2> DEFINE state == [worker[w] EXCEPT !.exec = "committing"]
  <2>1. state.result = worker[w].result /\ state.pc = "running"
    BY <1>0, <1>7 DEF WorkerState, Fetched, InRun
  <2>2. worker' = [worker EXCEPT ![w] = state]
    BY <1>7 DEF Fetched
  <2> HIDE DEF state
  <2> QED
    BY <2>1, <2>2, OneResult
<1>8. CASE ExecutorFails(w)
  <2>1. PICK result \in {"retryable", "final"} :
          worker' = [worker EXCEPT ![w] = [@ EXCEPT !.exec = "off", !.result = result]]
    BY <1>8 DEF ExecutorFails
  <2> DEFINE state == [worker[w] EXCEPT !.exec = "off", !.result = result]
  <2>2. state.result = result /\ state.pc = "running"
    BY <1>0, <1>8 DEF WorkerState, ExecutorFails, InRun
  <2>3. worker' = [worker EXCEPT ![w] = state]
    BY <2>1
  <2> HIDE DEF state
  <2> QED
    BY <2>2, <2>3, OneResult
<1>9. CASE LateCommitAborts(w) \/ HeartbeatSent(w) \/ Heartbeat(w)
  <2>1. CASE worker' = [worker EXCEPT ![w] = [@ EXCEPT !.exec = "off"]]
    <3>1. \A v \in Worker :
            worker'[v].result = worker[v].result /\ worker'[v].pc = worker[v].pc
      BY <1>0, <2>1 DEF WorkerState, TypeInv, DocumentsOK
    <3> QED
      BY <3>1 DEF NoResult
  <2>2. CASE \E beat \in {0, NoBeat} : worker' = [worker EXCEPT ![w] = [@ EXCEPT !.beat = beat]]
    <3>1. \A v \in Worker :
            worker'[v].result = worker[v].result /\ worker'[v].pc = worker[v].pc
      BY <1>0, <2>2 DEF WorkerState, TypeInv, DocumentsOK
    <3> QED
      BY <3>1 DEF NoResult
  <2> QED
    BY <1>1, <1>9, <2>1, <2>2 DEF LateCommitAborts, HeartbeatSent, Heartbeat
<1>10. CASE DeadlineFires(w)
  <2> DEFINE state == [worker[w] EXCEPT !.exec = LeftInFlight(w), !.result = "final"]
  <2>1. state.result = "final" /\ state.pc = "running"
    BY <1>0, <1>10 DEF WorkerState, DeadlineFires, InRun
  <2>2. worker' = [worker EXCEPT ![w] = state]
    BY <1>10 DEF DeadlineFires
  <2> HIDE DEF state
  <2> QED
    BY <2>1, <2>2, OneResult
<1>11. CASE HeartbeatLost(w)
  <2> DEFINE lost == [worker[w] EXCEPT !.pc = "finalizing", !.age = 0, !.beat = NoBeat,
                                       !.exec = LeftInFlight(w), !.result = "heartbeat_lost"]
             late == [worker[w] EXCEPT !.beat = NoBeat]
  <2>1. lost.result = "heartbeat_lost" /\ lost.pc = "finalizing"
    BY <1>0 DEF WorkerState
  <2>2. late.result = worker[w].result /\ late.pc = worker[w].pc
    BY <1>0 DEF WorkerState
  <2>3. worker' = [worker EXCEPT ![w] = lost] \/ worker' = [worker EXCEPT ![w] = late]
    BY <1>11 DEF HeartbeatLost
  <2> HIDE DEF lost, late
  <2>4. CASE worker' = [worker EXCEPT ![w] = late]
    BY <2>2, <2>4 DEF NoResult, TypeInv, DocumentsOK
  <2> QED
    BY <2>1, <2>3, <2>4, OneResult
<1>12. CASE CompletionStale(w)
  <2> DEFINE state == [worker[w] EXCEPT !.pc = "finalizing", !.age = 0,
                                        !.result = "fence_stale"]
  <2>1. state.result = "fence_stale" /\ state.pc = "finalizing"
    BY <1>0 DEF WorkerState
  <2>2. worker' = [worker EXCEPT ![w] = state]
    BY <1>12 DEF CompletionStale
  <2> HIDE DEF state
  <2> QED
    BY <2>1, <2>2, OneResult
<1> QED
  BY <1>1, <1>2, <1>3, <1>4, <1>5, <1>6, <1>7, <1>8, <1>9, <1>10, <1>11, <1>12
  DEF WorkerStep, Progress, Beat, ClaimRefused, Release, BeginComplete, CompleteWithFence,
      FinalizeOrphanedAttempt, DeferWithFence, GiveUp, WorkerCrash, Calls

\* A failure is no success, and its retry is queued.
LEMMA FailingIsNoSuccess ==
    ASSUME TypeInv, NEW j \in Job,
           FailAndRetry(j) \/ \E again \in BOOLEAN : job' = Failed(j, again)
    PROVE  NoSuccess
<1>0. job[j] \in JobDocument
  BY DEF TypeInv, DocumentsOK
<1>1. ASSUME NEW again \in BOOLEAN, job' = Failed(j, again) PROVE NoSuccess
  <2> DEFINE d == [job[j] EXCEPT !.status = "failed", !.retryable = again]
  <2>1. d.status = "failed" /\ job' = [job EXCEPT ![j] = d]
    BY <1>0, <1>1 DEF JobDocument, Failed
  <2> HIDE DEF d
  <2> QED
    BY <2>1 DEF NoSuccess, TypeInv, DocumentsOK
<1>2. CASE FailAndRetry(j) /\ job[j].attempt < MaxAttempts
  <2> DEFINE child == RecoveryChild(j)
             d == [job[j] EXCEPT !.status = "failed", !.retryable = TRUE]
  <2>1. d.status = "failed" /\ child.status = "queued"
    BY <1>0 DEF JobDocument, RecoveryChild
  <2>2. job' = [[job EXCEPT ![j] = d] EXCEPT ![NewJob] = child]
    BY <1>2 DEF FailAndRetry, Failed
  <2> HIDE DEF child, d
  <2> QED
    BY <2>1, <2>2 DEF NoSuccess, TypeInv, DocumentsOK
<1> QED
  BY <1>1, <1>2 DEF FailAndRetry

\* Every step but the completion of an attempt.
LEMMA WorkerNoSuccess ==
    ASSUME TypeInv, NEW w \in Worker, WorkerStep(w), ~CompleteWithFence(w)
    PROVE  NoSuccess
<1> DEFINE j == worker[w].job
<1>0. \A k \in Job : job[k] \in JobDocument
  BY DEF TypeInv, DocumentsOK
<1>1. CASE job' = job
  BY <1>1 DEF NoSuccess
<1>2. ASSUME NEW d, d.status # "succeeded", job' = [job EXCEPT ![j] = d]
      PROVE  NoSuccess
  BY <1>2 DEF NoSuccess, TypeInv, DocumentsOK
<1>3. CASE Claim(w)
  <2> DEFINE d == [job[j] EXCEPT !.status = "running", !.gen = worker[w].gen]
  <2>1. j \in Job
    BY <1>3 DEF Claim, Due
  <2>2. d.status = "running"
    BY <1>0, <2>1 DEF JobDocument
  <2>3. job' = [job EXCEPT ![j] = d]
    BY <1>3 DEF Claim
  <2> HIDE DEF d, j
  <2> QED
    BY <1>2, <2>2, <2>3
<1>4. CASE FinalizeOrphanedAttempt(w)
  <2>1. j \in Job
    BY <1>4 DEF FinalizeOrphanedAttempt, TypeInv, DocumentsOK, WorkersName, Calls
  <2> QED
    BY <1>4, <2>1, FailingIsNoSuccess DEF FinalizeOrphanedAttempt
<1>5. CASE DeferWithFence(w)
  <2> DEFINE c == [job[j] EXCEPT !.status = "cancelled"]
             q == [job[j] EXCEPT !.status = "queued", !.gen = 0, !.wait = DeferTicks]
  <2>1. j \in Job
    BY <1>5 DEF DeferWithFence, TypeInv, DocumentsOK, WorkersName, Calls
  <2>2. c.status = "cancelled" /\ q.status = "queued"
    BY <1>0, <2>1 DEF JobDocument
  <2>3. job' = [job EXCEPT ![j] = c] \/ job' = [job EXCEPT ![j] = q]
    BY <1>5 DEF DeferWithFence
  <2> HIDE DEF c, q, j
  <2> QED
    BY <1>2, <2>2, <2>3
<1> QED
  BY <1>1, <1>3, <1>4, <1>5
  DEF WorkerStep, Progress, Beat, Select, Acquire, ClaimRefused, Release, Fetched,
      ExecutorFails, CommitIngestionBatch, LateCommitAborts, DeadlineFires, HeartbeatSent,
      Heartbeat, HeartbeatLost, BeginComplete, CompletionStale, GiveUp, WorkerCrash, stores

LEMMA OthersNoSuccess ==
    ASSUME TypeInv,
           Tick \/ AdminStep \/ (\E r \in Recoverer : RecovererStep(r)) \/ UNCHANGED documents
    PROVE  NoSuccess
<1>0. \A k \in Job : job[k] \in JobDocument
  BY DEF TypeInv, DocumentsOK
<1>1. CASE job' = job
  BY <1>1 DEF NoSuccess
<1>2. CASE Tick
  <2>1. ASSUME NEW j \in Job PROVE job'[j].status = job[j].status
    <3>1. job'[j] = [job[j] EXCEPT !.wait = IF @ = 0 THEN 0 ELSE @ - 1]
      BY <1>2 DEF Tick
    <3> QED
      BY <1>0, <3>1 DEF JobDocument
  <2> QED
    BY <2>1 DEF NoSuccess
<1>3. ASSUME NEW r \in Recoverer, RecovererStep(r), job' # job PROVE NoSuccess
  <2>1. rec[r].job \in Job /\ (FailAndRetry(rec[r].job) \/ job' = Failed(rec[r].job, FALSE))
    BY <1>3 DEF RecovererStep, RecoverStart, RecoverList, RecoverLease, RecoverOrphan,
                RecoverEnd, stores, TypeInv, RecoverersName
  <2> QED
    BY <2>1, FailingIsNoSuccess
<1>4. ASSUME AdminStep, job' # job PROVE NoSuccess
  <2>1. CASE \E a \in Admin : InsertJob(a)
    BY <2>1 DEF InsertJob, NoSuccess, TypeInv, DocumentsOK
  <2>2. ASSUME NEW j \in Job, CancelIngestionJob(j) \/ PurgeDueIngestionJobs(j)
        PROVE  NoSuccess
    <3> DEFINE c == [job[j] EXCEPT !.status = "cancelled", !.wait = 0]
               m == [job[j] EXCEPT !.cancel = TRUE]
               p == [job[j] EXCEPT !.status = "purged", !.key = None]
    <3>1. c.status = "cancelled" /\ m.status = job[j].status /\ p.status = "purged"
      BY <1>0 DEF JobDocument
    <3>2. \/ job' = [job EXCEPT ![j] = c] \/ job' = [job EXCEPT ![j] = m]
          \/ job' = [job EXCEPT ![j] = p]
      BY <2>2 DEF CancelIngestionJob, PurgeDueIngestionJobs
    <3> HIDE DEF c, m, p
    <3> QED
      BY <3>1, <3>2 DEF NoSuccess, TypeInv, DocumentsOK
  <2> QED
    BY <1>4, <2>1, <2>2, BoundsAssumption
    DEF AdminStep, AskCreate, AskRetry, RequestEnds, TransitionOperationalStatus,
        ApplySourceUpdate, ReviewSourcePolicy, RequestPolicyReReview, RunTechnicalCheck,
        SetSource, stores
<1> QED
  BY <1>1, <1>2, <1>3, <1>4 DEF documents

\* A completion makes a success of its own attempt, and of a result that says so.
LEMMA CompletionSucceeds ==
    ASSUME TypeInv, NEW w \in Worker, CompleteWithFence(w),
           NEW j \in Job, job'[j].status = "succeeded"
    PROVE  \/ job[j].status = "succeeded"
           \/ /\ worker[w].job = j /\ worker[w].result = "succeeded"
              /\ job[j].gen = worker[w].gen /\ job'[j].gen = job[j].gen
<1>0. job[j] \in JobDocument /\ worker[w].job \in Job
  BY DEF CompleteWithFence, TypeInv, DocumentsOK, WorkersName, Calls
<1> DEFINE k == worker[w].job
           done == [job[k] EXCEPT !.status = "succeeded"]
<1>1. CASE \E again \in BOOLEAN : job' = Failed(k, again)
  BY <1>0, <1>1, FailingIsNoSuccess DEF NoSuccess
<1>2. CASE worker[w].result = "succeeded" /\ job' = [job EXCEPT ![k] = done]
  <2>1. done.gen = job[k].gen
    BY <1>0 DEF JobDocument, TypeInv, DocumentsOK
  <2>2. RunningAs(k, worker[w].gen)
    BY DEF CompleteWithFence
  <2> HIDE DEF done, k
  <2>3. CASE j = k
    BY <1>2, <2>1, <2>2, <2>3 DEF RunningAs, TypeInv, DocumentsOK, k
  <2>4. CASE j # k
    BY <1>2, <2>4 DEF TypeInv, DocumentsOK
  <2> QED
    BY <2>3, <2>4
<1> QED
  BY <1>1, <1>2 DEF CompleteWithFence

\* Batches never go back a generation.
LEMMA BatchesGrow ==
    ASSUME TypeInv, TypeInv', FenceInv, [Step]_documents, NEW s \in Source
    PROVE  /\ written[s].gen \in Nat /\ written'[s].gen \in Nat
           /\ written'[s].gen >= written[s].gen
<1>1. written[s].gen \in Nat /\ written'[s].gen \in Nat
  BY BoundsAssumption DEF TypeInv, DocumentsOK
<1>2. BatchStep
  BY BatchesAreFresh
<1>3. CASE written'[s] = written[s]
  BY <1>1, <1>3
<1>4. CASE written'[s] # written[s]
  BY <1>1, <1>2, <1>4 DEF BatchStep
<1> QED
  BY <1>1, <1>3, <1>4

\* An invocation that had its result and its fence before keeps its promise.
LEMMA OldResult ==
    ASSUME TypeInv, TypeInv', FenceInv, RetryInv, ResultInv, [Step]_documents, NEW w \in Worker,
           worker[w].result = "succeeded", worker'[w].gen = worker[w].gen,
           worker'[w].job = worker[w].job, worker'[w].gen # 0
    PROVE  written'[job'[worker'[w].job].source].gen >= worker'[w].gen
<1> DEFINE j == worker[w].job
           s == job[j].source
<1>1. j \in Job /\ job[j].status # "unused" /\ Holds(w)
  BY DEF FenceInv, HoldersApart, NamedExist, Holds
<1>2. PICK c \in Job \cup {None} : Grows(c)
  BY NextGrows
<1>3. Moves(job[j], job'[j])
  BY <1>1, <1>2 DEF Grows, Fresh
<1>4. job'[j].source = s /\ s \in Source
  BY <1>1, <1>3 DEF Moves, TypeInv, DocumentsOK, JobDocument
<1>5. written[s].gen >= worker[w].gen
  BY <1>1 DEF ResultInv
<1>6. worker[w].gen \in Nat
  BY BoundsAssumption DEF TypeInv, DocumentsOK, WorkerState
<1> HIDE DEF s
<1>7. written'[s].gen >= worker[w].gen
  BY <1>4, <1>5, <1>6, BatchesGrow
<1> QED
  BY <1>4, <1>7

\* So does a success that was one before.
LEMMA OldSuccess ==
    ASSUME TypeInv, TypeInv', FenceInv, RetryInv, ResultInv, [Step]_documents, NEW j \in Job,
           job[j].status = "succeeded", job'[j].status = "succeeded"
    PROVE  written'[job'[j].source].gen >= job'[j].gen
<1>1. PICK c \in Job \cup {None} : Grows(c)
  BY NextGrows
<1>2. Moves(job[j], job'[j])
  BY <1>1 DEF Grows, Fresh
<1>3. job'[j] = job[j]
  BY <1>2 DEF Moves, Terminal
<1> DEFINE s == job[j].source
<1>4. s \in Source /\ job[j].gen \in Nat /\ written[s].gen >= job[j].gen
  BY BoundsAssumption DEF ResultInv, SuccessWasWritten, TypeInv, DocumentsOK, JobDocument
<1> HIDE DEF s
<1>5. written'[s].gen >= job[j].gen
  BY <1>4, BatchesGrow
<1> QED
  BY <1>3, <1>5 DEF s

\* What an invocation holds a fence for it held before, or it acquires it now.
LEMMA FenceKept ==
    ASSUME TypeInv, NamedExist, [Step]_documents, NEW w \in Worker, worker'[w].gen # 0
    PROVE  \/ worker'[w].gen = worker[w].gen /\ worker'[w].job = worker[w].job
           \/ worker[w].pc = "selected" /\ worker'[w].result = worker[w].result
<1>1. CASE Quiet
  BY <1>1 DEF Quiet, WorkersQuiet
<1>2. ASSUME NEW v \in Worker, Acquire(v) PROVE 
           \/ worker'[w].gen = worker[w].gen /\ worker'[w].job = worker[w].job
           \/ worker[w].pc = "selected" /\ worker'[w].result = worker[w].result
  <2> DEFINE s == job[worker[v].job].source
             state == [worker[v] EXCEPT !.pc = "claiming", !.gen = highWater[s] + 1]
  <2>1. state.result = worker[v].result
    BY DEF TypeInv, DocumentsOK, WorkerState
  <2>2. worker' = [worker EXCEPT ![v] = state] /\ worker[v].pc = "selected"
    BY <1>2 DEF Acquire
  <2> HIDE DEF state
  <2> QED
    BY <2>1, <2>2 DEF TypeInv, DocumentsOK
<1>3. ASSUME NEW v \in Worker, Claim(v) \/ CommitIngestionBatch(v) PROVE WorkersQuiet
  <2>0. worker[v] \in WorkerState
    BY DEF TypeInv, DocumentsOK
  <2>1. CASE worker' = [worker EXCEPT ![v] = Idle]
    BY <2>1, IdleQuiet
  <2>2. CASE \E pc \in Calls : Call(v, pc)
    BY <2>2, ReturnQuiet
  <2>3. CASE worker' = [worker EXCEPT ![v] = [@ EXCEPT !.pc = "running", !.age = 0,
                                                      !.exec = "fetching"]]
    <3> DEFINE state == [worker[v] EXCEPT !.pc = "running", !.age = 0, !.exec = "fetching"]
    <3>1. state.gen = worker[v].gen /\ state.job = worker[v].job
      BY <2>0 DEF WorkerState
    <3>2. worker' = [worker EXCEPT ![v] = state]
      BY <2>3
    <3> HIDE DEF state
    <3> QED
      BY <3>1, <3>2, OneWorkerQuiet
  <2>4. ASSUME NEW result, worker' = [worker EXCEPT ![v] =
                                        [@ EXCEPT !.exec = "off", !.result = result]]
        PROVE  WorkersQuiet
    <3> DEFINE state == [worker[v] EXCEPT !.exec = "off", !.result = result]
    <3>1. state.gen = worker[v].gen /\ state.job = worker[v].job
      BY <2>0 DEF WorkerState
    <3>2. worker' = [worker EXCEPT ![v] = state]
      BY <2>4
    <3> HIDE DEF state
    <3> QED
      BY <3>1, <3>2, OneWorkerQuiet
  <2> QED
    BY <1>3, <2>1, <2>2, <2>3, <2>4 DEF Claim, CommitIngestionBatch, Calls
<1> QED
  BY <1>1, <1>2, <1>3, StepsAreQuiet DEF WorkersQuiet

\* A batch is what gives an invocation a success.
LEMMA BatchSucceeds ==
    ASSUME TypeInv, NEW v \in Worker, CommitIngestionBatch(v), NEW w \in Worker,
           worker'[w].result = "succeeded"
    PROVE  \/ worker[w].result = "succeeded" /\ worker'[w].pc = worker[w].pc
           \/ /\ w = v /\ worker'[w].pc # "selected"
              /\ worker'[w].gen = worker[w].gen /\ worker'[w].job = worker[w].job
              /\ worker[w].job \in Job
              /\ written'[job[worker[w].job].source].gen = worker[w].gen
<1>0. worker[v] \in WorkerState
  BY DEF TypeInv, DocumentsOK
<1>1. CASE w # v
  BY <1>1 DEF CommitIngestionBatch, TypeInv, DocumentsOK
<1>2. CASE w = v
  <2>1. CASE worker' = [worker EXCEPT ![v] = Idle]
    BY <1>2, <2>1 DEF Idle, TypeInv, DocumentsOK
  <2>2. CASE worker[v].pc # "idle"
    <3>1. PICK result \in IF InRun(v) THEN {"succeeded", "final"} ELSE {worker[v].result} :
            worker' = [worker EXCEPT ![v] = [@ EXCEPT !.exec = "off", !.result = result]]
      BY <2>2 DEF CommitIngestionBatch
    <3> DEFINE state == [worker[v] EXCEPT !.exec = "off", !.result = result]
    <3>2. /\ state.gen = worker[v].gen /\ state.job = worker[v].job
          /\ state.pc = worker[v].pc /\ state.result = result
      BY <1>0 DEF WorkerState
    <3>3. worker' = [worker EXCEPT ![v] = state]
      BY <3>1
    <3> HIDE DEF state
    <3>4. worker'[w] = state
      BY <1>2, <3>3 DEF TypeInv, DocumentsOK
    <3>5. worker[v].job \in Job
      BY <2>2 DEF TypeInv, WorkersName
    <3>6. written'[job[worker[v].job].source].gen = worker[v].gen
      BY <3>5 DEF CommitIngestionBatch, TypeInv, DocumentsOK, JobDocument
    <3> QED
      BY <1>2, <3>1, <3>2, <3>4, <3>5, <3>6 DEF InRun
  <2> QED
    BY <2>1, <2>2 DEF CommitIngestionBatch
<1> QED
  BY <1>1, <1>2

LEMMA NextResults ==
    ASSUME TypeInv, TypeInv', FenceInv, RetryInv, ResultInv, [Step]_documents
    PROVE  ResultInv'
<1> USE DEF FenceInv
<1>1. ASSUME NEW w \in Worker, worker'[w].result = "succeeded"
      PROVE  /\ worker'[w].pc # "selected"
             /\ worker'[w].gen # 0 =>
                  written'[job'[worker'[w].job].source].gen >= worker'[w].gen
  <2>1. CASE \E v \in Worker : CommitIngestionBatch(v)
    <3>1. PICK v \in Worker : CommitIngestionBatch(v)
      BY <2>1
    <3>2. CASE worker[w].result = "succeeded" /\ worker'[w].pc = worker[w].pc
      BY <1>1, <3>2, FenceKept, OldResult DEF ResultInv
    <3>3. CASE /\ worker'[w].pc # "selected"
               /\ worker'[w].gen = worker[w].gen /\ worker'[w].job = worker[w].job
               /\ written'[job[worker[w].job].source].gen = worker[w].gen
      <4>0. job' = job
        BY <3>1 DEF CommitIngestionBatch
      <4>1. job' = job /\ worker[w].gen \in Nat
        BY <4>0, BoundsAssumption DEF TypeInv, DocumentsOK, WorkerState
      <4> DEFINE s == job[worker[w].job].source
      <4>2. written'[s].gen = worker[w].gen /\ job'[worker'[w].job].source = s
        BY <3>3, <4>1
      <4> HIDE DEF s
      <4> QED
        BY <3>3, <4>1, <4>2
    <3> QED
      BY <1>1, <3>1, <3>2, <3>3, BatchSucceeds
  <2>2. CASE ~\E v \in Worker : CommitIngestionBatch(v)
    <3>1. NoResult
      <4>1. CASE worker' = worker
        BY <4>1 DEF NoResult
      <4>2. CASE \E v \in Worker : WorkerStep(v)
        BY <2>2, <4>2, WorkerNoResult
      <4>3. CASE Tick
        <5>1. ASSUME NEW v \in Worker
              PROVE  worker'[v].result = worker[v].result /\ worker'[v].pc = worker[v].pc
          <6> DEFINE age == IF worker[v].pc \in Calls THEN worker[v].age + 1 ELSE worker[v].age
                     beat == IF worker[v].beat = NoBeat THEN worker[v].beat
                                                        ELSE worker[v].beat + 1
          <6>1. worker'[v] = [worker[v] EXCEPT !.age = age, !.beat = beat]
            BY <4>3 DEF Tick
          <6>2. worker[v] \in WorkerState
            BY DEF TypeInv, DocumentsOK
          <6> HIDE DEF age, beat
          <6> QED
            BY <6>1, <6>2 DEF WorkerState
        <5> QED
          BY <5>1 DEF NoResult
      <4> QED
        BY <4>1, <4>2, <4>3 DEF Step, Work, documents, RecovererStep, RecoverStart, RecoverList,
           RecoverLease, RecoverOrphan, RecoverEnd, AdminStep, AskCreate, AskRetry, InsertJob,
           RequestEnds, CancelIngestionJob, PurgeDueIngestionJobs,
           TransitionOperationalStatus, ApplySourceUpdate, ReviewSourcePolicy,
           RequestPolicyReReview, RunTechnicalCheck, SetSource
    <3>2. worker[w].result = "succeeded"
      BY <1>1, <3>1 DEF NoResult
    <3>3. worker'[w].pc # "selected" /\ worker[w].pc # "selected"
      BY <1>1, <3>1, <3>2 DEF NoResult, ResultInv
    <3> QED
      BY <3>2, <3>3, FenceKept, OldResult
  <2> QED
    BY <2>1, <2>2
<1>2. ASSUME NEW j \in Job, job'[j].status = "succeeded"
      PROVE  written'[job'[j].source].gen >= job'[j].gen
  <2>1. CASE job[j].status = "succeeded"
    BY <1>2, <2>1, OldSuccess
  <2>2. CASE job[j].status # "succeeded"
    <3>1. ~NoSuccess
      BY <1>2, <2>2 DEF NoSuccess
    <3>2. PICK w \in Worker : CompleteWithFence(w)
      BY <3>1, WorkerNoSuccess, OthersNoSuccess DEF Step, Work
    <3>3. /\ worker[w].job = j /\ worker[w].result = "succeeded"
          /\ job[j].gen = worker[w].gen /\ job'[j].gen = job[j].gen
      BY <1>2, <2>2, <3>2, CompletionSucceeds
    <3>4. job[j].status = "running"
      BY <3>2, <3>3 DEF CompleteWithFence, RunningAs
    <3>5. Holds(w)
      BY <3>3, <3>4, BoundsAssumption DEF Holds, GenerationsAreFences, Running
    <3>6. job'[j].source = job[j].source
      <4>1. PICK c \in Job \cup {None} : Grows(c)
        BY NextGrows
      <4> QED
        BY <3>4, <4>1 DEF Grows, Fresh, Moves
    <3>7. written' = written
      BY <3>2 DEF CompleteWithFence
    <3> QED
      BY <3>3, <3>5, <3>6, <3>7 DEF ResultInv
  <2> QED
    BY <2>1, <2>2
<1> QED
  BY <1>1, <1>2 DEF ResultInv, SuccessWasWritten, Holds

LEMMA AlwaysResults == Spec => []ResultInv
<1>1. Init => ResultInv
  <2> SUFFICES ASSUME Init PROVE ResultInv
    OBVIOUS
  <2>1. \A w \in Worker : worker[w].result = "pending"
    BY DEF Init, Idle
  <2>2. \A j \in Job : job[j].status = "unused"
    BY DEF Init, NoDocument
  <2> QED
    BY <2>1, <2>2 DEF ResultInv, SuccessWasWritten
<1>2. TypeInv /\ TypeInv' /\ FenceInv /\ RetryInv /\ ResultInv /\ [Step]_documents => ResultInv'
  BY NextResults
<1> QED
  BY <1>1, <1>2, AlwaysFenced, AlwaysLinked, StepsOfDocuments, PTL DEF Spec

\* A job is reported succeeded only after its own attempt wrote its batch, or the
\* source has seen a later one (runExecutor and completeWithFence).
THEOREM SuccessesWereWritten == Spec => []SuccessWasWritten
<1>1. ResultInv => SuccessWasWritten
  BY DEF ResultInv
<1> QED
  BY <1>1, AlwaysResults, PTL

-----------------------------------------------------------------------------
(* Leases and crashes *)

\* Who clears an owner is the invocation that holds its fence, or a recovery that
\* has found it expired.
LEMMA WhoClears ==
    ASSUME TypeInv, [Step]_documents, NEW s \in Source, owner[s] # None, owner'[s] = None
    PROVE  \/ \E w \in Worker : /\ worker[w].gen = owner[s].gen
                                /\ worker[w].job = owner[s].job
                                /\ worker'[w] # worker[w]
           \/ \E r \in Recoverer : LeaseExpired(s, rec[r].age)
<1>1. ASSUME NEW w \in Worker, WorkerStep(w)
      PROVE  /\ worker[w].gen = owner[s].gen
             /\ worker[w].job = owner[s].job
             /\ worker'[w] # worker[w]
  <2>1. ASSUME Return(w), worker[w].pc \in Calls PROVE worker'[w] # worker[w]
    <3> DEFINE state == [worker[w] EXCEPT !.pc = "idle", !.age = 0, !.beat = NoBeat,
                                          !.result = "final"]
    <3>1. state.pc = "idle" /\ Idle.pc = "idle"
      BY DEF TypeInv, DocumentsOK, WorkerState, Idle
    <3>2. worker' = [worker EXCEPT ![w] = state] \/ worker' = [worker EXCEPT ![w] = Idle]
      BY <2>1 DEF Return
    <3> HIDE DEF state
    <3>3. worker'[w].pc = "idle"
      BY <3>1, <3>2 DEF TypeInv, DocumentsOK
    <3> QED
      BY <2>1, <3>3 DEF Calls
  <2>2. ASSUME Clear(job[worker[w].job].source), Return(w), worker[w].pc \in Calls,
               OwnedBy(worker[w].job, worker[w].gen)
        PROVE  /\ worker[w].gen = owner[s].gen
               /\ worker[w].job = owner[s].job
               /\ worker'[w] # worker[w]
    BY <2>1, <2>2 DEF Clear, OwnedBy, TypeInv, DocumentsOK
  <2>3. CASE Release(w) \/ CompleteWithFence(w) \/ FinalizeOrphanedAttempt(w)
             \/ DeferWithFence(w)
    BY <2>2, <2>3
    DEF Release, CompleteWithFence, FinalizeOrphanedAttempt, DeferWithFence, Fenced, Calls
  <2>4. CASE Acquire(w)
    <3> DEFINE k == job[worker[w].job].source
    <3>1. worker[w].job \in Job /\ k \in Source /\ highWater[k] + 1 \in 1..MaxGeneration
      BY <2>4, BoundsAssumption DEF Acquire, TypeInv, DocumentsOK, WorkersName, JobDocument
    <3>2. PICK o \in Owner : owner' = [owner EXCEPT ![k] = o] /\ o # None
      BY <2>4, <3>1, GrantType DEF Acquire
    <3> HIDE DEF k
    <3> QED
      BY <3>2 DEF TypeInv, DocumentsOK
  <2>5. CASE Heartbeat(w)
    <3> DEFINE k == job[worker[w].job].source
               new == [owner[k] EXCEPT !.ttl = LeaseTicks - worker[w].beat]
    <3>1. owner' = [owner EXCEPT ![k] = new]
      BY <2>5 DEF Heartbeat
    <3>2. worker[w].beat \in 0..MaxLatency /\ worker[w].job \in Job
      BY <2>5 DEF Heartbeat, TypeInv, DocumentsOK, WorkerState, WorkersName
    <3>3. k \in Source /\ owner[k] # None /\ owner[k] \in Owner
      BY <2>5, <3>2 DEF Heartbeat, Fenced, OwnedBy, TypeInv, DocumentsOK, JobDocument
    <3>4. LeaseTicks - worker[w].beat \in -MaxLatency..LeaseTicks
      BY <3>2, BoundsAssumption
    <3>5. new \in Owner
      BY <3>3, <3>4 DEF Owner
    <3> HIDE DEF new
    <3> QED
      BY <3>1, <3>5, NoneAssumption DEF TypeInv, DocumentsOK
  <2> QED
    BY <1>1, <2>3, <2>4, <2>5
    DEF WorkerStep, Progress, Beat, Select, Claim, ClaimRefused, Fetched, ExecutorFails,
        CommitIngestionBatch, LateCommitAborts, DeadlineFires, HeartbeatSent, HeartbeatLost,
        BeginComplete, CompletionStale, GiveUp, WorkerCrash, stores
<1>2. ASSUME NEW r \in Recoverer, RecovererStep(r) PROVE LeaseExpired(s, rec[r].age)
  BY <1>2 DEF RecovererStep, RecoverStart, RecoverList, RecoverLease, RecoverOrphan,
              RecoverEnd, stores, NamesExpiredLease, Clear, TypeInv, DocumentsOK
<1>3. CASE Tick
  <2>1. owner[s] \in Owner /\ owner[s].ttl \in Int
    BY BoundsAssumption DEF TypeInv, DocumentsOK, Owner
  <2> DEFINE new == [owner[s] EXCEPT !.ttl = @ - 1]
  <2>2. owner'[s] = owner[s] \/ (owner[s].ttl # -MaxLatency /\ owner'[s] = new)
    BY <1>3 DEF Tick
  <2>3. owner[s].ttl # -MaxLatency => owner[s].ttl - 1 \in -MaxLatency..LeaseTicks
    BY <2>1, BoundsAssumption DEF Owner
  <2>4. owner[s].ttl # -MaxLatency => new \in Owner
    BY <2>1, <2>3 DEF Owner
  <2> HIDE DEF new
  <2> QED
    BY <2>2, <2>4, NoneAssumption
<1>4. CASE AdminStep \/ UNCHANGED documents
  BY <1>4 DEF AdminStep, AskCreate, AskRetry, InsertJob, RequestEnds, CancelIngestionJob,
     PurgeDueIngestionJobs, TransitionOperationalStatus, ApplySourceUpdate, ReviewSourcePolicy,
     RequestPolicyReReview, RunTechnicalCheck, SetSource, stores, documents
<1> QED
  BY <1>1, <1>2, <1>3, <1>4 DEF Step, Work

\* A lease that has not expired is given up by the invocation that holds it only:
\* recovery, judging by the clock its run began with, takes expired ones.
THEOREM LiveLeasesAreKept == Spec => LiveLeaseIsKept
<1> DEFINE Kept == \A s \in Source :
                     owner[s] # None /\ owner[s].ttl > 0 /\ owner'[s] = None =>
                        \E w \in Worker : /\ worker[w].gen = owner[s].gen
                                          /\ worker[w].job = owner[s].job
                                          /\ worker'[w] # worker[w]
<1>1. TypeInv /\ FenceInv /\ [Step]_documents => [Kept]_vars
  <2> SUFFICES ASSUME TypeInv, [Step]_documents, NEW s \in Source,
                      owner[s] # None, owner[s].ttl > 0, owner'[s] = None
               PROVE  \E w \in Worker : /\ worker[w].gen = owner[s].gen
                                        /\ worker[w].job = owner[s].job
                                        /\ worker'[w] # worker[w]
    OBVIOUS
  <2>1. ASSUME NEW r \in Recoverer, LeaseExpired(s, rec[r].age) PROVE FALSE
    <3>1. rec[r].age \in Nat /\ owner[s].ttl \in Int /\ owner[s].ttl + rec[r].age <= 0
      BY <2>1, BoundsAssumption DEF LeaseExpired, TypeInv, DocumentsOK, RecovererState, Owner
    <3> QED
      BY <3>1
  <2> QED
    BY <2>1, WhoClears
<1> QED
  BY <1>1, AlwaysFenced, StepsOfDocuments, PTL DEF Spec, LiveLeaseIsKept

\* A heartbeat in flight reads the clock no later than its lease was granted or
\* renewed: committing it never shortens the lease.
BeatsAreLate ==
    \A w \in Worker : worker[w].beat # NoBeat =>
        /\ worker[w].pc # "selected"
        /\ \A s \in Source :
             /\ owner[s] # None
             /\ owner[s].job = worker[w].job /\ owner[s].gen = worker[w].gen
             => owner[s].ttl <= LeaseTicks - worker[w].beat

\* A run that has come to the orphans has found every expired lease gone: if the
\* attempt it is about to fail still owns its lease, that has not expired by the
\* clock of the run, and no later grant carries its generation.
OrphansHaveNoLease ==
    \A r \in Recoverer : rec[r].pc = "orphan" =>
        /\ rec[r].job \in Job /\ job[rec[r].job].status # "unused"
        /\ rec[r].gen <= highWater[job[rec[r].job].source]
        /\ \A s \in Source :
             /\ owner[s] # None
             /\ owner[s].job = rec[r].job /\ owner[s].gen = rec[r].gen
             => owner[s].ttl + rec[r].age > 0

SweepInv == BeatsAreLate /\ OrphansHaveNoLease

\* Heartbeats are sent now, or were in flight; none by an invocation that selects.
BeatsKept ==
    \A w \in Worker : worker'[w].beat # NoBeat =>
        /\ worker'[w].beat = 0 \/ worker'[w].beat = worker[w].beat
        /\ worker'[w].pc = "selected" =>
             worker[w].pc = "selected" /\ worker[w].beat = worker'[w].beat

\* One local state changes.
LEMMA OneBeat ==
    ASSUME TypeInv, NEW w \in Worker, NEW state, worker' = [worker EXCEPT ![w] = state],
           \/ state.beat = NoBeat
           \/ state.beat \in {worker[w].beat, 0} /\ state.pc # "selected"
           \/ state.beat = worker[w].beat /\ state.pc = worker[w].pc
    PROVE  BeatsKept
BY DEF BeatsKept, TypeInv, DocumentsOK

\* Every step of an invocation.
LEMMA WorkerBeats ==
    ASSUME TypeInv, NEW w \in Worker, WorkerStep(w)
    PROVE  BeatsKept
<1>0. worker[w] \in WorkerState
  BY DEF TypeInv, DocumentsOK
<1>1. CASE worker' = [worker EXCEPT ![w] = Idle]
  <2>1. Idle.beat = NoBeat
    BY DEF Idle
  <2> QED
    BY <1>1, <2>1, OneBeat
<1>2. CASE Select(w)
  <2>1. PICK j \in Due :
          worker' = [worker EXCEPT ![w] = [Idle EXCEPT !.pc = "selected", !.job = j]]
    BY <1>2 DEF Select
  <2> DEFINE state == [Idle EXCEPT !.pc = "selected", !.job = j]
  <2>2. state.beat = NoBeat
    BY DEF Idle
  <2>3. worker' = [worker EXCEPT ![w] = state]
    BY <2>1
  <2> HIDE DEF state
  <2> QED
    BY <2>2, <2>3, OneBeat
<1>3. CASE Acquire(w)
  <2> DEFINE s == job[worker[w].job].source
             state == [worker[w] EXCEPT !.pc = "claiming", !.gen = highWater[s] + 1]
  <2>1. state.beat = worker[w].beat /\ state.pc = "claiming"
    BY <1>0 DEF WorkerState
  <2>2. worker' = [worker EXCEPT ![w] = state]
    BY <1>3 DEF Acquire
  <2> HIDE DEF state
  <2> QED
    BY <2>1, <2>2, OneBeat
<1>4. ASSUME NEW pc \in Calls, Call(w, pc) PROVE BeatsKept
  <2> DEFINE state == [worker[w] EXCEPT !.pc = pc, !.age = 0]
  <2>1. state.beat = worker[w].beat /\ state.pc # "selected"
    BY <1>0 DEF WorkerState, Calls
  <2>2. worker' = [worker EXCEPT ![w] = state]
    BY <1>4 DEF Call
  <2> HIDE DEF state
  <2> QED
    BY <2>1, <2>2, OneBeat
<1>5. CASE Claim(w)
  <2>1. CASE worker' = [worker EXCEPT ![w] = [@ EXCEPT !.pc = "running", !.age = 0,
                                                       !.exec = "fetching"]]
    <3> DEFINE state == [worker[w] EXCEPT !.pc = "running", !.age = 0, !.exec = "fetching"]
    <3>1. state.beat = worker[w].beat /\ state.pc = "running"
      BY <1>0 DEF WorkerState
    <3>2. worker' = [worker EXCEPT ![w] = state]
      BY <2>1
    <3> HIDE DEF state
    <3> QED
      BY <3>1, <3>2, OneBeat
  <2> QED
    BY <1>4, <1>5, <2>1 DEF Claim, Calls
<1>6. CASE Return(w)
  <2> DEFINE state == [worker[w] EXCEPT !.pc = "idle", !.age = 0, !.beat = NoBeat,
                                        !.result = "final"]
  <2>1. state.beat = NoBeat
    BY <1>0 DEF WorkerState
  <2>2. worker' = [worker EXCEPT ![w] = state] \/ worker' = [worker EXCEPT ![w] = Idle]
    BY <1>6 DEF Return
  <2> HIDE DEF state
  <2> QED
    BY <1>1, <2>1, <2>2, OneBeat
<1>7. ASSUME NEW exec, NEW result, worker' = [worker EXCEPT ![w] =
                                                [@ EXCEPT !.exec = exec, !.result = result]]
      PROVE  BeatsKept
  <2> DEFINE state == [worker[w] EXCEPT !.exec = exec, !.result = result]
  <2>1. state.beat = worker[w].beat /\ state.pc = worker[w].pc
    BY <1>0 DEF WorkerState
  <2>2. worker' = [worker EXCEPT ![w] = state]
    BY <1>7
  <2> HIDE DEF state
  <2> QED
    BY <2>1, <2>2, OneBeat
<1>8. ASSUME NEW exec, worker' = [worker EXCEPT ![w] = [@ EXCEPT !.exec = exec]]
      PROVE  BeatsKept
  <2> DEFINE state == [worker[w] EXCEPT !.exec = exec]
  <2>1. state.beat = worker[w].beat /\ state.pc = worker[w].pc
    BY <1>0 DEF WorkerState
  <2>2. worker' = [worker EXCEPT ![w] = state]
    BY <1>8
  <2> HIDE DEF state
  <2> QED
    BY <2>1, <2>2, OneBeat
<1>9. CASE HeartbeatSent(w) \/ Heartbeat(w)
  <2> DEFINE sent == [worker[w] EXCEPT !.beat = 0]
             done == [worker[w] EXCEPT !.beat = NoBeat]
  <2>1. sent.beat = 0 /\ sent.pc = worker[w].pc /\ done.beat = NoBeat
    BY <1>0 DEF WorkerState
  <2>2. \/ worker' = [worker EXCEPT ![w] = sent] /\ worker[w].pc # "selected"
        \/ worker' = [worker EXCEPT ![w] = done]
    BY <1>9 DEF HeartbeatSent, Heartbeat, Beating
  <2> HIDE DEF sent, done
  <2> QED
    BY <2>1, <2>2, OneBeat
<1>10. CASE HeartbeatLost(w)
  <2> DEFINE lost == [worker[w] EXCEPT !.pc = "finalizing", !.age = 0, !.beat = NoBeat,
                                       !.exec = LeftInFlight(w), !.result = "heartbeat_lost"]
             late == [worker[w] EXCEPT !.beat = NoBeat]
  <2>1. lost.beat = NoBeat /\ late.beat = NoBeat
    BY <1>0 DEF WorkerState
  <2>2. worker' = [worker EXCEPT ![w] = lost] \/ worker' = [worker EXCEPT ![w] = late]
    BY <1>10 DEF HeartbeatLost
  <2> HIDE DEF lost, late
  <2> QED
    BY <2>1, <2>2, OneBeat
<1>11. CASE CompletionStale(w)
  <2> DEFINE state == [worker[w] EXCEPT !.pc = "finalizing", !.age = 0,
                                        !.result = "fence_stale"]
  <2>1. state.beat = worker[w].beat /\ state.pc = "finalizing"
    BY <1>0 DEF WorkerState
  <2>2. worker' = [worker EXCEPT ![w] = state]
    BY <1>11 DEF CompletionStale
  <2> HIDE DEF state
  <2> QED
    BY <2>1, <2>2, OneBeat
<1>12. CASE Fetched(w) \/ ExecutorFails(w) \/ CommitIngestionBatch(w) \/ LateCommitAborts(w)
            \/ DeadlineFires(w)
  BY <1>1, <1>7, <1>8, <1>12 DEF Fetched, ExecutorFails, CommitIngestionBatch,
     LateCommitAborts, DeadlineFires
<1> QED
  BY <1>1, <1>2, <1>3, <1>4, <1>5, <1>6, <1>9, <1>10, <1>11, <1>12
  DEF WorkerStep, Progress, Beat, ClaimRefused, Release, BeginComplete, CompleteWithFence,
      FinalizeOrphanedAttempt, DeferWithFence, GiveUp, WorkerCrash, Calls

\* Every step but the passing of time.
LEMMA NextBeats ==
    ASSUME TypeInv, [Step]_documents, ~Tick
    PROVE  BeatsKept
<1>1. CASE worker' = worker
  BY <1>1 DEF BeatsKept
<1> QED
  BY <1>1, WorkerBeats
  DEF Step, Work, documents, RecovererStep, RecoverStart, RecoverList, RecoverLease, RecoverOrphan,
      RecoverEnd, AdminStep, AskCreate, AskRetry, InsertJob, RequestEnds, CancelIngestionJob,
      PurgeDueIngestionJobs, TransitionOperationalStatus, ApplySourceUpdate,
      ReviewSourcePolicy, RequestPolicyReReview, RunTechnicalCheck, SetSource

\* A heartbeat that commits renews the lease of its own attempt.
Renewed(w, s) ==
    /\ worker[w].beat # NoBeat /\ worker'[w].beat = NoBeat
    /\ worker[w].job = owner[s].job /\ worker[w].gen = owner[s].gen
    /\ owner[s] # None /\ owner'[s].job = owner[s].job /\ owner'[s].gen = owner[s].gen
    /\ owner'[s].ttl = LeaseTicks - worker[w].beat

\* A grant is of a generation above all that its source has seen.
Granted(w, s) ==
    /\ worker[w].pc = "selected" /\ worker[w].job \in Job
    /\ job[worker[w].job].source = s
    /\ owner'[s].job = worker[w].job /\ owner'[s].gen = highWater[s] + 1

\* What a step makes of an owner.
LEMMA OwnerMoves ==
    ASSUME TypeInv, [Step]_documents, ~Tick, NEW s \in Source, owner'[s] # None
    PROVE  \/ owner[s] # None /\ owner'[s] = owner[s]
           \/ \E w \in Worker : Granted(w, s) \/ Renewed(w, s)
<1>1. ASSUME NEW w \in Worker, Acquire(w)
      PROVE  (owner[s] # None /\ owner'[s] = owner[s]) \/ Granted(w, s)
  <2> DEFINE k == job[worker[w].job].source
  <2>1. /\ worker[w].pc = "selected" /\ worker[w].job \in Job /\ k \in Source
        /\ highWater[k] + 1 \in 1..MaxGeneration
    BY <1>1, BoundsAssumption DEF Acquire, TypeInv, DocumentsOK, WorkersName, JobDocument
  <2>2. PICK o \in Owner : /\ owner' = [owner EXCEPT ![k] = o]
                           /\ o.job = worker[w].job /\ o.gen = highWater[k] + 1
    BY <1>1, <2>1, GrantType DEF Acquire
  <2> QED
    BY <2>1, <2>2 DEF Granted, TypeInv, DocumentsOK
<1>2. ASSUME NEW w \in Worker, Heartbeat(w)
      PROVE  (owner[s] # None /\ owner'[s] = owner[s]) \/ Renewed(w, s)
  <2> DEFINE k == job[worker[w].job].source
             new == [owner[k] EXCEPT !.ttl = LeaseTicks - worker[w].beat]
  <2>1. owner' = [owner EXCEPT ![k] = new] /\ worker[w].beat # NoBeat
    BY <1>2 DEF Heartbeat
  <2>2. worker[w].job \in Job
    BY <1>2 DEF Heartbeat, TypeInv, DocumentsOK, WorkerState, WorkersName
  <2>3. /\ k \in Source /\ owner[k] \in Owner /\ owner[k] # None
        /\ owner[k].job = worker[w].job /\ owner[k].gen = worker[w].gen
    BY <1>2, <2>2 DEF Heartbeat, Fenced, OwnedBy, TypeInv, DocumentsOK, JobDocument
  <2>4. new.ttl = LeaseTicks - worker[w].beat /\ new.job = owner[k].job /\ new.gen = owner[k].gen
    BY <2>3 DEF Owner
  <2> HIDE DEF new
  <2>5. worker'[w].beat = NoBeat
    <3> DEFINE state == [worker[w] EXCEPT !.beat = NoBeat]
    <3>1. state.beat = NoBeat
      BY DEF TypeInv, DocumentsOK, WorkerState
    <3>2. worker' = [worker EXCEPT ![w] = state]
      BY <1>2 DEF Heartbeat
    <3> HIDE DEF state
    <3> QED
      BY <3>1, <3>2 DEF TypeInv, DocumentsOK
  <2> QED
    BY <2>1, <2>3, <2>4, <2>5 DEF Renewed, TypeInv, DocumentsOK
<1>3. ASSUME NEW w \in Worker, WorkerStep(w), ~Acquire(w), ~Heartbeat(w)
      PROVE  owner'[s] = owner[s]
  BY <1>3 DEF WorkerStep, Progress, Beat, Select, Claim, ClaimRefused, Release, Fetched,
     ExecutorFails, CommitIngestionBatch, LateCommitAborts, DeadlineFires, HeartbeatSent,
     HeartbeatLost, BeginComplete, CompleteWithFence, CompletionStale, FinalizeOrphanedAttempt,
     DeferWithFence, GiveUp, WorkerCrash, stores, Clear, TypeInv, DocumentsOK
<1>4. ASSUME NEW r \in Recoverer, RecovererStep(r) PROVE owner'[s] = owner[s]
  BY <1>4 DEF RecovererStep, RecoverStart, RecoverList, RecoverLease, RecoverOrphan,
              RecoverEnd, stores, Clear, TypeInv, DocumentsOK
<1>5. CASE AdminStep \/ UNCHANGED documents
  BY <1>5 DEF AdminStep, AskCreate, AskRetry, InsertJob, RequestEnds, CancelIngestionJob,
     PurgeDueIngestionJobs, TransitionOperationalStatus, ApplySourceUpdate, ReviewSourcePolicy,
     RequestPolicyReReview, RunTechnicalCheck, SetSource, stores, documents
<1> QED
  BY <1>1, <1>2, <1>3, <1>4, <1>5 DEF Step, Work

\* What a step makes of a recovery loop that comes to the orphans.
LEMMA RecovererMoves ==
    ASSUME TypeInv, [Step]_documents, ~Tick, NEW r \in Recoverer, rec'[r].pc = "orphan"
    PROVE  \/ rec'[r] = rec[r]
           \/ /\ Sweeps(r) /\ owner' = owner /\ rec'[r].age = rec[r].age
              /\ rec'[r].job \in Running /\ rec'[r].gen = job[rec'[r].job].gen
<1>0. rec[r] \in RecovererState
  BY DEF TypeInv, DocumentsOK
<1>1. ASSUME NEW q \in Recoverer, RecovererStep(q), q = r
      PROVE  /\ Sweeps(r) /\ owner' = owner /\ rec'[r].age = rec[r].age
             /\ rec'[r].job \in Running /\ rec'[r].gen = job[rec'[r].job].gen
  <2>1. ASSUME NEW d, d.pc # "orphan", rec' = [rec EXCEPT ![r] = d] PROVE FALSE
    BY <2>1 DEF TypeInv, DocumentsOK
  <2> DEFINE listing == [Resting EXCEPT !.pc = "listing"]
             again == [Resting EXCEPT !.pc = "listing", !.age = rec[r].age]
  <2>2. listing.pc = "listing" /\ again.pc = "listing" /\ Resting.pc = "idle"
    BY DEF Resting
  <2>3. ~RecoverStart(r) /\ ~RecoverLease(r) /\ ~RecoverOrphan(r) /\ ~RecoverEnd(r)
    <3>1. RecoverStart(r) \/ RecoverLease(r) \/ RecoverOrphan(r) \/ RecoverEnd(r) =>
            \/ rec' = [rec EXCEPT ![r] = listing]
            \/ rec' = [rec EXCEPT ![r] = again]
            \/ rec' = [rec EXCEPT ![r] = Resting]
      BY DEF RecoverStart, RecoverLease, RecoverOrphan, RecoverEnd, Listing
    <3> HIDE DEF listing, again
    <3> QED
      BY <2>1, <2>2, <3>1
  <2>4. RecoverList(r)
    BY <1>1, <2>3 DEF RecovererStep
  <2>5. ASSUME NEW s \in Source,
               rec' = [rec EXCEPT ![r] = [@ EXCEPT !.pc = "lease", !.job = owner[s].job,
                                                   !.gen = owner[s].gen]]
        PROVE  FALSE
    <3> DEFINE d == [rec[r] EXCEPT !.pc = "lease", !.job = owner[s].job, !.gen = owner[s].gen]
    <3>1. d.pc = "lease"
      BY <1>0 DEF RecovererState
    <3>2. rec' = [rec EXCEPT ![r] = d]
      BY <2>5
    <3> HIDE DEF d
    <3> QED
      BY <2>1, <3>1, <3>2
  <2>6. PICK j \in Running :
          /\ Sweeps(r)
          /\ rec' = [rec EXCEPT ![r] = [@ EXCEPT !.pc = "orphan", !.job = j, !.gen = job[j].gen]]
    BY <2>4, <2>5 DEF RecoverList, ExpiredFor
  <2> DEFINE d == [rec[r] EXCEPT !.pc = "orphan", !.job = j, !.gen = job[j].gen]
  <2>7. d.age = rec[r].age /\ d.job = j /\ d.gen = job[j].gen
    BY <1>0 DEF RecovererState
  <2>8. rec' = [rec EXCEPT ![r] = d]
    BY <2>6
  <2> HIDE DEF d
  <2>9. rec'[r].age = rec[r].age /\ rec'[r].job = j /\ rec'[r].gen = job[j].gen
    BY <2>7, <2>8 DEF TypeInv, DocumentsOK
  <2> QED
    BY <2>4, <2>6, <2>9 DEF RecoverList, stores
<1>2. ASSUME NEW q \in Recoverer, RecovererStep(q), q # r PROVE rec'[r] = rec[r]
  BY <1>2 DEF RecovererStep, RecoverStart, RecoverList, RecoverLease, RecoverOrphan,
              RecoverEnd, Listing, TypeInv, DocumentsOK
<1>3. ASSUME NEW w \in Worker, WorkerStep(w) PROVE rec' = rec
  BY <1>3 DEF WorkerStep, Progress, Beat, Select, Acquire, Claim, ClaimRefused, Release,
     Fetched, ExecutorFails, CommitIngestionBatch, LateCommitAborts, DeadlineFires,
     HeartbeatSent, Heartbeat, HeartbeatLost, BeginComplete, CompleteWithFence,
     CompletionStale, FinalizeOrphanedAttempt, DeferWithFence, GiveUp, WorkerCrash
<1>4. CASE AdminStep \/ UNCHANGED documents
  BY <1>4 DEF AdminStep, AskCreate, AskRetry, InsertJob, RequestEnds, CancelIngestionJob,
     PurgeDueIngestionJobs, TransitionOperationalStatus, ApplySourceUpdate, ReviewSourcePolicy,
     RequestPolicyReReview, RunTechnicalCheck, SetSource, documents
<1> QED
  BY <1>1, <1>2, <1>3, <1>4 DEF Step, Work

\* A created job keeps its source, and the high-water mark never goes down.
LEMMA SourcesStay ==
    ASSUME TypeInv, TypeInv', RetryInv, [Step]_documents, NEW j \in Job, job[j].status # "unused"
    PROVE  job'[j].status # "unused" /\ job'[j].source = job[j].source
<1>1. PICK c \in Job \cup {None} : Grows(c)
  BY NextGrows
<1>2. Moves(job[j], job'[j])
  BY <1>1 DEF Grows, Fresh
<1> QED
  BY <1>2 DEF Moves

LEMMA GrantsGrow ==
    ASSUME TypeInv, TypeInv', FenceInv, [Step]_documents, NEW s \in Source
    PROVE  /\ highWater[s] \in Nat /\ highWater'[s] \in Nat
           /\ highWater'[s] >= highWater[s]
<1>1. highWater[s] \in Nat /\ highWater'[s] \in Nat
  BY BoundsAssumption DEF TypeInv, DocumentsOK
<1>2. ASSUME NEW w \in Worker, Acquire(w) PROVE highWater'[s] >= highWater[s]
  <2>1. \E k \in Source : highWater' = [highWater EXCEPT ![k] = highWater[k] + 1]
    BY <1>2 DEF Acquire, TypeInv, DocumentsOK, WorkersName, JobDocument
  <2> QED
    BY <1>1, <2>1 DEF TypeInv, DocumentsOK
<1>3. CASE highWater' = highWater
  BY <1>1, <1>3
<1> QED
  BY <1>1, <1>2, <1>3, StepsAreQuiet DEF FenceInv, Claim, CommitIngestionBatch, Quiet

\* The passing of time, for heartbeats and for orphans.
LEMMA TickSweeps ==
    ASSUME TypeInv, TypeInv', SweepInv, Tick
    PROVE  SweepInv'
<1>1. ASSUME NEW s \in Source, owner'[s] # None
      PROVE  /\ owner[s] # None
             /\ owner'[s].job = owner[s].job /\ owner'[s].gen = owner[s].gen
             /\ owner[s].ttl \in -MaxLatency..LeaseTicks
             /\ \/ owner[s].ttl = -MaxLatency /\ owner'[s].ttl = owner[s].ttl
                \/ owner'[s].ttl = owner[s].ttl - 1
  <2> DEFINE new == [owner[s] EXCEPT !.ttl = @ - 1]
  <2>1. (owner'[s] = owner[s] /\ owner[s].ttl = -MaxLatency) \/ owner'[s] = new
    BY <1>1 DEF Tick
  <2>2. owner[s] \in Owner
    BY <1>1 DEF Tick, TypeInv, DocumentsOK
  <2>3. new.job = owner[s].job /\ new.gen = owner[s].gen /\ new.ttl = owner[s].ttl - 1
    BY <2>2 DEF Owner
  <2> HIDE DEF new
  <2> QED
    BY <1>1, <2>1, <2>2, <2>3 DEF Owner, Tick
<1>2. ASSUME NEW w \in Worker, worker'[w].beat # NoBeat
      PROVE  /\ worker'[w].pc = worker[w].pc /\ worker'[w].job = worker[w].job
             /\ worker'[w].gen = worker[w].gen /\ worker[w].beat # NoBeat
             /\ worker[w].beat \in Nat /\ worker'[w].beat = worker[w].beat + 1
             /\ worker'[w].beat <= MaxLatency
  <2> DEFINE age == IF worker[w].pc \in Calls THEN worker[w].age + 1 ELSE worker[w].age
             beat == IF worker[w].beat = NoBeat THEN worker[w].beat ELSE worker[w].beat + 1
             new == [worker[w] EXCEPT !.age = age, !.beat = beat]
  <2>1. worker'[w] = new
    BY DEF Tick
  <2>2. worker[w] \in WorkerState /\ worker'[w] \in WorkerState
    BY DEF TypeInv, DocumentsOK
  <2> HIDE DEF age, beat
  <2>3. /\ new.pc = worker[w].pc /\ new.job = worker[w].job /\ new.gen = worker[w].gen
        /\ new.beat = beat
    BY <2>2 DEF WorkerState
  <2> HIDE DEF new
  <2>4. worker[w].beat # NoBeat /\ worker'[w].beat = worker[w].beat + 1
    BY <1>2, <2>1, <2>3 DEF beat
  <2>5. worker[w].beat \in Nat /\ worker'[w].beat <= MaxLatency
    BY <1>2, <2>2, <2>4, BoundsAssumption DEF WorkerState
  <2> QED
    BY <2>1, <2>3, <2>4, <2>5
<1>3. ASSUME NEW r \in Recoverer, rec'[r].pc = "orphan"
      PROVE  /\ rec[r].pc = "orphan" /\ rec'[r].job = rec[r].job /\ rec'[r].gen = rec[r].gen
             /\ rec[r].age \in Nat /\ rec'[r].age = rec[r].age + 1 /\ rec[r].age <= MaxLatency
  <2> DEFINE age == IF rec[r].pc = "idle" THEN rec[r].age ELSE rec[r].age + 1
             new == [rec[r] EXCEPT !.age = age]
  <2>1. rec'[r] = new
    BY DEF Tick
  <2>2. rec[r] \in RecovererState
    BY DEF TypeInv, DocumentsOK
  <2> HIDE DEF age
  <2>3. /\ new.pc = rec[r].pc /\ new.job = rec[r].job /\ new.gen = rec[r].gen
        /\ new.age = age
    BY <2>2 DEF RecovererState
  <2> HIDE DEF new
  <2> QED
    BY <1>3, <2>1, <2>2, <2>3, BoundsAssumption DEF age, RecovererState
<1>4. BeatsAreLate'
  <2>1. ASSUME NEW w \in Worker, worker'[w].beat # NoBeat, NEW s \in Source, owner'[s] # None,
               owner'[s].job = worker'[w].job, owner'[s].gen = worker'[w].gen
        PROVE  owner'[s].ttl <= LeaseTicks - worker'[w].beat
    <3>1. owner[s].ttl <= LeaseTicks - worker[w].beat
      BY <1>1, <1>2, <2>1 DEF SweepInv, BeatsAreLate
    <3> QED
      BY <1>1, <1>2, <2>1, <3>1, BoundsAssumption
  <2> QED
    BY <1>2, <2>1 DEF SweepInv, BeatsAreLate
<1>5. OrphansHaveNoLease'
  <2>1. ASSUME NEW r \in Recoverer, rec'[r].pc = "orphan", NEW s \in Source, owner'[s] # None,
               owner'[s].job = rec'[r].job, owner'[s].gen = rec'[r].gen
        PROVE  owner'[s].ttl + rec'[r].age > 0
    <3>1. owner[s].ttl + rec[r].age > 0
      BY <1>1, <1>3, <2>1 DEF SweepInv, OrphansHaveNoLease
    <3> QED
      BY <1>1, <1>3, <2>1, <3>1, BoundsAssumption
  <2>2. ASSUME NEW r \in Recoverer, rec'[r].pc = "orphan"
        PROVE  /\ rec'[r].job \in Job /\ job'[rec'[r].job].status # "unused"
               /\ rec'[r].gen <= highWater'[job'[rec'[r].job].source]
    <3>1. /\ rec[r].job \in Job /\ job[rec[r].job].status # "unused"
          /\ rec[r].gen <= highWater[job[rec[r].job].source]
      BY <1>3, <2>2 DEF SweepInv, OrphansHaveNoLease
    <3> DEFINE j == rec[r].job
               wait == IF job[j].wait = 0 THEN 0 ELSE job[j].wait - 1
               new == [job[j] EXCEPT !.wait = wait]
    <3>2. job'[j] = new /\ highWater' = highWater
      BY <3>1 DEF Tick
    <3>3. job[j] \in JobDocument
      BY <3>1 DEF TypeInv, DocumentsOK
    <3> HIDE DEF wait
    <3>4. new.status = job[j].status /\ new.source = job[j].source
      BY <3>3 DEF JobDocument
    <3> HIDE DEF new, j
    <3>5. job'[j].status # "unused" /\ rec'[r].gen <= highWater'[job'[j].source]
      BY <1>3, <2>2, <3>1, <3>2, <3>4 DEF j
    <3> QED
      BY <1>3, <2>2, <3>1, <3>5 DEF j
  <2> QED
    BY <2>1, <2>2 DEF OrphansHaveNoLease
<1> QED
  BY <1>4, <1>5 DEF SweepInv

\* Two invocations with a heartbeat in flight for one lease would hold one fence.
LEMMA NextLate ==
    ASSUME TypeInv, TypeInv', FenceInv, SweepInv, [Step]_documents, ~Tick
    PROVE  BeatsAreLate'
<1> SUFFICES ASSUME NEW w \in Worker, worker'[w].beat # NoBeat
             PROVE  /\ worker'[w].pc # "selected"
                    /\ \A s \in Source :
                         /\ owner'[s] # None
                         /\ owner'[s].job = worker'[w].job /\ owner'[s].gen = worker'[w].gen
                         => owner'[s].ttl <= LeaseTicks - worker'[w].beat
  BY DEF BeatsAreLate
<1>1. /\ worker'[w].beat = 0 \/ worker'[w].beat = worker[w].beat
      /\ worker'[w].pc = "selected" =>
           worker[w].pc = "selected" /\ worker[w].beat = worker'[w].beat
  BY NextBeats DEF BeatsKept
<1>2. worker'[w].pc # "selected"
  BY <1>1 DEF SweepInv, BeatsAreLate
<1>3. ASSUME NEW s \in Source, owner'[s] # None,
             owner'[s].job = worker'[w].job, owner'[s].gen = worker'[w].gen
      PROVE  owner'[s].ttl <= LeaseTicks - worker'[w].beat
  <2>1. owner'[s].ttl \in Int /\ owner'[s].ttl <= LeaseTicks /\ owner'[s].gen # 0
    BY <1>3, BoundsAssumption DEF TypeInv, DocumentsOK, Owner
  <2>2. CASE worker'[w].beat = 0
    BY <2>1, <2>2, BoundsAssumption
  <2>3. CASE worker'[w].beat = worker[w].beat
    <3>1. worker[w].beat # NoBeat /\ worker[w].pc # "selected"
      BY <2>3 DEF SweepInv, BeatsAreLate
    <3>2. worker'[w].gen = worker[w].gen /\ worker'[w].job = worker[w].job /\ Holds(w)
      BY <1>3, <2>1, <3>1, FenceKept DEF FenceInv, Holds
    <3>3. /\ worker[w].job \in Job /\ worker[w].gen \in Nat
          /\ worker[w].gen <= highWater[job[worker[w].job].source]
      BY <3>2, BoundsAssumption DEF FenceInv, HoldersApart, TypeInv, DocumentsOK, WorkerState
    <3>4. CASE owner[s] # None /\ owner'[s] = owner[s]
      BY <1>3, <2>3, <3>1, <3>2, <3>4 DEF SweepInv, BeatsAreLate
    <3>5. ASSUME NEW v \in Worker, Granted(v, s) PROVE FALSE
      <4>1. worker[w].gen = highWater[s] + 1 /\ job[worker[w].job].source = s
        BY <1>3, <3>2, <3>5 DEF Granted
      <4>2. highWater[s] \in Nat
        BY BoundsAssumption DEF TypeInv, DocumentsOK
      <4> QED
        BY <3>3, <4>1, <4>2
    <3>6. ASSUME NEW v \in Worker, Renewed(v, s) PROVE FALSE
      <4>1. worker[v].job = worker[w].job /\ worker[v].gen = worker[w].gen
        BY <1>3, <3>2, <3>6 DEF Renewed
      <4>2. v = w
        BY <3>2, <4>1 DEF FenceInv, HoldersApart, Holds
      <4> QED
        BY <3>6, <4>2 DEF Renewed
    <3> QED
      BY <1>3, <3>4, <3>5, <3>6, OwnerMoves
  <2> QED
    BY <1>1, <2>2, <2>3
<1> QED
  BY <1>2, <1>3

\* A renewal only prolongs a lease, a grant is of a later generation.
LEMMA NextOrphans ==
    ASSUME TypeInv, TypeInv', FenceInv, RetryInv, SweepInv, [Step]_documents, ~Tick
    PROVE  OrphansHaveNoLease'
<1> SUFFICES ASSUME NEW r \in Recoverer, rec'[r].pc = "orphan"
             PROVE  /\ rec'[r].job \in Job /\ job'[rec'[r].job].status # "unused"
                    /\ rec'[r].gen <= highWater'[job'[rec'[r].job].source]
                    /\ \A s \in Source :
                         /\ owner'[s] # None
                         /\ owner'[s].job = rec'[r].job /\ owner'[s].gen = rec'[r].gen
                         => owner'[s].ttl + rec'[r].age > 0
  BY DEF OrphansHaveNoLease
<1> DEFINE j == rec'[r].job
           g == rec'[r].gen
<1>1. j \in Job /\ job[j].status # "unused" /\ g <= highWater[job[j].source] /\ g \in Nat
  <2>1. CASE rec'[r] = rec[r]
    BY <2>1, BoundsAssumption DEF SweepInv, OrphansHaveNoLease, TypeInv, DocumentsOK, RecovererState
  <2>2. CASE j \in Running /\ g = job[j].gen
    BY <2>2, BoundsAssumption
    DEF Running, FenceInv, GenerationsAreFences, TypeInv, DocumentsOK, JobDocument
  <2> QED
    BY <2>1, <2>2, RecovererMoves
<1>2. job'[j].status # "unused" /\ job'[j].source = job[j].source /\ job[j].source \in Source
  BY <1>1, SourcesStay DEF TypeInv, DocumentsOK, JobDocument
<1> DEFINE k == job[j].source
<1>3. g <= highWater'[k]
  <2>1. k \in Source /\ g <= highWater[k]
    BY <1>1, <1>2
  <2> HIDE DEF k
  <2>2. highWater[k] \in Nat /\ highWater'[k] \in Nat /\ highWater'[k] >= highWater[k]
    BY <2>1, GrantsGrow
  <2> QED
    BY <1>1, <2>1, <2>2
<1>4. ASSUME NEW s \in Source, owner'[s] # None, owner'[s].job = j, owner'[s].gen = g
      PROVE  owner'[s].ttl + rec'[r].age > 0
  <2>1. rec'[r].age \in Nat /\ owner'[s].ttl \in Int
    BY <1>4, BoundsAssumption DEF TypeInv, DocumentsOK, RecovererState, Owner
  <2>2. CASE /\ Sweeps(r) /\ owner' = owner /\ rec'[r].age = rec[r].age
    BY <1>4, <2>1, <2>2 DEF Sweeps, ExpiredFor, LeaseExpired
  <2>3. CASE rec'[r] = rec[r]
    <3>1. CASE owner[s] # None /\ owner'[s] = owner[s]
      BY <1>4, <2>3, <3>1 DEF SweepInv, OrphansHaveNoLease
    <3>2. ASSUME NEW v \in Worker, Granted(v, s) PROVE FALSE
      <4>1. g = highWater[s] + 1 /\ job[j].source = s
        BY <1>4, <3>2 DEF Granted
      <4>2. highWater[s] \in Nat
        BY BoundsAssumption DEF TypeInv, DocumentsOK
      <4> QED
        BY <1>1, <4>1, <4>2
    <3>3. ASSUME NEW v \in Worker, Renewed(v, s)
          PROVE  owner'[s].ttl + rec'[r].age > 0
      <4>1. owner[s].ttl + rec[r].age > 0
        BY <1>4, <2>3, <3>3 DEF Renewed, SweepInv, OrphansHaveNoLease
      <4>2. owner[s].ttl <= LeaseTicks - worker[v].beat
        BY <3>3 DEF Renewed, SweepInv, BeatsAreLate
      <4>3. owner[s].ttl \in Int
        BY <3>3, BoundsAssumption DEF Renewed, TypeInv, DocumentsOK, Owner
      <4>4. owner'[s].ttl = LeaseTicks - worker[v].beat
        BY <3>3 DEF Renewed
      <4> QED
        BY <2>1, <2>3, <4>1, <4>2, <4>3, <4>4
    <3> QED
      BY <1>4, <3>1, <3>2, <3>3, OwnerMoves
  <2> QED
    BY <2>2, <2>3, RecovererMoves
<1> QED
  BY <1>1, <1>2, <1>3, <1>4

LEMMA AlwaysSwept == Spec => []SweepInv
<1>1. Init => SweepInv
  BY DEF Init, Idle, Resting, SweepInv, BeatsAreLate, OrphansHaveNoLease
<1>2. TypeInv /\ TypeInv' /\ FenceInv /\ RetryInv /\ SweepInv /\ [Step]_documents => SweepInv'
  BY TickSweeps, NextLate, NextOrphans DEF SweepInv
<1> QED
  BY <1>1, <1>2, AlwaysFenced, AlwaysLinked, StepsOfDocuments, PTL DEF Spec

\* What ends an abandoned attempt is the first phase of recovery.
LEMMA WhoEnds ==
    ASSUME TypeInv, SweepInv, [Step]_documents,
           NEW j \in Job, Abandoned(j), job'[j].status # "running"
    PROVE  FailAndRetry(j)
<1>0. job[j] \in JobDocument /\ job[j].status = "running"
  BY DEF Abandoned, TypeInv, DocumentsOK
<1>1. job' # job
  BY <1>0
<1>2. ASSUME NEW k \in Job \ {j}, NEW d, job' = [job EXCEPT ![k] = d] PROVE FALSE
  BY <1>0, <1>2 DEF TypeInv, DocumentsOK
<1>3. ASSUME NEW k \in Job \ {j},
             FailAndRetry(k) \/ (\E again \in BOOLEAN : job' = Failed(k, again))
      PROVE  FALSE
  <2>1. ASSUME NEW again \in BOOLEAN, job' = Failed(k, again) PROVE FALSE
    <3> DEFINE d == [job[k] EXCEPT !.status = "failed", !.retryable = again]
    <3>1. job' = [job EXCEPT ![k] = d]
      BY <2>1 DEF Failed
    <3> HIDE DEF d
    <3> QED
      BY <1>2, <3>1
  <2>2. CASE FailAndRetry(k) /\ job[k].attempt < MaxAttempts
    <3> DEFINE child == RecoveryChild(k)
               d == [job[k] EXCEPT !.status = "failed", !.retryable = TRUE]
               c == NewJob
    <3>1. job' = [[job EXCEPT ![k] = d] EXCEPT ![c] = child]
      BY <2>2 DEF FailAndRetry, Failed
    <3>2. c # j
      BY <1>0, <2>2, NewJobIsUnused DEF FailAndRetry, Unused
    <3> HIDE DEF child, d, c
    <3> QED
      BY <1>0, <3>1, <3>2 DEF TypeInv, DocumentsOK
  <2> QED
    BY <1>3, <2>1, <2>2 DEF FailAndRetry
<1>4. ASSUME NEW w \in Worker, WorkerStep(w) PROVE FALSE
  <2> DEFINE k == worker[w].job
  <2>1. CASE Claim(w)
    <3>1. k \in Job /\ k # j
      BY <1>0, <2>1 DEF Claim, Due
    <3> DEFINE d == [job[k] EXCEPT !.status = "running", !.gen = worker[w].gen]
    <3>2. job' = [job EXCEPT ![k] = d]
      BY <2>1 DEF Claim
    <3> HIDE DEF d, k
    <3> QED
      BY <1>2, <3>1, <3>2
  <2>2. CASE CompleteWithFence(w) \/ FinalizeOrphanedAttempt(w) \/ DeferWithFence(w)
    <3>1. k \in Job /\ RunningAs(k, worker[w].gen)
      BY <2>2 DEF CompleteWithFence, FinalizeOrphanedAttempt, DeferWithFence, OwnsAttempt,
                  TypeInv, WorkersName
    <3>2. k # j
      BY <3>1 DEF Abandoned, RunningAs
    <3>3. \/ FailAndRetry(k)
          \/ \E again \in BOOLEAN : job' = Failed(k, again)
          \/ \E d : job' = [job EXCEPT ![k] = d]
      BY <2>2 DEF CompleteWithFence, FinalizeOrphanedAttempt, DeferWithFence
    <3> HIDE DEF k
    <3> QED
      BY <1>2, <1>3, <3>1, <3>2, <3>3
  <2> QED
    BY <1>1, <1>4, <2>1, <2>2
    DEF WorkerStep, Progress, Beat, Select, Acquire, ClaimRefused, Release, Fetched,
        ExecutorFails, CommitIngestionBatch, LateCommitAborts, DeadlineFires, HeartbeatSent,
        Heartbeat, HeartbeatLost, BeginComplete, CompletionStale, GiveUp, WorkerCrash, stores
<1>5. ASSUME NEW r \in Recoverer, RecovererStep(r) PROVE FailAndRetry(j)
  <2>1. rec[r].job \in Job /\ (RecoverLease(r) \/ RecoverOrphan(r))
    BY <1>1, <1>5 DEF RecovererStep, RecoverStart, RecoverList, RecoverLease, RecoverOrphan,
                      RecoverEnd, stores, TypeInv, RecoverersName
  <2>2. CASE rec[r].job # j
    BY <1>1, <1>3, <2>1, <2>2 DEF RecoverLease, RecoverOrphan
  <2>3. CASE rec[r].job = j /\ RecoverLease(r)
    BY <1>1, <2>3 DEF RecoverLease
  <2>4. CASE rec[r].job = j /\ RecoverOrphan(r)
    <3> DEFINE s == job[j].source
    <3>1. /\ rec[r].pc = "orphan" /\ rec[r].gen = job[j].gen
          /\ ~Fenced(j, job[j].gen, rec[r].age)
      BY <2>4 DEF RecoverOrphan, RunningAs
    <3>2. s \in Source /\ OwnedBy(j, job[j].gen) /\ owner[s] # None
      BY <1>0 DEF Abandoned, OwnedBy, JobDocument
    <3>3. owner[s].ttl + rec[r].age > 0
      BY <2>4, <3>1, <3>2 DEF SweepInv, OrphansHaveNoLease, OwnedBy
    <3> QED
      BY <3>1, <3>2, <3>3 DEF Fenced
  <2> QED
    BY <2>1, <2>2, <2>3, <2>4
<1>6. CASE Tick
  <2>1. job'[j] = [job[j] EXCEPT !.wait = IF @ = 0 THEN 0 ELSE @ - 1]
    BY <1>6 DEF Tick
  <2> QED
    BY <1>0, <2>1 DEF JobDocument
<1>7. CASE AdminStep
  <2>1. ASSUME NEW a \in Admin, InsertJob(a) PROVE FALSE
    <3>1. NewJob # j
      BY <1>0, <2>1, NewJobIsUnused DEF InsertJob, Unused
    <3> QED
      BY <1>0, <2>1, <3>1 DEF InsertJob, TypeInv, DocumentsOK
  <2>2. ASSUME NEW k \in Job, CancelIngestionJob(k) \/ PurgeDueIngestionJobs(k) PROVE FALSE
    <3> DEFINE m == [job[j] EXCEPT !.cancel = TRUE]
    <3>1. m.status = "running"
      BY <1>0 DEF JobDocument
    <3>2. k = j
      BY <1>2, <2>2 DEF CancelIngestionJob, PurgeDueIngestionJobs
    <3>3. job' = [job EXCEPT ![j] = m]
      BY <1>0, <2>2, <3>2 DEF CancelIngestionJob, PurgeDueIngestionJobs, Terminal
    <3> HIDE DEF m
    <3> QED
      BY <3>1, <3>3 DEF TypeInv, DocumentsOK
  <2> QED
    BY <1>1, <1>7, <2>1, <2>2, BoundsAssumption
    DEF AdminStep, AskCreate, AskRetry, RequestEnds, TransitionOperationalStatus,
        ApplySourceUpdate, ReviewSourcePolicy, RequestPolicyReReview, RunTechnicalCheck,
        SetSource, stores
<1> QED
  BY <1>1, <1>4, <1>5, <1>6, <1>7 DEF Step, Work, documents

\* Whichever recovery ends an attempt that a crash abandoned under its lease, it
\* leaves it retryable and with its retry, however long a call of an invocation or
\* a run of recovery lasts (recoverExpired, recoverOrphanedRunning).
THEOREM CrashesKeepRetries == Spec => CrashKeepsRetry
<1> DEFINE Kept == \A j \in Job :
                     Abandoned(j) /\ job'[j].status # "running" =>
                        /\ job'[j].status = "failed" /\ job'[j].retryable
                        /\ job[j].attempt = MaxAttempts \/ HasChild(j)'
<1>1. TypeInv /\ SweepInv /\ [Step]_documents => [Kept]_vars
  <2> SUFFICES ASSUME TypeInv, SweepInv, [Step]_documents,
                      NEW j \in Job, Abandoned(j), job'[j].status # "running"
               PROVE  /\ job'[j].status = "failed" /\ job'[j].retryable
                      /\ job[j].attempt = MaxAttempts \/ HasChild(j)'
    OBVIOUS
  <2>0. job[j] \in JobDocument /\ job[j].status = "running" /\ job[j].attempt \in 0..MaxAttempts
    BY DEF Abandoned, TypeInv, DocumentsOK, JobDocument
  <2> DEFINE child == RecoveryChild(j)
             d == [job[j] EXCEPT !.status = "failed", !.retryable = TRUE]
             c == NewJob
  <2>1. d.status = "failed" /\ d.retryable /\ child.parent = j
    BY <2>0 DEF JobDocument, RecoveryChild
  <2>2. CASE job[j].attempt < MaxAttempts
    <3>1. Unused # {} /\ job' = [[job EXCEPT ![j] = d] EXCEPT ![c] = child]
      BY <2>2, WhoEnds DEF FailAndRetry, Failed
    <3>2. c \in Job /\ c # j
      BY <2>0, <3>1, NewJobIsUnused DEF Unused
    <3> HIDE DEF child, d, c
    <3>3. job'[j] = d /\ job'[c] = child
      BY <3>1, <3>2 DEF TypeInv, DocumentsOK
    <3> QED
      BY <2>1, <3>2, <3>3 DEF HasChild
  <2>3. CASE ~(job[j].attempt < MaxAttempts)
    <3>1. job' = [job EXCEPT ![j] = d]
      BY <2>3, WhoEnds DEF FailAndRetry, Failed
    <3>2. job[j].attempt = MaxAttempts
      BY <2>0, <2>3, BoundsAssumption
    <3> HIDE DEF d
    <3> QED
      BY <2>1, <3>1, <3>2 DEF TypeInv, DocumentsOK
  <2> QED
    BY <2>2, <2>3
<1> QED
  BY <1>1, AlwaysFenced, AlwaysSwept, StepsOfDocuments, PTL DEF Spec, CrashKeepsRetry
=============================================================================
