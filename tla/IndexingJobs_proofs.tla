------------------------ MODULE IndexingJobs_proofs ------------------------
(***************************************************************************)
(* Theorems about IndexingJobs for every value of its constants: the       *)
(* types, and what is owed, dropped and earned.                            *)
(*                                                                         *)
(* Most steps are plain: they grant no lease, begin no invocation and no   *)
(* execution, give no job back to the queue and put no text on the         *)
(* article.  what it says of the documents (CoreInv) is shown once for all of them (PlainKeeps); Select,      *)
(* Acquire, Claim, Defer and Answer have a proof each.  What carries IInv: *)
(*  - generations are unique among invocations, so the owner who writes is *)
(*    alone, and a job whose invocation has ended writes no more (Written);*)
(*  - a text on the article or in a job's identity is of such a job, so    *)
(*    that the identity of a new summary's embedding is unused (Texts);    *)
(*  - an invocation that may record a success finds its artifact there     *)
(*    (Earned), so that the job an embedding is owed by does not succeed   *)
(*    while the embedding lags (Owed);                                     *)
(*  - each in-place increment of an attempt is an invocation's that is     *)
(*    still behind, and there are only so many (AttemptsFit).              *)
(***************************************************************************)
EXTENDS IndexingJobs, FiniteSetTheorems, FunctionTheorems, TLAPS

\* An invocation that can still start its processor or give its job back, or whose
\* processor is at work.
Active(v) == v.pc \in {"checking", "deferring"} \/ v.exec # "off"

\* What the phase of an invocation says of the rest of its state and of its job.
Shape(v, jobs) ==
    /\ v.job = None => v = Idle
    /\ v.job # None => jobs[v.job].status # "unused"
    /\ v.exec # "off" => v.pc \in {"idle", "running", "completing"}
    /\ v.pc = "running" => v.exec # "off"
    /\ v.exec \in {"mark", "provider"} => v.input # None /\ jobs[v.job].task \in Purpose
    /\ v.exec = "reconcile" => jobs[v.job].task = "visibility-reconcile"
    /\ v.pc \in {"selected", "claiming"} => v.result = "pending"
    /\ v.pc = "deferring" /\ v.result = "unattempted" => v.attempt < MaxAttempts
    /\ v.pc = "completing" /\ v.result = "succeeded" => v.exec = "off"

TypeInv == DocumentsOK /\ \A w \in Worker : Shape(worker[w], job)

-----------------------------------------------------------------------------
(* The inserts of one transaction *)

LEMMA BoundsAreNumbers ==
    /\ MaxAttempts \in Nat \ {0} /\ MaxGeneration \in Nat /\ MaxContent \in Nat \ {0}
    /\ MaxPolicy \in Nat \ {0}
    /\ IsFiniteSet(Job) /\ Cardinality(Job) \in Nat /\ Cardinality(Job) >= 2
    /\ IsFiniteSet(Worker) /\ Cardinality(Worker) \in Nat \ {0}
<1>1. Cardinality(Job) \in Nat /\ Cardinality(Worker) \in Nat
  BY IndexingAssumption, FS_CardinalityType
<1>2. Cardinality(Worker) # 0
  BY IndexingAssumption, FS_EmptySet
<1> QED BY <1>1, <1>2, IndexingAssumption

\* There is a slot for each of a set's members in a set that is no smaller.
LEMMA SlotsExist ==
    ASSUME NEW new, IsFiniteSet(new), NEW unused, IsFiniteSet(unused),
           Cardinality(new) <= Cardinality(unused)
    PROVE  \E f \in [new -> unused] : \A a, b \in new : a # b => f[a] # f[b]
<1> DEFINE n == Cardinality(new)
           m == Cardinality(unused)
<1>1. /\ n \in Nat /\ ExistsBijection(1..n, new)
      /\ m \in Nat /\ ExistsBijection(1..m, unused)
  BY FS_CardinalityType
<1>2. ExistsInjection(1..n, 1..m)
  BY <1>1, Fun_NatInjLeq
<1>3. ExistsInjection(new, 1..n) /\ ExistsInjection(1..m, unused)
  BY <1>1, Fun_ExistsBijEquiv
<1>4. ExistsInjection(new, unused)
  <2>1. ExistsInjection(new, 1..m)
    BY <1>2, <1>3, Fun_ExistsInjTransitive
  <2> QED BY <2>1, <1>3, Fun_ExistsInjTransitive
<1>5. PICK f \in Injection(new, unused) : TRUE
  BY <1>4 DEF ExistsInjection
<1>6. f \in [new -> unused] /\ \A a, b \in new : a # b => f[a] # f[b]
  BY <1>5 DEF Injection, IsInjective
<1> QED BY <1>6

\* What Filled makes of `jobs`: every new document is in an unused slot, and every
\* slot holds a new document or what it held.
LEMMA FilledInserts ==
    ASSUME NEW jobs \in [Job -> JobDocument], NEW new \in SUBSET JobDocument,
           IsFiniteSet(new), NEW unused \in SUBSET Job,
           Cardinality(new) <= Cardinality(unused)
    PROVE  /\ Filled(jobs, new, unused) \in [Job -> JobDocument]
           /\ \A j \in Job : \/ Filled(jobs, new, unused)[j] = jobs[j]
                             \/ j \in unused /\ Filled(jobs, new, unused)[j] \in new
           /\ \A d \in new : \E j \in unused : Filled(jobs, new, unused)[j] = d
<1> DEFINE Fits(f) == \A a, b \in new : a # b => f[a] # f[b]
           slot == CHOOSE f \in [new -> unused] : Fits(f)
           filled == [j \in Job |-> IF \E d \in new : slot[d] = j
                                    THEN CHOOSE d \in new : slot[d] = j ELSE jobs[j]]
<1>1. IsFiniteSet(unused)
  BY BoundsAreNumbers, FS_Subset
<1>2. \E f \in [new -> unused] : Fits(f)
  BY <1>1, SlotsExist
<1>3. slot \in [new -> unused] /\ Fits(slot)
  <2> HIDE DEF Fits
  <2> QED BY <1>2
<1>4. Filled(jobs, new, unused) = filled
  BY Zenon DEF Filled
<1> HIDE DEF slot
<1>5. \A j \in Job : filled[j] = jobs[j] \/ (j \in unused /\ filled[j] \in new)
  <2> SUFFICES ASSUME NEW j \in Job PROVE filled[j] = jobs[j] \/ (j \in unused /\ filled[j] \in new)
    OBVIOUS
  <2>1. CASE \E d \in new : slot[d] = j
    <3>1. (CHOOSE d \in new : slot[d] = j) \in new
      BY <2>1
    <3> QED BY <2>1, <3>1, <1>3
  <2>2. CASE ~ \E d \in new : slot[d] = j
    BY <2>2
  <2> QED BY <2>1, <2>2
<1>6. \A d \in new : \E j \in unused : filled[j] = d
  <2> SUFFICES ASSUME NEW d \in new PROVE filled[slot[d]] = d /\ slot[d] \in unused
    OBVIOUS
  <2>1. slot[d] \in unused /\ slot[d] \in Job
    BY <1>3
  <2> DEFINE c == CHOOSE e \in new : slot[e] = slot[d]
  <2>2. c \in new /\ slot[c] = slot[d]
    OBVIOUS
  <2>3. c = d
    BY <2>2, <1>3
  <2> QED BY <2>1, <2>3
<1>7. filled \in [Job -> JobDocument]
  <2>1. \A j \in Job : filled[j] \in JobDocument
    BY <1>5
  <2> HIDE DEF filled
  <2>2. filled = [j \in Job |-> filled[j]]
    BY DEF filled
  <2> QED BY <2>1, <2>2
<1> HIDE DEF filled
<1> QED BY <1>4, <1>5, <1>6, <1>7

\* A step that inserts `new` into what it made of the documents.
Inserts(jobs, new) ==
    /\ \A j \in Job : job'[j] = jobs[j] \/ (job[j].status = "unused" /\ job'[j] \in new)
    /\ \A d \in new : \E j \in Job : job[j].status = "unused" /\ job'[j] = d

LEMMA InsertAllInserts ==
    ASSUME NEW jobs \in [Job -> JobDocument], NEW new \in SUBSET JobDocument,
           IsFiniteSet(new), InsertAll(jobs, new)
    PROVE  job' \in [Job -> JobDocument] /\ Inserts(jobs, new)
<1>1. Unused \in SUBSET Job
  BY DEF Unused
<1>2. Cardinality(new) <= Cardinality(Unused) /\ job' = Filled(jobs, new, Unused)
  BY DEF InsertAll
<1>3. /\ job' \in [Job -> JobDocument]
      /\ \A j \in Job : job'[j] = jobs[j] \/ (j \in Unused /\ job'[j] \in new)
      /\ \A d \in new : \E j \in Unused : job'[j] = d
  BY <1>1, <1>2, FilledInserts
<1> QED BY <1>3 DEF Inserts, Unused

LEMMA OneIsFinite == \A d : IsFiniteSet({}) /\ IsFiniteSet({d})
BY FS_EmptySet, FS_Singleton

\* The jobs of some tasks are finitely many.
LEMMA TasksAreFinite ==
    ASSUME NEW S \in SUBSET Task, NEW made, NEW version
    PROVE  IsFiniteSet({Queued(t, made, version) : t \in S})
<1> DEFINE a == Queued("summary", made, version)
           b == Queued("embedding", made, version)
           c == Queued("visibility-reconcile", made, version)
<1>1. IsFiniteSet({a})
  BY FS_Singleton
<1>2. IsFiniteSet({a} \cup {b})
  BY <1>1, FS_AddElement
<1>3. IsFiniteSet(({a} \cup {b}) \cup {c})
  BY <1>2, FS_AddElement
<1>4. {Queued(t, made, version) : t \in S} \in SUBSET (({a} \cup {b}) \cup {c})
  BY DEF Task, Purpose
<1> QED BY <1>3, <1>4, FS_Subset

-----------------------------------------------------------------------------
(* What a step makes of an invocation *)

\* Most steps end an invocation or let it go on with the job, the generation and
\* the copy of the attempt it has.
Turn(v, u) ==
    /\ u \in WorkerState /\ Shape(u, job)
    /\ \/ u = Idle
       \/ /\ u.job = v.job /\ u.gen = v.gen /\ u.attempt = v.attempt
          /\ u.pc # "idle" => v.pc # "idle"
          /\ Active(u) => Active(v)

Becomes(w, u) == worker' = [worker EXCEPT ![w] = u]
Turns(w) == \E u : Turn(worker[w], u) /\ Becomes(w, u)

LEMMA NumbersFit == 1 \in Attempts /\ 0 \in 0..MaxGeneration /\ 1..MaxAttempts \subseteq Attempts
BY BoundsAreNumbers DEF Attempts

LEMMA IdleIsTyped == Idle \in WorkerState /\ \A jobs : Shape(Idle, jobs)
<1>1. Idle \in WorkerState
  BY NumbersFit DEF Idle, WorkerState, Stage, Results
<1>2. \A jobs : Shape(Idle, jobs)
  BY DEF Idle, Shape
<1> QED BY <1>1, <1>2

LEMMA WorkerFields ==
    ASSUME NEW v \in WorkerState
    PROVE  /\ v.pc \in {"idle", "selected", "claiming", "checking", "running", "releasing",
                        "deferring", "completing"}
           /\ v.job \in Job \cup {None} /\ v.attempt \in Attempts /\ v.gen \in 0..MaxGeneration
           /\ v.exec \in Stage /\ v.input \in Input \cup {None} /\ v.aborted \in BOOLEAN
           /\ v.result \in Results
BY DEF WorkerState

\* An invocation under way names a job that exists.
LEMMA NamesAJob ==
    ASSUME TypeInv, NEW w \in Worker, worker[w] # Idle
    PROVE  worker[w].job \in Job /\ job[worker[w].job].status # "unused"
<1>1. worker[w] \in WorkerState /\ Shape(worker[w], job)
  BY DEF TypeInv, DocumentsOK
<1> QED BY <1>1, WorkerFields DEF Shape

LEMMA UnderWay ==
    ASSUME NEW w \in Worker, worker[w].pc # "idle" \/ worker[w].exec # "off"
    PROVE  worker[w] # Idle
BY DEF Idle

LEMMA ReturnTurns ==
    ASSUME TypeInv, NEW w \in Worker, Return(w)
    PROVE  Turns(w)
<1> DEFINE v == worker[w]
           u == [v EXCEPT !.pc = "idle", !.aborted = TRUE, !.result = "failed"]
<1>1. v \in WorkerState /\ Shape(v, job)
  BY DEF TypeInv, DocumentsOK
<1>2. Turn(v, Idle)
  BY IdleIsTyped DEF Turn
<1>3. CASE v.exec = "off"
  <2>1. Becomes(w, Idle)
    BY <1>3 DEF Return, Becomes
  <2> QED BY <1>2, <2>1 DEF Turns
<1>4. CASE v.exec # "off"
  <2>1. Becomes(w, u)
    BY <1>4 DEF Return, Becomes
  <2>2. u \in WorkerState
    BY <1>1 DEF WorkerState, Results
  <2>3. Shape(u, job)
    BY <1>1, <1>4 DEF WorkerState, Shape, Idle
  <2>4. Active(v)
    BY <1>4 DEF Active
  <2>5. u.job = v.job /\ u.gen = v.gen /\ u.attempt = v.attempt /\ u.pc = "idle"
    BY <1>1 DEF WorkerState
  <2>6. Turn(v, u)
    BY <2>2, <2>3, <2>4, <2>5 DEF Turn
  <2> QED BY <2>1, <2>6 DEF Turns
<1> QED BY <1>3, <1>4

LEMMA FinishTurns ==
    ASSUME TypeInv, NEW w \in Worker, worker[w].exec # "off", NEW result \in Results,
           Finish(w, result)
    PROVE  Turns(w)
<1> DEFINE v == worker[w]
           off == [v EXCEPT !.exec = "off", !.input = None]
           u == [v EXCEPT !.exec = "off", !.input = None, !.result = result,
                          !.pc = IF Defers(w, result) THEN "deferring" ELSE "completing"]
<1>1. v \in WorkerState /\ Shape(v, job)
  BY DEF TypeInv, DocumentsOK
<1>2. Turn(v, Idle)
  BY IdleIsTyped DEF Turn
<1>3. Active(v)
  BY DEF Active
<1>4. v.job \in Job
  BY NamesAJob, UnderWay
<1>5. CASE v.pc = "idle"
  <2>1. Becomes(w, Idle)
    BY <1>5 DEF Finish, Becomes
  <2> QED BY <1>2, <2>1 DEF Turns
<1>6. CASE v.pc \notin {"idle", "running"}
  <2>1. Becomes(w, off)
    BY <1>6 DEF Finish, Becomes
  <2>2. off \in WorkerState
    BY <1>1 DEF WorkerState, Stage
  <2>3. Shape(off, job)
    BY <1>1, <1>4, <1>6, NoneAssumption DEF WorkerState, Shape
  <2>4. off.job = v.job /\ off.gen = v.gen /\ off.attempt = v.attempt /\ off.pc = v.pc
    BY <1>1 DEF WorkerState
  <2> QED BY <1>3, <2>1, <2>2, <2>3, <2>4 DEF Turns, Turn
<1>7. CASE v.pc = "running"
  <2>1. Becomes(w, u)
    BY <1>7 DEF Finish, Becomes
  <2>2. u \in WorkerState
    BY <1>1 DEF WorkerState, Stage
  <2>3. Shape(u, job)
    BY <1>1, <1>4, NoneAssumption DEF WorkerState, Shape, Defers
  <2>4. u.job = v.job /\ u.gen = v.gen /\ u.attempt = v.attempt
    BY <1>1 DEF WorkerState
  <2> QED BY <1>3, <1>7, <2>1, <2>2, <2>3, <2>4 DEF Turns, Turn
<1> QED BY <1>5, <1>6, <1>7

LEMMA InputsAreTyped ==
    ASSUME DocumentsOK, NEW purpose
    PROVE  /\ InputNow(purpose) \in Input /\ SummaryText \in Job \cup {None}
           /\ InputNow(purpose).policy = src.version
<1>1. article.summary.text \in Job \cup {None} /\ article.content \in 1..MaxContent
      /\ src.version \in 1..MaxPolicy
  BY DEF DocumentsOK, Article, Artifact
<1>2. SummaryText \in Job \cup {None}
  BY <1>1 DEF SummaryText
<1> QED BY <1>1, <1>2 DEF InputNow, InputUnder, Input

\* The steps of an invocation that is not about to begin.
LEMMA QueueTurns ==
    ASSUME TypeInv, NEW w \in Worker,
           \/ NotAdmitted(w) \/ ClaimFails(w) \/ Release(w) \/ Start(w) \/ DeadlineFires(w)
           \/ HeartbeatLost(w) \/ Complete(w) \/ Defer(w) \/ Unresolved(w) \/ Crash(w)
    PROVE  Turns(w)
<1> DEFINE v == worker[w]
<1>1. v \in WorkerState /\ Shape(v, job)
  BY DEF TypeInv, DocumentsOK
<1>2. v # Idle => v.job \in Job
  BY NamesAJob
<1>3. CASE NotAdmitted(w) \/ Crash(w)
  <2>1. Turn(v, Idle)
    BY IdleIsTyped DEF Turn
  <2>2. Becomes(w, Idle)
    BY <1>3 DEF NotAdmitted, Crash, Becomes
  <2> QED BY <2>1, <2>2 DEF Turns
<1>4. CASE ClaimFails(w)
  <2> DEFINE u == [v EXCEPT !.pc = "releasing"]
  <2>1. Becomes(w, u) /\ v.pc = "claiming"
    BY <1>4 DEF ClaimFails, Becomes, Go, Is
  <2>2. u \in WorkerState
    BY <1>1 DEF WorkerState
  <2>3. Shape(u, job)
    BY <1>1, <1>2, <2>1, UnderWay, NoneAssumption DEF Shape, WorkerState
  <2>4. u.job = v.job /\ u.gen = v.gen /\ u.attempt = v.attempt /\ ~Active(u)
    BY <1>1, <2>1 DEF WorkerState, Shape, Active
  <2> QED BY <2>1, <2>2, <2>3, <2>4 DEF Turns, Turn
<1>5. CASE Start(w)
  <2> DEFINE cancelled == [v EXCEPT !.pc = "completing", !.result = "cancelled"]
             started == [v EXCEPT !.pc = "running", !.exec = "capture"]
             u == IF job[v.job].cancel THEN cancelled ELSE started
  <2>1. Becomes(w, u) /\ v.pc = "checking"
    BY <1>5 DEF Start, Becomes, Is
  <2>2. cancelled \in WorkerState /\ started \in WorkerState
    BY <1>1 DEF WorkerState, Results, Stage
  <2>3. Shape(cancelled, job) /\ Shape(started, job)
    BY <1>1, <1>2, <2>1, UnderWay, NoneAssumption DEF Shape, WorkerState
  <2>4. u.job = v.job /\ u.gen = v.gen /\ u.attempt = v.attempt
    BY <1>1 DEF WorkerState
  <2>5. Active(v)
    BY <2>1 DEF Active
  <2> QED BY <2>1, <2>2, <2>3, <2>4, <2>5 DEF Turns, Turn
<1>6. CASE DeadlineFires(w)
  <2> DEFINE u == [v EXCEPT !.pc = "completing", !.aborted = TRUE, !.result = "failed"]
  <2>1. Becomes(w, u) /\ v.pc = "running"
    BY <1>6 DEF DeadlineFires, Becomes, Is
  <2>2. u \in WorkerState
    BY <1>1 DEF WorkerState, Results
  <2>3. Shape(u, job)
    BY <1>1, <1>2, <2>1, UnderWay, NoneAssumption DEF Shape, WorkerState
  <2>4. u.job = v.job /\ u.gen = v.gen /\ u.attempt = v.attempt /\ Active(v)
    BY <1>1, <2>1 DEF WorkerState, Shape, Active
  <2> QED BY <2>1, <2>2, <2>3, <2>4 DEF Turns, Turn
<1>7. CASE Release(w) \/ HeartbeatLost(w) \/ Complete(w) \/ Defer(w) \/ Unresolved(w)
  <2>1. Return(w)
    BY <1>7 DEF Release, HeartbeatLost, Complete, Defer, Unresolved
  <2> QED BY <2>1, ReturnTurns
<1> QED BY <1>3, <1>4, <1>5, <1>6, <1>7

LEMMA ProcessorTurns ==
    ASSUME TypeInv, NEW w \in Worker, Processor(w)
    PROVE  Turns(w)
<1> DEFINE v == worker[w]
<1>1. v \in WorkerState /\ Shape(v, job)
  BY DEF TypeInv, DocumentsOK
<1>2. v.exec # "off"
  BY DEF Processor, Abandon, Capture, Reconcile, Mark, Answer, ProviderFails,
         AnswerCancelled, AnswerStale
<1>3. v.job \in Job /\ Active(v) /\ v.pc \in {"idle", "running", "completing"}
  BY <1>1, <1>2, NamesAJob, UnderWay DEF Active, Shape
<1>4. CASE \E result \in Results : Finish(w, result)
  BY <1>2, <1>4, FinishTurns
<1>5. CASE /\ v.exec = "capture" /\ Becomes(w, [v EXCEPT !.exec = "reconcile"])
           /\ job[v.job].task = "visibility-reconcile"
  <2> DEFINE u == [v EXCEPT !.exec = "reconcile"]
  <2>1. u \in WorkerState
    BY <1>1 DEF WorkerState, Stage
  <2>2. Shape(u, job)
    BY <1>1, <1>2, <1>3, <1>5, NoneAssumption DEF Shape, WorkerState
  <2>3. u.job = v.job /\ u.gen = v.gen /\ u.attempt = v.attempt /\ u.pc = v.pc
    BY <1>1 DEF WorkerState
  <2> QED BY <1>3, <1>5, <2>1, <2>2, <2>3 DEF Turns, Turn
<1>6. ASSUME NEW task \in Purpose, job[v.job].task = task, v.exec = "capture",
             Becomes(w, [v EXCEPT !.exec = "mark", !.input = InputNow(task)])
      PROVE  Turns(w)
  <2> DEFINE u == [v EXCEPT !.exec = "mark", !.input = InputNow(task)]
  <2>1. InputNow(task) \in Input /\ InputNow(task) # None
    BY InputsAreTyped, NoneAssumption DEF TypeInv
  <2>2. u \in WorkerState
    BY <1>1, <2>1 DEF WorkerState, Stage
  <2>3. Shape(u, job)
    BY <1>1, <1>3, <1>6, <2>1, NoneAssumption DEF Shape, WorkerState
  <2>4. u.job = v.job /\ u.gen = v.gen /\ u.attempt = v.attempt /\ u.pc = v.pc
    BY <1>1 DEF WorkerState
  <2> QED BY <1>3, <1>6, <2>2, <2>3, <2>4 DEF Turns, Turn
<1>7. CASE v.exec = "mark" /\ Becomes(w, [v EXCEPT !.exec = "provider"])
  <2> DEFINE u == [v EXCEPT !.exec = "provider"]
  <2>1. u \in WorkerState
    BY <1>1 DEF WorkerState, Stage
  <2>2. Shape(u, job)
    BY <1>1, <1>3, <1>7, NoneAssumption DEF Shape, WorkerState
  <2>3. u.job = v.job /\ u.gen = v.gen /\ u.attempt = v.attempt /\ u.pc = v.pc
    BY <1>1 DEF WorkerState
  <2> QED BY <1>3, <1>7, <2>1, <2>2, <2>3 DEF Turns, Turn
<1>8. CASE Capture(w)
  <2> DEFINE task == job[v.job].task
  <2>1. \/ \E result \in Results : Finish(w, result)
        \/ /\ v.exec = "capture" /\ task = "visibility-reconcile"
           /\ Becomes(w, [v EXCEPT !.exec = "reconcile"])
        \/ /\ task \in Purpose /\ v.exec = "capture"
           /\ Becomes(w, [v EXCEPT !.exec = "mark", !.input = InputNow(task)])
    BY <1>8 DEF Capture, Becomes, Results
  <2> QED BY <2>1, <1>4, <1>5, <1>6
<1>9. CASE Mark(w)
  <2>1. \/ \E result \in Results : Finish(w, result)
        \/ v.exec = "mark" /\ Becomes(w, [v EXCEPT !.exec = "provider"])
    BY <1>9 DEF Mark, Becomes, Results
  <2> QED BY <2>1, <1>4, <1>7
<1>10. CASE Abandon(w) \/ Reconcile(w) \/ Answer(w) \/ ProviderFails(w)
            \/ AnswerCancelled(w) \/ AnswerStale(w)
  <2>1. \E result \in Results : Finish(w, result)
    BY <1>10 DEF Abandon, Reconcile, Answer, ProviderFails, AnswerCancelled, AnswerStale, Results
  <2> QED BY <2>1, <1>4
<1> QED BY <1>8, <1>9, <1>10 DEF Processor

-----------------------------------------------------------------------------
(* What a transaction has read *)

\* A policy that was the source's at some time: of its version or an earlier one.
Earlier(policy) ==
    /\ policy \in SourcePolicy /\ policy.version <= src.version
    /\ policy.version = src.version => policy.allows = src.allows

Views ==
    /\ seen \in [Worker -> SUBSET Reading] /\ batch \in SUBSET SourcePolicy
    /\ \A w \in Worker : \A read \in seen[w] : Earlier(read.source)
    /\ \A policy \in batch : Earlier(policy)

\* What a source allows changes with its version only.
SourceGrows ==
    /\ src'.version >= src.version
    /\ src'.version = src.version => src'.allows = src.allows

LEMMA PolicyNowIsEarlier ==
    ASSUME DocumentsOK
    PROVE  Earlier(PolicyNow)
<1>1. src.version \in 1..MaxPolicy /\ src.active \in BOOLEAN /\ src.allows \in SUBSET Purpose
  BY DEF DocumentsOK
<1> QED BY <1>1, BoundsAreNumbers DEF Earlier, PolicyNow, SourcePolicy

LEMMA ReadsAreEarlier ==
    ASSUME TypeInv, Views, NEW w \in Worker, worker[w] # Idle, NEW read \in Reads(w)
    PROVE  read \in Reading /\ Earlier(read.source)
<1>1. CASE read \in seen[w]
  BY <1>1 DEF Views
<1>2. CASE read = Now(w)
  <2>1. job[worker[w].job].cancel \in BOOLEAN
    BY NamesAJob DEF TypeInv, DocumentsOK, JobDocument
  <2>2. Earlier(PolicyNow) /\ PolicyNow \in SourcePolicy
    BY PolicyNowIsEarlier DEF TypeInv, Earlier
  <2> QED BY <1>2, <2>1, <2>2 DEF Now, Reading
<1> QED BY <1>1, <1>2 DEF Reads

\* A step takes the policies that were read no further than the source goes.
LEMMA ViewsStay ==
    ASSUME TypeInv, TypeInv', Views, SourceGrows, NEW written, Snapshots(written)
    PROVE  Views'
<1>1. ASSUME NEW policy, Earlier(policy) PROVE Earlier(policy)'
  <2>1. /\ policy.version \in Int /\ src.version \in Int /\ src'.version \in Int
        /\ policy \in SourcePolicy
    BY <1>1 DEF Earlier, SourcePolicy, TypeInv, DocumentsOK
  <2> QED BY <1>1, <2>1 DEF Earlier, SourceGrows
<1>2. \A w \in Worker : \A read \in seen'[w] : read \in Reading /\ Earlier(read.source)
  <2> SUFFICES ASSUME NEW w \in Worker, NEW read \in seen'[w]
               PROVE  read \in Reading /\ Earlier(read.source)
    OBVIOUS
  <2>1. Unnoticed(w, written) /\ read \in Reads(w)
    BY DEF Snapshots
  <2>2. worker[w] # Idle
    BY <2>1, UnderWay DEF Unnoticed, InTransaction
  <2> QED BY <2>1, <2>2, ReadsAreEarlier
<1>3. \A policy \in batch' : policy \in SourcePolicy /\ Earlier(policy)
  <2>1. \A policy \in batch' : policy \in batch \cup {PolicyNow}
    BY DEF Snapshots
  <2>2. Earlier(PolicyNow)
    BY PolicyNowIsEarlier DEF TypeInv
  <2> QED BY <2>1, <2>2 DEF Views, Earlier
<1>4. \A w \in Worker : \A read \in seen'[w] : Earlier(read.source)'
  BY <1>1, <1>2
<1>5. \A policy \in batch' : Earlier(policy)'
  BY <1>1, <1>3
<1>6. seen' \in [Worker -> SUBSET Reading]
  <2>1. \A w \in Worker : seen'[w] \in SUBSET Reading
    BY <1>2
  <2> QED BY <2>1 DEF Snapshots
<1> QED BY <1>3, <1>4, <1>5, <1>6 DEF Views

-----------------------------------------------------------------------------
(* What a step makes of a document *)

\* A new document is queued, for the policy of its time or an older one, in a chain
\* that may still go on; if its identity holds a summary's text, it is this one.
Fresh(d, text) ==
    /\ d.status = "queued" /\ d.gen = 0 /\ ~d.cancel /\ d.attempt \in 1..MaxAttempts
    /\ d.policy <= src.version
    /\ d.made # None /\ d.made.text # None => d.made.text = text

\* A document keeps what identifies it; only a queued one has its generation
\* changed or is queued afterwards; a cancelled one stays so and is not queued.
Kept(d, e) ==
    /\ d.status # "unused" /\ e.status # "unused"
    /\ e.task = d.task /\ e.made = d.made /\ e.policy = d.policy /\ e.attempt = d.attempt
    /\ d.status # "queued" => e.status # "queued" /\ e.gen = d.gen
    /\ e.gen <= highWater
    /\ d.cancel => e.cancel
    /\ e.cancel => e.status # "queued"

Documented(text) ==
    \A j \in Job : \/ job'[j] = job[j]
                   \/ Kept(job[j], job'[j])
                   \/ job[j].status = "unused" /\ Fresh(job'[j], text)

\* A slot is empty until it is used; no document is of a later policy or lease.
Documents ==
    \A j \in Job :
      /\ job[j].status = "unused" => job[j] = NoDocument
      /\ job[j].policy <= src.version
      /\ job[j].gen <= highWater
      /\ job[j].cancel => job[j].status # "queued"

\* No document succeeds in the step.
NoneSucceeds == \A j \in Job : job'[j].status = "succeeded" => job[j].status = "succeeded"

\* No job that runs stops in the step.
RunnersRun == \A j \in Job : job[j].status = "running" => job'[j].status = "running"

LEMMA DocumentFields ==
    ASSUME NEW d \in JobDocument
    PROVE  /\ d.status \in {"unused", "queued", "running"} \cup Terminal /\ d.task \in Task
           /\ d.policy \in 0..MaxPolicy /\ d.attempt \in Attempts /\ d.parent \in Job \cup {None}
           /\ d.gen \in 0..MaxGeneration /\ d.retryable \in BOOLEAN /\ d.cancel \in BOOLEAN
           /\ d.made \in Input \cup {None}
BY DEF JobDocument

LEMMA QueuedIsFresh ==
    ASSUME DocumentsOK, NEW task \in Task, NEW made \in Input \cup {None},
           NEW version \in 1..MaxPolicy, version <= src.version
    PROVE  /\ Queued(task, made, version) \in JobDocument
           /\ Queued(task, made, version).task = task /\ Queued(task, made, version).made = made
           /\ Queued(task, made, version).status = "queued"
           /\ \A text : (made # None => made.text = text) =>
                Fresh(Queued(task, made, version), text)
<1>1. NoDocument \in JobDocument
  BY NumbersFit, BoundsAreNumbers DEF NoDocument, JobDocument, Task, Purpose
<1> DEFINE d == Queued(task, made, version)
<1>2. /\ d \in JobDocument
      /\ d.status = "queued" /\ d.gen = 0 /\ d.cancel = FALSE /\ d.attempt = 1
      /\ d.policy = version /\ d.made = made /\ d.task = task
  <2>1. /\ NoDocument.gen = 0 /\ NoDocument.cancel = FALSE /\ NoDocument.attempt = 1
    BY DEF NoDocument
  <2>2. version \in 0..MaxPolicy
    BY BoundsAreNumbers
  <2> QED BY <1>1, <2>1, <2>2 DEF Queued, JobDocument
<1> HIDE DEF d
<1>3. \A text : (made # None => made.text = text) => Fresh(d, text)
  BY <1>2, BoundsAreNumbers DEF Fresh
<1> QED BY <1>2, <1>3 DEF d

\* Inserting fresh documents.
LEMMA InsertsDocument ==
    ASSUME DocumentsOK, NEW new \in SUBSET JobDocument, IsFiniteSet(new), InsertAll(job, new),
           NEW text, \A d \in new : Fresh(d, text)
    PROVE  /\ job' \in [Job -> JobDocument] /\ Documented(text) /\ NoneSucceeds /\ RunnersRun
           /\ Inserts(job, new)
<1>1. job \in [Job -> JobDocument]
  BY DEF DocumentsOK
<1>2. job' \in [Job -> JobDocument] /\ Inserts(job, new)
  BY <1>1, InsertAllInserts
<1>3. Documented(text)
  BY <1>2 DEF Inserts, Documented
<1>4. NoneSucceeds /\ RunnersRun
  BY <1>2 DEF Inserts, NoneSucceeds, RunnersRun, Fresh
<1> QED BY <1>2, <1>3, <1>4

\* The jobs an ingestion or a new summary enqueues.
LEMMA IngestionJobsAreFresh ==
    ASSUME DocumentsOK, NEW tasks \in SUBSET Task, NEW made \in Input,
           made.policy <= src.version
    PROVE  /\ IngestionJobs(tasks, made) \in SUBSET JobDocument
           /\ IsFiniteSet(IngestionJobs(tasks, made))
           /\ \A d \in IngestionJobs(tasks, made) : Fresh(d, made.text)
<1> DEFINE S == {u \in tasks : \A j \in Job : ~(job[j].task = u /\ job[j].made = made)}
           version == made.policy
<1>1. S \in SUBSET Task /\ version \in 1..MaxPolicy /\ version <= src.version
  BY DEF Input
<1>2. IngestionJobs(tasks, made) = {Queued(t, made, version) : t \in S}
  BY DEF IngestionJobs
<1> HIDE DEF S, version
<1>3. IsFiniteSet({Queued(t, made, version) : t \in S})
  BY <1>1, TasksAreFinite
<1>4. \A t \in S : /\ Queued(t, made, version) \in JobDocument
                   /\ Fresh(Queued(t, made, version), made.text)
  BY <1>1, QueuedIsFresh
<1> QED BY <1>2, <1>3, <1>4

LEMMA NothingIsFresh ==
    \A text : /\ {} \in SUBSET JobDocument /\ IsFiniteSet({})
              /\ \A d \in {} : Fresh(d, text)
BY OneIsFinite

LEMMA ClaimDocuments ==
    ASSUME TypeInv, NEW w \in Worker, Claim(w), worker[w].gen <= highWater
    PROVE  job' \in [Job -> JobDocument] /\ Documented(None) /\ NoneSucceeds
<1> DEFINE j == worker[w].job
<1>1. job \in [Job -> JobDocument] /\ j \in Job /\ worker[w].gen \in 0..MaxGeneration
  BY NamesAJob, UnderWay, WorkerFields DEF Claim, Is, TypeInv, DocumentsOK
<1>2. /\ job' = [job EXCEPT ![j].status = "running", ![j].gen = worker[w].gen]
      /\ job[j].status = "queued"
  BY DEF Claim
<1>3. job' \in [Job -> JobDocument]
  BY <1>1, <1>2 DEF JobDocument
<1>4. /\ \A k \in Job : k # j => job'[k] = job[k]
      /\ job'[j] = [job[j] EXCEPT !.status = "running", !.gen = worker[w].gen]
      /\ job[j] \in JobDocument
  BY <1>1, <1>2
<1> DEFINE d == job[j]
           e == job'[j]
<1>5. Kept(d, e) /\ e.status = "running"
  <2>1. /\ e.status = "running" /\ e.gen = worker[w].gen /\ e.task = d.task
        /\ e.made = d.made /\ e.policy = d.policy /\ e.attempt = d.attempt /\ e.cancel = d.cancel
    BY <1>4 DEF JobDocument
  <2>2. d.status = "queued"
    BY <1>2
  <2> HIDE DEF d, e
  <2> QED BY <2>1, <2>2 DEF Kept
<1> QED BY <1>3, <1>4, <1>5 DEF Documented, NoneSucceeds

LEMMA CompleteDocuments ==
    ASSUME TypeInv, NEW w \in Worker, Complete(w), Documents
    PROVE  /\ job' \in [Job -> JobDocument] /\ Documented(None)
           /\ \A j \in Job : j # worker[w].job => job'[j] = job[j]
           /\ job'[worker[w].job].status \in Terminal
<1> DEFINE j == worker[w].job
           e == job'[j]
<1>1. job \in [Job -> JobDocument] /\ j \in Job
  BY NamesAJob, UnderWay DEF Complete, Is, TypeInv, DocumentsOK
<1>2. /\ job[j].status = "running"
      /\ \E status \in Terminal, retryable \in BOOLEAN :
           job' = [job EXCEPT ![j].status = status, ![j].retryable = retryable]
  BY DEF Complete, Owns, Terminal
<1>3. PICK status \in Terminal, retryable \in BOOLEAN :
           job' = [job EXCEPT ![j].status = status, ![j].retryable = retryable]
  BY <1>2
<1>4. job' \in [Job -> JobDocument]
  BY <1>1, <1>3 DEF JobDocument
<1>5. /\ \A k \in Job : k # j => job'[k] = job[k]
      /\ e = [job[j] EXCEPT !.status = status, !.retryable = retryable]
      /\ job[j] \in JobDocument
  BY <1>1, <1>3
<1>6. Kept(job[j], e) /\ e.status = status
  BY <1>1, <1>2, <1>5 DEF Kept, JobDocument, Terminal, Documents
<1> QED BY <1>4, <1>5, <1>6 DEF Documented

LEMMA CancelDocuments ==
    ASSUME DocumentsOK, NEW j \in Job, Cancel(j), Documents
    PROVE  job' \in [Job -> JobDocument] /\ Documented(None) /\ NoneSucceeds /\ RunnersRun
<1> DEFINE gone == [job[j] EXCEPT !.status = "cancelled"]
           told == [job[j] EXCEPT !.cancel = TRUE]
           e == IF job[j].status = "queued" THEN gone ELSE told
<1>1. job \in [Job -> JobDocument] /\ job[j] \in JobDocument
  BY DEF DocumentsOK
<1>2. job' = [job EXCEPT ![j] = e] /\ job[j].status \in {"queued", "running"}
  BY DEF Cancel
<1>3. gone \in JobDocument /\ told \in JobDocument
  BY <1>1 DEF JobDocument, Terminal
<1>4. /\ Kept(job[j], e) /\ e.status # "succeeded"
      /\ job[j].status = "running" => e.status = "running"
  BY <1>1, <1>2 DEF Kept, JobDocument, Documents
<1>5. job' \in [Job -> JobDocument] /\ \A k \in Job : job'[k] = IF k = j THEN e ELSE job[k]
  BY <1>1, <1>2, <1>3
<1> HIDE DEF e
<1> QED BY <1>4, <1>5 DEF Documented, NoneSucceeds, RunnersRun

\* What an answer has read: its input is of the version its job is for.
LEMMA AnswerReads ==
    ASSUME TypeInv, Views, NEW w \in Worker, Answer(w)
    PROVE  \E read \in Reads(w) :
             /\ Earlier(read.source) /\ Writable(w, read, FALSE) /\ InsertAll(job, OwedBy(w, read))
             /\ worker[w].input \in Input /\ worker[w].input.policy = read.source.version
             /\ worker[w].input = InputUnder(read.source.version, job[worker[w].job].task)
<1>1. PICK read \in Reads(w) : Writable(w, read, FALSE) /\ InsertAll(job, OwedBy(w, read))
  BY DEF Answer
<1>2. worker[w].exec = "provider" /\ worker[w] # Idle
  BY UnderWay DEF Answer
<1>3. Earlier(read.source)
  BY <1>2, ReadsAreEarlier
<1>4. worker[w].input \in Input
  BY <1>2, WorkerFields DEF TypeInv, DocumentsOK, Shape
<1>5. worker[w].input = InputUnder(read.source.version, job[worker[w].job].task)
  BY <1>1 DEF Writable
<1>6. worker[w].input.policy = read.source.version
  BY <1>5 DEF InputUnder
<1> QED BY <1>1, <1>3, <1>4, <1>5, <1>6

LEMMA AnswerDocuments ==
    ASSUME TypeInv, Views, NEW w \in Worker, Answer(w)
    PROVE  /\ job' \in [Job -> JobDocument] /\ Documented(worker[w].job)
           /\ NoneSucceeds /\ RunnersRun
           /\ \E read \in Reads(w) :
                /\ Earlier(read.source) /\ Writable(w, read, FALSE)
                /\ worker[w].input.policy = read.source.version /\ Inserts(job, OwedBy(w, read))
<1> DEFINE j == worker[w].job
           made == [worker[w].input EXCEPT !.text = j]
<1>1. j \in Job
  BY NamesAJob, UnderWay DEF Answer
<1>2. PICK read \in Reads(w) :
        /\ Earlier(read.source) /\ Writable(w, read, FALSE) /\ InsertAll(job, OwedBy(w, read))
        /\ worker[w].input \in Input /\ worker[w].input.policy = read.source.version
  BY AnswerReads
<1>3. made \in Input /\ made.text = j /\ made.policy <= src.version
  BY <1>1, <1>2 DEF Input, Earlier
<1>4. {"embedding"} \in SUBSET Task
  BY DEF Task, Purpose
<1> DEFINE owed == OwedBy(w, read)
<1>5. owed = {} \/ owed = IngestionJobs({"embedding"}, made)
  BY DEF OwedBy
<1> HIDE DEF made, owed
<1>6. owed \in SUBSET JobDocument /\ IsFiniteSet(owed) /\ \A d \in owed : Fresh(d, j)
  BY <1>3, <1>4, <1>5, IngestionJobsAreFresh, NothingIsFresh DEF TypeInv
<1>7. InsertAll(job, owed)
  BY <1>2 DEF owed
<1>8. /\ job' \in [Job -> JobDocument] /\ Documented(j) /\ NoneSucceeds /\ RunnersRun
      /\ Inserts(job, owed)
  BY <1>6, <1>7, InsertsDocument DEF TypeInv
<1> QED BY <1>2, <1>8 DEF owed

LEMMA IngestDocuments ==
    ASSUME TypeInv, Views, Ingest
    PROVE  job' \in [Job -> JobDocument] /\ Documented(SummaryText) /\ NoneSucceeds /\ RunnersRun
<1>1. PICK policy \in batch \cup {PolicyNow}, content \in 1..MaxContent :
        InsertAll(job, IF article.status = "published"
                       THEN IngestionJobs(policy.allows, [content |-> content,
                              policy |-> policy.version, text |-> SummaryText]) ELSE {})
  BY DEF Ingest
<1>2. Earlier(policy)
  BY <1>1, PolicyNowIsEarlier DEF TypeInv, Views
<1> DEFINE made == [content |-> content, policy |-> policy.version, text |-> SummaryText]
           new == IF article.status = "published" THEN IngestionJobs(policy.allows, made) ELSE {}
<1>3. made \in Input /\ made.text = SummaryText /\ made.policy <= src.version
  BY <1>2, InputsAreTyped DEF Input, TypeInv, Earlier, SourcePolicy
<1>4. policy.allows \in SUBSET Task
  BY <1>2 DEF Earlier, SourcePolicy, Task
<1>5. InsertAll(job, new)
  BY <1>1
<1> HIDE DEF made
<1>6. new \in SUBSET JobDocument /\ IsFiniteSet(new) /\ \A d \in new : Fresh(d, SummaryText)
  BY <1>3, <1>4, IngestionJobsAreFresh, NothingIsFresh DEF TypeInv
<1> HIDE DEF new
<1> QED BY <1>5, <1>6, InsertsDocument DEF TypeInv

LEMMA AdminDocuments ==
    ASSUME TypeInv, Documents, AdminStep \/ Materialize
    PROVE  job' \in [Job -> JobDocument] /\ Documented(None) /\ NoneSucceeds /\ RunnersRun
<1> DEFINE version == src.version
<1>0. version \in 1..MaxPolicy /\ version <= src.version
  BY BoundsAreNumbers DEF TypeInv, DocumentsOK
<1>1. ASSUME NEW S \in SUBSET Task, InsertAll(job, {Queued(t, None, src.version) : t \in S})
      PROVE  job' \in [Job -> JobDocument] /\ Documented(None) /\ NoneSucceeds /\ RunnersRun
  <2> DEFINE new == {Queued(t, None, src.version) : t \in S}
  <2>1. new \in SUBSET JobDocument /\ \A d \in new : Fresh(d, None)
    BY <1>0, QueuedIsFresh DEF TypeInv
  <2>2. IsFiniteSet(new)
    BY TasksAreFinite
  <2>3. InsertAll(job, new)
    BY <1>1
  <2> HIDE DEF new
  <2> QED BY <2>1, <2>2, <2>3, InsertsDocument DEF TypeInv
<1>2. CASE Materialize
  <2> DEFINE S == {"visibility-reconcile"} \cup {p \in Purpose : Allowed(p)}
  <2>1. S \in SUBSET Task
    BY DEF Task
  <2>2. InsertAll(job, {Queued(t, None, src.version) : t \in S})
    BY <1>2 DEF Materialize
  <2> QED BY <1>1, <2>1, <2>2
<1>3. ASSUME NEW task \in Task, Create(task)
      PROVE  job' \in [Job -> JobDocument] /\ Documented(None) /\ NoneSucceeds /\ RunnersRun
  <2>1. {Queued(t, None, src.version) : t \in {task}} = {Queued(task, None, src.version)}
    OBVIOUS
  <2>2. InsertAll(job, {Queued(task, None, src.version)})
    BY <1>3 DEF Create
  <2>3. InsertAll(job, {Queued(t, None, src.version) : t \in {task}})
    BY <2>1, <2>2, Zenon
  <2> QED BY <1>1, <2>3
<1>4. ASSUME NEW j \in Job, Retry(j)
      PROVE  job' \in [Job -> JobDocument] /\ Documented(None) /\ NoneSucceeds /\ RunnersRun
  <2> DEFINE q == Queued(job[j].task, None, src.version)
             child == [q EXCEPT !.attempt = job[j].attempt + 1, !.parent = j]
  <2>1. job[j] \in JobDocument /\ job[j].task \in Task /\ job[j].attempt \in Attempts
    BY DocumentFields DEF TypeInv, DocumentsOK
  <2>2. q \in JobDocument /\ Fresh(q, None) /\ q.made = None
    BY <1>0, <2>1, QueuedIsFresh DEF TypeInv
  <2>3. job[j].attempt + 1 \in 1..MaxAttempts /\ job[j].attempt + 1 \in Attempts
    BY <1>4, <2>1, BoundsAreNumbers, NumbersFit DEF Retry, Attempts
  <2> HIDE DEF q
  <2>4. child \in JobDocument /\ Fresh(child, None)
    BY <2>2, <2>3 DEF JobDocument, Fresh
  <2>5. InsertAll(job, {child})
    BY <1>4 DEF Retry, q
  <2> DEFINE new == {child}
  <2> HIDE DEF child
  <2>6. new \in SUBSET JobDocument /\ IsFiniteSet(new) /\ \A d \in new : Fresh(d, None)
    BY <2>4, OneIsFinite
  <2>7. InsertAll(job, new)
    BY <2>5
  <2> HIDE DEF new
  <2> QED BY <2>6, <2>7, InsertsDocument DEF TypeInv
<1>5. ASSUME NEW j \in Job, Cancel(j)
      PROVE  job' \in [Job -> JobDocument] /\ Documented(None) /\ NoneSucceeds /\ RunnersRun
  BY <1>5, CancelDocuments DEF TypeInv
<1> QED BY <1>2, <1>3, <1>4, <1>5 DEF AdminStep

LEMMA RecoverDocuments ==
    ASSUME TypeInv, Documents, Recover
    PROVE  /\ job' \in [Job -> JobDocument] /\ Documented(None) /\ NoneSucceeds
           /\ \A j \in Job : j # owner.job /\ job[j].status # "unused" => job'[j] = job[j]
<1> DEFINE j == owner.job
           parent == job[j]
           found == parent.status = "running" /\ parent.gen = owner.gen
           retry == found /\ ~parent.cancel /\ parent.attempt < MaxAttempts
           child == [parent EXCEPT !.status = "queued", !.attempt = parent.attempt + 1,
                                   !.parent = j, !.gen = 0, !.cancel = FALSE, !.made = None]
           status == IF parent.cancel THEN "cancelled" ELSE "failed"
           ended == [job EXCEPT ![j].status = status, ![j].retryable = ~parent.cancel]
           new == IF retry THEN {child} ELSE {}
<1>1. job \in [Job -> JobDocument] /\ j \in Job /\ parent \in JobDocument
  BY DEF Recover, TypeInv, DocumentsOK, Owner
<1>2. CASE ~found
  BY <1>1, <1>2 DEF Recover, Documented, NoneSucceeds
<1>3. CASE found
  <2>1. InsertAll(ended, new)
    BY <1>3 DEF Recover
  <2>2. status \in Terminal /\ (~parent.cancel) \in BOOLEAN
    BY <1>1, DocumentFields DEF Terminal
  <2>3. ended \in [Job -> JobDocument]
    BY <1>1, <2>2 DEF JobDocument
  <2>4. /\ \A k \in Job : k # j => ended[k] = job[k]
        /\ ended[j] = [parent EXCEPT !.status = status, !.retryable = ~parent.cancel]
    BY <1>1
  <2>5. Kept(parent, ended[j]) /\ ended[j].status # "succeeded"
    BY <1>1, <1>3, <2>4 DEF Kept, JobDocument, Documents
  <2>6. ASSUME retry PROVE child \in JobDocument /\ Fresh(child, None)
    <3>1. parent.attempt + 1 \in 1..MaxAttempts /\ parent.attempt + 1 \in Attempts
      BY <1>1, <2>6, DocumentFields, BoundsAreNumbers, NumbersFit DEF Attempts
    <3>2. child \in JobDocument
      BY <1>1, <3>1, NumbersFit DEF JobDocument
    <3>3. /\ child.status = "queued" /\ child.gen = 0 /\ child.cancel = FALSE /\ child.made = None
          /\ child.attempt = parent.attempt + 1 /\ child.policy = parent.policy
      BY <1>1 DEF JobDocument
    <3>4. parent.policy <= src.version
      BY <1>1 DEF Documents
    <3> QED BY <3>1, <3>2, <3>3, <3>4 DEF Fresh
  <2>7. new \in SUBSET JobDocument /\ IsFiniteSet(new) /\ \A d \in new : Fresh(d, None)
    BY <2>6, OneIsFinite
  <2> HIDE DEF new, ended, child
  <2>8. job' \in [Job -> JobDocument] /\ Inserts(ended, new)
    BY <2>1, <2>3, <2>7, InsertAllInserts
  <2>9. \A k \in Job : \/ job'[k] = ended[k]
                       \/ job[k].status = "unused" /\ Fresh(job'[k], None)
    BY <2>7, <2>8 DEF Inserts
  <2>10. Documented(None)
    BY <2>4, <2>5, <2>9 DEF Documented
  <2>11. NoneSucceeds
    BY <2>4, <2>5, <2>9 DEF NoneSucceeds, Fresh
  <2> QED BY <2>4, <2>8, <2>9, <2>10, <2>11
<1> QED BY <1>2, <1>3

\* What deferring makes of the job of w: nothing but its own state changes, and its
\* attempt grows only for an invocation whose copy of it is below the limit.
GivenBack(v, d, e) ==
    /\ d.status = "running" /\ d.gen = v.gen
    /\ e.status \in {"queued", "cancelled"}
    /\ e.task = d.task /\ e.made = d.made /\ e.policy = d.policy
    /\ e.gen <= highWater
    /\ e.cancel = d.cancel /\ (e.cancel => e.status # "queued")
    /\ e.attempt = d.attempt \/ (e.attempt = d.attempt + 1 /\ v.attempt < MaxAttempts)
    /\ e.attempt \in Attempts => e \in JobDocument

LEMMA DeferDocuments ==
    ASSUME TypeInv, Documents, NEW w \in Worker, Defer(w)
    PROVE  /\ worker[w].job \in Job /\ worker[w].pc = "deferring"
           /\ job' = [job EXCEPT ![worker[w].job] = job'[worker[w].job]]
           /\ GivenBack(worker[w], job[worker[w].job], job'[worker[w].job])
<1> DEFINE v == worker[w]
           j == v.job
           d == job[j]
           more == IF v.result = "unattempted" THEN 1 ELSE 0
           gone == [d EXCEPT !.status = "cancelled"]
           back == [d EXCEPT !.status = "queued", !.gen = 0, !.attempt = d.attempt + more]
           e == IF d.cancel THEN gone ELSE back
<1>1. job \in [Job -> JobDocument] /\ j \in Job /\ v.pc = "deferring" /\ Shape(v, job)
  BY NamesAJob, UnderWay DEF Defer, Is, TypeInv, DocumentsOK
<1>2. d \in JobDocument /\ d.gen <= highWater /\ highWater \in Nat /\ d.attempt \in Attempts
  BY <1>1, DocumentFields, BoundsAreNumbers DEF Documents, TypeInv, DocumentsOK
<1>3. d.status = "running" /\ d.gen = v.gen /\ job' = [job EXCEPT ![j] = e]
  BY DEF Defer, Owns
<1>4. job'[j] = e
  BY <1>1, <1>3
<1>5. more = 1 => v.attempt < MaxAttempts
  BY <1>1 DEF Shape
<1>6. /\ gone.status = "cancelled" /\ gone.task = d.task /\ gone.made = d.made
      /\ gone.policy = d.policy /\ gone.cancel = d.cancel /\ gone.gen = d.gen
      /\ gone.attempt = d.attempt /\ gone \in JobDocument
  BY <1>2 DEF JobDocument, Terminal
<1>7. /\ back.status = "queued" /\ back.task = d.task /\ back.made = d.made
      /\ back.policy = d.policy /\ back.cancel = d.cancel /\ back.gen = 0
      /\ back.attempt = d.attempt + more
      /\ (d.attempt + more \in Attempts => back \in JobDocument)
  BY <1>2, NumbersFit DEF JobDocument
<1>8. d.attempt + 0 = d.attempt /\ (more = 0 \/ more = 1)
  BY <1>2, BoundsAreNumbers DEF Attempts
<1> HIDE DEF gone, back, more
<1>9. CASE d.cancel
  <2>1. job'[j] = gone
    BY <1>4, <1>9
  <2>2. GivenBack(v, d, gone)
    BY <1>2, <1>3, <1>6 DEF GivenBack
  <2> QED BY <1>1, <1>3, <1>4, <2>1, <2>2
<1>10. CASE ~d.cancel
  <2>1. job'[j] = back
    BY <1>4, <1>10
  <2>2. GivenBack(v, d, back)
    BY <1>2, <1>3, <1>5, <1>7, <1>8, <1>10 DEF GivenBack
  <2> QED BY <1>1, <1>3, <1>4, <2>1, <2>2
<1> QED BY <1>9, <1>10

-----------------------------------------------------------------------------
(* Types *)

\* Documents that are used stay used, and for the same task.
Keeps == \A j \in Job : job[j].status # "unused" =>
             job'[j].status # "unused" /\ job'[j].task = job[j].task

LEMMA DocumentedKeeps ==
    ASSUME NEW text, Documented(text)
    PROVE  Keeps
BY DEF Documented, Kept, Keeps

LEMMA ShapeKeeps ==
    ASSUME NEW v \in WorkerState, Shape(v, job), Keeps
    PROVE  Shape(v, job')
<1>1. CASE v.job = None
  <2>1. v = Idle
    BY <1>1 DEF Shape
  <2> QED BY <2>1, IdleIsTyped
<1>2. CASE v.job # None
  <2>1. v.job \in Job
    BY <1>2, WorkerFields
  <2>2. job[v.job].status # "unused"
    BY <1>2 DEF Shape
  <2>3. job'[v.job].status # "unused" /\ job'[v.job].task = job[v.job].task
    BY <2>1, <2>2 DEF Keeps
  <2> QED BY <1>2, <2>3 DEF Shape
<1> QED BY <1>1, <1>2

\* One invocation moves, or none.
Moves(w, u) == u \in WorkerState /\ Shape(u, job) /\ Becomes(w, u)
OneMoves == worker' = worker \/ \E w \in Worker : \E u : Moves(w, u)

LEMMA TurnsMove ==
    ASSUME NEW w \in Worker, Turns(w)
    PROVE  OneMoves
BY DEF Turns, Turn, OneMoves, Moves

LEMMA TypesGo ==
    ASSUME TypeInv, OneMoves, Keeps,
           highWater' \in 0..MaxGeneration, owner' \in Owner \cup {None},
           job' \in [Job -> JobDocument], article' \in Article,
           src' \in [version: 1..MaxPolicy, active: BOOLEAN, licensed: BOOLEAN,
                     allows: SUBSET Purpose, marked: BOOLEAN]
    PROVE  TypeInv'
<1>1. worker \in [Worker -> WorkerState] /\ \A v \in Worker : Shape(worker[v], job)
  BY DEF TypeInv, DocumentsOK
<1>2. worker' \in [Worker -> WorkerState] /\ \A v \in Worker : Shape(worker'[v], job)
  <2>1. CASE worker' = worker
    BY <1>1, <2>1
  <2>2. ASSUME NEW w \in Worker, NEW u, Moves(w, u)
        PROVE  worker' \in [Worker -> WorkerState] /\ \A v \in Worker : Shape(worker'[v], job)
    <3>1. u \in WorkerState /\ Shape(u, job) /\ worker' = [worker EXCEPT ![w] = u]
      BY <2>2 DEF Moves, Becomes
    <3>2. worker' \in [Worker -> WorkerState]
      BY <1>1, <3>1
    <3>3. \A v \in Worker : worker'[v] = IF v = w THEN u ELSE worker[v]
      BY <1>1, <3>1
    <3> QED BY <1>1, <3>1, <3>2, <3>3
  <2> QED BY <2>1, <2>2 DEF OneMoves
<1>3. \A v \in Worker : Shape(worker'[v], job')
  BY <1>2, ShapeKeeps
<1>4. DocumentsOK'
  BY <1>2 DEF DocumentsOK
<1> QED BY <1>3, <1>4 DEF TypeInv

LEMMA BlankIsTyped ==
    ASSUME NEW status \in {"pending", "processing", "failed", "removed"}
    PROVE  Blank(status) \in Artifact /\ Blank(status).status # "ready"
BY DEF Blank, Artifact

\* An artifact of the article is replaced.
LEMMA ArticleIsTyped ==
    ASSUME article \in Article, NEW p \in Purpose, NEW a \in Artifact,
           article' = [article EXCEPT ![p] = a]
    PROVE  /\ article' \in Article /\ article'[p] = a
           /\ \A q \in Purpose \ {p} : article'[q] = article[q]
           /\ article'.status = article.status
<1>1. CASE p = "summary"
  BY <1>1 DEF Article, Purpose
<1>2. CASE p = "embedding"
  BY <1>2 DEF Article, Purpose
<1> QED BY <1>1, <1>2 DEF Purpose

-----------------------------------------------------------------------------
(* Plain steps *)

\* The article takes no new text and is not made visible.
NoNewText ==
    /\ \A p \in Purpose : article'[p] = article[p] \/ article'[p].status # "ready"
    /\ article'.status = "published" => article.status = "published"

\* A plain step grants no lease, begins no invocation and no execution, gives no job
\* back to the queue and puts no text on the article.
Plain(text) ==
    /\ TypeInv'
    /\ highWater' = highWater
    /\ Documented(text)
    /\ worker' = worker \/ \E w \in Worker : Turns(w)
    /\ NoNewText
    /\ SourceGrows

LEMMA SameIsPlain ==
    ASSUME TypeInv
    PROVE  /\ job' = job => job' \in [Job -> JobDocument] /\ (\A t : Documented(t)) /\ NoneSucceeds
           /\ article' = article => article' \in Article /\ NoNewText
           /\ src' = src => SourceGrows
           /\ highWater' = highWater => highWater' \in 0..MaxGeneration
           /\ owner' \in {owner, None} => owner' \in Owner \cup {None}
<1>1. src.version \in Int
  BY DEF TypeInv, DocumentsOK
<1> QED BY <1>1 DEF TypeInv, DocumentsOK, Documented, NoneSucceeds, NoNewText, SourceGrows

\* To show that a step is plain it is enough to look at what it touches.
LEMMA PlainGo ==
    ASSUME TypeInv, NEW text, Documented(text), job' \in [Job -> JobDocument],
           worker' = worker \/ \E w \in Worker : Turns(w),
           highWater' = highWater, owner' \in Owner \cup {None},
           article' \in Article, NoNewText, SourceGrows,
           src' \in [version: 1..MaxPolicy, active: BOOLEAN, licensed: BOOLEAN,
                     allows: SUBSET Purpose, marked: BOOLEAN]
    PROVE  Plain(text)
<1>1. OneMoves
  BY TurnsMove DEF OneMoves
<1>2. Keeps
  BY DocumentedKeeps
<1>3. highWater' \in 0..MaxGeneration
  BY SameIsPlain
<1>4. TypeInv'
  BY <1>1, <1>2, <1>3, TypesGo
<1> QED BY <1>4 DEF Plain

LEMMA SourceIsTyped ==
    ASSUME TypeInv, src' = src
    PROVE  src' \in [version: 1..MaxPolicy, active: BOOLEAN, licensed: BOOLEAN,
                     allows: SUBSET Purpose, marked: BOOLEAN]
BY DEF TypeInv, DocumentsOK

\* Steps of an invocation that change nothing but itself, or release its lease.
LEMMA WorkerStepIsPlain ==
    ASSUME TypeInv, NEW w \in Worker,
           \/ NotAdmitted(w) \/ ClaimFails(w) \/ Release(w) \/ Start(w) \/ DeadlineFires(w)
           \/ HeartbeatLost(w) \/ Unresolved(w) \/ Crash(w)
           \/ Abandon(w) \/ Capture(w) \/ AnswerStale(w)
    PROVE  Plain(None) /\ NoneSucceeds /\ job' = job /\ article' = article /\ src' = src
           /\ owner' \in {owner, None}
<1>1. Turns(w)
  BY QueueTurns, ProcessorTurns DEF Processor
<1>2. highWater' = highWater /\ owner' \in {owner, None} /\ job' = job /\ article' = article
      /\ src' = src
  BY DEF NotAdmitted, ClaimFails, Release, Start, DeadlineFires, HeartbeatLost, Unresolved,
         Crash, Abandon, Capture, AnswerStale, lease
<1>3. owner' \in Owner \cup {None} /\ Documented(None) /\ job' \in [Job -> JobDocument]
      /\ article' \in Article /\ NoNewText /\ SourceGrows /\ NoneSucceeds
  BY <1>2, SameIsPlain
<1>4. Plain(None)
  BY <1>1, <1>2, <1>3, SourceIsTyped, PlainGo
<1> QED BY <1>2, <1>3, <1>4

LEMMA CompleteIsPlain ==
    ASSUME TypeInv, Documents, NEW w \in Worker, Complete(w)
    PROVE  Plain(None) /\ owner' = None
<1>1. Turns(w)
  BY QueueTurns
<1>2. highWater' = highWater /\ owner' = None /\ article' = article /\ src' = src
  BY DEF Complete
<1>3. owner' \in Owner \cup {None} /\ article' \in Article /\ NoNewText /\ SourceGrows
  BY <1>2, SameIsPlain
<1>4. Documented(None) /\ job' \in [Job -> JobDocument]
  BY CompleteDocuments
<1> QED BY <1>1, <1>2, <1>3, <1>4, SourceIsTyped, PlainGo

\* The processor takes its artifact back, marks it, or blanks what the policy does
\* not cover.
LEMMA BlankingIsPlain ==
    ASSUME TypeInv, NEW w \in Worker,
           Mark(w) \/ ProviderFails(w) \/ AnswerCancelled(w) \/ Reconcile(w)
    PROVE  /\ Plain(None) /\ NoneSucceeds /\ owner' = owner /\ job' = job /\ src' = src
           /\ article' = article \/ (Owns(w) /\ worker[w].exec # "off")
<1> DEFINE j == worker[w].job
           task == job[j].task
<1>1. Turns(w)
  BY ProcessorTurns DEF Processor
<1>2. highWater' = highWater /\ owner' = owner /\ job' = job /\ src' = src
  BY DEF Mark, ProviderFails, AnswerCancelled, Reconcile, lease
<1>3. owner' \in Owner \cup {None} /\ Documented(None) /\ job' \in [Job -> JobDocument]
      /\ SourceGrows /\ NoneSucceeds
  BY <1>2, SameIsPlain
<1>4. worker[w].exec \in {"mark", "provider"} => task \in Purpose
  BY DEF TypeInv, Shape
<1>5. article \in Article
  BY DEF TypeInv, DocumentsOK
<1>6. ASSUME NEW status \in {"pending", "processing", "failed", "removed"}, task \in Purpose,
             SetArtifact(w, Blank(status))
      PROVE  article' \in Article /\ NoNewText
  <2>1. Blank(status) \in Artifact /\ Blank(status).status # "ready"
    BY BlankIsTyped
  <2>2. article' = [article EXCEPT ![task] = Blank(status)]
    BY <1>6 DEF SetArtifact
  <2>3. task \in Purpose
    BY <1>6
  <2> DEFINE a == Blank(status)
             p == task
  <2>4. a \in Artifact /\ p \in Purpose /\ article' = [article EXCEPT ![p] = a]
    BY <2>1, <2>2, <2>3
  <2> HIDE DEF a, p
  <2>5. /\ article' \in Article /\ article'[p] = a
        /\ \A q \in Purpose \ {p} : article'[q] = article[q]
        /\ article'.status = article.status
    BY <1>5, <2>4, ArticleIsTyped
  <2>6. a.status # "ready"
    BY <2>1 DEF a
  <2> QED BY <2>5, <2>6 DEF NoNewText
<1>7. /\ article' \in Article /\ NoNewText
      /\ article' = article \/ (Owns(w) /\ worker[w].exec # "off")
  <2>1. CASE article' = article
    BY <2>1, SameIsPlain
  <2>2. CASE Mark(w) /\ article' # article
    <3>1. PICK read \in Reads(w) : Writable(w, read, FALSE) /\ SetArtifact(w, Blank("processing"))
      BY <2>2 DEF Mark
    <3>2. worker[w].exec = "mark"
      BY <2>2 DEF Mark
    <3> QED BY <1>4, <1>6, <3>1, <3>2 DEF Writable
  <2>3. CASE ProviderFails(w)
    <3>1. PICK read \in Reads(w) : Writable(w, read, FALSE)
      BY <2>3 DEF ProviderFails
    <3>2. /\ worker[w].exec = "provider"
          /\ SetArtifact(w, Blank("pending")) \/ SetArtifact(w, Blank("failed"))
      BY <2>3 DEF ProviderFails
    <3> QED BY <1>4, <1>6, <3>1, <3>2 DEF Writable
  <2>4. CASE AnswerCancelled(w)
    <3>1. PICK read \in Reads(w) : Writable(w, read, TRUE)
      BY <2>4 DEF AnswerCancelled
    <3>2. worker[w].exec = "provider" /\ SetArtifact(w, Blank("pending"))
      BY <2>4 DEF AnswerCancelled
    <3> QED BY <1>4, <1>6, <3>1, <3>2 DEF Writable
  <2>5. CASE Reconcile(w) /\ article' # article
    <3>1. PICK policy \in {read.source : read \in Reads(w)} :
            /\ Owns(w)
            /\ article' = [article EXCEPT
                 !.status = IF policy.active THEN article.status ELSE "hidden",
                 !.summary = KeptUnder(policy, "summary"),
                 !.embedding = KeptUnder(policy, "embedding")]
      BY <2>5 DEF Reconcile
    <3> DEFINE kept(purpose) == KeptUnder(policy, purpose)
               status == IF policy.active THEN article.status ELSE "hidden"
    <3>2. worker[w].exec = "reconcile"
      BY <2>5 DEF Reconcile
    <3>3. \A p \in Purpose : /\ kept(p) \in Artifact
                             /\ kept(p) = article[p] \/ kept(p).status # "ready"
      BY <1>5, BlankIsTyped DEF KeptUnder, Article, Purpose
    <3> HIDE DEF kept
    <3>4. article' = [article EXCEPT !.status = status, !.summary = kept("summary"),
                                     !.embedding = kept("embedding")]
      BY <3>1 DEF kept
    <3>5. /\ article'.status = status /\ article'.summary = kept("summary")
          /\ article'.embedding = kept("embedding")
      BY <1>5, <3>4 DEF Article
    <3>6. article' \in Article
      BY <1>5, <3>3, <3>4 DEF Article, Purpose
    <3>7. NoNewText
      BY <3>3, <3>5 DEF NoNewText, Purpose
    <3> QED BY <3>1, <3>2, <3>6, <3>7
  <2> QED BY <2>1, <2>2, <2>3, <2>4, <2>5
<1> QED BY <1>1, <1>2, <1>3, <1>7, SourceIsTyped, PlainGo

\* The owner stays the same job under the same generation, or is cleared.
OwnerKept ==
    \/ owner' = None
    \/ owner # None /\ owner'.job = owner.job /\ owner'.gen = owner.gen

LEMMA ExpireIsPlain ==
    ASSUME TypeInv, Expire
    PROVE  /\ Plain(None) /\ NoneSucceeds /\ OwnerKept
           /\ job' = job /\ article' = article /\ src' = src
<1>1. /\ highWater' = highWater /\ job' = job /\ article' = article /\ src' = src
      /\ worker' = worker /\ owner # None /\ owner' = [owner EXCEPT !.live = FALSE]
  BY DEF Expire
<1>2. owner \in Owner
  BY <1>1 DEF TypeInv, DocumentsOK
<1>3. owner' \in Owner /\ owner'.job = owner.job /\ owner'.gen = owner.gen
  BY <1>1, <1>2 DEF Owner
<1>4. Documented(None) /\ job' \in [Job -> JobDocument] /\ article' \in Article /\ NoNewText
      /\ SourceGrows /\ NoneSucceeds
  BY <1>1, SameIsPlain
<1>5. Plain(None)
  BY <1>1, <1>3, <1>4, SourceIsTyped, PlainGo
<1> QED BY <1>1, <1>3, <1>4, <1>5 DEF OwnerKept

LEMMA RecoverIsPlain ==
    ASSUME TypeInv, Documents, Recover
    PROVE  Plain(None) /\ NoneSucceeds /\ owner' = None /\ src' = src
<1>1. highWater' = highWater /\ owner' = None /\ src' = src /\ worker' = worker
  BY DEF Recover
<1>2. owner' \in Owner \cup {None} /\ SourceGrows
  BY <1>1, SameIsPlain
<1>3. Documented(None) /\ job' \in [Job -> JobDocument] /\ NoneSucceeds
  BY RecoverDocuments
<1>4. article' \in Article /\ NoNewText
  <2> DEFINE task == job[owner.job].task
  <2>1. CASE article' = article
    BY <2>1, SameIsPlain
  <2>2. ASSUME article' # article
        PROVE  article' \in Article /\ NoNewText
    <3>1. PICK status \in {"pending", "failed"} :
            task \in Purpose /\ article' = [article EXCEPT ![task] = Blank(status)]
      BY <2>2 DEF Recover
    <3> DEFINE a == Blank(status)
               p == task
    <3>2. a \in Artifact /\ a.status # "ready"
      BY BlankIsTyped
    <3>3. p \in Purpose /\ article' = [article EXCEPT ![p] = a]
      BY <3>1
    <3> HIDE DEF a, p
    <3>4. article \in Article
      BY DEF TypeInv, DocumentsOK
    <3>5. /\ article' \in Article /\ article'[p] = a
          /\ \A q \in Purpose \ {p} : article'[q] = article[q]
          /\ article'.status = article.status
      BY <3>2, <3>3, <3>4, ArticleIsTyped
    <3> QED BY <3>2, <3>5 DEF NoNewText
  <2> QED BY <2>1, <2>2
<1> QED BY <1>1, <1>2, <1>3, <1>4, SourceIsTyped, PlainGo

LEMMA AdminIsPlain ==
    ASSUME TypeInv, Documents, AdminStep
    PROVE  /\ Plain(None) /\ NoneSucceeds /\ owner' = owner
           /\ article' = article /\ src' = src /\ worker' = worker
<1>1. /\ highWater' = highWater /\ owner' = owner /\ src' = src /\ worker' = worker
      /\ article' = article
  BY DEF AdminStep, Cancel, Retry, Create, lease
<1>2. owner' \in Owner \cup {None} /\ SourceGrows /\ article' \in Article /\ NoNewText
  BY <1>1, SameIsPlain
<1>3. Documented(None) /\ job' \in [Job -> JobDocument] /\ NoneSucceeds
  BY AdminDocuments
<1> QED BY <1>1, <1>2, <1>3, SourceIsTyped, PlainGo

LEMMA IngestIsPlain ==
    ASSUME TypeInv, Views, Ingest
    PROVE  /\ Plain(SummaryText) /\ NoneSucceeds /\ owner' = owner /\ src' = src /\ worker' = worker
           /\ article'.summary = article.summary /\ article'.embedding = article.embedding
           /\ article'.status = article.status
<1>1. /\ highWater' = highWater /\ owner' = owner /\ src' = src /\ worker' = worker
  BY DEF Ingest, lease
<1>2. PICK content \in 1..MaxContent : article' = [article EXCEPT !.content = content]
  BY DEF Ingest
<1>3. article \in Article
  BY DEF TypeInv, DocumentsOK
<1>4. /\ article' \in Article /\ article'.status = article.status
      /\ article'.summary = article.summary /\ article'.embedding = article.embedding
  BY <1>2, <1>3 DEF Article
<1>5. NoNewText
  BY <1>4 DEF NoNewText, Purpose
<1>6. owner' \in Owner \cup {None} /\ SourceGrows
  BY <1>1, SameIsPlain
<1>7. Documented(SummaryText) /\ job' \in [Job -> JobDocument] /\ NoneSucceeds
  BY IngestDocuments
<1> QED BY <1>1, <1>4, <1>5, <1>6, <1>7, SourceIsTyped, PlainGo

LEMMA ModerationIsPlain ==
    ASSUME TypeInv, Hide \/ Cleanup
    PROVE  /\ Plain(None) /\ NoneSucceeds /\ owner' = owner /\ job' = job /\ src' = src
           /\ worker' = worker /\ article'.status # "published"
<1>1. /\ highWater' = highWater /\ owner' = owner /\ src' = src /\ worker' = worker
      /\ job' = job
  BY DEF Hide, Cleanup, lease
<1>2. article \in Article /\ Blank("removed") \in Artifact /\ Blank("removed").status # "ready"
  BY BlankIsTyped DEF TypeInv, DocumentsOK
<1>3. \E status \in {"hidden", "removed"},
         s \in {article.summary, Blank("removed")}, e \in {article.embedding, Blank("removed")} :
        article' = [article EXCEPT !.status = status, !.summary = s, !.embedding = e]
  <2>1. CASE Hide
    <3>1. article' = [article EXCEPT !.status = "hidden"]
      BY <2>1 DEF Hide
    <3>2. article' = [article EXCEPT !.status = "hidden", !.summary = article.summary,
                                     !.embedding = article.embedding]
      BY <1>2, <3>1 DEF Article
    <3> QED BY <3>2
  <2>2. CASE Cleanup
    <3>1. CASE article' = [article EXCEPT !.status = "removed", !.summary = Blank("removed"),
                                          !.embedding = Blank("removed")]
      BY <3>1
    <3>2. ASSUME NEW gone \in (SUBSET Purpose) \ {{}},
            article' = [article EXCEPT
              !.summary = IF "summary" \in gone THEN Blank("removed") ELSE article.summary,
              !.embedding = IF "embedding" \in gone THEN Blank("removed") ELSE article.embedding]
          PROVE  \E s \in {article.summary, Blank("removed")},
                    e \in {article.embedding, Blank("removed")} :
                   article' = [article EXCEPT !.status = "hidden", !.summary = s, !.embedding = e]
      <4> DEFINE s == IF "summary" \in gone THEN Blank("removed") ELSE article.summary
                 e == IF "embedding" \in gone THEN Blank("removed") ELSE article.embedding
      <4>1. article.status = "hidden"
        BY <2>2 DEF Cleanup
      <4>2. s \in {article.summary, Blank("removed")} /\ e \in {article.embedding, Blank("removed")}
        OBVIOUS
      <4>3. article' = [article EXCEPT !.summary = s, !.embedding = e]
        BY <3>2
      <4> HIDE DEF s, e
      <4>4. article' = [article EXCEPT !.status = "hidden", !.summary = s, !.embedding = e]
        BY <1>2, <4>1, <4>3 DEF Article
      <4> QED BY <4>2, <4>4
    <3> QED BY <2>2, <3>1, <3>2 DEF Cleanup
  <2> QED BY <2>1, <2>2
<1>4. PICK status \in {"hidden", "removed"},
         s \in {article.summary, Blank("removed")}, e \in {article.embedding, Blank("removed")} :
        article' = [article EXCEPT !.status = status, !.summary = s, !.embedding = e]
  BY <1>3
<1>5. article' \in Article /\ article'.status = status /\ article'.summary = s
      /\ article'.embedding = e
  BY <1>2, <1>4 DEF Article
<1>6. NoNewText
  BY <1>2, <1>5 DEF NoNewText, Purpose
<1>7. owner' \in Owner \cup {None} /\ SourceGrows /\ Documented(None) /\ NoneSucceeds
      /\ job' \in [Job -> JobDocument]
  BY <1>1, SameIsPlain
<1> QED BY <1>1, <1>5, <1>6, <1>7, SourceIsTyped, PlainGo

LEMMA SourceStepIsPlain ==
    ASSUME TypeInv, Documents, ReReview \/ Review \/ PauseOrActivate \/ Materialize
    PROVE  /\ Plain(None) /\ NoneSucceeds /\ owner' = owner /\ article' = article
           /\ worker' = worker
<1>1. /\ highWater' = highWater /\ owner' = owner /\ worker' = worker /\ article' = article
  BY DEF ReReview, Review, PauseOrActivate, Materialize, lease
<1>2. owner' \in Owner \cup {None} /\ article' \in Article /\ NoNewText
  BY <1>1, SameIsPlain
<1>3. Documented(None) /\ job' \in [Job -> JobDocument] /\ NoneSucceeds
  <2>1. CASE Materialize
    BY <2>1, AdminDocuments
  <2>2. CASE ReReview \/ Review \/ PauseOrActivate
    <3>1. job' = job
      BY <2>2 DEF ReReview, Review, PauseOrActivate, lease
    <3> QED BY <3>1, SameIsPlain
  <2> QED BY <2>1, <2>2
<1>4. /\ SourceGrows
      /\ src' \in [version: 1..MaxPolicy, active: BOOLEAN, licensed: BOOLEAN,
                   allows: SUBSET Purpose, marked: BOOLEAN]
  <2>1. /\ src \in [version: 1..MaxPolicy, active: BOOLEAN, licensed: BOOLEAN,
                    allows: SUBSET Purpose, marked: BOOLEAN]
        /\ src.version \in 1..MaxPolicy /\ src.version \in Int /\ MaxPolicy \in Nat
    BY BoundsAreNumbers DEF TypeInv, DocumentsOK
  <2>2. CASE ReReview \/ Review
    <3>1. src.version < MaxPolicy
      BY <2>2 DEF ReReview, Review
    <3>2. \E licensed \in BOOLEAN, allows \in SUBSET Purpose :
            src' = [version |-> src.version + 1, active |-> FALSE, licensed |-> licensed,
                    allows |-> allows, marked |-> TRUE]
      BY <2>2 DEF ReReview, Review
    <3>3. src.version + 1 \in 1..MaxPolicy
      BY <2>1, <3>1
    <3> QED BY <2>1, <3>2, <3>3 DEF SourceGrows
  <2>3. CASE PauseOrActivate
    <3>1. PICK active \in BOOLEAN : src' = [src EXCEPT !.active = active]
      BY <2>3 DEF PauseOrActivate
    <3>2. src'.version = src.version /\ src'.allows = src.allows
      BY <2>1, <3>1
    <3>3. src' \in [version: 1..MaxPolicy, active: BOOLEAN, licensed: BOOLEAN,
                    allows: SUBSET Purpose, marked: BOOLEAN]
      BY <2>1, <3>1
    <3> QED BY <2>1, <3>2, <3>3 DEF SourceGrows
  <2>4. CASE Materialize
    <3>1. src' = [src EXCEPT !.marked = FALSE]
      BY <2>4 DEF Materialize
    <3>2. src'.version = src.version /\ src'.allows = src.allows
      BY <2>1, <3>1
    <3>3. src' \in [version: 1..MaxPolicy, active: BOOLEAN, licensed: BOOLEAN,
                    allows: SUBSET Purpose, marked: BOOLEAN]
      BY <2>1, <3>1
    <3> QED BY <2>1, <3>2, <3>3 DEF SourceGrows
  <2> QED BY <2>2, <2>3, <2>4
<1> QED BY <1>1, <1>2, <1>3, <1>4, PlainGo

-----------------------------------------------------------------------------
(* The inductive invariant *)

\* Invocations whose copy of the attempt of j still lets them count one more.
Behind(j) == {w \in Worker : /\ worker[w].pc # "idle" /\ worker[w].job = j
                             /\ worker[w].attempt < MaxAttempts}

\* In-place increments are bounded: each takes an invocation that is behind.
AttemptsFit ==
    \A j \in Job :
        job[j].attempt + Cardinality(Behind(j)) <= MaxAttempts + Cardinality(Worker) - 1

\* No two invocations have one generation, and none is above the high-water mark.
Generations ==
    /\ \A w \in Worker : worker[w].gen <= highWater
    /\ \A v, w \in Worker : worker[v].gen # 0 /\ worker[v].gen = worker[w].gen => v = w

\* Job j can put no text on the article any more: it has ended, or it is the running
\* job of an invocation that neither executes nor can begin to.
Spent(j, jobs, workers) ==
    /\ jobs[j].status \notin {"unused", "queued"}
    /\ \A w \in Worker :
         workers[w].job = j /\ workers[w].gen = jobs[j].gen => ~Active(workers[w])
Written(j) == Spent(j, job, worker)

\* A text that is on the article, or in the identity of an embedding job, is of a job
\* that writes no more.
Texts ==
    /\ article.summary.status = "ready" =>
         article.summary.text \in Job /\ Written(article.summary.text)
    /\ \A j \in Job : job[j].made # None /\ job[j].made.text # None => Written(job[j].made.text)

\* No artifact is of a later policy than the source's.
Versions ==
    \A p \in Purpose : article[p].status = "ready" =>
        article[p].of \in Input /\ article[p].of.policy <= src.version

\* Invocation w, whose result is a success, may record it.
MayRecord(w) ==
    LET j == worker[w].job IN
    /\ worker[w].pc = "completing" /\ worker[w].result = "succeeded"
    /\ owner # None /\ owner.job = j /\ owner.gen = worker[w].gen
    /\ job[j].task \in Purpose /\ article.status = "published"

IsThere(p, version) ==
    /\ article[p].status = "ready" /\ article[p].of.policy = version
    /\ p = "embedding" => article[p].of.text = SummaryText

EarnedBy(j) == IsThere(job[j].task, job[j].policy)
Earned == \A w \in Worker, j \in Job : MayRecord(w) /\ worker[w].job = j => EarnedBy(j)

\* The embedding is behind the summary, whether or not its source is active now.
Lags ==
    /\ article.status = "published" /\ "embedding" \in src.allows
    /\ article.summary.status = "ready" /\ article.embedding.status = "ready"
    /\ article.embedding.of.policy = src.version /\ article.summary.of.policy = src.version
    /\ article.embedding.of.text # article.summary.text

Owes(j, text) == /\ job[j].task = "embedding" /\ job[j].status # "succeeded"
                 /\ job[j].made # None /\ job[j].made.text = text

Owed == Lags => \E j \in Job : Owes(j, article.summary.text)

CoreInv == /\ TypeInv /\ AttemptsFit /\ Generations /\ Documents /\ Texts /\ Versions
           /\ Earned /\ Owed

IInv == CoreInv /\ Views

\* Nobody begins: whoever is active was so before, with the same job and generation.
NoneBegins ==
    \A v \in Worker : Active(worker'[v]) =>
        Active(worker[v]) /\ worker'[v].job = worker[v].job /\ worker'[v].gen = worker[v].gen

LEMMA TurnsOthers ==
    ASSUME TypeInv, NEW w \in Worker, NEW u, Becomes(w, u)
    PROVE  worker'[w] = u /\ \A v \in Worker : v # w => worker'[v] = worker[v]
<1>1. worker \in [Worker -> WorkerState]
  BY DEF TypeInv, DocumentsOK
<1> QED BY <1>1 DEF Becomes

\* How every invocation fares in a plain step.
LEMMA PlainWorkers ==
    ASSUME TypeInv, NEW text, Plain(text)
    PROVE  \A v \in Worker : worker'[v] = worker[v] \/ Turn(worker[v], worker'[v])
<1>1. CASE worker' = worker
  BY <1>1
<1>2. ASSUME NEW w \in Worker, Turns(w)
      PROVE  \A v \in Worker : worker'[v] = worker[v] \/ Turn(worker[v], worker'[v])
  <2>1. PICK u : Turn(worker[w], u) /\ Becomes(w, u)
    BY <1>2 DEF Turns
  <2>2. worker'[w] = u /\ \A v \in Worker : v # w => worker'[v] = worker[v]
    BY <2>1, TurnsOthers
  <2> QED BY <2>1, <2>2
<1> QED BY <1>1, <1>2 DEF Plain

LEMMA PlainBeginsNone ==
    ASSUME TypeInv, NEW text, Plain(text)
    PROVE  NoneBegins
<1>1. \A v \in Worker : worker'[v] = worker[v] \/ Turn(worker[v], worker'[v])
  BY PlainWorkers
<1>2. ~Active(Idle)
  BY DEF Active, Idle
<1> QED BY <1>1, <1>2 DEF NoneBegins, Turn

LEMMA BehindIsFinite ==
    ASSUME NEW j
    PROVE  /\ IsFiniteSet(Behind(j)) /\ Cardinality(Behind(j)) \in Nat
           /\ Cardinality(Behind(j)) <= Cardinality(Worker)
<1>1. Behind(j) \in SUBSET Worker
  BY DEF Behind
<1>2. IsFiniteSet(Behind(j)) /\ Cardinality(Behind(j)) <= Cardinality(Worker)
  BY <1>1, BoundsAreNumbers, FS_Subset
<1> QED BY <1>2, FS_CardinalityType

LEMMA NobodyIsBehindUnused ==
    ASSUME TypeInv, NEW j \in Job, job[j].status = "unused"
    PROVE  Behind(j) = {}
<1>1. \A w \in Worker : worker[w].pc # "idle" => job[worker[w].job].status # "unused"
  BY NamesAJob, UnderWay
<1> QED BY <1>1 DEF Behind

\* A step in which nobody selects keeps AttemptsFit, deferring aside.
LEMMA AttemptsStayFit ==
    ASSUME TypeInv, AttemptsFit, DocumentsOK', NEW text, Documented(text),
           \A j \in Job : Behind(j)' \subseteq Behind(j)
    PROVE  AttemptsFit'
<1> SUFFICES ASSUME NEW j \in Job
             PROVE  job'[j].attempt + Cardinality(Behind(j)')
                      <= MaxAttempts + Cardinality(Worker) - 1
  BY DEF AttemptsFit
<1>1. /\ Cardinality(Behind(j)) \in Nat /\ Cardinality(Behind(j)') \in Nat
      /\ Cardinality(Behind(j)') <= Cardinality(Behind(j))
  <2>1. IsFiniteSet(Behind(j)) /\ Behind(j)' \in SUBSET Behind(j)
    BY BehindIsFinite
  <2>2. IsFiniteSet(Behind(j)') /\ Cardinality(Behind(j)') <= Cardinality(Behind(j))
    BY <2>1, FS_Subset
  <2> QED BY <2>1, <2>2, FS_CardinalityType
<1>2. /\ job[j].attempt \in Int /\ job'[j].attempt \in Int
      /\ job[j].attempt + Cardinality(Behind(j)) <= MaxAttempts + Cardinality(Worker) - 1
  <2>1. job[j] \in JobDocument /\ job'[j] \in JobDocument
    BY DEF TypeInv, DocumentsOK
  <2> QED BY <2>1, DocumentFields, BoundsAreNumbers DEF Attempts, AttemptsFit
<1>3. CASE job'[j].attempt = job[j].attempt
  BY <1>1, <1>2, <1>3, BoundsAreNumbers
<1>4. CASE job[j].status = "unused" /\ Fresh(job'[j], text)
  <2>1. Behind(j) = {} /\ Behind(j)' = {}
    BY <1>4, NobodyIsBehindUnused
  <2>2. Cardinality(Behind(j)') = 0
    BY <2>1, FS_EmptySet
  <2>3. job'[j].attempt \in 1..MaxAttempts
    BY <1>4 DEF Fresh
  <2> QED BY <2>2, <2>3, BoundsAreNumbers
<1> QED BY <1>3, <1>4 DEF Documented, Kept

LEMMA PlainAttempts ==
    ASSUME TypeInv, AttemptsFit, NEW text, Plain(text)
    PROVE  AttemptsFit'
<1>1. \A v \in Worker : worker'[v] = worker[v] \/ Turn(worker[v], worker'[v])
  BY PlainWorkers
<1>2. \A j \in Job : Behind(j)' \subseteq Behind(j)
  <2> SUFFICES ASSUME NEW j \in Job, NEW v \in Worker, worker'[v].pc # "idle",
                      worker'[v].job = j, worker'[v].attempt < MaxAttempts
               PROVE  v \in Behind(j)
    BY DEF Behind
  <2>1. worker'[v] = worker[v] \/ Turn(worker[v], worker'[v])
    BY <1>1
  <2>2. worker'[v] # Idle
    BY DEF Idle
  <2> QED BY <2>1, <2>2 DEF Behind, Turn
<1> QED BY <1>2, AttemptsStayFit DEF Plain, TypeInv

LEMMA PlainGenerations ==
    ASSUME TypeInv, Generations, NEW text, Plain(text)
    PROVE  Generations'
<1>1. \A v \in Worker : worker'[v].gen = worker[v].gen \/ worker'[v].gen = 0
  BY PlainWorkers DEF Turn, Idle
<1>2. highWater' = highWater /\ highWater \in Nat
  BY BoundsAreNumbers DEF Plain, TypeInv, DocumentsOK
<1> QED BY <1>1, <1>2 DEF Generations

\* Documents, for every step that does not defer.
LEMMA DocumentsStay ==
    ASSUME TypeInv, DocumentsOK', Documents, NEW text, Documented(text),
           highWater' >= highWater, src'.version >= src.version
    PROVE  Documents'
<1> SUFFICES ASSUME NEW j \in Job
             PROVE  /\ job'[j].status = "unused" => job'[j] = NoDocument
                    /\ job'[j].policy <= src'.version
                    /\ job'[j].gen <= highWater'
                    /\ job'[j].cancel => job'[j].status # "queued"
  BY DEF Documents
<1>1. /\ highWater \in Int /\ highWater' \in Int /\ src.version \in Int /\ src'.version \in Int
      /\ job[j].policy \in Int /\ job[j].gen \in Int
      /\ job'[j].policy \in Int /\ job'[j].gen \in Int
  <2>1. job[j] \in JobDocument /\ job'[j] \in JobDocument
    BY DEF TypeInv, DocumentsOK
  <2>2. highWater \in Int /\ highWater' \in Int /\ src.version \in Int /\ src'.version \in Int
    BY DEF TypeInv, DocumentsOK
  <2> QED BY <2>1, <2>2, DocumentFields
<1>2. CASE job'[j] = job[j]
  BY <1>1, <1>2 DEF Documents
<1>3. CASE Kept(job[j], job'[j])
  BY <1>1, <1>3 DEF Documents, Kept
<1>4. CASE Fresh(job'[j], text)
  <2>1. 0 <= highWater
    BY BoundsAreNumbers DEF TypeInv, DocumentsOK
  <2> QED BY <1>1, <1>4, <2>1 DEF Fresh
<1> QED BY <1>2, <1>3, <1>4 DEF Documented

\* Who has written writes no more.
LEMMA WrittenStays ==
    ASSUME NEW j \in Job, Written(j), NoneBegins, NEW text, Documented(text)
    PROVE  Spent(j, job', worker')
<1>1. job[j].status \notin {"unused", "queued"}
  BY DEF Written, Spent
<1>2. job'[j].status \notin {"unused", "queued"} /\ job'[j].gen = job[j].gen
  BY <1>1 DEF Documented, Kept
<1>3. ASSUME NEW v \in Worker, worker'[v].job = j, worker'[v].gen = job'[j].gen
      PROVE  ~Active(worker'[v])
  BY <1>2, <1>3 DEF NoneBegins, Written, Spent
<1> QED BY <1>2, <1>3 DEF Spent

\* What the identities say, when the new one is of a text that is written.
LEMMA MadeTexts ==
    ASSUME TypeInv, DocumentsOK', Texts, NEW text, Documented(text),
           text # None => Spent(text, job', worker'),
           \A j \in Job : Written(j) => Spent(j, job', worker')
    PROVE  \A j \in Job : job'[j].made # None /\ job'[j].made.text # None =>
               Spent(job'[j].made.text, job', worker')
<1> SUFFICES ASSUME NEW j \in Job, job'[j].made # None, job'[j].made.text # None
             PROVE  Spent(job'[j].made.text, job', worker')
  OBVIOUS
<1>1. CASE job'[j].made = job[j].made
  <2> DEFINE t == job[j].made.text
  <2>1. job[j].made \in Input
    <3>1. job[j] \in JobDocument
      BY DEF TypeInv, DocumentsOK
    <3> QED BY <1>1, <3>1, DocumentFields
  <2>2. t \in Job /\ Written(t)
    BY <1>1, <2>1 DEF Texts, Input
  <2>3. job'[j].made.text = t
    BY <1>1
  <2> HIDE DEF t
  <2>4. Spent(t, job', worker')
    BY <2>2
  <2> QED BY <2>3, <2>4
<1>2. CASE Fresh(job'[j], text)
  <2>1. job'[j].made.text = text
    BY <1>2 DEF Fresh
  <2>2. text # None /\ Spent(text, job', worker')
    BY <2>1
  <2> QED BY <2>1, <2>2
<1> QED BY <1>1, <1>2 DEF Documented, Kept

LEMMA ArtifactFields ==
    ASSUME DocumentsOK, NEW p \in Purpose
    PROVE  /\ article[p].of \in Input \cup {None} /\ article[p].text \in Job \cup {None}
           /\ article[p] \in Artifact
BY DEF DocumentsOK, Article, Artifact, Purpose

LEMMA PlainTexts ==
    ASSUME TypeInv, Texts, NEW text, Plain(text), text # None => text \in Job /\ Written(text)
    PROVE  Texts'
<1>1. DocumentsOK' /\ Documented(text) /\ NoneBegins
  BY PlainBeginsNone DEF Plain, TypeInv
<1>2. \A j \in Job : Written(j) => Spent(j, job', worker')
  BY <1>1, WrittenStays
<1>3. \A j \in Job : job'[j].made # None /\ job'[j].made.text # None =>
               Spent(job'[j].made.text, job', worker')
  BY <1>1, <1>2, MadeTexts
<1>4. ASSUME article'.summary.status = "ready"
      PROVE  article'.summary.text \in Job /\ Spent(article'.summary.text, job', worker')
  <2>1. article'["summary"] = article["summary"]
    BY <1>4 DEF Plain, NoNewText, Purpose
  <2>2. article.summary.text \in Job /\ Written(article.summary.text)
    BY <1>4, <2>1 DEF Texts
  <2> QED BY <2>1, <2>2, <1>2
<1> QED BY <1>3, <1>4 DEF Texts, Written

LEMMA PlainVersions ==
    ASSUME TypeInv, Versions, NEW text, Plain(text)
    PROVE  Versions'
<1> SUFFICES ASSUME NEW p \in Purpose, article'[p].status = "ready"
             PROVE  article'[p].of \in Input /\ article'[p].of.policy <= src'.version
  BY DEF Versions
<1>1. article'[p] = article[p]
  BY DEF Plain, NoNewText
<1>2. article[p].of \in Input /\ article[p].of.policy <= src.version
  BY <1>1 DEF Versions
<1>3. article[p].of.policy \in Int /\ src.version \in Int /\ src'.version \in Int
  BY <1>2 DEF Input, TypeInv, DocumentsOK, Plain
<1> QED BY <1>1, <1>2, <1>3 DEF Plain, SourceGrows

\* An embedding that lags after a plain step lagged before it, behind the same text.
LEMMA LaggedBefore ==
    ASSUME TypeInv, Versions, NEW text, Plain(text), Lags'
    PROVE  Lags /\ article'.summary = article.summary /\ article'.embedding = article.embedding
<1>1. article'["summary"] = article["summary"] /\ article'["embedding"] = article["embedding"]
  BY DEF Plain, NoNewText, Purpose, Lags
<1>2. article.status = "published"
  BY DEF Plain, NoNewText, Lags
<1>3. article.embedding.of.policy <= src.version /\ article.embedding.of.policy = src'.version
  BY <1>1 DEF Versions, Purpose, Lags
<1>4. src.version \in Int /\ src'.version \in Int
  BY DEF TypeInv, DocumentsOK, Plain
<1>5. src'.version = src.version /\ src'.allows = src.allows
  BY <1>3, <1>4 DEF Plain, SourceGrows
<1> QED BY <1>1, <1>2, <1>5 DEF Lags

\* A document that owes the embedding goes on owing it, unless it succeeds.
LEMMA OwesStays ==
    ASSUME NEW j \in Job, NEW text, Owes(j, text), Documents, NEW other, Documented(other),
           job'[j].status # "succeeded"
    PROVE  job'[j].task = "embedding" /\ job'[j].made # None /\ job'[j].made.text = text
<1>1. job[j].status # "unused"
  <2>1. job[j].made # None
    BY DEF Owes
  <2> QED BY <2>1 DEF Documents, NoDocument
<1>2. job'[j].task = job[j].task /\ job'[j].made = job[j].made
  BY <1>1 DEF Documented, Kept
<1> QED BY <1>2 DEF Owes

LEMMA PlainOwed ==
    ASSUME TypeInv, Versions, Documents, Owed, NEW text, Plain(text), NoneSucceeds
    PROVE  Owed'
<1> SUFFICES ASSUME Lags'
             PROVE  \E j \in Job : /\ job'[j].task = "embedding" /\ job'[j].status # "succeeded"
                                   /\ job'[j].made # None
                                   /\ job'[j].made.text = article'.summary.text
  BY DEF Owed, Owes
<1>1. Lags /\ article'.summary = article.summary
  BY LaggedBefore
<1>2. PICK j \in Job : Owes(j, article.summary.text)
  BY <1>1 DEF Owed
<1>3. job'[j].status # "succeeded"
  BY <1>2 DEF Owes, NoneSucceeds
<1> DEFINE t == article.summary.text
<1>4. Owes(j, t) /\ Documented(text)
  BY <1>2 DEF Plain
<1> HIDE DEF t
<1>5. job'[j].task = "embedding" /\ job'[j].made # None /\ job'[j].made.text = t
  BY <1>3, <1>4, OwesStays
<1> QED BY <1>1, <1>3, <1>5 DEF t

\* A plain step keeps everything but what is earned, if the identities it makes are of
\* a text that is written and no job succeeds in it.
LEMMA PlainKeeps ==
    ASSUME CoreInv, NEW text, Plain(text), text # None => text \in Job /\ Written(text)
    PROVE  /\ TypeInv' /\ AttemptsFit' /\ Generations' /\ Documents' /\ Texts' /\ Versions'
           /\ NoneSucceeds => Owed'
<1>1. TypeInv /\ AttemptsFit /\ Generations /\ Documents /\ Texts /\ Versions /\ Owed
  BY DEF CoreInv
<1>2. TypeInv' /\ AttemptsFit' /\ Generations' /\ Texts' /\ Versions'
  BY <1>1, PlainAttempts, PlainGenerations, PlainTexts, PlainVersions DEF Plain
<1>3. Documents'
  <2>1. DocumentsOK' /\ Documented(text) /\ src'.version >= src.version /\ highWater' >= highWater
    BY <1>1 DEF Plain, SourceGrows, TypeInv, DocumentsOK
  <2> QED BY <1>1, <2>1, DocumentsStay
<1>4. NoneSucceeds => Owed'
  BY <1>1, PlainOwed
<1> QED BY <1>2, <1>3, <1>4
-----------------------------------------------------------------------------
(* What a success has earned *)

Succeeded(v) == v.pc = "completing" /\ v.result = "succeeded"

\* No invocation comes to hold a success in the step.
NoNewSuccess == \A v \in Worker : Succeeded(worker'[v]) => Succeeded(worker[v])

LEMMA FinishIsNoSuccess ==
    ASSUME TypeInv, NEW w \in Worker, NEW result \in Results \ {"succeeded"}, Finish(w, result)
    PROVE  NoNewSuccess
<1>1. worker \in [Worker -> WorkerState]
  BY DEF TypeInv, DocumentsOK
<1>2. \A v \in Worker : v # w => worker'[v] = worker[v]
  BY <1>1 DEF Finish
<1>3. \/ worker'[w] = Idle
      \/ worker'[w] = [worker[w] EXCEPT !.exec = "off", !.input = None]
      \/ \E pc : worker'[w] = [worker[w] EXCEPT !.exec = "off", !.input = None,
                                                !.result = result, !.pc = pc]
  BY <1>1 DEF Finish
<1>4. Succeeded(worker'[w]) => Succeeded(worker[w])
  <2> DEFINE off == [worker[w] EXCEPT !.exec = "off", !.input = None]
  <2>1. worker[w] \in WorkerState
    BY <1>1
  <2>2. off.pc = worker[w].pc /\ off.result = worker[w].result
    BY <2>1 DEF WorkerState
  <2>3. \A pc : [worker[w] EXCEPT !.exec = "off", !.input = None, !.result = result,
                                  !.pc = pc].result = result
    BY <2>1 DEF WorkerState
  <2>4. Idle.pc = "idle"
    BY DEF Idle
  <2> QED BY <1>3, <2>2, <2>3, <2>4 DEF Succeeded
<1> QED BY <1>2, <1>4 DEF NoNewSuccess

LEMMA ReturnIsNoSuccess ==
    ASSUME TypeInv, NEW w \in Worker,
           Return(w) \/ \E u : Becomes(w, u) /\ ~Succeeded(u)
    PROVE  NoNewSuccess
<1>1. worker \in [Worker -> WorkerState]
  BY DEF TypeInv, DocumentsOK
<1>2. \A v \in Worker : v # w => worker'[v] = worker[v]
  BY <1>1 DEF Return, Becomes
<1>3. ~Succeeded(worker'[w])
  <2>1. CASE Return(w)
    <3>1. worker[w] \in WorkerState
      BY <1>1
    <3> DEFINE u == [worker[w] EXCEPT !.pc = "idle", !.aborted = TRUE, !.result = "failed"]
    <3>2. worker'[w] = Idle \/ worker'[w] = u
      BY <1>1, <2>1 DEF Return
    <3>3. Idle.pc = "idle" /\ u.pc = "idle"
      BY <3>1 DEF Idle, WorkerState
    <3> HIDE DEF u
    <3> QED BY <3>2, <3>3 DEF Succeeded
  <2>2. CASE \E u : Becomes(w, u) /\ ~Succeeded(u)
    BY <1>1, <2>2 DEF Becomes
  <2> QED BY <2>1, <2>2
<1> QED BY <1>2, <1>3 DEF NoNewSuccess

\* Who may record a success after a plain step, and held it before, could before.
LEMMA MayRecordBefore ==
    ASSUME TypeInv, Documents, NEW text, Plain(text), OwnerKept,
           NEW v \in Worker, MayRecord(v)', Succeeded(worker[v])
    PROVE  /\ MayRecord(v)
           /\ worker'[v].job = worker[v].job /\ worker[v].job \in Job
           /\ job'[worker[v].job].task = job[worker[v].job].task
           /\ job'[worker[v].job].policy = job[worker[v].job].policy
<1> DEFINE j == worker[v].job
<1>1. worker'[v].pc = "completing" /\ worker'[v] # Idle
  BY DEF MayRecord, Idle
<1>2. worker'[v].job = j /\ worker'[v].gen = worker[v].gen
  BY <1>1, PlainWorkers DEF Turn
<1>3. j \in Job /\ job[j].status # "unused"
  BY NamesAJob, UnderWay DEF Succeeded
<1>4. job'[j].task = job[j].task /\ job'[j].policy = job[j].policy
  BY <1>3 DEF Plain, Documented, Kept
<1>5. /\ owner # None /\ owner.job = j /\ owner.gen = worker[v].gen
  BY <1>2 DEF MayRecord, OwnerKept
<1>6. article.status = "published" /\ job[j].task \in Purpose
  BY <1>2, <1>4 DEF MayRecord, Plain, NoNewText
<1> QED BY <1>2, <1>3, <1>4, <1>5, <1>6 DEF MayRecord, Succeeded

\* What is earned stays so while the article's artifacts and the job are the same.
LEMMA EarnedByStays ==
    ASSUME NEW j, EarnedBy(j), job[j].task \in Purpose,
           article'.summary = article.summary, article'.embedding = article.embedding,
           job'[j].task = job[j].task, job'[j].policy = job[j].policy
    PROVE  EarnedBy(j)'
<1>1. \A p \in Purpose : \A version : IsThere(p, version) => IsThere(p, version)'
  BY DEF IsThere, SummaryText, Purpose
<1>2. PICK p \in Purpose : p = job[j].task
  OBVIOUS
<1>3. PICK version : version = job[j].policy
  OBVIOUS
<1>4. IsThere(p, version)'
  BY <1>1, <1>2, <1>3 DEF EarnedBy
<1> QED BY <1>2, <1>3, <1>4 DEF EarnedBy

\* A plain step that leaves the artifacts alone and brings no success.
LEMMA EarnedStays ==
    ASSUME TypeInv, Documents, Earned, NEW text, Plain(text), OwnerKept, NoNewSuccess,
           article'.summary = article.summary, article'.embedding = article.embedding
    PROVE  Earned'
<1> SUFFICES ASSUME NEW v \in Worker, NEW j \in Job, MayRecord(v)', worker'[v].job = j
             PROVE  EarnedBy(j)'
  BY DEF Earned
<1>1. Succeeded(worker[v])
  BY DEF NoNewSuccess, Succeeded, MayRecord
<1>2. /\ MayRecord(v) /\ worker[v].job = j
      /\ job'[j].task = job[j].task /\ job'[j].policy = job[j].policy
  BY <1>1, MayRecordBefore
<1>3. EarnedBy(j) /\ job[j].task \in Purpose
  BY <1>2 DEF Earned, MayRecord
<1> QED BY <1>2, <1>3, EarnedByStays

\* The processor blanks an artifact only as the owner, and then nobody else may record.
LEMMA EarnedWhenBlanked ==
    ASSUME TypeInv, Documents, Generations, Earned, NEW w \in Worker,
           Mark(w) \/ ProviderFails(w) \/ AnswerCancelled(w) \/ Reconcile(w)
    PROVE  Earned'
<1>1. /\ Plain(None) /\ owner' = owner /\ job' = job /\ src' = src
      /\ article' = article \/ (Owns(w) /\ worker[w].exec # "off")
  BY BlankingIsPlain
<1>2. OwnerKept
  BY <1>1 DEF OwnerKept
<1>3. worker \in [Worker -> WorkerState] /\ Shape(worker[w], job)
  BY DEF TypeInv, DocumentsOK
<1>4. \A v \in Worker : v # w => worker'[v] = worker[v]
  BY <1>3 DEF Mark, ProviderFails, AnswerCancelled, Reconcile, Finish
<1>5. MayRecord(w)' => Succeeded(worker[w])
  <2>1. CASE Reconcile(w)
    <3>1. job[worker[w].job].task = "visibility-reconcile" /\ worker[w].exec = "reconcile"
      BY <1>3, <2>1 DEF Reconcile, Shape
    <3>2. MayRecord(w)' => worker'[w].job = worker[w].job
      BY <1>1, PlainWorkers DEF Turn, MayRecord, Idle
    <3>3. MayRecord(w)' => job'[worker[w].job].task \in Purpose
      BY <3>2 DEF MayRecord
    <3> QED BY <1>1, <3>1, <3>3 DEF Purpose
  <2>2. CASE Mark(w) /\ worker[w].exec = "mark"
             /\ worker' = [worker EXCEPT ![w].exec = "provider"]
    <3>1. worker'[w] = [worker[w] EXCEPT !.exec = "provider"]
      BY <1>3, <2>2
    <3>2. worker'[w].pc = worker[w].pc /\ worker'[w].result = worker[w].result
      BY <1>3, <3>1 DEF WorkerState
    <3> QED BY <3>2 DEF MayRecord, Succeeded
  <2>3. ASSUME NEW result \in Results \ {"succeeded"}, Finish(w, result)
        PROVE  MayRecord(w)' => Succeeded(worker[w])
    BY <2>3, FinishIsNoSuccess DEF NoNewSuccess, MayRecord, Succeeded
  <2>4. \/ Reconcile(w)
        \/ Mark(w) /\ worker[w].exec = "mark" /\ worker' = [worker EXCEPT ![w].exec = "provider"]
        \/ \E result \in Results \ {"succeeded"} : Finish(w, result)
    BY DEF Mark, ProviderFails, AnswerCancelled, Results
  <2> QED BY <2>1, <2>2, <2>3, <2>4
<1> SUFFICES ASSUME NEW v \in Worker, NEW j \in Job, MayRecord(v)', worker'[v].job = j
             PROVE  EarnedBy(j)'
  BY DEF Earned
<1>6. Succeeded(worker[v])
  BY <1>4, <1>5 DEF Succeeded, MayRecord
<1>7. MayRecord(v) /\ worker[v].job = j
  BY <1>1, <1>2, <1>6, MayRecordBefore
<1>8. article' = article
  <2>1. SUFFICES ASSUME Owns(w), worker[w].exec # "off" PROVE FALSE
    BY <1>1
  <2>2. worker[v].gen = owner.gen /\ worker[w].gen = owner.gen /\ owner \in Owner
    BY <1>7, <2>1 DEF MayRecord, Owns, Fenced, TypeInv, DocumentsOK
  <2>3. owner.gen # 0
    BY <2>2, BoundsAreNumbers DEF Owner
  <2>4. v = w
    BY <2>2, <2>3 DEF Generations
  <2> QED BY <1>3, <1>6, <2>1, <2>4 DEF Shape, Succeeded
<1>9. EarnedBy(j) /\ job[j].task \in Purpose
  BY <1>7 DEF Earned, MayRecord
<1> QED BY <1>1, <1>8, <1>9, EarnedByStays

LEMMA CaptureEarns ==
    ASSUME TypeInv, Documents, Earned, NEW w \in Worker, Capture(w)
    PROVE  Earned'
<1> DEFINE task == job[worker[w].job].task
<1>1. /\ Plain(None) /\ owner' \in {owner, None} /\ job' = job /\ src' = src
      /\ article' = article
  BY WorkerStepIsPlain
<1>2. OwnerKept /\ worker \in [Worker -> WorkerState] /\ owner' = owner
  BY <1>1 DEF OwnerKept, Capture, lease, TypeInv, DocumentsOK
<1>3. \/ NoNewSuccess
      \/ /\ Finish(w, "succeeded") /\ task \in Purpose
         /\ article[task].status = "ready" /\ article[task].of = InputNow(task)
         /\ job[worker[w].job].policy = src.version
  <2>1. ASSUME NEW u, Becomes(w, u),
               \/ u = [worker[w] EXCEPT !.exec = "reconcile"]
               \/ u = [worker[w] EXCEPT !.exec = "mark", !.input = InputNow(task)]
        PROVE  NoNewSuccess
    <3>1. u.pc = worker[w].pc /\ u.result = worker[w].result
      BY <1>2, <2>1 DEF WorkerState
    <3>2. worker'[w] = u /\ \A v \in Worker : v # w => worker'[v] = worker[v]
      BY <2>1, TurnsOthers
    <3> QED BY <3>1, <3>2 DEF NoNewSuccess, Succeeded
  <2>2. ASSUME Finish(w, "failed") PROVE NoNewSuccess
    BY <2>2, FinishIsNoSuccess DEF Results
  <2>3. \/ Finish(w, "failed")
        \/ Becomes(w, [worker[w] EXCEPT !.exec = "reconcile"])
        \/ Becomes(w, [worker[w] EXCEPT !.exec = "mark", !.input = InputNow(task)])
        \/ /\ Finish(w, "succeeded") /\ task \in Purpose
           /\ article[task].status = "ready" /\ article[task].of = InputNow(task)
           /\ job[worker[w].job].policy = src.version
    BY DEF Capture, Becomes
  <2> QED BY <2>1, <2>2, <2>3
<1>4. CASE NoNewSuccess
  BY <1>1, <1>2, <1>4, EarnedStays
<1>5. CASE /\ Finish(w, "succeeded") /\ task \in Purpose
           /\ article[task].status = "ready" /\ article[task].of = InputNow(task)
           /\ job[worker[w].job].policy = src.version
  <2> SUFFICES ASSUME NEW v \in Worker, NEW j \in Job, MayRecord(v)', worker'[v].job = j
               PROVE  EarnedBy(j)'
    BY DEF Earned
  <2>1. EarnedBy(j) /\ job[j].task \in Purpose
    <3>1. CASE v # w
      <4>1. worker'[v] = worker[v]
        BY <1>2, <1>5, <3>1 DEF Finish
      <4>2. MayRecord(v) /\ worker[v].job = j
        BY <1>1, <1>2, <4>1 DEF MayRecord
      <4> QED BY <4>2 DEF Earned, MayRecord
    <3>2. CASE v = w
      <4>1. worker[w].job = j
        BY <1>1, <3>2, PlainWorkers DEF Turn, MayRecord, Idle
      <4>2. InputNow(task).policy = src.version
        BY InputsAreTyped DEF TypeInv
      <4> QED BY <1>5, <4>1, <4>2 DEF EarnedBy, IsThere, InputNow, InputUnder
    <3> QED BY <3>1, <3>2
  <2> QED BY <1>1, <2>1, EarnedByStays
<1> QED BY <1>3, <1>4, <1>5

\* Every plain step of an invocation.
LEMMA WorkerStepEarns ==
    ASSUME TypeInv, Documents, Earned, NEW w \in Worker,
           \/ NotAdmitted(w) \/ ClaimFails(w) \/ Release(w) \/ Start(w) \/ DeadlineFires(w)
           \/ HeartbeatLost(w) \/ Unresolved(w) \/ Crash(w)
           \/ Abandon(w) \/ Capture(w) \/ AnswerStale(w)
    PROVE  Earned'
<1>1. /\ Plain(None) /\ owner' \in {owner, None} /\ article' = article
  BY WorkerStepIsPlain
<1>2. OwnerKept
  BY <1>1 DEF OwnerKept
<1>3. worker \in [Worker -> WorkerState]
  BY DEF TypeInv, DocumentsOK
<1>4. CASE Capture(w)
  BY <1>4, CaptureEarns
<1>5. CASE Abandon(w) \/ AnswerStale(w)
  <2>1. Finish(w, "failed")
    BY <1>5 DEF Abandon, AnswerStale
  <2>2. NoNewSuccess
    BY <2>1, FinishIsNoSuccess DEF Results
  <2> QED BY <1>1, <1>2, <2>2, EarnedStays
<1>6. CASE Release(w) \/ HeartbeatLost(w) \/ Unresolved(w)
  <2>1. Return(w)
    BY <1>6 DEF Release, HeartbeatLost, Unresolved
  <2>2. NoNewSuccess
    BY <2>1, ReturnIsNoSuccess
  <2> QED BY <1>1, <1>2, <2>2, EarnedStays
<1>7. CASE NotAdmitted(w) \/ ClaimFails(w) \/ Start(w) \/ DeadlineFires(w) \/ Crash(w)
  <2> DEFINE v == worker[w]
             released == [v EXCEPT !.pc = "releasing"]
             cancelled == [v EXCEPT !.pc = "completing", !.result = "cancelled"]
             started == [v EXCEPT !.pc = "running", !.exec = "capture"]
             late == [v EXCEPT !.pc = "completing", !.aborted = TRUE, !.result = "failed"]
  <2>1. \E u \in {Idle, released, cancelled, started, late} : Becomes(w, u)
    BY <1>7 DEF NotAdmitted, ClaimFails, Start, DeadlineFires, Crash, Becomes, Go
  <2>2. /\ Idle.pc = "idle" /\ released.pc = "releasing" /\ cancelled.result = "cancelled"
        /\ started.pc = "running" /\ late.result = "failed"
    BY <1>3 DEF Idle, WorkerState
  <2> HIDE DEF released, cancelled, started, late
  <2>3. \E u : Becomes(w, u) /\ ~Succeeded(u)
    BY <2>1, <2>2 DEF Succeeded
  <2>4. NoNewSuccess
    BY <2>3, ReturnIsNoSuccess
  <2> QED BY <1>1, <1>2, <2>4, EarnedStays
<1> QED BY <1>4, <1>5, <1>6, <1>7

\* Steps after which nobody can record: the article is free, or not visible.
LEMMA NobodyMayRecord ==
    ASSUME owner' = None \/ article'.status # "published"
    PROVE  Earned'
BY DEF Earned, MayRecord

\* Steps of nobody's invocation.
LEMMA OtherStepsEarn ==
    ASSUME TypeInv, Views, Documents, Earned,
           \/ Expire \/ Recover \/ AdminStep \/ Ingest \/ Hide \/ Cleanup
           \/ ReReview \/ Review \/ PauseOrActivate \/ Materialize
    PROVE  Earned'
<1>1. ASSUME NEW text, Plain(text), OwnerKept, worker' = worker,
             article'.summary = article.summary, article'.embedding = article.embedding
      PROVE  Earned'
  <2>1. NoNewSuccess
    BY <1>1 DEF NoNewSuccess
  <2> QED BY <1>1, <2>1, EarnedStays
<1>2. CASE Recover
  BY <1>2, RecoverIsPlain, NobodyMayRecord
<1>3. CASE Hide \/ Cleanup
  BY <1>3, ModerationIsPlain, NobodyMayRecord
<1>4. CASE Expire
  <2>1. Plain(None) /\ OwnerKept /\ article' = article /\ worker' = worker
    BY <1>4, ExpireIsPlain DEF Expire
  <2> QED BY <1>1, <2>1
<1>5. CASE AdminStep
  <2>1. Plain(None) /\ OwnerKept /\ article' = article /\ worker' = worker
    BY <1>5, AdminIsPlain DEF OwnerKept
  <2> QED BY <1>1, <2>1
<1>6. CASE Ingest
  <2>1. /\ Plain(SummaryText) /\ OwnerKept /\ worker' = worker
        /\ article'.summary = article.summary /\ article'.embedding = article.embedding
    BY <1>6, IngestIsPlain DEF OwnerKept
  <2> DEFINE text == SummaryText
  <2>2. Plain(text)
    BY <2>1
  <2> HIDE DEF text
  <2> QED BY <1>1, <2>1, <2>2
<1>7. CASE ReReview \/ Review \/ PauseOrActivate \/ Materialize
  <2>1. Plain(None) /\ OwnerKept /\ article' = article /\ worker' = worker
    BY <1>7, SourceStepIsPlain DEF OwnerKept
  <2> QED BY <1>1, <2>1
<1> QED BY <1>2, <1>3, <1>4, <1>5, <1>6, <1>7

-----------------------------------------------------------------------------
(* Plain steps keep the invariant *)

\* A completion makes a success of a result that is one.
LEMMA SucceedsByResult ==
    ASSUME TypeInv, NEW w \in Worker, Complete(w), worker[w].job \in Job,
           job'[worker[w].job].status = "succeeded"
    PROVE  worker[w].result = "succeeded"
<1> DEFINE j == worker[w].job
           result == worker[w].result
<1>1. PICK stale \in BOOLEAN, retryable \in BOOLEAN :
        job' = [job EXCEPT
          ![j].status = IF stale \/ result \notin {"succeeded", "cancelled"} THEN "failed"
                        ELSE result,
          ![j].retryable = retryable]
  BY DEF Complete
<1> DEFINE status == IF stale \/ result \notin {"succeeded", "cancelled"} THEN "failed" ELSE result
<1>2. status = "succeeded" => result = "succeeded"
  OBVIOUS
<1>3. job' = [job EXCEPT ![j].status = status, ![j].retryable = retryable]
  BY <1>1
<1> HIDE DEF status
<1>4. job[j] \in JobDocument /\ job \in [Job -> JobDocument]
  BY DEF TypeInv, DocumentsOK
<1>5. job'[j].status = status
  BY <1>3, <1>4 DEF JobDocument
<1> QED BY <1>2, <1>5

\* Who records a success of the embedding leaves no embedding behind its summary.
LEMMA CompleteKeepsOwed ==
    ASSUME TypeInv, Documents, Versions, Earned, Owed, NEW w \in Worker, Complete(w)
    PROVE  Owed'
<1> DEFINE j == worker[w].job
<1>1. Plain(None) /\ article' = article
  BY CompleteIsPlain DEF Complete
<1>2. /\ \A k \in Job : k # j => job'[k] = job[k]
      /\ job \in [Job -> JobDocument] /\ j \in Job
  BY CompleteDocuments, NamesAJob, UnderWay DEF Complete, Is, TypeInv, DocumentsOK
<1> SUFFICES ASSUME Lags'
             PROVE  \E k \in Job : /\ job'[k].task = "embedding" /\ job'[k].status # "succeeded"
                                   /\ job'[k].made # None
                                   /\ job'[k].made.text = article'.summary.text
  BY DEF Owed, Owes
<1>3. Lags
  BY <1>1, LaggedBefore
<1>4. PICK k \in Job : Owes(k, article.summary.text)
  BY <1>3 DEF Owed
<1>5. CASE k # j
  BY <1>1, <1>2, <1>4, <1>5 DEF Owes
<1>6. CASE k = j /\ job'[j].status = "succeeded"
  <2>1. job[j].task = "embedding"
    BY <1>4, <1>6 DEF Owes
  <2>2. worker[w].result = "succeeded"
    BY <1>1, <1>2, <1>6, SucceedsByResult
  <2>3. MayRecord(w)
    BY <1>3, <2>1, <2>2 DEF MayRecord, Complete, Is, Owns, Fenced, Lags, Purpose
  <2>4. EarnedBy(j)
    BY <1>2, <2>3 DEF Earned
  <2> QED BY <1>3, <2>1, <2>4 DEF EarnedBy, IsThere, SummaryText, Lags
<1>7. CASE k = j /\ job'[j].status # "succeeded"
  <2> DEFINE t == article.summary.text
  <2>1. Owes(j, t) /\ Documented(None)
    BY <1>1, <1>4, <1>7 DEF Plain
  <2> HIDE DEF t
  <2>2. job'[j].task = "embedding" /\ job'[j].made # None /\ job'[j].made.text = t
    BY <1>2, <1>7, <2>1, OwesStays
  <2> QED BY <1>1, <1>2, <1>7, <2>2 DEF t
<1> QED BY <1>5, <1>6, <1>7

PlainStep ==
    \/ \E w \in Worker :
         \/ NotAdmitted(w) \/ ClaimFails(w) \/ Release(w) \/ Start(w) \/ DeadlineFires(w)
         \/ HeartbeatLost(w) \/ Unresolved(w) \/ Crash(w) \/ Complete(w)
         \/ Abandon(w) \/ Capture(w) \/ Reconcile(w) \/ Mark(w) \/ ProviderFails(w)
         \/ AnswerCancelled(w) \/ AnswerStale(w)
    \/ Expire \/ Recover \/ AdminStep
    \/ Ingest \/ Hide \/ Cleanup \/ ReReview \/ Review \/ PauseOrActivate \/ Materialize

LEMMA PlainStepsKeep ==
    ASSUME CoreInv, Views, PlainStep
    PROVE  CoreInv'
<1>1. TypeInv /\ Documents /\ Versions /\ Generations /\ Texts /\ Earned /\ Owed
  BY DEF CoreInv
<1>2. ASSUME Plain(None), NoneSucceeds, Earned' PROVE CoreInv'
  BY <1>2, PlainKeeps DEF CoreInv
<1>3. ASSUME NEW w \in Worker,
        \/ NotAdmitted(w) \/ ClaimFails(w) \/ Release(w) \/ Start(w) \/ DeadlineFires(w)
        \/ HeartbeatLost(w) \/ Unresolved(w) \/ Crash(w)
        \/ Abandon(w) \/ Capture(w) \/ AnswerStale(w)
      PROVE  CoreInv'
  BY <1>1, <1>2, <1>3, WorkerStepIsPlain, WorkerStepEarns
<1>4. ASSUME NEW w \in Worker, Mark(w) \/ ProviderFails(w) \/ AnswerCancelled(w) \/ Reconcile(w)
      PROVE  CoreInv'
  BY <1>1, <1>2, <1>4, BlankingIsPlain, EarnedWhenBlanked
<1>5. ASSUME NEW w \in Worker, Complete(w) PROVE CoreInv'
  <2>1. Plain(None) /\ owner' = None
    BY <1>1, <1>5, CompleteIsPlain
  <2>2. Owed' /\ Earned'
    BY <1>1, <1>5, <2>1, CompleteKeepsOwed, NobodyMayRecord
  <2> QED BY <2>1, <2>2, PlainKeeps DEF CoreInv
<1>6. CASE Ingest
  <2> DEFINE text == SummaryText
  <2>1. Plain(text) /\ NoneSucceeds
    BY <1>1, <1>6, IngestIsPlain
  <2>2. text # None => text \in Job /\ Written(text)
    BY <1>1 DEF SummaryText, Texts
  <2>3. Earned'
    BY <1>1, <1>6, OtherStepsEarn
  <2> HIDE DEF text
  <2> QED BY <2>1, <2>2, <2>3, PlainKeeps DEF CoreInv
<1>7. CASE Expire
  BY <1>1, <1>2, <1>7, ExpireIsPlain, OtherStepsEarn
<1>8. CASE Recover
  BY <1>1, <1>2, <1>8, RecoverIsPlain, OtherStepsEarn
<1>9. CASE AdminStep
  BY <1>1, <1>2, <1>9, AdminIsPlain, OtherStepsEarn
<1>10. CASE Hide \/ Cleanup
  BY <1>1, <1>2, <1>10, ModerationIsPlain, OtherStepsEarn
<1>11. CASE ReReview \/ Review \/ PauseOrActivate \/ Materialize
  BY <1>1, <1>2, <1>11, SourceStepIsPlain, OtherStepsEarn
<1> QED BY <1>3, <1>4, <1>5, <1>6, <1>7, <1>8, <1>9, <1>10, <1>11 DEF PlainStep

-----------------------------------------------------------------------------
(* Steps that begin something *)

\* An invocation is bound to a job or to a generation, and nothing else changes but the
\* lease it takes.
LEMMA BindingKeeps ==
    ASSUME CoreInv, NEW w \in Worker, NEW u \in WorkerState, Becomes(w, u), Shape(u, job),
           ~Active(u), ~Succeeded(u), job' = job, article' = article, src' = src,
           highWater' \in 0..MaxGeneration, highWater' >= highWater,
           owner' \in Owner \cup {None}, owner' = owner \/ owner'.gen > highWater
    PROVE  TypeInv' /\ Documents' /\ Texts' /\ Versions' /\ Earned' /\ Owed'
<1>1. /\ TypeInv /\ Documents /\ Texts /\ Versions /\ Earned /\ Owed
      /\ Generations /\ highWater \in Nat
  BY BoundsAreNumbers DEF CoreInv, TypeInv, DocumentsOK
<1>2. Documented(None) /\ job' \in [Job -> JobDocument] /\ article' \in Article
  BY <1>1, SameIsPlain
<1>3. TypeInv'
  <2>1. OneMoves
    BY DEF OneMoves, Moves
  <2> QED BY <1>1, <1>2, <2>1, DocumentedKeeps, SourceIsTyped, TypesGo
<1>4. worker'[w] = u /\ \A v \in Worker : v # w => worker'[v] = worker[v]
  BY <1>1, TurnsOthers
<1>5. NoneBegins
  BY <1>4 DEF NoneBegins
<1>6. Documents'
  <2>1. src'.version >= src.version /\ DocumentsOK'
    BY <1>1, <1>3 DEF TypeInv, DocumentsOK
  <2> QED BY <1>1, <1>2, <2>1, DocumentsStay
<1>7. Texts'
  <2>1. \A j \in Job : Written(j) => Spent(j, job', worker')
    BY <1>2, <1>5, WrittenStays
  <2>2. \A j \in Job : job'[j].made # None /\ job'[j].made.text # None =>
               Spent(job'[j].made.text, job', worker')
    BY <1>1, <1>2, <1>3, <2>1, MadeTexts DEF TypeInv
  <2> QED BY <1>1, <2>1, <2>2 DEF Texts, Written
<1>8. Versions' /\ Owed'
  BY <1>1 DEF Versions, Owed, Lags, Owes
<1>9. Earned'
  <2> SUFFICES ASSUME NEW v \in Worker, NEW j \in Job, MayRecord(v)', worker'[v].job = j
               PROVE  EarnedBy(j)'
    BY DEF Earned
  <2>1. v # w /\ worker'[v] = worker[v]
    BY <1>4 DEF MayRecord, Succeeded
  <2>2. owner' = owner
    <3>1. worker[v].gen <= highWater /\ owner'.gen = worker[v].gen /\ worker[v].gen \in Int
      BY <1>1, <2>1, WorkerFields DEF Generations, MayRecord, TypeInv, DocumentsOK
    <3> QED BY <1>1, <3>1
  <2>3. MayRecord(v)
    BY <2>1, <2>2 DEF MayRecord
  <2>4. EarnedBy(j) /\ job[j].task \in Purpose
    BY <1>1, <2>1, <2>3 DEF Earned, MayRecord
  <2> QED BY <2>4, EarnedByStays
<1> QED BY <1>3, <1>6, <1>7, <1>8, <1>9

LEMMA SelectKeeps ==
    ASSUME CoreInv, NEW w \in Worker, NEW j \in Job, Select(w, j)
    PROVE  CoreInv'
<1> DEFINE u == [Idle EXCEPT !.pc = "selected", !.job = j, !.attempt = job[j].attempt]
<1>1. /\ TypeInv /\ AttemptsFit /\ Generations /\ job[j] \in JobDocument
      /\ highWater \in Nat /\ worker \in [Worker -> WorkerState]
  BY BoundsAreNumbers DEF CoreInv, TypeInv, DocumentsOK
<1>2. /\ worker[w] = Idle /\ job[j].status = "queued" /\ Becomes(w, u)
      /\ highWater' = highWater /\ owner' = owner /\ job' = job /\ article' = article /\ src' = src
  BY DEF Select, Becomes, lease
<1>3. /\ u \in WorkerState /\ u.pc = "selected" /\ u.job = j /\ u.gen = 0
      /\ u.exec = "off" /\ u.result = "pending" /\ u.attempt = job[j].attempt
  BY <1>1, IdleIsTyped, DocumentFields DEF Idle, WorkerState
<1> HIDE DEF u
<1>4. Shape(u, job) /\ ~Active(u) /\ ~Succeeded(u)
  BY <1>2, <1>3, NoneAssumption DEF Shape, Active, Succeeded
<1>5. /\ highWater' \in 0..MaxGeneration /\ highWater' >= highWater
      /\ owner' \in Owner \cup {None}
  BY <1>1, <1>2 DEF TypeInv, DocumentsOK
<1>6. TypeInv' /\ Documents' /\ Texts' /\ Versions' /\ Earned' /\ Owed'
  BY <1>2, <1>3, <1>4, <1>5, BindingKeeps
<1>7. worker'[w] = u /\ \A v \in Worker : v # w => worker'[v] = worker[v]
  BY <1>1, <1>2, TurnsOthers
<1>8. Generations'
  <2>1. \A v \in Worker : worker'[v].gen = worker[v].gen \/ worker'[v].gen = 0
    BY <1>3, <1>7
  <2> QED BY <1>1, <1>2, <2>1 DEF Generations
<1>9. AttemptsFit'
  <2> SUFFICES ASSUME NEW k \in Job
               PROVE  job[k].attempt + Cardinality(Behind(k)')
                        <= MaxAttempts + Cardinality(Worker) - 1
    BY <1>2 DEF AttemptsFit
  <2>1. /\ IsFiniteSet(Behind(k)) /\ Cardinality(Behind(k)) \in Nat
        /\ Behind(k)' \in SUBSET Worker
        /\ job[k].attempt \in Attempts
        /\ job[k].attempt + Cardinality(Behind(k)) <= MaxAttempts + Cardinality(Worker) - 1
    BY <1>1, BehindIsFinite, DocumentFields DEF Behind, AttemptsFit, TypeInv, DocumentsOK
  <2>2. CASE job[k].attempt < MaxAttempts
    <3>1. IsFiniteSet(Behind(k)') /\ Cardinality(Behind(k)') <= Cardinality(Worker)
      BY <2>1, BoundsAreNumbers, FS_Subset
    <3>2. Cardinality(Behind(k)') \in Nat
      BY <3>1, FS_CardinalityType
    <3> QED BY <2>1, <2>2, <3>1, <3>2, BoundsAreNumbers DEF Attempts
  <2>3. CASE ~(job[k].attempt < MaxAttempts)
    <3>1. Behind(k)' \subseteq Behind(k)
      BY <1>3, <1>7, <2>3 DEF Behind
    <3>2. IsFiniteSet(Behind(k)') /\ Cardinality(Behind(k)') <= Cardinality(Behind(k))
      BY <2>1, <3>1, FS_Subset
    <3>3. Cardinality(Behind(k)') \in Nat
      BY <3>2, FS_CardinalityType
    <3> QED BY <2>1, <3>2, <3>3, BoundsAreNumbers DEF Attempts
  <2> QED BY <2>2, <2>3
<1> QED BY <1>6, <1>8, <1>9 DEF CoreInv

LEMMA AcquireKeeps ==
    ASSUME CoreInv, NEW w \in Worker, Acquire(w)
    PROVE  CoreInv'
<1> DEFINE v == worker[w]
           u == [v EXCEPT !.pc = "claiming", !.gen = highWater']
<1>1. /\ TypeInv /\ AttemptsFit /\ Generations /\ v \in WorkerState /\ Shape(v, job)
      /\ highWater \in Nat /\ worker \in [Worker -> WorkerState]
  BY BoundsAreNumbers DEF CoreInv, TypeInv, DocumentsOK
<1>2. /\ v.pc = "selected" /\ highWater < MaxGeneration /\ highWater' = highWater + 1
      /\ owner' = [job |-> v.job, gen |-> highWater', live |-> TRUE]
      /\ job' = job /\ article' = article /\ src' = src
  BY DEF Acquire, Is
<1>3. Becomes(w, u)
  <2>1. worker' = [worker EXCEPT ![w].pc = "claiming", ![w].gen = highWater']
    BY DEF Acquire
  <2>2. worker' = [worker EXCEPT ![w] = u]
    BY <1>1, <2>1
  <2> QED BY <2>2 DEF Becomes
<1>4. /\ highWater' \in 0..MaxGeneration /\ highWater' \in 1..MaxGeneration
      /\ highWater' >= highWater
  BY <1>1, <1>2, BoundsAreNumbers
<1>5. v.job \in Job
  BY <1>1, <1>2, NamesAJob, UnderWay
<1>6. owner' \in Owner /\ owner'.gen > highWater
  BY <1>1, <1>2, <1>4, <1>5 DEF Owner
<1>7. /\ u \in WorkerState /\ u.pc = "claiming" /\ u.gen = highWater'
      /\ u.job = v.job /\ u.exec = v.exec /\ u.result = v.result /\ u.attempt = v.attempt
      /\ u.input = v.input
  BY <1>1, <1>4 DEF WorkerState
<1> HIDE DEF u
<1>8. Shape(u, job) /\ ~Active(u) /\ ~Succeeded(u)
  BY <1>1, <1>2, <1>5, <1>7, NoneAssumption DEF Shape, Active, Succeeded
<1>9. TypeInv' /\ Documents' /\ Texts' /\ Versions' /\ Earned' /\ Owed'
  BY <1>2, <1>3, <1>4, <1>6, <1>7, <1>8, BindingKeeps
<1>10. worker'[w] = u /\ \A x \in Worker : x # w => worker'[x] = worker[x]
  BY <1>1, <1>3, TurnsOthers
<1>11. Generations'
  <2>1. \A x \in Worker : worker[x].gen <= highWater /\ worker[x].gen \in Int
    BY <1>1, WorkerFields DEF Generations
  <2> QED BY <1>1, <1>2, <1>7, <1>10, <2>1 DEF Generations
<1>12. AttemptsFit'
  <2>1. \A k \in Job : Behind(k)' \subseteq Behind(k)
    BY <1>2, <1>7, <1>10 DEF Behind
  <2>2. Documented(None)
    BY <1>1, <1>2, SameIsPlain
  <2> QED BY <1>1, <1>9, <2>1, <2>2, AttemptsStayFit DEF TypeInv
<1> QED BY <1>9, <1>11, <1>12 DEF CoreInv

LEMMA ClaimKeeps ==
    ASSUME CoreInv, NEW w \in Worker, Claim(w)
    PROVE  CoreInv'
<1> DEFINE v == worker[w]
           j == v.job
<1>1. /\ TypeInv /\ AttemptsFit /\ Generations /\ Documents /\ Texts /\ Versions /\ Earned
      /\ Owed /\ v \in WorkerState /\ Shape(v, job) /\ worker \in [Worker -> WorkerState]
  BY DEF CoreInv, TypeInv, DocumentsOK
<1>2. /\ v.pc = "claiming" /\ job[j].status = "queued"
      /\ job' = [job EXCEPT ![j].status = "running", ![j].gen = v.gen]
      /\ highWater' = highWater /\ owner' = owner /\ article' = article /\ src' = src
      /\ \E pc \in {"checking", "deferring", "releasing"} : Go(w, pc)
  BY DEF Claim, Is, lease
<1>3. PICK pc \in {"checking", "deferring", "releasing"} : Go(w, pc)
  BY <1>2
<1> DEFINE u == [v EXCEPT !.pc = pc]
<1>4. Becomes(w, u)
  BY <1>3 DEF Go, Becomes
<1>5. /\ u \in WorkerState /\ u.pc = pc /\ u.gen = v.gen /\ u.job = v.job /\ u.exec = v.exec
      /\ u.result = v.result /\ u.attempt = v.attempt /\ u.input = v.input
  BY <1>1 DEF WorkerState
<1> HIDE DEF u
<1>6. j \in Job
  BY <1>1, <1>2, NamesAJob, UnderWay
<1>7. Shape(u, job)
  BY <1>1, <1>2, <1>5, <1>6, NoneAssumption DEF Shape
<1>8. job' \in [Job -> JobDocument] /\ Documented(None) /\ NoneSucceeds
  BY <1>1, ClaimDocuments DEF Generations
<1>9. TypeInv'
  <2>1. OneMoves
    BY <1>4, <1>5, <1>7 DEF OneMoves, Moves
  <2>2. highWater' \in 0..MaxGeneration /\ owner' \in Owner \cup {None} /\ article' \in Article
    BY <1>1, <1>2, SameIsPlain
  <2> QED BY <1>1, <1>2, <1>8, <2>1, <2>2, DocumentedKeeps, SourceIsTyped, TypesGo
<1>10. worker'[w] = u /\ \A x \in Worker : x # w => worker'[x] = worker[x]
  BY <1>1, <1>4, TurnsOthers
<1>11. Generations'
  <2>1. \A x \in Worker : worker'[x].gen = worker[x].gen
    BY <1>5, <1>10
  <2> QED BY <1>1, <1>2, <2>1 DEF Generations
<1>12. AttemptsFit'
  <2>1. \A k \in Job : Behind(k)' \subseteq Behind(k)
    BY <1>2, <1>5, <1>10 DEF Behind
  <2> QED BY <1>1, <1>8, <1>9, <2>1, AttemptsStayFit DEF TypeInv
<1>13. Documents'
  <2>1. src'.version >= src.version /\ highWater' >= highWater /\ DocumentsOK'
    BY <1>1, <1>2, <1>9 DEF TypeInv, DocumentsOK
  <2> QED BY <1>1, <1>8, <2>1, DocumentsStay
<1>14. Texts'
  <2>1. ASSUME NEW k \in Job, Written(k) PROVE Spent(k, job', worker')
    <3>1. k # j /\ job'[k] = job[k]
      BY <1>1, <1>2, <2>1 DEF Written, Spent, TypeInv, DocumentsOK
    <3> QED BY <1>5, <1>10, <2>1, <3>1 DEF Written, Spent
  <2>2. \A k \in Job : job'[k].made # None /\ job'[k].made.text # None =>
               Spent(job'[k].made.text, job', worker')
    BY <1>1, <1>8, <1>9, <2>1, MadeTexts DEF TypeInv
  <2> QED BY <1>1, <1>2, <2>1, <2>2 DEF Texts, Written
<1>15. Versions'
  BY <1>1, <1>2 DEF Versions
<1>16. Earned'
  <2> SUFFICES ASSUME NEW x \in Worker, NEW k \in Job, MayRecord(x)', worker'[x].job = k
               PROVE  EarnedBy(k)'
    BY DEF Earned
  <2>1. x # w /\ worker'[x] = worker[x] /\ worker[x] # Idle
    BY <1>5, <1>10 DEF MayRecord, Idle
  <2>2. job[k].status # "unused"
    BY <1>1, <2>1, NamesAJob
  <2>3. job'[k].task = job[k].task /\ job'[k].policy = job[k].policy
    BY <1>8, <2>2 DEF Documented, Kept
  <2>4. MayRecord(x)
    BY <1>2, <2>1, <2>3 DEF MayRecord
  <2>5. EarnedBy(k) /\ job[k].task \in Purpose
    BY <1>1, <2>1, <2>4 DEF Earned, MayRecord
  <2> QED BY <1>2, <2>3, <2>5, EarnedByStays
<1>17. Owed'
  <2> SUFFICES ASSUME Lags'
               PROVE  \E k \in Job : /\ job'[k].task = "embedding" /\ job'[k].status # "succeeded"
                                     /\ job'[k].made # None
                                     /\ job'[k].made.text = article'.summary.text
    BY DEF Owed, Owes
  <2>1. Lags
    BY <1>2 DEF Lags
  <2>2. PICK k \in Job : Owes(k, article.summary.text)
    BY <1>1, <2>1 DEF Owed
  <2>3. job'[k].status # "succeeded"
    BY <1>8, <2>2 DEF NoneSucceeds, Owes
  <2> DEFINE t == article.summary.text
  <2>4. Owes(k, t)
    BY <2>2
  <2> HIDE DEF t
  <2>5. job'[k].task = "embedding" /\ job'[k].made # None /\ job'[k].made.text = t
    BY <1>1, <1>8, <2>3, <2>4, OwesStays
  <2> QED BY <1>2, <2>3, <2>5 DEF t
<1> QED BY <1>9, <1>11, <1>12, <1>13, <1>14, <1>15, <1>16, <1>17 DEF CoreInv

\* Among invocations that turn, fewer are behind, and the generations stay.
LEMMA TurningKeeps ==
    ASSUME TypeInv, Generations, highWater' = highWater, NEW w \in Worker, Turns(w)
    PROVE  /\ Generations' /\ NoneBegins
           /\ \A j \in Job : Behind(j)' \subseteq Behind(j)
           /\ \A v \in Worker : v # w => worker'[v] = worker[v]
           /\ \A v \in Worker : worker'[v] # Idle =>
                worker'[v].job = worker[v].job /\ worker'[v].gen = worker[v].gen
<1>1. PICK u : Turn(worker[w], u) /\ Becomes(w, u)
  BY DEF Turns
<1>2. worker'[w] = u /\ \A v \in Worker : v # w => worker'[v] = worker[v]
  BY <1>1, TurnsOthers
<1>3. \A v \in Worker : worker'[v] = worker[v] \/ Turn(worker[v], worker'[v])
  BY <1>1, <1>2
<1>4. Generations'
  <2>1. \A v \in Worker : worker'[v].gen = worker[v].gen \/ worker'[v].gen = 0
    BY <1>3 DEF Turn, Idle
  <2>2. highWater \in Nat
    BY BoundsAreNumbers DEF TypeInv, DocumentsOK
  <2> QED BY <2>1, <2>2 DEF Generations
<1>5. NoneBegins
  <2>1. ~Active(Idle)
    BY DEF Active, Idle
  <2> QED BY <1>3, <2>1 DEF NoneBegins, Turn
<1>6. \A j \in Job : Behind(j)' \subseteq Behind(j)
  <2> SUFFICES ASSUME NEW j \in Job, NEW v \in Worker, worker'[v].pc # "idle",
                      worker'[v].job = j, worker'[v].attempt < MaxAttempts
               PROVE  v \in Behind(j)
    BY DEF Behind
  <2>1. worker'[v] = worker[v] \/ Turn(worker[v], worker'[v])
    BY <1>3
  <2>2. worker'[v] # Idle
    BY DEF Idle
  <2> QED BY <2>1, <2>2 DEF Behind, Turn
<1> QED BY <1>2, <1>3, <1>4, <1>5, <1>6 DEF Turn

LEMMA DeferKeeps ==
    ASSUME CoreInv, NEW w \in Worker, Defer(w)
    PROVE  CoreInv'
<1> DEFINE v == worker[w]
           j == v.job
           d == job[j]
           e == job'[j]
<1>1. /\ TypeInv /\ AttemptsFit /\ Generations /\ Documents /\ Texts /\ Versions
      /\ Owed /\ v \in WorkerState /\ worker \in [Worker -> WorkerState]
      /\ job \in [Job -> JobDocument]
  BY DEF CoreInv, TypeInv, DocumentsOK
<1>2. /\ j \in Job /\ v.pc = "deferring" /\ job' = [job EXCEPT ![j] = e]
      /\ GivenBack(v, d, e)
  BY <1>1, DeferDocuments
<1>3. highWater' = highWater /\ owner' = None /\ article' = article /\ src' = src /\ Return(w)
  BY DEF Defer
<1>4. Turns(w)
  BY <1>1, <1>3, ReturnTurns
<1>5. /\ Generations' /\ NoneBegins
      /\ \A k \in Job : Behind(k)' \subseteq Behind(k)
  BY <1>1, <1>3, <1>4, TurningKeeps
<1>6. worker'[w].pc = "idle"
  <2> DEFINE u == [v EXCEPT !.pc = "idle", !.aborted = TRUE, !.result = "failed"]
  <2>1. worker'[w] = Idle \/ worker'[w] = u
    BY <1>1, <1>3 DEF Return
  <2>2. Idle.pc = "idle" /\ u.pc = "idle"
    BY <1>1 DEF Idle, WorkerState
  <2> HIDE DEF u
  <2> QED BY <2>1, <2>2
<1>7. \A k \in Job : k # j => job'[k] = job[k]
  BY <1>1, <1>2
<1>8. ASSUME NEW k \in Job
      PROVE  job'[k].attempt + Cardinality(Behind(k)') <= MaxAttempts + Cardinality(Worker) - 1
  <2>1. /\ IsFiniteSet(Behind(k)) /\ Cardinality(Behind(k)) \in Nat
        /\ job[k].attempt \in Int
        /\ job[k].attempt + Cardinality(Behind(k)) <= MaxAttempts + Cardinality(Worker) - 1
    BY <1>1, BehindIsFinite, DocumentFields, BoundsAreNumbers DEF AttemptsFit, Attempts
  <2>2. CASE job'[k].attempt = job[k].attempt
    <3>1. IsFiniteSet(Behind(k)') /\ Cardinality(Behind(k)') <= Cardinality(Behind(k))
      BY <1>5, <2>1, FS_Subset
    <3>2. Cardinality(Behind(k)') \in Nat
      BY <3>1, FS_CardinalityType
    <3> QED BY <2>1, <2>2, <3>1, <3>2, BoundsAreNumbers
  <2>3. CASE k = j /\ job'[k].attempt = job[k].attempt + 1 /\ v.attempt < MaxAttempts
    <3>1. w \in Behind(k) /\ w \notin Behind(k)'
      BY <1>2, <1>6, <2>3 DEF Behind
    <3>2. /\ IsFiniteSet(Behind(k) \ {w})
          /\ Cardinality(Behind(k) \ {w}) = Cardinality(Behind(k)) - 1
      BY <2>1, <3>1, FS_RemoveElement
    <3>3. Behind(k)' \in SUBSET (Behind(k) \ {w})
      BY <1>5, <3>1
    <3>4. IsFiniteSet(Behind(k)') /\ Cardinality(Behind(k)') <= Cardinality(Behind(k) \ {w})
      BY <3>2, <3>3, FS_Subset
    <3>5. Cardinality(Behind(k)') \in Nat
      BY <3>4, FS_CardinalityType
    <3> QED BY <2>1, <2>3, <3>2, <3>4, <3>5, BoundsAreNumbers
  <2>4. k # j => job'[k].attempt = job[k].attempt
    BY <1>7
  <2>5. e.attempt = d.attempt \/ (e.attempt = d.attempt + 1 /\ v.attempt < MaxAttempts)
    BY <1>2 DEF GivenBack
  <2> QED BY <2>2, <2>3, <2>4, <2>5
<1>9. AttemptsFit'
  BY <1>8 DEF AttemptsFit
<1>10. job' \in [Job -> JobDocument]
  <2>1. e.attempt \in Attempts
    <3>1. PICK k \in Job : k = j
      BY <1>2
    <3>2. /\ job[k].attempt \in Attempts
          /\ job'[k].attempt + Cardinality(Behind(k)') <= MaxAttempts + Cardinality(Worker) - 1
      BY <1>1, <1>8, DocumentFields
    <3>3. Cardinality(Behind(k)') \in Nat
      <4>1. IsFiniteSet(Behind(k)) /\ Behind(k)' \in SUBSET Behind(k)
        BY <1>5, BehindIsFinite
      <4> QED BY <4>1, FS_Subset, FS_CardinalityType
    <3>4. job'[k].attempt = job[k].attempt \/ job'[k].attempt = job[k].attempt + 1
      BY <1>2, <3>1 DEF GivenBack
    <3>5. job'[k].attempt \in Attempts
      BY <3>2, <3>3, <3>4, BoundsAreNumbers DEF Attempts
    <3> QED BY <3>1, <3>5
  <2>2. e \in JobDocument
    BY <1>2, <2>1 DEF GivenBack
  <2> HIDE DEF e
  <2>3. job' = [job EXCEPT ![j] = e]
    BY <1>2
  <2> QED BY <1>1, <2>2, <2>3
<1>11. \A k \in Job : /\ job'[k].task = job[k].task /\ job'[k].made = job[k].made
                      /\ job'[k].policy = job[k].policy
                      /\ job[k].status # "unused" => job'[k].status # "unused"
                      /\ job'[k].status = "succeeded" => job[k].status = "succeeded"
  BY <1>2, <1>7 DEF GivenBack
<1>12. TypeInv'
  <2>1. OneMoves
    BY <1>4, TurnsMove
  <2>2. Keeps
    BY <1>11 DEF Keeps
  <2>3. highWater' \in 0..MaxGeneration /\ owner' \in Owner \cup {None} /\ article' \in Article
    BY <1>1, <1>3, SameIsPlain
  <2> QED BY <1>1, <1>3, <1>10, <2>1, <2>2, <2>3, SourceIsTyped, TypesGo
<1>13. Documents'
  <2> SUFFICES ASSUME NEW k \in Job
               PROVE  /\ job'[k].status = "unused" => job'[k] = NoDocument
                      /\ job'[k].policy <= src.version
                      /\ job'[k].gen <= highWater
                      /\ job'[k].cancel => job'[k].status # "queued"
    BY <1>3 DEF Documents
  <2>1. CASE k # j
    BY <1>1, <1>7, <2>1 DEF Documents
  <2>2. CASE k = j
    BY <1>1, <1>2, <2>2 DEF Documents, GivenBack
  <2> QED BY <2>1, <2>2
<1>14. Texts'
  <2>1. ASSUME NEW k \in Job, Written(k) PROVE Spent(k, job', worker')
    <3>1. k # j
      BY <1>2, <2>1 DEF Written, Spent, Active, GivenBack
    <3>2. job'[k] = job[k]
      BY <1>7, <3>1
    <3> QED BY <1>5, <2>1, <3>2 DEF Written, Spent, NoneBegins
  <2>2. ASSUME NEW k \in Job, job[k].made # None, job[k].made.text # None
        PROVE  Spent(job[k].made.text, job', worker')
    <3>1. job[k].made \in Input
      BY <1>1, <2>2, DocumentFields
    <3>2. job[k].made.text \in Job /\ Written(job[k].made.text)
      BY <1>1, <2>2, <3>1 DEF Texts, Input
    <3> DEFINE t == job[k].made.text
    <3>3. t \in Job /\ Written(t)
      BY <3>2
    <3> HIDE DEF t
    <3>4. Spent(t, job', worker')
      BY <2>1, <3>3
    <3> QED BY <3>4 DEF t
  <2>3. article.summary.status = "ready" =>
          article.summary.text \in Job /\ Spent(article.summary.text, job', worker')
    BY <1>1, <2>1 DEF Texts
  <2> QED BY <1>3, <1>11, <2>2, <2>3 DEF Texts, Written
<1>15. Versions'
  BY <1>1, <1>3 DEF Versions
<1>16. Earned'
  BY <1>3, NobodyMayRecord
<1>17. Owed'
  BY <1>1, <1>3, <1>11 DEF Owed, Owes, Lags
<1> QED BY <1>5, <1>9, <1>12, <1>13, <1>14, <1>15, <1>16, <1>17 DEF CoreInv

\* What an answered job leaves: it writes no more, and nothing is of its text yet.
LEMMA OwnerIsAlone ==
    ASSUME TypeInv, Generations, NEW w \in Worker, Owns(w)
    PROVE  /\ worker[w].gen # 0 /\ worker[w].gen = owner.gen
           /\ \A v \in Worker : worker[v].gen = worker[w].gen => v = w
<1>1. worker[w].gen = owner.gen /\ owner \in Owner
  BY DEF Owns, Fenced, TypeInv, DocumentsOK
<1>2. owner.gen # 0
  BY <1>1, BoundsAreNumbers DEF Owner
<1> QED BY <1>1, <1>2 DEF Generations

LEMMA AnswerSpends ==
    ASSUME TypeInv, Views, Generations, NEW w \in Worker, Answer(w)
    PROVE  /\ worker[w].job \in Job /\ ~Written(worker[w].job)
           /\ Spent(worker[w].job, job', worker')
<1> DEFINE j == worker[w].job
<1>1. /\ j \in Job /\ worker[w].exec = "provider" /\ Owns(w) /\ Finish(w, "succeeded")
      /\ worker \in [Worker -> WorkerState]
  BY NamesAJob, UnderWay DEF Answer, Writable, TypeInv, DocumentsOK
<1>2. job[j].status = "running" /\ job[j].gen = worker[w].gen
  BY <1>1 DEF Owns
<1>3. ~Written(j)
  BY <1>1, <1>2 DEF Written, Spent, Active
<1>4. job'[j].status = "running" /\ job'[j].gen = worker[w].gen
  BY <1>1, <1>2, AnswerDocuments DEF Inserts
<1>5. ~Active(worker'[w])
  <2> DEFINE v == worker[w]
             off == [v EXCEPT !.exec = "off", !.input = None]
             done == [v EXCEPT !.exec = "off", !.input = None, !.result = "succeeded",
                               !.pc = "completing"]
  <2>1. Shape(v, job) /\ v \in WorkerState
    BY <1>1 DEF TypeInv
  <2>2. ~Defers(w, "succeeded")
    BY DEF Defers
  <2>3. worker'[w] = IF v.pc = "idle" THEN Idle ELSE IF v.pc # "running" THEN off ELSE done
    BY <1>1, <2>2 DEF Finish
  <2>4. v.pc \in {"idle", "running", "completing"}
    BY <1>1, <2>1 DEF Shape
  <2>5. /\ Idle.pc = "idle" /\ Idle.exec = "off" /\ off.pc = v.pc /\ off.exec = "off"
        /\ done.pc = "completing" /\ done.exec = "off"
    BY <2>1 DEF Idle, WorkerState
  <2> HIDE DEF v, off, done
  <2> QED BY <2>3, <2>4, <2>5 DEF Active
<1>6. ASSUME NEW v \in Worker, worker'[v].job = j, worker'[v].gen = job'[j].gen
      PROVE  ~Active(worker'[v])
  <2>1. CASE v = w
    BY <1>5, <2>1
  <2>2. CASE v # w
    <3>1. worker'[v] = worker[v]
      BY <1>1, <2>2 DEF Finish
    <3> QED BY <1>1, <1>4, <1>6, <2>2, <3>1, OwnerIsAlone
  <2> QED BY <2>1, <2>2
<1> QED BY <1>1, <1>3, <1>4, <1>6 DEF Spent

\* The artifact an answer writes, and what it leaves alone.
LEMMA AnswerWrites ==
    ASSUME TypeInv, Views, NEW w \in Worker, Answer(w)
    PROVE  LET j == worker[w].job
               p == job[j].task IN
           /\ p \in Purpose /\ worker[w].input \in Input /\ worker[w].input.policy <= src.version
           /\ worker[w].input = InputUnder(job[j].policy, p)
           /\ article' \in Article /\ article'.status = article.status
           /\ article'[p] = [status |-> "ready", of |-> worker[w].input, text |-> j]
           /\ \A q \in Purpose \ {p} : article'[q] = article[q]
<1> DEFINE j == worker[w].job
           task == job[j].task
           a == [status |-> "ready", of |-> worker[w].input, text |-> j]
<1>1. /\ j \in Job /\ worker[w].exec = "provider"
      /\ article' = [article EXCEPT ![task] = a]
  BY NamesAJob, UnderWay DEF Answer, SetArtifact
<1>2. task \in Purpose /\ worker[w].input \in Input
  BY <1>1, WorkerFields DEF TypeInv, DocumentsOK, Shape
<1>3. a \in Artifact
  BY <1>1, <1>2 DEF Artifact
<1>4. worker[w].input = InputUnder(job[j].policy, task) /\ worker[w].input.policy <= src.version
  BY AnswerReads DEF Earlier, Writable
<1>5. PICK p \in Purpose : p = task
  BY <1>2
<1>6. article \in Article /\ article' = [article EXCEPT ![p] = a]
  BY <1>1, <1>5 DEF TypeInv, DocumentsOK
<1> DEFINE b == a
<1>7. b \in Artifact /\ article' = [article EXCEPT ![p] = b]
  BY <1>3, <1>6
<1> HIDE DEF b
<1>8. /\ article' \in Article /\ article'[p] = b
      /\ \A q \in Purpose \ {p} : article'[q] = article[q]
      /\ article'.status = article.status
  BY <1>6, <1>7, ArticleIsTyped
<1> QED BY <1>2, <1>4, <1>5, <1>8 DEF b

LEMMA AnswerKeeps ==
    ASSUME CoreInv, Views, NEW w \in Worker, Answer(w)
    PROVE  CoreInv'
<1> DEFINE j == worker[w].job
           p == job[j].task
           made == [worker[w].input EXCEPT !.text = j]
<1>1. /\ TypeInv /\ AttemptsFit /\ Generations /\ Documents /\ Texts /\ Versions
      /\ Owed /\ worker \in [Worker -> WorkerState] /\ job \in [Job -> JobDocument]
  BY DEF CoreInv, TypeInv, DocumentsOK
<1>2. /\ Owns(w) /\ highWater' = highWater /\ owner' = owner
      /\ src' = src /\ Finish(w, "succeeded")
  BY DEF Answer, Writable, lease
<1>3. /\ p \in Purpose /\ worker[w].input \in Input /\ worker[w].input.policy <= src.version
      /\ worker[w].input = InputUnder(job[j].policy, p)
      /\ article' \in Article /\ article'.status = article.status
      /\ article'[p] = [status |-> "ready", of |-> worker[w].input, text |-> j]
      /\ \A q \in Purpose \ {p} : article'[q] = article[q]
  BY <1>1, AnswerWrites
<1>4. job' \in [Job -> JobDocument] /\ Documented(j) /\ NoneSucceeds
  BY <1>1, AnswerDocuments
<1>5. j \in Job /\ ~Written(j) /\ Spent(j, job', worker')
  BY <1>1, AnswerSpends
<1>6. Turns(w)
  BY <1>1, ProcessorTurns DEF Processor
<1>7. /\ Generations' /\ NoneBegins
      /\ \A k \in Job : Behind(k)' \subseteq Behind(k)
      /\ \A v \in Worker : v # w => worker'[v] = worker[v]
      /\ \A v \in Worker : worker'[v] # Idle =>
           worker'[v].job = worker[v].job /\ worker'[v].gen = worker[v].gen
  BY <1>1, <1>2, <1>6, TurningKeeps
<1>8. TypeInv'
  <2>1. OneMoves
    BY <1>6, TurnsMove
  <2>2. Keeps
    BY <1>4, DocumentedKeeps
  <2>3. highWater' \in 0..MaxGeneration /\ owner' \in Owner \cup {None}
    BY <1>1, <1>2, SameIsPlain
  <2> QED BY <1>1, <1>2, <1>3, <1>4, <2>1, <2>2, <2>3, SourceIsTyped, TypesGo
<1>9. AttemptsFit' /\ Documents'
  <2>1. DocumentsOK' /\ highWater' >= highWater /\ src'.version >= src.version
    BY <1>1, <1>2, <1>8 DEF TypeInv, DocumentsOK
  <2> DEFINE text == j
  <2>2. Documented(text)
    BY <1>4
  <2> HIDE DEF text
  <2> QED BY <1>1, <1>7, <2>1, <2>2, AttemptsStayFit, DocumentsStay
<1>10. Texts'
  <2>1. PICK t \in Job : t = j
    BY <1>5
  <2>2. Documented(t) /\ Spent(t, job', worker')
    BY <1>4, <1>5, <2>1
  <2>3. \A k \in Job : Written(k) => Spent(k, job', worker')
    BY <1>7, <2>2, WrittenStays
  <2>4. \A k \in Job : job'[k].made # None /\ job'[k].made.text # None =>
               Spent(job'[k].made.text, job', worker')
    BY <1>1, <1>8, <2>2, <2>3, MadeTexts DEF TypeInv
  <2>5. article'.summary.status = "ready" =>
          article'.summary.text \in Job /\ Spent(article'.summary.text, job', worker')
    <3>1. CASE p = "summary"
      <4>1. article'.summary.text = t
        BY <1>3, <2>1, <3>1
      <4> QED BY <2>2, <4>1
    <3>2. CASE p # "summary"
      <4>1. article'["summary"] = article["summary"]
        BY <1>3, <3>2 DEF Purpose
      <4> QED BY <1>1, <2>3, <4>1 DEF Texts
    <3> QED BY <3>1, <3>2
  <2> QED BY <2>4, <2>5 DEF Texts, Written
<1>11. Versions'
  <2> SUFFICES ASSUME NEW q \in Purpose, article'[q].status = "ready"
               PROVE  article'[q].of \in Input /\ article'[q].of.policy <= src.version
    BY <1>2 DEF Versions
  <2>1. CASE q = p
    <3>1. article'[q].of = worker[w].input
      BY <1>3, <2>1
    <3> QED BY <1>3, <3>1
  <2>2. CASE q # p
    BY <1>1, <1>3, <2>2 DEF Versions
  <2> QED BY <2>1, <2>2
<1>12. p = "embedding" => article'["summary"] = article["summary"]
  BY <1>3 DEF Purpose
<1>13. Earned'
  <2> SUFFICES ASSUME NEW v \in Worker, NEW k \in Job, MayRecord(v)', worker'[v].job = k
               PROVE  EarnedBy(k)'
    BY DEF Earned
  <2>1. v = w
    <3>1. worker'[v].gen = worker[w].gen /\ worker'[v] # Idle
      BY <1>1, <1>2, OwnerIsAlone DEF MayRecord, Idle
    <3> QED BY <1>1, <1>2, <1>7, <3>1, OwnerIsAlone
  <2>2. k = j /\ job'[k].task = p /\ job'[k].policy = job[j].policy
    <3>1. worker'[w] # Idle
      BY <2>1 DEF MayRecord, Idle
    <3>2. job[j].status # "unused"
      BY <1>2 DEF Owns
    <3> QED BY <1>4, <1>5, <1>7, <2>1, <3>1, <3>2 DEF Documented, Kept
  <2> PICK version : version = job[j].policy
    OBVIOUS
  <2>3. PICK q \in Purpose : q = p
    BY <1>3
  <2>4. article'[q].status = "ready" /\ article'[q].of = InputUnder(version, q)
    BY <1>3, <2>3
  <2>5. q = "embedding" => InputUnder(version, q).text = (SummaryText)'
    BY <1>12, <2>3 DEF InputUnder, SummaryText
  <2>6. InputUnder(version, q).policy = version
    BY DEF InputUnder
  <2>7. IsThere(q, version)'
    BY <2>4, <2>5, <2>6 DEF IsThere
  <2> QED BY <2>2, <2>3, <2>7 DEF EarnedBy
<1>14. Owed'
  <2> SUFFICES ASSUME Lags'
               PROVE  \E k \in Job : /\ job'[k].task = "embedding" /\ job'[k].status # "succeeded"
                                     /\ job'[k].made # None
                                     /\ job'[k].made.text = article'.summary.text
    BY DEF Owed, Owes
  <2>1. p = "summary"
    <3>1. SUFFICES ASSUME p = "embedding" PROVE FALSE
      BY <1>3 DEF Purpose
    <3>2. article'.embedding.of.text = SummaryText
      BY <1>3, <3>1 DEF InputUnder
    <3> QED BY <1>12, <3>1, <3>2 DEF Lags, SummaryText
  <2>2. article'.summary.text = j
    BY <1>3, <2>1
  <2>3. PICK read \in Reads(w) :
          /\ Earlier(read.source) /\ Writable(w, read, FALSE) /\ Inserts(job, OwedBy(w, read))
          /\ worker[w].input.policy = read.source.version
    BY <1>1, AnswerDocuments
  <2>4. Permits(read.source, "embedding")
    <3>1. article'.summary.of.policy = src.version /\ "embedding" \in src.allows
      BY <1>2 DEF Lags
    <3>2. read.source.version = src.version
      BY <1>3, <2>1, <2>3, <3>1
    <3> QED BY <2>3, <3>1, <3>2 DEF Earlier, Writable, Permits
  <2>5. made \in Input /\ made.text = j /\ made # None /\ made.policy \in 1..MaxPolicy
        /\ made.policy <= src.version
    BY <1>3, <1>5, NoneAssumption DEF Input
  <2>6. OwedBy(w, read) = IngestionJobs({"embedding"}, made)
    BY <2>1, <2>4 DEF OwedBy
  <2> HIDE DEF made
  <2>7. \A k \in Job : job[k].made # made
    BY <1>1, <1>5, <2>5, NoneAssumption DEF Texts
  <2> DEFINE d == Queued("embedding", made, made.policy)
  <2>8. d \in IngestionJobs({"embedding"}, made)
    BY <2>7 DEF IngestionJobs
  <2>9. d.task = "embedding" /\ d.made = made /\ d.status = "queued"
    <3>1. "embedding" \in Task
      BY DEF Task, Purpose
    <3> QED BY <1>1, <2>5, <3>1, QueuedIsFresh DEF TypeInv
  <2> HIDE DEF d
  <2>10. PICK k \in Job : job'[k] = d
    BY <2>3, <2>6, <2>8 DEF Inserts
  <2> QED BY <2>2, <2>5, <2>9, <2>10
<1> QED BY <1>7, <1>8, <1>9, <1>10, <1>11, <1>13, <1>14 DEF CoreInv

-----------------------------------------------------------------------------
(* The theorems *)

LEMMA InitHolds == Init => IInv
<1> SUFFICES ASSUME Init PROVE IInv
  OBVIOUS
<1> DEFINE input == [content |-> 1, policy |-> 1, text |-> None]
           document == [NoDocument EXCEPT !.status = "queued", !.policy = 1, !.made = input]
           a == [document EXCEPT !.task = "summary"]
           b == [document EXCEPT !.task = "embedding"]
           new == {[document EXCEPT !.task = t] : t \in Purpose}
           empty == [j \in Job |-> NoDocument]
<1>1. /\ highWater = 0 /\ owner = None /\ worker = [w \in Worker |-> Idle]
      /\ article = [status |-> "published", content |-> 1,
                    summary |-> Blank("pending"), embedding |-> Blank("pending")]
      /\ src = [version |-> 1, active |-> TRUE, licensed |-> TRUE, allows |-> Purpose,
                marked |-> FALSE]
      /\ job = Filled(empty, new, Job)
  BY DEF Init
<1>2. input \in Input /\ NoDocument \in JobDocument
  BY BoundsAreNumbers, NumbersFit DEF Input, NoDocument, JobDocument, Task, Purpose
<1>3. /\ document \in JobDocument /\ document.status = "queued" /\ document.gen = 0
      /\ document.cancel = FALSE /\ document.attempt = 1 /\ document.policy = 1
      /\ document.made = input
  <2>1. NoDocument.gen = 0 /\ NoDocument.cancel = FALSE /\ NoDocument.attempt = 1
    BY DEF NoDocument
  <2>2. 1 \in 0..MaxPolicy
    BY BoundsAreNumbers
  <2> HIDE DEF input
  <2> QED BY <1>2, <2>1, <2>2 DEF JobDocument
<1> HIDE DEF document
<1>4. \A t \in Purpose : LET d == [document EXCEPT !.task = t] IN
        /\ d \in JobDocument /\ d.status = "queued" /\ d.gen = 0 /\ d.cancel = FALSE
        /\ d.attempt = 1 /\ d.policy = 1 /\ d.made = input
  BY <1>3 DEF JobDocument, Task
<1>5. IsFiniteSet(new) /\ Cardinality(new) <= Cardinality(Job) /\ new \in SUBSET JobDocument
  <2>1. new = {a, b}
    BY DEF Purpose
  <2>2. IsFiniteSet({a}) /\ Cardinality({a}) = 1
    BY FS_Singleton
  <2>3. IsFiniteSet({a} \cup {b}) /\ Cardinality({a} \cup {b}) \in {1, 2}
    BY <2>2, FS_AddElement
  <2>4. {a, b} = {a} \cup {b}
    OBVIOUS
  <2> HIDE DEF a, b, new
  <2>5. IsFiniteSet(new) /\ Cardinality(new) \in {1, 2}
    BY <2>1, <2>3, <2>4
  <2>6. Cardinality(new) <= Cardinality(Job)
    BY <2>5, BoundsAreNumbers
  <2>7. new \in SUBSET JobDocument
    BY <1>4 DEF new
  <2> QED BY <2>5, <2>6, <2>7
<1>6. /\ job \in [Job -> JobDocument]
      /\ \A j \in Job : job[j] = NoDocument \/ job[j] \in new
  <2>1. empty \in [Job -> JobDocument]
    BY <1>2
  <2> HIDE DEF new
  <2> QED BY <1>1, <1>5, <2>1, FilledInserts
<1>7. \A j \in Job :
        \/ job[j] = NoDocument
        \/ /\ job[j].status = "queued" /\ job[j].gen = 0 /\ job[j].cancel = FALSE
           /\ job[j].attempt = 1 /\ job[j].policy = 1 /\ job[j].made = input
  <2>1. \A d \in new : /\ d.status = "queued" /\ d.gen = 0 /\ d.cancel = FALSE
                       /\ d.attempt = 1 /\ d.policy = 1 /\ d.made = input
    BY <1>4
  <2> HIDE DEF new, input
  <2> QED BY <1>6, <2>1
<1>8. /\ NoDocument.status = "unused" /\ NoDocument.gen = 0 /\ NoDocument.cancel = FALSE
      /\ NoDocument.attempt = 1 /\ NoDocument.policy = 0 /\ NoDocument.made = None
  BY DEF NoDocument
<1>9. TypeInv
  <2>1. highWater \in 0..MaxGeneration /\ owner \in Owner \cup {None}
    BY <1>1, NumbersFit
  <2>2. article \in Article
    <3>1. Blank("pending") \in Artifact
      BY BlankIsTyped
    <3>2. 1 \in 1..MaxContent
      BY BoundsAreNumbers
    <3> QED BY <1>1, <3>1, <3>2 DEF Article
  <2>3. src \in [version: 1..MaxPolicy, active: BOOLEAN, licensed: BOOLEAN,
                 allows: SUBSET Purpose, marked: BOOLEAN]
    BY <1>1, BoundsAreNumbers
  <2>4. worker \in [Worker -> WorkerState] /\ \A w \in Worker : Shape(worker[w], job)
    BY <1>1, IdleIsTyped
  <2> QED BY <1>6, <2>1, <2>2, <2>3, <2>4 DEF TypeInv, DocumentsOK
<1>10. \A w \in Worker : worker[w] = Idle
  BY <1>1
<1>11. AttemptsFit
  <2> SUFFICES ASSUME NEW j \in Job
               PROVE  job[j].attempt + Cardinality(Behind(j))
                        <= MaxAttempts + Cardinality(Worker) - 1
    BY DEF AttemptsFit
  <2>1. job[j].attempt = 1
    BY <1>7, <1>8
  <2>2. Behind(j) = {}
    BY <1>10 DEF Behind, Idle
  <2>3. Cardinality(Behind(j)) = 0
    BY <2>2, FS_EmptySet
  <2> QED BY <2>1, <2>3, BoundsAreNumbers
<1>12. Generations
  BY <1>1, <1>10 DEF Generations, Idle
<1>13. Documents
  <2>1. src.version = 1
    BY <1>1
  <2> QED BY <1>1, <1>7, <1>8, <2>1 DEF Documents
<1>14. Texts
  <2>1. article.summary.status = "pending"
    BY <1>1 DEF Blank
  <2>2. \A j \in Job : job[j].made = None \/ job[j].made.text = None
    BY <1>7, <1>8
  <2> QED BY <2>1, <2>2 DEF Texts
<1>15. Versions
  BY <1>1 DEF Versions, Purpose, Blank
<1>16. Earned
  BY <1>1 DEF Earned, MayRecord
<1>17. Owed
  BY <1>1 DEF Owed, Lags, Blank
<1>18. Views
  <2>1. batch = {} /\ seen = [w \in Worker |-> {}]
    BY DEF Init
  <2> QED BY <2>1 DEF Views
<1> QED BY <1>9, <1>11, <1>12, <1>13, <1>14, <1>15, <1>16, <1>17, <1>18 DEF IInv, CoreInv

LEMMA StutterHolds == ASSUME IInv, UNCHANGED vars PROVE IInv'
<1>1. /\ highWater' = highWater /\ owner' = owner /\ job' = job /\ article' = article
      /\ src' = src /\ worker' = worker /\ seen' = seen /\ batch' = batch
  BY DEF vars
<1>2. CoreInv /\ TypeInv /\ Documents /\ Earned /\ Views
  BY DEF IInv, CoreInv
<1>3. /\ job' \in [Job -> JobDocument] /\ Documented(None) /\ NoneSucceeds
      /\ article' \in Article /\ NoNewText /\ SourceGrows /\ owner' \in Owner \cup {None}
  BY <1>1, <1>2, SameIsPlain
<1>4. Plain(None)
  BY <1>1, <1>2, <1>3, SourceIsTyped, PlainGo
<1>5. Earned'
  BY <1>1, <1>2, <1>4, EarnedStays DEF OwnerKept, NoNewSuccess
<1>6. Views'
  BY <1>1, <1>2 DEF Views, Earlier
<1> QED BY <1>2, <1>3, <1>4, <1>5, <1>6, PlainKeeps DEF IInv, CoreInv

Binds(w) == (\E j \in Job : Select(w, j)) \/ Acquire(w)

\* Every step is plain, or begins something.
LEMMA StepsAre ==
    ASSUME Step \/ Ingest
    PROVE  PlainStep \/ \E w \in Worker : Binds(w) \/ Claim(w) \/ Defer(w) \/ Answer(w)
<1>1. ASSUME NEW w \in Worker, Queue(w)
      PROVE  PlainStep \/ Binds(w) \/ Claim(w) \/ Defer(w)
  BY <1>1 DEF Queue, PlainStep, Binds
<1>2. ASSUME NEW w \in Worker, Processor(w)
      PROVE  PlainStep \/ Answer(w)
  BY <1>2 DEF Processor, PlainStep
<1>3. ASSUME NEW w \in Worker, Crash(w)
      PROVE  PlainStep
  BY <1>3 DEF PlainStep
<1>4. CASE Expire \/ Recover \/ AdminStep \/ Outside \/ Ingest
  BY <1>4 DEF Outside, PlainStep
<1> QED BY <1>1, <1>2, <1>3, <1>4 DEF Step

\* A step of the specification is one of these, beside what the others have read.
LEMMA NextIs ==
    ASSUME Next
    PROVE  (Step \/ Ingest) /\ \E written : Snapshots(written)
BY DEF Next, Beside

LEMMA PlainStepIsPlain ==
    ASSUME CoreInv, Views, PlainStep
    PROVE  \E text : Plain(text)
<1>1. TypeInv /\ Documents
  BY DEF CoreInv
<1> QED
  BY <1>1, WorkerStepIsPlain, CompleteIsPlain, BlankingIsPlain, ExpireIsPlain, RecoverIsPlain,
     AdminIsPlain, IngestIsPlain, ModerationIsPlain, SourceStepIsPlain DEF PlainStep

LEMMA NextHolds == IInv /\ [Next]_vars => IInv'
<1> SUFFICES ASSUME IInv, [Next]_vars PROVE IInv'
  OBVIOUS
<1>1. CASE UNCHANGED vars
  BY <1>1, StutterHolds
<1>2. CASE Next
  <2>1. CoreInv /\ Views /\ TypeInv
    BY DEF IInv, CoreInv
  <2>2. PlainStep \/ \E w \in Worker : Binds(w) \/ Claim(w) \/ Defer(w) \/ Answer(w)
    BY <1>2, StepsAre, NextIs
  <2>3. CoreInv'
    BY <2>1, <2>2, PlainStepsKeep, SelectKeeps, AcquireKeeps, ClaimKeeps, DeferKeeps,
       AnswerKeeps DEF Binds
  <2>4. SourceGrows
    <3>1. CASE PlainStep
      BY <2>1, <3>1, PlainStepIsPlain DEF Plain
    <3>2. ASSUME NEW w \in Worker, Binds(w) \/ Claim(w) \/ Defer(w) \/ Answer(w)
          PROVE  SourceGrows
      <4>1. src' = src
        BY <3>2 DEF Binds, Select, Acquire, Claim, Defer, Answer
      <4> QED BY <2>1, <4>1, SameIsPlain
    <3> QED BY <2>2, <3>1, <3>2
  <2>5. TypeInv'
    BY <2>3 DEF CoreInv
  <2>6. PICK written : Snapshots(written)
    BY <1>2, NextIs
  <2>7. Views'
    BY <2>1, <2>4, <2>5, <2>6, ViewsStay
  <2> QED BY <2>3, <2>7 DEF IInv
<1> QED BY <1>1, <1>2

\* The invariant of the argument holds of every reachable state.
THEOREM InvariantHolds == Spec => []IInv
BY InitHolds, NextHolds, PTL DEF Spec

\* Documents, leases, artifacts and invocations are what the types say; the attempts
\* of a job, counted in place by invocations with old copies, stay within the limit
\* and the number of invocations.
THEOREM TypeCorrect == Spec => []TypeOK
<1>1. IInv => TypeOK
  BY DEF IInv, CoreInv, TypeInv, Views, TypeOK
<1> QED BY <1>1, InvariantHolds, PTL

\* A visible article whose embedding is of an older summary is owed a new one.
THEOREM StaleEmbeddingStaysOwed == Spec => []StaleEmbeddingIsOwed
<1>1. IInv => StaleEmbeddingIsOwed
  BY DEF IInv, CoreInv, Owed, Owes, Lags, StaleEmbeddingIsOwed, Allowed, Permits
<1> QED BY <1>1, InvariantHolds, PTL

-----------------------------------------------------------------------------
(* What a step may never do *)

LEMMA LateOutputStepHolds ==
    ASSUME IInv, [Next]_vars
    PROVE  LateOutputStep
<1>1. CoreInv /\ TypeInv /\ Documents /\ Views
  BY DEF IInv, CoreInv
<1>2. CASE article' = article
  BY <1>2 DEF LateOutputStep
<1>3. CASE PlainStep
  <2>1. PICK text : Plain(text)
    BY <1>1, <1>3, PlainStepIsPlain
  <2> QED BY <2>1 DEF Plain, NoNewText, LateOutputStep
<1>4. ASSUME NEW w \in Worker, Answer(w) PROVE LateOutputStep
  <2> DEFINE j == worker[w].job
             task == job[j].task
  <2>1. /\ task \in Purpose /\ worker[w].input = InputUnder(job[j].policy, task)
        /\ article'[task] = [status |-> "ready", of |-> worker[w].input, text |-> j]
        /\ \A q \in Purpose \ {task} : article'[q] = article[q]
    BY <1>1, <1>4, AnswerWrites
  <2>2. PICK read \in Reads(w) : Writable(w, read, FALSE)
    BY <1>4 DEF Answer
  <2>3. /\ article.status = "published" /\ Owns(w) /\ ~read.cancel
        /\ read.source.version = job[j].policy /\ Permits(read.source, task)
    BY <2>2 DEF Writable
  <2>4. /\ job[j].status = "running"
        /\ owner # None /\ owner.live /\ owner.job = j /\ owner.gen = job[j].gen
        /\ worker[w].gen = owner.gen
    BY <2>3 DEF Owns, Fenced
  <2> SUFFICES ASSUME NEW p \in Purpose, article'[p] # article[p]
               PROVE  /\ article'[p].of = InputUnder(job[j].policy, p) /\ article'[p].text = j
                      /\ Permits(read.source, p)
    BY <2>3, <2>4 DEF LateOutputStep
  <2>5. p = task
    BY <2>1
  <2> QED BY <2>1, <2>3, <2>5
<1>5. ASSUME NEW w \in Worker, Binds(w) \/ Claim(w) \/ Defer(w) PROVE LateOutputStep
  BY <1>2, <1>5 DEF Binds, Select, Acquire, Claim, Defer
<1>6. CASE UNCHANGED vars
  BY <1>2, <1>6 DEF vars
<1>7. CASE Next
  <2>1. PlainStep \/ \E w \in Worker : Binds(w) \/ Claim(w) \/ Defer(w) \/ Answer(w)
    BY <1>7, NextIs, StepsAre
  <2> QED BY <1>3, <1>4, <1>5, <2>1
<1> QED BY <1>6, <1>7

\* A text is put on the article only by the live owner of its lease, from the article
\* as it is, by a transaction that has read that the job is not cancelled and that the
\* policy it was made for permits it.
THEOREM LateOutputDropped == Spec => LateOutputIsDropped
<1>1. IInv /\ [Next]_vars => [LateOutputStep]_vars
  BY LateOutputStepHolds
<1> QED BY <1>1, InvariantHolds, PTL DEF Spec, LateOutputIsDropped

\* A job succeeds in no step but its invocation's Complete.
LEMMA OnlyCompleteSucceeds ==
    ASSUME IInv, [Next]_vars, \A w \in Worker : ~Complete(w)
    PROVE  NoneSucceeds
<1>1. CoreInv /\ TypeInv /\ Documents /\ Generations /\ Views
  BY DEF IInv, CoreInv
<1>2. CASE job' = job
  BY <1>2 DEF NoneSucceeds
<1>3. CASE UNCHANGED vars
  BY <1>2, <1>3 DEF vars
<1>4. CASE PlainStep
  BY <1>1, <1>4, WorkerStepIsPlain, BlankingIsPlain, ExpireIsPlain, RecoverIsPlain,
     AdminIsPlain, IngestIsPlain, ModerationIsPlain, SourceStepIsPlain DEF PlainStep
<1>5. ASSUME NEW w \in Worker, Binds(w) PROVE NoneSucceeds
  BY <1>2, <1>5 DEF Binds, Select, Acquire
<1>6. ASSUME NEW w \in Worker, Claim(w) PROVE NoneSucceeds
  BY <1>1, <1>6, ClaimDocuments DEF Generations
<1>7. ASSUME NEW w \in Worker, Answer(w) PROVE NoneSucceeds
  BY <1>1, <1>7, AnswerDocuments
<1>8. ASSUME NEW w \in Worker, Defer(w) PROVE NoneSucceeds
  <2>1. /\ worker[w].job \in Job
        /\ job' = [job EXCEPT ![worker[w].job] = job'[worker[w].job]]
        /\ GivenBack(worker[w], job[worker[w].job], job'[worker[w].job])
    BY <1>1, <1>8, DeferDocuments
  <2>2. job \in [Job -> JobDocument]
    BY <1>1 DEF TypeInv, DocumentsOK
  <2>3. \A k \in Job : k # worker[w].job => job'[k] = job[k]
    BY <2>1, <2>2
  <2> QED BY <2>1, <2>3 DEF NoneSucceeds, GivenBack
<1> QED BY <1>3, <1>4, <1>5, <1>6, <1>7, <1>8, NextIs, StepsAre

LEMMA SuccessStepHolds ==
    ASSUME IInv, [Next]_vars
    PROVE  SuccessStep
<1>1. TypeInv /\ Documents /\ Earned /\ Views
  BY DEF IInv, CoreInv
<1>2. CASE \A w \in Worker : ~Complete(w)
  BY <1>2, OnlyCompleteSucceeds DEF NoneSucceeds, SuccessStep
<1>3. ASSUME NEW w \in Worker, Complete(w) PROVE SuccessStep
  <2> DEFINE j == worker[w].job
  <2>1. Is(w, "completing") /\ Owns(w)
    BY <1>3 DEF Complete
  <2>2. j \in Job /\ \A k \in Job : k # j => job'[k] = job[k]
    BY <1>1, <1>3, <2>1, CompleteDocuments, NamesAJob, UnderWay DEF Is
  <2> SUFFICES ASSUME job'[j].status = "succeeded", job[j].task \in Purpose,
                      article.status = "published"
               PROVE  EarnedBy(j)
    BY <2>2 DEF SuccessStep, EarnedBy, IsThere
  <2>3. worker[w].result = "succeeded"
    BY <1>1, <1>3, <2>2, SucceedsByResult
  <2>4. MayRecord(w)
    BY <2>1, <2>3 DEF MayRecord, Is, Owns, Fenced
  <2> QED BY <1>1, <2>2, <2>4 DEF Earned
<1> QED BY <1>2, <1>3

LEMMA CancellationStepHolds ==
    ASSUME IInv, [Next]_vars
    PROVE  CancellationStep
<1>1. CoreInv /\ TypeInv /\ Documents /\ Generations /\ Views
  BY DEF IInv, CoreInv
<1>2. ASSUME NEW text, Documented(text) PROVE CancellationStep
  <2> SUFFICES ASSUME NEW j \in Job, job[j].cancel
               PROVE  job'[j].cancel /\ job'[j].status # "queued"
    BY DEF CancellationStep
  <2>1. job[j].status # "unused" /\ job[j].status # "queued"
    BY <1>1 DEF Documents, NoDocument
  <2> QED BY <1>2, <2>1 DEF Documented, Kept
<1>3. CASE UNCHANGED vars
  <2>1. Documented(None)
    BY <1>3 DEF vars, Documented
  <2> QED BY <1>2, <2>1
<1>4. CASE PlainStep
  BY <1>1, <1>2, <1>4, PlainStepIsPlain DEF Plain
<1>5. ASSUME NEW w \in Worker, Binds(w) PROVE CancellationStep
  <2>1. Documented(None)
    BY <1>5 DEF Binds, Select, Acquire, Documented
  <2> QED BY <1>2, <2>1
<1>6. ASSUME NEW w \in Worker, Claim(w) PROVE CancellationStep
  BY <1>1, <1>2, <1>6, ClaimDocuments DEF Generations
<1>7. ASSUME NEW w \in Worker, Answer(w) PROVE CancellationStep
  <2>1. Documented(worker[w].job)
    BY <1>1, <1>7, AnswerDocuments
  <2> QED BY <1>2, <2>1
<1>8. ASSUME NEW w \in Worker, Defer(w) PROVE CancellationStep
  <2>1. /\ worker[w].job \in Job
        /\ job' = [job EXCEPT ![worker[w].job] = job'[worker[w].job]]
        /\ GivenBack(worker[w], job[worker[w].job], job'[worker[w].job])
    BY <1>1, <1>8, DeferDocuments
  <2>2. job \in [Job -> JobDocument]
    BY <1>1 DEF TypeInv, DocumentsOK
  <2>3. \A k \in Job : k # worker[w].job => job'[k] = job[k]
    BY <2>1, <2>2
  <2> QED BY <1>1, <2>1, <2>3 DEF CancellationStep, GivenBack, Documents
<1> QED BY <1>3, <1>4, <1>5, <1>6, <1>7, <1>8, NextIs, StepsAre

LEMMA TakingStepHolds ==
    ASSUME IInv, [Next]_vars
    PROVE  TakingStep
<1>1. CoreInv /\ TypeInv /\ Documents /\ Generations /\ Views
  BY DEF IInv, CoreInv
<1>2. ASSUME RunnersRun PROVE TakingStep
  BY <1>2 DEF RunnersRun, TakingStep
<1>3. CASE job' = job
  BY <1>3 DEF TakingStep
<1>4. ASSUME NEW w \in Worker, Complete(w) \/ Defer(w) PROVE TakingStep
  <2> DEFINE j == worker[w].job
  <2>1. \A k \in Job : k # j => job'[k] = job[k]
    <3>1. job \in [Job -> JobDocument]
      BY <1>1 DEF TypeInv, DocumentsOK
    <3>2. CASE Complete(w)
      BY <1>1, <3>2, CompleteDocuments
    <3>3. CASE Defer(w)
      <4>1. j \in Job /\ job' = [job EXCEPT ![j] = job'[j]]
        BY <1>1, <3>3, DeferDocuments
      <4> QED BY <3>1, <4>1
    <3> QED BY <1>4, <3>2, <3>3
  <2>2. Owns(w) /\ worker[w].pc \in {"completing", "deferring"}
    BY <1>4 DEF Complete, Defer, Is
  <2> QED BY <2>1, <2>2 DEF TakingStep, Owns
<1>5. CASE Recover
  <2>1. owner # None /\ ~owner.live
    BY <1>5 DEF Recover
  <2> QED BY <2>1 DEF TakingStep
<1>6. ASSUME NEW w \in Worker, Claim(w) PROVE TakingStep
  <2>1. /\ job[worker[w].job].status = "queued"
        /\ job' = [job EXCEPT ![worker[w].job].status = "running",
                              ![worker[w].job].gen = worker[w].gen]
        /\ job \in [Job -> JobDocument]
    BY <1>1, <1>6 DEF Claim, TypeInv, DocumentsOK
  <2>2. \A k \in Job : k # worker[w].job => job'[k] = job[k]
    BY <2>1
  <2>3. RunnersRun
    BY <2>1, <2>2 DEF RunnersRun
  <2> QED BY <1>2, <2>3
<1>7. ASSUME NEW w \in Worker, Answer(w) PROVE TakingStep
  BY <1>1, <1>2, <1>7, AnswerDocuments
<1>8. CASE AdminStep \/ Materialize
  BY <1>1, <1>2, <1>8, AdminDocuments
<1>9. CASE Ingest
  BY <1>1, <1>2, <1>9, IngestDocuments
<1>10. CASE UNCHANGED vars
  BY <1>3, <1>10 DEF vars
<1>11. CASE Next
  <2>1. ASSUME NEW w \in Worker, Queue(w) \/ Processor(w) \/ Crash(w)
        PROVE  job' = job \/ Complete(w) \/ Defer(w) \/ Claim(w) \/ Answer(w)
    BY <2>1 DEF Queue, Processor, Crash, Select, Acquire, NotAdmitted, ClaimFails, Release,
         Start, DeadlineFires, HeartbeatLost, Unresolved, Abandon, Capture, Reconcile, Mark,
         ProviderFails, AnswerCancelled, AnswerStale
  <2>2. CASE Expire \/ Hide \/ Cleanup \/ ReReview \/ Review \/ PauseOrActivate
    BY <1>3, <2>2 DEF Expire, Hide, Cleanup, ReReview, Review, PauseOrActivate
  <2> QED BY <1>3, <1>4, <1>5, <1>6, <1>7, <1>8, <1>9, <1>11, <2>1, <2>2, NextIs DEF Step, Outside
<1> QED BY <1>10, <1>11

\* A success is earned by its artifact, a cancellation stays asked for, and a job under
\* a live lease is ended by its own invocation.
THEOREM EndsEarned == Spec => EndsAreEarned
<1>1. IInv /\ [Next]_vars => [SuccessStep /\ CancellationStep /\ TakingStep]_vars
  BY SuccessStepHolds, CancellationStepHolds, TakingStepHolds
<1> QED BY <1>1, InvariantHolds, PTL DEF Spec, EndsAreEarned

=============================================================================
