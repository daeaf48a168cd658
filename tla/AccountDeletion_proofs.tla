----------------------- MODULE AccountDeletion_proofs -----------------------
(***************************************************************************)
(* What the flags of an account deletion prove, for any number of workers  *)
(* and user transactions and any lengths of lease and deferral.            *)
(*                                                                         *)
(* FlagsAreEvidence is not inductive: that the tombstone comes last is     *)
(* known to a worker, which writes it after the flags IT has seen.  IInv   *)
(* adds that what a worker under a valid claim has seen is still in the    *)
(* document, and that no flag is set before the user is marked.            *)
(***************************************************************************)
EXTENDS AccountDeletion, TLAPS

\* The user is marked by the transaction that opens the workflow.
MarkedWhenOpened ==
    /\ request.status = "none" <=> user = "active"
    /\ user = "active" => request.done = {}

\* A worker whose claim is valid has seen only flags that are set.
SeenIsSet ==
    \A w \in Worker :
        Fenced(w) /\ worker[w].pc \in {"cleaning", "completing"} =>
            worker[w].done \subseteq request.done

CompletingSawAll == \A w \in Worker : worker[w].pc = "completing" => worker[w].done = Item

\* No clock runs on a closed request.
ClosedAtRest ==
    /\ request.status = "running" => request.wait = 0
    /\ request.status \in {"completed", "purged"} => request.lease = 0 /\ request.wait = 0

IInv == TypeOK /\ MarkedWhenOpened /\ SeenIsSet /\ CompletingSawAll /\ FlagsAreEvidence

-----------------------------------------------------------------------------
(* Data *)

LEMMA Items ==
    Item = {"sessions", "savedArticles", "chatSessions", "answerAttempts", "userQuota",
            "identity"}
<1>1. /\ Steps[1] = "sessions" /\ Steps[2] = "savedArticles" /\ Steps[3] = "chatSessions"
      /\ Steps[4] = "answerAttempts" /\ Steps[5] = "userQuota" /\ Steps[6] = "identity"
  BY DEF Steps
<1>2. 1..6 = {1, 2, 3, 4, 5, 6}
  OBVIOUS
<1> QED BY <1>1, <1>2 DEF Item

\* The tombstone's turn comes when every other flag has been seen.
LEMMA IdentityIsLast ==
    ASSUME NEW w \in Worker, Turn(w, "identity")
    PROVE  Item \subseteq worker[w].done \cup {"identity"}
<1>1. /\ Steps[1] = "sessions" /\ Steps[2] = "savedArticles" /\ Steps[3] = "chatSessions"
      /\ Steps[4] = "answerAttempts" /\ Steps[5] = "userQuota" /\ Steps[6] = "identity"
  BY DEF Steps
<1>2. PICK i \in 1..6 : /\ "identity" = Steps[i]
                        /\ \A j \in 1..(i - 1) : Steps[j] \in worker[w].done
  BY DEF Turn
<1>3. i = 6
  BY <1>1, <1>2
<1>4. \A j \in 1..5 : Steps[j] \in worker[w].done
  BY <1>2, <1>3
<1> QED BY <1>1, <1>4, Items

LEMMA TurnIsItem ==
    ASSUME NEW w \in Worker, NEW k \in Item, Turn(w, k)
    PROVE  k \notin worker[w].done
BY DEF Turn

-----------------------------------------------------------------------------
(* Types *)

LEMMA RequeuedType ==
    ASSUME TypeOK, NEW wait \in 0..DeferTicks
    PROVE  Requeued(wait) \in Request
<1>1. request \in Request
  BY DEF TypeOK
<1>2. 0 \in 0..LeaseTicks
  BY BoundsAssumption
<1> QED BY <1>1, <1>2 DEF Requeued, Request

\* Every change of a worker's record keeps its shape.
LEMMA StepType ==
    ASSUME TypeOK, NEW w \in Worker,
           NEW pc \in {"idle", "selected", "deferring", "cleaning", "failing", "completing"},
           Step(w, pc)
    PROVE  worker' \in [Worker -> WorkerState]
BY DEF TypeOK, Step, WorkerState

LEMMA EndType ==
    ASSUME TypeOK, NEW w \in Worker, End(w)
    PROVE  worker' \in [Worker -> WorkerState]
BY DEF TypeOK, End, Idle, WorkerState

LEMMA GoOnType ==
    ASSUME TypeOK, NEW w \in Worker, NEW done \in SUBSET Item, GoOn(w, done)
    PROVE  worker' \in [Worker -> WorkerState]
BY DEF TypeOK, GoOn, WorkerState

LEMMA InitIsGood == Init => IInv
<1> SUFFICES ASSUME Init PROVE IInv
  OBVIOUS
<1>1. TypeOK
  BY BoundsAssumption DEF Init, TypeOK, Request, WorkerState, WriterState, Idle, NoWrite
<1>2. MarkedWhenOpened /\ SeenIsSet /\ CompletingSawAll
  BY DEF Init, MarkedWhenOpened, SeenIsSet, CompletingSawAll, Idle, Fenced
<1>3. FlagsAreEvidence
  BY DEF Init, FlagsAreEvidence
<1> QED BY <1>1, <1>2, <1>3 DEF IInv

-----------------------------------------------------------------------------
(* Every step keeps the state typed *)

LEMMA WorkerStepTyped ==
    ASSUME TypeOK, NEW w \in Worker, WorkerStep(w)
    PROVE  TypeOK'
<1>0. request \in Request /\ 0 \in 0..LeaseTicks /\ worker[w] \in WorkerState
  BY BoundsAssumption DEF TypeOK
<1>1. CASE SelectDue(w)
  BY <1>1, StepType DEF SelectDue, TypeOK
<1>2. CASE Claim(w)
  <2>1. request' \in Request
    <3>1. PICK lease \in 1..LeaseTicks :
            request' = [request EXCEPT !.status = "running", !.owner = w, !.lease = lease]
      BY <1>2 DEF Claim
    <3>2. lease \in 0..LeaseTicks
      BY BoundsAssumption
    <3> QED BY <1>0, <3>1, <3>2 DEF Request
  <2>2. worker' \in [Worker -> WorkerState]
    <3>1. request.done \in SUBSET Item
      BY <1>0 DEF Request
    <3> QED BY <1>2, <3>1, GoOnType, StepType, EndType DEF Claim
  <2> QED BY <1>2, <2>1, <2>2 DEF Claim, TypeOK
<1>3. CASE DeferClaimed(w)
  <2>1. request' \in Request
    BY <1>3, RequeuedType, BoundsAssumption DEF DeferClaimed
  <2> QED BY <1>3, <2>1, EndType DEF DeferClaimed, TypeOK
<1>4. ASSUME NEW k \in Item, CleanUp(w, k)
      PROVE  TypeOK'
  <2>1. request' \in Request
    BY <1>0, <1>4 DEF CleanUp, Request
  <2>2. worker[w].done \cup {k} \in SUBSET Item
    BY <1>0 DEF WorkerState
  <2>3. worker' \in [Worker -> WorkerState]
    BY <1>4, <2>2, GoOnType, StepType, EndType DEF CleanUp
  <2> QED BY <1>4, <2>1, <2>3 DEF CleanUp, TypeOK
<1>5. CASE CleanUpFails(w)
  BY <1>5, StepType, EndType DEF CleanUpFails, TypeOK
<1>6. CASE Fail(w)
  <2>1. Requeued(request.wait) \in Request
    BY <1>0, RequeuedType DEF Request
  <2>2. request' \in Request
    BY <1>6, <2>1 DEF Fail, Request
  <2> QED BY <1>6, <2>2, EndType DEF Fail, TypeOK
<1>7. CASE Complete(w)
  <2>1. request' \in Request
    BY <1>0, <1>7 DEF Complete, Request, WorkerState
  <2> QED BY <1>7, <2>1, EndType DEF Complete, TypeOK
<1>8. CASE Deadline(w)
  <2>1. worker' \in [Worker -> WorkerState]
    BY <1>0, <1>8 DEF Deadline, TypeOK, WorkerState
  <2> QED BY <1>8, <2>1 DEF Deadline, TypeOK
<1>9. CASE Leave(w)
  BY <1>9, EndType DEF Leave, TypeOK
<1> QED
  BY <1>1, <1>2, <1>3, <1>4, <1>5, <1>6, <1>7, <1>8, <1>9 DEF WorkerStep

LEMMA WriterStepTyped ==
    ASSUME TypeOK, NEW x \in Writer, WriterStep(x)
    PROVE  TypeOK'
<1>1. NoWrite \in WriterState
  BY DEF NoWrite, WriterState
<1>2. \E state \in WriterState : writer' = [writer EXCEPT ![x] = state]
  <2>1. CASE OpenWrite(x)
    <3>1. PICK k \in Write :
            writer' = [writer EXCEPT ![x] = [write |-> k, bucket |-> "userQuota" \in data]]
      BY <2>1 DEF OpenWrite
    <3>2. ("userQuota" \in data) \in BOOLEAN
      OBVIOUS
    <3>3. [write |-> k, bucket |-> "userQuota" \in data] \in WriterState
      BY <3>2 DEF WriterState
    <3> QED BY <3>1, <3>3
  <2>2. CASE writer' = [writer EXCEPT ![x] = NoWrite]
    BY <1>1, <2>2
  <2> QED
    BY <2>1, <2>2 DEF WriterStep, SaveVisibleArticle, AppendAnswer, ReserveAnswerAttempt,
                      CreateSession, AbortWrite, Insert
<1>3. data' \in SUBSET Kind
  BY Items DEF WriterStep, OpenWrite, SaveVisibleArticle, AppendAnswer, ReserveAnswerAttempt,
               CreateSession, AbortWrite, Insert, TypeOK, Kind
<1>4. writer' \in [Writer -> WriterState]
  BY <1>2 DEF TypeOK
<1> QED
  BY <1>3, <1>4 DEF WriterStep, OpenWrite, SaveVisibleArticle, AppendAnswer,
                    ReserveAnswerAttempt, CreateSession, AbortWrite, Insert, TypeOK

LEMMA TickTyped ==
    ASSUME TypeOK, Tick
    PROVE  TypeOK'
<1> DEFINE lease == IF request.lease = 0 THEN 0 ELSE request.lease - 1
           wait == IF request.wait = 0 THEN 0 ELSE request.wait - 1
<1>1. request \in Request
  BY DEF TypeOK
<1>2. lease \in 0..LeaseTicks /\ wait \in 0..DeferTicks
  BY <1>1, BoundsAssumption DEF Request
<1>3. request' = [request EXCEPT !.lease = lease, !.wait = wait]
  BY DEF Tick
<1> HIDE DEF lease, wait
<1>4. request' \in Request
  BY <1>1, <1>2, <1>3 DEF Request
<1> QED BY <1>4 DEF Tick, TypeOK

LEMMA NextTyped == TypeOK /\ [Next]_vars => TypeOK'
<1> SUFFICES ASSUME TypeOK, [Next]_vars PROVE TypeOK'
  OBVIOUS
<1>0. request \in Request
  BY DEF TypeOK
<1>1. CASE UNCHANGED vars
  BY <1>1 DEF vars, TypeOK
<1>2. CASE RequestDeletion
  <2>1. request' \in Request
    BY <1>0, <1>2 DEF RequestDeletion, Request
  <2> QED BY <1>2, <2>1 DEF RequestDeletion, TypeOK
<1>3. CASE Retry \/ RecoverExpired
  <2>1. request' \in Request
    BY <1>3, RequeuedType, BoundsAssumption DEF Retry, RecoverExpired
  <2> QED BY <1>3, <2>1 DEF Retry, RecoverExpired, TypeOK
<1>4. CASE Purge
  <2>1. request' \in Request
    BY <1>0, <1>4 DEF Purge, Request
  <2> QED BY <1>4, <2>1 DEF Purge, TypeOK
<1> QED
  BY <1>1, <1>2, <1>3, <1>4, WorkerStepTyped, WriterStepTyped, TickTyped DEF Next

-----------------------------------------------------------------------------
(* Every step keeps the evidence *)

\* A step of one worker keeps what workers have seen, if it does for that worker,
\* lets no other one into a claim and takes no flag back.
LEMMA SeenKept ==
    ASSUME SeenIsSet, CompletingSawAll, NEW w \in Worker,
           request.done \subseteq request'.done,
           \A v \in Worker \ {w} : worker'[v] = worker[v] /\ (Fenced(v)' => Fenced(v)),
           worker'[w].pc \in {"cleaning", "completing"} /\ Fenced(w)' =>
               worker'[w].done \subseteq request'.done,
           worker'[w].pc = "completing" => worker'[w].done = Item
    PROVE  SeenIsSet' /\ CompletingSawAll'
BY DEF SeenIsSet, CompletingSawAll

\* Changes of the request outside the workers never make a claim valid.
LEMMA SeenKeptByOthers ==
    ASSUME SeenIsSet, CompletingSawAll, UNCHANGED worker,
           request.done \subseteq request'.done,
           \A v \in Worker : Fenced(v)' => Fenced(v)
    PROVE  SeenIsSet' /\ CompletingSawAll'
BY DEF SeenIsSet, CompletingSawAll

\* What a worker's record becomes.
LEMMA StepRecord ==
    ASSUME TypeOK, NEW w \in Worker, NEW pc, Step(w, pc)
    PROVE  /\ worker'[w].pc = pc /\ worker'[w].done = worker[w].done
           /\ \A v \in Worker \ {w} : worker'[v] = worker[v]
BY DEF TypeOK, Step, WorkerState

LEMMA EndRecord ==
    ASSUME TypeOK, NEW w \in Worker, End(w)
    PROVE  /\ worker'[w].pc = "idle"
           /\ \A v \in Worker \ {w} : worker'[v] = worker[v]
BY DEF TypeOK, End, Idle

LEMMA GoOnRecord ==
    ASSUME TypeOK, NEW w \in Worker, NEW done, GoOn(w, done)
    PROVE  /\ worker'[w].pc = IF done = Item THEN "completing" ELSE "cleaning"
           /\ worker'[w].done = done
           /\ \A v \in Worker \ {w} : worker'[v] = worker[v]
BY DEF TypeOK, GoOn

\* A transaction of the worker that holds the claim: the batch that sets flag k.
LEMMA CleanUpKeeps ==
    ASSUME IInv, NEW w \in Worker, NEW k \in Item, CleanUp(w, k)
    PROVE  IInv'
<1>1. /\ worker[w].pc = "cleaning" /\ Turn(w, k) /\ Fenced(w)
      /\ user = "deletion-pending" \/ (k = "identity" /\ user = "deleted")
      /\ user' = IF k = "identity" THEN "deleted" ELSE user
      /\ data' = data \ {k}
      /\ UNCHANGED suppressed
  BY DEF CleanUp
<1>2. /\ request'.done = request.done \cup {k}
      /\ request'.status = request.status /\ request'.owner = request.owner
  BY DEF CleanUp, IInv, TypeOK, Request
<1>3. worker[w].done \subseteq request.done /\ request.done \subseteq Item
  BY <1>1 DEF IInv, SeenIsSet, TypeOK, Request
<1>4. SeenIsSet' /\ CompletingSawAll'
  <2>1. /\ \A v \in Worker \ {w} : worker'[v] = worker[v]
        /\ worker'[w].pc \in {"cleaning", "completing"} =>
             worker'[w].done = worker[w].done \cup {k}
        /\ worker'[w].pc = "completing" => worker'[w].done = Item
    <3>1. CASE GoOn(w, worker[w].done \cup {k})
      BY <3>1, GoOnRecord DEF IInv
    <3>2. CASE Step(w, "failing")
      BY <3>2, StepRecord DEF IInv
    <3>3. CASE End(w)
      BY <3>3, EndRecord DEF IInv
    <3> QED BY <3>1, <3>2, <3>3 DEF CleanUp
  <2>2. \A v \in Worker : Fenced(v)' => Fenced(v)
    BY <1>2 DEF Fenced
  <2> QED BY <1>2, <1>3, <2>1, <2>2, SeenKept DEF IInv
<1>5. MarkedWhenOpened'
  BY <1>1, <1>2 DEF IInv, MarkedWhenOpened, Fenced
<1>6. FlagsAreEvidence'
  <2>1. k = "identity" => request'.done = Item
    BY <1>1, <1>2, <1>3, IdentityIsLast
  <2>2. request'.done \cap {"savedArticles", "chatSessions"} \cap data' = {}
    BY <1>1, <1>2 DEF IInv, FlagsAreEvidence
  <2>3. "identity" \in request'.done <=> user' = "deleted"
    BY <1>1, <1>2 DEF IInv, FlagsAreEvidence
  <2>4. "identity" \in request'.done => request'.done = Item
    BY <1>2, <1>3, <2>1 DEF IInv, FlagsAreEvidence
  <2>5. request'.status = "running" /\ suppressed' = 0
    BY <1>1, <1>2 DEF IInv, FlagsAreEvidence, Fenced
  <2> QED BY <2>2, <2>3, <2>4, <2>5 DEF FlagsAreEvidence
<1>7. TypeOK'
  BY NextTyped DEF IInv, Next, WorkerStep
<1> QED BY <1>4, <1>5, <1>6, <1>7 DEF IInv

\* The claim shows the worker the flags of the document it claimed.
LEMMA ClaimKeeps ==
    ASSUME IInv, NEW w \in Worker, Claim(w)
    PROVE  IInv'
<1>1. /\ request.status = "queued" /\ request'.status = "running"
      /\ request'.done = request.done /\ request'.owner = w
      /\ UNCHANGED <<user, data, suppressed>>
  BY DEF Claim, Due, IInv, TypeOK, Request
<1>2. SeenIsSet' /\ CompletingSawAll'
  <2>1. /\ \A v \in Worker \ {w} : worker'[v] = worker[v]
        /\ worker'[w].pc \in {"cleaning", "completing"} => worker'[w].done = request.done
        /\ worker'[w].pc = "completing" => worker'[w].done = Item
    <3>1. CASE GoOn(w, request.done)
      BY <3>1, GoOnRecord DEF IInv
    <3>2. CASE Step(w, "deferring")
      BY <3>2, StepRecord DEF IInv
    <3>3. CASE End(w)
      BY <3>3, EndRecord DEF IInv
    <3> QED BY <3>1, <3>2, <3>3 DEF Claim
  <2>2. \A v \in Worker \ {w} : ~Fenced(v)'
    BY <1>1 DEF Fenced
  <2> QED BY <1>1, <2>1, <2>2, SeenKept DEF IInv
<1>3. MarkedWhenOpened' /\ FlagsAreEvidence'
  BY <1>1 DEF IInv, MarkedWhenOpened, FlagsAreEvidence
<1>4. TypeOK'
  BY NextTyped DEF IInv, Next, WorkerStep
<1> QED BY <1>2, <1>3, <1>4 DEF IInv

LEMMA CompleteKeeps ==
    ASSUME IInv, NEW w \in Worker, Complete(w)
    PROVE  IInv' /\ request'.done = request.done
<1>1. /\ worker[w].pc = "completing" /\ request.status = "running" /\ Fenced(w)
      /\ request'.status = "completed" /\ request'.done = worker[w].done
      /\ suppressed' = suppressed + 1 /\ End(w)
      /\ UNCHANGED <<user, data>>
  BY DEF Complete, Fenced, IInv, TypeOK, Request
<1>2. request'.done = request.done /\ request.done = Item
  <2>1. worker[w].done = Item /\ worker[w].done \subseteq request.done
    BY <1>1 DEF IInv, CompletingSawAll, SeenIsSet
  <2>2. request.done \subseteq Item
    BY DEF IInv, TypeOK, Request
  <2> QED BY <1>1, <2>1, <2>2
<1>3. SeenIsSet' /\ CompletingSawAll'
  <2>1. \A v \in Worker : ~Fenced(v)'
    BY <1>1 DEF Fenced
  <2> QED BY <1>1, <1>2, <2>1, EndRecord, SeenKept DEF IInv
<1>4. suppressed' = 1
  BY <1>1 DEF IInv, FlagsAreEvidence
<1>5. MarkedWhenOpened' /\ FlagsAreEvidence'
  BY <1>1, <1>2, <1>4 DEF IInv, MarkedWhenOpened, FlagsAreEvidence
<1>6. TypeOK'
  BY NextTyped DEF IInv, Next, WorkerStep
<1> QED BY <1>2, <1>3, <1>5, <1>6 DEF IInv

\* Requests given back: a deferral, a failure, a retry or a recovery.
LEMMA GivenBackKeeps ==
    ASSUME IInv,
           request'.status \in {"queued", "failed"}, request'.done = request.done,
           request.status \in {"running", "failed"},
           UNCHANGED <<user, data, suppressed>>
    PROVE  MarkedWhenOpened' /\ FlagsAreEvidence' /\ \A v \in Worker : ~Fenced(v)'
BY DEF IInv, MarkedWhenOpened, FlagsAreEvidence, Fenced

LEMMA WorkerStepKeeps ==
    ASSUME IInv, NEW w \in Worker, WorkerStep(w)
    PROVE  IInv'
<1>0. TypeOK' /\ request \in Request
  BY NextTyped DEF IInv, Next, TypeOK
<1>1. ASSUME UNCHANGED <<user, data, request, suppressed>>,
             \A v \in Worker \ {w} : worker'[v] = worker[v],
             \/ worker'[w].pc \notin {"cleaning", "completing"}
             \/ worker'[w].pc = worker[w].pc /\ worker'[w].done = worker[w].done
      PROVE  IInv'
  <2>1. \A v \in Worker : Fenced(v)' <=> Fenced(v)
    BY <1>1 DEF Fenced
  <2>2. /\ worker'[w].pc \in {"cleaning", "completing"} /\ Fenced(w)' =>
             worker'[w].done \subseteq request'.done
        /\ worker'[w].pc = "completing" => worker'[w].done = Item
    BY <1>1, <2>1 DEF IInv, SeenIsSet, CompletingSawAll
  <2>3. SeenIsSet' /\ CompletingSawAll'
    BY <1>1, <2>1, <2>2, SeenKept DEF IInv
  <2>4. MarkedWhenOpened' /\ FlagsAreEvidence'
    BY <1>1 DEF IInv, MarkedWhenOpened, FlagsAreEvidence
  <2> QED BY <1>0, <2>3, <2>4 DEF IInv
<1>2. CASE SelectDue(w)
  BY <1>1, <1>2, StepRecord DEF SelectDue, IInv
<1>3. CASE DeferClaimed(w) \/ Fail(w)
  <2>1. /\ request'.status \in {"queued", "failed"} /\ request'.done = request.done
        /\ request.status = "running" /\ End(w)
        /\ UNCHANGED <<user, data, suppressed>>
    BY <1>0, <1>3 DEF DeferClaimed, Fail, Fenced, Requeued, Request
  <2>2. SeenIsSet' /\ CompletingSawAll'
    BY <2>1, GivenBackKeeps, EndRecord, SeenKept DEF IInv
  <2> QED BY <1>0, <2>1, <2>2, GivenBackKeeps DEF IInv
<1>4. CASE CleanUpFails(w)
  BY <1>1, <1>4, StepRecord, EndRecord DEF CleanUpFails, IInv
<1>5. CASE Deadline(w)
  <2>1. /\ worker'[w].pc = worker[w].pc /\ worker'[w].done = worker[w].done
        /\ \A v \in Worker \ {w} : worker'[v] = worker[v]
    BY <1>5 DEF Deadline, IInv, TypeOK, WorkerState
  <2> QED BY <1>1, <1>5, <2>1 DEF Deadline
<1>6. CASE Leave(w)
  BY <1>1, <1>6, EndRecord DEF Leave, IInv
<1> QED
  BY <1>2, <1>3, <1>4, <1>5, <1>6, ClaimKeeps, CleanUpKeeps, CompleteKeeps DEF WorkerStep

\* A user transaction that writes what a flag covers has found the user active.
LEMMA WriterStepKeeps ==
    ASSUME IInv, NEW x \in Writer, WriterStep(x)
    PROVE  IInv'
<1>1. UNCHANGED <<user, request, suppressed, worker>>
  BY DEF WriterStep, OpenWrite, SaveVisibleArticle, AppendAnswer, ReserveAnswerAttempt,
         CreateSession, AbortWrite, Insert
<1>2. \/ data' \cap {"savedArticles", "chatSessions"} = data \cap {"savedArticles", "chatSessions"}
      \/ user = "active"
  BY DEF WriterStep, OpenWrite, SaveVisibleArticle, AppendAnswer, ReserveAnswerAttempt,
         CreateSession, AbortWrite, Insert, UserUnchanged
<1>3. request.done \cap {"savedArticles", "chatSessions"} \cap data' = {}
  BY <1>2 DEF IInv, MarkedWhenOpened, FlagsAreEvidence
<1>4. MarkedWhenOpened' /\ FlagsAreEvidence' /\ SeenIsSet' /\ CompletingSawAll'
  BY <1>1, <1>3 DEF IInv, MarkedWhenOpened, FlagsAreEvidence, SeenIsSet, CompletingSawAll, Fenced
<1>5. TypeOK'
  BY NextTyped DEF IInv, Next
<1> QED BY <1>4, <1>5 DEF IInv

LEMMA NextKeeps == IInv /\ [Next]_vars => IInv'
<1> SUFFICES ASSUME IInv, [Next]_vars PROVE IInv'
  OBVIOUS
<1>0. TypeOK' /\ request \in Request
  BY NextTyped DEF IInv, TypeOK
<1>1. CASE UNCHANGED vars
  BY <1>0, <1>1 DEF vars, IInv, MarkedWhenOpened, SeenIsSet, CompletingSawAll, Fenced,
                    FlagsAreEvidence
<1>2. CASE RequestDeletion
  <2>1. /\ user = "active" /\ user' = "deletion-pending" /\ request'.status = "queued"
        /\ request'.done = request.done /\ UNCHANGED <<data, suppressed, worker>>
    BY <1>0, <1>2 DEF RequestDeletion, Request
  <2>2. SeenIsSet' /\ CompletingSawAll'
    BY <2>1, SeenKeptByOthers DEF IInv, Fenced
  <2>3. MarkedWhenOpened' /\ FlagsAreEvidence'
    BY <2>1 DEF IInv, MarkedWhenOpened, FlagsAreEvidence
  <2> QED BY <1>0, <2>2, <2>3 DEF IInv
<1>3. CASE Retry \/ RecoverExpired
  <2>1. /\ request'.status = "queued" /\ request'.done = request.done
        /\ request.status \in {"running", "failed"}
        /\ UNCHANGED <<user, data, suppressed, worker>>
    BY <1>0, <1>3 DEF Retry, RecoverExpired, Expired, Requeued, Request
  <2>2. MarkedWhenOpened' /\ FlagsAreEvidence' /\ \A v \in Worker : ~Fenced(v)'
    BY <2>1, GivenBackKeeps
  <2>3. SeenIsSet' /\ CompletingSawAll'
    BY <2>1, <2>2, SeenKeptByOthers DEF IInv
  <2> QED BY <1>0, <2>2, <2>3 DEF IInv
<1>4. CASE Purge \/ Tick
  <2>1. /\ request'.done = request.done /\ request'.owner = request.owner
        /\ \/ request'.status = request.status
           \/ request.status = "completed" /\ request'.status = "purged"
        /\ UNCHANGED <<user, data, suppressed, worker>>
    BY <1>0, <1>4 DEF Purge, Tick, Request
  <2>2. SeenIsSet' /\ CompletingSawAll'
    BY <2>1, SeenKeptByOthers DEF IInv, Fenced
  <2>3. MarkedWhenOpened' /\ FlagsAreEvidence'
    BY <2>1 DEF IInv, MarkedWhenOpened, FlagsAreEvidence
  <2> QED BY <1>0, <2>2, <2>3 DEF IInv
<1> QED
  BY <1>1, <1>2, <1>3, <1>4, WorkerStepKeeps, WriterStepKeeps DEF Next

\* A request is claimed after its wait, and completed without a lease.
LEMMA NextRests == TypeOK /\ ClosedAtRest /\ [Next]_vars => ClosedAtRest'
<1> SUFFICES ASSUME TypeOK, ClosedAtRest, [Next]_vars PROVE ClosedAtRest'
  OBVIOUS
<1>0. request \in Request
  BY DEF TypeOK
<1>1. CASE request' = request
  BY <1>1 DEF ClosedAtRest
<1>2. CASE RequestDeletion \/ Retry \/ RecoverExpired \/ Purge \/ Tick
  BY <1>0, <1>2 DEF RequestDeletion, Retry, RecoverExpired, Purge, Tick, Requeued, Request,
                    ClosedAtRest
<1>3. ASSUME NEW w \in Worker,
             \/ Claim(w) \/ DeferClaimed(w) \/ Fail(w) \/ Complete(w)
             \/ \E k \in Item : CleanUp(w, k)
      PROVE  ClosedAtRest'
  BY <1>0, <1>3 DEF Claim, Due, DeferClaimed, Fail, Complete, CleanUp, Fenced, Requeued,
                    Request, ClosedAtRest
<1> QED
  BY <1>1, <1>2, <1>3 DEF Next, WorkerStep, WriterStep, SelectDue, CleanUpFails, Deadline,
        Leave, OpenWrite, SaveVisibleArticle, AppendAnswer, ReserveAnswerAttempt,
        CreateSession, AbortWrite, Insert, vars

LEMMA AlwaysGood == Spec => [](IInv /\ ClosedAtRest)
<1>1. Init => IInv /\ ClosedAtRest
  BY InitIsGood DEF Init, ClosedAtRest
<1>2. IInv /\ ClosedAtRest /\ [Next]_vars => (IInv /\ ClosedAtRest)'
  BY NextKeeps, NextRests DEF IInv
<1> QED BY <1>1, <1>2, PTL DEF Spec

-----------------------------------------------------------------------------
(* The theorems *)

\* Every reachable state is well typed.
THEOREM TypeCorrect == Spec => []TypeOK
<1>1. IInv => TypeOK
  BY DEF IInv
<1> QED BY <1>1, AlwaysGood, PTL

\* What a completion flag calls deleted is gone, the tombstone comes after all
\* the rest, and a completed workflow has every flag and one suppression:
\* applyCleanup and complete, against the writes of the same user.
THEOREM FlagsAreProof == Spec => []FlagsAreEvidence
<1>1. IInv => FlagsAreEvidence
  BY DEF IInv
<1> QED BY <1>1, AlwaysGood, PTL

\* No flag is ever taken back and no completed workflow reopened, whatever is
\* deferred, fails, is recovered or retried.
THEOREM EvidenceStays == Spec => EvidenceIsKept
<1>1. ASSUME IInv, ClosedAtRest, [Next]_vars PROVE [EvidenceStep]_vars
  <2> USE DEF EvidenceStep
  <2>0. request \in Request
    BY <1>1 DEF IInv, TypeOK
  <2>1. CASE UNCHANGED vars
    BY <2>1
  <2>2. CASE RequestDeletion
    BY <1>1, <2>0, <2>2 DEF RequestDeletion, Request, IInv, MarkedWhenOpened
  <2>3. CASE Retry \/ RecoverExpired
    BY <2>0, <2>3 DEF Retry, RecoverExpired, Expired, Requeued, Request
  <2>4. ASSUME Purge \/ Tick PROVE EvidenceStep
    <3>1. CASE Purge
      BY <2>0, <3>1 DEF Purge, Request
    <3>2. CASE Tick
      <4>1. request'.done = request.done /\ request'.status = request.status
        BY <2>0, <3>2 DEF Tick, Request
      <4>2. request.status # "purged"
        BY <1>1, <2>0, <3>2 DEF Tick, ClosedAtRest, Request
      <4> QED BY <4>1, <4>2
    <3> QED BY <2>4, <3>1, <3>2
  <2>5. ASSUME NEW w \in Worker, WorkerStep(w) PROVE EvidenceStep
    <3>1. CASE Complete(w)
      BY <1>1, <3>1, CompleteKeeps DEF Complete, Fenced
    <3>2. CASE Claim(w) \/ DeferClaimed(w) \/ Fail(w) \/ \E k \in Item : CleanUp(w, k)
      BY <2>0, <3>2 DEF Claim, Due, DeferClaimed, Fail, CleanUp, Fenced, Requeued, Request
    <3>3. CASE UNCHANGED request
      BY <3>3
    <3> QED
      BY <2>5, <3>1, <3>2, <3>3 DEF WorkerStep, SelectDue, CleanUpFails, Deadline, Leave
  <2>6. ASSUME NEW x \in Writer, WriterStep(x) PROVE EvidenceStep
    BY <2>6 DEF WriterStep, OpenWrite, SaveVisibleArticle, AppendAnswer,
                ReserveAnswerAttempt, CreateSession, AbortWrite, Insert
  <2> QED
    BY <1>1, <2>1, <2>2, <2>3, <2>4, <2>5, <2>6 DEF Next
<1> QED BY <1>1, AlwaysGood, PTL DEF Spec, EvidenceIsKept
=============================================================================
