-------------------------- MODULE AccountDeletion --------------------------
(***************************************************************************)
(* The account-deletion workflow (ADR-0014) of one account: the service    *)
(* that opens and retries it, the queue adapter and the repository that    *)
(* clean up under an inline lease, its recovery, and the requests of the   *)
(* same user that were under way.  Workflows of different accounts share   *)
(* no document.                                                            *)
(*                                                                         *)
(* Every cleanup step, like every other transaction of the worker, is one  *)
(* step here.  The writes of the user are two, snapshot and commit: under  *)
(* snapshot isolation a transaction that only READS the user document is   *)
(* not stopped by one that changes it.                                     *)
(*                                                                         *)
(* The owner token is random per claim and the generation new, so the      *)
(* invocation stands for both.  Flags are a set of items; the sessions are *)
(* revoked by the request itself, so that flag is true from the start.     *)
(***************************************************************************)
EXTENDS Integers

CONSTANTS
    Worker,      \* concurrent claimAndExecute invocations
    Writer,      \* transactions on behalf of the user, in flight
    None,        \* no owner
    LeaseTicks,  \* leaseExpiresAt - now at a claim (30 s)
    DeferTicks   \* delayMs of deferClaimed (5 min)

ASSUME BoundsAssumption == LeaseTicks \in Nat \ {0} /\ DeferTicks \in Nat
ASSUME NoneAssumption == None \notin Worker

VARIABLES
    user,        \* users.status of the account
    data,        \* the collections that hold documents of the user
    request,     \* the accountDeletionRequests document
    suppressed,  \* governanceSuppressions of the request, counted
    worker,      \* local state of each invocation
    writer       \* local state of each user transaction

vars == <<user, data, request, suppressed, worker, writer>>

\* cleanupSteps and what follows them, in the order of the code.
Steps == <<"sessions", "savedArticles", "chatSessions", "answerAttempts", "userQuota",
           "identity">>
Item == {Steps[i] : i \in 1..6}
Kind == Item \ {"identity"}

Write == {"saveVisibleArticle", "appendAnswer", "reserveAnswerAttempt", "createSession"}

Request ==
    [status: {"none", "queued", "running", "completed", "failed", "purged"},
     done: SUBSET Item, owner: Worker \cup {None}, lease: 0..LeaseTicks,
     wait: 0..DeferTicks]

WorkerState ==
    [pc: {"idle", "selected", "deferring", "cleaning", "failing", "completing"},
     done: SUBSET Item, awaited: BOOLEAN]

WriterState == [write: Write \cup {"none"}, bucket: BOOLEAN]

TypeOK ==
    /\ user \in {"active", "deletion-pending", "deleted"}
    /\ data \in SUBSET Kind
    /\ request \in Request
    /\ suppressed \in Nat
    /\ worker \in [Worker -> WorkerState]
    /\ writer \in [Writer -> WriterState]

Idle == [pc |-> "idle", done |-> {}, awaited |-> TRUE]
NoWrite == [write |-> "none", bucket |-> FALSE]

Init ==
    /\ user = "active"
    /\ data \in SUBSET Kind
    /\ request = [status |-> "none", done |-> {}, owner |-> None, lease |-> 0, wait |-> 0]
    /\ suppressed = 0
    /\ worker = [w \in Worker |-> Idle]
    /\ writer = [x \in Writer |-> NoWrite]

-----------------------------------------------------------------------------
(* The service *)

\* One transaction marks the user, opens the workflow and revokes the sessions.
RequestDeletion ==
    /\ user = "active"
    /\ user' = "deletion-pending"
    /\ request' = [request EXCEPT !.status = "queued"]
    /\ UNCHANGED <<data, suppressed, worker, writer>>

\* The request goes back to the queue with its flags, under no lease.
Requeued(wait) == [request EXCEPT !.status = "queued", !.owner = None, !.lease = 0,
                                  !.wait = wait]

Retry ==
    /\ request.status = "failed"
    /\ request' = Requeued(0)
    /\ UNCHANGED <<user, data, suppressed, worker, writer>>

-----------------------------------------------------------------------------
(* Claiming *)

Step(w, pc) == worker' = [worker EXCEPT ![w] = [worker[w] EXCEPT !.pc = pc]]
End(w) == worker' = [worker EXCEPT ![w] = Idle]

Due == request.status = "queued" /\ request.wait = 0

SelectDue(w) ==
    /\ worker[w].pc = "idle" /\ Due
    /\ Step(w, "selected")
    /\ UNCHANGED <<user, data, request, suppressed, writer>>

\* applyCleanup goes on to the first missing item and returns with all of them.
GoOn(w, done) ==
    worker' = [worker EXCEPT ![w] =
        [pc |-> IF done = Item THEN "completing" ELSE "cleaning", done |-> done,
         awaited |-> TRUE]]

\* The lease runs from the adapter's clock, read before this transaction, which may
\* use some of it up.  A claim nobody waits for any more is deferred; the
\* acknowledgement may be lost.
Claim(w) ==
    /\ worker[w].pc = "selected" /\ Due
    /\ \E lease \in 1..LeaseTicks :
         request' = [request EXCEPT !.status = "running", !.owner = w, !.lease = lease]
    /\ \/ worker[w].awaited /\ GoOn(w, request.done)
       \/ ~worker[w].awaited /\ Step(w, "deferring")
       \/ End(w)
    /\ UNCHANGED <<user, data, suppressed, writer>>

\* Running under this claim.  "leaseExpiresAt > now" says nothing more: the
\* adapter passes the time of the claim itself.
Fenced(w) == request.status = "running" /\ request.owner = w

DeferClaimed(w) ==
    /\ worker[w].pc = "deferring" /\ Fenced(w)
    /\ request' = Requeued(DeferTicks)
    /\ End(w)
    /\ UNCHANGED <<user, data, suppressed, writer>>

-----------------------------------------------------------------------------
(* Cleaning up *)

\* Fault: an item does not wait for the ones before it.
TurnOfAny(w, k) == k \notin worker[w].done

\* k is the first item whose flag the invocation has not seen.
Turn(w, k) ==
    \E i \in 1..6 :
        /\ k = Steps[i] /\ k \notin worker[w].done
        /\ \A j \in 1..(i - 1) : Steps[j] \in worker[w].done

\* A transaction deletes one collection's documents, or writes the tombstone,
\* and sets the flag.  Its acknowledgement may be lost; past the deadline it is
\* the last one.
CleanUp(w, k) ==
    /\ worker[w].pc = "cleaning" /\ Turn(w, k) /\ Fenced(w)
    /\ user = "deletion-pending" \/ (k = "identity" /\ user = "deleted")
    /\ user' = IF k = "identity" THEN "deleted" ELSE user
    /\ data' = data \ {k}
    /\ request' = [request EXCEPT !.done = @ \cup {k}]
    /\ IF worker[w].awaited
       THEN \/ GoOn(w, worker[w].done \cup {k})
            \/ Step(w, "failing")
       ELSE End(w)
    /\ UNCHANGED <<suppressed, writer>>

\* The step is refused or fails; the invocation records a failure if it can.
CleanUpFails(w) ==
    /\ worker[w].pc = "cleaning"
    /\ IF worker[w].awaited THEN Step(w, "failing") ELSE End(w)
    /\ UNCHANGED <<user, data, request, suppressed, writer>>

\* Fault: the failure writes back the completion the invocation claimed.
FailOverwrites(w) ==
    /\ worker[w].pc = "failing" /\ Fenced(w)
    /\ request' = [Requeued(request.wait) EXCEPT !.status = "failed", !.done = worker[w].done]
    /\ End(w)
    /\ UNCHANGED <<user, data, suppressed, writer>>

Fail(w) ==
    /\ worker[w].pc = "failing" /\ Fenced(w)
    /\ request' = [Requeued(request.wait) EXCEPT !.status = "failed"]
    /\ End(w)
    /\ UNCHANGED <<user, data, suppressed, writer>>

\* Terminal status, audit event and signed suppression in one transaction.
Complete(w) ==
    /\ worker[w].pc = "completing" /\ Fenced(w)
    /\ request' = [request EXCEPT !.status = "completed", !.done = worker[w].done,
                                  !.owner = None, !.lease = 0]
    /\ suppressed' = suppressed + 1
    /\ End(w)
    /\ UNCHANGED <<user, data, writer>>

\* The run's deadline: the call under way goes on, and nothing follows it.
Deadline(w) ==
    /\ worker[w].pc \in {"selected", "cleaning", "failing", "completing"}
    /\ worker[w].awaited
    /\ worker' = [worker EXCEPT ![w] = [worker[w] EXCEPT !.awaited = FALSE]]
    /\ UNCHANGED <<user, data, request, suppressed, writer>>

\* The process is killed, or the last call it would make is refused or lost.
Leave(w) ==
    /\ worker[w].pc # "idle"
    /\ End(w)
    /\ UNCHANGED <<user, data, request, suppressed, writer>>

-----------------------------------------------------------------------------
(* Recovery, retention, time *)

\* Fault: a request that has begun its cleanup is left to its worker.
ExpiredUnbegun == request.status = "running" /\ request.lease = 0 /\ request.done = {}

Expired == request.status = "running" /\ request.lease = 0

\* Listing and compare-and-set on the listed row are one step; the clock of the
\* run's start only delays it.
RecoverExpired ==
    /\ Expired
    /\ request' = Requeued(0)
    /\ UNCHANGED <<user, data, suppressed, worker, writer>>

Purge ==
    /\ request.status = "completed"
    /\ request' = [request EXCEPT !.status = "purged"]
    /\ UNCHANGED <<user, data, suppressed, worker, writer>>

Tick ==
    /\ request.lease > 0 \/ request.wait > 0
    /\ request' = [request EXCEPT !.lease = IF @ = 0 THEN 0 ELSE @ - 1,
                                  !.wait = IF @ = 0 THEN 0 ELSE @ - 1]
    /\ UNCHANGED <<user, data, suppressed, worker, writer>>

-----------------------------------------------------------------------------
(* The user's own transactions *)

\* The fence of the transaction passes on its snapshot of the user document.
OpenWrite(x) ==
    /\ writer[x] = NoWrite
    /\ user = "active"
    /\ \E w \in Write :
         writer' = [writer EXCEPT ![x] = [write |-> w, bucket |-> "userQuota" \in data]]
    /\ UNCHANGED <<user, data, request, suppressed, worker>>

Insert(x, kinds) ==
    /\ data' = data \cup kinds
    /\ writer' = [writer EXCEPT ![x] = NoWrite]
    /\ UNCHANGED <<user, request, suppressed, worker>>

\* The fence wrote the user document: the commit conflicts with any later change.
UserUnchanged(x) == user = "active"

SaveVisibleArticle(x) ==
    writer[x].write = "saveVisibleArticle" /\ UserUnchanged(x) /\ Insert(x, {"savedArticles"})

AppendAnswer(x) ==
    writer[x].write = "appendAnswer" /\ UserUnchanged(x) /\ Insert(x, {"chatSessions"})

\* Reads the user and the session.  Its quota buckets conflict with a deletion or
\* a creation of the same buckets.
ReserveAnswerAttempt(x) ==
    /\ writer[x].write = "reserveAnswerAttempt"
    /\ writer[x].bucket = ("userQuota" \in data)
    /\ Insert(x, {"answerAttempts", "userQuota"})

\* Reads the user.
CreateSession(x) ==
    writer[x].write = "createSession" /\ Insert(x, {"sessions"})

AbortWrite(x) ==
    /\ writer[x] # NoWrite
    /\ writer' = [writer EXCEPT ![x] = NoWrite]
    /\ UNCHANGED <<user, data, request, suppressed, worker>>

-----------------------------------------------------------------------------

WorkerStep(w) ==
    \/ SelectDue(w) \/ Claim(w) \/ DeferClaimed(w)
    \/ \E k \in Item : CleanUp(w, k)
    \/ CleanUpFails(w) \/ Fail(w) \/ Complete(w) \/ Deadline(w) \/ Leave(w)

WriterStep(x) ==
    \/ OpenWrite(x) \/ SaveVisibleArticle(x) \/ AppendAnswer(x)
    \/ ReserveAnswerAttempt(x) \/ CreateSession(x) \/ AbortWrite(x)

Next ==
    \/ RequestDeletion \/ Retry \/ RecoverExpired \/ Purge \/ Tick
    \/ \E w \in Worker : WorkerStep(w)
    \/ \E x \in Writer : WriterStep(x)

Spec == Init /\ [][Next]_vars

\* Cron keeps starting runs; an invocation ends; a claim in time, a cleanup step
\* and a completion that can commit again and again are not made to fail for ever.
Proceeds(w) == Claim(w) /\ worker'[w].pc \in {"cleaning", "completing"}
CleansUp(w) == \E k \in Item : CleanUp(w, k)

Fairness ==
    /\ WF_vars(Tick) /\ WF_vars(RecoverExpired)
    /\ \A w \in Worker :
         /\ WF_vars(SelectDue(w)) /\ WF_vars(Leave(w))
         /\ SF_vars(Proceeds(w)) /\ SF_vars(CleansUp(w)) /\ SF_vars(Complete(w))

FairSpec == Spec /\ Fairness

-----------------------------------------------------------------------------
(* Properties *)

\* The completion flags are evidence: what they call deleted of the collections
\* whose writers lock the user is gone and stays gone, the identity is a tombstone
\* written only after everything else, and a completed workflow has every flag and
\* exactly one suppression.
FlagsAreEvidence ==
    /\ request.done \cap {"savedArticles", "chatSessions"} \cap data = {}
    /\ "identity" \in request.done <=> user = "deleted"
    /\ "identity" \in request.done => request.done = Item
    /\ IF request.status \in {"completed", "purged"}
       THEN request.done = Item /\ suppressed = 1
       ELSE suppressed = 0

EvidenceStep ==
    /\ request.done \subseteq request'.done
    /\ request.status = "completed" => request'.status \in {"completed", "purged"}
    /\ request.status = "purged" => request' = request

\* Crashes, recovery, deferral, failure and retry resume the workflow and never
\* undo it: a flag once true stays true, and a completed request is final.
EvidenceIsKept == [][EvidenceStep]_vars

UnderWay == request.status \in {"queued", "running"}

\* A requested deletion is completed or reported as failed, however often its
\* workers crash, miss their deadline or lose an acknowledgement.
DeletionEnds == UnderWay ~> ~UnderWay

\* When the deletion wins the race, it leaves no answer attempt, chat or quota.
DeletionWins ==
    request.status = "completed" =>
        data \cap {"answerAttempts", "chatSessions", "userQuota"} = {}

\* A checkpoint, a failure or a completion is written under an unexpired lease only.
UnexpiredLeaseOnly ==
    [][\A w \in Worker :
         Fenced(w) /\ worker[w].pc \in {"cleaning", "failing", "completing"}
         /\ request' # request /\ worker'[w] # worker[w] => request.lease > 0]_vars
=============================================================================
