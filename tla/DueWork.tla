------------------------------- MODULE DueWork -------------------------------
(***************************************************************************)
(* One invocation of the due-work coordinator, runDueWork of               *)
(* due-work-coordinator.js, over its three queues: the recovery sweep, the *)
(* reserved turn of every queue, and the slots that are left for the       *)
(* oldest due job.  What a queue does with a job is in its own module;     *)
(* here it is claimed or refused, and ingestion creates indexing jobs.     *)
(***************************************************************************)
EXTENDS Naturals, Sequences

CONSTANTS
    Job,            \* jobs and deletion requests
    QueueOf,        \* of a job: the queue it is in
    SubjectOf,      \* of a job: its source or article; None for a deletion
    AvailableAt,    \* of a job: since when it is due
    None,
    MaxJobs, MaxRecoveries,
    Budget          \* budgetMs without the safety margin, in reserved attempts

\* QUEUE_ORDER, all registered.
QueueOrder == <<"account-deletion", "indexing", "ingestion">>
N == Len(QueueOrder)
Queue == {QueueOrder[i] : i \in 1..N}

\* What runDueWork and createQueueRegistry refuse before anything else.
Configured == MaxJobs >= N /\ Budget >= N /\ MaxRecoveries \in Nat

VARIABLES
    job,        \* of a job: "absent", "due", "expired", or "over" for this run
    at,         \* where the run is: recovering, reserved, spilling, ...
    time,       \* since its start
    remaining, progressed,      \* of the recovery
    turn,       \* index of the adapter whose turn it is
    slots,
    head,       \* the candidate selected and not yet claimed
    exhausted,  \* exhaustedQueues
    refused,    \* jobs whose claim was refused: they block their sources, articles
    tried       \* queues that were empty at their turn or had a candidate (ghost)

recovery == <<remaining, progressed>>
chosen == <<slots, exhausted, refused, tried>>
vars == <<job, at, time, recovery, turn, head, chosen>>

Init ==
    /\ Configured
    /\ job \in [Job -> {"absent", "due", "expired"}]
    /\ \A j \in Job : job[j] = "absent" => QueueOf[j] = "indexing"
    /\ at = "recovering" /\ time = 0
    /\ remaining = MaxRecoveries /\ progressed = TRUE
    /\ turn = N + 1 /\ head = None
    /\ slots = MaxJobs /\ exhausted = {} /\ refused = {} /\ tried = {}

-----------------------------------------------------------------------------
\* canStart, with time left for that many attempts.
CanStart(attempts) == time + attempts <= Budget

Turn == QueueOrder[turn]
Left == N - turn + 1      \* the queues whose reserved turn is still to come

\* recoverExpired of the adapter whose turn it is, one job at a time.
Recovering == at = "recovering" /\ turn <= N /\ remaining > 0 /\ CanStart(N)

Expired(q) == {j \in Job : job[j] = "expired" /\ QueueOf[j] = q}

RecoverNothing ==
    /\ Recovering /\ Expired(Turn) = {}
    /\ turn' = turn + 1
    /\ UNCHANGED <<job, at, time, recovery, head, chosen>>

\* The job ends, is due again (a deletion is requeued as it is), or is fenced.
RecoverOne ==
    /\ Recovering
    /\ \E j \in Expired(Turn),
          s \in {"over", "expired"} \cup IF Turn = "account-deletion" THEN {"due"} ELSE {} :
         job' = [job EXCEPT ![j] = s]
    /\ remaining' = remaining - 1 /\ progressed' = TRUE
    /\ turn' = turn + 1
    /\ UNCHANGED <<at, time, head, chosen>>

\* Another sweep if this one found something, or the reserved turns.
RecoverySweep ==
    /\ at = "recovering" /\ ~Recovering
    /\ at' = IF remaining > 0 /\ progressed THEN at ELSE "reserved"
    /\ progressed' = FALSE
    /\ turn' = 1
    /\ UNCHANGED <<job, time, remaining, head, chosen>>

-----------------------------------------------------------------------------
\* getSelectOptions: what a claim was refused for is not selected again.
Blocked(j) ==
    \E k \in refused : QueueOf[k] = QueueOf[j] /\ SubjectOf[k] = SubjectOf[j]

Eligible(q) == {j \in Job : job[j] = "due" /\ QueueOf[j] = q /\ ~Blocked(j)}

\* Every queue has one reserved turn, while time and slots last.
Reserved == at = "reserved" /\ turn <= N /\ slots > 0 /\ CanStart(Left)

SelectReserved ==
    /\ Reserved
    /\ \E j \in IF Eligible(Turn) = {} THEN {None} ELSE Eligible(Turn) : head' = j
    /\ at' = "reserved-claim"
    /\ UNCHANGED <<job, time, recovery, turn, chosen>>

ReservedIsEmpty ==
    /\ at = "reserved-claim" /\ head = None /\ CanStart(Left)
    /\ exhausted' = exhausted \cup {Turn} /\ tried' = tried \cup {Turn}
    /\ at' = "reserved" /\ turn' = turn + 1
    /\ UNCHANGED <<job, time, recovery, head, slots, refused>>

EndReserved ==
    /\ \/ at = "reserved" /\ ~Reserved
       \/ at = "reserved-claim" /\ ~CanStart(Left)
    /\ at' = "spilling" /\ head' = None
    /\ UNCHANGED <<job, time, recovery, turn, chosen>>

\* What is left goes to the oldest of the heads; a queue without one is exhausted.
Spilling == at = "spilling" /\ slots > 0 /\ CanStart(0)

Position(q) == CHOOSE i \in 1..N : QueueOrder[i] = q

Older(j, k) ==
    \/ AvailableAt[j] < AvailableAt[k]
    \/ AvailableAt[j] = AvailableAt[k] /\ Position(QueueOf[j]) <= Position(QueueOf[k])

Oldest(heads) == CHOOSE j \in heads : \A k \in heads : Older(j, k)

SelectSpilled ==
    /\ Spilling
    /\ \E heads \in SUBSET Job :
         /\ \A q \in Queue :
              LET due == IF q \in exhausted THEN {} ELSE Eligible(q)
                  mine == {j \in heads : QueueOf[j] = q}
              IN mine \subseteq due /\ (due # {} => \E j \in due : mine = {j})
         /\ exhausted' = exhausted \cup (Queue \ {QueueOf[j] : j \in heads})
         /\ IF heads = {} THEN at' = "ended" /\ UNCHANGED head
                          ELSE at' = "spilled-claim" /\ head' = Oldest(heads)
    /\ UNCHANGED <<job, time, recovery, turn, slots, refused, tried>>

EndSpill ==
    /\ \/ at = "spilling" /\ ~Spilling
       \/ at = "spilled-claim" /\ ~CanStart(0)
    /\ at' = "ended" /\ head' = None
    /\ UNCHANGED <<job, time, recovery, turn, chosen>>

-----------------------------------------------------------------------------
\* claimAndExecuteCandidate and handleResult; time passes in Tick.
Claiming ==
    \/ at = "reserved-claim" /\ head # None /\ CanStart(Left)
    \/ at = "spilled-claim" /\ CanStart(0)

\* Mutant: a queue keeps its turn until it is empty.
SettlesInPlace ==
    /\ at' = IF at = "reserved-claim" THEN "reserved" ELSE "spilling"
    /\ slots' = slots - 1
    /\ head' = None
    /\ tried' = tried \cup {QueueOf[head]}
    /\ UNCHANGED <<time, recovery, turn>>

Settles ==
    /\ at' = IF at = "reserved-claim" THEN "reserved" ELSE "spilling"
    /\ turn' = IF at = "reserved-claim" THEN turn + 1 ELSE turn
    /\ slots' = slots - 1
    /\ head' = None
    /\ tried' = tried \cup {QueueOf[head]}
    /\ UNCHANGED <<time, recovery>>

\* An executed ingestion commits articles with their indexing jobs: the queue
\* of indexing is worth another look.
Claimed ==
    /\ Claiming /\ job[head] = "due"
    /\ \E new \in SUBSET {j \in Job : job[j] = "absent"} :
         /\ QueueOf[head] # "ingestion" => new = {}
         /\ job' = [j \in Job |-> IF j = head THEN "over" ELSE IF j \in new THEN "due" ELSE job[j]]
    /\ exhausted' = IF QueueOf[head] = "ingestion" THEN exhausted \ {"indexing"} ELSE exhausted
    /\ UNCHANGED refused
    /\ Settles

\* Another invocation has the lease or took the job, or the claim failed.
Refused ==
    /\ Claiming
    /\ refused' = refused \cup {head}
    /\ exhausted' =
         IF QueueOf[head] = "account-deletion" THEN exhausted \cup {QueueOf[head]} ELSE exhausted
    /\ UNCHANGED job
    /\ Settles

Running == at \notin {"ended", "aborted"}

\* The signal of the caller, or an error of recovery or of a selection.
Abort ==
    /\ Running /\ at' = "aborted"
    /\ UNCHANGED <<job, time, recovery, turn, head, chosen>>

Tick ==
    /\ Running /\ time <= Budget
    /\ time' = time + 1
    /\ UNCHANGED <<job, at, recovery, turn, head, chosen>>

\* Another invocation takes a job.
TakenByAnother(j) ==
    /\ Running /\ job[j] \in {"due", "expired"}
    /\ job' = [job EXCEPT ![j] = "over"]
    /\ UNCHANGED <<at, time, recovery, turn, head, chosen>>

Next ==
    \/ RecoverNothing \/ RecoverOne \/ RecoverySweep
    \/ SelectReserved \/ ReservedIsEmpty \/ EndReserved
    \/ SelectSpilled \/ EndSpill
    \/ Claimed \/ Refused
    \/ Abort \/ Tick
    \/ \E j \in Job : TakenByAnother(j)

Spec == Init /\ [][Next]_vars

-----------------------------------------------------------------------------
TypeOK ==
    /\ job \in [Job -> {"absent", "due", "expired", "over"}]
    /\ at \in {"recovering", "reserved", "reserved-claim", "spilling", "spilled-claim",
               "ended", "aborted"}
    /\ time \in 0..Budget + 1 /\ turn \in 1..N + 1
    /\ remaining \in 0..MaxRecoveries /\ progressed \in BOOLEAN
    /\ slots \in 0..MaxJobs
    /\ head \in Job \cup {None}
    /\ exhausted \subseteq Queue /\ tried \subseteq Queue /\ refused \subseteq Job

(***************************************************************************)
(* A run that ends with slots and time left has left no due job behind,    *)
(* the indexing jobs of its own ingestion included (ADR-0023:35), but for  *)
(* those that a refused claim blocks: the jobs of its source or article,   *)
(* and every deletion.                                                     *)
(***************************************************************************)
NothingIsLeftBehind ==
    at = "ended" /\ slots > 0 /\ CanStart(0) =>
        \A j \in Job : job[j] = "due" =>
            \/ Blocked(j)
            \/ QueueOf[j] = "account-deletion" /\ \E k \in refused : QueueOf[k] = QueueOf[j]

(***************************************************************************)
(* A run whose reserve of time was never touched has tried every queue     *)
(* that has a due job, however the other queues fill the slots.            *)
(***************************************************************************)
NoQueueIsPassedOver ==
    at = "ended" /\ CanStart(N) =>
        \A j \in Job : job[j] = "due" => QueueOf[j] \in tried

(***************************************************************************)
(* ADR-0011:30, "một queue đang due liên tục vẫn tiến triển ít nhất một    *)
(* item mỗi invocation hữu hạn": once the first queue has had its reserved *)
(* turn, every queue that stays due has one in the same run.  An execution *)
(* is given the whole deadline, so it may use the time reserved for the    *)
(* turns after it.                                                         *)
(***************************************************************************)
ReservedTurn ==
    at = "ended" /\ turn > 1 => \A j \in Job : job[j] = "due" => QueueOf[j] \in tried
=============================================================================
