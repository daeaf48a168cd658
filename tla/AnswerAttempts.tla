--------------------------- MODULE AnswerAttempts ---------------------------
(***************************************************************************)
(* The receipts of questions (answerAttempts) and the conversations their  *)
(* answers are appended to: chat-repository.js, under the execution of a   *)
(* question in application/qa/service.js.                                  *)
(*                                                                         *)
(* All requests are those of one session of one user, so a receipt is      *)
(* named by its idempotency key.  Evidence, prompts and the router are     *)
(* abstracted to what the execution does with their outcome; the evidence  *)
(* fence of the append is in Takedown.                                     *)
(***************************************************************************)
EXTENDS Naturals

CONSTANTS
    Request,        \* HTTP requests that ask a question
    Key,            \* idempotency keys
    Body,           \* canonical hashes of requests
    Chat,           \* conversations there can be
    None,
    Capacity,       \* messages a conversation holds (30)
    BudgetTicks,    \* EXECUTION_BUDGET_MS: 30 seconds
    LeaseTicks,     \* the reservation of the provider: 60 seconds, so the longer
    MaxCalls        \* calls of the provider one execution makes

VARIABLES
    attempt,    \* of a key: its receipt, or None
    chat,       \* of a conversation: is it there, and its messageCount
    actor,      \* is the user active, with the version of this session
    req,        \* of a request: where its execution is, and what it waits for
    written     \* of a key: assistant messages written under its receipt (ghost)

vars == <<attempt, chat, actor, req, written>>

Open == {"reserved", "running"}
Ended == {"completed", "refused", "failed"}

\* `by` is the request that created the receipt: the code does not record it.
Attempt == [status : Open \cup Ended, body : Body, lease : 0..LeaseTicks, by : Request]

\* Up to its prompt an execution works under a receipt that is still reserved; before
\* each call for an answer or its support it is "renewing", then "renewed".
Preparing == {"fencing", "planning", "consulting", "embedding"}
Executing == {"reserving", "renewing", "renewed", "asking", "writing"} \cup Preparing
Append == {"answer", "refuse", "privacy"}

NoRequest ==
    [pc |-> "idle", key |-> None, body |-> None, chat |-> None, budget |-> 0,
     calls |-> 0, op |-> "none", into |-> None, saw |-> 0]

Init ==
    /\ attempt = [k \in Key |-> None]
    /\ chat = [c \in Chat |-> [state |-> "fresh", count |-> 0]]
    /\ actor = TRUE
    /\ req = [r \in Request |-> NoRequest]
    /\ written = [k \in Key |-> 0]

-----------------------------------------------------------------------------
\* The receipt the request goes by, and its compare-and-set on open statuses.
Receipt(r) == attempt[req[r].key]
IsOpen(r) == Receipt(r) # None /\ Receipt(r).status \in Open

SetReceipt(r, status, lease) ==
    attempt' = [attempt EXCEPT ![req[r].key].status = status, ![req[r].key].lease = lease]

Goes(r, pc) == req' = [req EXCEPT ![r].pc = pc]
Stops(r) == req' = [req EXCEPT ![r].pc = "done", ![r].op = "none", ![r].into = None]

\* throwIfExecutionUnavailable: nothing starts past the deadline.
InTime(r) == req[r].budget > 0

\* A question arrives, for an open conversation of the user or for a new one.
Arrive(r, k, b) ==
    /\ req[r].pc = "idle" /\ actor
    /\ \E c \in {None} \cup {x \in Chat : chat[x].state = "open"} :
         req' = [req EXCEPT ![r] =
                    [NoRequest EXCEPT !.pc = "reserving", !.key = k, !.body = b,
                                      !.chat = c, !.budget = BudgetTicks, !.op = "reserve"]]
    /\ UNCHANGED <<attempt, chat, actor, written>>

\* The transaction of reserveAnswerAttempt.  It only reads the user, so it may
\* commit after the session ended; it may also commit when its caller has gone,
\* who then cancels the receipt it did not wait for.
Reserving(r) == req[r].op = "reserve"

ReserveNew(r) ==
    /\ Reserving(r) /\ Receipt(r) = None
    /\ attempt' = [attempt EXCEPT ![req[r].key] =
                     [status |-> "reserved", body |-> req[r].body, lease |-> 0, by |-> r]]
    /\ written' = [written EXCEPT ![req[r].key] = 0]
    /\ req' = [req EXCEPT ![r].op = "none",
                          ![r].pc = IF @ = "reserving" THEN "fencing" ELSE "cancelling"]
    /\ UNCHANGED <<chat, actor>>

\* The session has ended, a quota is exhausted, or the database refuses.
ReserveFails(r) ==
    /\ Reserving(r) /\ Stops(r)
    /\ UNCHANGED <<attempt, chat, actor, written>>

\* The key names a receipt: another body is a mismatch, an ended receipt is
\* replayed, an open one is being processed.
ReserveReuses(r) ==
    /\ Reserving(r) /\ Receipt(r) # None
    /\ ~(Receipt(r).status = "running" /\ Receipt(r).lease = 0 /\ Receipt(r).body = req[r].body)
    /\ Stops(r)
    /\ UNCHANGED <<attempt, chat, actor, written>>

\* The provider's reservation has expired: what came of the call is unknown.
ReserveExpires(r) ==
    /\ Reserving(r) /\ Receipt(r) # None
    /\ Receipt(r).status = "running" /\ Receipt(r).lease = 0 /\ Receipt(r).body = req[r].body
    /\ SetReceipt(r, "failed", 0)
    /\ Stops(r)
    /\ UNCHANGED <<chat, actor, written>>

-----------------------------------------------------------------------------
\* An update of the receipt to `failed`, refused if it has ended.
FailsReceipt(r) ==
    IF IsOpen(r) THEN SetReceipt(r, "failed", Receipt(r).lease) ELSE UNCHANGED attempt

\* The actor is read, and read again before a planner that may call a provider: the
\* first read that misses it fails the receipt, the second leaves it reserved.
CheckActor(r) ==
    /\ req[r].pc = "fencing" /\ InTime(r)
    /\ \/ actor /\ Goes(r, "planning") /\ UNCHANGED attempt
       \/ ~actor /\ Stops(r) /\ (FailsReceipt(r) \/ UNCHANGED attempt)
    /\ UNCHANGED <<chat, actor, written>>

\* The intent planner asks a provider, and on a failure the next route; nobody reads
\* the actor again or renews anything for it.
AskPlanner(r) ==
    /\ req[r].pc = "planning" /\ InTime(r) /\ Goes(r, "consulting")
    /\ UNCHANGED <<attempt, chat, actor, written>>

PlannerFallsBack(r) ==
    /\ req[r].pc = "consulting" /\ InTime(r) /\ Goes(r, "planning")
    /\ UNCHANGED <<attempt, chat, actor, written>>

\* The planner fails, or its plan asks for a clarification.
FailPlanning(r) ==
    /\ req[r].pc \in {"planning", "consulting"} /\ InTime(r)
    /\ FailsReceipt(r) /\ Stops(r)
    /\ UNCHANGED <<chat, actor, written>>

\* prepareProviderInput asks for the embedding of the query, once there is a plan.
AskEmbedding(r) ==
    /\ req[r].pc \in {"planning", "consulting"} /\ InTime(r) /\ Goes(r, "embedding")
    /\ UNCHANGED <<attempt, chat, actor, written>>

\* The prompt is ready, with the embedding, without one or with none asked for.
Prepared(r) ==
    /\ req[r].pc \in Preparing \ {"fencing"} /\ InTime(r) /\ Goes(r, "renewing")
    /\ UNCHANGED <<attempt, chat, actor, written>>

\* renewProviderStage, before every call for an answer or for its support.
RenewProviderStage(r) ==
    /\ req[r].pc = "renewing" /\ InTime(r) /\ req[r].calls < MaxCalls
    /\ IF actor /\ IsOpen(r)
       THEN SetReceipt(r, "running", LeaseTicks) /\ Goes(r, "renewed")
       ELSE Stops(r) /\ UNCHANGED attempt
    /\ UNCHANGED <<chat, actor, written>>

\* The evidence cannot be read, or assertCurrentEvidenceFence finds another: the
\* receipt stays as it is.
EvidenceFails(r) ==
    /\ req[r].pc \in {"planning", "consulting", "embedding", "renewed"} /\ Stops(r)
    /\ UNCHANGED <<attempt, chat, actor, written>>

Ask(r) ==
    /\ req[r].pc = "renewed" /\ InTime(r)
    /\ req' = [req EXCEPT ![r].pc = "asking", ![r].calls = @ + 1]
    /\ UNCHANGED <<attempt, chat, actor, written>>

\* A fallback, or the check of the answer's support.
AskAgain(r) ==
    /\ req[r].pc = "asking" /\ InTime(r) /\ req[r].calls < MaxCalls
    /\ Goes(r, "renewing")
    /\ UNCHANGED <<attempt, chat, actor, written>>

\* markAmbiguousAttempt: the provider may have been billed.
MarkAmbiguous(r) ==
    /\ req[r].pc = "asking" /\ InTime(r)
    /\ FailsReceipt(r) /\ Stops(r)
    /\ UNCHANGED <<chat, actor, written>>

\* A supported answer needs two calls; a refusal can come of any, or of the evidence;
\* the privacy refusal of the question comes before everything, that of a provider's
\* input from the router, before a call or after one.
Write(r, op) ==
    /\ InTime(r)
    /\ \/ op = "answer" /\ req[r].pc = "asking" /\ req[r].calls >= 2
       \/ op = "refuse" /\ req[r].pc \in {"renewing", "asking"}
       \/ op = "privacy" /\ req[r].pc \in {"fencing", "renewing", "asking"}
    /\ req' = [req EXCEPT ![r].pc = "writing", ![r].op = op]
    /\ UNCHANGED <<attempt, chat, actor, written>>

-----------------------------------------------------------------------------
\* appendAnswer and appendRefusalWithoutQuestion.
Messages(op) == IF op = "privacy" THEN 1 ELSE 2

Appending(r) == req[r].op \in Append /\ req[r].into # None

Fresh == {c \in Chat : chat[c].state = "fresh"}

\* The transaction reads the conversation; a full one rolls over to a new one.
ReadChat(r) ==
    /\ req[r].pc = "writing" /\ req[r].into = None /\ InTime(r)
    /\ LET c == req[r].chat
           rollsOver == c = None \/ chat[c].count + Messages(req[r].op) > Capacity
       IN /\ c # None => chat[c].state = "open"
          /\ \E x \in IF rollsOver THEN Fresh ELSE {c} :
               req' = [req EXCEPT ![r].into = x, ![r].saw = chat[x].count]
    /\ UNCHANGED <<attempt, chat, actor, written>>

\* The conversation is the one the transaction read.
ChatIsUnchanged(r) ==
    /\ chat[req[r].into].count = req[r].saw
    /\ chat[req[r].into].state = IF req[r].into = req[r].chat THEN "open" ELSE "fresh"

\* The receipt takes the result; the privacy refusal wants it untouched.
TakesReceipt(r) ==
    /\ Receipt(r) # None
    /\ Receipt(r).status \in IF req[r].op = "privacy" THEN {"reserved"} ELSE Open

\* Mutant: an append does not ask whether its receipt was there to take the result.
AppendLandsUnmatched(r) ==
    /\ Appending(r) /\ actor /\ ChatIsUnchanged(r)
    /\ chat' = [chat EXCEPT ![req[r].into] =
                  [state |-> "open", count |-> @.count + Messages(req[r].op)]]
    /\ IF TakesReceipt(r)
       THEN SetReceipt(r, IF req[r].op = "answer" THEN "completed" ELSE "refused",
                       Receipt(r).lease)
       ELSE UNCHANGED attempt
    /\ written' = [written EXCEPT ![req[r].key] = @ + 1]
    /\ req' = [req EXCEPT ![r].op = "none", ![r].into = None,
                          ![r].pc = IF @ = "writing" THEN "done" ELSE @]
    /\ UNCHANGED actor

\* It writes the user, the session, the conversation and the receipt, or none;
\* once under way it may commit after its caller stopped waiting.
AppendLands(r) ==
    /\ Appending(r) /\ actor
    /\ ChatIsUnchanged(r) /\ TakesReceipt(r)
    /\ chat' = [chat EXCEPT ![req[r].into] =
                  [state |-> "open", count |-> @.count + Messages(req[r].op)]]
    /\ SetReceipt(r, IF req[r].op = "answer" THEN "completed" ELSE "refused", Receipt(r).lease)
    /\ written' = [written EXCEPT ![req[r].key] = @ + 1]
    /\ req' = [req EXCEPT ![r].op = "none", ![r].into = None,
                          ![r].pc = IF @ = "writing" THEN "done" ELSE @]
    /\ UNCHANGED actor

\* A write conflict: the driver runs the callback again.
AppendRetries(r) ==
    /\ Appending(r) /\ req[r].pc = "writing" /\ ~ChatIsUnchanged(r)
    /\ req' = [req EXCEPT ![r].into = None]
    /\ UNCHANGED <<attempt, chat, actor, written>>

\* A fence or the database refuses: the receipt stays as it is.
AppendFails(r) ==
    /\ req[r].op \in Append
    /\ req' = [req EXCEPT ![r].op = "none", ![r].into = None,
                          ![r].pc = IF @ = "writing" THEN "done" ELSE @]
    /\ UNCHANGED <<attempt, chat, actor, written>>

-----------------------------------------------------------------------------
\* The client leaves, the budget is spent or the process dies: the execution
\* is over, a transaction under way is not.
Abort(r) ==
    /\ req[r].pc \in Executing
    /\ req' = [req EXCEPT ![r].pc = IF @ = "reserving" THEN "done" ELSE "cancelling",
                          ![r].op = IF Reserving(r) \/ Appending(r) THEN @ ELSE "none"]
    /\ UNCHANGED <<attempt, chat, actor, written>>

\* Mutant: the cancellation does not look at the receipt.
MarkCancelledAnyway(r) ==
    /\ req[r].pc = "cancelling"
    /\ IF Receipt(r) # None THEN SetReceipt(r, "failed", 0) ELSE UNCHANGED attempt
    /\ Goes(r, "done")
    /\ UNCHANGED <<chat, actor, written>>

\* markCancelledAttempt, within its grace.
MarkCancelled(r) ==
    /\ req[r].pc = "cancelling"
    /\ IF IsOpen(r) THEN SetReceipt(r, "failed", 0) ELSE UNCHANGED attempt
    /\ Goes(r, "done")
    /\ UNCHANGED <<chat, actor, written>>

\* The grace has passed, or the process died.
CancelIsLost(r) ==
    /\ req[r].pc = "cancelling" /\ Goes(r, "done")
    /\ UNCHANGED <<attempt, chat, actor, written>>

Tick ==
    /\ \/ \E r \in Request : req[r].budget > 0
       \/ \E k \in Key : attempt[k] # None /\ attempt[k].lease > 0
    /\ req' = [r \in Request |-> [req[r] EXCEPT !.budget = IF @ > 0 THEN @ - 1 ELSE 0]]
    /\ attempt' = [k \in Key |-> IF attempt[k] = None THEN None
                     ELSE [attempt[k] EXCEPT !.lease = IF @ > 0 THEN @ - 1 ELSE 0]]
    /\ UNCHANGED <<chat, actor, written>>

\* purgeDueAnswerAttempts: a day later, when no execution can be under way.
PurgeDueAnswerAttempts(k) ==
    /\ attempt[k] # None
    /\ \A r \in Request :
         req[r].key = k => req[r].pc \in {"idle", "done"} /\ req[r].op = "none"
    /\ attempt' = [attempt EXCEPT ![k] = None]
    /\ written' = [written EXCEPT ![k] = 0]
    /\ UNCHANGED <<chat, actor, req>>

\* The user deletes a conversation, or its retention is over.
DeleteChatSession(c) ==
    /\ chat[c].state = "open"
    /\ chat' = [chat EXCEPT ![c].state = "gone"]
    /\ UNCHANGED <<attempt, actor, req, written>>

\* The user logs out, changes the password, is suspended or deletes the account.
EndSession ==
    /\ actor /\ actor' = FALSE
    /\ UNCHANGED <<attempt, chat, req, written>>

Reserve(r) == ReserveNew(r) \/ ReserveFails(r) \/ ReserveReuses(r) \/ ReserveExpires(r)

Prepare(r) ==
    \/ CheckActor(r) \/ AskPlanner(r) \/ PlannerFallsBack(r) \/ FailPlanning(r)
    \/ AskEmbedding(r) \/ Prepared(r)

Execute(r) ==
    \/ Prepare(r) \/ RenewProviderStage(r) \/ EvidenceFails(r)
    \/ Ask(r) \/ AskAgain(r) \/ MarkAmbiguous(r)
    \/ \E op \in Append : Write(r, op)

AppendAnswer(r) == ReadChat(r) \/ AppendLands(r) \/ AppendRetries(r) \/ AppendFails(r)

Next ==
    \/ \E r \in Request :
         \/ \E k \in Key, b \in Body : Arrive(r, k, b)
         \/ Reserve(r) \/ Execute(r) \/ AppendAnswer(r)
         \/ Abort(r) \/ MarkCancelled(r) \/ CancelIsLost(r)
    \/ Tick \/ EndSession
    \/ \E k \in Key : PurgeDueAnswerAttempts(k)
    \/ \E c \in Chat : DeleteChatSession(c)

Spec == Init /\ [][Next]_vars

-----------------------------------------------------------------------------
TypeOK ==
    /\ attempt \in [Key -> Attempt \cup {None}]
    /\ chat \in [Chat -> [state : {"fresh", "open", "gone"}, count : 0..Capacity]]
    /\ actor \in BOOLEAN
    /\ req \in [Request ->
         [pc : Executing \cup {"idle", "cancelling", "done"},
          key : Key \cup {None}, body : Body \cup {None}, chat : Chat \cup {None},
          budget : 0..BudgetTicks, calls : 0..MaxCalls,
          op : Append \cup {"none", "reserve"}, into : Chat \cup {None}, saw : 0..Capacity]]
    /\ written \in [Key -> 0..1]

(***************************************************************************)
(* A receipt tells what became of its question: the conversation took one  *)
(* result of it if it says completed or refused, and none if it is open or *)
(* says failed, whoever gave up, died or came late (PRD QA-010, "same      *)
(* key/hash: one chat result").                                            *)
(***************************************************************************)
ReceiptsAreTrue ==
    \A k \in Key : attempt[k] # None =>
        written[k] = IF attempt[k].status \in {"completed", "refused"} THEN 1 ELSE 0

(***************************************************************************)
(* Providers are only asked by the request that created the receipt.  The  *)
(* answer and its support are asked for while the receipt is running under *)
(* a reservation that has not expired; the planner and the embedding while *)
(* it is still reserved, without a reservation of the provider.  So no     *)
(* retry of the key repeats a call, and no zombie makes one after its      *)
(* receipt has ended (TECHNICAL-DESIGN.md:504).                            *)
(***************************************************************************)
AskStep ==
    \A r \in Request :
        LET asks(status) == Receipt(r) # None /\ Receipt(r).status = status /\ Receipt(r).by = r
        IN /\ req'[r].calls > req[r].calls => asks("running") /\ Receipt(r).lease > 0
           /\ req'[r].pc \in {"consulting", "embedding"} \ {req[r].pc} => asks("reserved")
OneAsker == [][AskStep]_vars

(***************************************************************************)
(* A receipt that has ended never changes before it is purged: a late      *)
(* cancellation, a late append and an expired reservation that race for it *)
(* leave the first one's result.                                           *)
(***************************************************************************)
EndStep ==
    \A k \in Key :
        attempt[k] # None /\ attempt'[k] # None /\ attempt[k].status \in Ended =>
            attempt'[k].status = attempt[k].status
EndsAreFinal == [][EndStep]_vars

(***************************************************************************)
(* A conversation never holds more messages than its bound, however many   *)
(* answers are appended to it at once (DATA-MODEL.md:706).                 *)
(***************************************************************************)
ConversationsFit == \A c \in Chat : chat[c].count <= Capacity
=============================================================================
