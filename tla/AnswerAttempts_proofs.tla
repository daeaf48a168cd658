----------------------- MODULE AnswerAttempts_proofs -----------------------
(***************************************************************************)
(* Receipts tell the truth and one request at a time asks the provider,    *)
(* for any number of requests, keys and conversations.  The argument is    *)
(* that of ownership: whoever executes under a receipt is the request that *)
(* created it, so nobody else ends it while it is under way; and that of   *)
(* the reservation, which outlasts the budget of the execution it is for.  *)
(***************************************************************************)
EXTENDS AnswerAttempts, TLAPS

Point == Executing \cup {"idle", "cancelling", "done"}
Operation == Append \cup {"none", "reserve"}
Conversation == [state : {"fresh", "open", "gone"}, count : 0..Capacity]

Execution ==
    [pc : Point, key : Key \cup {None}, body : Body \cup {None}, chat : Chat \cup {None},
     budget : 0..BudgetTicks, calls : 0..MaxCalls, op : Operation, into : Chat \cup {None},
     saw : 0..Capacity]

\* A conversation has room for a question and its answer.
Constants ==
    /\ Capacity \in Nat \ {0, 1}
    /\ MaxCalls \in Nat
    /\ BudgetTicks \in Nat /\ LeaseTicks \in Nat
    /\ None \notin Attempt /\ None \notin Chat

\* The reservation is granted for longer than the execution may last: 60 seconds
\* (application/qa/service.js:678) against 30 (EXECUTION_BUDGET_MS, service.js:15).
Outlasts == BudgetTicks <= LeaseTicks

-----------------------------------------------------------------------------
(* The invariant *)

Owns(r) == Receipt(r) # None /\ Receipt(r).by = r

\* Where an execution is and what it waits for go together; what it does after its
\* reservation and what it appends is under a receipt of its own.
ExecutionFits(r) ==
    /\ req[r].pc \notin {"idle", "done"} \/ req[r].op # "none" => req[r].key \in Key
    /\ req[r].op = "reserve" => req[r].pc \in {"reserving", "done"} /\ req[r].body \in Body
    /\ req[r].pc = "reserving" => req[r].op = "reserve"
    /\ req[r].pc \in {"renewing", "renewed", "asking"} \cup Preparing => req[r].op = "none"
    /\ req[r].pc = "writing" => req[r].op \in Append
    /\ req[r].pc \in (Executing \ {"reserving"}) \cup {"cancelling"} => Owns(r)
    /\ req[r].op \in Append => Owns(r)
    /\ req[r].pc = "renewed" => req[r].calls < MaxCalls

\* What is appended fits in the conversation its transaction read.
AppendFits(r) ==
    req[r].into # None =>
        req[r].op \in Append /\ req[r].saw + Messages(req[r].op) <= Capacity

\* While an execution that has renewed its reservation has time, that reservation
\* is alive.
ReservationFits(r) ==
    req[r].pc = "renewed" /\ InTime(r) =>
        Receipt(r).status = "running" /\ Receipt(r).lease >= req[r].budget

\* A receipt is reserved for as long as its execution prepares the prompt.
PlanningFits(r) == req[r].pc \in Preparing => Receipt(r).status = "reserved"

NewAreEmpty == \A c \in Chat : chat[c].state = "fresh" => chat[c].count = 0

IInv ==
    /\ TypeOK
    /\ ReceiptsAreTrue
    /\ NewAreEmpty
    /\ \A r \in Request : ExecutionFits(r) /\ AppendFits(r)

LeaseInv == IInv /\ \A r \in Request : ReservationFits(r) /\ PlanningFits(r)

-----------------------------------------------------------------------------
(* Receipts *)

\* No receipt is taken away, and none changes hands.
Keeps ==
    \A k \in Key : attempt[k] # None => attempt'[k] # None /\ attempt'[k].by = attempt[k].by

LEMMA Sets ==
    ASSUME Constants, TypeOK, NEW r \in Request, req[r].key \in Key, Receipt(r) # None,
           NEW st \in Open \cup Ended, NEW l \in 0..LeaseTicks, SetReceipt(r, st, l)
    PROVE  /\ attempt' \in [Key -> Attempt \cup {None}]
           /\ attempt'[req[r].key] # None
           /\ attempt'[req[r].key].status = st /\ attempt'[req[r].key].lease = l
           /\ \A k \in Key : k # req[r].key => attempt'[k] = attempt[k]
           /\ Keeps
<1> DEFINE key == req[r].key
           new == [attempt[key] EXCEPT !.status = st, !.lease = l]
<1>1. attempt[key] \in Attempt
  BY DEF TypeOK, Receipt
<1>2. new \in Attempt /\ new.status = st /\ new.lease = l /\ new.by = attempt[key].by
  BY <1>1 DEF Attempt
<1>3. attempt' = [attempt EXCEPT ![key] = new]
  BY <1>1 DEF SetReceipt, TypeOK, Attempt
<1>4. new # None
  BY <1>2 DEF Constants
<1> HIDE DEF new
<1> QED
  BY <1>2, <1>3, <1>4 DEF TypeOK, Keeps

\* Whoever does not move keeps what it has.
LEMMA OthersStay ==
    ASSUME NEW q \in Request, ExecutionFits(q), AppendFits(q), req'[q] = req[q], Keeps
    PROVE  ExecutionFits(q)' /\ AppendFits(q)'
<1>1. AppendFits(q)'
  BY DEF AppendFits
<1>2. req[q].key \in Key /\ Owns(q) => Owns(q)'
  BY DEF Owns, Receipt, Keeps
<1>3. req[q].pc \in (Executing \ {"reserving"}) \cup {"cancelling"} =>
        req[q].pc \notin {"idle", "done"}
  BY DEF Executing, Preparing
<1>4. req[q].op \in Append => req[q].op # "none"
  BY DEF Append
<1> QED
  BY <1>1, <1>2, <1>3, <1>4 DEF ExecutionFits

LEMMA OwnershipStays ==
    ASSUME NEW r \in Request, req[r].key \in Key, Owns(r), Keeps, req'[r].key = req[r].key
    PROVE  Owns(r)'
BY DEF Owns, Receipt, Keeps

\* A step of one request that leaves every receipt.
LEMMA RequestMoves ==
    ASSUME IInv, NEW r \in Request, UNCHANGED <<attempt, chat, actor, written>>,
           req' \in [Request -> Execution], \A q \in Request : q # r => req'[q] = req[q],
           ExecutionFits(r)', AppendFits(r)'
    PROVE  IInv'
<1>1. Keeps
  BY DEF Keeps
<1>2. \A q \in Request : ExecutionFits(q)' /\ AppendFits(q)'
  BY <1>1, OthersStay DEF IInv
<1>3. TypeOK'
  BY DEF IInv, TypeOK, Execution, Point, Operation
<1> QED
  BY <1>2, <1>3 DEF IInv, ReceiptsAreTrue, NewAreEmpty

\* A step of one request that sets its receipt, open until then, to a state in which
\* the conversation has none of its results.
LEMMA ReceiptMoves ==
    ASSUME Constants, IInv, NEW r \in Request, UNCHANGED <<chat, actor, written>>,
           req[r].key \in Key, IsOpen(r), NEW st \in {"running", "failed"},
           NEW l \in 0..LeaseTicks, SetReceipt(r, st, l),
           req' \in [Request -> Execution], \A q \in Request : q # r => req'[q] = req[q],
           ExecutionFits(r)', AppendFits(r)'
    PROVE  IInv'
<1>1. Receipt(r) # None /\ Receipt(r).status \in Open /\ st \in Open \cup Ended
  BY DEF IsOpen, Open, Ended
<1>2. /\ attempt' \in [Key -> Attempt \cup {None}]
      /\ attempt'[req[r].key] # None /\ attempt'[req[r].key].status = st
      /\ \A k \in Key : k # req[r].key => attempt'[k] = attempt[k]
      /\ Keeps
  BY <1>1, Sets DEF IInv
<1>3. \A q \in Request : ExecutionFits(q)' /\ AppendFits(q)'
  BY <1>2, OthersStay DEF IInv
<1>4. ReceiptsAreTrue'
  BY <1>1, <1>2 DEF IInv, ReceiptsAreTrue, Receipt, Open
<1>5. TypeOK'
  BY <1>2 DEF IInv, TypeOK, Execution, Point, Operation
<1> QED
  BY <1>3, <1>4, <1>5 DEF IInv, NewAreEmpty

-----------------------------------------------------------------------------
(* Executions *)

\* A request that becomes another record of an execution.
LEMMA Becomes ==
    ASSUME TypeOK, NEW r \in Request, NEW new \in Execution, req' = [req EXCEPT ![r] = new]
    PROVE  /\ req' \in [Request -> Execution] /\ req'[r] = new
           /\ \A q \in Request : q # r => req'[q] = req[q]
<1>1. req \in [Request -> Execution]
  BY DEF TypeOK, Execution, Point, Operation
<1> QED
  BY <1>1

\* A request that goes on.
LEMMA GoesOn ==
    ASSUME TypeOK, NEW r \in Request, NEW pc \in Point, Goes(r, pc)
    PROVE  /\ req' \in [Request -> Execution]
           /\ \A q \in Request : q # r => req'[q] = req[q]
           /\ req'[r].pc = pc /\ req'[r].op = req[r].op /\ req'[r].into = req[r].into
           /\ req'[r].key = req[r].key /\ req'[r].body = req[r].body
           /\ req'[r].saw = req[r].saw /\ req'[r].calls = req[r].calls
           /\ req'[r].budget = req[r].budget
BY DEF Goes, TypeOK, Execution, Point, Operation

\* A request that stops needs nothing any more.
LEMMA Ends ==
    ASSUME TypeOK, NEW r \in Request, Stops(r)
    PROVE  /\ req' \in [Request -> Execution]
           /\ \A q \in Request : q # r => req'[q] = req[q]
           /\ req'[r].pc = "done" /\ req'[r].calls = req[r].calls
           /\ ExecutionFits(r)' /\ AppendFits(r)'
<1> DEFINE new == [req[r] EXCEPT !.pc = "done", !.op = "none", !.into = None]
<1>1. "done" \in Point /\ "none" \in Operation /\ None \in Chat \cup {None}
  BY DEF Point, Operation
<1>2. req \in [Request -> Execution] /\ req[r] \in Execution
  BY DEF TypeOK, Execution, Point, Operation
<1>3. req' = [req EXCEPT ![r] = new]
  BY <1>2 DEF Stops, Execution
<1>4. /\ new \in Execution /\ new.pc = "done" /\ new.op = "none" /\ new.into = None
      /\ new.calls = req[r].calls
  BY <1>1, <1>2 DEF Execution
<1> HIDE DEF new
<1>5. req' \in [Request -> Execution] /\ req'[r] = new
      /\ \A q \in Request : q # r => req'[q] = req[q]
  BY <1>3, <1>4, Becomes
<1> QED
  BY <1>4, <1>5 DEF ExecutionFits, AppendFits, Executing, Preparing, Append

\* What a request and its receipt are, by the invariant.
LEMMA Typed ==
    ASSUME IInv, NEW r \in Request
    PROVE  /\ req \in [Request -> Execution] /\ req[r] \in Execution
           /\ ExecutionFits(r) /\ AppendFits(r)
BY DEF IInv, TypeOK, Execution, Point, Operation

LEMMA Arrives ==
    ASSUME Constants, IInv, NEW r \in Request, NEW k \in Key, NEW b \in Body, Arrive(r, k, b)
    PROVE  IInv' /\ req'[r].calls = 0
<1>1. PICK c \in Chat \cup {None} :
        req' = [req EXCEPT ![r] =
                  [NoRequest EXCEPT !.pc = "reserving", !.key = k, !.body = b, !.chat = c,
                                    !.budget = BudgetTicks, !.op = "reserve"]]
  BY DEF Arrive
<1> DEFINE new == [NoRequest EXCEPT !.pc = "reserving", !.key = k, !.body = b, !.chat = c,
                                    !.budget = BudgetTicks, !.op = "reserve"]
<1>2. req' = [req EXCEPT ![r] = new]
  BY <1>1
<1>3. new \in Execution
  <2>1. ASSUME NEW p \in Point, NEW o \in Operation, NEW t \in 0..BudgetTicks,
               NoRequest \in Execution
        PROVE  [NoRequest EXCEPT !.pc = p, !.key = k, !.body = b, !.chat = c,
                                 !.budget = t, !.op = o] \in Execution
    BY <2>1 DEF Execution
  <2>2. NoRequest \in Execution
    BY DEF NoRequest, Execution, Constants, Point, Operation
  <2>3. "reserving" \in Point /\ "reserve" \in Operation /\ BudgetTicks \in 0..BudgetTicks
    BY DEF Constants, Point, Operation, Executing, Preparing
  <2> QED
    BY <2>1, <2>2, <2>3
<1>4. /\ new.pc = "reserving" /\ new.op = "reserve" /\ new.into = None /\ new.calls = 0
      /\ new.key \in Key /\ new.body \in Body
  BY DEF NoRequest
<1> HIDE DEF new
<1>5. req' \in [Request -> Execution] /\ req'[r] = new
      /\ \A q \in Request : q # r => req'[q] = req[q]
  BY <1>2, <1>3, Becomes DEF IInv
<1>6. ExecutionFits(r)' /\ AppendFits(r)'
  BY <1>4, <1>5 DEF ExecutionFits, AppendFits, Append, Preparing
<1>7. UNCHANGED <<attempt, chat, actor, written>>
  BY DEF Arrive
<1> QED
  BY <1>4, <1>5, <1>6, <1>7, RequestMoves

LEMMA ReservesNew ==
    ASSUME Constants, IInv, NEW r \in Request, ReserveNew(r)
    PROVE  /\ IInv' /\ req'[r].calls = req[r].calls
           /\ \A q \in Request : q # r => req'[q] = req[q]
           /\ req'[r].pc \in {"fencing", "cancelling"}
           /\ Receipt(r)'.status = "reserved"
<1> DEFINE key == req[r].key
           pc == IF req[r].pc = "reserving" THEN "fencing" ELSE "cancelling"
           new == [req[r] EXCEPT !.op = "none", !.pc = pc]
           made == [status |-> "reserved", body |-> req[r].body, lease |-> 0, by |-> r]
<1>1. /\ req \in [Request -> Execution] /\ req[r] \in Execution /\ AppendFits(r)
      /\ key \in Key /\ req[r].body \in Body /\ attempt[key] = None
  BY Typed DEF ReserveNew, Reserving, Receipt, ExecutionFits
<1>2. made \in Attempt /\ made # None
  BY <1>1 DEF Attempt, Open, Constants
<1>3. /\ attempt' \in [Key -> Attempt \cup {None}] /\ attempt'[key] = made
      /\ \A k \in Key : k # key => attempt'[k] = attempt[k]
  BY <1>1, <1>2 DEF ReserveNew, IInv, TypeOK
<1>4. /\ written' \in [Key -> 0..1] /\ written'[key] = 0
      /\ \A k \in Key : k # key => written'[k] = written[k]
  BY <1>1 DEF ReserveNew, IInv, TypeOK
<1>5. req' = [req EXCEPT ![r] = new]
  BY <1>1 DEF ReserveNew, Execution
<1>6. /\ new \in Execution /\ new.op = "none" /\ new.pc = pc /\ new.key = key
      /\ new.into = req[r].into /\ new.calls = req[r].calls
  <2>1. ASSUME NEW p \in Point, NEW o \in Operation
        PROVE  [req[r] EXCEPT !.op = o, !.pc = p] \in Execution
    BY <1>1 DEF Execution
  <2>2. pc \in Point /\ "none" \in Operation
    BY DEF Point, Operation, Executing, Preparing
  <2> QED
    BY <1>1, <2>1, <2>2 DEF Execution
<1>7. pc \in {"fencing", "cancelling"}
  OBVIOUS
<1> HIDE DEF new, pc
<1>8. req' \in [Request -> Execution] /\ req'[r] = new
      /\ \A q \in Request : q # r => req'[q] = req[q]
  BY <1>5, <1>6, Becomes DEF IInv
<1>9. Keeps
  BY <1>1, <1>3 DEF Keeps
<1>10. ASSUME NEW q \in Request
       PROVE  ExecutionFits(q)' /\ AppendFits(q)'
  <2>1. CASE q = r
    <3>1. req[r].into = None
      BY <1>1 DEF AppendFits, ReserveNew, Reserving, Append
    <3>2. Owns(r)'
      BY <1>2, <1>3, <1>6, <1>8 DEF Owns, Receipt
    <3> QED
      BY <1>1, <1>6, <1>7, <1>8, <2>1, <3>1, <3>2
         DEF ExecutionFits, AppendFits, Executing, Preparing, Append
  <2>2. CASE q # r
    BY <1>8, <1>9, <2>2, OthersStay DEF IInv
  <2> QED
    BY <2>1, <2>2
<1>11. ReceiptsAreTrue'
  BY <1>3, <1>4 DEF IInv, ReceiptsAreTrue
<1>12. TypeOK' /\ NewAreEmpty'
  BY <1>3, <1>4, <1>8 DEF ReserveNew, IInv, TypeOK, NewAreEmpty, Execution, Point, Operation
<1>13. Receipt(r)'.status = "reserved"
  BY <1>3, <1>6, <1>8 DEF Receipt
<1> QED
  BY <1>1, <1>3, <1>6, <1>7, <1>8, <1>10, <1>11, <1>12, <1>13 DEF IInv

\* The other ends of a reservation: it fails, finds a receipt, or finds one whose
\* provider never answered.
LEMMA ReservesNothing ==
    ASSUME Constants, IInv, NEW r \in Request,
           ReserveFails(r) \/ ReserveReuses(r) \/ ReserveExpires(r)
    PROVE  IInv'
<1>1. /\ req' \in [Request -> Execution] /\ \A q \in Request : q # r => req'[q] = req[q]
      /\ ExecutionFits(r)' /\ AppendFits(r)'
  BY Ends DEF IInv, ReserveFails, ReserveReuses, ReserveExpires
<1>2. CASE ReserveFails(r) \/ ReserveReuses(r)
  BY <1>1, <1>2, RequestMoves DEF ReserveFails, ReserveReuses
<1>3. CASE ReserveExpires(r)
  <2>1. req[r].key \in Key
    BY <1>3 DEF ReserveExpires, Reserving, IInv, ExecutionFits
  <2>2. IsOpen(r)
    BY <1>3 DEF ReserveExpires, IsOpen, Open
  <2>3. 0 \in 0..LeaseTicks
    BY DEF Constants
  <2> QED
    BY <1>1, <1>3, <2>1, <2>2, <2>3, ReceiptMoves DEF ReserveExpires
<1> QED
  BY <1>2, <1>3

\* An execution that stops, whatever it leaves its receipt as.
GivesUp(r) ==
    /\ req[r].pc \in Executing \ {"reserving"} /\ Stops(r)
    /\ FailsReceipt(r) \/ UNCHANGED attempt
    /\ UNCHANGED <<chat, actor, written>>

\* An execution that goes on with what its prompt takes.
GoesOnPreparing(r) ==
    /\ req[r].pc \in Preparing
    /\ \E pc \in (Preparing \ {"fencing"}) \cup {"renewing"} : Goes(r, pc)
    /\ UNCHANGED <<attempt, chat, actor, written>>

LEMMA PrepareSplits ==
    ASSUME NEW r \in Request, Prepare(r)
    PROVE  GivesUp(r) \/ GoesOnPreparing(r)
<1>1. CASE CheckActor(r) \/ FailPlanning(r)
  BY <1>1 DEF CheckActor, FailPlanning, GivesUp, GoesOnPreparing, Executing, Preparing
<1>2. CASE AskPlanner(r) \/ PlannerFallsBack(r) \/ AskEmbedding(r) \/ Prepared(r)
  BY <1>2 DEF AskPlanner, PlannerFallsBack, AskEmbedding, Prepared, GoesOnPreparing, Preparing
<1> QED
  BY <1>1, <1>2 DEF Prepare

LEMMA OthersGiveUp ==
    ASSUME NEW r \in Request, MarkAmbiguous(r) \/ EvidenceFails(r)
    PROVE  GivesUp(r)
BY DEF MarkAmbiguous, EvidenceFails, GivesUp, Executing, Preparing

LEMMA Gives ==
    ASSUME Constants, IInv, NEW r \in Request, GivesUp(r)
    PROVE  IInv'
<1>1. /\ req' \in [Request -> Execution] /\ \A q \in Request : q # r => req'[q] = req[q]
      /\ ExecutionFits(r)' /\ AppendFits(r)' /\ UNCHANGED <<chat, actor, written>>
  BY Ends DEF IInv, GivesUp
<1>2. CASE UNCHANGED attempt
  BY <1>1, <1>2, RequestMoves
<1>3. CASE IsOpen(r) /\ SetReceipt(r, "failed", Receipt(r).lease)
  <2>1. req[r].key \in Key
    BY Typed DEF GivesUp, ExecutionFits, Executing, Preparing
  <2>2. Receipt(r).lease \in 0..LeaseTicks
    BY <1>3, <2>1 DEF IsOpen, Receipt, IInv, TypeOK, Attempt
  <2> QED
    BY <1>1, <1>3, <2>1, <2>2, ReceiptMoves
<1> QED
  BY <1>2, <1>3 DEF GivesUp, FailsReceipt

LEMMA Prepares ==
    ASSUME Constants, IInv, NEW r \in Request, GoesOnPreparing(r)
    PROVE  IInv'
<1>1. PICK pc \in (Preparing \ {"fencing"}) \cup {"renewing"} : Goes(r, pc)
  BY DEF GoesOnPreparing
<1>2. ExecutionFits(r) /\ AppendFits(r) /\ req[r].pc \in Preparing
  BY Typed DEF GoesOnPreparing
<1>3. req[r].key \in Key /\ req[r].op = "none" /\ req[r].into = None /\ Owns(r)
  BY <1>2 DEF ExecutionFits, AppendFits, Executing, Preparing, Append
<1>4. /\ req' \in [Request -> Execution] /\ \A q \in Request : q # r => req'[q] = req[q]
      /\ req'[r].pc = pc /\ req'[r].op = req[r].op /\ req'[r].into = req[r].into
      /\ req'[r].key = req[r].key
  <2>1. pc \in Point
    BY DEF Point, Executing, Preparing
  <2> QED
    BY <1>1, <2>1, GoesOn DEF IInv
<1>5. Owns(r)'
  BY <1>3, <1>4 DEF GoesOnPreparing, Owns, Receipt
<1>6. ExecutionFits(r)' /\ AppendFits(r)'
  BY <1>3, <1>4, <1>5 DEF ExecutionFits, AppendFits, Executing, Preparing, Append
<1> QED
  BY <1>4, <1>6, RequestMoves DEF GoesOnPreparing

LEMMA Renews ==
    ASSUME Constants, IInv, NEW r \in Request, RenewProviderStage(r)
    PROVE  IInv'
<1>1. CASE UNCHANGED attempt /\ Stops(r)
  <2>1. /\ req' \in [Request -> Execution] /\ \A q \in Request : q # r => req'[q] = req[q]
        /\ ExecutionFits(r)' /\ AppendFits(r)'
    BY <1>1, Ends DEF IInv
  <2> QED
    BY <1>1, <2>1, RequestMoves DEF RenewProviderStage
<1>2. CASE IsOpen(r) /\ SetReceipt(r, "running", LeaseTicks) /\ Goes(r, "renewed")
  <2>1. /\ req[r].pc = "renewing" /\ req[r].calls < MaxCalls /\ req[r].key \in Key
        /\ ExecutionFits(r) /\ AppendFits(r) /\ LeaseTicks \in 0..LeaseTicks
        /\ Receipt(r) # None /\ "running" \in Open \cup Ended /\ "renewed" \in Point
    BY <1>2, Typed
       DEF RenewProviderStage, ExecutionFits, Constants, IsOpen, Open, Point, Executing, Preparing
  <2>2. /\ req' \in [Request -> Execution] /\ \A q \in Request : q # r => req'[q] = req[q]
        /\ req'[r].pc = "renewed" /\ req'[r].op = req[r].op /\ req'[r].into = req[r].into
        /\ req'[r].key = req[r].key /\ req'[r].body = req[r].body
        /\ req'[r].saw = req[r].saw /\ req'[r].calls = req[r].calls
    BY <1>2, <2>1, GoesOn DEF IInv
  <2>3. Owns(r)'
    <3>1. Owns(r)
      BY <2>1 DEF ExecutionFits, Executing, Preparing
    <3>2. Keeps
      BY <1>2, <2>1, Sets DEF IInv
    <3> QED
      BY <2>1, <2>2, <3>1, <3>2, OwnershipStays
  <2>4. ExecutionFits(r)' /\ AppendFits(r)'
    BY <2>1, <2>2, <2>3 DEF ExecutionFits, AppendFits, Executing, Preparing, Append
  <2> QED
    BY <1>2, <2>1, <2>2, <2>4, ReceiptMoves DEF RenewProviderStage
<1> QED
  BY <1>1, <1>2 DEF RenewProviderStage

\* An execution that asks, goes on or begins to write; the receipt is still its own.
LEMMA Works ==
    ASSUME Constants, IInv, NEW r \in Request,
           Ask(r) \/ AskAgain(r) \/ \E op \in Append : Write(r, op)
    PROVE  IInv'
<1>1. /\ req \in [Request -> Execution] /\ req[r] \in Execution
      /\ ExecutionFits(r) /\ AppendFits(r)
  BY Typed
<1>2. /\ req[r].pc \in {"fencing", "renewing", "renewed", "asking"}
      /\ UNCHANGED <<attempt, chat, actor, written>>
  BY DEF Ask, AskAgain, Write
<1>3. req[r].key \in Key /\ req[r].op = "none" /\ req[r].into = None /\ Owns(r)
  BY <1>1, <1>2 DEF ExecutionFits, AppendFits, Executing, Preparing, Append
<1>4. ASSUME NEW new \in Execution, req' = [req EXCEPT ![r] = new],
             new.key = req[r].key, new.into = req[r].into,
             \/ new.pc = "renewing" /\ new.op = "none"
             \/ new.pc = "asking" /\ new.op = "none"
             \/ new.pc = "writing" /\ new.op \in Append
      PROVE  IInv'
  <2>1. req' \in [Request -> Execution] /\ req'[r] = new
        /\ \A q \in Request : q # r => req'[q] = req[q]
    BY <1>4, Becomes DEF IInv
  <2>2. Owns(r)'
    BY <1>2, <1>3, <1>4, <2>1 DEF Owns, Receipt
  <2>3. ExecutionFits(r)' /\ AppendFits(r)'
    BY <1>3, <1>4, <2>1, <2>2 DEF ExecutionFits, AppendFits, Executing, Preparing, Append
  <2> QED
    BY <1>2, <2>1, <2>3, RequestMoves
<1>5. CASE Ask(r)
  <2> DEFINE new == [req[r] EXCEPT !.pc = "asking", !.calls = @ + 1]
  <2>1. req' = [req EXCEPT ![r] = new]
    BY <1>1, <1>5 DEF Ask, Execution
  <2>2. req[r].calls + 1 \in 0..MaxCalls
    BY <1>1, <1>5 DEF Ask, ExecutionFits, Execution, Constants
  <2>3. new \in Execution /\ new.pc = "asking" /\ new.op = "none" /\ new.key = req[r].key
        /\ new.into = req[r].into
    <3>1. ASSUME NEW p \in Point, NEW n \in 0..MaxCalls
          PROVE  [req[r] EXCEPT !.pc = p, !.calls = n] \in Execution
      BY <1>1 DEF Execution
    <3>2. "asking" \in Point
      BY DEF Point, Executing, Preparing
    <3> QED
      BY <1>1, <1>3, <2>2, <3>1, <3>2 DEF Execution
  <2> HIDE DEF new
  <2> QED
    BY <1>4, <2>1, <2>3
<1>6. CASE AskAgain(r)
  <2> DEFINE new == [req[r] EXCEPT !.pc = "renewing"]
  <2>1. req' = [req EXCEPT ![r] = new]
    BY <1>1, <1>6 DEF AskAgain, Goes, Execution
  <2>2. new \in Execution /\ new.pc = "renewing" /\ new.op = "none" /\ new.key = req[r].key
        /\ new.into = req[r].into
    BY <1>1, <1>3 DEF Execution, Point, Executing, Preparing
  <2> HIDE DEF new
  <2> QED
    BY <1>4, <2>1, <2>2
<1>7. ASSUME NEW op \in Append, Write(r, op)
      PROVE  IInv'
  <2> DEFINE new == [req[r] EXCEPT !.pc = "writing", !.op = op]
  <2>1. req' = [req EXCEPT ![r] = new]
    BY <1>1, <1>7 DEF Write, Execution
  <2>2. new \in Execution /\ new.pc = "writing" /\ new.op = op /\ new.key = req[r].key
        /\ new.into = req[r].into
    <3>1. ASSUME NEW p \in Point, NEW o \in Operation
          PROVE  [req[r] EXCEPT !.pc = p, !.op = o] \in Execution
      BY <1>1 DEF Execution
    <3>2. "writing" \in Point /\ op \in Operation
      BY DEF Point, Executing, Preparing, Operation
    <3> QED
      BY <1>1, <3>1, <3>2 DEF Execution
  <2> HIDE DEF new
  <2> QED
    BY <1>4, <2>1, <2>2
<1> QED
  BY <1>5, <1>6, <1>7

-----------------------------------------------------------------------------
(* Appends *)

\* A transaction opens on a conversation with room for what it appends.
LEMMA Opens ==
    ASSUME Constants, IInv, NEW r \in Request, ReadChat(r)
    PROVE  IInv'
<1>1. /\ req \in [Request -> Execution] /\ req[r] \in Execution
      /\ ExecutionFits(r) /\ AppendFits(r)
  BY Typed
<1>2. PICK x \in Chat :
        /\ req' = [req EXCEPT ![r].into = x, ![r].saw = chat[x].count]
        /\ chat[x].state = "fresh" \/ chat[x].count + Messages(req[r].op) <= Capacity
  <2>1. PICK x \in IF req[r].chat = None \/ chat[req[r].chat].count + Messages(req[r].op) > Capacity
                   THEN Fresh ELSE {req[r].chat} :
          req' = [req EXCEPT ![r].into = x, ![r].saw = chat[x].count]
    BY DEF ReadChat
  <2>2. Messages(req[r].op) \in Nat
    BY DEF Messages
  <2>3. CASE req[r].chat = None \/ chat[req[r].chat].count + Messages(req[r].op) > Capacity
    <3>1. x \in Chat /\ chat[x].state = "fresh"
      BY <2>1, <2>3 DEF Fresh
    <3> QED
      BY <2>1, <3>1
  <2>4. CASE ~(req[r].chat = None \/ chat[req[r].chat].count + Messages(req[r].op) > Capacity)
    <3>1. req[r].chat \in Chat /\ x = req[r].chat
      BY <1>1, <2>1, <2>4 DEF Execution
    <3>2. chat[x].count \in Nat
      BY <3>1 DEF IInv, TypeOK, Constants
    <3>3. chat[x].count + Messages(req[r].op) <= Capacity
      BY <2>2, <2>4, <3>1, <3>2 DEF Constants
    <3> QED
      BY <2>1, <3>1, <3>3
  <2> QED
    BY <2>3, <2>4
<1> DEFINE new == [req[r] EXCEPT !.into = x, !.saw = chat[x].count]
<1>3. req' = [req EXCEPT ![r] = new]
  BY <1>1, <1>2 DEF Execution
<1>4. chat[x].count \in 0..Capacity
  BY DEF IInv, TypeOK
<1>5. /\ new \in Execution /\ new.into = x /\ new.saw = chat[x].count /\ new.pc = req[r].pc
      /\ new.op = req[r].op /\ new.key = req[r].key /\ new.calls = req[r].calls
      /\ new.body = req[r].body
  BY <1>1, <1>4 DEF Execution
<1> HIDE DEF new
<1>6. req' \in [Request -> Execution] /\ req'[r] = new
      /\ \A q \in Request : q # r => req'[q] = req[q]
  BY <1>3, <1>5, Becomes DEF IInv
<1>7. UNCHANGED <<attempt, chat, actor, written>> /\ req[r].pc = "writing"
  BY DEF ReadChat
<1>8. ExecutionFits(r)'
  BY <1>1, <1>5, <1>6, <1>7 DEF ExecutionFits, Owns, Receipt
<1>9. AppendFits(r)'
  <2>1. req[r].op \in Append
    BY <1>1, <1>7 DEF ExecutionFits
  <2>2. chat[x].count + Messages(req[r].op) <= Capacity
    <3>1. chat[x].state = "fresh" => chat[x].count = 0
      BY DEF IInv, NewAreEmpty
    <3>2. Messages(req[r].op) \in {1, 2}
      BY DEF Messages
    <3> QED
      BY <1>2, <3>1, <3>2 DEF Constants
  <2> QED
    BY <1>5, <1>6, <2>1, <2>2 DEF AppendFits
<1> QED
  BY <1>6, <1>7, <1>8, <1>9, RequestMoves

\* The record an append leaves when it lands or fails.
AppendEnds(r) ==
    req' = [req EXCEPT ![r].op = "none", ![r].into = None,
                       ![r].pc = IF @ = "writing" THEN "done" ELSE @]

LEMMA EndsAppending ==
    ASSUME Constants, IInv, NEW r \in Request, AppendEnds(r), req[r].op \in Append, Keeps
    PROVE  /\ req' \in [Request -> Execution] /\ \A q \in Request : q # r => req'[q] = req[q]
           /\ ExecutionFits(r)' /\ AppendFits(r)'
<1> DEFINE pc == IF req[r].pc = "writing" THEN "done" ELSE req[r].pc
           new == [req[r] EXCEPT !.op = "none", !.into = None, !.pc = pc]
<1>1. /\ req \in [Request -> Execution] /\ req[r] \in Execution
      /\ ExecutionFits(r) /\ AppendFits(r)
  BY Typed
<1>2. req' = [req EXCEPT ![r] = new]
  BY <1>1 DEF AppendEnds, Execution
<1>3. pc \in Point /\ pc # "writing"
  BY <1>1 DEF Execution, Point, Executing, Preparing
<1>4. /\ new \in Execution /\ new.op = "none" /\ new.into = None /\ new.pc = pc
      /\ new.key = req[r].key
  <2>1. ASSUME NEW p \in Point, NEW o \in Operation
        PROVE  [req[r] EXCEPT !.op = o, !.into = None, !.pc = p] \in Execution
    BY <1>1 DEF Execution
  <2>2. "none" \in Operation
    BY DEF Operation
  <2> QED
    BY <1>1, <1>3, <2>1, <2>2 DEF Execution
<1>5. pc \in {"cancelling", "done", "idle"}
  BY <1>1 DEF ExecutionFits, Append, Execution, Point, Executing, Preparing
<1> HIDE DEF new, pc
<1>6. req' \in [Request -> Execution] /\ req'[r] = new
      /\ \A q \in Request : q # r => req'[q] = req[q]
  BY <1>2, <1>4, Becomes DEF IInv
<1>7. req[r].key \in Key /\ Owns(r)
  BY <1>1 DEF ExecutionFits, Append
<1>8. Owns(r)'
  BY <1>4, <1>6, <1>7, OwnershipStays
<1> QED
  BY <1>4, <1>5, <1>6, <1>7, <1>8 DEF ExecutionFits, AppendFits, Executing, Preparing, Append

\* Nothing was appended: a conflict has the driver run the callback again, or a
\* fence refuses.
LEMMA AppendsNothing ==
    ASSUME Constants, IInv, NEW r \in Request, AppendRetries(r) \/ AppendFails(r)
    PROVE  IInv'
<1>1. UNCHANGED <<attempt, chat, actor, written>>
  BY DEF AppendRetries, AppendFails
<1>2. CASE AppendFails(r)
  <2>1. Keeps /\ AppendEnds(r) /\ req[r].op \in Append
    BY <1>2 DEF AppendFails, Keeps, AppendEnds
  <2> QED
    BY <1>1, <2>1, EndsAppending, RequestMoves
<1>3. CASE AppendRetries(r)
  <2> DEFINE new == [req[r] EXCEPT !.into = None]
  <2>1. /\ req \in [Request -> Execution] /\ req[r] \in Execution
        /\ ExecutionFits(r) /\ AppendFits(r)
    BY Typed
  <2>2. req' = [req EXCEPT ![r] = new]
    BY <1>3, <2>1 DEF AppendRetries, Execution
  <2>3. /\ new \in Execution /\ new.into = None /\ new.pc = req[r].pc /\ new.op = req[r].op
        /\ new.key = req[r].key /\ new.body = req[r].body /\ new.calls = req[r].calls
    BY <2>1 DEF Execution
  <2> HIDE DEF new
  <2>4. req' \in [Request -> Execution] /\ req'[r] = new
        /\ \A q \in Request : q # r => req'[q] = req[q]
    BY <2>2, <2>3, Becomes DEF IInv
  <2>5. ExecutionFits(r)' /\ AppendFits(r)'
    BY <1>1, <2>1, <2>3, <2>4 DEF ExecutionFits, AppendFits, Owns, Receipt
  <2> QED
    BY <1>1, <2>4, <2>5, RequestMoves
<1> QED
  BY <1>2, <1>3

\* One result joins the conversation the transaction read, and the receipt says so.
LEMMA Lands ==
    ASSUME Constants, IInv, NEW r \in Request, AppendLands(r)
    PROVE  IInv'
<1> DEFINE key == req[r].key
           x == req[r].into
           status == IF req[r].op = "answer" THEN "completed" ELSE "refused"
           next == [state |-> "open", count |-> chat[x].count + Messages(req[r].op)]
<1>1. /\ req[r] \in Execution /\ ExecutionFits(r) /\ AppendFits(r)
  BY Typed
<1>2. /\ req[r].op \in Append /\ x # None /\ x \in Chat /\ key \in Key
      /\ Receipt(r) # None /\ Receipt(r).status \in Open
  BY <1>1 DEF AppendLands, Appending, TakesReceipt, Execution, ExecutionFits, Append, Open
<1>3. status \in {"completed", "refused"} /\ status \in Open \cup Ended
      /\ Receipt(r).lease \in 0..LeaseTicks
  BY <1>2 DEF Ended, Receipt, IInv, TypeOK, Attempt
<1>4. SetReceipt(r, status, Receipt(r).lease)
  BY DEF AppendLands
<1> HIDE DEF status
<1>5. /\ attempt' \in [Key -> Attempt \cup {None}]
      /\ attempt'[key] # None /\ attempt'[key].status = status
      /\ \A k \in Key : k # key => attempt'[k] = attempt[k]
      /\ Keeps
  BY <1>2, <1>3, <1>4, Sets DEF IInv
<1>6. /\ written' \in [Key -> 0..1] /\ written'[key] = 1
      /\ \A k \in Key : k # key => written'[k] = written[k]
  <2>1. written[key] = 0
    BY <1>2 DEF IInv, ReceiptsAreTrue, Receipt, Open
  <2> QED
    BY <1>2, <2>1 DEF AppendLands, IInv, TypeOK
<1>7. next \in Conversation
  <2>1. chat[x].count = req[r].saw /\ req[r].saw + Messages(req[r].op) <= Capacity
    BY <1>1, <1>2 DEF AppendLands, ChatIsUnchanged, AppendFits
  <2>2. Messages(req[r].op) \in Nat /\ req[r].saw \in Nat
    BY <1>1 DEF Messages, Execution, Constants
  <2> QED
    BY <2>1, <2>2 DEF Conversation, Constants
<1>8. chat' = [chat EXCEPT ![x] = next]
  BY DEF AppendLands
<1>9. chat' \in [Chat -> Conversation] /\ NewAreEmpty'
  <2>1. next.state = "open"
    OBVIOUS
  <2> HIDE DEF next
  <2> QED
    BY <1>2, <1>7, <1>8, <2>1 DEF IInv, TypeOK, NewAreEmpty, Conversation
<1>10. AppendEnds(r)
  BY DEF AppendLands, AppendEnds
<1>11. /\ req' \in [Request -> Execution] /\ \A q \in Request : q # r => req'[q] = req[q]
       /\ ExecutionFits(r)' /\ AppendFits(r)'
  BY <1>2, <1>5, <1>10, EndsAppending
<1>12. \A q \in Request : ExecutionFits(q)' /\ AppendFits(q)'
  BY <1>5, <1>11, OthersStay DEF IInv
<1>13. ReceiptsAreTrue'
  BY <1>3, <1>5, <1>6 DEF IInv, ReceiptsAreTrue
<1>14. TypeOK'
  BY <1>5, <1>6, <1>9, <1>11 DEF AppendLands, IInv, TypeOK, Execution, Point, Operation, Conversation
<1> QED
  BY <1>9, <1>12, <1>13, <1>14 DEF IInv

-----------------------------------------------------------------------------
(* Ends, time and what others do *)

LEMMA Aborts ==
    ASSUME Constants, IInv, NEW r \in Request, Abort(r)
    PROVE  IInv'
<1> DEFINE pc == IF req[r].pc = "reserving" THEN "done" ELSE "cancelling"
           op == IF Reserving(r) \/ Appending(r) THEN req[r].op ELSE "none"
           new == [req[r] EXCEPT !.pc = pc, !.op = op]
<1>1. /\ req \in [Request -> Execution] /\ req[r] \in Execution
      /\ ExecutionFits(r) /\ AppendFits(r)
  BY Typed
<1>2. UNCHANGED <<attempt, chat, actor, written>> /\ req[r].pc \in Executing
  BY DEF Abort
<1>3. req' = [req EXCEPT ![r] = new]
  BY <1>1 DEF Abort, Execution
<1>4. pc \in Point /\ op \in Operation
  BY <1>1 DEF Point, Operation, Execution
<1>5. op \in {req[r].op, "none"} /\ (req[r].into # None => op = req[r].op)
  BY <1>1 DEF AppendFits, Appending
<1>6. \/ pc = "done" /\ req[r].pc = "reserving" /\ op \in {"reserve", "none"}
      \/ pc = "cancelling" /\ op # "reserve" /\ Owns(r)
  BY <1>1, <1>2 DEF ExecutionFits, Executing, Preparing
<1> HIDE DEF pc, op
<1>7. /\ new \in Execution /\ new.pc = pc /\ new.op = op /\ new.key = req[r].key
      /\ new.body = req[r].body /\ new.into = req[r].into /\ new.saw = req[r].saw
  BY <1>1, <1>4 DEF Execution
<1> HIDE DEF new
<1>8. req' \in [Request -> Execution] /\ req'[r] = new
      /\ \A q \in Request : q # r => req'[q] = req[q]
  BY <1>3, <1>7, Becomes DEF IInv
<1>9. Owns(r) => Owns(r)'
  BY <1>2, <1>7, <1>8 DEF Owns, Receipt
<1>10. ExecutionFits(r)'
  BY <1>1, <1>2, <1>5, <1>6, <1>7, <1>8, <1>9 DEF ExecutionFits, Executing, Preparing, Append
<1>11. AppendFits(r)'
  BY <1>1, <1>5, <1>7, <1>8 DEF AppendFits
<1> QED
  BY <1>2, <1>8, <1>10, <1>11, RequestMoves

LEMMA Cancels ==
    ASSUME Constants, IInv, NEW r \in Request, MarkCancelled(r) \/ CancelIsLost(r)
    PROVE  IInv'
<1>1. /\ ExecutionFits(r) /\ AppendFits(r) /\ req[r].pc = "cancelling" /\ Goes(r, "done")
      /\ UNCHANGED <<chat, actor, written>>
  BY Typed DEF MarkCancelled, CancelIsLost
<1>2. /\ req' \in [Request -> Execution] /\ \A q \in Request : q # r => req'[q] = req[q]
      /\ req'[r].pc = "done" /\ req'[r].op = req[r].op /\ req'[r].into = req[r].into
      /\ req'[r].key = req[r].key /\ req'[r].body = req[r].body /\ req'[r].saw = req[r].saw
  BY <1>1, GoesOn DEF IInv, Point
<1>3. req[r].key \in Key /\ Owns(r)
  BY <1>1 DEF ExecutionFits
<1>4. Keeps => ExecutionFits(r)' /\ AppendFits(r)'
  <2> SUFFICES ASSUME Keeps
               PROVE  ExecutionFits(r)' /\ AppendFits(r)'
    OBVIOUS
  <2>1. Owns(r)'
    BY <1>2, <1>3, OwnershipStays
  <2> QED
    BY <1>1, <1>2, <1>3, <2>1 DEF ExecutionFits, AppendFits, Executing, Preparing
<1>5. CASE UNCHANGED attempt
  <2>1. Keeps
    BY <1>5 DEF Keeps
  <2> QED
    BY <1>1, <1>2, <1>4, <1>5, <2>1, RequestMoves
<1>6. CASE IsOpen(r) /\ SetReceipt(r, "failed", 0)
  <2>1. 0 \in 0..LeaseTicks /\ Receipt(r) # None /\ "failed" \in Open \cup Ended
    BY <1>6 DEF Constants, IsOpen, Ended
  <2>2. Keeps
    BY <1>3, <1>6, <2>1, Sets DEF IInv
  <2> QED
    BY <1>1, <1>2, <1>3, <1>4, <1>6, <2>1, <2>2, ReceiptMoves
<1> QED
  BY <1>5, <1>6 DEF MarkCancelled, CancelIsLost

\* What one tick leaves of a receipt and of an execution.
LEMMA Ticks ==
    ASSUME Constants, TypeOK, Tick
    PROVE  /\ req' \in [Request -> Execution] /\ attempt' \in [Key -> Attempt \cup {None}]
           /\ \A r \in Request :
                /\ req'[r].pc = req[r].pc /\ req'[r].op = req[r].op /\ req'[r].key = req[r].key
                /\ req'[r].body = req[r].body /\ req'[r].into = req[r].into
                /\ req'[r].saw = req[r].saw /\ req'[r].calls = req[r].calls
                /\ req'[r].budget = IF req[r].budget > 0 THEN req[r].budget - 1 ELSE 0
           /\ \A k \in Key : attempt[k] = None => attempt'[k] = None
           /\ \A k \in Key : attempt[k] # None =>
                /\ attempt'[k] # None
                /\ attempt'[k].status = attempt[k].status /\ attempt'[k].by = attempt[k].by
                /\ attempt'[k].lease = IF attempt[k].lease > 0 THEN attempt[k].lease - 1 ELSE 0
<1>1. req \in [Request -> Execution]
  BY DEF TypeOK, Execution, Point, Operation
<1>2. ASSUME NEW r \in Request
      PROVE  /\ req'[r] \in Execution
             /\ req'[r].pc = req[r].pc /\ req'[r].op = req[r].op /\ req'[r].key = req[r].key
             /\ req'[r].body = req[r].body /\ req'[r].into = req[r].into
             /\ req'[r].saw = req[r].saw /\ req'[r].calls = req[r].calls
             /\ req'[r].budget = IF req[r].budget > 0 THEN req[r].budget - 1 ELSE 0
  <2> DEFINE left == IF req[r].budget > 0 THEN req[r].budget - 1 ELSE 0
  <2>1. req[r] \in Execution
    BY <1>1
  <2>2. req'[r] = [req[r] EXCEPT !.budget = left]
    BY <2>1 DEF Tick, Execution
  <2>3. left \in 0..BudgetTicks
    BY <2>1 DEF Execution, Constants
  <2> HIDE DEF left
  <2>4. /\ req'[r] \in Execution
        /\ req'[r].pc = req[r].pc /\ req'[r].op = req[r].op /\ req'[r].key = req[r].key
        /\ req'[r].body = req[r].body /\ req'[r].into = req[r].into
        /\ req'[r].saw = req[r].saw /\ req'[r].calls = req[r].calls
        /\ req'[r].budget = left
    BY <2>1, <2>2, <2>3 DEF Execution
  <2> QED
    BY <2>4 DEF left
<1>3. ASSUME NEW k \in Key, attempt[k] # None
      PROVE  /\ attempt'[k] \in Attempt
             /\ attempt'[k].status = attempt[k].status /\ attempt'[k].by = attempt[k].by
             /\ attempt'[k].lease = IF attempt[k].lease > 0 THEN attempt[k].lease - 1 ELSE 0
  <2> DEFINE left == IF attempt[k].lease > 0 THEN attempt[k].lease - 1 ELSE 0
  <2>1. attempt[k] \in Attempt
    BY <1>3 DEF TypeOK
  <2>2. attempt'[k] = [attempt[k] EXCEPT !.lease = left]
    BY <1>3, <2>1 DEF Tick, Attempt
  <2>3. left \in 0..LeaseTicks
    BY <2>1 DEF Attempt, Constants
  <2> HIDE DEF left
  <2>4. /\ attempt'[k] \in Attempt
        /\ attempt'[k].status = attempt[k].status /\ attempt'[k].by = attempt[k].by
        /\ attempt'[k].lease = left
    BY <2>1, <2>2, <2>3 DEF Attempt
  <2> QED
    BY <2>4 DEF left
<1>4. \A k \in Key : attempt[k] = None => attempt'[k] = None
  BY DEF Tick
<1>5. req' \in [Request -> Execution]
  <2>1. req' = [r \in Request |-> req'[r]]
    BY DEF Tick
  <2> QED
    BY <1>2, <2>1
<1>6. attempt' \in [Key -> Attempt \cup {None}]
  <2>1. attempt' = [k \in Key |-> attempt'[k]]
    BY DEF Tick
  <2> QED
    BY <1>3, <1>4, <2>1
<1> QED
  BY <1>2, <1>3, <1>4, <1>5, <1>6 DEF Constants

LEMMA TimePasses ==
    ASSUME Constants, IInv, Tick
    PROVE  IInv'
<1>1. Keeps
  BY Ticks DEF IInv, Keeps
<1>2. ASSUME NEW r \in Request
      PROVE  ExecutionFits(r)' /\ AppendFits(r)'
  <2>1. ExecutionFits(r) /\ AppendFits(r)
    BY DEF IInv
  <2>2. /\ req'[r].pc = req[r].pc /\ req'[r].op = req[r].op /\ req'[r].key = req[r].key
        /\ req'[r].body = req[r].body /\ req'[r].into = req[r].into
        /\ req'[r].saw = req[r].saw /\ req'[r].calls = req[r].calls
    BY Ticks DEF IInv
  <2>3. req[r].key \in Key /\ Owns(r) => Owns(r)'
    BY <1>1, <2>2, OwnershipStays
  <2>4. req[r].op \in Append => req[r].op # "none"
    BY DEF Append
  <2>5. req[r].pc \in (Executing \ {"reserving"}) \cup {"cancelling"} =>
          req[r].pc \notin {"idle", "done"}
    BY DEF Executing, Preparing
  <2>6. ExecutionFits(r)'
    BY <2>1, <2>2, <2>3, <2>4, <2>5 DEF ExecutionFits
  <2> QED
    BY <2>1, <2>2, <2>6 DEF AppendFits
<1>3. UNCHANGED <<chat, actor, written>>
  BY DEF Tick
<1>4. ReceiptsAreTrue'
  BY <1>3, Ticks DEF IInv, ReceiptsAreTrue
<1>5. TypeOK'
  BY <1>3, Ticks DEF IInv, TypeOK, Execution, Point, Operation
<1> QED
  BY <1>2, <1>3, <1>4, <1>5 DEF IInv, NewAreEmpty

\* A purge takes no receipt that anybody holds.
LEMMA Purges ==
    ASSUME Constants, IInv, NEW k \in Key, PurgeDueAnswerAttempts(k)
    PROVE  IInv'
<1>1. /\ \A r \in Request : req[r].key = k => req[r].pc \in {"idle", "done"} /\ req[r].op = "none"
      /\ UNCHANGED <<chat, actor, req>>
  BY DEF PurgeDueAnswerAttempts
<1>2. /\ attempt' \in [Key -> Attempt \cup {None}] /\ attempt'[k] = None
      /\ \A j \in Key : j # k => attempt'[j] = attempt[j]
  BY DEF PurgeDueAnswerAttempts, IInv, TypeOK
<1>3. /\ written' \in [Key -> 0..1] /\ \A j \in Key : j # k => written'[j] = written[j]
  BY DEF PurgeDueAnswerAttempts, IInv, TypeOK
<1>4. ASSUME NEW r \in Request
      PROVE  ExecutionFits(r)' /\ AppendFits(r)'
  <2>1. ExecutionFits(r) /\ AppendFits(r)
    BY DEF IInv
  <2>2. CASE req[r].key # k
    <3>1. req[r].key \in Key /\ Owns(r) => Owns(r)'
      BY <1>1, <1>2, <2>2 DEF Owns, Receipt
    <3> QED
      BY <1>1, <2>1, <3>1 DEF ExecutionFits, AppendFits, Append, Executing, Preparing
  <2>3. CASE req[r].key = k
    BY <1>1, <2>1, <2>3 DEF ExecutionFits, AppendFits, Append, Executing, Preparing
  <2> QED
    BY <2>2, <2>3
<1>5. ReceiptsAreTrue'
  BY <1>2, <1>3 DEF IInv, ReceiptsAreTrue
<1>6. TypeOK'
  BY <1>1, <1>2, <1>3 DEF IInv, TypeOK
<1> QED
  BY <1>1, <1>4, <1>5, <1>6 DEF IInv, NewAreEmpty

\* A conversation is deleted, a session ends, or nothing happens.
LEMMA Rests ==
    ASSUME Constants, IInv,
           (\E c \in Chat : DeleteChatSession(c)) \/ EndSession \/ UNCHANGED vars
    PROVE  IInv'
<1>1. UNCHANGED <<attempt, req, written>>
  BY DEF DeleteChatSession, EndSession, vars
<1>2. Keeps
  BY <1>1 DEF Keeps
<1>3. \A q \in Request : ExecutionFits(q)' /\ AppendFits(q)'
  BY <1>1, <1>2, OthersStay DEF IInv
<1>4. chat' \in [Chat -> Conversation] /\ NewAreEmpty'
  <2>1. CASE UNCHANGED chat
    BY <2>1 DEF IInv, TypeOK, Conversation, NewAreEmpty
  <2>2. ASSUME NEW c \in Chat, DeleteChatSession(c)
        PROVE  chat' \in [Chat -> Conversation] /\ NewAreEmpty'
    BY <2>2 DEF DeleteChatSession, IInv, TypeOK, Conversation, NewAreEmpty
  <2> QED
    BY <2>1, <2>2 DEF EndSession, vars
<1>5. actor' \in BOOLEAN
  BY DEF DeleteChatSession, EndSession, vars, IInv, TypeOK
<1>6. TypeOK'
  BY <1>1, <1>4, <1>5 DEF IInv, TypeOK, Conversation
<1> QED
  BY <1>1, <1>3, <1>4, <1>6 DEF IInv, ReceiptsAreTrue

-----------------------------------------------------------------------------
LEMMA IInvInit ==
    ASSUME Constants, Init
    PROVE  IInv
<1>1. TypeOK
  BY DEF Constants, Init, NoRequest, TypeOK
<1>2. ReceiptsAreTrue /\ NewAreEmpty
  BY DEF Init, ReceiptsAreTrue, NewAreEmpty
<1>3. \A r \in Request : ExecutionFits(r) /\ AppendFits(r)
  BY DEF Init, NoRequest, ExecutionFits, AppendFits, Executing, Preparing, Append
<1> QED
  BY <1>1, <1>2, <1>3 DEF IInv

LEMMA IInvNext ==
    ASSUME Constants, IInv, [Next]_vars
    PROVE  IInv'
<1>1. ASSUME NEW r \in Request, NEW k \in Key, NEW b \in Body, Arrive(r, k, b)
      PROVE  IInv'
  BY <1>1, Arrives
<1>2. ASSUME NEW r \in Request, Reserve(r)
      PROVE  IInv'
  BY <1>2, ReservesNew, ReservesNothing DEF Reserve
<1>3. ASSUME NEW r \in Request, Execute(r)
      PROVE  IInv'
  BY <1>3, PrepareSplits, OthersGiveUp, Gives, Prepares, Renews, Works DEF Execute
<1>4. ASSUME NEW r \in Request, AppendAnswer(r)
      PROVE  IInv'
  BY <1>4, Opens, Lands, AppendsNothing DEF AppendAnswer
<1>5. ASSUME NEW r \in Request, Abort(r) \/ MarkCancelled(r) \/ CancelIsLost(r)
      PROVE  IInv'
  BY <1>5, Aborts, Cancels
<1>6. CASE Tick \/ \E k \in Key : PurgeDueAnswerAttempts(k)
  BY <1>6, TimePasses, Purges
<1>7. CASE (\E c \in Chat : DeleteChatSession(c)) \/ EndSession \/ UNCHANGED vars
  BY <1>7, Rests
<1> QED
  BY <1>1, <1>2, <1>3, <1>4, <1>5, <1>6, <1>7 DEF Next

LEMMA IInvAlways == ASSUME Constants PROVE Spec => []IInv
<1>1. Init => IInv
  BY IInvInit
<1>2. IInv /\ [Next]_vars => IInv'
  BY IInvNext
<1> QED
  BY <1>1, <1>2, PTL DEF Spec

-----------------------------------------------------------------------------
(* Who ends a receipt *)

\* Where a receipt has to be in a state that its execution brought about.
Places == {"renewed"} \cup Preparing

\* A request that ends its own receipt goes to no such place.
Concludes(r) == Owns(r) /\ req'[r].pc \notin Places

\* Under one key: time apart, an open receipt changes by its owner or because its
\* reservation has expired; it is made where there is none, and purged in the end.
Touches(k) ==
    \/ attempt'[k] = attempt[k]
    \/ attempt[k] = None \/ attempt'[k] = None
    \/ \E r \in Request :
         /\ req[r].key = k /\ attempt[k].status \in Open
         /\ Concludes(r) \/ RenewProviderStage(r) \/ ReserveExpires(r)

\* A step of r that sets the receipt of r's key.
LEMMA SetsOwn ==
    ASSUME Constants, IInv, NEW r \in Request, NEW st \in Open \cup Ended,
           NEW l \in 0..LeaseTicks, SetReceipt(r, st, l), req[r].key \in Key,
           Receipt(r) # None, Receipt(r).status \in Open,
           Concludes(r) \/ RenewProviderStage(r) \/ ReserveExpires(r), NEW k \in Key
    PROVE  Touches(k)
<1>1. \A j \in Key : j # req[r].key => attempt'[j] = attempt[j]
  BY Sets DEF IInv
<1> QED
  BY <1>1 DEF Touches, Receipt

LEMMA StepsTouch ==
    ASSUME Constants, IInv, [Next]_vars, ~Tick, NEW k \in Key
    PROVE  Touches(k)
<1>1. attempt' = attempt => Touches(k)
  BY DEF Touches
<1>2. 0 \in 0..LeaseTicks /\ "failed" \in Open \cup Ended /\ "running" \in Open \cup Ended
      /\ LeaseTicks \in 0..LeaseTicks
  BY DEF Constants, Open, Ended
<1>3. ASSUME NEW r \in Request, Reserve(r)
      PROVE  Touches(k)
  <2>1. CASE ReserveNew(r)
    <3>1. attempt[k] # None => attempt'[k] = attempt[k]
      BY <2>1 DEF ReserveNew, Receipt, IInv, TypeOK
    <3> QED
      BY <3>1 DEF Touches
  <2>2. CASE ReserveFails(r) \/ ReserveReuses(r)
    BY <1>1, <2>2 DEF ReserveFails, ReserveReuses
  <2>3. CASE ReserveExpires(r)
    <3>1. /\ SetReceipt(r, "failed", 0) /\ Receipt(r) # None /\ Receipt(r).status \in Open
          /\ req[r].key \in Key
      BY <2>3, Typed DEF ReserveExpires, Reserving, Open, ExecutionFits
    <3> QED
      BY <1>2, <2>3, <3>1, SetsOwn
  <2> QED
    BY <1>3, <2>1, <2>2, <2>3 DEF Reserve
<1>4. ASSUME NEW r \in Request, Execute(r)
      PROVE  Touches(k)
  <2>1. CASE GivesUp(r)
    <3>1. CASE UNCHANGED attempt
      BY <1>1, <3>1
    <3>2. CASE IsOpen(r) /\ SetReceipt(r, "failed", Receipt(r).lease)
      <4>1. req[r].key \in Key /\ Owns(r)
        BY <2>1, Typed DEF GivesUp, ExecutionFits, Executing, Preparing
      <4>2. Receipt(r).lease \in 0..LeaseTicks
        BY <3>2, <4>1 DEF IsOpen, Receipt, IInv, TypeOK, Attempt
      <4>3. Concludes(r)
        BY <2>1, <4>1, Ends DEF GivesUp, Concludes, Places, Preparing, IInv
      <4> QED
        BY <1>2, <3>2, <4>1, <4>2, <4>3, SetsOwn DEF IsOpen
    <3> QED
      BY <2>1, <3>1, <3>2 DEF GivesUp, FailsReceipt
  <2>2. CASE RenewProviderStage(r)
    <3>1. CASE UNCHANGED attempt
      BY <1>1, <3>1
    <3>2. CASE IsOpen(r) /\ SetReceipt(r, "running", LeaseTicks)
      <4>1. req[r].key \in Key
        BY <2>2, Typed DEF RenewProviderStage, ExecutionFits
      <4> QED
        BY <1>2, <2>2, <3>2, <4>1, SetsOwn DEF IsOpen
    <3> QED
      BY <2>2, <3>1, <3>2 DEF RenewProviderStage
  <2>3. CASE GoesOnPreparing(r) \/ Ask(r) \/ AskAgain(r) \/ \E op \in Append : Write(r, op)
    BY <1>1, <2>3 DEF GoesOnPreparing, Ask, AskAgain, Write
  <2> QED
    BY <1>4, <2>1, <2>2, <2>3, PrepareSplits, OthersGiveUp DEF Execute
<1>5. ASSUME NEW r \in Request, AppendAnswer(r)
      PROVE  Touches(k)
  <2>1. CASE AppendLands(r)
    <3> DEFINE status == IF req[r].op = "answer" THEN "completed" ELSE "refused"
    <3>1. /\ ExecutionFits(r) /\ req[r].op \in Append /\ req[r].pc \notin Places
          /\ req[r].key \in Key /\ Owns(r) /\ Receipt(r) # None /\ Receipt(r).status \in Open
      BY <2>1, Typed DEF AppendLands, Appending, TakesReceipt, ExecutionFits, Append, Open, Places
    <3>2. /\ status \in Open \cup Ended /\ Receipt(r).lease \in 0..LeaseTicks
          /\ SetReceipt(r, status, Receipt(r).lease)
      BY <2>1, <3>1 DEF AppendLands, Ended, Receipt, IInv, TypeOK, Attempt
    <3>3. Concludes(r)
      <4>1. req \in [Request -> Execution]
        BY Typed
      <4>2. req'[r].pc \in {"done", req[r].pc}
        BY <2>1, <4>1 DEF AppendLands, Execution
      <4> QED
        BY <3>1, <4>2 DEF Concludes, Places, Preparing
    <3> HIDE DEF status
    <3> QED
      BY <3>1, <3>2, <3>3, SetsOwn
  <2>2. CASE ReadChat(r) \/ AppendRetries(r) \/ AppendFails(r)
    BY <1>1, <2>2 DEF ReadChat, AppendRetries, AppendFails
  <2> QED
    BY <1>5, <2>1, <2>2 DEF AppendAnswer
<1>6. ASSUME NEW r \in Request, Abort(r) \/ MarkCancelled(r) \/ CancelIsLost(r)
      PROVE  Touches(k)
  <2>1. CASE UNCHANGED attempt
    BY <1>1, <2>1
  <2>2. CASE MarkCancelled(r) /\ IsOpen(r)
    <3>1. /\ req[r].key \in Key /\ Owns(r) /\ SetReceipt(r, "failed", 0) /\ Goes(r, "done")
      BY <2>2, Typed DEF MarkCancelled, ExecutionFits
    <3>2. Concludes(r)
      BY <3>1, GoesOn DEF Concludes, Places, Preparing, IInv, Point
    <3> QED
      BY <1>2, <2>2, <3>1, <3>2, SetsOwn DEF IsOpen
  <2> QED
    BY <1>6, <2>1, <2>2 DEF Abort, MarkCancelled, CancelIsLost
<1>7. ASSUME NEW j \in Key, PurgeDueAnswerAttempts(j)
      PROVE  Touches(k)
  BY <1>7 DEF PurgeDueAnswerAttempts, Touches, IInv, TypeOK
<1>8. CASE \/ \E r \in Request, j \in Key, b \in Body : Arrive(r, j, b)
           \/ \E c \in Chat : DeleteChatSession(c)
           \/ EndSession \/ UNCHANGED vars
  BY <1>1, <1>8 DEF Arrive, DeleteChatSession, EndSession, vars
<1> QED
  BY <1>3, <1>4, <1>5, <1>6, <1>7, <1>8 DEF Next

\* Ended receipts do not change.
LEMMA EndedStays ==
    ASSUME Constants, IInv, [Next]_vars
    PROVE  EndStep
<1> SUFFICES ASSUME NEW k \in Key, attempt[k] # None, attempt'[k] # None,
                    attempt[k].status \in Ended
             PROVE  attempt'[k].status = attempt[k].status
  BY DEF EndStep
<1>1. CASE Tick
  BY <1>1, Ticks DEF IInv
<1>2. CASE ~Tick
  BY <1>2, StepsTouch DEF Touches, Open, Ended
<1> QED
  BY <1>1, <1>2

-----------------------------------------------------------------------------
(* Reservations *)

\* How an execution comes to such a place.
ComesTo(q) ==
    \/ req'[q] = req[q]
    \/ RenewProviderStage(q) /\ req'[q].pc = "renewed"
    \/ ReserveNew(q)
    \/ GoesOnPreparing(q) /\ req'[q].key = req[q].key

LEMMA PlacesOnlySo ==
    ASSUME Constants, IInv, [Next]_vars, ~Tick, NEW q \in Request, req'[q].pc \in Places
    PROVE  ComesTo(q)
<1>1. /\ req \in [Request -> Execution] /\ req[q] \in Execution
      /\ ExecutionFits(q) /\ AppendFits(q)
  BY Typed
<1>2. UNCHANGED req => req'[q] = req[q]
  OBVIOUS
<1>3. ASSUME NEW r \in Request, NEW new, req' = [req EXCEPT ![r] = new], new.pc \notin Places
      PROVE  req'[q] = req[q]
  BY <1>1, <1>3
<1>4. ASSUME NEW r \in Request, Goes(r, "done") \/ Goes(r, "renewing") \/ Stops(r)
      PROVE  req'[q] = req[q]
  BY <1>1, <1>4, GoesOn, Ends DEF IInv, Point, Executing, Preparing, Places
<1>5. ASSUME NEW r \in Request, AppendEnds(r), req[r].op \in Append
      PROVE  req'[q] = req[q]
  <2>1. req[r].pc \notin Places
    BY <1>5, Typed DEF ExecutionFits, Append, Places
  <2>2. req[r] \in Execution
    BY <1>1
  <2>3. req'[r].pc \notin Places /\ \A x \in Request : x # r => req'[x] = req[x]
    BY <1>1, <1>5, <2>1, <2>2 DEF AppendEnds, Execution, Places, Preparing
  <2> QED
    BY <2>3
<1>6. ASSUME NEW r \in Request, NEW k \in Key, NEW b \in Body, Arrive(r, k, b)
      PROVE  req'[q] = req[q]
  BY <1>1, <1>6 DEF Arrive, NoRequest, Places, Preparing
<1>7. ASSUME NEW r \in Request, Reserve(r)
      PROVE  ComesTo(q)
  <2>1. CASE ReserveNew(r)
    <3>1. \A x \in Request : x # r => req'[x] = req[x]
      BY <2>1, ReservesNew
    <3> QED
      BY <2>1, <3>1 DEF ComesTo
  <2> QED
    BY <1>4, <1>7, <2>1 DEF ComesTo, Reserve, ReserveFails, ReserveReuses, ReserveExpires
<1>8. ASSUME NEW r \in Request, Execute(r)
      PROVE  ComesTo(q)
  <2>1. CASE RenewProviderStage(r)
    <3>1. CASE Goes(r, "renewed")
      <4>1. req'[r].pc = "renewed" /\ \A x \in Request : x # r => req'[x] = req[x]
        BY <3>1, GoesOn DEF IInv, Point, Executing, Preparing
      <4> QED
        BY <2>1, <4>1 DEF ComesTo
    <3> QED
      BY <1>4, <2>1, <3>1 DEF RenewProviderStage, ComesTo
  <2>2. CASE Ask(r) \/ \E op \in Append : Write(r, op)
    BY <1>1, <2>2 DEF Ask, Write, Execution, Places, Preparing, ComesTo
  <2>3. CASE GoesOnPreparing(r)
    <3>1. PICK pc \in (Preparing \ {"fencing"}) \cup {"renewing"} : Goes(r, pc)
      BY <2>3 DEF GoesOnPreparing
    <3>2. pc \in Point
      BY DEF Point, Executing, Preparing
    <3>3. req'[r].key = req[r].key /\ \A x \in Request : x # r => req'[x] = req[x]
      BY <3>1, <3>2, GoesOn DEF IInv
    <3> QED
      BY <2>3, <3>3 DEF ComesTo
  <2>4. CASE GivesUp(r) \/ AskAgain(r)
    BY <1>4, <2>4 DEF GivesUp, AskAgain, ComesTo
  <2> QED
    BY <1>8, <2>1, <2>2, <2>3, <2>4, PrepareSplits, OthersGiveUp DEF Execute
<1>9. ASSUME NEW r \in Request, AppendAnswer(r)
      PROVE  req'[q] = req[q]
  <2>1. CASE AppendLands(r) \/ AppendFails(r)
    BY <1>5, <2>1 DEF AppendLands, AppendFails, AppendEnds, Appending
  <2>2. CASE ReadChat(r)
    <3>1. req[r].pc = "writing"
      BY <2>2 DEF ReadChat
    <3>2. PICK x : req' = [req EXCEPT ![r].into = x, ![r].saw = chat[x].count]
      BY <2>2 DEF ReadChat
    <3>3. req'[r].pc = "writing" /\ \A y \in Request : y # r => req'[y] = req[y]
      BY <1>1, <3>1, <3>2 DEF Execution
    <3> QED
      BY <3>3 DEF Places, Preparing
  <2>3. CASE AppendRetries(r)
    BY <1>1, <2>3 DEF AppendRetries, Execution, Places, Preparing
  <2> QED
    BY <1>9, <2>1, <2>2, <2>3 DEF AppendAnswer
<1>10. ASSUME NEW r \in Request, Abort(r) \/ MarkCancelled(r) \/ CancelIsLost(r)
       PROVE  req'[q] = req[q]
  <2>1. CASE Abort(r)
    BY <1>1, <2>1 DEF Abort, Execution, Places, Preparing
  <2> QED
    BY <1>4, <1>10, <2>1 DEF MarkCancelled, CancelIsLost
<1>11. CASE \/ \E k \in Key : PurgeDueAnswerAttempts(k)
            \/ \E c \in Chat : DeleteChatSession(c)
            \/ EndSession \/ UNCHANGED vars
  BY <1>2, <1>11 DEF PurgeDueAnswerAttempts, DeleteChatSession, EndSession, vars, ComesTo
<1> QED
  BY <1>6, <1>7, <1>8, <1>9, <1>10, <1>11 DEF Next, ComesTo

LEMMA RenewedOnlySo ==
    ASSUME Constants, IInv, [Next]_vars, ~Tick, NEW q \in Request, req'[q].pc = "renewed"
    PROVE  RenewProviderStage(q) \/ req'[q] = req[q]
<1>1. ComesTo(q)
  BY PlacesOnlySo DEF Places
<1>2. ~ReserveNew(q)
  BY ReservesNew
<1>3. ~GoesOnPreparing(q)
  <2>1. ASSUME NEW pc \in (Preparing \ {"fencing"}) \cup {"renewing"}, Goes(q, pc)
        PROVE  FALSE
    <3>1. pc \in Point /\ pc # "renewed"
      BY DEF Point, Executing, Preparing
    <3> QED
      BY <2>1, <3>1, GoesOn DEF IInv
  <2> QED
    BY <2>1 DEF GoesOnPreparing
<1> QED
  BY <1>1, <1>2, <1>3 DEF ComesTo

\* Nobody else touches the receipt of an execution that prepares its prompt.
LEMMA PlanningStays ==
    ASSUME Constants, LeaseInv, [Next]_vars, NEW q \in Request
    PROVE  PlanningFits(q)'
<1> SUFFICES ASSUME req'[q].pc \in Preparing
             PROVE  Receipt(q)'.status = "reserved"
  BY DEF PlanningFits
<1> USE DEF LeaseInv
<1>1. IInv' /\ ExecutionFits(q)'
  BY IInvNext DEF IInv
<1>2. req'[q].key \in Key /\ Owns(q)'
  BY <1>1 DEF ExecutionFits, Executing, Preparing
<1>3. CASE Tick
  <2>1. req'[q].pc = req[q].pc /\ req'[q].key = req[q].key
    BY <1>3, Ticks DEF IInv
  <2>2. Receipt(q).status = "reserved" /\ Owns(q)
    BY <2>1, Typed DEF PlanningFits, ExecutionFits, Executing, Preparing
  <2> QED
    BY <1>2, <1>3, <2>1, <2>2, Ticks DEF Owns, Receipt, IInv
<1>4. CASE ReserveNew(q)
  BY <1>4, ReservesNew
<1>5. CASE ~Tick /\ ~ReserveNew(q)
  <2>1. ComesTo(q)
    BY <1>5, PlacesOnlySo DEF Places
  <2>2. req[q].pc \in Preparing /\ req'[q].key = req[q].key
    BY <1>5, <2>1 DEF ComesTo, GoesOnPreparing, Preparing
  <2>3. Receipt(q).status = "reserved" /\ Owns(q) /\ req[q].key \in Key
    BY <1>2, <2>2, Typed DEF PlanningFits, ExecutionFits, Executing, Preparing
  <2>4. Touches(req[q].key)
    BY <1>5, <2>3, StepsTouch
  <2>5. attempt[req[q].key] # None /\ attempt'[req[q].key] # None
    BY <1>2, <2>2, <2>3 DEF Owns, Receipt
  <2>6. ASSUME NEW r \in Request, req[r].key = req[q].key,
               Concludes(r) \/ RenewProviderStage(r) \/ ReserveExpires(r)
        PROVE  FALSE
    <3>1. CASE ReserveExpires(r)
      BY <2>3, <2>6, <3>1 DEF ReserveExpires, Receipt
    <3>2. CASE Concludes(r) \/ RenewProviderStage(r)
      <4>1. Owns(r)
        BY <3>2, Typed DEF Concludes, RenewProviderStage, ExecutionFits, Executing, Preparing
      <4>2. r = q
        BY <2>3, <2>6, <4>1 DEF Owns, Receipt
      <4> QED
        BY <2>2, <3>2, <4>2 DEF Concludes, RenewProviderStage, Places, Preparing
    <3> QED
      BY <2>6, <3>1, <3>2
  <2>7. attempt'[req[q].key] = attempt[req[q].key]
    BY <2>4, <2>5, <2>6 DEF Touches
  <2> QED
    BY <2>2, <2>3, <2>7 DEF Receipt
<1> QED
  BY <1>3, <1>4, <1>5

LEMMA ReservationStays ==
    ASSUME Constants, Outlasts, LeaseInv, [Next]_vars, NEW q \in Request
    PROVE  ReservationFits(q)'
<1> SUFFICES ASSUME req'[q].pc = "renewed", InTime(q)'
             PROVE  Receipt(q)'.status = "running" /\ Receipt(q)'.lease >= req'[q].budget
  BY DEF ReservationFits
<1> USE DEF LeaseInv
<1>1. IInv' /\ ExecutionFits(q)' /\ req'[q] \in Execution /\ req[q] \in Execution
  <2>1. IInv'
    BY IInvNext
  <2>2. req' \in [Request -> Execution]
    BY <2>1 DEF IInv, TypeOK, Execution, Point, Operation
  <2> QED
    BY <2>1, <2>2, Typed DEF IInv
<1>2. req'[q].key \in Key /\ Owns(q)'
  BY <1>1 DEF ExecutionFits, Executing, Preparing
<1>3. CASE Tick
  <2>1. /\ req'[q].pc = req[q].pc /\ req'[q].key = req[q].key
        /\ req'[q].budget = IF req[q].budget > 0 THEN req[q].budget - 1 ELSE 0
    BY <1>3, Ticks DEF IInv
  <2>2. req[q].budget \in Nat /\ req[q].budget > 0 /\ req'[q].budget = req[q].budget - 1
    BY <1>1, <2>1 DEF InTime, Execution, Constants
  <2>3. Receipt(q).status = "running" /\ Receipt(q).lease >= req[q].budget /\ Owns(q)
    BY <2>1, <2>2, Typed DEF ReservationFits, InTime, ExecutionFits, Executing, Preparing
  <2>4. attempt[req[q].key] \in Attempt
    BY <1>2, <2>1, <2>3 DEF Owns, Receipt, IInv, TypeOK
  <2>5. /\ attempt'[req[q].key].status = attempt[req[q].key].status
        /\ attempt'[req[q].key].lease = IF attempt[req[q].key].lease > 0
                                       THEN attempt[req[q].key].lease - 1 ELSE 0
    BY <1>2, <1>3, <2>1, <2>3, Ticks DEF Owns, Receipt, IInv
  <2> QED
    BY <2>1, <2>2, <2>3, <2>4, <2>5 DEF Receipt, Attempt, Constants
<1>4. CASE ~Tick /\ RenewProviderStage(q)
  <2>1. IsOpen(q) /\ SetReceipt(q, "running", LeaseTicks) /\ Goes(q, "renewed")
    BY <1>4, Ends DEF RenewProviderStage, IInv
  <2>2. /\ req[q].key \in Key /\ Receipt(q) # None
        /\ "running" \in Open \cup Ended /\ LeaseTicks \in 0..LeaseTicks
    BY <1>4, <2>1, Typed DEF RenewProviderStage, ExecutionFits, IsOpen, Open, Constants
  <2>3. attempt'[req[q].key].status = "running" /\ attempt'[req[q].key].lease = LeaseTicks
    BY <2>1, <2>2, Sets DEF IInv
  <2>4. req'[q].key = req[q].key
    BY <2>1, GoesOn DEF IInv, Point, Executing, Preparing
  <2> QED
    BY <1>1, <2>3, <2>4 DEF Receipt, Execution, Outlasts, Constants
<1>5. CASE ~Tick /\ ~RenewProviderStage(q)
  <2>1. req'[q] = req[q]
    BY <1>5, RenewedOnlySo
  <2>2. /\ Receipt(q).status = "running" /\ Receipt(q).lease >= req[q].budget /\ Owns(q)
        /\ req[q].key \in Key
    BY <1>2, <2>1, Typed DEF ReservationFits, InTime, ExecutionFits, Executing, Preparing
  <2>3. Touches(req[q].key)
    BY <1>5, <2>2, StepsTouch
  <2>4. attempt[req[q].key] # None /\ attempt'[req[q].key] # None
    BY <1>2, <2>1, <2>2 DEF Owns, Receipt
  <2>5. ASSUME NEW r \in Request, req[r].key = req[q].key,
               Concludes(r) \/ RenewProviderStage(r) \/ ReserveExpires(r)
        PROVE  FALSE
    <3>1. CASE ReserveExpires(r)
      BY <1>1, <2>1, <2>2, <2>5, <3>1 DEF ReserveExpires, Receipt, InTime, Execution, Constants
    <3>2. CASE Concludes(r) \/ RenewProviderStage(r)
      <4>1. Owns(r)
        BY <3>2, Typed DEF Concludes, RenewProviderStage, ExecutionFits, Executing, Preparing
      <4>2. r = q
        BY <2>2, <2>5, <4>1 DEF Owns, Receipt
      <4> QED
        BY <1>5, <2>1, <3>2, <4>2 DEF Concludes, Places
    <3> QED
      BY <2>5, <3>1, <3>2
  <2>6. attempt'[req[q].key] = attempt[req[q].key]
    BY <2>3, <2>4, <2>5 DEF Touches
  <2> QED
    BY <2>1, <2>2, <2>6 DEF Receipt
<1> QED
  BY <1>3, <1>4, <1>5

\* Only asking counts a call.
LEMMA CallsAreAsked ==
    ASSUME Constants, IInv, [Next]_vars, NEW q \in Request, ~Ask(q)
    PROVE  ~(req'[q].calls > req[q].calls)
<1>1. /\ req \in [Request -> Execution] /\ req[q] \in Execution
      /\ ExecutionFits(q) /\ AppendFits(q)
  BY Typed
<1>2. req[q].calls \in Nat
  BY <1>1 DEF Execution, Constants
<1> SUFFICES req'[q].calls = req[q].calls \/ req'[q].calls = 0
  BY <1>2
<1>3. UNCHANGED req => req'[q] = req[q]
  OBVIOUS
<1>4. CASE Tick
  BY <1>4, Ticks DEF IInv
<1>5. ASSUME NEW r \in Request, Stops(r) \/ \E pc \in Point : Goes(r, pc)
      PROVE  req'[q].calls = req[q].calls
  <2>1. CASE r = q
    BY <1>5, <2>1, GoesOn, Ends DEF IInv
  <2>2. CASE r # q
    BY <1>5, <2>2, GoesOn, Ends DEF IInv
  <2> QED
    BY <2>1, <2>2
<1>6. ASSUME NEW r \in Request, NEW k \in Key, NEW b \in Body, Arrive(r, k, b)
      PROVE  req'[q].calls = req[q].calls \/ req'[q].calls = 0
  <2>1. req'[r].calls = 0
    BY <1>6, Arrives
  <2>2. q # r => req'[q] = req[q]
    BY <1>1, <1>6 DEF Arrive
  <2> QED
    BY <2>1, <2>2
<1>7. ASSUME NEW r \in Request, Reserve(r)
      PROVE  req'[q].calls = req[q].calls
  <2>1. CASE ReserveNew(r)
    <3>1. req'[r].calls = req[r].calls /\ \A x \in Request : x # r => req'[x] = req[x]
      BY <2>1, ReservesNew
    <3> QED
      BY <3>1
  <2> QED
    BY <1>5, <1>7, <2>1 DEF Reserve, ReserveFails, ReserveReuses, ReserveExpires
<1>8. ASSUME NEW r \in Request, Execute(r)
      PROVE  req'[q].calls = req[q].calls
  <2>1. CASE Ask(r)
    <3>1. r # q
      BY <2>1
    <3> QED
      BY <1>1, <2>1, <3>1 DEF Ask
  <2>2. CASE \E op \in Append : Write(r, op)
    BY <1>1, <2>2 DEF Write, Execution
  <2>3. CASE GivesUp(r) \/ GoesOnPreparing(r) \/ RenewProviderStage(r) \/ AskAgain(r)
    BY <1>5, <2>3
       DEF GivesUp, GoesOnPreparing, RenewProviderStage, AskAgain, Point, Executing, Preparing
  <2> QED
    BY <1>8, <2>1, <2>2, <2>3, PrepareSplits, OthersGiveUp DEF Execute
<1>9. ASSUME NEW r \in Request, AppendAnswer(r)
      PROVE  req'[q].calls = req[q].calls
  <2>1. CASE AppendLands(r) \/ AppendFails(r)
    BY <1>1, <2>1 DEF AppendLands, AppendFails, Execution
  <2>2. CASE ReadChat(r)
    <3>1. PICK x : req' = [req EXCEPT ![r].into = x, ![r].saw = chat[x].count]
      BY <2>2 DEF ReadChat
    <3> QED
      BY <1>1, <3>1 DEF Execution
  <2>3. CASE AppendRetries(r)
    BY <1>1, <2>3 DEF AppendRetries, Execution
  <2> QED
    BY <1>9, <2>1, <2>2, <2>3 DEF AppendAnswer
<1>10. ASSUME NEW r \in Request, Abort(r) \/ MarkCancelled(r) \/ CancelIsLost(r)
       PROVE  req'[q].calls = req[q].calls
  <2>1. CASE Abort(r)
    BY <1>1, <2>1 DEF Abort, Execution
  <2> QED
    BY <1>5, <1>10, <2>1 DEF MarkCancelled, CancelIsLost, Point
<1>11. CASE \/ \E k \in Key : PurgeDueAnswerAttempts(k)
            \/ \E c \in Chat : DeleteChatSession(c)
            \/ EndSession \/ UNCHANGED vars
  BY <1>3, <1>11 DEF PurgeDueAnswerAttempts, DeleteChatSession, EndSession, vars
<1> QED
  BY <1>4, <1>6, <1>7, <1>8, <1>9, <1>10, <1>11 DEF Next

\* Nobody asks but under a receipt of its own: for an answer or its support with the
\* reservation alive, for what the prompt takes with the receipt still reserved.
LEMMA AsksOnce ==
    ASSUME Constants, LeaseInv, [Next]_vars
    PROVE  AskStep
<1> USE DEF LeaseInv
<1>1. ASSUME NEW r \in Request, req'[r].calls > req[r].calls
      PROVE  /\ Receipt(r) # None
             /\ Receipt(r).status = "running" /\ Receipt(r).lease > 0
             /\ Receipt(r).by = r
  <2>1. req \in [Request -> Execution] /\ req[r] \in Execution /\ ExecutionFits(r)
    BY Typed
  <2>2. Ask(r)
    BY <1>1, CallsAreAsked
  <2>3. Owns(r) /\ ReservationFits(r) /\ req[r].key \in Key
    BY <2>1, <2>2 DEF Ask, ExecutionFits, Executing, Preparing
  <2>4. Receipt(r) \in Attempt /\ req[r].budget \in Nat
    BY <2>1, <2>3 DEF Owns, Receipt, IInv, TypeOK, Execution, Constants
  <2> QED
    BY <2>2, <2>3, <2>4 DEF Ask, Owns, ReservationFits, InTime, Attempt, Constants
<1>2. ASSUME NEW r \in Request, req'[r].pc \in {"consulting", "embedding"} \ {req[r].pc}
      PROVE  Receipt(r) # None /\ Receipt(r).status = "reserved" /\ Receipt(r).by = r
  <2>1. ~Tick
    BY <1>2, Ticks DEF IInv
  <2>2. ComesTo(r)
    BY <1>2, <2>1, PlacesOnlySo DEF Places, Preparing
  <2>3. req[r].pc \in Preparing
    BY <1>2, <2>2, ReservesNew DEF ComesTo, GoesOnPreparing
  <2>4. Owns(r) /\ PlanningFits(r)
    BY <2>3, Typed DEF ExecutionFits, Executing, Preparing
  <2> QED
    BY <2>3, <2>4 DEF Owns, PlanningFits
<1> QED
  BY <1>1, <1>2 DEF AskStep

LEMMA LeaseInvAlways == ASSUME Constants, Outlasts PROVE Spec => []LeaseInv
<1>1. Init => LeaseInv
  <2> SUFFICES ASSUME Init
               PROVE  LeaseInv
    OBVIOUS
  <2>1. \A r \in Request : ReservationFits(r) /\ PlanningFits(r)
    BY DEF Init, NoRequest, ReservationFits, PlanningFits, Preparing
  <2> QED
    BY <2>1, IInvInit DEF LeaseInv
<1>2. LeaseInv /\ [Next]_vars => LeaseInv'
  <2> SUFFICES ASSUME LeaseInv, [Next]_vars
               PROVE  LeaseInv'
    OBVIOUS
  <2>1. IInv'
    BY IInvNext DEF LeaseInv
  <2>2. \A q \in Request : ReservationFits(q)' /\ PlanningFits(q)'
    BY ReservationStays, PlanningStays
  <2> QED
    BY <2>1, <2>2 DEF LeaseInv
<1> QED
  BY <1>1, <1>2, PTL DEF Spec

-----------------------------------------------------------------------------
(* What the receipts promise *)

(***************************************************************************)
(* Receipts, conversations and executions have their types whatever        *)
(* arrives, dies or comes late: among them a conversation within its bound *)
(* and at most one result written under a receipt.                         *)
(***************************************************************************)
THEOREM TypeCorrect == ASSUME Constants PROVE Spec => []TypeOK
<1>1. IInv => TypeOK
  BY DEF IInv
<1> QED
  BY <1>1, IInvAlways, PTL

(***************************************************************************)
(* A receipt tells what became of its question: one result joined the      *)
(* conversation if it says completed or refused, none otherwise.           *)
(***************************************************************************)
THEOREM ReceiptsStayTrue == ASSUME Constants PROVE Spec => []ReceiptsAreTrue
<1>1. IInv => ReceiptsAreTrue
  BY DEF IInv
<1> QED
  BY <1>1, IInvAlways, PTL

(***************************************************************************)
(* A conversation never outgrows its bound, however many transactions      *)
(* append to it and however they roll over.                                *)
(***************************************************************************)
THEOREM ConversationsStayInBounds == ASSUME Constants PROVE Spec => []ConversationsFit
<1>1. IInv => ConversationsFit
  BY DEF IInv, TypeOK, ConversationsFit, Constants
<1> QED
  BY <1>1, IInvAlways, PTL

(***************************************************************************)
(* An ended receipt keeps its result until it is purged, whoever cancels,  *)
(* appends or finds its reservation expired meanwhile.                     *)
(***************************************************************************)
THEOREM EndsStayFinal == ASSUME Constants PROVE Spec => EndsAreFinal
<1>1. IInv /\ [Next]_vars => [EndStep]_vars
  BY EndedStays
<1> QED
  BY <1>1, IInvAlways, PTL DEF Spec, EndsAreFinal

(***************************************************************************)
(* Providers are asked only by the creator of the receipt: for an answer   *)
(* and its support while the receipt is running and its reservation has    *)
(* not expired, if a reservation outlasts the budget of an execution; for  *)
(* the plan and the embedding while the receipt is still reserved.         *)
(***************************************************************************)
THEOREM OneAskerAlways == ASSUME Constants, Outlasts PROVE Spec => OneAsker
<1>1. LeaseInv /\ [Next]_vars => [AskStep]_vars
  BY AsksOnce
<1> QED
  BY <1>1, LeaseInvAlways, PTL DEF Spec, OneAsker
=============================================================================
