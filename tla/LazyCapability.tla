--------------------------- MODULE LazyCapability ---------------------------
(***************************************************************************)
(* The capabilities of a worker (database, jobs, indexing, ...), made when *)
(* they are first needed: createSingleFlightCapability of lazy-runtime.js  *)
(* and the dependencies of createLazyRuntimeOptions.  The factories are    *)
(* abstracted to a load that succeeds or fails, and always settles.        *)
(***************************************************************************)
EXTENDS Naturals

CONSTANTS
    Capability, Caller, None,
    Needs,          \* of a capability: those its load asks for first
    MaxAttempts     \* loads of one flight (2)

VARIABLES
    made,           \* of a capability: how many values were made (ghost beyond 1)
    current,        \* of a capability: its flight
    flight,         \* of a flight: where it is, or None
    call            \* of a caller: the flight it waits for, or None

vars == <<made, current, flight, call>>

\* Room for two flights of a capability: that there is one is for Joined to see to.
Flight == Capability \X {1, 2}

Init ==
    /\ made = [c \in Capability |-> 0]
    /\ current = [c \in Capability |-> None]
    /\ flight = [f \in Flight |-> None]
    /\ call = [k \in Caller |-> None]

-----------------------------------------------------------------------------
\* Whoever needs a capability joins its flight, or starts one.
New(c) == CHOOSE f \in {c} \X {1, 2} : flight[f] = None

Joined(c) == IF current[c] = None THEN New(c) ELSE current[c]

Asking == [pc |-> "asking", attempt |-> 1, waits |-> {}]

\* What is needed and not made; the flights that are started for it.
Missing(C) == {c \in C : made[c] = 0}
Started(C) == {Joined(c) : c \in {d \in Missing(C) : current[d] = None}}

\* Mutant: the flight is not kept for the next caller.
JoinsNone(C) ==
    /\ \A c \in Missing(C) : \E f \in {c} \X {1, 2} : flight[f] = None
    /\ UNCHANGED current

Joins(C) ==
    current' = [c \in Capability |-> IF c \in Missing(C) THEN Joined(c) ELSE current[c]]

\* getCapability, of something not made yet.
Call(k, c) ==
    /\ call[k] = None /\ made[c] = 0
    /\ Joins({c})
    /\ call' = [call EXCEPT ![k] = Joined(c)]
    /\ flight' = [f \in Flight |-> IF f \in Started({c}) THEN Asking ELSE flight[f]]
    /\ UNCHANGED made

Under(f, pc) == flight[f] # None /\ flight[f].pc = pc

\* A load first asks for all it depends on.
AskDependencies(f) ==
    /\ Under(f, "asking")
    /\ LET needs == Needs[f[1]]
           waits == {Joined(c) : c \in Missing(needs)}
       IN /\ Joins(needs)
          /\ flight' = [g \in Flight |->
               IF g = f THEN [flight[f] EXCEPT !.waits = waits,
                                !.pc = IF waits = {} THEN "loading" ELSE "waiting"]
               ELSE IF g \in Started(needs) THEN Asking ELSE flight[g]]
    /\ UNCHANGED <<made, call>>

\* The flight is over: its callers are told, and so are the flights it holds up.
Ends(f, told(_)) ==
    /\ call' = [k \in Caller |-> IF call[k] = f THEN None ELSE call[k]]
    /\ flight' = [g \in Flight |->
         IF g = f THEN None
         ELSE IF Under(g, "waiting") /\ f \in flight[g].waits THEN told(flight[g]) ELSE flight[g]]

Succeed(f) ==
    /\ Under(f, "loading")
    /\ made' = [made EXCEPT ![f[1]] = @ + 1]
    /\ LET told(g) == [g EXCEPT !.waits = @ \ {f}, !.pc = IF g.waits = {f} THEN "loading" ELSE @]
       IN Ends(f, told)
    /\ UNCHANGED current

\* Another attempt, which asks for the dependencies again, or none.
Fail(f) ==
    /\ Under(f, "loading")
    /\ flight' = [flight EXCEPT ![f] =
         IF @.attempt < MaxAttempts THEN [Asking EXCEPT !.attempt = flight[f].attempt + 1]
                                    ELSE [@ EXCEPT !.pc = "failing"]]
    /\ UNCHANGED <<made, current, call>>

\* A flight that failed is forgotten; those that depend on it are not repeated.
GiveUp(f) ==
    /\ Under(f, "failing")
    /\ current' = [current EXCEPT ![f[1]] = None]
    /\ LET told(g) == [g EXCEPT !.pc = "failing"]
       IN Ends(f, told)
    /\ UNCHANGED made

Next ==
    \/ \E k \in Caller, c \in Capability : Call(k, c)
    \/ \E f \in Flight : AskDependencies(f) \/ Succeed(f) \/ Fail(f) \/ GiveUp(f)

Spec == Init /\ [][Next]_vars

-----------------------------------------------------------------------------
TypeOK ==
    /\ made \in [Capability -> Nat]
    /\ current \in [Capability -> Flight \cup {None}]
    /\ flight \in [Flight -> {None} \cup
         [pc : {"asking", "waiting", "loading", "failing"}, attempt : 1..MaxAttempts,
          waits : SUBSET Flight]]
    /\ call \in [Caller -> Flight \cup {None}]

(***************************************************************************)
(* Nothing is made twice, however many requests and capabilities ask for   *)
(* it at once and however often its load failed: a second job runtime      *)
(* would have queues of its own.                                           *)
(***************************************************************************)
MadeOnce == \A c \in Capability : made[c] <= 1

(***************************************************************************)
(* Who waits, a caller or a load, waits for a flight that is under way:    *)
(* nobody is left with one that has failed.                                *)
(***************************************************************************)
WaitsAreUnderWay ==
    /\ \A k \in Caller : call[k] # None => flight[call[k]] # None
    /\ \A f \in Flight : Under(f, "waiting") =>
         flight[f].waits # {} /\ \A g \in flight[f].waits : flight[g] # None
=============================================================================
