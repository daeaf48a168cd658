-------------------------- MODULE ProviderRouting --------------------------
(***************************************************************************)
(* Provider admission (ADR-0013): the router's execution of one logical    *)
(* generation, the pool's reservations and route circuits                  *)
(* (providerAdmissionStates) and the failure-domain circuits               *)
(* (providerFailureDomainStates).                                          *)
(*                                                                         *)
(* Each repository call is one compare-and-set transaction, hence one      *)
(* step; it may also fail, before or after its commit.  A tick is the      *)
(* adapters' call timeout (30 s): a reservation lasts two ticks, a         *)
(* cooldown two, and a call ends within one.  Expiries are kept as the     *)
(* ticks left; a transaction uses the clock of the tick it commits in.     *)
(*                                                                         *)
(* The budget of a pool is left out: it denies a reservation as the        *)
(* concurrency limit does, so Reserve may always be denied.                *)
(***************************************************************************)
EXTENDS ProviderConfiguration, FiniteSets

VARIABLES
    domain,       \* providerFailureDomainStates
    circuit,      \* providerAdmissionStates.routeCircuits
    reservation,  \* providerAdmissionStates.activeReservations
    execution     \* local state of each execution

vars == <<domain, circuit, reservation, execution>>

Fallback == {"none", "model", "provider"}

\* One reservation id, and one failure-domain id, per candidate of an execution.
Id == Execution \X Fallback

Reservation == [route: Route, left: 0..ReservationTicks]

Circuit == [state: {"closed", "open", "half-open"}, failures: 0..FailureThreshold,
            left: 0..CooldownTicks, probe: Id \cup {None}]

Releases == {"succeeded", "retryable-failure", "nonretryable-failure", "cancelled"}
Reports == {"succeeded", "model-retryable-failure", "provider-retryable-failure",
            "terminal-failure", "cancelled"}

ExecutionState ==
    [pc: {"idle", "admit", "lateAdmit", "reserve", "lateReserve", "invoke", "settle", "late"},
     fallback: Fallback, attempts: 0..MaxExternalAttempts, age: 0..AttemptTicks,
     release: Releases \cup {"none"}, report: Reports \cup {"none"},
     failure: {"none", "model", "provider", "final"}, probe: BOOLEAN]

TypeOK ==
    /\ domain \in [Domain -> Circuit]
    /\ circuit \in [Route -> Circuit]
    /\ reservation \in [Id -> Reservation \cup {None}]
    /\ execution \in [Execution -> ExecutionState]

Closed == [state |-> "closed", failures |-> 0, left |-> 0, probe |-> None]
Idle == [pc |-> "idle", fallback |-> "none", attempts |-> 0, age |-> 0,
         release |-> "none", report |-> "none", failure |-> "none", probe |-> FALSE]

Init ==
    /\ domain = [d \in Domain |-> Closed]
    /\ circuit = [r \in Route |-> Closed]
    /\ reservation = [i \in Id |-> None]
    /\ execution = [x \in Execution |-> Idle]

-----------------------------------------------------------------------------
(* Candidates, and what an execution does next *)

IdOf(x) == <<x, execution[x].fallback>>
Candidate(x) ==
    CASE execution[x].fallback = "none" -> Primary
      [] execution[x].fallback = "model" -> ModelFallback
      [] execution[x].fallback = "provider" -> ProviderFallback

Become(x, state) ==
    execution' = [execution EXCEPT ![x] =
        IF state.pc = "late" /\ state.release = "none" /\ state.report = "none"
        THEN Idle ELSE state]

\* The admission of the next candidate.
Try(x, fallback) ==
    Become(x, [execution[x] EXCEPT !.pc = "admit", !.fallback = fallback, !.age = 0,
                                   !.release = "none", !.report = "none", !.probe = FALSE])

\* What remains to be told to the pool and to the failure domain.
Settle(x, release, report, failure) ==
    Become(x, [execution[x] EXCEPT !.pc = "settle", !.release = release,
                                   !.report = report, !.failure = failure])

-----------------------------------------------------------------------------
(* The failure-domain circuit *)

\* Fault: any caller may take the probe over, or nobody ever may.
DomainProbeDropped(d) == None
DomainProbeKept(d) == domain[d].probe

\* A probe that has not reported within a cooldown is given up.
DomainProbe(d) ==
    IF domain[d].state = "half-open" /\ domain[d].left = 0 THEN None ELSE domain[d].probe

DomainAdmits(d) ==
    \/ domain[d].state = "closed"
    \/ domain[d].state = "open" /\ domain[d].left = 0
    \/ domain[d].state = "half-open" /\ DomainProbe(d) = None

\* applyProviderFailureDomainAdmission for the id i.
DomainAdmitted(d, i) ==
    domain' = IF domain[d].state = "closed" THEN domain
              ELSE [domain EXCEPT ![d] = [@ EXCEPT !.state = "half-open", !.probe = i,
                                                   !.left = CooldownTicks]]

\* Fault: failures go on being counted in an open circuit.
StruckUnbounded(c, open, probe) ==
    [state |-> IF open THEN "open" ELSE "closed",
     failures |-> c.failures + 1,
     left |-> IF open THEN CooldownTicks ELSE 0,
     probe |-> probe]

\* A circuit with one more failure, of which `open` says that it opens it.
Struck(c, open, probe) ==
    [state |-> IF open THEN "open" ELSE "closed",
     failures |-> IF c.failures < FailureThreshold THEN c.failures + 1 ELSE c.failures,
     left |-> IF open THEN CooldownTicks ELSE 0,
     probe |-> probe]

Opens(c) == c.state = "half-open" \/ c.failures + 1 >= FailureThreshold

\* Fault: a model's failure counts against its provider.
DomainOutcomeOfAnyFailure(d, i, outcome) ==
    LET c == domain[d] IN
    IF c.state = "half-open" /\ c.probe \notin {None, i} THEN c
    ELSE CASE outcome \in {"provider-retryable-failure", "model-retryable-failure"} ->
                Struck(c, Opens(c), None)
           [] outcome = "succeeded" -> Closed
           [] OTHER -> IF c.probe = i THEN [c EXCEPT !.probe = None, !.left = 0] ELSE c

\* applyProviderFailureDomainOutcome: the domain after id i reports an outcome.
DomainOutcome(d, i, outcome) ==
    LET c == domain[d] IN
    IF c.state = "half-open" /\ c.probe \notin {None, i} THEN c
    ELSE CASE outcome = "provider-retryable-failure" -> Struck(c, Opens(c), None)
           [] outcome = "succeeded" -> Closed
           [] OTHER -> IF c.probe = i THEN [c EXCEPT !.probe = None, !.left = 0] ELSE c

-----------------------------------------------------------------------------
(* The pool: reservations and route circuits *)

Live(i) == reservation[i] # None /\ reservation[i].left > 0
InPool(i, p) == reservation[i] # None /\ PoolOf[reservation[i].route] = p

\* baseState: a half-open circuit forgets a probe whose reservation is gone.
RouteProbe(r) ==
    IF /\ circuit[r].state = "half-open"
       /\ circuit[r].probe # None
       /\ ~Live(circuit[r].probe)
    THEN None ELSE circuit[r].probe

\* Fault: only the reservations of the same route count.
HasRoomOnRoute(r) ==
    Cardinality({i \in Id : Live(i) /\ reservation[i].route = r}) < MaxConcurrency

HasRoom(r) ==
    Cardinality({i \in Id : Live(i) /\ InPool(i, PoolOf[r])}) < MaxConcurrency

RouteAdmits(r) ==
    \/ circuit[r].state = "closed"
    \/ /\ circuit[r].left = 0
       /\ RouteProbe(r) = None

\* applyProviderReservation for the id i: expired reservations of the pool go.
Granted(r, i) ==
    /\ reservation' = [k \in Id |->
         IF k = i THEN [route |-> r, left |-> ReservationTicks]
         ELSE IF InPool(k, PoolOf[r]) /\ ~Live(k) THEN None ELSE reservation[k]]
    /\ circuit' = [q \in Route |->
         IF q = r /\ circuit[q].state # "closed"
         THEN [circuit[q] EXCEPT !.state = "half-open", !.left = 0, !.probe = i]
         ELSE IF PoolOf[q] = PoolOf[r] THEN [circuit[q] EXCEPT !.probe = RouteProbe(q)]
         ELSE circuit[q]]

\* applyProviderRelease: nothing, once the reservation has been pruned.
Released(i, outcome) ==
    IF reservation[i] = None THEN UNCHANGED <<reservation, circuit>>
    ELSE LET r == reservation[i].route
             c == circuit[r]
             probe == IF c.probe = i THEN None ELSE c.probe IN
         /\ reservation' = [reservation EXCEPT ![i] = None]
         /\ circuit' = [circuit EXCEPT ![r] =
              CASE outcome = "retryable-failure" -> Struck(c, Opens(c), probe)
                [] outcome = "succeeded" -> [Closed EXCEPT !.probe = probe]
                [] OTHER -> [c EXCEPT !.probe = probe]]

-----------------------------------------------------------------------------
(* One execution *)

OfExecution(i, x) == i # None /\ i \in {x} \X Fallback

\* A new execution.  Ids are random: one is used again here only once the
\* documents name it in entries that every reader takes for absent.
Start(x) ==
    /\ execution[x].pc = "idle"
    /\ \A i \in {x} \X Fallback : ~Live(i)
    /\ \A d \in Domain : ~OfExecution(domain[d].probe, x)
    /\ \A r \in Route : OfExecution(circuit[r].probe, x) => circuit[r].state = "half-open"
    /\ reservation' = [i \in Id |-> IF OfExecution(i, x) THEN None ELSE reservation[i]]
    /\ circuit' = [r \in Route |->
         IF OfExecution(circuit[r].probe, x) THEN [circuit[r] EXCEPT !.probe = None]
         ELSE circuit[r]]
    /\ Try(x, "none")
    /\ UNCHANGED domain

\* The signal or the deadline: what is awaited goes on unobserved, and the
\* failure domain is told that the execution was cancelled.
Abort(x) ==
    /\ \/ /\ execution[x].pc = "admit"
          /\ Become(x, [execution[x] EXCEPT !.pc = "lateAdmit"])
       \/ /\ execution[x].pc = "reserve"
          /\ Become(x, [execution[x] EXCEPT !.pc = "lateReserve", !.report = "cancelled"])
       \/ /\ execution[x].pc = "settle" /\ execution[x].release = "none"
          /\ Settle(x, "none", "cancelled", "final")
    /\ UNCHANGED <<domain, circuit, reservation>>

AdmitProviderDomain(x) ==
    LET d == DomainOf[Candidate(x)] IN
    /\ execution[x].pc \in {"admit", "lateAdmit"}
    /\ DomainAdmits(d)
    /\ DomainAdmitted(d, IdOf(x))
    /\ IF execution[x].pc = "admit"
       THEN Become(x, [execution[x] EXCEPT !.pc = "reserve",
                                           !.probe = domain[d].state # "closed"])
       ELSE Become(x, [execution[x] EXCEPT !.pc = "late", !.report = "cancelled"])
    /\ UNCHANGED <<circuit, reservation>>

\* An open domain is skipped: the provider fallback is tried before any call.
DomainDenies(x) ==
    /\ execution[x].pc \in {"admit", "lateAdmit"}
    /\ ~DomainAdmits(DomainOf[Candidate(x)])
    /\ IF /\ execution[x].pc = "admit" /\ execution[x].fallback = "none"
          /\ ProviderFallback # None
       THEN Try(x, "provider")
       ELSE Become(x, Idle)
    /\ UNCHANGED <<domain, circuit, reservation>>

\* The transaction, or its acknowledgement, is lost.
DomainFails(x) ==
    LET d == DomainOf[Candidate(x)] IN
    /\ execution[x].pc \in {"admit", "lateAdmit"}
    /\ UNCHANGED domain \/ (DomainAdmits(d) /\ DomainAdmitted(d, IdOf(x)))
    /\ Become(x, Idle)
    /\ UNCHANGED <<circuit, reservation>>

ReserveProviderCall(x) ==
    LET r == Candidate(x) IN
    /\ execution[x].pc \in {"reserve", "lateReserve"}
    /\ RouteAdmits(r) /\ HasRoom(r)
    /\ Granted(r, IdOf(x))
    /\ IF execution[x].pc = "reserve"
       THEN Become(x, [execution[x] EXCEPT !.pc = "invoke", !.attempts = @ + 1])
       ELSE Become(x, [execution[x] EXCEPT !.pc = "late", !.release = "cancelled"])
    /\ UNCHANGED domain

\* Circuit, concurrency or budget: no call was made, which is no failure of the
\* provider, but its fallback may be tried.
ReservationDenied(x) ==
    /\ execution[x].pc \in {"reserve", "lateReserve"}
    /\ IF execution[x].pc = "reserve"
       THEN Settle(x, "none", "terminal-failure", "provider")
       ELSE Become(x, [execution[x] EXCEPT !.pc = "late"])
    /\ UNCHANGED <<domain, circuit, reservation>>

\* The transaction, or its acknowledgement, is lost.
ReservationFails(x) ==
    LET r == Candidate(x) IN
    /\ execution[x].pc \in {"reserve", "lateReserve"}
    /\ \/ UNCHANGED <<circuit, reservation>>
       \/ RouteAdmits(r) /\ HasRoom(r) /\ Granted(r, IdOf(x))
    /\ IF execution[x].pc = "reserve"
       THEN Settle(x, "none", "terminal-failure", "final")
       ELSE Become(x, [execution[x] EXCEPT !.pc = "late"])
    /\ UNCHANGED domain

\* The external call ends.  An error that is not the adapter's is ambiguous,
\* whether or not it calls itself retryable.
CallEnds(x) ==
    /\ execution[x].pc = "invoke"
    /\ \/ Settle(x, "succeeded", "succeeded", "none")
       \/ Settle(x, "retryable-failure", "model-retryable-failure", "model")
       \/ Settle(x, "retryable-failure", "provider-retryable-failure", "provider")
       \/ \E release \in {"retryable-failure", "nonretryable-failure"} :
            Settle(x, release, "terminal-failure", "final")
       \/ Settle(x, "cancelled", "cancelled", "final")
    /\ UNCHANGED <<domain, circuit, reservation>>

ReleaseProviderCall(x) ==
    /\ execution[x].release # "none"
    /\ Released(IdOf(x), execution[x].release)
    /\ Become(x, [execution[x] EXCEPT !.release = "none"])
    /\ UNCHANGED domain

\* A failed release is swallowed, except that it turns a success into an error.
ReleaseFails(x) ==
    /\ execution[x].release # "none"
    /\ UNCHANGED <<circuit, reservation>> \/ Released(IdOf(x), execution[x].release)
    /\ IF execution[x].release = "succeeded"
       THEN Settle(x, "none", "terminal-failure", "final")
       ELSE Become(x, [execution[x] EXCEPT !.release = "none"])
    /\ UNCHANGED domain

\* The pool is told first, unless nobody waits for it any more.
MayReport(x) ==
    /\ execution[x].report # "none"
    /\ execution[x].release = "none" \/ execution[x].pc \in {"late", "lateReserve"}

\* The route of a fallback, or None.
Alternative(f) == IF f = "model" THEN ModelFallback ELSE ProviderFallback

\* Fault: the router goes on to the other fallback.
FallsBackAgain(x, f) ==
    /\ execution[x].failure = f /\ Alternative(f) # None
    /\ execution[x].attempts < MaxExternalAttempts

\* Fault: the router goes on after any outcome.
FallsBackAnyway(x, f) ==
    /\ Alternative(f) # None
    /\ execution[x].attempts < MaxExternalAttempts
    /\ execution[x].fallback = "none"

\* One fallback, of the kind of the failure, while calls are left.
FallsBack(x, f) ==
    /\ execution[x].failure = f /\ Alternative(f) # None
    /\ execution[x].attempts < MaxExternalAttempts
    /\ execution[x].fallback = "none"

\* What follows a recorded outcome.
Continue(x) ==
    IF execution[x].pc # "settle" THEN Become(x, [execution[x] EXCEPT !.report = "none"])
    ELSE \/ \E f \in {"model", "provider"} : FallsBack(x, f) /\ Try(x, f)
         \/ ~(\E f \in {"model", "provider"} : FallsBack(x, f)) /\ Become(x, Idle)

ReportProviderDomain(x) ==
    LET d == DomainOf[Candidate(x)] IN
    /\ MayReport(x)
    /\ domain' = [domain EXCEPT ![d] = DomainOutcome(d, IdOf(x), execution[x].report)]
    /\ Continue(x)
    /\ UNCHANGED <<circuit, reservation>>

\* An outcome that may not have been recorded is ambiguous: no fallback.  A
\* success that is then found cancelled is reported once more.
ReportFails(x) ==
    LET d == DomainOf[Candidate(x)] IN
    /\ MayReport(x)
    /\ \/ UNCHANGED domain
       \/ domain' = [domain EXCEPT ![d] = DomainOutcome(d, IdOf(x), execution[x].report)]
    /\ IF execution[x].pc # "settle" THEN Become(x, [execution[x] EXCEPT !.report = "none"])
       ELSE \/ Become(x, Idle)
            \/ execution[x].report = "succeeded" /\ Settle(x, "none", "cancelled", "final")
    /\ UNCHANGED <<circuit, reservation>>

Crash(x) ==
    /\ execution[x].pc # "idle"
    /\ Become(x, Idle)
    /\ UNCHANGED <<domain, circuit, reservation>>

-----------------------------------------------------------------------------
(* Time *)

\* From domain admission to the end of its external call.
Attempting(x) == execution[x].pc \in {"reserve", "invoke"}

Less(n) == IF n = 0 THEN 0 ELSE n - 1

Tick ==
    /\ \A x \in Execution : Attempting(x) => execution[x].age < AttemptTicks
    /\ domain' = [d \in Domain |-> [domain[d] EXCEPT !.left = Less(@)]]
    /\ circuit' = [r \in Route |-> [circuit[r] EXCEPT !.left = Less(@)]]
    /\ reservation' = [i \in Id |->
         IF reservation[i] = None THEN None ELSE [reservation[i] EXCEPT !.left = Less(@)]]
    /\ execution' = [x \in Execution |->
         IF Attempting(x) THEN [execution[x] EXCEPT !.age = @ + 1] ELSE execution[x]]

-----------------------------------------------------------------------------

Advance(x) ==
    \/ AdmitProviderDomain(x) \/ DomainDenies(x) \/ DomainFails(x)
    \/ ReserveProviderCall(x) \/ ReservationDenied(x) \/ ReservationFails(x)
    \/ CallEnds(x) \/ ReleaseProviderCall(x) \/ ReleaseFails(x)
    \/ ReportProviderDomain(x) \/ ReportFails(x)

Next ==
    \/ \E x \in Execution : Start(x) \/ Abort(x) \/ Advance(x)
    \/ \E x \in Mortal : Crash(x)
    \/ Tick

Spec == Init /\ [][Next]_vars

\* Every awaited call returns, time passes, and work keeps coming: the documents
\* only change when a call touches them.  A repository does not fail for ever.
Fairness ==
    /\ \A x \in Execution :
         /\ WF_vars(Start(x)) /\ WF_vars(Advance(x))
         /\ SF_vars(AdmitProviderDomain(x))
    /\ SF_vars(Tick)

FairSpec == Spec /\ Fairness

-----------------------------------------------------------------------------
(* Safety *)

\* The external calls of a pool that are really in flight never exceed its limit,
\* although a reservation may expire, leak or be pruned: none does so before the
\* call it was made for has ended.
ConcurrencyHolds ==
    \A p \in Pool :
        Cardinality({x \in Execution : execution[x].pc = "invoke" /\ PoolOf[Candidate(x)] = p})
            <= MaxConcurrency

\* A failing provider is probed by one execution at a time, even when the probe
\* before was abandoned and its holder is still about.
OneProbe ==
    \A x, y \in Execution :
        /\ Attempting(x) /\ execution[x].probe
        /\ Attempting(y) /\ execution[y].probe
        /\ DomainOf[Candidate(x)] = DomainOf[Candidate(y)]
        => x = y

\* No circuit is stuck: one that is open has no probe, which no reservation would
\* ever clear, and a closed one has not reached its threshold.
CircuitShape ==
    \A c \in {domain[d] : d \in Domain} \cup {circuit[r] : r \in Route} :
        /\ c.state # "half-open" => c.probe = None
        /\ c.failures = FailureThreshold <=> c.state # "closed"

\* One probe at a time, and no circuit that nothing can close again.
CircuitsHold == OneProbe /\ CircuitShape

-----------------------------------------------------------------------------
(* What a step may never do *)

ProbeStep ==
    /\ \A d \in Domain :
         /\ domain[d].state = "half-open" /\ domain[d].probe # None
         /\ domain[d].left > 0
         /\ domain'[d].state # "half-open" \/ domain'[d].probe # domain[d].probe
         => LET x == domain[d].probe[1] IN execution'[x] # execution[x]
    /\ \A r \in Route :
         /\ circuit[r].state = "half-open" /\ circuit[r].probe # None
         /\ Live(circuit[r].probe)
         /\ circuit'[r] # circuit[r]
         => reservation'[circuit[r].probe] = None

OpeningStep ==
    \A d \in Domain :
      domain[d].state # "open" /\ domain'[d].state = "open" =>
         \E x \in Execution : /\ execution[x].report = "provider-retryable-failure"
                            /\ DomainOf[Candidate(x)] = d
                            /\ execution'[x] # execution[x]

\* Half-open circuits are decided by their probe: outcomes of calls admitted
\* before the circuit opened, which may still arrive, neither close nor reopen it.
\* And a provider's circuit opens only when its probe failed or its calls failed
\* FailureThreshold times as a provider: never for a failure of one model, and
\* never for what an execution did to itself.
OutcomesDecide == [][ProbeStep /\ OpeningStep]_vars

FallbackStep ==
    \A x \in Execution :
      execution'[x].pc # "idle" /\ execution'[x].fallback # execution[x].fallback =>
         /\ execution[x].fallback = "none"
         /\ execution[x].attempts < MaxExternalAttempts
         /\ execution[x].failure \in {"none", execution'[x].fallback}

\* One execution moves to a fallback at most once, while it has calls left, and
\* never after an outcome that is ambiguous or final.
OneFallback == [][FallbackStep]_vars

-----------------------------------------------------------------------------
(* Liveness *)

ProbedBy(i) == domain[DomainOf[Primary]].probe = i

\* A half-open provider does not wait for ever for a probe that was killed, or
\* whose outcome was lost.
ProbeIsReturned == \A i \in Id : ProbedBy(i) ~> ~ProbedBy(i)

=============================================================================
