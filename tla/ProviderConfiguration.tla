----------------------- MODULE ProviderConfiguration -----------------------
(***************************************************************************)
(* What ProviderRouting is configured with: the routes of the registry,    *)
(* the workload policy of one generation, its limits and its clock.        *)
(***************************************************************************)
EXTENDS Integers

CONSTANTS
    Execution,           \* calls of router.execute, with what they leave in flight
    Route,               \* configured routes
    Domain,              \* provider failure domains
    Pool,                \* admission domains: one credential, one concurrency limit
    DomainOf,            \* the failure domain of each route
    PoolOf,              \* the pool of each route
    Primary,             \* the workload policy: primary route ...
    ModelFallback,       \* ... first model fallback, or None
    ProviderFallback,    \* ... first provider fallback, or None
    None,                \* absence of a route, a reservation, a probe
    Mortal,              \* bound: the executions whose process may be killed
    MaxExternalAttempts, \* external calls of one execution (1 or 2)
    MaxConcurrency,      \* reservations of a pool
    FailureThreshold,    \* consecutive failures that open a circuit (3)
    ReservationTicks,    \* reservationTtlMs
    CooldownTicks,       \* cooldownSeconds, COOLDOWN_MS
    AttemptTicks         \* bound on the time from admission to the call's end

ASSUME PolicyAssumption ==
    /\ DomainOf \in [Route -> Domain]
    /\ PoolOf \in [Route -> Pool]
    /\ Primary \in Route
    /\ ModelFallback \in (Route \cup {None}) \ {Primary}
    /\ ModelFallback # None => DomainOf[ModelFallback] = DomainOf[Primary]
    /\ ProviderFallback \in Route \cup {None}
    /\ ProviderFallback # None => DomainOf[ProviderFallback] # DomainOf[Primary]
    /\ MaxExternalAttempts \in {1, 2}

ASSUME TimingAssumption ==
    /\ MaxConcurrency \in Nat \ {0}
    /\ FailureThreshold \in Nat \ {0}
    /\ ReservationTicks \in Nat \ {0}
    /\ CooldownTicks \in Nat /\ CooldownTicks >= ReservationTicks
    /\ AttemptTicks \in Nat /\ AttemptTicks < ReservationTicks
    /\ Mortal \subseteq Execution

\* None is no route, no id of a reservation or of a probe, and no reservation.
ASSUME NoneAssumption ==
    /\ None \notin Route
    /\ None \notin Execution \X {"none", "model", "provider"}
    /\ None \notin [route: Route, left: 0..ReservationTicks]
=============================================================================
