----------------------------- MODULE MCProviders ----------------------------
(***************************************************************************)
(* Three instances of ProviderRouting in one run for TLC; a behaviour is   *)
(* about the one that is `shown`.  The constants of the module itself are  *)
(* those of the pool: two models behind one credential of one provider,    *)
(* which allows one call at a time.  Its properties are checked by their   *)
(* own names; while another instance is shown its variables rest in its    *)
(* initial state.                                                          *)
(***************************************************************************)
EXTENDS ProviderRouting, TLC

CONSTANTS r1, r2, r3, d1, d2, p1, p2
CONSTANTS OneRoute, AllRoutes, OneExecution, AllDomains, AllPools

VARIABLES
    shown,
    domains, circuits, reservations, executions  \* of the other two instances

\* Two models of one provider behind one credential, and another provider.
TwoProviders == (r1 :> d1) @@ (r2 :> d1) @@ (r3 :> d2)
TwoPools == (r1 :> p1) @@ (r2 :> p1) @@ (r3 :> p2)

OneProvider == [r \in Route |-> d1]
OnePool == [r \in Route |-> p1]

\* One route of one provider: two executions around its two circuits.
Circuits == INSTANCE ProviderRouting WITH
    domain <- domains, circuit <- circuits, reservation <- reservations,
    execution <- executions,
    Route <- OneRoute, DomainOf <- r1 :> d1, PoolOf <- r1 :> p1, ModelFallback <- None,
    MaxExternalAttempts <- 1, MaxConcurrency <- 2, FailureThreshold <- 3

\* Generations one after the other, with both fallbacks: two models behind one
\* credential, and a second provider.
Router == INSTANCE ProviderRouting WITH
    domain <- domains, circuit <- circuits, reservation <- reservations,
    execution <- executions,
    Execution <- OneExecution, Route <- AllRoutes, Domain <- AllDomains, Pool <- AllPools,
    DomainOf <- TwoProviders, PoolOf <- TwoPools, ProviderFallback <- r3,
    FailureThreshold <- 2

others == <<domains, circuits, reservations, executions>>
all == <<shown, vars, others>>

NotOthers == domains = None /\ circuits = None /\ reservations = None /\ executions = None

InitShown ==
    /\ Init
    /\ \/ shown = "pool" /\ NotOthers
       \/ shown = "circuits" /\ Circuits!Init
       \/ shown = "router" /\ Router!Init

NextShown ==
    /\ UNCHANGED shown
    /\ \/ shown = "pool" /\ Next /\ UNCHANGED others
       \/ shown = "circuits" /\ Circuits!Next /\ UNCHANGED vars
       \/ shown = "router" /\ Router!Next /\ UNCHANGED vars

SpecShown == InitShown /\ [][NextShown]_all

-----------------------------------------------------------------------------
\* ProviderRouting, of the other two instances: the same circuits where a provider
\* has to fail three times, and the router where it has both fallbacks.
RoutersHold ==
    /\ [](shown = "circuits" => Circuits!TypeOK /\ Circuits!CircuitsHold)
    /\ [](shown = "router" => Router!TypeOK)
    /\ [][/\ shown = "circuits" => Circuits!ProbeStep /\ Circuits!OpeningStep
          /\ shown = "router" => Router!FallbackStep]_all

Symmetric == Permutations(Execution)
=============================================================================
