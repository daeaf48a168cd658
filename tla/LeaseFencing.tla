---------------------------- MODULE LeaseFencing ----------------------------
(***************************************************************************)
(* What a fenced lease promises (ADR-0010), with no owners, clocks or      *)
(* messages: each resource is held at most once, every grant takes a       *)
(* generation never used before, and the protected data only ever takes an *)
(* effect of the generation that holds the resource now.                   *)
(***************************************************************************)
EXTENDS Naturals

CONSTANT Resource

VARIABLES
    generation,  \* the persistent high-water mark
    held,        \* whether the resource has an active owner
    effect       \* the generation of the last protected write

vars == <<generation, held, effect>>

Init ==
    /\ generation = [r \in Resource |-> 0]
    /\ held = [r \in Resource |-> FALSE]
    /\ effect = [r \in Resource |-> 0]

Grant(r) ==
    /\ ~held[r]
    /\ generation' = [generation EXCEPT ![r] = @ + 1]
    /\ held' = [held EXCEPT ![r] = TRUE]
    /\ UNCHANGED effect

Return(r) ==
    /\ held[r]
    /\ held' = [held EXCEPT ![r] = FALSE]
    /\ UNCHANGED <<generation, effect>>

Effect(r) ==
    /\ held[r]
    /\ effect' = [effect EXCEPT ![r] = generation[r]]
    /\ UNCHANGED <<generation, held>>

Next == \E r \in Resource : Grant(r) \/ Return(r) \/ Effect(r)

Spec == Init /\ [][Next]_vars
=============================================================================
