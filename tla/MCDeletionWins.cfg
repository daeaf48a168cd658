\* A question under way while its account is deleted.
SPECIFICATION Spec
CONSTANTS
    Worker = {w1}
    Writer = {x1}
    None = None
    LeaseTicks = 1
    DeferTicks = 1
INVARIANTS
    DeletionWins
CHECK_DEADLOCK FALSE
