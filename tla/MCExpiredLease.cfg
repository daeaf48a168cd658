\* A worker whose lease has expired goes on.
SPECIFICATION Spec
CONSTANTS
    Worker = {w1}
    Writer = {x1}
    None = None
    LeaseTicks = 1
    DeferTicks = 1
PROPERTIES
    UnexpiredLeaseOnly
CHECK_DEADLOCK FALSE
