\* Two deliveries of any kind, with two of: a failing call, a cancellation, a restart.
SPECIFICATION Spec
CONSTANTS
    Deliveries = {d1, d2}
    User = author
    TaskTimeout = 1
    MaxRetries = 1
    MaxWrites = 1
    MaxTroubles = 2
INVARIANTS
    WorkIsKept
    ClaimOutlivesAgents
PROPERTIES
    LeaseProtects
\* Every delivery may be handled.
CHECK_DEADLOCK FALSE
