\* One task under everything that can hit it: cancels, a crash, a failed write,
\* removal, deletion by thread id, and forks of its thread.
SPECIFICATION Spec
CONSTANTS
    NumTasks = 1
    MaxRetries = 2
    MaxCompleted = 1
    MaxCancels = 2
    MaxCrashes = 1
    MaxFaults = 1
    Requests = {"remove", "delete", "fork"}
INVARIANTS
    AttemptIsReachable
    CleanupOnce
PROPERTIES
    KeepsLifecycle
    DeletedStaysDeleted
\* Every task may be settled, and no request forced.
CHECK_DEADLOCK FALSE
