\* Two tasks compete for a history of one, with retries, a failed write and a crash.
SPECIFICATION FairSpec
CONSTANTS
    NumTasks = 2
    MaxRetries = 1
    MaxCompleted = 1
    MaxCancels = 0
    MaxCrashes = 1
    MaxFaults = 1
    Requests = {}
INVARIANTS
    UnfinishedStaysRegistered
    ActiveTaskHasAttempt
    HistoryIsBounded
PROPERTIES
    EveryTaskSettles
    CleanupHappens
\* Every task may be settled, and no request forced.
CHECK_DEADLOCK FALSE
