\* A cancel request against a task that has just been submitted.
SPECIFICATION Spec
CONSTANTS
    NumTasks = 1
    MaxRetries = 0
    MaxCompleted = 1
    MaxCancels = 1
    MaxCrashes = 0
    MaxFaults = 0
    Requests = {"remove"}
INVARIANTS
    ActiveTaskHasAttempt
CHECK_DEADLOCK FALSE
