\* A run, a switch and a recovery (or two of either), with a failing call, a lost environment and a crash.
SPECIFICATION Spec
CONSTANTS
    Runs = {"r1"}
    MaxOps = 2
    MaxWrites = 1
    MaxTroubles = 2
INVARIANTS
    RevisionsKept
    SwitchExcludesRuns
    SandboxesAccounted
PROPERTIES
    IsProjectFiles
    EndsOnlyWhatIsSaved
\* Nobody has to use the workspace.
CHECK_DEADLOCK FALSE
