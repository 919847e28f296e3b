\* One transition and three troubles: it is brought to an end, and what it leaves behind is stopped.
SPECIFICATION FairSpec
CONSTANTS
    Runs = {"r1"}
    MaxOps = 1
    MaxWrites = 0
    MaxTroubles = 3
PROPERTIES
    SwitchSettles
    LeftBehindIsStopped
\* Nobody has to use the workspace.
CHECK_DEADLOCK FALSE
