\* Two calls race through a pool of two members: retries, failovers, cooldowns, probes, late answers and a reset.
SPECIFICATION FairSpec
CONSTANTS
    NumMembers = 2
    Calls = {c1, c2}
    RetryCount = 1
    Cooldown = 1
    QuotaCooldown = 2
    MaxTime = 2
    MaxEdits = 1
INVARIANTS
    ProbeHasCall
    OutputFromOneAttempt
PROPERTIES
    OnlyProbesRecover
    OrphansAreHarmless
    CooldownNeverShrinks
    EveryCallEnds
\* Every call may have ended.
CHECK_DEADLOCK FALSE
