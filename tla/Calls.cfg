\* Two calls of a message and a question: answers in and out of place, and two of: a stop, a crash, a journal that cannot be written.
SPECIFICATION FairSpec
CONSTANTS
    NumCalls = 2
    Resources = {"shell"}
    MaxAnswers = 6
    MaxForeign = 1
    MaxTroubles = 2
INVARIANTS
    EffectsOnce
    ApprovedBeforeEffects
PROPERTIES
    BatchSettles
\* The node ends.
CHECK_DEADLOCK FALSE
