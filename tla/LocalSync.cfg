\* One workspace and one local directory, edits on both sides, two failures or crashes.
SPECIFICATION Spec
CONSTANTS
    Links = {"w1"}
    Paths = {"p1", "p2"}
    MaxEdits = 2
    MaxRevisions = 1
    MaxTroubles = 2
INVARIANTS
    EditsSurvive
    NothingVanishes
    BaselineWasThere
\* Edits and revisions are bounded.
CHECK_DEADLOCK FALSE
