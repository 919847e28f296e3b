\* Two runs, nested and overlapping, against a compaction, a note and a deletion.
SPECIFICATION Spec
CONSTANTS
    chat = chat
    child = child
    Threads = {chat, child}
    Sub <- MCSub
    Tasks = {p1, p2}
    MaxDepth = 2
    Idles = {i1}
    Notes = {n1}
    Deletes = {d1}
    MaxStops = 1
    None = None
SYMMETRY Symmetry
INVARIANTS
    SessionsMatchRuns
    IdleMeansIdle
    KeptIsSaved
\* Every run and every mutation may be done.
CHECK_DEADLOCK FALSE
