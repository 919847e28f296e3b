\* Two deletions of one tree, a note and a compaction wait for one another; a run comes and goes.
SPECIFICATION FairSpec
CONSTANTS
    chat = chat
    child = child
    Threads = {chat, child}
    Sub <- MCSub
    Tasks = {p1}
    MaxDepth = 1
    Idles = {i1}
    Notes = {n1}
    Deletes = {d1, d2}
    MaxStops = 0
    None = None
PROPERTIES
    EveryWaiterServed
\* Every run and every mutation may be done.
CHECK_DEADLOCK FALSE
