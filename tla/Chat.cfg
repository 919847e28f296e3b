\* A message supersedes a run while a client reads: stops, reconnects, errors and their
\* checkpoints, the end of every stream.
SPECIFICATION FairSpec
CONSTANTS
    NumSessions = 2
    Requests = {r1, r2}
    Readers = {q1}
    MaxEvents = 1
    MaxStops = 1
    Nobody = Nobody
INVARIANTS
    ErrorsStayWithTheirRun
    OneStreamPerThread
    ReadersSeeEverything
    LogOutlivesReaders
PROPERTIES
    StreamsEnd
\* Every message may be answered and every reader gone.
CHECK_DEADLOCK FALSE
