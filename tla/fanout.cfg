\* Three backends, two workers: every interleaving of the pipeline, and every
\* request fits (room for 2 * 2 or 2 * 3 answers).
SPECIFICATION FairSpec
CONSTANTS
    Targets = {b1, b2, b3}
    Workers = {w1, w2}
    None = None
INVARIANTS TypeOK OneAnswerPerBackend NoBackendLost LockedNeverWaits
PROPERTIES ImplementsFairContract
\* The handler returns: the system ends.
CHECK_DEADLOCK FALSE
