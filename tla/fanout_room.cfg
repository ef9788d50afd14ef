\* Five backends, one worker: a count of 0 or 1 is outgrown, 2 is not.
SPECIFICATION FairSpec
CONSTANTS
    Targets = {b1, b2, b3, b4, b5}
    Workers = {w1}
    None = None
INVARIANTS StuckWhenOutgrown
PROPERTIES RepliesWhenItFits
\* The handler returns, or is stuck in its range.
CHECK_DEADLOCK FALSE
