\* One identifier, and DELETEs sent again.
SPECIFICATION Spec
CONSTANTS
    Dirs = {d1}
    Names = {n1}
    Puts = {p1, p2, p3}
    Gets = {g1}
    Spellings = {"path"}
    Resend = TRUE
    None = None
INVARIANTS AckedIsStored
CHECK_DEADLOCK FALSE
