\* Identifiers written without the slash, as GET accepts them.
SPECIFICATION Spec
CONSTANTS
    Dirs = {d1}
    Names = {n1, n2}
    Puts = {p1, p2}
    Gets = {g1}
    Spellings = {"flat"}
    Resend = FALSE
    None = None
INVARIANTS DeletedIsGone
CHECK_DEADLOCK FALSE
