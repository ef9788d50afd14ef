\* 2 clients, 3 callers with a context that never ends.
SPECIFICATION FairSpec
CONSTANTS
    Clients = {k1, k2}
    Callers = {c1, c2, c3}
    Impatient = {}
    None = None
PROPERTIES WaitEndsByRelease
CHECK_DEADLOCK FALSE
