\* The pool of the code (2 clients), 4 callers of which one may give up.
SPECIFICATION FairSpec
CONSTANTS
    Clients = {k1, k2}
    Callers = {c1, c2, c3, c4}
    Impatient = {c1}
    None = None
INVARIANTS TypeOK EachClientOnce ReleaseNeverBlocks NobodyWaitsForNothing
PROPERTIES WaiterIsServed
\* Every permission lost and every caller parked: the callers are stuck.
CHECK_DEADLOCK FALSE
