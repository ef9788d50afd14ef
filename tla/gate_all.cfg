\* A handler of each sort, dials that fail, crashes and restarts.
SPECIFICATION Spec
CONSTANTS
    Addrs = {a1, a2}
    Requests = {r1, r2}
    Kinds = {"Put", "Get"}
    Absorb = 1
    DialMayFail = TRUE
SYMMETRY Symmetry
INVARIANTS TypeOK LockedSeesWholeTable CountIsAtMostRange ReadsCoverWrites
PROPERTIES NeverRedials OnlyWaysToDie
