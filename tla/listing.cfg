\* Two stores that hold any of four keys, one write, pages of two keys.
SPECIFICATION Spec
CONSTANTS
    Stores = {s1, s2}
    LastKey = 4
    Values = {"v"}
    Writes = {w1}
    Starts = {0}
    Asked = 2
    ListHardMax = 3
SYMMETRY Symmetry
INVARIANTS TypeOK MergeIsExact ShownInOrder NoneSkipped
\* The calls are made once each.
CHECK_DEADLOCK FALSE
