\* Two stores, two clients: seven pairs of commands, of up to three lines.
SPECIFICATION Spec
CONSTANTS
    Stores = {s1, s2}
    Sessions = {1, 2}
    Plans <- Pairs
    MaxLines = 3
    ListHardMax = 1
    None = None
SYMMETRY Symmetry
INVARIANTS TypeOK AckedIsLoggedOnce AgreeWhenSequential GetFindsAcked GetReadsItsKey
           StoreListIsExact
\* The commands are run once each.
CHECK_DEADLOCK FALSE
