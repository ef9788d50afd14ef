\* Three PUTs, of seven triples of clients, over two identifiers in two
\* directories; one GET.
SPECIFICATION ServiceSpec
CONSTANTS
    Dirs = {d1, d2}
    Names = {n1}
    Puts = {p1, p2, p3}
    Gets = {g1}
    Spellings = {"path"}
    Resend = FALSE
    None = None
    Requests <- MCRequests
SYMMETRY Symmetry
INVARIANTS TypeOK AckedIsStored ReadsWholeBlobs FailureLeavesNothing DeletedIsGone ReportedIsThereForGood OrphansComeOfBreaks NameIsRead
PROPERTIES RefusedOnlyByABlob ImplementsBlobMap
\* Every PUT has run: the clients have nothing left to ask.
CHECK_DEADLOCK FALSE
