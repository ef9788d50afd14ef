\* A handler of each sort, dials that succeed, and a pipeline that holds no
\* answer, so that a table of two addresses can outgrow a Get.
SPECIFICATION FairSpec
CONSTANTS
    Addrs = {a1, a2}
    Requests = {r1, r2}
    Kinds = {"Put", "Get"}
    Absorb = 0
    DialMayFail = FALSE
PROPERTIES RequestsEnd DeclaredGetsConnected
