SPECIFICATION FairSpec
CONSTANTS
    v1 = v1
    v2 = v2
    c1 = c1
    c2 = c2
    c3 = c3
    Vcpus = {v1, v2}
    Clients = {c1, c2, c3}
    NoClient = NoClient
    MayPanic = TRUE
CHECK_DEADLOCK FALSE
INVARIANTS TypeOK ToldTheTruth NoSnapshotCut
PROPERTY Served
