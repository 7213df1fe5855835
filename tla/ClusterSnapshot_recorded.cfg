SPECIFICATION ClusterFairSpec
CONSTANTS
    v1 = v1
    r1 = r1
    c1 = c1
    Vcpus = {v1}
    Clients = {r1, c1}
    Requests = {r1}
    NoClient = NoClient
    MayPanic = TRUE
    TaskCap = 1
CHECK_DEADLOCK FALSE
INVARIANTS RowsTrue EntriesOwned
PROPERTIES SnapshotsEnd
