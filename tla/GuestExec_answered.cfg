SPECIFICATION Spec
CONSTANTS
    c1 = c1
    c2 = c2
    Clients = {c1, c2}
    MaxStreams = 2
    Scenes <- MCScenes
    ExecLen = 4
    MaxOut = 2
    Modulus = 3
    GuestBuf = 1
    HostBuf = 2
    RxBufs = 1
    UdsCap = 1
    PipeCap = 1
INVARIANTS TypeOK CreditKept ExitIsTrue
PROPERTIES ExecAnswered
CHECK_DEADLOCK FALSE
