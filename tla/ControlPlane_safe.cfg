SPECIFICATION Spec
CONSTANTS
    m1 = m1
    m2 = m2
    h1 = h1
    h2 = h2
    Machines = {m1}
    Hosts = {h1, h2}
    NoHost = NoHost
    NoTask = NoTask
    Room <- OneSlot
    MaxRetries = 1
    ChanCap = 2
    Faults = {"controller", "store", "session", "lost", "heartbeat", "boot", "disk", "agent", "worker", "host"}
    MaxFaults = 2
    MaxEdits = 2
SYMMETRY Symmetry
INVARIANTS TypeOK OneHost WorkersRecorded
