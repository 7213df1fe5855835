SPECIFICATION Spec
CONSTANTS
    m1 = m1
    m2 = m2
    h1 = h1
    h2 = h2
    Machines = {m1}
    Hosts = {h1}
    NoHost = NoHost
    NoTask = NoTask
    Room <- OneSlot
    MaxRetries = 1
    ChanCap = 1
    Faults = {"agent"}
    MaxFaults = 1
    MaxEdits = 0
INVARIANT WorkersAlwaysRecorded
