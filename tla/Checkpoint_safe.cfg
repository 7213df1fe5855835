SPECIFICATION Spec
CONSTANTS
    Vcpus = {v1}
    Devices = {net, vsock}
    Draining = {net}
    Tapped = {net}
    NoDevice = NoDevice
    MaxOps = 2
CHECK_DEADLOCK FALSE
INVARIANTS
    TypeOK
    BarrierQuiescent
    WorkersSurvive
    FrozenImageComplete
