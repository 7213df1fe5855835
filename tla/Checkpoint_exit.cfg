SPECIFICATION Spec
CONSTANTS
    Vcpus = {v1}
    Devices = {blk}
    Draining = {blk}
    Tapped = {}
    NoDevice = NoDevice
    MaxOps = 2
CHECK_DEADLOCK FALSE
INVARIANT
    WorkersAlwaysSurvive
