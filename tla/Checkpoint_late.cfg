SPECIFICATION FairSpec
CONSTANTS
    Vcpus = {v1}
    Devices = {vsock}
    Draining = {}
    Tapped = {}
    NoDevice = NoDevice
    MaxOps = 3
CHECK_DEADLOCK FALSE
PROPERTIES
    RoundsEnd
    NotifiedServed
