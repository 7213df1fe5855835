SPECIFICATION Spec
CONSTANTS
    p0 = p0
    p1 = p1
    p2 = p2
    p3 = p3
    s = s
    c = c
    d = d
    alpine = alpine
    busybox = busybox
    None = None
    Procs = {p0, p1, p2}
    First = p0
    Names = {s, c, d}
    Seed = s
    Images = {alpine, busybox}
    SeedImage = alpine
    Commands <- TwoBranches
    LastHost = 4
    MaxSlots = 2
    MaxSnap = 2
    Keep = 1
CHECK_DEADLOCK FALSE
INVARIANT ClonesAlwaysReachable
