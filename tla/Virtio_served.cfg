SPECIFICATION Spec
CONSTANTS
    Kinds = {"block", "net", "balloon"}
    Limited = {"block"}
    Heads = {h1, h2}
    Size <- MCSize
    MaxFrames = 3
    BacklogMax = 1
    MaxPages = 2
    MaxBad = 1
    MaxRestores = 1
    Unacked = FALSE
    Early = FALSE
    Capacity <- MCCapacity
    Refill <- MCRefill
    Bytes = 3
    TicksPerMs = 2
    MaxWait = 2
    SinceMax = 4
    None = None
INVARIANTS TypeOK RxInOrder BudgetKept BalloonExact NoLostWakeup
CHECK_DEADLOCK FALSE
