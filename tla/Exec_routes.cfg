SPECIFICATION FairSpec
CONSTANTS
    r1 = r1
    r2 = r2
    Requests = {r1, r2}
    MaxOut = 1
    TaskCap = 1
    ChunkCap = 1
    UpCap = 1
    NoChunk = NoChunk
CHECK_DEADLOCK FALSE
INVARIANTS TypeOK OutputInOrder NoLeak
PROPERTY ExecEnds
