SPECIFICATION FairSpec
CONSTANTS
    Threads = {"t1", "t2"}
    Fds = {3, 4, 5, 6}
    Capacity = 2
    MaxOutput = 3
    Chunk = 1
    MaxCalls = 2
    Faults = {"pipe", "spawn", "fail", "kill", "intr", "die"}
INVARIANTS
    TypeOK
    OneOwner
    OutputIsOwn
PROPERTIES
    SpawnEnds
CHECK_DEADLOCK FALSE
