SPECIFICATION Spec
CONSTANTS
    ipA = ipA
    ipB = ipB
    Workers = {w1, w2}
    Ips = {ipA, ipB}
    Cells = {b1, b2}
    Null = Null
    NUM_SHARDS = 2
    shard_for <- SameShard
    capacity_ = 2
    rate_ = 1
    Cost = 1
    max_idle = 2
    MaxTime = 4
SYMMETRY WorkerSymmetry
CHECK_DEADLOCK FALSE
INVARIANTS RateBound SweepComplete
