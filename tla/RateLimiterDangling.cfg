SPECIFICATION Spec
CONSTANTS
    ipA = ipA
    ipB = ipB
    Workers = {w1, w2}
    Ips = {ipA}
    Cells = {b1, b2}
    Null = Null
    NUM_SHARDS = 1
    shard_for <- SameShard
    capacity_ = 3
    rate_ = 1
    Cost = 2
    max_idle = 3
    MaxTime = 7
SYMMETRY WorkerSymmetry
CHECK_DEADLOCK FALSE
INVARIANT BucketStaysValid
