SPECIFICATION FairSpec
CONSTANTS
    Main = Main
    w1 = w1
    Workers = {w1}
    c1 = c1
    c2 = c2
    Conns = {c1}
    NoTask = NoTask
    SignalThreads = {Main}
    MaxSignals = 2
    QUEUE_CAPACITY = 1
    MaxLogQueue = 1
    SHUTDOWN_TIMEOUT = 1
CHECK_DEADLOCK FALSE
INVARIANTS TypeOK StoppedMeansWritten NoLostWakeup DrainTimeIsGranted OnlyLeftoversAreUndefined
PROPERTY StopCompletes
