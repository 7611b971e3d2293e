SPECIFICATION Spec
CONSTANTS
    Main = Main
    None = None
    c1 = c1
    c2 = c2
    c3 = c3
    c4 = c4
    ipA = ipA
    ipB = ipB
    Workers = {w1, w2}
    Conns = {c1, c2, c3}
    IpOf <- TwoAddresses
    MayHangUp = {c3}
    MAX_TOTAL_CONNECTIONS = 1
    max_per_ip_ = 1
    FdLimit = 3
    SizeModulus = 16
    QUEUE_CAPACITY = 1
    MaxEvents = 4
    EpollAddMayFail = FALSE
SYMMETRY WorkerAndClientSymmetry
CHECK_DEADLOCK FALSE
INVARIANTS TypeOK PerIpExact ActiveExact FdOwned NoFdLeak MapBeforeMutex StuckOnlyInSubmit
    NoStrandedBacklog
PROPERTY WorkersRemoveTheirOwn
