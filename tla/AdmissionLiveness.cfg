SPECIFICATION FairSpec
CONSTANTS
    Main = Main
    None = None
    c1 = c1
    c2 = c2
    c3 = c3
    c4 = c4
    ipA = ipA
    ipB = ipB
    Workers = {w1}
    Conns = {c1, c2}
    IpOf <- TwoAddresses
    MayHangUp = {c1}
    MAX_TOTAL_CONNECTIONS = 1
    max_per_ip_ = 2
    FdLimit = 3
    SizeModulus = 16
    QUEUE_CAPACITY = 1
    MaxEvents = 4
    EpollAddMayFail = TRUE
CHECK_DEADLOCK FALSE
 
PROPERTIES ThreadsReturn BacklogDrains
