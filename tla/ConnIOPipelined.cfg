SPECIFICATION Spec
CONSTANTS
    w1 = w1
    w2 = w2
    Workers = {w1, w2}
    Main = Main
    Nobody = Nobody
    MaxRequests = 2
    Kinds = {"keep", "close"}
    Pipelines = TRUE
    MayDeny = FALSE
    MayHangUp = {"fin", "rst"}
    MayStop = TRUE
    IDLE_TIMEOUT_SECONDS = 1
    MaxTime = 0
    AnswerSize = 2
    ErrorSize = 1
    SockBuf = 1
    ParseLimit = 0
    Parts = 1
SYMMETRY WorkerSymmetry
INVARIANTS WireInOrder NeverDeaf NothingLeftUnparsed
CHECK_DEADLOCK FALSE
