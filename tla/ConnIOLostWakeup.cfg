SPECIFICATION Spec
CONSTANTS
    w1 = w1
    w2 = w2
    Workers = {w1, w2}
    Main = Main
    Nobody = Nobody
    MaxRequests = 2
    Kinds = {"keep"}
    Pipelines = TRUE
    MayDeny = FALSE
    MayHangUp = {}
    MayStop = FALSE
    IDLE_TIMEOUT_SECONDS = 1
    MaxTime = 0
    AnswerSize = 2
    ErrorSize = 1
    SockBuf = 1
    ParseLimit = 1
    Parts = 1
INVARIANT UnsentIsArmed
CHECK_DEADLOCK FALSE
