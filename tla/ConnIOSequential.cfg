SPECIFICATION FairSpec
CONSTANTS
    w1 = w1
    w2 = w2
    Workers = {w1, w2}
    Main = Main
    Nobody = Nobody
    MaxRequests = 3
    Kinds = {"keep", "close", "bad", "throw"}
    Pipelines = FALSE
    MayDeny = TRUE
    MayHangUp = {}
    MayStop = FALSE
    IDLE_TIMEOUT_SECONDS = 1
    MaxTime = 1
    AnswerSize = 3
    ErrorSize = 1
    SockBuf = 2
    ParseLimit = 1
    Parts = 2
INVARIANTS NothingAfterClose CloseIsHonoured ErrorAnswerSent
PROPERTY RequestsAnswered
CHECK_DEADLOCK FALSE
