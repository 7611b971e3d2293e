SPECIFICATION Spec
CONSTANTS
    CR = "CR"
    LF = "LF"
    NoWord = "none"
    Octets <- MCOctets
    RequestLines = {"get", "get10", "health", "echo", "put", "del", "echoLarge", "large",
                    "testEcho", "wrong", "head", "bye"}
    Http11 = {"get", "health", "echo", "put", "del", "echoLarge", "large", "testEcho", "wrong",
              "head", "bye"}
    NameOf <- MCNames
    Chunked = {"chunked"}
    Stoull <- MCStoull
    SaysClose = {"close"}
    SaysKeepAlive = {"keep"}
    SizeOf <- MCSizes
    MAX_HTTP_HEADER_SIZE = 4
    MAX_CHUNK_BODY_SIZE = 6
    MAX_HTTP_BODY_SIZE = 3
    Streams <- MCStreams
    ClosesAfterSend <- MCCloses
    MAX_CHUCK_SIZE = 2
    LargeText <- MCLargeText
    AppRoutes <- MCAppRoutes
CHECK_DEADLOCK FALSE
INVARIANTS CloseIsAnnounced ResumesFromAnySplit AnswersReachClient BodyBounded WaitingBounded WaitsForMore
PROPERTIES ParseAdvances ReadsInOnePiece
