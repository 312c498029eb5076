CONSTANTS
    p1 = p1  p2 = p2  p3 = p3  NoPeer = NoPeer
    Peers = {p1, p2, p3}
    Seated = {p1, p2}
    WorkerCount = 1
    MaxWorkers = 2
    MaxPeersPerWorker = 2
    MaxRequests = 4
    MaxRetries = 1
    Faults = {"death", "slow", "io", "dtls"}
SPECIFICATION FairSpec
INVARIANTS
    TypeOK
    ReplyAnswersRequest
    EngineTracksAreOwned
    MapsAgree
    WorkerLoadWithinLimit
PROPERTY
    EveryCallEnds
    ImplementsRooms
CHECK_DEADLOCK FALSE
