CONSTANTS
    a1 = a1  b1 = b1  b2 = b2  r1 = r1
    alice = alice  bob = bob
    Peers = {a1, b1, b2}
    Users = {alice, bob}
    NoPeer = NoPeer  NoUser = NoUser  NoId = NoId
    UserOf <- MCUserOf
    Requests <- MCSends
    Owner = bob
    Members = {alice}
    MaxMessages = 2
    MaxRequests = 3
    PoolSize = 2
    Faults = {"reply", "db", "crash"}
SPECIFICATION Spec
INVARIANTS
    TypeOK
    OneMessagePerRequestId
    OnlyReadersSee
    ReceiptsAreTrue
    LastReadIsRead
    EveryRecipientHasARow
PROPERTY
    ReceiptsNeverRetreat
SYMMETRY Devices
CHECK_DEADLOCK FALSE
