CONSTANTS
    a1 = a1  b1 = b1  b2 = b2  r1 = r1
    alice = alice  bob = bob
    Peers = {a1, b1}
    Users = {alice, bob}
    NoPeer = NoPeer  NoUser = NoUser  NoId = NoId
    UserOf <- MCUserOf
    Requests <- MCDirectSends
    Owner = bob
    Members = {}
    MaxMessages = 1
    MaxRequests = 1
    PoolSize = 2
    Faults = {}
SPECIFICATION FairSpec
PROPERTY
    OfflineMessagesAreDelivered
CHECK_DEADLOCK FALSE
