CONSTANTS
    a1 = a1  b1 = b1  c1 = c1
    alice = alice  bob = bob  carol = carol
    r1 = r1
    Peers = {a1, b1}
    Users = {alice, bob}
    Calls = {k1}
    RequestIds = {r1}
    NoPeer = NoPeer  NoUser = NoUser  NoCall = NoCall  NoId = NoId
    Accounts <- MCSharedDevice
    Invites <- MCInvites
    Ops = {"accept", "decline", "hangup"}
    PoolSize = 2
    Faults = {"node"}
SPECIFICATION FairSpec
PROPERTY
    HeldCallsEnd
CHECK_DEADLOCK FALSE
