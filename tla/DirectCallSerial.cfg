CONSTANTS
    a1 = a1  b1 = b1  c1 = c1
    alice = alice  bob = bob  carol = carol
    r1 = r1
    Peers = {a1, b1}
    Users = {alice, bob}
    Calls = {k1, k2}
    RequestIds = {r1}
    NoPeer = NoPeer  NoUser = NoUser  NoCall = NoCall  NoId = NoId
    Accounts <- MCAccounts
    Invites <- MCAnyInvites
    Ops = {"accept", "hangup"}
    PoolSize = 1
    Faults = {"reply", "crash"}
SPECIFICATION Spec
INVARIANTS
    ClosedPeerHoldsNoCall
    CallInProgressIsAllocated
PROPERTY
    ImplementsLifecycle
CHECK_DEADLOCK FALSE
