CONSTANTS
    a1 = a1  b1 = b1  c1 = c1
    alice = alice  bob = bob  carol = carol
    r1 = r1
    Peers = {a1, b1}
    Users = {alice, bob}
    Calls = {k1, k2}
    RequestIds = {r1}
    NoPeer = NoPeer  NoUser = NoUser  NoCall = NoCall  NoId = NoId
    Accounts <- MCAccounts
    Invites <- MCInvites
    Ops = {"accept", "decline", "hangup", "open_transport", "webrtc_close"}
    PoolSize = 2
    Faults = {"reply", "db", "backend", "crash"}
SPECIFICATION Spec
INVARIANTS
    TypeOK
    OneCallPerRequestId
    NoInvitationToAFinishedCall
    AnswererHoldsAcceptedCall
    PlacedPeersAreMembers
SYMMETRY MCSymmetry
CHECK_DEADLOCK FALSE
