CONSTANTS
    a1 = a1  b1 = b1  c1 = c1
    alice = alice  bob = bob  carol = carol
    r1 = r1
    Peers = {a1, b1, c1}
    Users = {alice, bob, carol}
    Calls = {k1}
    RequestIds = {r1}
    NoPeer = NoPeer  NoUser = NoUser  NoCall = NoCall  NoId = NoId
    Accounts <- MCAccounts
    Invites <- MCInvites
    Ops = {"accept", "hangup", "open_transport", "webrtc_close"}
    PoolSize = 2
    Faults = {"reply"}
SPECIFICATION Spec
INVARIANT
    RoomsHoldParticipants
CHECK_DEADLOCK FALSE
