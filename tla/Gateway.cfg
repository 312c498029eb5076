CONSTANTS
    s1 = s1  s2 = s2  s3 = s3  p1 = p1  p2 = p2  p3 = p3  alice = alice  bob = bob
    Sessions = {s1, s2, s3}
    Peers = {p1, p2, p3}
    Users = {alice, bob}
    NoSession = NoSession  NoPeer = NoPeer  NoUser = NoUser
    MaxConnections = 1
    IoThreads = 2
    MaxOut = 1
    MaxSends = 1
    MaxPosted = 1
SPECIFICATION Spec
INVARIANTS
    TypeOK
    IndexesAgree
    PeersWithinLimit
    PeersAreConnections
    BindingsAreConnected
SYMMETRY Alike
