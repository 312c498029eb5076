CONSTANTS
    a1 = a1  a2 = a2  b1 = b1
    alice = alice  bob = bob
    Peers = {a1, a2, b1}
    Users = {alice, bob}
    Confs = {k1}
    NoUser = NoUser  NoConf = NoConf
    UserOf <- MCUserOf
    Ops = {"create", "close", "join", "leave"}
    PoolSize = 1
    Faults = {"reply"}
SPECIFICATION Spec
INVARIANT
    SessionsBelongToMembers
PROPERTY
    OnlyTheOwnerEvicts
CHECK_DEADLOCK FALSE
