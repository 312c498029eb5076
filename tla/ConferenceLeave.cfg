CONSTANTS
    a1 = a1  a2 = a2  b1 = b1
    alice = alice  bob = bob
    Peers = {a1, b1}
    Users = {alice, bob}
    Confs = {k1}
    NoUser = NoUser  NoConf = NoConf
    UserOf <- MCUserOf
    Ops = {"create", "join", "leave", "close"}
    PoolSize = 2
    Faults = {}
SPECIFICATION Spec
INVARIANT
    LeavesAreAnswered
CHECK_DEADLOCK FALSE
