CONSTANTS
    a1 = a1  a2 = a2  b1 = b1
    alice = alice  bob = bob
    Peers = {a1, a2}
    Users = {alice, bob}
    Confs = {k1}
    NoUser = NoUser  NoConf = NoConf
    UserOf <- MCUserOf
    Ops = {"create", "close", "join", "leave", "open_transport", "webrtc_close"}
    PoolSize = 2
    Faults = {"reply", "db", "backend", "crash", "node"}
SPECIFICATION Spec
INVARIANTS
    TypeOK
    ConferencesAreAllocated
CHECK_DEADLOCK FALSE
