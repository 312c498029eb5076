------------------------------ MODULE SfuRooms ------------------------------
(***************************************************************************)
(* Who is in which media room, as MediasoupSfuEngine keeps it: rooms_ and  *)
(* peers_, each operation carried out under the engine's mutex with the    *)
(* backend call in the middle.  Modules that drive rooms instantiate this  *)
(* one; transports and tracks are left out.                                *)
(***************************************************************************)
CONSTANTS
    Peers,        \* connections
    Rooms,        \* media room ids
    NoRoom,       \* not a room
    BackendFaults \* whether backend operations may fail

VARIABLES
    rooms,    \* the keys of rooms_
    members,  \* members[r]: rooms_[r].peers
    roomOf    \* roomOf[p]: peers_[p].roomId

sfu == <<rooms, members, roomOf>>

EngineInit == /\ rooms = {}
              /\ members = [r \in Rooms |-> {}]
              /\ roomOf = [p \in Peers |-> NoRoom]

EngineTypeOK == /\ rooms \in SUBSET Rooms
                /\ members \in [Rooms -> SUBSET Peers]
                /\ roomOf \in [Peers -> Rooms \cup {NoRoom}]

\* The backend refuses or does not answer: the engine keeps its state.
BackendFails == BackendFaults /\ UNCHANGED sfu

EngineCreate(r) == rooms' = rooms \cup {r} /\ UNCHANGED <<members, roomOf>>

EngineJoin(p, r) == /\ members' = [members EXCEPT ![r] = @ \cup {p}]
                    /\ roomOf' = [roomOf EXCEPT ![p] = r]
                    /\ UNCHANGED rooms

EngineLeave_KeepsPeerRuntime(q, r) ==
    /\ members' = [members EXCEPT ![r] = @ \ {q}]
    /\ rooms' = IF members[r] = {q} THEN rooms \ {r} ELSE rooms
    /\ UNCHANGED roomOf
\* leaveSessionNoLock: the last peer to leave takes the room with it.
EngineLeave(q, r) ==
    \/ /\ q \in members[r]
       /\ members' = [members EXCEPT ![r] = @ \ {q}]
       /\ roomOf' = [roomOf EXCEPT ![q] = NoRoom]
       /\ rooms' = IF members[r] = {q} THEN rooms \ {r} ELSE rooms
    \/ q \notin members[r] /\ UNCHANGED sfu

\* JoinSession as the feature modules send it, whatever comes of it.
EngineTryJoin(p, r) == \/ r \in rooms /\ EngineJoin(p, r)
                       \/ r \notin rooms /\ UNCHANGED sfu
                       \/ BackendFails

\* CloseSession: a peer that is in no room has nothing to close.
EngineClose(q, r) == \/ roomOf[q] # NoRoom /\ EngineLeave(q, r)
                     \/ roomOf[q] = NoRoom /\ UNCHANGED sfu
                     \/ BackendFails

\* onSessionDisconnected: the peer leaves the room peers_ has for it.  Its handle is the
\* one the peer joined with, since a peer id is drawn anew for each connection.
EngineDisconnect(p) == \/ roomOf[p] # NoRoom /\ EngineLeave(p, roomOf[p])
                       \/ roomOf[p] = NoRoom /\ UNCHANGED sfu
                       \/ BackendFails

\* A room that the engine still has is one the disconnect of its last member
\* can find: every peer roomOf places in a room is a member of it.
PlacedPeersAreMembers ==
    \A p \in Peers : roomOf[p] # NoRoom => p \in members[roomOf[p]] /\ roomOf[p] \in rooms
=============================================================================
