----------------------------- MODULE Conference -----------------------------
(***************************************************************************)
(* Conferences: the connections of ConferenceFeatureModule, the rows of    *)
(* app.conferences, conference_members, conference_sessions and            *)
(* media_room_allocations that MessengerRepository keeps for them, and the *)
(* media rooms the handlers drive.                                         *)
(*                                                                         *)
(* As in DirectCall, a repository call is one SQL statement whose CTEs all *)
(* read the snapshot taken when it starts (Begin), its own writes          *)
(* included in none of them, and whose writes land later.  That is why a   *)
(* leave that closes the last session of a user still counts it.           *)
(*                                                                         *)
(* The schema is not in the repository: rows that refer to a deleted       *)
(* conference are gone with it, or out of sight for ever.                  *)
(***************************************************************************)
EXTENDS Naturals, FiniteSets

CONSTANTS
    Peers,       \* connections
    Users,       \* accounts
    Confs,       \* the public ids clients use
    NoUser, NoConf,
    UserOf,      \* UserOf[p]: the account the client of p signs in to
    Ops,         \* bound: which operations clients request
    PoolSize,    \* the slots of the Postgres pool
    Faults       \* which faults may happen, a subset of FaultKinds

\* As in DirectCall: see FaultKinds there.
FaultKinds == {"db", "reply", "backend", "crash", "node"}

ConfOps == {"create", "close", "join", "leave", "open_transport", "webrtc_close"}
\* "cleanup" is a disconnect whose mediasoup hook has already run.
CleanupOps == {"disconnect", "cleanup"}

Phases == {"idle", "hooks", "queued", "running", "thrown", "create_room", "join_room",
           "leave", "close_peers", "open", "rejoin", "recreate", "leave_room"}

ASSUME ConstantsAssumption ==
    /\ NoUser \notin Users /\ NoConf \notin Confs
    /\ UserOf \in [Peers -> Users]
    /\ Ops \subseteq ConfOps
    /\ PoolSize \in Nat \ {0}
    /\ Faults \subseteq FaultKinds

VARIABLES
    conn,     \* conn[p]: the socket of p; "lost" when its cleanup never ran
    up,       \* the connections with a connected row in app.user_sessions
    owner,    \* owner[c]: owner_user_id of the conference, NoUser: no such row
    mem,      \* mem[c][u]: membership_status of u in c
    csess,    \* csess[c]: the peers whose conference_sessions row is open
    alloc,    \* the conferences with a row in app.media_room_allocations
    rooms, members, roomOf,  \* the media engine, see SfuRooms
    phase,    \* phase[p]: how far p's handler is
    job,      \* job[p]: the request p's handler works on
    seen,     \* seen[p]: what p's running statement read from its snapshot
    closing   \* closing[p]: the <<peer, conference>> media sessions to close

\* The room of a conference is called conf_ and its public id.
INSTANCE SfuRooms WITH Rooms <- Confs, NoRoom <- NoConf,
                       BackendFaults <- "backend" \in Faults

db == <<owner, mem, csess, alloc>>
engine == <<rooms, members, roomOf>>
vars == <<conn, up, owner, mem, csess, alloc, rooms, members, roomOf,
          phase, job, seen, closing>>

-----------------------------------------------------------------------------
(* Rows and snapshots                                                      *)

NoMembers == [u \in Users |-> "none"]
NoJob == [op |-> "none", conf |-> NoConf]
NoSnapshot == [up |-> FALSE, confs |-> {}, alloc |-> {}, away |-> {}, empty |-> {},
               peers |-> {}, gone |-> {}]

Jobs == [op : ConfOps, conf : Confs] \cup [op : {"none"} \cup CleanupOps, conf : {NoConf}]
Snapshots == [up : BOOLEAN, confs : SUBSET Confs, alloc : SUBSET Confs,
              away : SUBSET Confs, empty : SUBSET Confs,
              peers : SUBSET (Peers \X Confs), gone : SUBSET Confs]

Exists(c) == owner[c] # NoUser
Actor(p) == UserOf[p]

\* The conferences a statement of p is about.
Requested(p) == {c \in Confs : c = job[p].conf /\ Exists(c)}
Target(p) ==
    CASE job[p].op \in CleanupOps -> {c \in Confs : p \in csess[c]}
      [] job[p].op = "close" -> {c \in Requested(p) : owner[c] = Actor(p)}
      [] job[p].op \in {"open_transport", "webrtc_close"} ->
            {c \in Requested(p) : owner[c] = Actor(p) \/ mem[c][Actor(p)] # "none"}
      [] OTHER -> Requested(p)

\* remaining_actor_sessions: the user of p has no open session in c.
Away_ThisPeer(p, c) == p \notin csess[c]
Away(p, c) == \A q \in csess[c] : UserOf[q] # UserOf[p]

\* remaining_joined_users: nobody is a joined member of c.
Vacant_OthersOnly(p, c) == \A u \in Users \ {UserOf[p]} : mem[c][u] # "joined"
Vacant(p, c) == \A u \in Users : mem[c][u] # "joined"

Snapshot(p) ==
    LET T == Target(p) IN
    [up    |-> p \in up,
     confs |-> T,
     alloc |-> alloc \cap T,
     away  |-> {c \in T : Away(p, c) /\ mem[c][Actor(p)] # "none"},
     empty |-> {c \in T : Vacant(p, c)},
     peers |-> {r \in Peers \X T : r[1] \in csess[r[2]] \cap up},
     gone  |-> {}]

-----------------------------------------------------------------------------
(* Connections and requests                                                *)

\* The socket is accepted and auth.bind_session mirrors and binds the session.
Connect(p) == /\ conn[p] = "new"
              /\ conn' = [conn EXCEPT ![p] = "open"]
              /\ up' = up \cup {p}
              /\ UNCHANGED <<db, engine, phase, job, seen, closing>>

Idle(p) == conn[p] = "open" /\ phase[p] = "idle"

Submit(p) == \E o \in Ops, c \in Confs :
                /\ Idle(p)
                /\ phase' = [phase EXCEPT ![p] = "queued"]
                /\ job' = [job EXCEPT ![p] = [op |-> o, conf |-> c]]
                /\ UNCHANGED <<conn, up, db, engine, seen, closing>>

\* The session row is marked disconnected, or that fails and is ignored.
Disconnect(p) ==
    /\ Idle(p)
    /\ conn' = [conn EXCEPT ![p] = "closing"]
    /\ up' = up \ {p} \/ ("db" \in Faults /\ UNCHANGED up)
    /\ phase' = [phase EXCEPT ![p] = "hooks"]
    /\ job' = [job EXCEPT ![p] = [NoJob EXCEPT !.op = "disconnect"]]
    /\ UNCHANGED <<db, engine, seen, closing>>

Begin(p) == /\ phase[p] = "queued"
            /\ Cardinality({q \in Peers : phase[q] = "running"}) < PoolSize
            /\ phase' = [phase EXCEPT ![p] = "running"]
            /\ seen' = [seen EXCEPT ![p] = Snapshot(p)]
            /\ UNCHANGED <<conn, up, db, engine, job, closing>>

\* The handler of p goes on to phase next; an idle handler has no request.
Proceed(p, next) ==
    /\ phase' = [phase EXCEPT ![p] = next]
    /\ job' = IF next = "idle" THEN [job EXCEPT ![p] = NoJob] ELSE job

\* Every attempt failed: a request is answered so, a cleanup is given up.
Abort(p) == /\ "db" \in Faults /\ phase[p] = "queued"
            /\ Proceed(p, IF job[p].op \in CleanupOps THEN "leave_room" ELSE "idle")
            /\ conn' = IF job[p].op \in CleanupOps THEN [conn EXCEPT ![p] = "lost"] ELSE conn
            /\ UNCHANGED <<up, db, engine, seen, closing>>

-----------------------------------------------------------------------------
(* The statements                                                          *)

Runs(p, o) == phase[p] = "running" /\ job[p].op = o

\* The reply arrives and the handler goes on, with the media sessions Q to
\* close; or it is lost and the statement runs again.
Reply(p, next, Q) == \/ Proceed(p, next) /\ closing' = [closing EXCEPT ![p] = Q]
                     \/ "reply" \in Faults /\ Proceed(p, "queued") /\ UNCHANGED closing

\* The targets whose rows are still those of the snapshot.
Live(p) == seen[p].confs \ seen[p].gone

\* The statement leaves the member rows m and the session rows s, and deletes
\* the conferences D with every row that refers to them.
Write_NoCountGuard(p, m, s, D) ==
    /\ owner' = [c \in Confs |-> IF c \in D THEN NoUser ELSE owner[c]]
    /\ mem' = [c \in Confs |-> IF c \in D THEN NoMembers ELSE m[c]]
    /\ csess' = [c \in Confs |-> IF c \in D THEN {} ELSE s[c]]
    /\ alloc' = IF job[p].op = "leave" THEN alloc \ seen[p].alloc ELSE alloc \ (D \cap seen[p].alloc)
    /\ seen' = [q \in Peers |->
                  IF q = p THEN NoSnapshot
                  ELSE [seen[q] EXCEPT !.gone = @ \cup (D \cap seen[q].confs)]]
    /\ UNCHANGED <<conn, up, engine>>
Write(p, m, s, D) ==
    /\ owner' = [c \in Confs |-> IF c \in D THEN NoUser ELSE owner[c]]
    /\ mem' = [c \in Confs |-> IF c \in D THEN NoMembers ELSE m[c]]
    /\ csess' = [c \in Confs |-> IF c \in D THEN {} ELSE s[c]]
    /\ alloc' = alloc \ (D \cap seen[p].alloc)
    /\ seen' = [q \in Peers |->
                  IF q = p THEN NoSnapshot
                  ELSE [seen[q] EXCEPT !.gone = @ \cup (D \cap seen[q].confs)]]
    /\ UNCHANGED <<conn, up, engine>>

\* The actor's member row in c becomes joined and its session row open.
Entered(p, c) == [mem EXCEPT ![c][Actor(p)] = "joined"]
Opened_User(p, c) == [csess EXCEPT ![c] = IF seen[p].up THEN @ \cup {Actor(p)} ELSE @]
Opened(p, c) == [csess EXCEPT ![c] = IF seen[p].up THEN @ \cup {p} ELSE @]

\* createConference also enters a conference that exists; its owner stays.
ApplyCreate(p) ==
    /\ Runs(p, "create")
    /\ LET c == job[p].conf IN
       /\ owner' = [owner EXCEPT ![c] = IF Exists(c) THEN @ ELSE Actor(p)]
       /\ mem' = Entered(p, c)
       /\ csess' = Opened(p, c)
       /\ alloc' = alloc \cup {c}
    /\ seen' = [seen EXCEPT ![p] = NoSnapshot]
    /\ Reply(p, "create_room", {})
    /\ UNCHANGED <<conn, up, engine>>

\* No room was found: reading the null mediaRoomId of the reply throws.
WithRoom(p, next) == IF job[p].conf \in seen[p].alloc THEN next ELSE "thrown"

ApplyJoin(p) ==
    /\ Runs(p, "join")
    /\ LET c == job[p].conf IN
       \/ /\ c \in Live(p)
          /\ Write(p, Entered(p, c), Opened(p, c), {})
          /\ Reply(p, WithRoom(p, "join_room"), {})
       \/ /\ c \notin Live(p)
          /\ Write(p, mem, csess, {})
          /\ \/ Reply(p, WithRoom(p, "join_room"), {})
             \/ c \in seen[p].gone /\ Proceed(p, "idle") /\ UNCHANGED closing

\* closeConference: who is not the owner closes nothing; a conference deleted
\* meanwhile yields no room.
ApplyClose(p) ==
    /\ Runs(p, "close")
    /\ Write(p, mem, csess, Live(p))
    /\ \/ seen[p].confs = {} /\ Reply(p, "idle", {})
       \/ Live(p) # {} /\ Reply(p, WithRoom(p, "close_peers"), seen[p].peers)
       \/ seen[p].gone # {} /\ Reply(p, "thrown", {})

\* The member row turns to left where the snapshot has no open session of it.
Departed(p) == [c \in Confs |-> IF c \in Live(p) \cap seen[p].away
                                THEN [mem[c] EXCEPT ![Actor(p)] = "left"] ELSE mem[c]]
Closed_ConnectedOnly(p) == [c \in Confs |-> IF c \in Live(p) /\ seen[p].up
                                            THEN csess[c] \ {p} ELSE csess[c]]
Closed(p) == [c \in Confs |-> IF c \in Live(p) /\ (seen[p].up \/ job[p].op \in CleanupOps)
                              THEN csess[c] \ {p} ELSE csess[c]]

\* leaveConference: there is a mediaRoomId only if this very statement has
\* deleted the allocation.
ApplyLeave(p) ==
    /\ Runs(p, "leave")
    /\ LET D == Live(p) \cap seen[p].empty IN
       /\ Write(p, Departed(p), Closed(p), D)
       /\ Reply(p, IF D = {} THEN "thrown" ELSE WithRoom(p, "leave"), {})

\* handleConferencePeerDisconnected.
ApplyDisconnect(p) ==
    /\ phase[p] = "running" /\ job[p].op \in CleanupOps
    /\ Write(p, Departed(p), Closed(p), Live(p) \cap seen[p].empty)
    /\ Reply(p, "leave_room", {})

\* resolveConferenceMediaContext only reads.
ApplyMedia(p) ==
    /\ phase[p] = "running" /\ job[p].op \in {"open_transport", "webrtc_close"}
    /\ Write(p, mem, csess, {})
    /\ \/ seen[p].confs = {} /\ Reply(p, "idle", {})
       \/ seen[p].confs # {} /\ job[p].op = "open_transport" /\ Reply(p, WithRoom(p, "open"), {})
       \/ /\ seen[p].confs # {} /\ job[p].op = "webrtc_close"
          /\ Reply(p, WithRoom(p, "close_peers"), {p} \X seen[p].confs)

\* The exception leaves the feature module and the gateway answers with an
\* error that bears no correlation id; nothing else of the handler is done.
Catch(p) == /\ phase[p] = "thrown"
            /\ Proceed(p, "idle")
            /\ UNCHANGED <<conn, up, db, engine, seen, closing>>

-----------------------------------------------------------------------------
(* What the handlers ask of the media engine                               *)

CreateRoom(p) ==
    /\ phase[p] \in {"create_room", "recreate"}
    /\ LET c == job[p].conf IN
       \/ /\ (IF c \in rooms THEN UNCHANGED engine ELSE EngineCreate(c))
          /\ Proceed(p, "join_room")
       \/ /\ c \notin rooms /\ BackendFails
          /\ Proceed(p, IF phase[p] = "recreate" THEN "idle" ELSE "join_room")
    /\ UNCHANGED <<conn, up, db, seen, closing>>

JoinRoom(p) ==
    /\ phase[p] = "join_room"
    /\ EngineTryJoin(p, job[p].conf)
    /\ Proceed(p, "idle")
    /\ UNCHANGED <<conn, up, db, seen, closing>>

\* LeaveSession, sent only by the leave that has deleted the conference.
LeaveRoom(p) ==
    /\ phase[p] = "leave"
    /\ EngineLeave(p, job[p].conf) \/ BackendFails
    /\ Proceed(p, "idle")
    /\ UNCHANGED <<conn, up, db, seen, closing>>

OpenTransport(p) ==
    /\ phase[p] = "open"
    /\ Proceed(p, IF p \in members[job[p].conf] THEN "idle" ELSE "rejoin")
    /\ UNCHANGED <<conn, up, db, engine, seen, closing>>

Rejoin(p) ==
    /\ phase[p] = "rejoin"
    /\ LET c == job[p].conf IN
       \/ c \in rooms /\ EngineJoin(p, c) /\ Proceed(p, "idle")
       \/ c \notin rooms /\ UNCHANGED engine /\ Proceed(p, "recreate")
       \/ c \in rooms /\ BackendFails /\ Proceed(p, "idle")
    /\ UNCHANGED <<conn, up, db, seen, closing>>

CloseSession(p) ==
    /\ phase[p] = "close_peers"
    /\ \E r \in closing[p] :
          /\ closing' = [closing EXCEPT ![p] = @ \ {r}]
          /\ EngineClose(r[1], r[2])
    /\ UNCHANGED <<conn, up, db, phase, job, seen>>

CloseDone(p) == /\ phase[p] = "close_peers" /\ closing[p] = {}
                /\ Proceed(p, "idle")
                /\ UNCHANGED <<conn, up, db, engine, seen, closing>>

\* The mediasoup hook of a disconnect runs before or after that of conferences.
Hooks(p) ==
    /\ phase[p] = "hooks"
    /\ phase' = [phase EXCEPT ![p] = "queued"]
    /\ \/ UNCHANGED <<engine, job>>
       \/ EngineDisconnect(p) /\ job' = [job EXCEPT ![p] = [NoJob EXCEPT !.op = "cleanup"]]
    /\ UNCHANGED <<conn, up, db, seen, closing>>

LeaveLast(p) ==
    /\ phase[p] = "leave_room"
    /\ \/ job[p].op = "disconnect" /\ EngineDisconnect(p)
       \/ job[p].op = "cleanup" /\ UNCHANGED engine
    /\ Proceed(p, "idle")
    /\ conn' = IF conn[p] = "lost" THEN conn ELSE [conn EXCEPT ![p] = "closed"]
    /\ UNCHANGED <<up, db, seen, closing>>

-----------------------------------------------------------------------------
(* Server start and stop                                                   *)

Restart ==
    /\ "crash" \in Faults
    /\ conn' = [p \in Peers |-> IF conn[p] \in {"open", "closing"} THEN "lost" ELSE conn[p]]
    /\ up' = {} \/ ("db" \in Faults /\ UNCHANGED up)
    /\ rooms' = {}
    /\ members' = [c \in Confs |-> {}]
    /\ roomOf' = [p \in Peers |-> NoConf]
    /\ phase' = [p \in Peers |-> "idle"]
    /\ job' = [p \in Peers |-> NoJob]
    /\ seen' = [p \in Peers |-> NoSnapshot]
    /\ closing' = [p \in Peers |-> {}]
    /\ UNCHANGED db

OtherNodeStarts == /\ "node" \in Faults
                   /\ up' = {}
                   /\ UNCHANGED <<conn, db, engine, phase, job, seen, closing>>

-----------------------------------------------------------------------------
Init ==
    /\ conn = [p \in Peers |-> "new"]
    /\ up = {}
    /\ owner = [c \in Confs |-> NoUser]
    /\ mem = [c \in Confs |-> NoMembers]
    /\ csess = [c \in Confs |-> {}]
    /\ alloc = {}
    /\ EngineInit
    /\ phase = [p \in Peers |-> "idle"]
    /\ job = [p \in Peers |-> NoJob]
    /\ seen = [p \in Peers |-> NoSnapshot]
    /\ closing = [p \in Peers |-> {}]

Client(p) == Connect(p) \/ Submit(p) \/ Disconnect(p)

Statement(p) == \/ ApplyCreate(p) \/ ApplyJoin(p) \/ ApplyClose(p)
                \/ ApplyLeave(p) \/ ApplyDisconnect(p) \/ ApplyMedia(p)

Media(p) == \/ CreateRoom(p) \/ JoinRoom(p) \/ LeaveRoom(p) \/ OpenTransport(p)
            \/ Rejoin(p) \/ CloseSession(p) \/ CloseDone(p) \/ Hooks(p) \/ LeaveLast(p)

Handler(p) == Begin(p) \/ Abort(p) \/ Statement(p) \/ Catch(p) \/ Media(p)

Next == \/ \E p \in Peers : Client(p) \/ Handler(p)
        \/ Restart \/ OtherNodeStarts

Spec == Init /\ [][Next]_vars

\* A started handler runs to its end.  Clients owe nothing.
FairSpec == Spec /\ \A p \in Peers : WF_vars(Handler(p))

-----------------------------------------------------------------------------
(* Properties                                                              *)

\* Every variable keeps the shape of the row, map or handler it stands for.
TypeOK ==
    /\ conn \in [Peers -> {"new", "open", "closing", "closed", "lost"}]
    /\ up \in SUBSET Peers
    /\ owner \in [Confs -> Users \cup {NoUser}]
    /\ mem \in [Confs -> [Users -> {"none", "joined", "left"}]]
    /\ csess \in [Confs -> SUBSET Peers]
    /\ alloc \in SUBSET Confs
    /\ EngineTypeOK
    /\ phase \in [Peers -> Phases]
    /\ job \in [Peers -> Jobs]
    /\ seen \in [Peers -> Snapshots]
    /\ closing \in [Peers -> SUBSET (Peers \X Confs)]

\* A conference has a media room allocation as long as it exists and not a
\* moment longer, although creates, closes, leaves and disconnects that delete
\* it overlap: otherwise a join answers with no room, or with a dead one.
ConferencesAreAllocated == \A c \in Confs : Exists(c) <=> c \in alloc

\* Whoever has an open session in a conference is a joined member of it, with
\* any number of connections of one account coming and going: leaveConference
\* and the disconnect cleanup count what is left for statements that do not
\* overlap.
SessionsBelongToMembers ==
    \A c \in Confs : \A p \in csess[c] : mem[c][UserOf[p]] = "joined"

\* A conference in which somebody still has an open session disappears only
\* when its owner closes it; no leave or disconnect of another connection takes
\* it away.  For statements that do not overlap.
OnlyTheOwnerEvicts ==
    [][\A c \in Confs : Exists(c) /\ ~Exists(c)' /\ csess[c] # {} =>
          \E p \in Peers : Runs(p, "close") /\ Actor(p) = owner[c]]_vars

\* A connection that closes with open conference sessions has them closed, even
\* though its app.user_sessions row says disconnected by then and whatever else
\* runs (handleConferencePeerDisconnected).
DisconnectedSessionsClose ==
    \A p \in Peers, c \in Confs :
        (conn[p] = "closing" /\ p \in csess[c]) ~> p \notin csess[c]

\* Every leave_conference of a conference that exists gets the reply that
\* scripts/media-plane-10x10x10.py awaits for it: its handler does not end in an
\* exception, with the gateway's anonymous error in place of the reply.
LeavesAreAnswered ==
    \A p \in Peers : phase[p] = "thrown" /\ job[p].op = "leave" => ~Exists(job[p].conf)
=============================================================================
