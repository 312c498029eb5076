----------------------------- MODULE DirectCall -----------------------------
(***************************************************************************)
(* Direct calls: the connections of DirectCallFeatureModule, the rows of   *)
(* app.calls, app.call_participants, app.media_room_allocations and        *)
(* app.user_sessions that MessengerRepository reads and writes, and the    *)
(* rooms of the media engine that the handlers drive.                      *)
(*                                                                         *)
(* A repository call is one SQL statement of data-modifying CTEs.  Under   *)
(* READ COMMITTED all its CTEs read the snapshot taken when it starts      *)
(* (Begin) and its writes land later (an Apply... action) on the latest    *)
(* version of each row: the UPDATEs re-check only the row's id, so a guard *)
(* evaluated on the snapshot is not evaluated again.  At most PoolSize     *)
(* statements are between the two, one per slot of PostgresClient's pool.  *)
(*                                                                         *)
(* The handlers of one connection run one after the other on the strand of *)
(* its socket; those of different connections interleave at every          *)
(* statement and at every media command.                                   *)
(***************************************************************************)
EXTENDS Naturals, FiniteSets

CONSTANTS
    Peers,       \* connections; a peer id is drawn anew for each (WordGenerator)
    Users,       \* accounts
    Calls,       \* bound: the calls that can be created in a behaviour
    RequestIds,  \* the client request ids that clients use
    NoPeer, NoUser, NoCall, NoId,  \* SQL NULL or the empty string
    Accounts,    \* Accounts[p]: the users whose access token the client of p holds
    Invites,     \* the create_call requests: records [id, callee]
    Ops,         \* bound: which operations on an existing call clients request
    PoolSize,    \* the slots of the Postgres pool
    Faults       \* which faults may happen, a subset of FaultKinds

\* "db": all attempts of a statement fail.  "reply": a statement commits but its
\* reply is lost and execParamsResilient runs it again.  "backend": a media
\* backend operation fails.  "crash": the server dies and starts again.
\* "node": another node starts and marks every connected session disconnected.
FaultKinds == {"db", "reply", "backend", "crash", "node"}

\* 'ringing' is in the code's guards but no statement writes it.
Active == {"invited", "accepted"}
Over == {"declined", "ended"}
CallStatus == {"none"} \cup Active \cup Over

CallOps == {"accept", "decline", "hangup", "open_transport", "webrtc_close"}
\* "cleanup" is a disconnect whose mediasoup hook has already run.
CleanupOps == {"disconnect", "cleanup"}
AllOps == {"none", "create"} \cup CallOps \cup CleanupOps

Phases == {"idle", "hooks", "queued", "running", "create_room", "join_room",
           "close_peers", "leave_room", "open", "rejoin", "recreate"}

Invitations == [id : RequestIds \cup {NoId}, callee : Users]

ASSUME ConstantsAssumption ==
    /\ NoPeer \notin Peers /\ NoUser \notin Users
    /\ NoCall \notin Calls /\ NoId \notin RequestIds
    /\ Accounts \in [Peers -> SUBSET Users]
    /\ Invites \subseteq Invitations
    /\ Ops \subseteq CallOps
    /\ PoolSize \in Nat \ {0}
    /\ Faults \subseteq FaultKinds

\* A client repeats a request id only to retry the same invitation.
ASSUME RetriesRepeatTheRequest ==
    \A i, j \in Invites : i.id = j.id /\ i.id # NoId => i = j

VARIABLES
    conn,     \* conn[p]: the socket of p; "lost" when its call cleanup never ran
    bound,    \* bound[p]: SessionAuthStore, the user bound to p's handle
    sess,     \* sess[p]: the app.user_sessions row of p
    call,     \* call[c]: the app.calls row
    part,     \* part[c][u]: the app.call_participants row of u in c
    alloc,    \* the calls with a row in app.media_room_allocations
    rooms,    \* the calls whose room is in MediasoupSfuEngine::rooms_
    members,  \* members[c]: the peers of the room of c
    roomOf,   \* roomOf[p]: MediasoupSfuEngine::peers_[p].roomId
    phase,    \* phase[p]: how far p's handler is
    job,      \* job[p]: the request p's handler works on
    seen,     \* seen[p]: what p's running statement read from its snapshot
    closing   \* closing[p]: the <<peer, call>> media sessions still to close

\* The media engine: the room of a call bears the name of the call.
INSTANCE SfuRooms WITH Rooms <- Calls, NoRoom <- NoCall,
                       BackendFaults <- "backend" \in Faults

db == <<sess, call, part, alloc>>
engine == <<rooms, members, roomOf>>
work == <<phase, job, seen, closing>>
vars == <<conn, bound, sess, call, part, alloc, rooms, members, roomOf,
          phase, job, seen, closing>>

-----------------------------------------------------------------------------
(* Rows and snapshots                                                      *)

NoCallRow == [status |-> "none", by |-> NoUser, id |-> NoId, answerer |-> NoPeer]
NoRow == [status |-> "none", invited |-> NoPeer, joined |-> NoPeer]
NoJob == [op |-> "none", call |-> NoCall, id |-> NoId, callee |-> NoUser]
NoSnapshot == [up |-> FALSE, calls |-> {}, rows |-> {}, peers |-> {}, alloc |-> {}]

Sessions == [user : Users \cup {NoUser}, up : BOOLEAN]
\* answerer is a history field, no column: the connection whose accept has made the
\* call accepted, while it is.
CallRows == [status : CallStatus, by : Users \cup {NoUser},
             id : RequestIds \cup {NoId}, answerer : Peers \cup {NoPeer}]
PartRows == [status : CallStatus, invited : Peers \cup {NoPeer},
             joined : Peers \cup {NoPeer}]
Jobs == [op : AllOps, call : Calls \cup {NoCall}, id : RequestIds \cup {NoId},
         callee : Users \cup {NoUser}]
Snapshots == [up : BOOLEAN, calls : SUBSET Calls, rows : SUBSET (Calls \X Users),
              peers : SUBSET (Peers \X Calls), alloc : SUBSET Calls]

Participates(u, c) == part[c][u].status # "none"
Holds(p, c) == \E u \in Users : p \in {part[c][u].invited, part[c][u].joined}
Reaches(q, c) == /\ sess[q].up
                 /\ \E u \in Users : sess[q].user = u /\ Participates(u, c)

\* ON CONFLICT (initiator_user_id, client_request_id) WHERE it is not null.
Twins_NoUniqueIndex(u, id) == {}
Twins(u, id) == {c \in Calls : /\ call[c].status # "none"
                               /\ call[c].by = u /\ call[c].id = id /\ id # NoId}

FreeCalls == {c \in Calls : call[c].status = "none"}
PendingCreates == {p \in Peers : job[p].op = "create" /\ phase[p] \in {"queued", "running"}}
\* Bound: a statement that inserts a call finds a free one.
Spare == Cardinality(FreeCalls) > Cardinality(PendingCreates)

\* The status guard of each statement's target CTE.
StatusGuard_AcceptAny(o) ==
    CASE o = "accept" -> CallStatus \ {"none"}
      [] o = "decline" -> {"invited"}
      [] o = "hangup" -> Active
      [] o \in {"open_transport", "webrtc_close"} -> CallStatus \ {"none"}
      [] OTHER -> {}
StatusGuard(o) ==
    CASE o \in {"accept", "decline"} -> {"invited"}
      [] o = "hangup" -> Active
      [] o \in {"open_transport", "webrtc_close"} -> CallStatus \ {"none"}
      [] OTHER -> {}

Requested_NoParticipantJoin(p) ==
    {c \in Calls : c = job[p].call /\ call[c].status \in StatusGuard(job[p].op)}
Requested(p) == {c \in Calls : /\ c = job[p].call
                               /\ call[c].status \in StatusGuard(job[p].op)
                               /\ Participates(bound[p], c)}

\* The affected_calls of the disconnect cleanup.
Affected_InvitedSessionOnly(p) ==
    {c \in Calls : call[c].status \in Active
                   /\ \E u \in Users : part[c][u].invited = p}
Affected_AcceptedOnly(p) == {c \in Calls : call[c].status = "accepted" /\ Holds(p, c)}
Affected(p) == {c \in Calls : call[c].status \in Active /\ Holds(p, c)}

Target(p) == IF job[p].op \in CleanupOps THEN Affected(p) ELSE Requested(p)

Snapshot(p) ==
    LET T == Target(p) IN
    [up    |-> sess[p].up,
     calls |-> T,
     rows  |-> {r \in T \X Users : Participates(r[2], r[1])},
     peers |-> {r \in Peers \X T : Reaches(r[1], r[2])},
     alloc |-> alloc \cap T]

-----------------------------------------------------------------------------
(* Connections and sessions                                                *)

Connect(p) == /\ conn[p] = "new"
              /\ conn' = [conn EXCEPT ![p] = "open"]
              /\ UNCHANGED <<bound, db, engine, work>>

Idle(p) == conn[p] = "open" /\ phase[p] = "idle"

\* auth.bind_session and restore_session: mirror the session, then bind it.
BindSession(p, u) ==
    /\ Idle(p) /\ u \in Accounts[p]
    /\ sess' = [sess EXCEPT ![p] = [user |-> u, up |-> TRUE]]
    /\ bound' = [bound EXCEPT ![p] = u]
    /\ UNCHANGED <<conn, call, part, alloc, engine, work>>

\* markRealtimeSessionDisconnected; its failure is ignored by both callers.
MarkDisconnected(p) ==
    \/ sess' = [sess EXCEPT ![p].up = FALSE]
    \/ "db" \in Faults /\ UNCHANGED sess

\* auth.logout_session: no feature module is told.
Logout(p) == /\ Idle(p) /\ bound[p] # NoUser
             /\ MarkDisconnected(p)
             /\ bound' = [bound EXCEPT ![p] = NoUser]
             /\ UNCHANGED <<conn, call, part, alloc, engine, work>>

\* The socket closes: gateway onDisconnected and notifyFeatureSessionDisconnected
\* up to the hooks of the feature modules.
Disconnect(p) ==
    /\ Idle(p)
    /\ conn' = [conn EXCEPT ![p] = "closing"]
    /\ MarkDisconnected(p)
    /\ bound' = [bound EXCEPT ![p] = NoUser]
    /\ phase' = [phase EXCEPT ![p] = "hooks"]
    /\ job' = [job EXCEPT ![p].op = "disconnect"]
    /\ UNCHANGED <<call, part, alloc, engine, seen, closing>>

-----------------------------------------------------------------------------
(* Requests                                                                *)

Submit(p, j) == /\ Idle(p) /\ bound[p] # NoUser
                /\ phase' = [phase EXCEPT ![p] = "queued"]
                /\ job' = [job EXCEPT ![p] = j]
                /\ UNCHANGED <<conn, bound, db, engine, seen, closing>>

\* A create_call with the caller as callee is refused before the statement.
RequestCreate(p) ==
    \E i \in Invites :
        /\ i.callee # bound[p] /\ Spare
        /\ Submit(p, [NoJob EXCEPT !.op = "create", !.id = i.id, !.callee = i.callee])

RequestOnCall(p) ==
    \E o \in Ops, c \in Calls :
        /\ call[c].status # "none"
        /\ Submit(p, [NoJob EXCEPT !.op = o, !.call = c])

Running == {p \in Peers : phase[p] = "running"}

\* A slot is free: the statement starts and its snapshot is taken.
Begin(p) == /\ phase[p] = "queued"
            /\ Cardinality(Running) < PoolSize
            /\ phase' = [phase EXCEPT ![p] = "running"]
            /\ seen' = [seen EXCEPT ![p] = Snapshot(p)]
            /\ UNCHANGED <<conn, bound, db, engine, job, closing>>

\* Every attempt failed.  A request is answered with the failure; the disconnect
\* hook returns at once and the calls of p keep their rows.
Abort(p) == /\ "db" \in Faults /\ phase[p] = "queued"
            /\ \/ /\ job[p].op \notin CleanupOps
                  /\ phase' = [phase EXCEPT ![p] = "idle"]
                  /\ job' = [job EXCEPT ![p] = NoJob]
                  /\ UNCHANGED conn
               \/ /\ job[p].op \in CleanupOps
                  /\ phase' = [phase EXCEPT ![p] = "leave_room"]
                  /\ conn' = [conn EXCEPT ![p] = "lost"]
                  /\ UNCHANGED job
            /\ UNCHANGED <<bound, db, engine, seen, closing>>

\* The handler of p goes on to phase next; an idle handler has no request.
Proceed(p, next) ==
    /\ phase' = [phase EXCEPT ![p] = next]
    /\ job' = IF next = "idle" THEN [job EXCEPT ![p] = NoJob] ELSE job

\* The committed statement answers, or its reply is lost and the statement is
\* queued once more.
Reply(p, next) == \/ Proceed(p, next)
                  \/ "reply" \in Faults /\ Proceed(p, "queued")

NextPhase(p, next) == IF seen[p].calls = {} THEN "idle" ELSE next

Forget(p) == seen' = [seen EXCEPT ![p] = NoSnapshot]

-----------------------------------------------------------------------------
(* The statements                                                          *)

Runs(p, o) == phase[p] = "running" /\ job[p].op = o

\* createDirectCall, the row of the call.
InvitedCall(u, id) == [status |-> "invited", by |-> u, id |-> id, answerer |-> NoPeer]

\* createDirectCall, the participants inserted with ON CONFLICT DO NOTHING.
InvitedRow(p, c, u) ==
    IF part[c][u].status # "none" THEN part[c][u]
    ELSE IF u = bound[p] /\ seen[p].up
         THEN [status |-> "accepted", invited |-> p, joined |-> p]
    ELSE IF u = job[p].callee THEN [NoRow EXCEPT !.status = "invited"]
    ELSE NoRow

\* The event and outbox rows of the invitation are written with the call, and the
\* reply names it to the caller; or it is lost and the statement runs once more.
CreateAnswered(p) ==
    \/ phase' = [phase EXCEPT ![p] = "create_room"]
    \/ /\ "reply" \in Faults /\ Spare
       /\ phase' = [phase EXCEPT ![p] = "queued"]

ApplyCreate(p) ==
    /\ Runs(p, "create")
    /\ LET twins == Twins(bound[p], job[p].id) IN
       \E c \in IF twins # {} THEN twins ELSE FreeCalls :
          /\ call' = IF twins # {} THEN call
                     ELSE [call EXCEPT ![c] = InvitedCall(bound[p], job[p].id)]
          /\ part' = [part EXCEPT ![c] = [u \in Users |-> InvitedRow(p, c, u)]]
          /\ alloc' = alloc \cup {c}
          /\ job' = [job EXCEPT ![p].call = c]
    /\ CreateAnswered(p)
    /\ Forget(p)
    /\ UNCHANGED <<conn, bound, sess, engine, closing>>

\* SET status = ... FROM target: every targeted call, whatever its status now.
Answerer(p, s) == IF s = "accepted" THEN p ELSE NoPeer
Stamped(p, s) == [c \in Calls |->
    IF c \in seen[p].calls
    THEN [call[c] EXCEPT !.status = s, !.answerer = Answerer(p, s)] ELSE call[c]]

\* The row of a user in a call a statement of p has targeted.
Targeted(p, c, u) == <<c, u>> \in seen[p].rows

AcceptedRow_NoSession(p, r) == [r EXCEPT !.status = "accepted"]
AcceptedRow_UserForSession(p, r) == [r EXCEPT !.status = "accepted", !.joined = bound[p]]
AcceptedRow(p, r) == [r EXCEPT !.status = "accepted", !.joined = p]

ApplyAccept(p) ==
    /\ Runs(p, "accept")
    /\ call' = Stamped(p, "accepted")
    /\ part' = [c \in Calls |-> [u \in Users |->
                  IF Targeted(p, c, u) /\ u = bound[p] /\ seen[p].up
                  THEN AcceptedRow(p, part[c][u]) ELSE part[c][u]]]
    /\ Reply(p, NextPhase(p, "join_room"))
    /\ Forget(p)
    /\ UNCHANGED <<conn, bound, sess, alloc, engine, closing>>

DeclinedStatus_ActorOnly(p, u, s) == IF u = bound[p] THEN "declined" ELSE s
DeclinedStatus(p, u, s) == IF u = bound[p] THEN "declined" ELSE "ended"

\* The allocation row stays.
ApplyDecline(p) ==
    /\ Runs(p, "decline")
    /\ call' = Stamped(p, "declined")
    /\ part' = [c \in Calls |-> [u \in Users |->
                  IF Targeted(p, c, u)
                  THEN [part[c][u] EXCEPT !.status = DeclinedStatus(p, u, @)]
                  ELSE part[c][u]]]
    /\ Reply(p, "idle")
    /\ Forget(p)
    /\ UNCHANGED <<conn, bound, sess, alloc, engine, closing>>

\* hangupDirectCall and handleDirectCallPeerDisconnected.  An allocation row is
\* deleted if the snapshot saw it; a statement that still runs and saw the same
\* row will find it gone, even if another has been inserted by then.
EndCalls(p, next) ==
    /\ call' = Stamped(p, "ended")
    /\ part' = [c \in Calls |-> [u \in Users |->
                  IF Targeted(p, c, u)
                  THEN [part[c][u] EXCEPT !.status = "ended"] ELSE part[c][u]]]
    /\ alloc' = alloc \ seen[p].alloc
    /\ seen' = [q \in Peers |->
                  IF q = p THEN NoSnapshot
                  ELSE [seen[q] EXCEPT !.alloc = @ \ seen[p].alloc]]
    /\ \/ /\ Proceed(p, next)
          /\ closing' = [closing EXCEPT ![p] = {r \in seen[p].peers :
                             job[p].op = "hangup" \/ r[1] # p}]
       \/ /\ "reply" \in Faults
          /\ Proceed(p, "queued")
          /\ UNCHANGED closing
    /\ UNCHANGED <<conn, bound, sess, engine>>

ApplyHangup(p) == Runs(p, "hangup") /\ EndCalls(p, NextPhase(p, "close_peers"))

ApplyDisconnect(p) == /\ phase[p] = "running" /\ job[p].op \in CleanupOps
                      /\ EndCalls(p, "close_peers")

\* resolveDirectCallMediaContext reads only, and does not look at the status;
\* webrtc_close then closes the media session of p itself.
ApplyMedia(p) ==
    /\ \/ /\ Runs(p, "open_transport")
          /\ Reply(p, NextPhase(p, "open"))
          /\ UNCHANGED closing
       \/ /\ Runs(p, "webrtc_close")
          /\ Reply(p, NextPhase(p, "close_peers"))
          /\ closing' = [closing EXCEPT ![p] = {p} \X seen[p].calls]
    /\ Forget(p)
    /\ UNCHANGED <<conn, bound, db, engine>>

-----------------------------------------------------------------------------
(* What the handlers ask of the media engine                               *)

CreateRoom(p) ==
    /\ phase[p] \in {"create_room", "recreate"}
    /\ LET c == job[p].call IN
       \/ /\ (IF c \in rooms THEN UNCHANGED engine ELSE EngineCreate(c))
          /\ Proceed(p, "join_room")
       \/ /\ c \notin rooms /\ BackendFails
          /\ Proceed(p, IF phase[p] = "recreate" THEN "idle" ELSE "join_room")
    /\ UNCHANGED <<conn, bound, db, seen, closing>>

\* JoinSession of the caller, of the peer that accepted, or of the recovery.
JoinRoom(p) ==
    /\ phase[p] = "join_room"
    /\ EngineTryJoin(p, job[p].call)
    /\ Proceed(p, "idle")
    /\ UNCHANGED <<conn, bound, db, seen, closing>>

\* open_transport: a peer outside the room joins it first, and creates it
\* again when it is gone.
OpenTransport(p) ==
    /\ phase[p] = "open"
    /\ Proceed(p, IF p \in members[job[p].call] THEN "idle" ELSE "rejoin")
    /\ UNCHANGED <<conn, bound, db, engine, seen, closing>>

Rejoin(p) ==
    /\ phase[p] = "rejoin"
    /\ LET c == job[p].call IN
       \/ c \in rooms /\ EngineJoin(p, c) /\ Proceed(p, "idle")
       \/ c \notin rooms /\ UNCHANGED engine /\ Proceed(p, "recreate")
       \/ c \in rooms /\ BackendFails /\ Proceed(p, "idle")
    /\ UNCHANGED <<conn, bound, db, seen, closing>>

\* CloseSession of one peer of a call that was just finished.
CloseSession(p) ==
    /\ phase[p] = "close_peers"
    /\ \E r \in closing[p] :
          /\ closing' = [closing EXCEPT ![p] = @ \ {r}]
          /\ EngineClose(r[1], r[2])
    /\ UNCHANGED <<conn, bound, db, phase, job, seen>>

\* The handler that closed the sessions returns; after the direct-call hook of
\* a disconnect comes the mediasoup hook, unless it went first.
CloseDone(p) ==
    /\ phase[p] = "close_peers" /\ closing[p] = {}
    /\ Proceed(p, IF job[p].op = "disconnect" THEN "leave_room" ELSE "idle")
    /\ conn' = IF job[p].op = "cleanup" THEN [conn EXCEPT ![p] = "closed"] ELSE conn
    /\ UNCHANGED <<bound, db, engine, seen, closing>>

\* The feature modules are kept in an unordered_map, so the mediasoup hook,
\* EngineDisconnect, runs before or after the hook of direct calls.
Hooks(p) ==
    /\ phase[p] = "hooks"
    /\ phase' = [phase EXCEPT ![p] = "queued"]
    /\ \/ UNCHANGED <<engine, job>>
       \/ EngineDisconnect(p) /\ job' = [job EXCEPT ![p].op = "cleanup"]
    /\ UNCHANGED <<conn, bound, db, seen, closing>>

LeaveLast(p) ==
    /\ phase[p] = "leave_room"
    /\ \/ job[p].op = "disconnect" /\ EngineDisconnect(p)
       \/ job[p].op = "cleanup" /\ UNCHANGED engine
    /\ Proceed(p, "idle")
    /\ conn' = IF conn[p] = "lost" THEN conn ELSE [conn EXCEPT ![p] = "closed"]
    /\ UNCHANGED <<bound, db, seen, closing>>

-----------------------------------------------------------------------------
(* Server start and stop                                                   *)

\* markServerNodeSessionsDisconnected has no filter on server_node.
AllSessionsDown == sess' = [p \in Peers |-> [sess[p] EXCEPT !.up = FALSE]]

\* The process dies and starts again: sockets, session store, running
\* statements and media rooms are gone; nothing is done about calls.  A startup
\* cleanup that fails only logs a warning.
Restart ==
    /\ "crash" \in Faults
    /\ conn' = [p \in Peers |-> IF conn[p] \in {"open", "closing"} THEN "lost" ELSE conn[p]]
    /\ bound' = [p \in Peers |-> NoUser]
    /\ AllSessionsDown \/ ("db" \in Faults /\ UNCHANGED sess)
    /\ rooms' = {}
    /\ members' = [c \in Calls |-> {}]
    /\ roomOf' = [p \in Peers |-> NoCall]
    /\ phase' = [p \in Peers |-> "idle"]
    /\ job' = [p \in Peers |-> NoJob]
    /\ seen' = [p \in Peers |-> NoSnapshot]
    /\ closing' = [p \in Peers |-> {}]
    /\ UNCHANGED <<call, part, alloc>>

OtherNodeStarts == /\ "node" \in Faults
                   /\ AllSessionsDown
                   /\ UNCHANGED <<conn, bound, call, part, alloc, engine, work>>

-----------------------------------------------------------------------------
Init ==
    /\ conn = [p \in Peers |-> "new"]
    /\ bound = [p \in Peers |-> NoUser]
    /\ sess = [p \in Peers |-> [user |-> NoUser, up |-> FALSE]]
    /\ call = [c \in Calls |-> NoCallRow]
    /\ part = [c \in Calls |-> [u \in Users |-> NoRow]]
    /\ alloc = {}
    /\ EngineInit
    /\ phase = [p \in Peers |-> "idle"]
    /\ job = [p \in Peers |-> NoJob]
    /\ seen = [p \in Peers |-> NoSnapshot]
    /\ closing = [p \in Peers |-> {}]

\* What the client of p makes happen.
Client(p) == \/ Connect(p) \/ Disconnect(p) \/ Logout(p)
             \/ \E u \in Users : BindSession(p, u)
             \/ RequestCreate(p) \/ RequestOnCall(p)

Statement(p) == \/ ApplyCreate(p) \/ ApplyAccept(p) \/ ApplyDecline(p)
                \/ ApplyHangup(p) \/ ApplyDisconnect(p) \/ ApplyMedia(p)

Media(p) == \/ CreateRoom(p) \/ JoinRoom(p) \/ OpenTransport(p) \/ Rejoin(p)
            \/ CloseSession(p) \/ CloseDone(p) \/ Hooks(p) \/ LeaveLast(p)

\* What the server does for p once a handler has started.
Handler(p) == Begin(p) \/ Abort(p) \/ Statement(p) \/ Media(p)

Next == \/ \E p \in Peers : Client(p) \/ Handler(p)
        \/ Restart \/ OtherNodeStarts

Spec == Init /\ [][Next]_vars

\* A started handler runs to its end: its thread is scheduled, the database
\* answers.  Clients owe nothing.
FairSpec == Spec /\ \A p \in Peers : WF_vars(Handler(p))

-----------------------------------------------------------------------------
(* Properties                                                              *)

\* Every variable keeps the shape of the row, map or handler it stands for;
\* in particular no statement writes a status the guards do not know.
TypeOK ==
    /\ conn \in [Peers -> {"new", "open", "closing", "closed", "lost"}]
    /\ bound \in [Peers -> Users \cup {NoUser}]
    /\ sess \in [Peers -> Sessions]
    /\ call \in [Calls -> CallRows]
    /\ part \in [Calls -> [Users -> PartRows]]
    /\ alloc \in SUBSET Calls
    /\ EngineTypeOK
    /\ phase \in [Peers -> Phases]
    /\ job \in [Peers -> Jobs]
    /\ seen \in [Peers -> Snapshots]
    /\ closing \in [Peers -> SUBSET (Peers \X Calls)]

\* However often create_call is retried, by the client or by the pool after a
\* lost reply, and whatever runs at the same time, one caller and one client
\* request id never own two calls (ON CONFLICT of createDirectCall).
OneCallPerRequestId ==
    \A c, d \in Calls :
        /\ call[c].status # "none" /\ call[d].status # "none"
        /\ call[c].by = call[d].by /\ call[c].id = call[d].id /\ call[c].id # NoId
        => c = d

\* A call that is over has no participant who is still invited, even when
\* decline, hangup, disconnect and a retried create_call overlap: nobody can be
\* left with an invitation that no statement will ever settle.
NoInvitationToAFinishedCall ==
    \A c \in Calls, u \in Users :
        call[c].status \in Over => part[c][u].status # "invited"

\* Whoever accepted a call holds it: while it is accepted, a row of one of the
\* accounts of the connection that made it so is accepted too and names that
\* connection as the one that joined.  acceptDirectCall writes the two in different
\* CTEs, and statements that overlap, take over or end the call write either; the
\* disconnect cleanup finds the call of the answerer only through that row.
AnswererHoldsAcceptedCall ==
    \A c \in Calls : call[c].status = "accepted" =>
        \E u \in Users : /\ u \in Accounts[call[c].answerer]
                         /\ part[c][u].status = "accepted"
                         /\ part[c][u].joined = call[c].answerer

HoldsInProgress(p, c) == Holds(p, c) /\ call[c].status \in Active

\* Once the disconnect cleanup of a connection has run, no call in progress is
\* held by that connection (handleDirectCallPeerDisconnected).  It needs
\* statements that do not overlap: an accept whose snapshot is older than the
\* cleanup revives the call.
ClosedPeerHoldsNoCall ==
    \A p \in Peers, c \in Calls :
        conn[p] = "closed" => ~HoldsInProgress(p, c)

\* A call in progress keeps its media room allocation, whoever retries, accepts
\* or ends it; for statements that do not overlap.
CallInProgressIsAllocated ==
    \A c \in Calls : call[c].status \in Active => c \in alloc

\* A peer is in the media room of a call only if its user is a participant of
\* that call: no order of creates, accepts, hangups, rejoins and lost replies
\* seats a stranger (the JOIN on call_participants in every target CTE).
RoomsHoldParticipants ==
    \A c \in Calls : \A p \in members[c] : Participates(sess[p].user, c)

AwaitsCleanup(p) == conn[p] = "closing" /\ phase[p] \in {"hooks", "queued"}

\* A connection that closes while it holds a call in progress lets go of it: its
\* cleanup or somebody else ends the call, or another session of the same account
\* accepts it and takes over the participant row, whatever statements overlap.
\* (An accept that read its snapshot before may revive the call afterwards.)
HeldCallsEnd ==
    \A p \in Peers, c \in Calls :
        (AwaitsCleanup(p) /\ HoldsInProgress(p, c)) ~> ~HoldsInProgress(p, c)

Life == [c \in Calls |-> IF call[c].status \in Over THEN "over" ELSE call[c].status]

\* The rows of app.calls live as CallLifecycle says: answered only while
\* invited, never revived.  For statements that do not overlap.
Lifecycle == INSTANCE CallLifecycle WITH life <- Life
ImplementsLifecycle == Lifecycle!Spec
=============================================================================
