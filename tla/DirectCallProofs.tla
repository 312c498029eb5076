-------------------------- MODULE DirectCallProofs --------------------------
(***************************************************************************)
(* What holds of DirectCall for every set of connections, accounts, calls  *)
(* and invitations, every pool size and every set of faults.               *)
(***************************************************************************)
EXTENDS DirectCall, TLAPS

USE ConstantsAssumption

-----------------------------------------------------------------------------
(* Typing                                                                  *)

\* The initial state has the typed shape.
LEMMA InitTypeOK == Init => TypeOK
BY DEF Init, EngineInit, TypeOK, EngineTypeOK, NoCallRow, NoRow, NoJob, NoSnapshot, Sessions, CallRows, PartRows,
       Jobs, Snapshots, CallStatus, AllOps, Phases

\* What a statement reads when it starts is a snapshot of the declared shape.
LEMMA SnapshotType ==
    ASSUME TypeOK, NEW p \in Peers PROVE Snapshot(p) \in Snapshots
<1>1. Target(p) \subseteq Calls
  BY DEF Target, Affected, Requested
<1>2. sess[p].up \in BOOLEAN
  BY DEF TypeOK, Sessions
<1>. QED BY <1>1, <1>2 DEF Snapshot, Snapshots

\* Rows, sessions, requests and snapshots keep their type when a field is set.
LEMMA RecordUpdates ==
    /\ \A r \in CallRows, s \in CallStatus, q \in Peers \cup {NoPeer} :
          [r EXCEPT !.status = s, !.answerer = q] \in CallRows
    /\ \A r \in PartRows, s \in CallStatus : [r EXCEPT !.status = s] \in PartRows
    /\ \A r \in PartRows, s \in CallStatus, q \in Peers :
          [r EXCEPT !.status = s, !.joined = q] \in PartRows
    /\ \A r \in Sessions : [r EXCEPT !.up = FALSE] \in Sessions
    /\ \A r \in Jobs, o \in AllOps : [r EXCEPT !.op = o] \in Jobs
    /\ \A r \in Jobs, c \in Calls : [r EXCEPT !.call = c] \in Jobs
    /\ \A r \in Snapshots : \A S : [r EXCEPT !.alloc = @ \ S] \in Snapshots
<1>1. \A r \in CallRows, s \in CallStatus, q \in Peers \cup {NoPeer} :
         [r EXCEPT !.status = s, !.answerer = q] \in CallRows
  BY DEF CallRows
<1>2. \A r \in PartRows, s \in CallStatus : [r EXCEPT !.status = s] \in PartRows
  BY DEF PartRows
<1>3. \A r \in PartRows, s \in CallStatus, q \in Peers :
         [r EXCEPT !.status = s, !.joined = q] \in PartRows
  BY DEF PartRows
<1>4. \A r \in Sessions : [r EXCEPT !.up = FALSE] \in Sessions
  BY DEF Sessions
<1>5. \A r \in Jobs, o \in AllOps : [r EXCEPT !.op = o] \in Jobs
  BY DEF Jobs
<1>6. \A r \in Jobs, c \in Calls : [r EXCEPT !.call = c] \in Jobs
  BY DEF Jobs
<1>7. \A r \in Snapshots : \A S : [r EXCEPT !.alloc = @ \ S] \in Snapshots
  BY DEF Snapshots
<1>. QED BY <1>1, <1>2, <1>3, <1>4, <1>5, <1>6, <1>7

\* A statement that stamps a status leaves well-formed call rows.
LEMMA StampedType ==
    ASSUME TypeOK, NEW p \in Peers, NEW s \in CallStatus
    PROVE  Stamped(p, s) \in [Calls -> CallRows]
BY RecordUpdates DEF TypeOK, Stamped, Answerer

\* A participant row stays one when its status or its joined session is set.
LEMMA PartRowType ==
    ASSUME TypeOK, NEW c \in Calls, NEW u \in Users, NEW s \in CallStatus,
           NEW q \in Peers
    PROVE  /\ part[c][u] \in PartRows
           /\ [part[c][u] EXCEPT !.status = s] \in PartRows
           /\ [part[c][u] EXCEPT !.status = s, !.joined = q] \in PartRows
<1>1. part[c][u] \in PartRows
  BY DEF TypeOK
<1>. QED BY <1>1, RecordUpdates

\* createDirectCall inserts or keeps well-formed participant rows.
LEMMA InvitedRowType ==
    ASSUME TypeOK, NEW p \in Peers, NEW c \in Calls, NEW u \in Users
    PROVE  InvitedRow(p, c, u) \in PartRows
BY DEF TypeOK, PartRows, InvitedRow, NoRow, CallStatus, Active

\* A handler moves to a known phase with a well-formed request.
LEMMA ProceedType ==
    ASSUME TypeOK, NEW p \in Peers, NEW next \in Phases, Proceed(p, next)
    PROVE  phase' \in [Peers -> Phases] /\ job' \in [Peers -> Jobs]
BY DEF TypeOK, Proceed, NoJob, Jobs, AllOps

\* A finished statement leaves well-formed snapshots behind.
LEMMA ForgetType ==
    ASSUME TypeOK, NEW p \in Peers, Forget(p)
    PROVE  seen' \in [Peers -> Snapshots]
BY DEF TypeOK, Forget, NoSnapshot, Snapshots

\* Answering, or running again after a lost reply, keeps phases and requests typed.
LEMMA ReplyType ==
    ASSUME TypeOK, NEW p \in Peers, NEW next \in Phases, Reply(p, next)
    PROVE  phase' \in [Peers -> Phases] /\ job' \in [Peers -> Jobs]
<1>. "queued" \in Phases
  BY DEF Phases
<1>. QED BY ProceedType DEF Reply

\* Whatever a client does keeps the types.
LEMMA ClientTypeOK ==
    ASSUME TypeOK, NEW p \in Peers, Client(p) PROVE TypeOK'
<1>1. CASE Connect(p)
  BY <1>1 DEF Connect, TypeOK, db, engine, work, EngineTypeOK, sfu
<1>2. CASE \E u \in Users : BindSession(p, u)
  BY <1>2 DEF BindSession, TypeOK, Sessions, db, engine, work, EngineTypeOK, sfu
<1>3. ASSUME MarkDisconnected(p) PROVE sess' \in [Peers -> Sessions]
  <2>1. [sess[p] EXCEPT !.up = FALSE] \in Sessions
    BY RecordUpdates DEF TypeOK
  <2>2. [sess EXCEPT ![p].up = FALSE] \in [Peers -> Sessions]
    BY <2>1 DEF TypeOK
  <2>. QED BY <1>3, <2>2 DEF MarkDisconnected, TypeOK
<1>4. CASE Logout(p)
  BY <1>3, <1>4 DEF Logout, TypeOK, engine, work, EngineTypeOK, sfu
<1>5. CASE Disconnect(p)
  <2>1. job' \in [Peers -> Jobs]
    BY <1>5, RecordUpdates DEF Disconnect, TypeOK, AllOps, CleanupOps
  <2>2. phase' \in [Peers -> Phases]
    BY <1>5 DEF Disconnect, TypeOK, Phases
  <2>. QED BY <1>3, <1>5, <2>1, <2>2 DEF Disconnect, TypeOK, engine, EngineTypeOK, sfu
<1>6. ASSUME NEW j \in Jobs, Submit(p, j) PROVE TypeOK'
  BY <1>6 DEF Submit, TypeOK, Phases, db, engine, EngineTypeOK, sfu
<1>7. CASE RequestCreate(p)
  <2>1. PICK i \in Invites : Submit(p, [NoJob EXCEPT !.op = "create", !.id = i.id, !.callee = i.callee])
    BY <1>7 DEF RequestCreate
  <2>2. [NoJob EXCEPT !.op = "create", !.id = i.id, !.callee = i.callee] \in Jobs
    BY DEF NoJob, Jobs, AllOps, Invitations
  <2>. QED BY <1>6, <2>1, <2>2
<1>8. CASE RequestOnCall(p)
  <2>1. PICK o \in Ops, c \in Calls : Submit(p, [NoJob EXCEPT !.op = o, !.call = c])
    BY <1>8 DEF RequestOnCall
  <2>2. [NoJob EXCEPT !.op = o, !.call = c] \in Jobs
    BY DEF NoJob, Jobs, AllOps
  <2>. QED BY <1>6, <2>1, <2>2
<1>. QED BY <1>1, <1>2, <1>4, <1>5, <1>7, <1>8 DEF Client

\* hangupDirectCall and the disconnect cleanup keep the types.
LEMMA EndCallsTypeOK ==
    ASSUME TypeOK, NEW p \in Peers, NEW next \in Phases, EndCalls(p, next)
    PROVE  TypeOK'
<1>1. call' \in [Calls -> CallRows]
  BY StampedType DEF EndCalls, CallStatus, Over
<1>2. part' \in [Calls -> [Users -> PartRows]]
  <2>1. "ended" \in CallStatus
    BY DEF CallStatus, Over
  <2>. QED BY <2>1, PartRowType DEF EndCalls
<1>3. seen' \in [Peers -> Snapshots]
  <2>1. NoSnapshot \in Snapshots
    BY DEF NoSnapshot, Snapshots
  <2>. QED BY <2>1, RecordUpdates DEF EndCalls, TypeOK
<1>4. phase' \in [Peers -> Phases] /\ job' \in [Peers -> Jobs]
  <2>1. "queued" \in Phases
    BY DEF Phases
  <2>. QED BY <2>1, ProceedType DEF EndCalls
<1>5. closing' \in [Peers -> SUBSET (Peers \X Calls)]
  <2>1. seen[p].peers \in SUBSET (Peers \X Calls)
    BY DEF TypeOK, Snapshots
  <2>. QED BY <2>1 DEF EndCalls, TypeOK
<1>. QED BY <1>1, <1>2, <1>3, <1>4, <1>5 DEF EndCalls, TypeOK, engine, EngineTypeOK, sfu

\* Every statement keeps the types.
LEMMA StatementTypeOK ==
    ASSUME TypeOK, NEW p \in Peers, Statement(p) PROVE TypeOK'
<1>p. {"create_room", "queued", "idle", "join_room", "open", "close_peers"} \subseteq Phases
  BY DEF Phases
<1>s. {"accepted", "declined", "ended"} \subseteq CallStatus
  BY DEF CallStatus, Active, Over
<1>1. CASE ApplyCreate(p)
  <2>1. PICK c \in Calls :
          /\ call' = call \/ call' = [call EXCEPT ![c] = InvitedCall(bound[p], job[p].id)]
          /\ part' = [part EXCEPT ![c] = [u \in Users |-> InvitedRow(p, c, u)]]
          /\ alloc' = alloc \cup {c}
          /\ job' = [job EXCEPT ![p].call = c]
    BY <1>1 DEF ApplyCreate, CreateAnswered, Twins, FreeCalls
  <2>2. call' \in [Calls -> CallRows]
    <3>1. InvitedCall(bound[p], job[p].id) \in CallRows
      BY DEF InvitedCall, TypeOK, CallRows, Jobs, CallStatus, Active
    <3>. QED BY <2>1, <3>1 DEF TypeOK
  <2>3. part' \in [Calls -> [Users -> PartRows]]
    BY <2>1, InvitedRowType DEF TypeOK
  <2>4. job' \in [Peers -> Jobs]
    BY <2>1, RecordUpdates DEF TypeOK
  <2>5. phase' \in [Peers -> Phases]
    BY <1>1, <1>p DEF ApplyCreate, CreateAnswered, TypeOK
  <2>6. seen' \in [Peers -> Snapshots]
    BY <1>1, ForgetType DEF ApplyCreate, CreateAnswered
  <2>. QED BY <1>1, <2>1, <2>2, <2>3, <2>4, <2>5, <2>6 DEF ApplyCreate, CreateAnswered, TypeOK, engine, EngineTypeOK, sfu
<1>2. CASE ApplyAccept(p)
  <2>1. call' \in [Calls -> CallRows]
    BY <1>2, <1>s, StampedType DEF ApplyAccept
  <2>2. part' \in [Calls -> [Users -> PartRows]]
    BY <1>2, <1>s, PartRowType DEF ApplyAccept, AcceptedRow
  <2>3. phase' \in [Peers -> Phases] /\ job' \in [Peers -> Jobs]
    BY <1>2, <1>p, ReplyType DEF ApplyAccept, NextPhase
  <2>4. seen' \in [Peers -> Snapshots]
    BY <1>2, ForgetType DEF ApplyAccept
  <2>. QED BY <1>2, <2>1, <2>2, <2>3, <2>4 DEF ApplyAccept, TypeOK, engine, EngineTypeOK, sfu
<1>3. CASE ApplyDecline(p)
  <2>1. call' \in [Calls -> CallRows]
    BY <1>3, <1>s, StampedType DEF ApplyDecline
  <2>2. ASSUME NEW c \in Calls, NEW u \in Users
        PROVE  [part[c][u] EXCEPT !.status = DeclinedStatus(p, u, @)] \in PartRows
    BY <1>s, PartRowType DEF DeclinedStatus
  <2>3. part' \in [Calls -> [Users -> PartRows]]
    BY <1>3, <2>2 DEF ApplyDecline, TypeOK
  <2>4. phase' \in [Peers -> Phases] /\ job' \in [Peers -> Jobs]
    BY <1>3, <1>p, ReplyType DEF ApplyDecline
  <2>5. seen' \in [Peers -> Snapshots]
    BY <1>3, ForgetType DEF ApplyDecline
  <2>. QED BY <1>3, <2>1, <2>3, <2>4, <2>5 DEF ApplyDecline, TypeOK, engine, EngineTypeOK, sfu
<1>4. CASE ApplyHangup(p)
  BY <1>4, <1>p, EndCallsTypeOK DEF ApplyHangup, NextPhase
<1>5. CASE ApplyDisconnect(p)
  BY <1>5, <1>p, EndCallsTypeOK DEF ApplyDisconnect
<1>6. CASE ApplyMedia(p)
  <2>1. phase' \in [Peers -> Phases] /\ job' \in [Peers -> Jobs]
    BY <1>6, <1>p, ReplyType DEF ApplyMedia, NextPhase
  <2>2. seen' \in [Peers -> Snapshots]
    BY <1>6, ForgetType DEF ApplyMedia
  <2>3. {p} \X seen[p].calls \in SUBSET (Peers \X Calls)
    <3>1. seen[p].calls \in SUBSET Calls
      BY DEF TypeOK, Snapshots
    <3>. QED BY <3>1
  <2>4. closing' \in [Peers -> SUBSET (Peers \X Calls)]
    BY <1>6, <2>3 DEF ApplyMedia, TypeOK
  <2>. QED BY <1>6, <2>1, <2>2, <2>4 DEF ApplyMedia, TypeOK, db, engine, EngineTypeOK, sfu
<1>. QED BY <1>1, <1>2, <1>3, <1>4, <1>5, <1>6 DEF Statement

\* A create, join or leave of the media engine keeps the types of its maps.
LEMMA EngineStepTypeOK ==
    ASSUME TypeOK, NEW q \in Peers, NEW c \in Calls,
           EngineCreate(c) \/ EngineJoin(q, c) \/ EngineLeave(q, c) \/ UNCHANGED engine
    PROVE  EngineTypeOK'
<1>1. CASE EngineCreate(c)
  BY <1>1 DEF TypeOK, EngineTypeOK, EngineCreate
<1>2. CASE EngineJoin(q, c)
  BY <1>2 DEF TypeOK, EngineTypeOK, EngineJoin
<1>3. CASE EngineLeave(q, c) /\ q \in members[c]
  <2>1. members' \in [Calls -> SUBSET Peers]
    BY <1>3 DEF TypeOK, EngineLeave, engine, EngineTypeOK, sfu
  <2>2. roomOf' \in [Peers -> Calls \cup {NoCall}]
    BY <1>3 DEF TypeOK, EngineLeave, engine, EngineTypeOK, sfu
  <2>3. rooms' \in SUBSET Calls
    BY <1>3 DEF TypeOK, EngineLeave, engine, EngineTypeOK, sfu
  <2>. QED BY <2>1, <2>2, <2>3 DEF EngineTypeOK
<1>4. CASE UNCHANGED engine
  BY <1>4 DEF TypeOK, EngineTypeOK, engine
<1>. QED BY <1>1, <1>2, <1>3, <1>4 DEF EngineLeave, engine, sfu

\* The engine's disconnect hook keeps the types of its maps.
LEMMA EngineDisconnectTypeOK ==
    ASSUME TypeOK, NEW p \in Peers, EngineDisconnect(p) \/ UNCHANGED engine
    PROVE  EngineTypeOK'
<1>1. CASE UNCHANGED engine
  BY <1>1 DEF TypeOK, EngineTypeOK, engine
<1>2. CASE roomOf[p] # NoCall /\ EngineLeave(p, roomOf[p])
  BY <1>2, EngineStepTypeOK DEF TypeOK, EngineTypeOK
<1>. QED BY <1>1, <1>2 DEF EngineDisconnect, BackendFails, engine, sfu

\* A handler that drives the room of a call has a call to drive the room of.
RoomPhases == {"create_room", "join_room", "open", "rejoin", "recreate"}
JobsNameCalls ==
    \A p \in Peers : job[p].op \in CallOps \/ phase[p] \in RoomPhases => job[p].call \in Calls

\* Every step of a handler towards the media engine keeps the types.
LEMMA MediaTypeOK ==
    ASSUME TypeOK, NEW p \in Peers, JobsNameCalls, Media(p)
    PROVE  TypeOK'
<1>p. {"create_room", "queued", "idle", "join_room", "open", "close_peers",
       "rejoin", "recreate", "leave_room"} \subseteq Phases
  BY DEF Phases
<1>1. CASE CreateRoom(p)
  <2>1. EngineTypeOK'
    BY <1>1, EngineStepTypeOK DEF CreateRoom, BackendFails, JobsNameCalls, RoomPhases, engine, sfu
  <2>2. phase' \in [Peers -> Phases] /\ job' \in [Peers -> Jobs]
    BY <1>1, <1>p, ProceedType DEF CreateRoom
  <2>. QED BY <1>1, <2>1, <2>2 DEF CreateRoom, TypeOK, EngineTypeOK, db
<1>2. CASE JoinRoom(p)
  <2>1. EngineTypeOK'
    BY <1>2, EngineStepTypeOK DEF JoinRoom, EngineTryJoin, BackendFails, JobsNameCalls, RoomPhases, engine, sfu
  <2>2. phase' \in [Peers -> Phases] /\ job' \in [Peers -> Jobs]
    BY <1>2, <1>p, ProceedType DEF JoinRoom
  <2>. QED BY <1>2, <2>1, <2>2 DEF JoinRoom, TypeOK, EngineTypeOK, db
<1>3. CASE OpenTransport(p)
  <2>2. phase' \in [Peers -> Phases] /\ job' \in [Peers -> Jobs]
    BY <1>3, <1>p, ProceedType DEF OpenTransport
  <2>. QED BY <1>3, <2>2 DEF OpenTransport, TypeOK, engine, db, EngineTypeOK, sfu
<1>4. CASE Rejoin(p)
  <2>1. EngineTypeOK'
    BY <1>4, EngineStepTypeOK DEF Rejoin, BackendFails, JobsNameCalls, RoomPhases, engine, sfu
  <2>2. phase' \in [Peers -> Phases] /\ job' \in [Peers -> Jobs]
    BY <1>4, <1>p, ProceedType DEF Rejoin
  <2>. QED BY <1>4, <2>1, <2>2 DEF Rejoin, TypeOK, EngineTypeOK, db
<1>5. CASE CloseSession(p)
  <2>1. PICK r \in closing[p] :
          /\ closing' = [closing EXCEPT ![p] = @ \ {r}]
          /\ EngineLeave(r[1], r[2]) \/ UNCHANGED engine
    BY <1>5 DEF CloseSession, EngineClose, BackendFails, engine, sfu
  <2>2. r \in Peers \X Calls
    BY <2>1 DEF TypeOK
  <2>3. EngineTypeOK'
    BY <2>1, <2>2, EngineStepTypeOK
  <2>4. closing' \in [Peers -> SUBSET (Peers \X Calls)]
    BY <2>1 DEF TypeOK
  <2>. QED BY <1>5, <2>3, <2>4 DEF CloseSession, TypeOK, EngineTypeOK, db
<1>6. CASE CloseDone(p)
  <2>2. phase' \in [Peers -> Phases] /\ job' \in [Peers -> Jobs]
    BY <1>6, <1>p, ProceedType DEF CloseDone
  <2>. QED BY <1>6, <2>2 DEF CloseDone, TypeOK, engine, db, EngineTypeOK, sfu
<1>7. CASE Hooks(p)
  <2>1. EngineTypeOK'
    BY <1>7, EngineDisconnectTypeOK DEF Hooks
  <2>2. phase' \in [Peers -> Phases]
    BY <1>7, <1>p DEF Hooks, TypeOK
  <2>3. job' \in [Peers -> Jobs]
    <3>1. [job[p] EXCEPT !.op = "cleanup"] \in Jobs
      BY RecordUpdates DEF TypeOK, AllOps, CleanupOps
    <3>2. [job EXCEPT ![p].op = "cleanup"] \in [Peers -> Jobs]
      BY <3>1 DEF TypeOK
    <3>. QED BY <1>7, <3>2 DEF Hooks, TypeOK
  <2>. QED BY <1>7, <2>1, <2>2, <2>3 DEF Hooks, TypeOK, EngineTypeOK, db
<1>8. CASE LeaveLast(p)
  <2>1. EngineTypeOK'
    BY <1>8, EngineDisconnectTypeOK DEF LeaveLast
  <2>2. phase' \in [Peers -> Phases] /\ job' \in [Peers -> Jobs]
    BY <1>8, <1>p, ProceedType DEF LeaveLast
  <2>. QED BY <1>8, <2>1, <2>2 DEF LeaveLast, TypeOK, EngineTypeOK, db
<1>. QED BY <1>1, <1>2, <1>3, <1>4, <1>5, <1>6, <1>7, <1>8 DEF Media

\* Every step the server makes for a connection keeps the types.
LEMMA HandlerTypeOK ==
    ASSUME TypeOK, JobsNameCalls, NEW p \in Peers, Handler(p) PROVE TypeOK'
<1>1. CASE Begin(p)
  <2>1. seen' \in [Peers -> Snapshots]
    BY <1>1, SnapshotType DEF Begin, TypeOK
  <2>. QED BY <1>1, <2>1 DEF Begin, TypeOK, Phases, db, engine, EngineTypeOK, sfu
<1>2. CASE Abort(p)
  <2>1. NoJob \in Jobs
    BY DEF NoJob, Jobs, AllOps
  <2>2. job' \in [Peers -> Jobs]
    BY <1>2, <2>1 DEF Abort, TypeOK
  <2>3. phase' \in [Peers -> Phases]
    BY <1>2 DEF Abort, TypeOK, Phases
  <2>. QED BY <1>2, <2>2, <2>3 DEF Abort, TypeOK, db, engine, EngineTypeOK, sfu
<1>. QED BY <1>1, <1>2, StatementTypeOK, MediaTypeOK DEF Handler

\* A restart, and the start of another node, keep the types.
LEMMA ServerTypeOK ==
    ASSUME TypeOK, Restart \/ OtherNodeStarts PROVE TypeOK'
<1>1. ASSUME AllSessionsDown PROVE sess' \in [Peers -> Sessions]
  BY <1>1, RecordUpdates DEF AllSessionsDown, TypeOK
<1>2. CASE Restart
  <2>1. NoJob \in Jobs /\ NoSnapshot \in Snapshots /\ "idle" \in Phases
    BY DEF NoJob, Jobs, AllOps, NoSnapshot, Snapshots, Phases
  <2>. QED BY <1>1, <1>2, <2>1 DEF Restart, TypeOK, EngineTypeOK
<1>3. CASE OtherNodeStarts
  BY <1>1, <1>3 DEF OtherNodeStarts, TypeOK, engine, work, EngineTypeOK, sfu
<1>. QED BY <1>2, <1>3

\* Stuttering keeps the types.
LEMMA StutterTypeOK == ASSUME TypeOK, UNCHANGED vars PROVE TypeOK'
BY DEF TypeOK, vars, EngineTypeOK

\* Every step keeps the types.
LEMMA NextTypeOK ==
    ASSUME TypeOK, JobsNameCalls, [Next]_vars PROVE TypeOK'
BY ClientTypeOK, HandlerTypeOK, ServerTypeOK, StutterTypeOK DEF Next

\* Every step keeps the requests that drive a room naming a call.
LEMMA NextJobsNameCalls ==
    ASSUME TypeOK, JobsNameCalls, [Next]_vars PROVE JobsNameCalls'
<1>1. ASSUME NEW p \in Peers, NEW next, Proceed(p, next), next \notin RoomPhases
      PROVE  JobsNameCalls'
  BY <1>1 DEF Proceed, JobsNameCalls, TypeOK, NoJob, CallOps, RoomPhases
<1>2. ASSUME NEW p \in Peers, NEW next, Proceed(p, next), job[p].call \in Calls
      PROVE  JobsNameCalls'
  BY <1>2 DEF Proceed, JobsNameCalls, TypeOK, NoJob, CallOps, RoomPhases
<1>3. CASE UNCHANGED <<phase, job>>
  BY <1>3 DEF JobsNameCalls
<1>4. ASSUME NEW p \in Peers, Client(p) PROVE JobsNameCalls'
  <2>1. CASE Connect(p) \/ Logout(p) \/ \E u \in Users : BindSession(p, u)
    BY <1>3, <2>1 DEF Connect, Logout, BindSession, work
  <2>2. CASE Disconnect(p)
    BY <2>2 DEF Disconnect, JobsNameCalls, TypeOK, CallOps, RoomPhases
  <2>3. CASE RequestCreate(p)
    BY <2>3 DEF RequestCreate, Submit, JobsNameCalls, TypeOK, CallOps, RoomPhases, NoJob
  <2>4. CASE RequestOnCall(p)
    BY <2>4 DEF RequestOnCall, Submit, JobsNameCalls, TypeOK, CallOps, RoomPhases, NoJob
  <2>. QED BY <1>4, <2>1, <2>2, <2>3, <2>4 DEF Client
<1>5. ASSUME NEW p \in Peers, Statement(p) PROVE JobsNameCalls'
  <2>1. CASE ApplyCreate(p)
    BY <2>1 DEF ApplyCreate, CreateAnswered, Twins, FreeCalls, JobsNameCalls, TypeOK, Jobs
  <2>2. CASE ApplyAccept(p)
    <3>1. job[p].call \in Calls
      BY <2>2 DEF ApplyAccept, Runs, JobsNameCalls, CallOps
    <3>. QED BY <1>2, <2>2, <3>1 DEF ApplyAccept, Reply
  <2>3. CASE ApplyDecline(p)
    <3>1. job[p].call \in Calls
      BY <2>3 DEF ApplyDecline, Runs, JobsNameCalls, CallOps
    <3>. QED BY <1>2, <2>3, <3>1 DEF ApplyDecline, Reply
  <2>4. CASE ApplyHangup(p)
    <3>1. job[p].call \in Calls
      BY <2>4 DEF ApplyHangup, Runs, JobsNameCalls, CallOps
    <3>. QED BY <1>2, <2>4, <3>1 DEF ApplyHangup, EndCalls
  <2>5. CASE ApplyDisconnect(p)
    BY <1>1, <2>5 DEF ApplyDisconnect, EndCalls, RoomPhases
  <2>6. CASE ApplyMedia(p)
    <3>1. job[p].call \in Calls
      BY <2>6 DEF ApplyMedia, Runs, JobsNameCalls, CallOps
    <3>. QED BY <1>2, <2>6, <3>1 DEF ApplyMedia, Reply
  <2>. QED BY <1>5, <2>1, <2>2, <2>3, <2>4, <2>5, <2>6 DEF Statement
<1>6. ASSUME NEW p \in Peers, Media(p) PROVE JobsNameCalls'
  <2>1. CASE CreateRoom(p)
    BY <1>2, <2>1 DEF CreateRoom, JobsNameCalls, RoomPhases
  <2>2. CASE OpenTransport(p)
    BY <1>2, <2>2 DEF OpenTransport, JobsNameCalls, RoomPhases
  <2>3. CASE Rejoin(p)
    BY <1>2, <2>3 DEF Rejoin, JobsNameCalls, RoomPhases
  <2>4. CASE JoinRoom(p) \/ CloseDone(p) \/ LeaveLast(p)
    BY <1>1, <2>4 DEF JoinRoom, CloseDone, LeaveLast, RoomPhases
  <2>5. CASE Hooks(p)
    BY <2>5 DEF Hooks, JobsNameCalls, TypeOK, Jobs, CallOps, RoomPhases
  <2>6. CASE CloseSession(p)
    BY <1>3, <2>6 DEF CloseSession
  <2>. QED BY <1>6, <2>1, <2>2, <2>3, <2>4, <2>5, <2>6 DEF Media
<1>7. ASSUME NEW p \in Peers, Handler(p) PROVE JobsNameCalls'
  <2>1. CASE Begin(p)
    BY <2>1 DEF Begin, JobsNameCalls, TypeOK, RoomPhases
  <2>2. CASE Abort(p)
    BY <2>2 DEF Abort, JobsNameCalls, TypeOK, RoomPhases, CallOps, CleanupOps, NoJob
  <2>. QED BY <1>5, <1>6, <1>7, <2>1, <2>2 DEF Handler
<1>8. CASE Restart \/ OtherNodeStarts
  BY <1>3, <1>8 DEF Restart, OtherNodeStarts, JobsNameCalls, NoJob, CallOps, RoomPhases, work
<1>9. CASE UNCHANGED vars
  BY <1>3, <1>9 DEF vars
<1>. QED BY <1>4, <1>7, <1>8, <1>9 DEF Next

\* The rows, the engine's maps and the handlers keep their shape in every
\* behaviour, under every fault and every interleaving of statements.
THEOREM TypeCorrect == Spec => []TypeOK
<1>1. Init => TypeOK /\ JobsNameCalls
  BY InitTypeOK DEF Init, JobsNameCalls, NoJob, CallOps, RoomPhases
<1>2. TypeOK /\ JobsNameCalls /\ [Next]_vars => (TypeOK /\ JobsNameCalls)'
  BY NextTypeOK, NextJobsNameCalls
<1>. QED BY <1>1, <1>2, PTL DEF Spec

\* The typing invariant, for the theorems below.
Typed == TypeOK /\ JobsNameCalls

\* In every behaviour all types hold and a handler that drives the room of a
\* call has a call to drive the room of.
THEOREM AlwaysTyped == Spec => []Typed
<1>1. Init => Typed
  BY InitTypeOK DEF Init, Typed, JobsNameCalls, NoJob, CallOps, RoomPhases
<1>2. Typed /\ [Next]_vars => Typed'
  BY NextTypeOK, NextJobsNameCalls DEF Typed
<1>. QED BY <1>1, <1>2, PTL DEF Spec

-----------------------------------------------------------------------------
(* The calls: who asked for them, who is invited to them                   *)

\* A running statement targets calls that exist, and it targets every row that
\* is an invitation by now: no invitation is added to a call that exists.
SnapshotsCoverInvitations ==
    \A p \in Peers, c \in Calls : c \in seen[p].calls =>
        /\ call[c].status # "none"
        /\ \A u \in Users : part[c][u].status = "invited" => <<c, u>> \in seen[p].rows

\* A handler that creates a call works on an invitation a client sent.
CreatesAreInvites ==
    \A p \in Peers : job[p].op = "create" => [id |-> job[p].id, callee |-> job[p].callee] \in Invites

\* The callee of an invitation has a row in the call created for it, so that a
\* retried create_call does not insert one.
CalleesHaveRows ==
    \A c \in Calls, i \in Invites :
        call[c].status # "none" /\ call[c].id = i.id /\ i.id # NoId
            => part[c][i.callee].status # "none"

CallsInv == /\ OneCallPerRequestId
            /\ SnapshotsCoverInvitations
            /\ CreatesAreInvites
            /\ CalleesHaveRows
            /\ NoInvitationToAFinishedCall

\* Every step but the writing statements and the start of a statement: the rows
\* stay, snapshots are kept or dropped, and requests are kept or dropped.
LEMMA RowsUntouched ==
    ASSUME CallsInv, UNCHANGED <<call, part>>,
           \A q \in Peers : seen'[q] = seen[q] \/ seen'[q] = NoSnapshot,
           \A q \in Peers : job'[q].op = "create" =>
               [id |-> job'[q].id, callee |-> job'[q].callee] \in Invites
    PROVE  CallsInv'
<1>1. SnapshotsCoverInvitations'
  BY DEF CallsInv, SnapshotsCoverInvitations, NoSnapshot
<1>. QED BY <1>1 DEF CallsInv, OneCallPerRequestId, CreatesAreInvites, CalleesHaveRows,
                     NoInvitationToAFinishedCall

\* A handler that goes on keeps or drops its create_call request.
LEMMA ProceedKeepsCreates ==
    ASSUME TypeOK, CallsInv, NEW p \in Peers, NEW next, Proceed(p, next)
    PROVE  \A q \in Peers : job'[q].op = "create" =>
               [id |-> job'[q].id, callee |-> job'[q].callee] \in Invites
BY DEF TypeOK, Proceed, CallsInv, CreatesAreInvites, NoJob

\* A finished statement drops its own snapshot and no other.
LEMMA ForgetDropsOne ==
    ASSUME TypeOK, NEW p \in Peers, Forget(p)
    PROVE  \A q \in Peers : seen'[q] = seen[q] \/ seen'[q] = NoSnapshot
BY DEF Forget, TypeOK

\* What clients do keeps the invariant about calls.
LEMMA ClientCallsInv ==
    ASSUME TypeOK, CallsInv, NEW p \in Peers, Client(p) PROVE CallsInv'
<1>1. UNCHANGED <<call, part, seen>>
  BY DEF Client, Connect, BindSession, Logout, Disconnect, RequestCreate,
         RequestOnCall, Submit, db, work
<1>2. \A q \in Peers : job'[q].op = "create" =>
          [id |-> job'[q].id, callee |-> job'[q].callee] \in Invites
  <2>1. CASE UNCHANGED job
    BY <2>1 DEF CallsInv, CreatesAreInvites
  <2>2. CASE Disconnect(p)
    <3>1. \A q \in Peers : job'[q].op = "create" => job'[q] = job[q]
      BY <2>2 DEF Disconnect, TypeOK, Jobs
    <3>. QED BY <3>1 DEF CallsInv, CreatesAreInvites
  <2>3. CASE RequestCreate(p)
    <3>1. PICK i \in Invites : Submit(p, [NoJob EXCEPT !.op = "create", !.id = i.id, !.callee = i.callee])
      BY <2>3 DEF RequestCreate
    <3>2. i = [id |-> i.id, callee |-> i.callee]
      BY DEF Invitations
    <3>3. /\ job'[p].id = i.id /\ job'[p].callee = i.callee
          /\ \A q \in Peers \ {p} : job'[q] = job[q]
      BY <3>1 DEF Submit, TypeOK, NoJob
    <3>. QED BY <3>2, <3>3 DEF CallsInv, CreatesAreInvites
  <2>4. CASE RequestOnCall(p)
    <3>1. \A q \in Peers : job'[q].op = "create" => job'[q] = job[q]
      BY <2>4 DEF RequestOnCall, Submit, TypeOK, NoJob, CallOps
    <3>. QED BY <3>1 DEF CallsInv, CreatesAreInvites
  <2>. QED BY <2>1, <2>2, <2>3, <2>4 DEF Client, Connect, BindSession, Logout, work
<1>. QED BY <1>1, <1>2, RowsUntouched

\* What handlers do to the media engine keeps the invariant about calls.
LEMMA MediaCallsInv ==
    ASSUME TypeOK, CallsInv, NEW p \in Peers, Media(p) PROVE CallsInv'
<1>1. UNCHANGED <<call, part, seen>>
  BY DEF Media, CreateRoom, JoinRoom, OpenTransport, Rejoin, CloseSession, CloseDone,
         Hooks, LeaveLast, db
<1>2. CASE UNCHANGED job
  BY <1>1, <1>2, RowsUntouched DEF CallsInv, CreatesAreInvites
<1>3. ASSUME NEW next, Proceed(p, next) PROVE CallsInv'
  BY <1>1, <1>3, RowsUntouched, ProceedKeepsCreates
<1>4. CASE Hooks(p) /\ job' = [job EXCEPT ![p].op = "cleanup"]
  <2>1. \A q \in Peers : job'[q].op = "create" => job'[q] = job[q]
    BY <1>4 DEF TypeOK, Jobs
  <2>. QED BY <1>1, <2>1, RowsUntouched DEF CallsInv, CreatesAreInvites
<1>. QED BY <1>2, <1>3, <1>4 DEF Media, CreateRoom, JoinRoom, OpenTransport, Rejoin,
            CloseSession, CloseDone, Hooks, LeaveLast

\* The start of a statement: the snapshot targets existing calls and every row.
LEMMA BeginCallsInv ==
    ASSUME TypeOK, CallsInv, NEW p \in Peers, Begin(p) PROVE CallsInv'
<1>1. UNCHANGED <<call, part, job>> /\ \A q \in Peers \ {p} : seen'[q] = seen[q]
  BY DEF Begin, TypeOK, db
<1>2. /\ seen'[p].calls = Target(p)
      /\ seen'[p].rows = {r \in Target(p) \X Users : Participates(r[2], r[1])}
  BY DEF Begin, TypeOK, Snapshot
<1>3. \A c \in Target(p) : c \in Calls /\ call[c].status # "none"
  BY DEF Target, Affected, Requested, StatusGuard, Active
<1>4. SnapshotsCoverInvitations'
  BY <1>1, <1>2, <1>3 DEF CallsInv, SnapshotsCoverInvitations, Participates
<1>. QED BY <1>1, <1>4 DEF CallsInv, OneCallPerRequestId, CreatesAreInvites, CalleesHaveRows,
                     NoInvitationToAFinishedCall

\* createDirectCall: a retry finds the twin and, through CalleesHaveRows, adds no
\* invitation to it; without a twin the call is new.
LEMMA CreateCallsInv ==
    ASSUME TypeOK, CallsInv, NEW p \in Peers, ApplyCreate(p) PROVE CallsInv'
<1>. DEFINE twins == Twins(bound[p], job[p].id)
            new == InvitedCall(bound[p], job[p].id)
            i == [id |-> job[p].id, callee |-> job[p].callee]
<1>1. PICK k \in Calls :
        /\ IF twins # {} THEN k \in twins /\ call' = call
                         ELSE call[k].status = "none" /\ call' = [call EXCEPT ![k] = new]
        /\ part' = [part EXCEPT ![k] = [u \in Users |-> InvitedRow(p, k, u)]]
        /\ job' = [job EXCEPT ![p].call = k]
  BY DEF ApplyCreate, CreateAnswered, Twins, FreeCalls
<1>i. i \in Invites
  BY DEF CallsInv, CreatesAreInvites, ApplyCreate, CreateAnswered, Runs
<1>2. OneCallPerRequestId'
  <2>1. CASE twins # {}
    BY <1>1, <2>1 DEF CallsInv, OneCallPerRequestId
  <2>2. CASE twins = {}
    <3>1. \A d \in Calls : /\ call[d].status # "none" /\ call[d].by = bound[p]
                            /\ call[d].id = job[p].id => job[p].id = NoId
      BY <2>2 DEF Twins
    <3>2. call'[k] = new /\ \A d \in Calls \ {k} : call'[d] = call[d]
      BY <1>1, <2>2 DEF TypeOK
    <3>. QED BY <3>1, <3>2 DEF InvitedCall, CallsInv, OneCallPerRequestId
  <2>. QED BY <2>1, <2>2
<1>3. /\ \A d \in Calls : call[d].status # "none" => call'[d] = call[d]
      /\ call'[k].status # "none" /\ call'[k].id = job[p].id
      /\ \A d \in Calls \ {k} : call'[d] = call[d]
      /\ call[k].status = "none" => call'[k].status = "invited"
  BY <1>1 DEF InvitedCall, Twins, TypeOK
<1>4. /\ \A d \in Calls \ {k} : part'[d] = part[d]
      /\ \A u \in Users : part'[k][u] = InvitedRow(p, k, u)
  BY <1>1 DEF TypeOK
<1>5. \A u \in Users : part[k][u].status # "none" => part'[k][u] = part[k][u]
  BY <1>4 DEF InvitedRow
<1>6. part'[k][job[p].callee].status # "none"
  BY <1>4, <1>i DEF InvitedRow, NoRow, Invitations
<1>7. CalleesHaveRows'
  <2>. SUFFICES ASSUME NEW c \in Calls, NEW j \in Invites, call'[c].status # "none",
                       call'[c].id = j.id, j.id # NoId
                PROVE  part'[c][j.callee].status # "none"
    BY DEF CalleesHaveRows
  <2>1. j.callee \in Users
    BY DEF Invitations
  <2>2. CASE c = k
    <3>1. j = i
      BY <1>3, <1>i, <2>2, RetriesRepeatTheRequest
    <3>. QED BY <1>6, <2>2, <3>1
  <2>3. CASE c # k
    BY <1>3, <1>4, <2>3 DEF CallsInv, CalleesHaveRows
  <2>. QED BY <2>2, <2>3
<1>8. ASSUME call[k].status # "none", NEW u \in Users, part'[k][u].status = "invited"
      PROVE  part[k][u].status = "invited"
  <2>1. k \in twins
    BY <1>1, <1>8
  <2>2. part[k][job[p].callee].status # "none"
    BY <1>i, <1>8, <2>1 DEF CallsInv, CalleesHaveRows, Twins
  <2>. QED BY <1>4, <1>8, <2>2 DEF InvitedRow, NoRow
<1>9. SnapshotsCoverInvitations'
  <2>. SUFFICES ASSUME NEW q \in Peers, NEW c \in Calls, c \in seen'[q].calls
                PROVE  /\ call'[c].status # "none"
                       /\ \A u \in Users : part'[c][u].status = "invited" => <<c, u>> \in seen'[q].rows
    BY DEF SnapshotsCoverInvitations
  <2>1. seen'[q] = seen[q]
    BY ForgetDropsOne DEF ApplyCreate, CreateAnswered, NoSnapshot
  <2>2. call[c].status # "none"
    BY <2>1 DEF CallsInv, SnapshotsCoverInvitations
  <2>. QED BY <1>3, <1>4, <1>8, <2>1, <2>2 DEF CallsInv, SnapshotsCoverInvitations
<1>10. NoInvitationToAFinishedCall'
  <2>. SUFFICES ASSUME NEW c \in Calls, NEW u \in Users, call'[c].status \in Over,
                       part'[c][u].status = "invited"
                PROVE  FALSE
    BY DEF NoInvitationToAFinishedCall
  <2>1. call[c].status \in Over
    BY <1>3 DEF Over
  <2>. QED BY <1>4, <1>8, <2>1 DEF CallsInv, NoInvitationToAFinishedCall, Over
<1>11. CreatesAreInvites'
  <2>1. \A q \in Peers : /\ job'[q].op = job[q].op /\ job'[q].id = job[q].id
                          /\ job'[q].callee = job[q].callee
    BY <1>1 DEF TypeOK, Jobs
  <2>. QED BY <2>1 DEF CallsInv, CreatesAreInvites
<1>. QED BY <1>2, <1>7, <1>9, <1>10, <1>11 DEF CallsInv

\* A statement that stamps the calls it targeted: the other calls stay, and no
\* row becomes an invitation or disappears.
LEMMA StampCallsInv ==
    ASSUME TypeOK, CallsInv, NEW p \in Peers, NEW s \in CallStatus \ {"none", "invited"},
           call' = Stamped(p, s),
           \A c \in Calls, u \in Users :
               \/ part'[c][u] = part[c][u]
               \/ part'[c][u].status \notin {"none", "invited"},
           s \in Over => \A c \in Calls, u \in Users :
               <<c, u>> \in seen[p].rows => part'[c][u].status # "invited",
           \A q \in Peers : \/ seen'[q] = NoSnapshot
                            \/ seen'[q].calls = seen[q].calls /\ seen'[q].rows = seen[q].rows,
           \A q \in Peers : job'[q].op = "create" =>
               [id |-> job'[q].id, callee |-> job'[q].callee] \in Invites
    PROVE  CallsInv'
<1>1. \A c \in Calls : c \in seen[p].calls => call[c].status # "none"
  BY DEF CallsInv, SnapshotsCoverInvitations
<1>2. \A c \in Calls : /\ call'[c].by = call[c].by /\ call'[c].id = call[c].id
                       /\ call'[c].status = IF c \in seen[p].calls THEN s ELSE call[c].status
  <2>. SUFFICES ASSUME NEW c \in Calls
                PROVE  /\ call'[c].by = call[c].by /\ call'[c].id = call[c].id
                       /\ call'[c].status = IF c \in seen[p].calls THEN s ELSE call[c].status
    OBVIOUS
  <2>1. call[c] \in CallRows
    BY DEF TypeOK
  <2>2. CASE c \in seen[p].calls
    <3>1. call'[c] = [call[c] EXCEPT !.status = s, !.answerer = Answerer(p, s)]
      BY <2>2 DEF Stamped
    <3>. QED BY <2>1, <2>2, <3>1 DEF CallRows
  <2>3. CASE c \notin seen[p].calls
    BY <2>3 DEF Stamped
  <2>. QED BY <2>2, <2>3
<1>3. OneCallPerRequestId'
  BY <1>1, <1>2 DEF CallsInv, OneCallPerRequestId
<1>4. SnapshotsCoverInvitations'
  BY <1>2 DEF CallsInv, SnapshotsCoverInvitations, NoSnapshot
<1>5. CreatesAreInvites'
  BY DEF CreatesAreInvites
<1>6. CalleesHaveRows'
  <2>1. \A i \in Invites : i.callee \in Users
    BY DEF Invitations
  <2>. QED BY <1>1, <1>2, <2>1 DEF CallsInv, CalleesHaveRows
<1>7. NoInvitationToAFinishedCall'
  <2>. SUFFICES ASSUME NEW c \in Calls, NEW u \in Users, call'[c].status \in Over,
                       part'[c][u].status = "invited"
                PROVE  FALSE
    BY DEF NoInvitationToAFinishedCall
  <2>1. part[c][u].status = "invited"
    OBVIOUS
  <2>2. CASE c \in seen[p].calls
    <3>1. <<c, u>> \in seen[p].rows
      BY <2>1, <2>2 DEF CallsInv, SnapshotsCoverInvitations
    <3>. QED BY <1>2, <2>2, <3>1
  <2>3. CASE c \notin seen[p].calls
    BY <1>2, <2>1, <2>3 DEF CallsInv, NoInvitationToAFinishedCall
  <2>. QED BY <2>2, <2>3
<1>. QED BY <1>3, <1>4, <1>5, <1>6, <1>7 DEF CallsInv

\* A participant row whose status is set has that status.
LEMMA StatusOfUpdatedRow ==
    ASSUME TypeOK, NEW c \in Calls, NEW u \in Users, NEW s, NEW q
    PROVE  /\ [part[c][u] EXCEPT !.status = s].status = s
           /\ [part[c][u] EXCEPT !.status = s, !.joined = q].status = s
<1>1. part[c][u] \in PartRows
  BY DEF TypeOK
<1>. QED BY <1>1 DEF PartRows

\* hangupDirectCall and the disconnect cleanup keep the invariant about calls.
LEMMA EndCallsCallsInv ==
    ASSUME TypeOK, CallsInv, NEW p \in Peers, NEW next, EndCalls(p, next) PROVE CallsInv'
<1>1. call' = Stamped(p, "ended") /\ "ended" \in CallStatus \ {"none", "invited"}
  BY DEF EndCalls, CallStatus, Over
<1>2. \A c \in Calls, u \in Users :
        IF <<c, u>> \in seen[p].rows THEN part'[c][u].status = "ended"
                                    ELSE part'[c][u] = part[c][u]
  <2>. SUFFICES ASSUME NEW c \in Calls, NEW u \in Users
                PROVE  IF <<c, u>> \in seen[p].rows THEN part'[c][u].status = "ended"
                                                   ELSE part'[c][u] = part[c][u]
    OBVIOUS
  <2>1. part'[c][u] = IF <<c, u>> \in seen[p].rows
                      THEN [part[c][u] EXCEPT !.status = "ended"] ELSE part[c][u]
    BY DEF EndCalls, Targeted
  <2>. QED BY <2>1, StatusOfUpdatedRow
<1>3. \A q \in Peers : \/ seen'[q] = NoSnapshot
                       \/ seen'[q].calls = seen[q].calls /\ seen'[q].rows = seen[q].rows
  BY DEF EndCalls, TypeOK, Snapshots
<1>4. \A q \in Peers : job'[q].op = "create" =>
          [id |-> job'[q].id, callee |-> job'[q].callee] \in Invites
  BY ProceedKeepsCreates DEF EndCalls
<1>. QED BY <1>1, <1>2, <1>3, <1>4, StampCallsInv

\* Every statement keeps the invariant about calls.
LEMMA StatementCallsInv ==
    ASSUME TypeOK, CallsInv, NEW p \in Peers, Statement(p) PROVE CallsInv'
<1>1. ASSUME NEW next, Reply(p, next)
      PROVE  \A q \in Peers : job'[q].op = "create" =>
                 [id |-> job'[q].id, callee |-> job'[q].callee] \in Invites
  BY <1>1, ProceedKeepsCreates DEF Reply
<1>2. CASE ApplyAccept(p)
  <2>1. \A c \in Calls, u \in Users :
          part'[c][u] = part[c][u] \/ part'[c][u].status = "accepted"
    <3>. SUFFICES ASSUME NEW c \in Calls, NEW u \in Users
                  PROVE  part'[c][u] = part[c][u] \/ part'[c][u].status = "accepted"
      OBVIOUS
    <3>1. \/ part'[c][u] = part[c][u]
          \/ part'[c][u] = [part[c][u] EXCEPT !.status = "accepted", !.joined = p]
      <4>1. part'[c][u] = IF Targeted(p, c, u) /\ u = bound[p] /\ seen[p].up
                          THEN AcceptedRow(p, part[c][u]) ELSE part[c][u]
        BY <1>2 DEF ApplyAccept
      <4>. QED BY <4>1 DEF AcceptedRow
    <3>2. [part[c][u] EXCEPT !.status = "accepted", !.joined = p].status = "accepted"
      BY StatusOfUpdatedRow
    <3>. QED BY <3>1, <3>2
  <2>2. call' = Stamped(p, "accepted") /\ "accepted" \in CallStatus \ {"none", "invited"}
        /\ "accepted" \notin Over
    BY <1>2 DEF ApplyAccept, CallStatus, Active, Over
  <2>3. \A q \in Peers : seen'[q] = seen[q] \/ seen'[q] = NoSnapshot
    BY <1>2, ForgetDropsOne DEF ApplyAccept
  <2>. QED BY <1>1, <1>2, <2>1, <2>2, <2>3, StampCallsInv DEF ApplyAccept
<1>3. CASE ApplyDecline(p)
  <2>1. \A c \in Calls, u \in Users :
          IF <<c, u>> \in seen[p].rows THEN part'[c][u].status \in Over
                                      ELSE part'[c][u] = part[c][u]
    <3>. SUFFICES ASSUME NEW c \in Calls, NEW u \in Users
                  PROVE  IF <<c, u>> \in seen[p].rows THEN part'[c][u].status \in Over
                                                     ELSE part'[c][u] = part[c][u]
      OBVIOUS
    <3>1. part'[c][u] = IF <<c, u>> \in seen[p].rows
                        THEN [part[c][u] EXCEPT !.status = DeclinedStatus(p, u, part[c][u].status)]
                        ELSE part[c][u]
      BY <1>3 DEF ApplyDecline, Targeted
    <3>2. DeclinedStatus(p, u, part[c][u].status) \in Over
      BY DEF DeclinedStatus, Over
    <3>. QED BY <3>1, <3>2, StatusOfUpdatedRow
  <2>2. call' = Stamped(p, "declined") /\ "declined" \in CallStatus \ {"none", "invited"}
        /\ \A t \in Over : t \notin {"none", "invited"}
    BY <1>3 DEF ApplyDecline, CallStatus, Over
  <2>3. \A q \in Peers : seen'[q] = seen[q] \/ seen'[q] = NoSnapshot
    BY <1>3, ForgetDropsOne DEF ApplyDecline
  <2>. QED BY <1>1, <1>3, <2>1, <2>2, <2>3, StampCallsInv DEF ApplyDecline
<1>4. CASE ApplyMedia(p)
  BY <1>1, <1>4, ForgetDropsOne, RowsUntouched DEF ApplyMedia, db
<1>. QED BY <1>2, <1>3, <1>4, CreateCallsInv, EndCallsCallsInv
         DEF Statement, ApplyHangup, ApplyDisconnect

\* Every step keeps the invariant about calls.
LEMMA NextCallsInv ==
    ASSUME TypeOK, CallsInv, [Next]_vars PROVE CallsInv'
<1>1. ASSUME NEW p \in Peers, Abort(p) PROVE CallsInv'
  <2>1. \A q \in Peers : job'[q] = job[q] \/ job'[q] = NoJob
    BY <1>1 DEF Abort, TypeOK
  <2>. QED BY <1>1, <2>1, RowsUntouched DEF Abort, db, CallsInv, CreatesAreInvites, NoJob
<1>2. CASE Restart
  BY <1>2, RowsUntouched DEF Restart, NoJob
<1>3. CASE OtherNodeStarts \/ UNCHANGED vars
  BY <1>3, RowsUntouched DEF OtherNodeStarts, vars, work, CallsInv, CreatesAreInvites
<1>. QED BY <1>1, <1>2, <1>3, ClientCallsInv, BeginCallsInv, StatementCallsInv, MediaCallsInv
         DEF Next, Handler

\* The inductive invariant about calls: request ids are unique, and a statement that
\* targets a call covers each of its invitations, so none survives the end of the call.
THEOREM CallsInvariant == Spec => []CallsInv
<1>1. Init => CallsInv
  BY DEF Init, NoCallRow, CallsInv, OneCallPerRequestId, SnapshotsCoverInvitations, CreatesAreInvites,
         CalleesHaveRows, NoInvitationToAFinishedCall, NoSnapshot, NoJob, Over
<1>2. Typed /\ CallsInv /\ [Next]_vars => CallsInv'
  BY NextCallsInv DEF Typed
<1>. QED BY <1>1, <1>2, AlwaysTyped, PTL DEF Spec

\* Retries of create_call, by clients or by the pool after a lost reply, never
\* make a second call for one caller and request id.
THEOREM RetriesCreateOneCall == Spec => []OneCallPerRequestId
BY CallsInvariant, PTL DEF CallsInv

\* No interleaving of statements leaves an invitation in a call that is over.
THEOREM FinishedCallsHaveNoInvitation == Spec => []NoInvitationToAFinishedCall
BY CallsInvariant, PTL DEF CallsInv

-----------------------------------------------------------------------------
(* The engine's two views of who is where                                  *)

\* A leave keeps the two maps of the engine in agreement.
LEMMA EnginePlaces ==
    ASSUME TypeOK, PlacedPeersAreMembers, NEW q \in Peers, NEW c \in Calls,
           \/ EngineCreate(c)
           \/ c \in rooms /\ EngineJoin(q, c)
           \/ EngineLeave(q, c)
           \/ UNCHANGED engine
    PROVE  PlacedPeersAreMembers'
<1>1. CASE EngineCreate(c)
  BY <1>1 DEF EngineCreate, PlacedPeersAreMembers
<1>2. CASE c \in rooms /\ EngineJoin(q, c)
  BY <1>2 DEF EngineJoin, PlacedPeersAreMembers, TypeOK, EngineTypeOK
<1>3. CASE q \in members[c] /\ EngineLeave(q, c)
  <2>. SUFFICES ASSUME NEW p \in Peers, roomOf'[p] # NoCall
                PROVE  p \in members'[roomOf'[p]] /\ roomOf'[p] \in rooms'
    BY DEF PlacedPeersAreMembers
  <2>1. p # q /\ roomOf'[p] = roomOf[p]
    BY <1>3 DEF EngineLeave, TypeOK, engine, EngineTypeOK, sfu
  <2>2. p \in members[roomOf[p]] /\ roomOf[p] \in rooms
    BY <2>1 DEF PlacedPeersAreMembers
  <2>3. p \in members'[roomOf[p]]
    BY <1>3, <2>1, <2>2 DEF EngineLeave, TypeOK, engine, EngineTypeOK, sfu
  <2>4. roomOf[p] \in rooms'
    BY <1>3, <2>1, <2>2 DEF EngineLeave, TypeOK, engine
  <2>. QED BY <2>1, <2>3, <2>4
<1>4. CASE UNCHANGED engine
  BY <1>4 DEF engine, PlacedPeersAreMembers
<1>. QED BY <1>1, <1>2, <1>3, <1>4 DEF EngineLeave, engine, sfu

\* The disconnect hook keeps the two maps of the engine in agreement.
LEMMA EngineDisconnectPlaces ==
    ASSUME TypeOK, PlacedPeersAreMembers, NEW p \in Peers,
           EngineDisconnect(p) \/ UNCHANGED engine
    PROVE  PlacedPeersAreMembers'
<1>1. CASE UNCHANGED engine
  BY <1>1 DEF engine, PlacedPeersAreMembers
<1>2. CASE roomOf[p] # NoCall /\ EngineLeave(p, roomOf[p])
  BY <1>2, EnginePlaces DEF TypeOK, EngineTypeOK
<1>. QED BY <1>1, <1>2 DEF EngineDisconnect, BackendFails, engine, sfu

\* Every step keeps the two maps of the engine in agreement.
LEMMA NextPlaces ==
    ASSUME TypeOK, JobsNameCalls, PlacedPeersAreMembers, [Next]_vars
    PROVE  PlacedPeersAreMembers'
<1>1. CASE UNCHANGED engine
  BY <1>1 DEF engine, PlacedPeersAreMembers
<1>2. ASSUME NEW p \in Peers, CreateRoom(p) \/ JoinRoom(p) \/ Rejoin(p)
      PROVE  PlacedPeersAreMembers'
  <2>1. job[p].call \in Calls
    BY <1>2 DEF CreateRoom, JoinRoom, Rejoin, JobsNameCalls, RoomPhases
  <2>. QED BY <1>2, <2>1, EnginePlaces DEF CreateRoom, JoinRoom, EngineTryJoin, Rejoin,
             BackendFails, engine, sfu
<1>3. ASSUME NEW p \in Peers, CloseSession(p) PROVE PlacedPeersAreMembers'
  <2>1. PICK r \in closing[p] : EngineLeave(r[1], r[2]) \/ UNCHANGED engine
    BY <1>3 DEF CloseSession, EngineClose, BackendFails, engine, sfu
  <2>2. r[1] \in Peers /\ r[2] \in Calls
    BY <2>1 DEF TypeOK
  <2>. QED BY <2>1, <2>2, EnginePlaces
<1>4. ASSUME NEW p \in Peers, Hooks(p) \/ LeaveLast(p) PROVE PlacedPeersAreMembers'
  BY <1>4, EngineDisconnectPlaces DEF Hooks, LeaveLast
<1>5. CASE Restart
  BY <1>5 DEF Restart, PlacedPeersAreMembers
<1>6. ASSUME NEW p \in Peers, Client(p) \/ Begin(p) \/ Abort(p) \/ Statement(p)
      PROVE  UNCHANGED engine
  <2>1. CASE Client(p)
    BY <2>1 DEF Client, Connect, BindSession, Logout, Disconnect, RequestCreate, RequestOnCall, Submit
  <2>2. CASE Statement(p)
    BY <2>2 DEF Statement, ApplyCreate, CreateAnswered, ApplyAccept, ApplyDecline, ApplyHangup,
                ApplyDisconnect, EndCalls, ApplyMedia
  <2>. QED BY <1>6, <2>1, <2>2 DEF Begin, Abort
<1>7. ASSUME NEW p \in Peers, OpenTransport(p) \/ CloseDone(p) PROVE UNCHANGED engine
  BY <1>7 DEF OpenTransport, CloseDone
<1>8. CASE OtherNodeStarts \/ UNCHANGED vars
  BY <1>1, <1>8 DEF OtherNodeStarts, vars, engine
<1>. QED BY <1>1, <1>2, <1>3, <1>4, <1>5, <1>6, <1>7, <1>8 DEF Next, Handler, Media

\* MediasoupSfuEngine's peers_ and rooms_ agree on where a peer is, so that the
\* disconnect of a peer finds its room.
THEOREM EngineMapsAgree == Spec => []PlacedPeersAreMembers
<1>1. Init => PlacedPeersAreMembers
  BY DEF Init, EngineInit, PlacedPeersAreMembers
<1>2. Typed /\ PlacedPeersAreMembers /\ [Next]_vars => PlacedPeersAreMembers'
  BY NextPlaces DEF Typed
<1>. QED BY <1>1, <1>2, AlwaysTyped, PTL DEF Spec
=============================================================================
