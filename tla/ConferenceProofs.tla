-------------------------- MODULE ConferenceProofs --------------------------
(***************************************************************************)
(* What holds of Conference for every set of connections, accounts and     *)
(* conferences, every pool size and every set of faults.                   *)
(***************************************************************************)
EXTENDS Conference, TLAPS

USE ConstantsAssumption

-----------------------------------------------------------------------------
(* Typing                                                                  *)

\* A handler that drives the room of a conference has a conference to drive.
RoomPhases == {"thrown", "create_room", "join_room", "leave", "open", "rejoin", "recreate"}
JobsNameConfs == \A p \in Peers : phase[p] \in RoomPhases => job[p].conf \in Confs

Typed == TypeOK /\ JobsNameConfs

\* The initial state has the typed shape.
LEMMA InitTyped == Init => Typed
<1>1. NoSnapshot \in Snapshots
  BY DEF NoSnapshot, Snapshots
<1>2. NoJob \in Jobs
  BY DEF NoJob, Jobs
<1>3. "idle" \in Phases \ RoomPhases
  BY DEF Phases, RoomPhases
<1>. QED BY <1>1, <1>2, <1>3 DEF Init, EngineInit, Typed, TypeOK, EngineTypeOK, NoMembers, JobsNameConfs

\* What a statement reads when it starts is a snapshot of the declared shape.
LEMMA SnapshotType ==
    ASSUME TypeOK, NEW p \in Peers PROVE Snapshot(p) \in Snapshots
<1>1. Requested(p) \in SUBSET Confs
  BY DEF Requested
<1>2. Target(p) \in SUBSET Confs
  BY <1>1 DEF Target
<1>. QED BY <1>2 DEF Snapshot, Snapshots

\* A handler moves to a known phase with a well-formed request, and to a phase
\* that drives a room only if it has one.
LEMMA ProceedTyped ==
    ASSUME Typed, NEW p \in Peers, NEW next \in Phases, Proceed(p, next),
           next \in RoomPhases => job[p].conf \in Confs
    PROVE  /\ phase' \in [Peers -> Phases] /\ job' \in [Peers -> Jobs]
           /\ JobsNameConfs'
<1>1. NoJob \in Jobs
  BY DEF NoJob, Jobs
<1>2. phase' \in [Peers -> Phases] /\ job' \in [Peers -> Jobs]
  BY <1>1 DEF Proceed, Typed, TypeOK
<1>3. JobsNameConfs'
  <2>. SUFFICES ASSUME NEW q \in Peers, phase'[q] \in RoomPhases PROVE job'[q].conf \in Confs
    BY DEF JobsNameConfs
  <2>1. CASE q = p
    BY <2>1 DEF Proceed, Typed, TypeOK, RoomPhases
  <2>2. CASE q # p
    BY <2>2 DEF Proceed, Typed, TypeOK, JobsNameConfs
  <2>. QED BY <2>1, <2>2
<1>. QED BY <1>2, <1>3

\* So does a statement that answers, or runs again after a lost reply.
LEMMA ReplyTyped ==
    ASSUME Typed, NEW p \in Peers, NEW next \in Phases, NEW Q \in SUBSET (Peers \X Confs),
           Reply(p, next, Q), next \in RoomPhases => job[p].conf \in Confs
    PROVE  /\ phase' \in [Peers -> Phases] /\ job' \in [Peers -> Jobs]
           /\ JobsNameConfs' /\ closing' \in [Peers -> SUBSET (Peers \X Confs)]
<1>1. "queued" \in Phases \ RoomPhases
  BY DEF Phases, RoomPhases
<1>2. PICK n \in Phases : Proceed(p, n) /\ (n \in RoomPhases => job[p].conf \in Confs)
  BY <1>1 DEF Reply
<1>3. closing' \in [Peers -> SUBSET (Peers \X Confs)]
  BY DEF Reply, Typed, TypeOK
<1>. QED BY <1>2, <1>3, ProceedTyped

\* The row writes of a statement keep the shape of the rows.
LEMMA WriteTyped ==
    ASSUME TypeOK, NEW p \in Peers, NEW m \in [Confs -> [Users -> {"none", "joined", "left"}]],
           NEW s \in [Confs -> SUBSET Peers], NEW D \in SUBSET Confs, Write(p, m, s, D)
    PROVE  /\ conn' = conn /\ up' = up
           /\ owner' \in [Confs -> Users \cup {NoUser}]
           /\ mem' \in [Confs -> [Users -> {"none", "joined", "left"}]]
           /\ csess' \in [Confs -> SUBSET Peers]
           /\ alloc' \in SUBSET Confs
           /\ EngineTypeOK'
           /\ seen' \in [Peers -> Snapshots]
<1>1. NoSnapshot \in Snapshots
  BY DEF NoSnapshot, Snapshots
<1>2. \A r \in Snapshots : [r EXCEPT !.gone = @ \cup (D \cap r.confs)] \in Snapshots
  BY DEF Snapshots
<1>3. seen' \in [Peers -> Snapshots]
  BY <1>1, <1>2 DEF Write, TypeOK
<1>4. mem' \in [Confs -> [Users -> {"none", "joined", "left"}]]
  BY DEF Write, NoMembers
<1>5. csess' \in [Confs -> SUBSET Peers]
  BY DEF Write
<1>. QED BY <1>3, <1>4, <1>5 DEF Write, TypeOK, EngineTypeOK, engine

\* A room is asked for only in the name of a conference of the declared set.
LEMMA RequestNamesConf ==
    ASSUME Typed, NEW p \in Peers
    PROVE  /\ job[p].op \in ConfOps => job[p].conf \in Confs
           /\ seen[p] \in Snapshots
           /\ Live(p) \in SUBSET Confs
BY DEF Typed, TypeOK, Jobs, ConfOps, CleanupOps, Live, Snapshots

\* Entering and leaving a conference keep the shape of its rows.
LEMMA RowsTyped ==
    ASSUME Typed, NEW p \in Peers
    PROVE  /\ \A c \in Confs : Entered(p, c) \in [Confs -> [Users -> {"none", "joined", "left"}]]
           /\ \A c \in Confs : Opened(p, c) \in [Confs -> SUBSET Peers]
           /\ Departed(p) \in [Confs -> [Users -> {"none", "joined", "left"}]]
           /\ Closed(p) \in [Confs -> SUBSET Peers]
<1>1. \A c \in Confs : Entered(p, c) \in [Confs -> [Users -> {"none", "joined", "left"}]]
  BY DEF Typed, TypeOK, Entered, Actor
<1>2. \A c \in Confs : Opened(p, c) \in [Confs -> SUBSET Peers]
  BY DEF Typed, TypeOK, Opened
<1>3. Departed(p) \in [Confs -> [Users -> {"none", "joined", "left"}]]
  BY DEF Typed, TypeOK, Departed, Actor
<1>4. Closed(p) \in [Confs -> SUBSET Peers]
  BY DEF Typed, TypeOK, Closed
<1>. QED BY <1>1, <1>2, <1>3, <1>4

\* Every statement keeps the types.
LEMMA StatementTyped ==
    ASSUME Typed, NEW p \in Peers, Statement(p) PROVE Typed'
<1>p. {"create_room", "join_room", "idle", "thrown", "leave", "close_peers", "open",
       "leave_room"} \subseteq Phases
  BY DEF Phases
<1>r. /\ seen[p].peers \in SUBSET (Peers \X Confs)
      /\ {p} \X seen[p].confs \in SUBSET (Peers \X Confs)
  <2>1. seen[p].peers \in SUBSET (Peers \X Confs) /\ seen[p].confs \in SUBSET Confs
    BY DEF Typed, TypeOK, Snapshots
  <2>. QED BY <2>1
<1>m. mem \in [Confs -> [Users -> {"none", "joined", "left"}]] /\ csess \in [Confs -> SUBSET Peers]
  BY DEF Typed, TypeOK
<1>t. TypeOK
  BY DEF Typed
<1>1. CASE ApplyCreate(p)
  <2>1. job[p].conf \in Confs
    BY <1>1, RequestNamesConf DEF ApplyCreate, Runs, ConfOps
  <2>2. /\ mem' \in [Confs -> [Users -> {"none", "joined", "left"}]]
        /\ csess' \in [Confs -> SUBSET Peers]
    BY <1>1, <2>1, RowsTyped DEF ApplyCreate
  <2>3. owner' \in [Confs -> Users \cup {NoUser}] /\ alloc' \in SUBSET Confs
    BY <1>1, <2>1 DEF ApplyCreate, Typed, TypeOK, Actor
  <2>4. seen' \in [Peers -> Snapshots]
    BY <1>1 DEF ApplyCreate, Typed, TypeOK, NoSnapshot, Snapshots
  <2>5. /\ phase' \in [Peers -> Phases] /\ job' \in [Peers -> Jobs]
        /\ JobsNameConfs' /\ closing' \in [Peers -> SUBSET (Peers \X Confs)]
    BY <1>1, <1>p, <2>1, ReplyTyped DEF ApplyCreate
  <2>. QED BY <1>1, <2>2, <2>3, <2>4, <2>5 DEF ApplyCreate, Typed, TypeOK, EngineTypeOK, engine
<1>2. ASSUME NEW m \in [Confs -> [Users -> {"none", "joined", "left"}]],
             NEW s \in [Confs -> SUBSET Peers], NEW D \in SUBSET Confs, Write(p, m, s, D),
             NEW next \in Phases, NEW Q \in SUBSET (Peers \X Confs), Reply(p, next, Q),
             next \in RoomPhases => job[p].conf \in Confs
      PROVE  Typed'
  <2>1. /\ phase' \in [Peers -> Phases] /\ job' \in [Peers -> Jobs]
        /\ JobsNameConfs' /\ closing' \in [Peers -> SUBSET (Peers \X Confs)]
    BY <1>2, ReplyTyped
  <2>2. /\ conn' = conn /\ up' = up
        /\ owner' \in [Confs -> Users \cup {NoUser}]
        /\ mem' \in [Confs -> [Users -> {"none", "joined", "left"}]]
        /\ csess' \in [Confs -> SUBSET Peers]
        /\ alloc' \in SUBSET Confs /\ EngineTypeOK' /\ seen' \in [Peers -> Snapshots]
    BY <1>2, <1>t, WriteTyped
  <2>. QED BY <2>1, <2>2 DEF Typed, TypeOK
<1>3. CASE ApplyJoin(p)
  <2>1. job[p].conf \in Confs
    BY <1>3, RequestNamesConf DEF ApplyJoin, Runs, ConfOps
  <2>2. WithRoom(p, "join_room") \in Phases
    BY <1>p DEF WithRoom
  <2>3. CASE job[p].conf \in Live(p)
    <3>1. /\ Entered(p, job[p].conf) \in [Confs -> [Users -> {"none", "joined", "left"}]]
          /\ Opened(p, job[p].conf) \in [Confs -> SUBSET Peers]
          /\ {} \in SUBSET Confs /\ {} \in SUBSET (Peers \X Confs)
      BY <2>1, RowsTyped
    <3>2. /\ Write(p, Entered(p, job[p].conf), Opened(p, job[p].conf), {})
          /\ Reply(p, WithRoom(p, "join_room"), {})
      BY <1>3, <2>3 DEF ApplyJoin
    <3>. QED BY <1>2, <2>1, <2>2, <3>1, <3>2
  <2>4. CASE job[p].conf \notin Live(p) /\ Reply(p, WithRoom(p, "join_room"), {})
    <3>1. Write(p, mem, csess, {})
      BY <1>3, <2>4 DEF ApplyJoin
    <3>2. {} \in SUBSET Confs /\ {} \in SUBSET (Peers \X Confs)
      OBVIOUS
    <3>. QED BY <1>2, <1>m, <2>1, <2>2, <2>4, <3>1, <3>2
  <2>5. CASE job[p].conf \notin Live(p) /\ Proceed(p, "idle") /\ UNCHANGED closing
    <3>1. phase' \in [Peers -> Phases] /\ job' \in [Peers -> Jobs] /\ JobsNameConfs'
      BY <1>p, <2>1, <2>5, ProceedTyped
    <3>2. Write(p, mem, csess, {})
      BY <1>3, <2>5 DEF ApplyJoin
    <3>3. /\ conn' = conn /\ up' = up
          /\ owner' \in [Confs -> Users \cup {NoUser}]
          /\ mem' \in [Confs -> [Users -> {"none", "joined", "left"}]]
          /\ csess' \in [Confs -> SUBSET Peers]
          /\ alloc' \in SUBSET Confs /\ EngineTypeOK' /\ seen' \in [Peers -> Snapshots]
      BY <3>2, <1>m, <1>t, WriteTyped
    <3>. QED BY <2>5, <3>1, <3>3 DEF Typed, TypeOK
  <2>. QED BY <1>3, <2>3, <2>4, <2>5 DEF ApplyJoin
<1>4. CASE ApplyClose(p)
  <2>1. job[p].conf \in Confs
    BY <1>4, RequestNamesConf DEF ApplyClose, Runs, ConfOps
  <2>2. WithRoom(p, "close_peers") \in Phases
    BY <1>p DEF WithRoom
  <2>3. PICK next \in Phases, Q \in SUBSET (Peers \X Confs) : Reply(p, next, Q)
    BY <1>4, <1>p, <1>r, <2>2 DEF ApplyClose
  <2>4. Write(p, mem, csess, Live(p))
    BY <1>4 DEF ApplyClose
  <2>. QED BY <1>2, <1>m, <2>1, <2>3, <2>4, RequestNamesConf
<1>5. CASE ApplyLeave(p)
  <2>1. job[p].conf \in Confs
    BY <1>5, RequestNamesConf DEF ApplyLeave, Runs, ConfOps
  <2>2. PICK next \in Phases : Reply(p, next, {})
    BY <1>5, <1>p DEF ApplyLeave, WithRoom
  <2>3. Live(p) \cap seen[p].empty \in SUBSET Confs
    BY RequestNamesConf
  <2>4. Write(p, Departed(p), Closed(p), Live(p) \cap seen[p].empty)
    BY <1>5 DEF ApplyLeave
  <2>5. {} \in SUBSET (Peers \X Confs)
    OBVIOUS
  <2>. QED BY <1>2, <2>1, <2>2, <2>3, <2>4, <2>5, RowsTyped
<1>6. CASE ApplyDisconnect(p)
  <2>1. "leave_room" \notin RoomPhases
    BY DEF RoomPhases
  <2>2. Live(p) \cap seen[p].empty \in SUBSET Confs
    BY RequestNamesConf
  <2>3. /\ Write(p, Departed(p), Closed(p), Live(p) \cap seen[p].empty)
        /\ Reply(p, "leave_room", {})
    BY <1>6 DEF ApplyDisconnect
  <2>4. {} \in SUBSET (Peers \X Confs)
    OBVIOUS
  <2>. QED BY <1>2, <1>p, <2>1, <2>2, <2>3, <2>4, RowsTyped
<1>7. CASE ApplyMedia(p)
  <2>1. job[p].conf \in Confs
    BY <1>7, RequestNamesConf DEF ApplyMedia, ConfOps
  <2>2. PICK next \in Phases, Q \in SUBSET (Peers \X Confs) : Reply(p, next, Q)
    BY <1>7, <1>p, <1>r DEF ApplyMedia, WithRoom
  <2>3. Write(p, mem, csess, {})
    BY <1>7 DEF ApplyMedia
  <2>4. {} \in SUBSET Confs
    OBVIOUS
  <2>. QED BY <1>2, <1>m, <2>1, <2>2, <2>3, <2>4
<1>. QED BY <1>1, <1>3, <1>4, <1>5, <1>6, <1>7 DEF Statement

\* The media engine keeps the types of its maps.
LEMMA EngineTyped ==
    ASSUME Typed, NEW q \in Peers, NEW c \in Confs,
           EngineCreate(c) \/ EngineJoin(q, c) \/ EngineLeave(q, c) \/ UNCHANGED engine
    PROVE  EngineTypeOK'
<1>1. CASE EngineCreate(c)
  BY <1>1 DEF Typed, TypeOK, EngineTypeOK, EngineCreate
<1>2. CASE EngineJoin(q, c)
  BY <1>2 DEF Typed, TypeOK, EngineTypeOK, EngineJoin
<1>3. CASE UNCHANGED engine
  BY <1>3 DEF Typed, TypeOK, EngineTypeOK, engine
<1>4. CASE q \in members[c] /\ EngineLeave(q, c)
  <2>0. /\ members' = [members EXCEPT ![c] = @ \ {q}]
        /\ roomOf' = [roomOf EXCEPT ![q] = NoConf]
        /\ rooms' = IF members[c] = {q} THEN rooms \ {c} ELSE rooms
    BY <1>4 DEF EngineLeave
  <2>1. members' \in [Confs -> SUBSET Peers]
    BY <2>0 DEF Typed, TypeOK, EngineTypeOK
  <2>2. roomOf' \in [Peers -> Confs \cup {NoConf}]
    BY <2>0 DEF Typed, TypeOK, EngineTypeOK
  <2>3. rooms' \in SUBSET Confs
    BY <2>0 DEF Typed, TypeOK, EngineTypeOK
  <2>. QED BY <2>1, <2>2, <2>3 DEF EngineTypeOK
<1>. QED BY <1>1, <1>2, <1>3, <1>4 DEF EngineLeave, engine, sfu

\* So does the engine's disconnect hook.
LEMMA EngineDisconnectTyped ==
    ASSUME Typed, NEW p \in Peers, EngineDisconnect(p) \/ UNCHANGED engine
    PROVE  EngineTypeOK'
<1>1. CASE UNCHANGED engine
  BY <1>1 DEF Typed, TypeOK, EngineTypeOK, engine
<1>2. CASE roomOf[p] # NoConf /\ EngineLeave(p, roomOf[p])
  <2>1. roomOf[p] \in Confs
    BY <1>2 DEF Typed, TypeOK, EngineTypeOK
  <2>. QED BY <1>2, <2>1, EngineTyped
<1>. QED BY <1>1, <1>2 DEF EngineDisconnect, BackendFails, engine, sfu

\* Every step of a handler towards the media engine keeps the types.
LEMMA MediaTyped ==
    ASSUME Typed, NEW p \in Peers, Media(p) PROVE Typed'
<1>p. {"queued", "idle", "join_room", "close_peers", "rejoin", "recreate",
       "leave_room"} \subseteq Phases
  BY DEF Phases
<1>c. phase[p] \in RoomPhases => job[p].conf \in Confs
  BY DEF Typed, JobsNameConfs
<1>1. ASSUME NEW next \in Phases, Proceed(p, next), next \in RoomPhases => job[p].conf \in Confs,
             UNCHANGED <<up, db, seen, closing>>, EngineTypeOK',
             conn' \in [Peers -> {"new", "open", "closing", "closed", "lost"}]
      PROVE  Typed'
  BY <1>1, ProceedTyped DEF Typed, TypeOK, db
<1>t. conn \in [Peers -> {"new", "open", "closing", "closed", "lost"}]
  BY DEF Typed, TypeOK
<1>2. CASE CreateRoom(p)
  <2>1. job[p].conf \in Confs
    BY <1>2, <1>c DEF CreateRoom, RoomPhases
  <2>2. EngineTypeOK'
    BY <1>2, <2>1, EngineTyped DEF CreateRoom, BackendFails, engine, sfu
  <2>3. PICK next \in Phases : Proceed(p, next)
    BY <1>2, <1>p DEF CreateRoom
  <2>. QED BY <1>1, <1>2, <1>t, <2>1, <2>2, <2>3 DEF CreateRoom
<1>3. CASE JoinRoom(p)
  <2>1. job[p].conf \in Confs
    BY <1>3, <1>c DEF JoinRoom, RoomPhases
  <2>2. EngineTypeOK'
    BY <1>3, <2>1, EngineTyped DEF JoinRoom, EngineTryJoin, BackendFails, engine, sfu
  <2>. QED BY <1>1, <1>3, <1>p, <1>t, <2>1, <2>2 DEF JoinRoom
<1>4. CASE LeaveRoom(p)
  <2>1. job[p].conf \in Confs
    BY <1>4, <1>c DEF LeaveRoom, RoomPhases
  <2>2. EngineTypeOK'
    BY <1>4, <2>1, EngineTyped DEF LeaveRoom, BackendFails, engine, sfu
  <2>. QED BY <1>1, <1>4, <1>p, <1>t, <2>1, <2>2 DEF LeaveRoom
<1>5. CASE OpenTransport(p)
  <2>1. job[p].conf \in Confs
    BY <1>5, <1>c DEF OpenTransport, RoomPhases
  <2>2. EngineTypeOK'
    BY <1>5, <2>1, EngineTyped DEF OpenTransport
  <2>3. PICK next \in Phases : Proceed(p, next)
    BY <1>5, <1>p DEF OpenTransport
  <2>. QED BY <1>1, <1>5, <1>t, <2>1, <2>2, <2>3 DEF OpenTransport
<1>6. CASE Rejoin(p)
  <2>1. job[p].conf \in Confs
    BY <1>6, <1>c DEF Rejoin, RoomPhases
  <2>2. EngineTypeOK'
    BY <1>6, <2>1, EngineTyped DEF Rejoin, BackendFails, engine, sfu
  <2>3. PICK next \in Phases : Proceed(p, next)
    BY <1>6, <1>p DEF Rejoin
  <2>. QED BY <1>1, <1>6, <1>t, <2>1, <2>2, <2>3 DEF Rejoin
<1>7. CASE CloseSession(p)
  <2>1. PICK r \in closing[p] :
          /\ closing' = [closing EXCEPT ![p] = @ \ {r}]
          /\ EngineLeave(r[1], r[2]) \/ UNCHANGED engine
    BY <1>7 DEF CloseSession, EngineClose, BackendFails, engine, sfu
  <2>2. r \in Peers \X Confs
    BY <2>1 DEF Typed, TypeOK
  <2>3. EngineTypeOK'
    BY <2>1, <2>2, EngineTyped
  <2>4. closing' \in [Peers -> SUBSET (Peers \X Confs)]
    BY <2>1 DEF Typed, TypeOK
  <2>5. JobsNameConfs'
    BY <1>7 DEF CloseSession, Typed, JobsNameConfs
  <2>. QED BY <1>7, <2>3, <2>4, <2>5 DEF CloseSession, Typed, TypeOK, db
<1>8. CASE CloseDone(p)
  <2>1. EngineTypeOK'
    BY <1>8 DEF CloseDone, engine, Typed, TypeOK, EngineTypeOK
  <2>2. "idle" \notin RoomPhases
    BY DEF RoomPhases
  <2>. QED BY <1>1, <1>8, <1>p, <1>t, <2>1, <2>2 DEF CloseDone
<1>9. CASE Hooks(p)
  <2>1. EngineTypeOK'
    BY <1>9, EngineDisconnectTyped DEF Hooks
  <2>2. phase' \in [Peers -> Phases]
    BY <1>9, <1>p DEF Hooks, Typed, TypeOK
  <2>3. [NoJob EXCEPT !.op = "cleanup"] \in Jobs
    BY DEF NoJob, Jobs, CleanupOps
  <2>4. job' \in [Peers -> Jobs]
    BY <1>9, <2>3 DEF Hooks, Typed, TypeOK
  <2>5. JobsNameConfs'
    BY <1>9 DEF Hooks, Typed, TypeOK, JobsNameConfs, RoomPhases
  <2>. QED BY <1>9, <2>1, <2>2, <2>4, <2>5 DEF Hooks, Typed, TypeOK, db
<1>10. CASE LeaveLast(p)
  <2>1. EngineTypeOK'
    BY <1>10, EngineDisconnectTyped DEF LeaveLast
  <2>2. conn' \in [Peers -> {"new", "open", "closing", "closed", "lost"}]
    BY <1>10, <1>t DEF LeaveLast
  <2>3. "idle" \notin RoomPhases
    BY DEF RoomPhases
  <2>. QED BY <1>1, <1>10, <1>p, <2>1, <2>2, <2>3 DEF LeaveLast
<1>. QED BY <1>2, <1>3, <1>4, <1>5, <1>6, <1>7, <1>8, <1>9, <1>10 DEF Media

\* Every step keeps the types.
LEMMA NextTyped == ASSUME Typed, [Next]_vars PROVE Typed'
<1>p. {"queued", "running", "idle", "hooks", "leave_room"} \subseteq Phases \ RoomPhases
  BY DEF Phases, RoomPhases
<1>j. NoJob \in Jobs /\ [NoJob EXCEPT !.op = "disconnect"] \in Jobs /\ NoSnapshot \in Snapshots
  BY DEF NoJob, Jobs, CleanupOps, NoSnapshot, Snapshots
<1>1. ASSUME NEW p \in Peers, Connect(p) PROVE Typed'
  BY <1>1 DEF Connect, Typed, TypeOK, EngineTypeOK, db, engine, JobsNameConfs
<1>2. ASSUME NEW p \in Peers, Submit(p) PROVE Typed'
  <2>1. PICK j \in [op : ConfOps, conf : Confs] :
          /\ phase' = [phase EXCEPT ![p] = "queued"]
          /\ job' = [job EXCEPT ![p] = j]
          /\ UNCHANGED <<conn, up, db, engine, seen, closing>>
    BY <1>2 DEF Submit
  <2>. QED BY <2>1, <1>p DEF Typed, TypeOK, Jobs, EngineTypeOK, db, engine, JobsNameConfs
<1>3. ASSUME NEW p \in Peers, Disconnect(p) PROVE Typed'
  BY <1>3, <1>p, <1>j DEF Disconnect, Typed, TypeOK, EngineTypeOK, db, engine, JobsNameConfs
<1>4. ASSUME NEW p \in Peers, Begin(p) PROVE Typed'
  <2>1. Snapshot(p) \in Snapshots
    BY SnapshotType DEF Typed
  <2>. QED BY <1>4, <1>p, <2>1 DEF Begin, Typed, TypeOK, EngineTypeOK, db, engine, JobsNameConfs
<1>5. ASSUME NEW p \in Peers, Abort(p) \/ Catch(p) PROVE Typed'
  <2>1. PICK next \in {"idle", "leave_room"} : Proceed(p, next)
    BY <1>5 DEF Abort, Catch
  <2>2. /\ phase' \in [Peers -> Phases] /\ job' \in [Peers -> Jobs]
        /\ JobsNameConfs'
    BY <1>p, <2>1, ProceedTyped
  <2>. QED BY <1>5, <2>2 DEF Abort, Catch, Typed, TypeOK, EngineTypeOK, db, engine
<1>6. CASE Restart
  BY <1>6, <1>p, <1>j DEF Restart, Typed, TypeOK, EngineTypeOK, db, JobsNameConfs
<1>7. CASE OtherNodeStarts \/ UNCHANGED vars
  BY <1>7 DEF OtherNodeStarts, vars, Typed, TypeOK, EngineTypeOK, db, engine, JobsNameConfs
<1>. QED BY <1>1, <1>2, <1>3, <1>4, <1>5, <1>6, <1>7, StatementTyped, MediaTyped
         DEF Next, Client, Handler

\* The inductive form of type correctness: a handler that drives a room also
\* names the conference it is the room of.
THEOREM AlwaysTyped == Spec => []Typed
BY InitTyped, NextTyped, PTL DEF Spec

\* The rows, the engine's maps and the handlers keep their shape in every
\* behaviour, under every fault and every interleaving of statements.
THEOREM TypeCorrect == Spec => []TypeOK
BY AlwaysTyped, PTL DEF Typed

-----------------------------------------------------------------------------
(* Conferences and their allocations                                       *)

\* What a statement deletes, it deletes with its allocation, because the
\* snapshot that shows a conference shows its allocation too, and a conference
\* that was deleted since the snapshot is not deleted a second time.
SnapshotsShowRooms == \A p \in Peers : seen[p].confs \subseteq seen[p].alloc
LiveTargetsExist == \A p \in Peers : \A c \in Live(p) : Exists(c)
SessionsHaveConference == \A c \in Confs : csess[c] # {} => Exists(c)

AllocationInv == /\ ConferencesAreAllocated
                 /\ SnapshotsShowRooms
                 /\ LiveTargetsExist
                 /\ SessionsHaveConference

\* The rows a statement may write keep sessions to existing conferences.
LEMMA SessionsStayHome ==
    ASSUME Typed, AllocationInv, NEW p \in Peers
    PROVE  /\ \A c \in Live(p) : \A d \in Confs : Opened(p, c)[d] # {} => Exists(d)
           /\ \A d \in Confs : Closed(p)[d] # {} => Exists(d)
<1>1. ASSUME NEW c \in Live(p), NEW d \in Confs, Opened(p, c)[d] # {} PROVE Exists(d)
  <2>1. c \in Confs /\ Exists(c)
    BY RequestNamesConf DEF AllocationInv, LiveTargetsExist
  <2>. QED BY <1>1, <2>1 DEF Opened, AllocationInv, SessionsHaveConference, Typed, TypeOK
<1>2. ASSUME NEW d \in Confs, Closed(p)[d] # {} PROVE Exists(d)
  BY <1>2 DEF Closed, AllocationInv, SessionsHaveConference
<1>. QED BY <1>1, <1>2

\* A statement that deletes only live targets keeps the invariant.
LEMMA WriteAllocation ==
    ASSUME Typed, AllocationInv, NEW p \in Peers, NEW m, NEW s \in [Confs -> SUBSET Peers],
           NEW D \in SUBSET Live(p), Write(p, m, s, D),
           \A d \in Confs : s[d] # {} => Exists(d)
    PROVE  AllocationInv'
<1>1. D \subseteq seen[p].alloc /\ D \subseteq Confs
  BY RequestNamesConf DEF AllocationInv, SnapshotsShowRooms, Live
<1>2. \A c \in Confs : Exists(c)' <=> Exists(c) /\ c \notin D
  BY DEF Write, Exists
<1>3. ConferencesAreAllocated'
  BY <1>1, <1>2 DEF ConferencesAreAllocated, AllocationInv, Write
<1>4. ASSUME NEW q \in Peers
      PROVE  /\ seen'[q].confs \subseteq seen'[q].alloc
             /\ Live(q)' \subseteq Live(q) \ D
  <2>1. CASE q = p
    BY <2>1 DEF Write, NoSnapshot, Live
  <2>2. CASE q # p
    <3>1. seen[q] \in Snapshots
      BY DEF Typed, TypeOK
    <3>2. /\ seen'[q].confs = seen[q].confs
          /\ seen'[q].alloc = seen[q].alloc
          /\ seen'[q].gone = seen[q].gone \cup (D \cap seen[q].confs)
      BY <2>2, <3>1 DEF Write, Snapshots
    <3>. QED BY <3>2 DEF AllocationInv, SnapshotsShowRooms, Live
  <2>. QED BY <2>1, <2>2
<1>5. SnapshotsShowRooms'
  BY <1>4 DEF SnapshotsShowRooms
<1>6. LiveTargetsExist'
  <2>. SUFFICES ASSUME NEW q \in Peers, NEW c \in Live(q)' PROVE Exists(c)'
    BY DEF LiveTargetsExist
  <2>1. c \in Live(q) /\ c \notin D
    BY <1>4
  <2>. QED BY <1>2, <2>1, RequestNamesConf DEF AllocationInv, LiveTargetsExist
<1>7. SessionsHaveConference'
  BY <1>2 DEF SessionsHaveConference, Write
<1>. QED BY <1>3, <1>5, <1>6, <1>7 DEF AllocationInv

\* Every statement keeps the invariant.
LEMMA StatementAllocation ==
    ASSUME Typed, AllocationInv, NEW p \in Peers, Statement(p) PROVE AllocationInv'
<1>t. mem \in [Confs -> [Users -> {"none", "joined", "left"}]] /\ csess \in [Confs -> SUBSET Peers]
  BY DEF Typed, TypeOK
<1>s. \A d \in Confs : csess[d] # {} => Exists(d)
  BY DEF AllocationInv, SessionsHaveConference
<1>1. CASE ApplyCreate(p)
  <2>c. job[p].conf \in Confs
    BY <1>1, RequestNamesConf DEF ApplyCreate, Runs, ConfOps
  <2>1. \A c \in Confs : Exists(c)' <=> Exists(c) \/ c = job[p].conf
    BY <1>1, <2>c DEF ApplyCreate, Exists, Actor, Typed, TypeOK
  <2>2. ConferencesAreAllocated'
    BY <1>1, <2>1 DEF ApplyCreate, ConferencesAreAllocated, AllocationInv
  <2>3. \A q \in Peers : seen'[q] = seen[q] \/ seen'[q] = NoSnapshot
    BY <1>1 DEF ApplyCreate, Typed, TypeOK
  <2>4. SnapshotsShowRooms'
    BY <2>3 DEF SnapshotsShowRooms, AllocationInv, NoSnapshot
  <2>5. LiveTargetsExist'
    <3>. SUFFICES ASSUME NEW q \in Peers, NEW c \in Live(q)' PROVE Exists(c)'
      BY DEF LiveTargetsExist
    <3>1. c \in Live(q)
      BY <2>3 DEF Live, NoSnapshot
    <3>. QED BY <2>1, <3>1, RequestNamesConf DEF AllocationInv, LiveTargetsExist
  <2>6. SessionsHaveConference'
    BY <1>1, <2>1, <2>c, <1>s DEF ApplyCreate, Opened, SessionsHaveConference, Typed, TypeOK
  <2>. QED BY <2>2, <2>4, <2>5, <2>6 DEF AllocationInv
<1>2. CASE ApplyJoin(p)
  <2>1. CASE Write(p, mem, csess, {})
    BY <2>1, <1>t, <1>s, WriteAllocation
  <2>2. CASE job[p].conf \in Live(p) /\ Write(p, Entered(p, job[p].conf), Opened(p, job[p].conf), {})
    <3>1. job[p].conf \in Confs
      BY <2>2, RequestNamesConf
    <3>2. /\ Opened(p, job[p].conf) \in [Confs -> SUBSET Peers]
          /\ \A d \in Confs : Opened(p, job[p].conf)[d] # {} => Exists(d)
      BY <2>2, <3>1, RowsTyped, SessionsStayHome
    <3>. QED BY <2>2, <3>2, WriteAllocation
  <2>. QED BY <1>2, <2>1, <2>2 DEF ApplyJoin
<1>3. CASE ApplyClose(p)
  BY <1>3, <1>t, <1>s, WriteAllocation DEF ApplyClose
<1>4. CASE ApplyLeave(p) \/ ApplyDisconnect(p)
  <2>1. Write(p, Departed(p), Closed(p), Live(p) \cap seen[p].empty)
    BY <1>4 DEF ApplyLeave, ApplyDisconnect
  <2>. QED BY <2>1, RowsTyped, SessionsStayHome, WriteAllocation
<1>5. CASE ApplyMedia(p)
  BY <1>5, <1>t, <1>s, WriteAllocation DEF ApplyMedia
<1>. QED BY <1>1, <1>2, <1>3, <1>4, <1>5 DEF Statement

\* Every step keeps the invariant.
LEMMA NextAllocation == ASSUME Typed, AllocationInv, [Next]_vars PROVE AllocationInv'
<1>1. CASE UNCHANGED <<db, seen>>
  BY <1>1 DEF db, AllocationInv, ConferencesAreAllocated, SnapshotsShowRooms, LiveTargetsExist,
              SessionsHaveConference, Exists, Live
<1>2. ASSUME NEW p \in Peers, Begin(p) PROVE AllocationInv'
  <2>1. Snapshot(p).confs \subseteq Snapshot(p).alloc /\ \A c \in Snapshot(p).confs : Exists(c)
    <3>1. Target(p) \subseteq {c \in Confs : Exists(c)}
      BY DEF Target, Requested, AllocationInv, SessionsHaveConference
    <3>. QED BY <3>1 DEF Snapshot, AllocationInv, ConferencesAreAllocated
  <2>2. \A q \in Peers : seen'[q] = seen[q] \/ seen'[q] = Snapshot(p)
    BY <1>2 DEF Begin, Typed, TypeOK
  <2>3. UNCHANGED db
    BY <1>2 DEF Begin
  <2>4. SnapshotsShowRooms'
    BY <2>1, <2>2 DEF SnapshotsShowRooms, AllocationInv
  <2>5. LiveTargetsExist'
    BY <2>1, <2>2, <2>3 DEF LiveTargetsExist, AllocationInv, Live, Exists, db
  <2>. QED BY <2>3, <2>4, <2>5 DEF AllocationInv, ConferencesAreAllocated, SessionsHaveConference,
                                   Exists, db
<1>3. CASE Restart
  <2>1. \A q \in Peers : seen'[q] = NoSnapshot
    BY <1>3 DEF Restart
  <2>2. UNCHANGED db
    BY <1>3 DEF Restart
  <2>. QED BY <2>1, <2>2 DEF AllocationInv, ConferencesAreAllocated, SnapshotsShowRooms, Live,
                              LiveTargetsExist, SessionsHaveConference, Exists, db, NoSnapshot
<1>4. ASSUME NEW p \in Peers, Client(p) \/ Abort(p) \/ Catch(p) \/ Media(p)
      PROVE  UNCHANGED <<db, seen>>
  <2>1. CASE Client(p)
    BY <2>1 DEF Client, Connect, Submit, Disconnect
  <2>2. CASE Media(p)
    BY <2>2 DEF Media, CreateRoom, JoinRoom, LeaveRoom, OpenTransport, Rejoin, CloseSession,
                CloseDone, Hooks, LeaveLast
  <2>. QED BY <1>4, <2>1, <2>2 DEF Abort, Catch
<1>5. CASE OtherNodeStarts \/ UNCHANGED vars
  BY <1>1, <1>5 DEF OtherNodeStarts, vars, db
<1>. QED BY <1>1, <1>2, <1>3, <1>4, <1>5, StatementAllocation DEF Next, Handler

\* The inductive invariant about allocations holds in every behaviour.
THEOREM AllocationInvariant == Spec => []AllocationInv
<1>1. Init => AllocationInv
  BY DEF Init, AllocationInv, ConferencesAreAllocated, SnapshotsShowRooms, LiveTargetsExist,
         SessionsHaveConference, Exists, Live, NoSnapshot
<1>2. Typed /\ AllocationInv /\ [Next]_vars => AllocationInv'
  BY NextAllocation
<1>. QED BY <1>1, <1>2, AlwaysTyped, PTL DEF Spec

\* Whatever creates, joins, closes, leaves and disconnects overlap, a conference
\* and its media room allocation come and go together.
THEOREM AllocationsFollowConferences == Spec => []ConferencesAreAllocated
BY AllocationInvariant, PTL DEF AllocationInv
=============================================================================
