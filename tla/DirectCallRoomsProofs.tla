------------------------ MODULE DirectCallRoomsProofs ------------------------
(***************************************************************************)
(* Who is in the media room of a direct call, and who answered it: proofs  *)
(* about DirectCall for any connections, accounts, calls, pool size and    *)
(* faults but one - no other node marks the sessions of this one           *)
(* disconnected.                                                           *)
(***************************************************************************)
EXTENDS DirectCallProofs

-----------------------------------------------------------------------------
(* What the step of one connection leaves alone                            *)

\* The state that belongs to connection q, its snapshot's allocations aside.
Kept(q) == /\ conn'[q] = conn[q] /\ bound'[q] = bound[q] /\ sess'[q] = sess[q]
           /\ phase'[q] = phase[q] /\ job'[q] = job[q]
           /\ seen'[q].up = seen[q].up /\ seen'[q].calls = seen[q].calls
           /\ seen'[q].rows = seen[q].rows

\* A step of p leaves the other connections alone.
LEMMA ClientKeepsOthers ==
    ASSUME TypeOK, NEW p \in Peers, Client(p)
    PROVE  /\ \A q \in Peers \ {p} : Kept(q)
           /\ UNCHANGED <<call, part, alloc, engine, seen>>
<1>1. ASSUME NEW j, Submit(p, j)
      PROVE  (\A q \in Peers \ {p} : Kept(q)) /\ UNCHANGED <<call, part, alloc, engine, seen>>
  BY <1>1 DEF Submit, Kept, TypeOK, db
<1>2. CASE Connect(p)
  BY <1>2 DEF Connect, Kept, TypeOK, db, work
<1>3. ASSUME NEW u \in Users, BindSession(p, u)
      PROVE  (\A q \in Peers \ {p} : Kept(q)) /\ UNCHANGED <<call, part, alloc, engine, seen>>
  BY <1>3 DEF BindSession, Kept, TypeOK, work
<1>4. MarkDisconnected(p) => \A q \in Peers \ {p} : sess'[q] = sess[q]
  BY DEF MarkDisconnected, TypeOK
<1>5. CASE Logout(p)
  BY <1>4, <1>5 DEF Logout, Kept, TypeOK, work
<1>6. CASE Disconnect(p)
  BY <1>4, <1>6 DEF Disconnect, Kept, TypeOK
<1>. QED BY <1>1, <1>2, <1>3, <1>5, <1>6 DEF Client, RequestCreate, RequestOnCall

LEMMA ProceedKeepsOthers ==
    ASSUME TypeOK, NEW p \in Peers, NEW next, Proceed(p, next), UNCHANGED <<conn, bound, sess>>,
           \A q \in Peers \ {p} : /\ seen'[q].up = seen[q].up /\ seen'[q].calls = seen[q].calls
                                  /\ seen'[q].rows = seen[q].rows
    PROVE  \A q \in Peers \ {p} : Kept(q)
BY DEF Proceed, Kept, TypeOK

LEMMA StatementKeepsOthers ==
    ASSUME TypeOK, NEW p \in Peers, Statement(p)
    PROVE  /\ \A q \in Peers \ {p} : Kept(q)
           /\ UNCHANGED <<conn, bound, sess, engine>>
<1>1. Forget(p) => \A q \in Peers \ {p} : seen'[q] = seen[q]
  BY DEF Forget, TypeOK
<1>2. CASE ApplyCreate(p)
  BY <1>1, <1>2 DEF ApplyCreate, CreateAnswered, Kept, TypeOK
<1>3. CASE ApplyAccept(p) \/ ApplyDecline(p) \/ ApplyMedia(p)
  <2>1. PICK next : Proceed(p, next)
    BY <1>3 DEF ApplyAccept, ApplyDecline, ApplyMedia, Reply
  <2>. QED BY <1>1, <1>3, <2>1, ProceedKeepsOthers
           DEF ApplyAccept, ApplyDecline, ApplyMedia, db
<1>4. ASSUME NEW next, EndCalls(p, next)
      PROVE  (\A q \in Peers \ {p} : Kept(q)) /\ UNCHANGED <<conn, bound, sess, engine>>
  <2>1. PICK n : Proceed(p, n)
    BY <1>4 DEF EndCalls
  <2>2. ASSUME NEW q \in Peers \ {p}
        PROVE  /\ seen'[q].up = seen[q].up /\ seen'[q].calls = seen[q].calls
               /\ seen'[q].rows = seen[q].rows
    <3>1. seen'[q] = [seen[q] EXCEPT !.alloc = @ \ seen[p].alloc]
      BY <1>4 DEF EndCalls
    <3>2. seen[q] \in Snapshots
      BY DEF TypeOK
    <3>. QED BY <3>1, <3>2 DEF Snapshots
  <2>. QED BY <1>4, <2>1, <2>2, ProceedKeepsOthers DEF EndCalls
<1>. QED BY <1>2, <1>3, <1>4 DEF Statement, ApplyHangup, ApplyDisconnect

LEMMA MediaKeepsOthers ==
    ASSUME TypeOK, NEW p \in Peers, Media(p)
    PROVE  /\ \A q \in Peers \ {p} : Kept(q)
           /\ UNCHANGED <<bound, db, seen>>
<1>1. UNCHANGED <<bound, db, seen>>
  BY DEF Media, CreateRoom, JoinRoom, OpenTransport, Rejoin, CloseSession, CloseDone,
         Hooks, LeaveLast
<1>2. \A q \in Peers \ {p} : conn'[q] = conn[q]
  BY DEF Media, CreateRoom, JoinRoom, OpenTransport, Rejoin, CloseSession, CloseDone,
         Hooks, LeaveLast, TypeOK
<1>3. \A q \in Peers \ {p} : phase'[q] = phase[q] /\ job'[q] = job[q]
  <2>1. ASSUME NEW next, Proceed(p, next)
        PROVE  \A q \in Peers \ {p} : phase'[q] = phase[q] /\ job'[q] = job[q]
    BY <2>1 DEF Proceed, TypeOK
  <2>2. CASE Hooks(p)
    BY <2>2 DEF Hooks, TypeOK
  <2>3. CASE CloseSession(p)
    BY <2>3 DEF CloseSession
  <2>. QED BY <2>1, <2>2, <2>3 DEF Media, CreateRoom, JoinRoom, OpenTransport, Rejoin,
              CloseDone, LeaveLast
<1>. QED BY <1>1, <1>2, <1>3 DEF Kept, db

LEMMA HandlerKeepsOthers ==
    ASSUME TypeOK, NEW p \in Peers, Handler(p)
    PROVE  (\A q \in Peers \ {p} : Kept(q)) /\ UNCHANGED <<bound, sess>>
<1>1. CASE Begin(p)
  BY <1>1 DEF Begin, Kept, TypeOK, db
<1>2. CASE Abort(p)
  BY <1>2 DEF Abort, Kept, TypeOK, db
<1>. QED BY <1>1, <1>2, StatementKeepsOthers, MediaKeepsOthers DEF Handler, db

WithStatus(r, s) == [r EXCEPT !.status = s]

\* What a statement writes into a participant row: p's own answer, another
\* participant's end, or the rows of an invitation.
RowWritten(p, c, u) ==
    \/ part'[c][u] = part[c][u]
    \/ /\ ApplyCreate(p) /\ part[c][u].status = "none"
       /\ part'[c][u] = InvitedRow(p, c, u)
    \/ /\ ApplyAccept(p) /\ <<c, u>> \in seen[p].rows /\ u = bound[p]
       /\ part'[c][u] = AcceptedRow(p, part[c][u])
    \/ /\ ~ApplyCreate(p) /\ ~ApplyAccept(p) /\ <<c, u>> \in seen[p].rows
       /\ \E s \in Over : part'[c][u] = WithStatus(part[c][u], s)

LEMMA RowWrites ==
    ASSUME TypeOK, NEW p \in Peers, Statement(p), NEW c \in Calls, NEW u \in Users
    PROVE  RowWritten(p, c, u)
<1>1. CASE ApplyCreate(p)
  <2>1. PICK k \in Calls : part' = [part EXCEPT ![k] = [v \in Users |-> InvitedRow(p, k, v)]]
    BY <1>1 DEF ApplyCreate, CreateAnswered, Twins, FreeCalls
  <2>2. part'[c][u] = part[c][u] \/ part'[c][u] = InvitedRow(p, c, u)
    BY <2>1 DEF TypeOK
  <2>3. part[c][u].status # "none" => InvitedRow(p, c, u) = part[c][u]
    BY DEF InvitedRow
  <2>. QED BY <1>1, <2>2, <2>3 DEF RowWritten
<1>2. CASE ApplyAccept(p)
  BY <1>2 DEF ApplyAccept, Targeted, RowWritten
<1>3. CASE ApplyDecline(p)
  <2>1. part'[c][u] = IF <<c, u>> \in seen[p].rows
                      THEN WithStatus(part[c][u], DeclinedStatus(p, u, part[c][u].status))
                      ELSE part[c][u]
    BY <1>3 DEF ApplyDecline, Targeted, WithStatus
  <2>2. DeclinedStatus(p, u, part[c][u].status) \in Over
    BY DEF DeclinedStatus, Over
  <2>3. ~ApplyCreate(p) /\ ~ApplyAccept(p)
    BY <1>3 DEF ApplyDecline, ApplyCreate, CreateAnswered, ApplyAccept, Runs
  <2>. QED BY <2>1, <2>2, <2>3 DEF RowWritten
<1>4. ASSUME NEW next, EndCalls(p, next), job[p].op \in {"hangup"} \cup CleanupOps
      PROVE  RowWritten(p, c, u)
  <2>1. part'[c][u] = IF <<c, u>> \in seen[p].rows
                      THEN WithStatus(part[c][u], "ended") ELSE part[c][u]
    BY <1>4 DEF EndCalls, Targeted, WithStatus
  <2>2. ~ApplyCreate(p) /\ ~ApplyAccept(p)
    BY <1>4 DEF ApplyCreate, CreateAnswered, ApplyAccept, Runs, CleanupOps
  <2>3. "ended" \in Over
    BY DEF Over
  <2>. QED BY <2>1, <2>2, <2>3 DEF RowWritten
<1>5. CASE ApplyMedia(p)
  BY <1>5 DEF ApplyMedia, db, RowWritten
<1>6. CASE ApplyHangup(p)
  BY <1>4, <1>6 DEF ApplyHangup, Runs
<1>7. CASE ApplyDisconnect(p)
  BY <1>4, <1>7 DEF ApplyDisconnect
<1>. QED BY <1>1, <1>2, <1>3, <1>5, <1>6, <1>7 DEF Statement

\* No statement takes a participant row away.
LEMMA ParticipantsStay ==
    ASSUME TypeOK, NEW p \in Peers, Statement(p), NEW c \in Calls, NEW u \in Users,
           Participates(u, c)
    PROVE  Participates(u, c)'
<1>1. /\ \A s : WithStatus(part[c][u], s).status = s
      /\ AcceptedRow(p, part[c][u]).status = "accepted"
  BY StatusOfUpdatedRow DEF WithStatus, AcceptedRow
<1>2. "none" \notin Over
  BY DEF Over
<1>3. \/ part'[c][u] = part[c][u]
      \/ part[c][u].status = "none"
      \/ part'[c][u] = AcceptedRow(p, part[c][u])
      \/ \E s \in Over : part'[c][u] = WithStatus(part[c][u], s)
  BY RowWrites DEF RowWritten
<1>. QED BY <1>1, <1>2, <1>3 DEF Participates

-----------------------------------------------------------------------------
(* Sessions, requests and snapshots                                        *)

\* While p is signed in its session row is that user's and is up.
SessionIsBound(p) ==
    bound[p] # NoUser => bound[p] \in Accounts[p] /\ sess[p] = [user |-> bound[p], up |-> TRUE]

\* A connection signs out or closes only between requests.
RequestIsBound(p) == phase[p] # "idle" => job[p].op \in CleanupOps \/ bound[p] # NoUser

\* A statement targets no row of a call it does not target, the statement of a request
\* found the session of p connected, and its call only with p's user in it.
RequestFits(p) ==
    /\ \A r \in seen[p].rows : r[1] \in seen[p].calls
    /\ phase[p] = "running" /\ job[p].op \notin CleanupOps =>
         /\ seen[p].up
         /\ job[p].op # "create" => \A c \in seen[p].calls :
                c = job[p].call /\ Participates(bound[p], c) /\ <<c, bound[p]>> \in seen[p].rows

\* A handler that drives the room of a call has the user of p in the call.
DrivesOwnRoom(p) ==
    phase[p] \in RoomPhases =>
        job[p].op \notin CleanupOps /\ Participates(bound[p], job[p].call)

PeerFits(p) == SessionIsBound(p) /\ RequestIsBound(p) /\ RequestFits(p) /\ DrivesOwnRoom(p)

NoOtherNode == "node" \notin Faults
RequestsInv == NoOtherNode /\ \A p \in Peers : PeerFits(p)

\* The steps of other connections keep what is known about q.
LEMMA OthersFit ==
    ASSUME TypeOK, JobsNameCalls, NEW q \in Peers, PeerFits(q), Kept(q),
           \A c \in Calls, u \in Users : Participates(u, c) => Participates(u, c)'
    PROVE  PeerFits(q)'
<1>1. bound[q] # NoUser => bound[q] \in Users
  BY DEF TypeOK
<1>2. SessionIsBound(q) /\ RequestIsBound(q) /\ RequestFits(q) /\ DrivesOwnRoom(q)
  BY DEF PeerFits
<1>3. SessionIsBound(q)' /\ RequestIsBound(q)'
  BY <1>2 DEF SessionIsBound, RequestIsBound, Kept
<1>4. RequestFits(q)'
  <2>. SUFFICES ASSUME phase[q] = "running", job[q].op \notin CleanupOps, job[q].op # "create",
                       NEW c \in seen[q].calls
                PROVE  Participates(bound[q], c)'
    BY <1>2 DEF RequestFits, Kept
  <2>1. c \in Calls /\ Participates(bound[q], c)
    BY <1>2 DEF RequestFits, TypeOK, Snapshots
  <2>2. bound[q] \in Users /\ bound'[q] = bound[q]
    BY <1>1, <1>2 DEF Kept, RequestIsBound
  <2>. QED BY <2>1, <2>2 DEF Participates
<1>5. DrivesOwnRoom(q)'
  <2>. SUFFICES ASSUME phase[q] \in RoomPhases
                PROVE  job'[q].op \notin CleanupOps /\ Participates(bound[q], job[q].call)'
    BY DEF DrivesOwnRoom, Kept
  <2>1. job[q].call \in Calls /\ job[q].op \notin CleanupOps /\ Participates(bound[q], job[q].call)
    BY <1>2 DEF DrivesOwnRoom, JobsNameCalls
  <2>2. bound[q] \in Users /\ phase[q] # "idle"
    BY <1>1, <1>2, <2>1 DEF RoomPhases, RequestIsBound
  <2>. QED BY <2>1, <2>2 DEF Participates, Kept
<1>. QED BY <1>3, <1>4, <1>5 DEF PeerFits

\* What p's own client and handler do keeps what is known about p.
LEMMA ClientFits ==
    ASSUME TypeOK, NEW p \in Peers, PeerFits(p), Client(p) PROVE PeerFits(p)'
<1>1. seen' = seen /\ \A r \in seen[p].rows : r[1] \in seen[p].calls
  BY ClientKeepsOthers DEF PeerFits, RequestFits
<1>2. ASSUME phase'[p] \in {"idle", "queued", "hooks"}, SessionIsBound(p)', RequestIsBound(p)'
      PROVE  PeerFits(p)'
  BY <1>1, <1>2 DEF PeerFits, RequestFits, DrivesOwnRoom, RoomPhases
<1>3. CASE Connect(p)
  <2>1. phase'[p] = phase[p] /\ job' = job /\ bound' = bound /\ sess' = sess /\ part' = part
    BY <1>3 DEF Connect, work, db
  <2>. QED BY <1>1, <2>1 DEF PeerFits, SessionIsBound, RequestIsBound, RequestFits,
                              DrivesOwnRoom, Participates
<1>4. ASSUME NEW u \in Users, BindSession(p, u) PROVE PeerFits(p)'
  <2>1. phase'[p] = "idle" /\ bound'[p] = u /\ sess'[p] = [user |-> u, up |-> TRUE]
        /\ u \in Accounts[p]
    BY <1>4 DEF BindSession, Idle, work, TypeOK
  <2>. QED BY <1>2, <2>1 DEF SessionIsBound, RequestIsBound
<1>5. CASE Logout(p)
  <2>1. phase'[p] = "idle" /\ bound'[p] = NoUser
    BY <1>5 DEF Logout, Idle, work, TypeOK
  <2>. QED BY <1>2, <2>1 DEF SessionIsBound, RequestIsBound
<1>6. CASE Disconnect(p)
  <2>1. phase'[p] = "hooks" /\ bound'[p] = NoUser /\ job'[p].op = "disconnect"
    BY <1>6 DEF Disconnect, TypeOK, Jobs
  <2>. QED BY <1>2, <2>1 DEF SessionIsBound, RequestIsBound, CleanupOps
<1>7. ASSUME NEW j, Submit(p, j) PROVE PeerFits(p)'
  <2>1. phase'[p] = "queued" /\ bound' = bound /\ bound[p] # NoUser /\ sess' = sess
    BY <1>7 DEF Submit, TypeOK, db
  <2>. QED BY <1>2, <2>1 DEF PeerFits, SessionIsBound, RequestIsBound
<1>. QED BY <1>3, <1>4, <1>5, <1>6, <1>7 DEF Client, RequestCreate, RequestOnCall

LEMMA BeginFits ==
    ASSUME TypeOK, NEW p \in Peers, PeerFits(p), Begin(p) PROVE PeerFits(p)'
<1>1. /\ phase[p] = "queued" /\ phase'[p] = "running" /\ job' = job /\ bound' = bound
      /\ sess' = sess /\ part' = part /\ seen'[p] = Snapshot(p)
  BY DEF Begin, TypeOK, db
<1>2. SessionIsBound(p)' /\ RequestIsBound(p)'
  BY <1>1 DEF PeerFits, SessionIsBound, RequestIsBound
<1>3. /\ seen'[p].up = sess[p].up /\ seen'[p].calls = Target(p)
      /\ seen'[p].rows = {r \in Target(p) \X Users : Participates(r[2], r[1])}
  BY <1>1 DEF Snapshot
<1>4. ASSUME job[p].op \notin CleanupOps
      PROVE  sess[p].up /\ bound[p] \in Users /\ Target(p) = Requested(p)
  BY <1>1, <1>4 DEF PeerFits, SessionIsBound, RequestIsBound, Target, TypeOK
<1>5. RequestFits(p)'
  <2>1. \A r \in seen'[p].rows : r[1] \in seen'[p].calls
    BY <1>3
  <2>2. ASSUME job[p].op \notin CleanupOps, NEW c \in seen'[p].calls
        PROVE  c = job[p].call /\ Participates(bound[p], c) /\ <<c, bound[p]>> \in seen'[p].rows
    BY <1>3, <1>4, <2>2 DEF Requested
  <2>. QED BY <1>1, <1>3, <1>4, <2>1, <2>2 DEF RequestFits, Participates
<1>. QED BY <1>1, <1>2, <1>5 DEF PeerFits, DrivesOwnRoom, RoomPhases

\* A handler that leaves session and snapshot alone and goes to phase next.
LEMMA ProceedFits ==
    ASSUME TypeOK, NEW p \in Peers, PeerFits(p), phase[p] # "idle", NEW next,
           Proceed(p, next), next # "running",
           UNCHANGED <<bound, sess>>, seen'[p] = seen[p] \/ seen'[p] = NoSnapshot,
           next \in RoomPhases =>
               job[p].op \notin CleanupOps /\ Participates(bound[p], job[p].call)'
    PROVE  PeerFits(p)'
<1>1. phase'[p] = next /\ (next # "idle" => job'[p] = job[p])
  BY DEF Proceed, TypeOK
<1>2. SessionIsBound(p)' /\ RequestIsBound(p)'
  BY <1>1 DEF PeerFits, SessionIsBound, RequestIsBound
<1>3. RequestFits(p)'
  BY <1>1 DEF PeerFits, RequestFits, NoSnapshot
<1>4. DrivesOwnRoom(p)'
  BY <1>1 DEF DrivesOwnRoom, RoomPhases
<1>. QED BY <1>2, <1>3, <1>4 DEF PeerFits

LEMMA MediaFits ==
    ASSUME TypeOK, NEW p \in Peers, PeerFits(p), Media(p) PROVE PeerFits(p)'
<1>1. UNCHANGED <<bound, sess, part, seen>>
  BY MediaKeepsOthers DEF db
<1>2. ASSUME phase[p] \in RoomPhases, NEW next, Proceed(p, next), next # "running"
      PROVE  PeerFits(p)'
  <2>1. job[p].op \notin CleanupOps /\ Participates(bound[p], job[p].call) /\ phase[p] # "idle"
    BY <1>2 DEF PeerFits, DrivesOwnRoom, RoomPhases
  <2>2. job'[p] = job[p] \/ next = "idle"
    BY <1>2 DEF Proceed
  <2>3. next \in RoomPhases => Participates(bound[p], job[p].call)'
    BY <1>1, <2>1, <2>2 DEF Participates, RoomPhases
  <2>. QED BY <1>1, <1>2, <2>1, <2>3, ProceedFits
<1>3. ASSUME phase[p] # "idle", NEW next, Proceed(p, next), next \in {"idle", "leave_room"}
      PROVE  PeerFits(p)'
  BY <1>1, <1>3, ProceedFits DEF RoomPhases
<1>4. CASE CreateRoom(p) \/ JoinRoom(p) \/ OpenTransport(p) \/ Rejoin(p)
  BY <1>2, <1>4 DEF CreateRoom, JoinRoom, OpenTransport, Rejoin, RoomPhases
<1>5. CASE CloseDone(p) \/ LeaveLast(p)
  BY <1>3, <1>5 DEF CloseDone, LeaveLast
<1>6. CASE CloseSession(p)
  <2>1. phase' = phase /\ job' = job
    BY <1>6 DEF CloseSession
  <2>. QED BY <1>1, <2>1 DEF PeerFits, SessionIsBound, RequestIsBound, RequestFits,
                              DrivesOwnRoom, Participates
<1>7. CASE Hooks(p)
  <2>1. phase[p] = "hooks" /\ phase'[p] = "queued" /\ job'[p].op \in {job[p].op, "cleanup"}
    BY <1>7 DEF Hooks, TypeOK, Jobs
  <2>2. RequestIsBound(p)'
    BY <1>1, <2>1 DEF PeerFits, RequestIsBound, CleanupOps
  <2>. QED BY <1>1, <2>1, <2>2 DEF PeerFits, SessionIsBound, RequestFits, DrivesOwnRoom, RoomPhases
<1>. QED BY <1>4, <1>5, <1>6, <1>7 DEF Media

LEMMA StatementFits ==
    ASSUME TypeOK, JobsNameCalls, NEW p \in Peers, PeerFits(p), Statement(p) PROVE PeerFits(p)'
<1>1. UNCHANGED <<bound, sess>> /\ phase[p] = "running"
  BY StatementKeepsOthers DEF Statement, ApplyCreate, CreateAnswered, ApplyAccept, ApplyDecline, ApplyHangup,
     ApplyDisconnect, ApplyMedia, Runs
<1>2. RequestFits(p) /\ RequestIsBound(p) /\ SessionIsBound(p)
  BY DEF PeerFits
<1>3. Forget(p) => seen'[p] = NoSnapshot
  BY DEF Forget, TypeOK
<1>4. CASE ApplyCreate(p)
  <2>1. PICK k \in Calls : /\ part' = [part EXCEPT ![k] = [u \in Users |-> InvitedRow(p, k, u)]]
                           /\ job' = [job EXCEPT ![p].call = k]
    BY <1>4 DEF ApplyCreate, CreateAnswered, Twins, FreeCalls
  <2>2. job[p].op = "create" /\ seen'[p] = NoSnapshot /\ phase'[p] \in {"create_room", "queued"}
    BY <1>3, <1>4 DEF ApplyCreate, CreateAnswered, Runs, TypeOK
  <2>3. job'[p].op = "create" /\ job'[p].call = k
    BY <2>1, <2>2 DEF TypeOK, Jobs
  <2>4. bound[p] \in Users /\ seen[p].up /\ bound[p] # NoUser
    BY <1>1, <1>2, <2>2 DEF RequestFits, RequestIsBound, CleanupOps, TypeOK
  <2>5. part'[k][bound[p]].status # "none"
    <3>1. part'[k][bound[p]] = InvitedRow(p, k, bound[p])
      BY <2>1, <2>4 DEF TypeOK
    <3>. QED BY <2>4, <3>1 DEF InvitedRow
  <2>6. DrivesOwnRoom(p)'
    BY <1>1, <2>3, <2>5 DEF DrivesOwnRoom, Participates, CleanupOps
  <2>7. RequestIsBound(p)' /\ SessionIsBound(p)'
    BY <1>1, <1>2, <2>4 DEF RequestIsBound, SessionIsBound
  <2>8. RequestFits(p)'
    BY <2>2 DEF RequestFits, NoSnapshot
  <2>. QED BY <2>6, <2>7, <2>8 DEF PeerFits
<1>5. ASSUME Forget(p), NEW next, Reply(p, NextPhase(p, next)),
             next \in {"join_room", "open", "close_peers", "idle"},
             job[p].op \in CallOps
      PROVE  PeerFits(p)'
  <2>1. PICK n \in {"idle", "queued", next} :
           Proceed(p, n) /\ (n \in RoomPhases => seen[p].calls # {})
    BY <1>5 DEF Reply, NextPhase, RoomPhases
  <2>2. job[p].op \notin CleanupOps /\ job[p].op # "create" /\ job[p].call \in Calls
    BY <1>5 DEF CallOps, CleanupOps, JobsNameCalls
  <2>3. seen[p].calls # {} => Participates(bound[p], job[p].call) /\ bound[p] \in Users
    BY <1>1, <1>2, <2>2 DEF RequestFits, RequestIsBound, TypeOK
  <2>4. ASSUME n \in RoomPhases PROVE Participates(bound[p], job[p].call)'
    <3>1. job'[p] = job[p]
      BY <2>1, <2>4 DEF Proceed, RoomPhases
    <3>2. Participates(bound[p], job[p].call) /\ bound[p] \in Users
      BY <2>1, <2>3, <2>4
    <3>. QED BY <1>1, <2>2, <3>1, <3>2, ParticipantsStay DEF Participates
  <2>. QED BY <1>1, <1>3, <1>5, <2>1, <2>2, <2>4, ProceedFits DEF RoomPhases
<1>6. CASE ApplyAccept(p)
  BY <1>5, <1>6 DEF ApplyAccept, Runs, CallOps
<1>7. CASE ApplyMedia(p)
  BY <1>5, <1>7 DEF ApplyMedia, Runs, CallOps
<1>8. CASE ApplyDecline(p)
  <2>1. Reply(p, NextPhase(p, "idle")) /\ Forget(p) /\ job[p].op \in CallOps
    BY <1>8 DEF ApplyDecline, Runs, CallOps, NextPhase
  <2>. QED BY <1>5, <2>1
<1>9. ASSUME NEW next \in {"idle", "close_peers"}, EndCalls(p, next) PROVE PeerFits(p)'
  <2>1. PICK n \in {"idle", "close_peers", "queued"} : Proceed(p, n)
    BY <1>9 DEF EndCalls
  <2>2. seen'[p] = NoSnapshot
    BY <1>9 DEF EndCalls
  <2>. QED BY <1>1, <2>1, <2>2, ProceedFits DEF RoomPhases
<1>. QED BY <1>4, <1>6, <1>7, <1>8, <1>9 DEF Statement, ApplyHangup, ApplyDisconnect, NextPhase

\* Participants stay whatever step is taken.
LEMMA NextKeepsParticipants ==
    ASSUME TypeOK, [Next]_vars, NEW c \in Calls, NEW u \in Users, Participates(u, c)
    PROVE  Participates(u, c)'
<1>1. ASSUME NEW p \in Peers, Client(p) PROVE part' = part
  BY <1>1, ClientKeepsOthers
<1>2. ASSUME NEW p \in Peers, Handler(p), ~Statement(p) PROVE part' = part
  BY <1>2, MediaKeepsOthers DEF Handler, Begin, Abort, db
<1>3. CASE Restart \/ OtherNodeStarts \/ UNCHANGED vars
  BY <1>3 DEF Restart, OtherNodeStarts, vars, Participates
<1>. QED BY <1>1, <1>2, <1>3, ParticipantsStay DEF Next, Participates

LEMMA NextRequestsInv ==
    ASSUME TypeOK, JobsNameCalls, RequestsInv, [Next]_vars PROVE RequestsInv'
<1>1. ASSUME NEW p \in Peers, Client(p) \/ Handler(p), NEW q \in Peers PROVE PeerFits(q)'
  <2>1. PeerFits(p) /\ PeerFits(q)
    BY DEF RequestsInv
  <2>2. CASE q = p
    <3>1. CASE Abort(p)
      <4>1. /\ phase'[p] = "idle" \/ (phase'[p] = "leave_room" /\ job'[p].op \in CleanupOps)
            /\ seen' = seen /\ bound' = bound /\ sess' = sess
        BY <3>1 DEF Abort, TypeOK, db
      <4>. QED BY <2>1, <2>2, <4>1 DEF PeerFits, SessionIsBound, RequestIsBound, RequestFits,
                                        DrivesOwnRoom, RoomPhases
    <3>. QED BY <1>1, <2>1, <2>2, <3>1, ClientFits, BeginFits, StatementFits, MediaFits DEF Handler
  <2>3. CASE q # p
    <3>1. Kept(q)
      BY <1>1, <2>3, ClientKeepsOthers, HandlerKeepsOthers
    <3>. QED BY <2>1, <3>1, OthersFit, NextKeepsParticipants, <1>1 DEF Next
  <2>. QED BY <2>2, <2>3
<1>2. CASE Restart
  BY <1>2 DEF Restart, RequestsInv, PeerFits, SessionIsBound, RequestIsBound, RequestFits,
              DrivesOwnRoom, RoomPhases, NoSnapshot
<1>3. CASE UNCHANGED vars
  BY <1>3 DEF vars, RequestsInv, PeerFits, SessionIsBound, RequestIsBound, RequestFits,
              DrivesOwnRoom, Participates
<1>4. ~OtherNodeStarts
  BY DEF OtherNodeStarts, RequestsInv, NoOtherNode
<1>. QED BY <1>1, <1>2, <1>3, <1>4 DEF Next, RequestsInv

\* With no other node: whatever fails, overlaps or is repeated, a statement of a request
\* ran for a connected session, and a handler drives the room of a call of its user.
THEOREM RequestsInvariant == NoOtherNode /\ Spec => []RequestsInv
<1>1. NoOtherNode /\ Init => RequestsInv
  BY DEF Init, RequestsInv, PeerFits, SessionIsBound, RequestIsBound, RequestFits,
         DrivesOwnRoom, RoomPhases, NoSnapshot
<1>2. Typed /\ RequestsInv /\ [Next]_vars => RequestsInv'
  BY NextRequestsInv DEF Typed
<1>. QED BY <1>1, <1>2, AlwaysTyped, PTL DEF Spec

-----------------------------------------------------------------------------
(* Who is in the room of a call                                            *)

\* No client holds the tokens of two accounts.
SoleAccounts == \A p \in Peers : \A u, v \in Accounts[p] : u = v

\* The session of q is one of q's own accounts, and that account is in call c.
SeatFits(q, c) == sess[q].user \in Accounts[q] /\ Participates(sess[q].user, c)

RoomsInv == SoleAccounts /\ \A c \in Calls : \A q \in members[c] : SeatFits(q, c)

\* A seat outlives every step that leaves its session to the same user.
LEMMA SeatStays ==
    ASSUME TypeOK, [Next]_vars, NEW c \in Calls, NEW q \in Peers, SeatFits(q, c),
           sess'[q].user = sess[q].user
    PROVE  SeatFits(q, c)'
<1>1. Accounts[q] \in SUBSET Users
  BY ConstantsAssumption
<1>2. sess[q].user \in Users /\ Participates(sess[q].user, c)
  BY <1>1 DEF SeatFits
<1>3. \A u \in Users : Participates(u, c) => part'[c][u].status # "none"
  BY NextKeepsParticipants DEF Participates
<1>. QED BY <1>2, <1>3 DEF SeatFits, Participates

\* Who enters a room enters it from a handler that drives it.
LEMMA RoomEntries ==
    ASSUME TypeOK, NEW p \in Peers, Media(p), NEW c \in Calls, NEW q \in members'[c]
    PROVE  q \in members[c] \/ (q = p /\ phase[p] \in RoomPhases /\ c = job[p].call)
<1>1. ASSUME NEW r, NEW s, EngineLeave(r, s) PROVE q \in members[c]
  BY <1>1 DEF EngineLeave, TypeOK, EngineTypeOK, sfu
<1>2. ASSUME UNCHANGED engine PROVE q \in members[c]
  BY <1>2 DEF engine
<1>3. ASSUME EngineJoin(p, job[p].call)
      PROVE  q \in members[c] \/ (q = p /\ c = job[p].call)
  BY <1>3 DEF EngineJoin, TypeOK, EngineTypeOK
<1>4. ASSUME NEW s, EngineCreate(s) PROVE q \in members[c]
  BY <1>4 DEF EngineCreate
<1>5. CASE CreateRoom(p)
  BY <1>2, <1>4, <1>5 DEF CreateRoom, BackendFails, engine, sfu
<1>6. CASE JoinRoom(p) \/ Rejoin(p)
  BY <1>2, <1>3, <1>6 DEF JoinRoom, EngineTryJoin, Rejoin, BackendFails, RoomPhases, engine, sfu
<1>7. CASE OpenTransport(p) \/ CloseDone(p)
  BY <1>2, <1>7 DEF OpenTransport, CloseDone
<1>8. CASE CloseSession(p)
  BY <1>1, <1>2, <1>8 DEF CloseSession, EngineClose, BackendFails, engine, sfu
<1>9. CASE Hooks(p) \/ LeaveLast(p)
  BY <1>1, <1>2, <1>9 DEF Hooks, LeaveLast, EngineDisconnect, BackendFails, engine, sfu
<1>. QED BY <1>5, <1>6, <1>7, <1>8, <1>9 DEF Media

LEMMA NextRoomsInv ==
    ASSUME TypeOK, JobsNameCalls, RequestsInv, RoomsInv, [Next]_vars PROVE RoomsInv'
<1>1. \A c \in Calls : members[c] \subseteq Peers
  BY DEF TypeOK, EngineTypeOK
<1>2. ASSUME members' = members,
             \A c \in Calls : \A q \in members[c] : sess'[q].user = sess[q].user
      PROVE  RoomsInv'
  BY <1>1, <1>2, SeatStays DEF RoomsInv, SoleAccounts
<1>3. ASSUME NEW p \in Peers, Client(p) PROVE RoomsInv'
  <2>1. ASSUME MarkDisconnected(p) PROVE sess'[p].user = sess[p].user
    <3>1. sess[p] \in Sessions
      BY DEF TypeOK
    <3>2. [sess[p] EXCEPT !.up = FALSE].user = sess[p].user
      BY <3>1 DEF Sessions
    <3>. QED BY <2>1, <3>2 DEF MarkDisconnected, TypeOK
  <2>2. ASSUME NEW u \in Users, BindSession(p, u), NEW c \in Calls, p \in members[c]
        PROVE  sess'[p].user = sess[p].user
    BY <2>2 DEF BindSession, RoomsInv, SeatFits, SoleAccounts, TypeOK
  <2>3. ASSUME NEW c \in Calls, p \in members[c] PROVE sess'[p].user = sess[p].user
    BY <1>3, <2>1, <2>2, <2>3 DEF Client, Connect, Logout, Disconnect, RequestCreate,
                                 RequestOnCall, Submit, db
  <2>. QED BY <1>1, <1>2, <1>3, <2>3, ClientKeepsOthers DEF Kept, engine
<1>4. ASSUME NEW p \in Peers, Media(p) PROVE RoomsInv'
  <2>1. UNCHANGED <<bound, sess, part>>
    BY <1>4, MediaKeepsOthers DEF db
  <2>2. ASSUME NEW c \in Calls, NEW q \in members'[c] PROVE SeatFits(q, c)
    <3>1. CASE q \in members[c]
      BY <3>1 DEF RoomsInv
    <3>2. CASE q = p /\ phase[p] \in RoomPhases /\ c = job[p].call
      <4>1. Participates(bound[p], c) /\ bound[p] # NoUser
        BY <3>2 DEF RequestsInv, PeerFits, DrivesOwnRoom, RequestIsBound, RoomPhases
      <4>2. bound[p] \in Accounts[p] /\ sess[p] = [user |-> bound[p], up |-> TRUE]
        BY <4>1 DEF RequestsInv, PeerFits, SessionIsBound
      <4>3. sess[p].user = bound[p]
        BY <4>2
      <4>. QED BY <3>2, <4>1, <4>2, <4>3 DEF SeatFits
    <3>. QED BY <1>4, <3>1, <3>2, RoomEntries
  <2>3. ASSUME NEW c \in Calls, NEW q \in members'[c] PROVE SeatFits(q, c)'
    BY <2>1, <2>2, <2>3 DEF SeatFits, Participates
  <2>. QED BY <2>3 DEF RoomsInv, SoleAccounts
<1>5. ASSUME NEW p \in Peers, Begin(p) \/ Abort(p) \/ Statement(p) PROVE RoomsInv'
  BY <1>2, <1>5, StatementKeepsOthers DEF Begin, Abort, db, engine
<1>6. CASE Restart
  BY <1>6 DEF Restart, RoomsInv, SoleAccounts
<1>7. CASE UNCHANGED vars
  BY <1>2, <1>7 DEF vars
<1>8. ~OtherNodeStarts
  BY DEF OtherNodeStarts, RequestsInv, NoOtherNode
<1>. QED BY <1>3, <1>4, <1>5, <1>6, <1>7, <1>8 DEF Next, Handler

\* The target CTEs of accept, open_transport and create_call: no overlap, retry or lost
\* reply seats a stranger in the room of a call, as long as no client signs in with two
\* accounts on one connection and no other node marks this one's sessions disconnected.
THEOREM OnlyParticipantsInRooms ==
    NoOtherNode /\ SoleAccounts /\ Spec => []RoomsHoldParticipants
<1>1. SoleAccounts /\ Init => RoomsInv
  BY DEF Init, EngineInit, RoomsInv
<1>2. Typed /\ RequestsInv /\ RoomsInv /\ [Next]_vars => RoomsInv'
  BY NextRoomsInv DEF Typed
<1>3. RoomsInv => RoomsHoldParticipants
  BY DEF RoomsInv, SeatFits, RoomsHoldParticipants
<1>. QED BY <1>1, <1>2, <1>3, AlwaysTyped, RequestsInvariant, PTL DEF Spec

-----------------------------------------------------------------------------
(* Who answered a call                                                     *)

\* No UPDATE but acceptDirectCall's makes a call accepted, and it puts its own
\* participant row beside it.
LEMMA CallWrites ==
    ASSUME TypeOK, NEW p \in Peers, Statement(p), NEW c \in Calls,
           call'[c].status = "accepted"
    PROVE  \/ /\ call[c].status = "accepted" /\ call'[c] = call[c]
              /\ c \in seen[p].calls => ApplyMedia(p) \/ ApplyCreate(p)
           \/ ApplyAccept(p) /\ c \in seen[p].calls /\ call'[c].answerer = p
<1>1. ASSUME NEW s, call' = Stamped(p, s) PROVE
         IF c \in seen[p].calls
         THEN call'[c].status = s /\ (s = "accepted" => call'[c].answerer = p)
         ELSE call'[c] = call[c]
  BY <1>1 DEF Stamped, Answerer, TypeOK, CallRows
<1>2. CASE ApplyCreate(p)
  <2>1. PICK k \in Calls : \/ call' = call
                           \/ call' = [call EXCEPT ![k] = InvitedCall(bound[p], job[p].id)]
    BY <1>2 DEF ApplyCreate, CreateAnswered, Twins, FreeCalls
  <2>2. call[c].status = "accepted" /\ call'[c] = call[c]
    BY <2>1 DEF InvitedCall, TypeOK
  <2>. QED BY <1>2, <2>2
<1>3. CASE ApplyAccept(p)
  BY <1>1, <1>3 DEF ApplyAccept
<1>4. ASSUME NEW s \in Over, call' = Stamped(p, s)
      PROVE  call[c].status = "accepted" /\ call'[c] = call[c] /\ c \notin seen[p].calls
  BY <1>1, <1>4 DEF Over
<1>5. CASE ApplyDecline(p)
  BY <1>4, <1>5 DEF ApplyDecline, Over
<1>6. CASE ApplyHangup(p)
  BY <1>4, <1>6 DEF ApplyHangup, EndCalls, Over
<1>7. CASE ApplyDisconnect(p)
  BY <1>4, <1>7 DEF ApplyDisconnect, EndCalls, Over
<1>8. CASE ApplyMedia(p)
  BY <1>8 DEF ApplyMedia, db
<1>. QED BY <1>2, <1>3, <1>5, <1>6, <1>7, <1>8 DEF Statement

\* The row of u says that u answered call c, from the connection whose accept made it so.
Answers(c, u) == /\ u \in Accounts[call[c].answerer]
                 /\ part[c][u].status = "accepted"
                 /\ part[c][u].joined = call[c].answerer

LEMMA AcceptedRowAnswers ==
    ASSUME TypeOK, NEW p \in Peers, NEW c \in Calls, NEW u \in Users
    PROVE  AcceptedRow(p, part[c][u]).status = "accepted" /\ AcceptedRow(p, part[c][u]).joined = p
<1>1. part[c][u] \in PartRows
  BY DEF TypeOK
<1>. QED BY <1>1 DEF PartRows, AcceptedRow

\* The answer stays until a statement that targets the call ends it or answers it anew.
LEMMA AnswersStay ==
    ASSUME TypeOK, NEW p \in Peers, PeerFits(p), Statement(p), NEW c \in Calls, NEW u \in Users,
           Answers(c, u), call'[c] = call[c],
           c \in seen[p].calls => ApplyMedia(p) \/ ApplyCreate(p)
    PROVE  Answers(c, u)'
<1>1. CASE part'[c][u] = part[c][u]
  BY <1>1 DEF Answers
<1>2. CASE ~ApplyCreate(p) /\ <<c, u>> \in seen[p].rows
  <2>1. ApplyMedia(p)
    BY <1>2 DEF PeerFits, RequestFits
  <2>. QED BY <1>1, <2>1 DEF ApplyMedia, db
<1>3. part[c][u].status # "none"
  BY DEF Answers
<1>4. ~(ApplyAccept(p) /\ ApplyCreate(p))
  BY DEF ApplyAccept, ApplyCreate, Runs
<1>. QED BY <1>1, <1>2, <1>3, <1>4, RowWrites DEF RowWritten

\* Every step leaves an accepted call with the row of the user who answered it.
LEMMA NextAnswered ==
    ASSUME TypeOK, RequestsInv, AnswererHoldsAcceptedCall, [Next]_vars
    PROVE  AnswererHoldsAcceptedCall'
<1>1. CASE UNCHANGED <<call, part>>
  BY <1>1 DEF AnswererHoldsAcceptedCall
<1>2. ASSUME NEW p \in Peers, Statement(p), NEW c \in Calls, call'[c].status = "accepted"
      PROVE  \E u \in Users : Answers(c, u)'
  <2>1. PeerFits(p)
    BY DEF RequestsInv
  <2>2. CASE /\ call[c].status = "accepted" /\ call'[c] = call[c]
             /\ c \in seen[p].calls => ApplyMedia(p) \/ ApplyCreate(p)
    <3>1. PICK u \in Users : Answers(c, u)
      BY <2>2 DEF AnswererHoldsAcceptedCall, Answers
    <3>. QED BY <1>2, <2>1, <2>2, <3>1, AnswersStay
  <2>3. CASE ApplyAccept(p) /\ c \in seen[p].calls /\ call'[c].answerer = p
    <3>1. /\ seen[p].up /\ <<c, bound[p]>> \in seen[p].rows
          /\ bound[p] \in Users /\ bound[p] \in Accounts[p]
      BY <2>1, <2>3 DEF ApplyAccept, Runs, PeerFits, RequestFits, RequestIsBound, SessionIsBound,
                       CleanupOps, TypeOK
    <3>2. part'[c][bound[p]] = AcceptedRow(p, part[c][bound[p]])
      BY <2>3, <3>1 DEF ApplyAccept, Targeted
    <3>3. part'[c][bound[p]].status = "accepted" /\ part'[c][bound[p]].joined = p
      BY <3>1, <3>2, AcceptedRowAnswers
    <3>. QED BY <2>3, <3>1, <3>3 DEF Answers
  <2>. QED BY <1>2, <2>2, <2>3, CallWrites
<1>3. ASSUME NEW p \in Peers, Statement(p) PROVE AnswererHoldsAcceptedCall'
  BY <1>2, <1>3 DEF AnswererHoldsAcceptedCall, Answers
<1>4. ASSUME NEW p \in Peers, Client(p) \/ Begin(p) \/ Abort(p) \/ Media(p)
      PROVE  UNCHANGED <<call, part>>
  BY <1>4, ClientKeepsOthers, MediaKeepsOthers DEF Begin, Abort, db
<1>5. CASE Restart \/ OtherNodeStarts \/ UNCHANGED vars
  BY <1>1, <1>5 DEF Restart, OtherNodeStarts, vars
<1>. QED BY <1>1, <1>3, <1>4, <1>5 DEF Next, Handler

\* acceptDirectCall writes the row of whoever answers beside the call's status, and only
\* what ends the call or answers it anew writes over either: the disconnect cleanup of the
\* connection that answered finds every accepted call, a revived one included.
THEOREM AnswerersHoldAcceptedCalls ==
    NoOtherNode /\ Spec => []AnswererHoldsAcceptedCall
<1>1. Init => AnswererHoldsAcceptedCall
  BY DEF Init, NoCallRow, AnswererHoldsAcceptedCall
<1>2. Typed /\ RequestsInv /\ AnswererHoldsAcceptedCall /\ [Next]_vars
          => AnswererHoldsAcceptedCall'
  BY NextAnswered DEF Typed
<1>. QED BY <1>1, <1>2, AlwaysTyped, RequestsInvariant, PTL DEF Spec
=============================================================================
