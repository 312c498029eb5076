----------------------- MODULE DirectCallSerialProofs -----------------------
(***************************************************************************)
(* What DirectCall keeps when its statements do not overlap: one slot in   *)
(* the Postgres pool, and any connections, accounts, calls and faults.     *)
(* Everything rests on one fact: a running statement's snapshot is still   *)
(* the state of the tables when it writes.                                 *)
(***************************************************************************)
EXTENDS DirectCallRoomsProofs, FiniteSetTheorems

\* What p's statement read is what the tables hold.
FreshSnapshot(p) ==
    /\ seen[p].calls = Target(p)
    /\ seen[p].rows = {r \in Target(p) \X Users : Participates(r[2], r[1])}
    /\ seen[p].alloc = alloc \cap Target(p)

SerialInv == /\ PoolSize = 1
             /\ \A p, q \in Running : p = q
             /\ \A p \in Running : FreshSnapshot(p)

\* A statement starts only when none runs.
LEMMA BeginsAlone ==
    ASSUME SerialInv, NEW p \in Peers, Begin(p) PROVE Running = {}
<1>1. ASSUME NEW q \in Running PROVE FALSE
  <2>1. Running = {q}
    BY <1>1 DEF SerialInv
  <2>2. Cardinality(Running) = 1
    BY <2>1, FS_Singleton
  <2>3. Cardinality(Running) < 1
    BY DEF Begin, SerialInv
  <2>. QED BY <2>2, <2>3
<1>. QED BY <1>1

\* A step that leaves the tables and the running statements alone.
LEMMA SerialStays ==
    ASSUME SerialInv, UNCHANGED <<call, part, alloc, seen>>,
           \A q \in Peers : phase'[q] = "running" =>
               phase[q] = "running" /\ job'[q] = job[q] /\ bound'[q] = bound[q]
    PROVE  SerialInv'
<1>1. Running' \subseteq Running
  BY DEF Running
<1>2. ASSUME NEW q \in Running' PROVE FreshSnapshot(q)'
  <2>1. q \in Running /\ job'[q] = job[q] /\ bound'[q] = bound[q]
    BY <1>2 DEF Running
  <2>2. Target(q)' = Target(q)
    BY <2>1 DEF Target, Affected, Requested, Holds, Participates
  <2>. QED BY <2>1, <2>2 DEF SerialInv, FreshSnapshot, Participates
<1>. QED BY <1>1, <1>2 DEF SerialInv

\* A statement that has written is no longer running.
LEMMA StatementStops ==
    ASSUME TypeOK, NEW p \in Peers, Statement(p)
    PROVE  phase[p] = "running" /\ phase'[p] # "running"
<1>1. ASSUME NEW next \in {"idle", "queued", "join_room", "open", "close_peers"}, Proceed(p, next)
      PROVE  phase'[p] # "running"
  BY <1>1 DEF Proceed, TypeOK
<1>2. ASSUME NEW next \in {"join_room", "open", "close_peers", "idle"},
             Reply(p, NextPhase(p, next)) \/ Reply(p, next)
      PROVE  phase'[p] # "running"
  BY <1>1, <1>2 DEF Reply, NextPhase
<1>3. CASE ApplyCreate(p)
  BY <1>3 DEF ApplyCreate, CreateAnswered, Runs, TypeOK
<1>4. CASE ApplyAccept(p) \/ ApplyDecline(p) \/ ApplyMedia(p)
  BY <1>2, <1>4 DEF ApplyAccept, ApplyDecline, ApplyMedia, Runs
<1>5. CASE ApplyHangup(p) \/ ApplyDisconnect(p)
  BY <1>1, <1>5 DEF ApplyHangup, ApplyDisconnect, EndCalls, NextPhase, Runs
<1>. QED BY <1>3, <1>4, <1>5 DEF Statement

LEMMA NextSerialInv ==
    ASSUME TypeOK, SerialInv, [Next]_vars PROVE SerialInv'
<1>1. ASSUME NEW p \in Peers, Client(p) PROVE SerialInv'
  <2>1. UNCHANGED <<call, part, alloc, seen>> /\ \A q \in Peers \ {p} : Kept(q)
    BY <1>1, ClientKeepsOthers
  <2>2. phase'[p] = "running" => phase[p] = "running" /\ job'[p] = job[p] /\ bound'[p] = bound[p]
    BY <1>1 DEF Client, Connect, BindSession, Logout, Disconnect, RequestCreate, RequestOnCall,
                Submit, Idle, work, TypeOK
  <2>. QED BY <2>1, <2>2, SerialStays DEF Kept
<1>2. ASSUME NEW p \in Peers, Begin(p) PROVE SerialInv'
  <2>1. Running = {}
    BY <1>2, BeginsAlone
  <2>2. /\ UNCHANGED <<call, part, alloc, job, bound>> /\ seen'[p] = Snapshot(p)
        /\ \A q \in Peers : phase'[q] = "running" => q = p
    BY <1>2, <2>1 DEF Begin, db, TypeOK, Running
  <2>3. Target(p)' = Target(p)
    BY <2>2 DEF Target, Affected, Requested, Holds, Participates
  <2>4. FreshSnapshot(p)'
    BY <2>2, <2>3 DEF FreshSnapshot, Snapshot, Participates
  <2>5. \A q \in Running' : q = p
    BY <2>2 DEF Running
  <2>. QED BY <2>4, <2>5 DEF SerialInv
<1>3. ASSUME NEW p \in Peers, Abort(p) PROVE SerialInv'
  <2>1. UNCHANGED <<call, part, alloc, seen, bound>>
    BY <1>3 DEF Abort, db
  <2>2. \A q \in Peers : phase'[q] = "running" => phase[q] = "running" /\ job'[q] = job[q]
    BY <1>3 DEF Abort, TypeOK
  <2>. QED BY <2>1, <2>2, SerialStays
<1>4. ASSUME NEW p \in Peers, Statement(p) PROVE SerialInv'
  <2>1. phase[p] = "running" /\ phase'[p] # "running" /\ \A q \in Peers \ {p} : phase'[q] = phase[q]
    BY <1>4, StatementStops, StatementKeepsOthers DEF Kept
  <2>2. \A q \in Running : q = p
    BY <2>1 DEF SerialInv, Running
  <2>3. Running' = {}
    BY <2>1, <2>2 DEF Running
  <2>. QED BY <2>3 DEF SerialInv
<1>5. ASSUME NEW p \in Peers, Media(p) PROVE SerialInv'
  <2>1. UNCHANGED <<call, part, alloc, seen, bound>> /\ \A q \in Peers \ {p} : Kept(q)
    BY <1>5, MediaKeepsOthers DEF db
  <2>2. ASSUME NEW next, Proceed(p, next), next # "running" PROVE phase'[p] # "running"
    BY <2>2 DEF Proceed, TypeOK
  <2>3. CASE CloseSession(p) \/ Hooks(p)
    BY <2>1, <2>3, SerialStays DEF CloseSession, Hooks, Kept, TypeOK
  <2>4. CASE phase'[p] # "running"
    BY <2>1, <2>4, SerialStays DEF Kept
  <2>5. CASE CreateRoom(p) \/ JoinRoom(p) \/ OpenTransport(p) \/ Rejoin(p)
    BY <2>2, <2>4, <2>5 DEF CreateRoom, JoinRoom, OpenTransport, Rejoin
  <2>6. CASE CloseDone(p) \/ LeaveLast(p)
    BY <2>2, <2>4, <2>6 DEF CloseDone, LeaveLast
  <2>. QED BY <1>5, <2>3, <2>5, <2>6 DEF Media
<1>6. CASE Restart
  <2>1. Running' = {}
    BY <1>6 DEF Restart, Running
  <2>. QED BY <2>1 DEF SerialInv
<1>7. CASE OtherNodeStarts \/ UNCHANGED vars
  BY <1>7, SerialStays DEF OtherNodeStarts, vars, work
<1>. QED BY <1>1, <1>2, <1>3, <1>4, <1>5, <1>6, <1>7 DEF Next, Handler

\* With one slot, a statement writes onto exactly what it read.
THEOREM SnapshotsAreFresh == PoolSize = 1 /\ Spec => []SerialInv
<1>1. PoolSize = 1 /\ Init => SerialInv
  BY DEF Init, SerialInv, Running
<1>2. Typed /\ SerialInv /\ [Next]_vars => SerialInv'
  BY NextSerialInv DEF Typed
<1>. QED BY <1>1, <1>2, AlwaysTyped, PTL DEF Spec

-----------------------------------------------------------------------------
(* The life of a call                                                      *)

InvitesOne(p) == \E k \in Calls :
    /\ call[k].status = "none"
    /\ call' = [call EXCEPT ![k] = InvitedCall(bound[p], job[p].id)]
    /\ alloc' = alloc \cup {k}

AnswersOne(p) == /\ call' = Stamped(p, "accepted") /\ alloc' = alloc
                 /\ \E k : seen[p].calls \subseteq {k}
                 /\ \A c \in seen[p].calls : call[c].status = "invited"

FinishesCalls(p) == /\ \E s \in Over : call' = Stamped(p, s)
                    /\ alloc \ seen[p].calls \subseteq alloc'
                    /\ \A c \in seen[p].calls : call[c].status \in Active

\* What a statement that does not overlap another does to the calls.
LEMMA CallSteps ==
    ASSUME TypeOK, SerialInv, NEW p \in Peers, Statement(p)
    PROVE  \/ InvitesOne(p) \/ AnswersOne(p) \/ FinishesCalls(p)
           \/ call' = call /\ alloc \subseteq alloc'
<1>1. FreshSnapshot(p)
  BY StatementStops DEF SerialInv, Running
<1>2. ASSUME job[p].op \notin CleanupOps, NEW c \in seen[p].calls
      PROVE  c = job[p].call /\ call[c].status \in StatusGuard(job[p].op)
  BY <1>1, <1>2 DEF FreshSnapshot, Target, Requested
<1>3. ASSUME job[p].op \in CleanupOps, NEW c \in seen[p].calls PROVE call[c].status \in Active
  BY <1>1, <1>3 DEF FreshSnapshot, Target, Affected
<1>4. CASE ApplyCreate(p)
  <2>1. PICK k \in Calls :
          /\ \/ call' = call
             \/ /\ call[k].status = "none"
                /\ call' = [call EXCEPT ![k] = InvitedCall(bound[p], job[p].id)]
          /\ alloc' = alloc \cup {k}
    BY <1>4 DEF ApplyCreate, CreateAnswered, Twins, FreeCalls
  <2>. QED BY <2>1 DEF InvitesOne
<1>5. CASE ApplyAccept(p)
  <2>1. job[p].op = "accept" /\ job[p].op \notin CleanupOps
    BY <1>5 DEF ApplyAccept, Runs, CleanupOps
  <2>2. StatusGuard("accept") = {"invited"}
    BY DEF StatusGuard
  <2>3. \A c \in seen[p].calls : c = job[p].call /\ call[c].status = "invited"
    BY <1>2, <2>1, <2>2
  <2>4. seen[p].calls \subseteq {job[p].call}
    BY <2>3
  <2>. QED BY <1>5, <2>3, <2>4 DEF ApplyAccept, AnswersOne
<1>6. CASE ApplyDecline(p)
  <2>1. job[p].op = "decline" /\ job[p].op \notin CleanupOps
    BY <1>6 DEF ApplyDecline, Runs, CleanupOps
  <2>2. StatusGuard("decline") \subseteq Active
    BY DEF StatusGuard, Active
  <2>3. \A c \in seen[p].calls : call[c].status \in Active
    BY <1>2, <2>1, <2>2
  <2>. QED BY <1>6, <2>3 DEF ApplyDecline, FinishesCalls, Over
<1>7. ASSUME NEW next, EndCalls(p, next), \A c \in seen[p].calls : call[c].status \in Active
      PROVE  FinishesCalls(p)
  <2>1. seen[p].alloc \subseteq seen[p].calls
    BY <1>1 DEF FreshSnapshot
  <2>. QED BY <1>7, <2>1 DEF EndCalls, FinishesCalls, Over
<1>8. CASE ApplyHangup(p)
  <2>1. job[p].op = "hangup" /\ job[p].op \notin CleanupOps
    BY <1>8 DEF ApplyHangup, Runs, CleanupOps
  <2>2. StatusGuard("hangup") = Active
    BY DEF StatusGuard
  <2>. QED BY <1>2, <1>7, <1>8, <2>1, <2>2 DEF ApplyHangup
<1>9. CASE ApplyDisconnect(p)
  BY <1>3, <1>7, <1>9 DEF ApplyDisconnect
<1>10. CASE ApplyMedia(p)
  BY <1>10 DEF ApplyMedia, db
<1>. QED BY <1>4, <1>5, <1>6, <1>8, <1>9, <1>10 DEF Statement

LEMMA StampedStatus ==
    ASSUME TypeOK, NEW p \in Peers, NEW s, NEW c \in Calls
    PROVE  Stamped(p, s)[c].status = IF c \in seen[p].calls THEN s ELSE call[c].status
BY DEF Stamped, TypeOK, CallRows

\* Nothing but a statement writes to the calls and their allocations.
LEMMA OnlyStatementsWrite ==
    ASSUME TypeOK, [Next]_vars PROVE UNCHANGED <<call, part, alloc>> \/ \E p \in Peers : Statement(p)
<1>1. ASSUME NEW p \in Peers, Client(p) \/ Begin(p) \/ Abort(p) \/ Media(p)
      PROVE  UNCHANGED <<call, part, alloc>>
  BY <1>1, ClientKeepsOthers, MediaKeepsOthers DEF Begin, Abort, db
<1>2. CASE Restart \/ OtherNodeStarts \/ UNCHANGED vars
  BY <1>2 DEF Restart, OtherNodeStarts, vars
<1>. QED BY <1>1, <1>2 DEF Next, Handler

LEMMA NextAllocated ==
    ASSUME TypeOK, SerialInv, CallInProgressIsAllocated, [Next]_vars
    PROVE  CallInProgressIsAllocated'
<1>1. CASE UNCHANGED <<call, part, alloc>>
  BY <1>1 DEF CallInProgressIsAllocated
<1>2. ASSUME NEW p \in Peers, Statement(p), NEW c \in Calls, call'[c].status \in Active
      PROVE  c \in alloc'
  <2>1. CASE InvitesOne(p)
    BY <1>2, <2>1 DEF InvitesOne, CallInProgressIsAllocated, TypeOK
  <2>2. CASE AnswersOne(p)
    <3>1. call[c].status \in Active
      BY <1>2, <2>2, StampedStatus DEF AnswersOne, Active
    <3>. QED BY <2>2, <3>1 DEF AnswersOne, CallInProgressIsAllocated
  <2>3. CASE FinishesCalls(p)
    <3>1. call[c].status \in Active /\ c \notin seen[p].calls
      BY <1>2, <2>3, StampedStatus DEF FinishesCalls, Over, Active
    <3>. QED BY <2>3, <3>1 DEF FinishesCalls, CallInProgressIsAllocated
  <2>4. CASE call' = call /\ alloc \subseteq alloc'
    BY <1>2, <2>4 DEF CallInProgressIsAllocated
  <2>. QED BY <1>2, <2>1, <2>2, <2>3, <2>4, CallSteps
<1>. QED BY <1>1, <1>2, OnlyStatementsWrite DEF CallInProgressIsAllocated

\* One pool slot: a call in progress has the allocation from which its room is found, since
\* the statement that deletes the allocation ends exactly the calls it deletes it for.
THEOREM CallsInProgressAreAllocated ==
    PoolSize = 1 /\ Spec => []CallInProgressIsAllocated
<1>1. Init => CallInProgressIsAllocated
  BY DEF Init, NoCallRow, CallInProgressIsAllocated, Active
<1>2. Typed /\ SerialInv /\ CallInProgressIsAllocated /\ [Next]_vars => CallInProgressIsAllocated'
  BY NextAllocated DEF Typed
<1>. QED BY <1>1, <1>2, AlwaysTyped, SnapshotsAreFresh, PTL DEF Spec

\* Each step is a step of CallLifecycle or leaves the lives of all calls alone.
LEMMA NextLifecycle ==
    ASSUME TypeOK, SerialInv, [Next]_vars PROVE [Lifecycle!Next]_Life
<1>1. CASE call' = call
  BY <1>1 DEF Life
<1>2. ASSUME NEW p \in Peers, InvitesOne(p) PROVE Lifecycle!Next
  <2>1. PICK k \in Calls :
          /\ call[k].status = "none"
          /\ call' = [call EXCEPT ![k] = InvitedCall(bound[p], job[p].id)]
    BY <1>2 DEF InvitesOne
  <2>2. /\ \A c \in Calls : Life'[c] = IF c = k THEN "invited" ELSE Life[c]
        /\ Life[k] = "none"
    BY <2>1 DEF InvitedCall, Life, Over, TypeOK
  <2>3. Life' = [Life EXCEPT ![k] = "invited"]
    BY <2>2 DEF Life
  <2>. QED BY <2>2, <2>3 DEF Lifecycle!Next, Lifecycle!Invite
<1>3. ASSUME NEW p \in Peers, AnswersOne(p) PROVE [Lifecycle!Next]_Life
  <2>1. /\ seen[p].calls \subseteq Calls
        /\ \A c \in Calls : Life'[c] = IF c \in seen[p].calls THEN "accepted" ELSE Life[c]
        /\ \A c \in seen[p].calls : Life[c] = "invited"
    BY <1>3, StampedStatus DEF AnswersOne, Life, Over, TypeOK, Snapshots
  <2>2. CASE seen[p].calls = {}
    BY <2>1, <2>2 DEF Life
  <2>3. CASE seen[p].calls # {}
    <3>1. PICK k \in Calls : seen[p].calls = {k}
      BY <1>3, <2>1, <2>3 DEF AnswersOne
    <3>2. Life' = [Life EXCEPT ![k] = "accepted"]
      BY <2>1, <3>1 DEF Life
    <3>. QED BY <2>1, <3>1, <3>2 DEF Lifecycle!Next, Lifecycle!Answer
  <2>. QED BY <2>2, <2>3
<1>4. ASSUME NEW p \in Peers, FinishesCalls(p) PROVE Lifecycle!Next
  <2>1. PICK s \in Over : call' = Stamped(p, s)
    BY <1>4 DEF FinishesCalls
  <2>2. /\ seen[p].calls \in SUBSET Calls
        /\ \A c \in Calls : Life'[c] = IF c \in seen[p].calls THEN "over" ELSE Life[c]
        /\ \A c \in seen[p].calls : Life[c] \in {"invited", "accepted"}
    BY <1>4, <2>1, StampedStatus DEF FinishesCalls, Life, Over, Active, TypeOK, Snapshots
  <2>3. Life' = [c \in Calls |-> IF c \in seen[p].calls THEN "over" ELSE Life[c]]
    BY <2>2 DEF Life
  <2>. QED BY <2>2, <2>3 DEF Lifecycle!Next, Lifecycle!Finish
<1>. QED BY <1>1, <1>2, <1>3, <1>4, CallSteps, OnlyStatementsWrite

\* One pool slot: the direct-call store implements CallLifecycle.  A call is answered only
\* while it is invited and never revived once it is over.
THEOREM CallsLiveOnce == PoolSize = 1 /\ Spec => ImplementsLifecycle
<1>1. Init => Lifecycle!Init
  BY DEF Init, NoCallRow, Lifecycle!Init, Life, Over
<1>2. Typed /\ SerialInv /\ [Next]_vars => [Lifecycle!Next]_Life
  BY NextLifecycle DEF Typed
<1>. QED BY <1>1, <1>2, AlwaysTyped, SnapshotsAreFresh, PTL
         DEF Spec, ImplementsLifecycle, Lifecycle!Spec

-----------------------------------------------------------------------------
(* What the cleanup of a closed connection leaves behind                   *)

\* The disconnect cleanup of p has run: its handler closes media sessions, goes on to the
\* mediasoup hook, or is through.
CleanedUp(p) ==
    \/ conn[p] = "closed"
    \/ job[p].op \in CleanupOps /\ phase[p] = "close_peers"
    \/ job[p].op \in CleanupOps /\ phase[p] = "leave_room" /\ conn[p] # "lost"

CleanupInv ==
    /\ \A p \in Peers : conn[p] = "closed" => phase[p] = "idle"
    /\ \A p \in Peers, c \in Calls : CleanedUp(p) => ~HoldsInProgress(p, c)
    /\ \A c \in Calls, u \in Users : call[c].status = "none" => part[c][u] = NoRow

Names(p, c, u) == p \in {part[c][u].invited, part[c][u].joined}

\* A statement puts its own connection into rows and no other.
LEMMA NamesArise ==
    ASSUME TypeOK, NEW p \in Peers, Statement(p), NEW q \in Peers \ {p},
           NEW c \in Calls, NEW u \in Users, Names(q, c, u)'
    PROVE  Names(q, c, u)
<1>1. part[c][u] \in PartRows /\ q # NoPeer
  BY ConstantsAssumption DEF TypeOK
<1>2. CASE part'[c][u] = part[c][u]
  BY <1>2 DEF Names
<1>3. ASSUME part'[c][u] = InvitedRow(p, c, u) PROVE Names(q, c, u)
  <2>1. \/ InvitedRow(p, c, u) = part[c][u]
        \/ InvitedRow(p, c, u).invited \in {p, NoPeer} /\ InvitedRow(p, c, u).joined \in {p, NoPeer}
    BY DEF InvitedRow, NoRow
  <2>. QED BY <1>1, <1>3, <2>1 DEF Names
<1>4. ASSUME part'[c][u] = AcceptedRow(p, part[c][u]) PROVE Names(q, c, u)
  <2>1. AcceptedRow(p, part[c][u]).joined = p
        /\ AcceptedRow(p, part[c][u]).invited = part[c][u].invited
    BY <1>1 DEF AcceptedRow, PartRows
  <2>. QED BY <1>4, <2>1 DEF Names
<1>5. ASSUME NEW s, part'[c][u] = WithStatus(part[c][u], s) PROVE Names(q, c, u)
  <2>1. /\ WithStatus(part[c][u], s).joined = part[c][u].joined
        /\ WithStatus(part[c][u], s).invited = part[c][u].invited
    BY <1>1 DEF WithStatus, PartRows
  <2>. QED BY <1>5, <2>1 DEF Names
<1>. QED BY <1>2, <1>3, <1>4, <1>5, RowWrites DEF RowWritten

LEMMA HoldsArise ==
    ASSUME TypeOK, NEW p \in Peers, Statement(p), NEW q \in Peers \ {p}, NEW c \in Calls,
           Holds(q, c)'
    PROVE  Holds(q, c)
<1>1. PICK u \in Users : Names(q, c, u)'
  BY DEF Holds, Names
<1>2. Names(q, c, u)
  BY <1>1, NamesArise
<1>. QED BY <1>2 DEF Holds, Names

\* A call that no INSERT has made has no participants.
LEMMA FreeCallsStayEmpty ==
    ASSUME TypeOK, SerialInv, CleanupInv, NEW p \in Peers, Statement(p),
           NEW c \in Calls, NEW u \in Users, call'[c].status = "none"
    PROVE  part'[c][u] = NoRow
<1>1. CASE ApplyCreate(p)
  <2>1. PICK k \in Calls :
          /\ \/ call' = call /\ call[k].status # "none"
             \/ call' = [call EXCEPT ![k] = InvitedCall(bound[p], job[p].id)]
          /\ part' = [part EXCEPT ![k] = [v \in Users |-> InvitedRow(p, k, v)]]
    BY <1>1 DEF ApplyCreate, CreateAnswered, Twins, FreeCalls
  <2>2. c # k /\ call'[c] = call[c]
    BY <2>1 DEF InvitedCall, TypeOK
  <2>. QED BY <2>1, <2>2 DEF CleanupInv, TypeOK
<1>2. CASE ~ApplyCreate(p)
  <2>1. FreshSnapshot(p)
    BY StatementStops DEF SerialInv, Running
  <2>2. call[c].status = "none"
    <3>1. CASE InvitesOne(p)
      BY <3>1 DEF InvitesOne, TypeOK
    <3>2. CASE AnswersOne(p)
      BY <3>2, StampedStatus DEF AnswersOne
    <3>3. CASE FinishesCalls(p)
      BY <3>3, StampedStatus DEF FinishesCalls, Over
    <3>. QED BY <3>1, <3>2, <3>3, CallSteps
  <2>3. part[c][u] = NoRow
    BY <2>2 DEF CleanupInv
  <2>4. <<c, u>> \notin seen[p].rows
    BY <2>1, <2>3 DEF FreshSnapshot, Participates, NoRow
  <2>. QED BY <1>2, <2>3, <2>4, RowWrites DEF RowWritten
<1>. QED BY <1>1, <1>2

\* A statement gives no connection but p a call in progress.
LEMMA HoldsInProgressArise ==
    ASSUME TypeOK, SerialInv, CleanupInv, NEW p \in Peers, Statement(p), NEW q \in Peers \ {p},
           NEW c \in Calls, HoldsInProgress(q, c)'
    PROVE  HoldsInProgress(q, c)
<1>1. Holds(q, c) /\ call'[c].status \in Active
  BY HoldsArise DEF HoldsInProgress
<1>2. CASE call[c].status = "none"
  <2>1. \A u \in Users : part[c][u] = NoRow
    BY <1>2 DEF CleanupInv
  <2>2. q # NoPeer
    BY ConstantsAssumption
  <2>. QED BY <1>1, <2>1, <2>2 DEF Holds, NoRow
<1>3. CASE InvitesOne(p)
  <2>1. call[c].status \in Active \/ call[c].status = "none"
    BY <1>1, <1>3 DEF InvitesOne, TypeOK
  <2>. QED BY <1>1, <1>2, <2>1 DEF HoldsInProgress
<1>4. CASE AnswersOne(p)
  BY <1>1, <1>4, StampedStatus DEF AnswersOne, HoldsInProgress, Active
<1>5. CASE FinishesCalls(p)
  BY <1>1, <1>5, StampedStatus DEF FinishesCalls, HoldsInProgress, Active, Over
<1>. QED BY <1>1, <1>3, <1>4, <1>5, CallSteps DEF HoldsInProgress

\* The cleanup statement ends every call in progress that its connection holds.
LEMMA CleanupLetsGo ==
    ASSUME TypeOK, SerialInv, NEW p \in Peers, ApplyDisconnect(p), NEW c \in Calls,
           HoldsInProgress(p, c)'
    PROVE  FALSE
<1>1. /\ seen[p].calls = Affected(p) /\ call' = Stamped(p, "ended")
      /\ \A d \in Calls, u \in Users : part'[d][u] =
            IF Targeted(p, d, u) THEN WithStatus(part[d][u], "ended") ELSE part[d][u]
  BY DEF ApplyDisconnect, EndCalls, SerialInv, Running, FreshSnapshot, Target, WithStatus
<1>2. c \notin Affected(p) /\ call[c].status \in Active
  BY <1>1, StampedStatus DEF HoldsInProgress, Active
<1>3. PICK u \in Users : p \in {part'[c][u].invited, part'[c][u].joined}
  BY DEF HoldsInProgress, Holds
<1>4. part[c][u] \in PartRows
  BY DEF TypeOK
<1>5. /\ WithStatus(part[c][u], "ended").joined = part[c][u].joined
      /\ WithStatus(part[c][u], "ended").invited = part[c][u].invited
  BY <1>4 DEF WithStatus, PartRows
<1>6. Holds(p, c)
  BY <1>1, <1>3, <1>5 DEF Holds
<1>. QED BY <1>2, <1>6 DEF Affected

\* A handler gets behind its cleanup only through the cleanup statement.
LEMMA BehindTheCleanup ==
    ASSUME TypeOK, CleanupInv, NEW p \in Peers, Client(p) \/ Handler(p)
    PROVE  /\ conn'[p] = "closed" => phase'[p] = "idle"
           /\ CleanedUp(p)' => (CleanedUp(p) /\ ~Statement(p)) \/ ApplyDisconnect(p)
<1>0. conn[p] = "closed" => phase[p] = "idle"
  BY DEF CleanupInv
<1>1. ASSUME NEW next, Proceed(p, next) PROVE phase'[p] = next /\ (next # "idle" => job'[p] = job[p])
  BY <1>1 DEF Proceed, TypeOK
<1>2. CASE Connect(p)
  <2>1. conn[p] = "new" /\ conn'[p] = "open" /\ phase' = phase /\ job' = job
    BY <1>2 DEF Connect, work, TypeOK
  <2>2. ~Statement(p) \/ phase[p] = "running"
    BY StatementStops
  <2>. QED BY <2>1, <2>2 DEF CleanedUp
<1>3. ASSUME conn'[p] # "closed", phase'[p] \notin {"close_peers", "leave_room"}
      PROVE  ~CleanedUp(p)'
  BY <1>3 DEF CleanedUp
<1>4. ASSUME NEW j, Submit(p, j) PROVE conn'[p] = "open" /\ phase'[p] = "queued"
  BY <1>4 DEF Submit, Idle, TypeOK
<1>5. CASE Client(p) /\ ~Connect(p)
  <2>1. conn'[p] \in {"open", "closing"} /\ phase'[p] \in {"idle", "queued", "hooks"}
    BY <1>4, <1>5 DEF Client, BindSession, Logout, Disconnect, RequestCreate, RequestOnCall,
                      Idle, work, TypeOK
  <2>. QED BY <1>3, <2>1
<1>6. CASE Begin(p)
  BY <1>0, <1>3, <1>6 DEF Begin, TypeOK
<1>7. CASE Abort(p)
  <2>1. /\ phase[p] = "queued" /\ ~Statement(p)
        /\ \/ phase'[p] = "idle" /\ conn' = conn
           \/ phase'[p] = "leave_room" /\ conn'[p] = "lost"
    BY <1>7, StatementStops DEF Abort, TypeOK
  <2>. QED BY <1>0, <2>1 DEF CleanedUp
<1>8. CASE Statement(p)
  <2>1. conn' = conn /\ conn[p] # "closed"
    BY <1>0, <1>8, StatementKeepsOthers, StatementStops
  <2>2. ASSUME ~ApplyDisconnect(p) PROVE job'[p].op \notin CleanupOps \/ phase'[p] = "queued"
    <3>1. ASSUME NEW next, Proceed(p, next), job[p].op \notin CleanupOps
          PROVE  job'[p].op \notin CleanupOps
      BY <3>1 DEF Proceed, TypeOK, NoJob, CleanupOps
    <3>2. CASE ApplyCreate(p)
      <4>1. phase'[p] \in {"create_room", "queued"} /\ job'[p].op = "create"
        BY <3>2 DEF ApplyCreate, CreateAnswered, Runs, TypeOK, Jobs
      <4>. QED BY <4>1 DEF CleanupOps
    <3>3. job[p].op \notin CleanupOps \/ ApplyCreate(p)
      BY <1>8, <2>2 DEF Statement, ApplyAccept, ApplyDecline, ApplyHangup, ApplyMedia, Runs, CleanupOps
    <3>4. ApplyCreate(p) \/ \E next : Proceed(p, next)
      BY <1>8, <2>2 DEF Statement, ApplyAccept, ApplyDecline, ApplyHangup, EndCalls, ApplyMedia, Reply
    <3>. QED BY <3>1, <3>2, <3>3, <3>4
  <2>. QED BY <2>1, <2>2 DEF CleanedUp
<1>9. CASE Media(p)
  <2>1. ~Statement(p) \/ phase[p] = "running"
    BY StatementStops
  <2>2. CASE CreateRoom(p) \/ JoinRoom(p) \/ OpenTransport(p) \/ Rejoin(p)
    <3>1. conn' = conn /\ conn[p] # "closed"
      BY <1>0, <2>2 DEF CreateRoom, JoinRoom, OpenTransport, Rejoin
    <3>2. phase'[p] \in {"join_room", "idle", "rejoin", "recreate"}
      BY <1>1, <2>2 DEF CreateRoom, JoinRoom, OpenTransport, Rejoin
    <3>. QED BY <1>3, <3>1, <3>2
  <2>3. CASE CloseSession(p)
    BY <1>0, <2>1, <2>3 DEF CloseSession, CleanedUp
  <2>4. CASE CloseDone(p)
    <3>1. /\ phase[p] = "close_peers"
          /\ job[p].op = "disconnect" => phase'[p] = "leave_room" /\ job'[p] = job[p]
          /\ job[p].op # "disconnect" => phase'[p] = "idle"
          /\ job[p].op # "cleanup" => conn' = conn
      BY <1>1, <2>4 DEF CloseDone
    <3>. QED BY <1>0, <2>1, <3>1 DEF CleanedUp, CleanupOps
  <2>5. CASE Hooks(p)
    BY <1>0, <1>3, <2>5 DEF Hooks, TypeOK
  <2>6. CASE LeaveLast(p)
    <3>1. /\ phase[p] = "leave_room" /\ job[p].op \in CleanupOps /\ phase'[p] = "idle"
          /\ conn[p] = "lost" => conn' = conn
      BY <1>1, <2>6 DEF LeaveLast, CleanupOps
    <3>. QED BY <1>0, <2>1, <3>1 DEF CleanedUp
  <2>. QED BY <1>9, <2>2, <2>3, <2>4, <2>5, <2>6 DEF Media
<1>. QED BY <1>2, <1>5, <1>6, <1>7, <1>8, <1>9 DEF Handler

LEMMA NextCleanupInv ==
    ASSUME TypeOK, SerialInv, CleanupInv, [Next]_vars PROVE CleanupInv'
<1>1. \A c \in Calls, u \in Users : call'[c].status = "none" => part'[c][u] = NoRow
  BY OnlyStatementsWrite, FreeCallsStayEmpty DEF CleanupInv
<1>2. ASSUME UNCHANGED <<call, part>>, NEW p \in Peers, NEW c \in Calls, CleanedUp(p)
      PROVE  ~HoldsInProgress(p, c)'
  BY <1>2 DEF CleanupInv, HoldsInProgress, Holds
<1>3. ASSUME NEW p \in Peers, Client(p) \/ Handler(p), NEW q \in Peers
      PROVE  /\ conn'[q] = "closed" => phase'[q] = "idle"
             /\ CleanedUp(q)' => \A c \in Calls : ~HoldsInProgress(q, c)'
  <2>1. ~Statement(p) => UNCHANGED <<call, part>>
    BY <1>3, ClientKeepsOthers, MediaKeepsOthers DEF Handler, Begin, Abort, db
  <2>2. CASE q = p
    BY <1>2, <1>3, <2>1, <2>2, BehindTheCleanup, CleanupLetsGo
  <2>3. CASE q # p
    <3>1. Kept(q)
      BY <1>3, <2>3, ClientKeepsOthers, HandlerKeepsOthers
    <3>2. (CleanedUp(q)' => CleanedUp(q)) /\ (conn'[q] = "closed" => phase'[q] = "idle")
      BY <3>1 DEF Kept, CleanedUp, CleanupInv
    <3>3. ASSUME Statement(p), CleanedUp(q), NEW c \in Calls PROVE ~HoldsInProgress(q, c)'
      BY <2>3, <3>3, HoldsInProgressArise DEF CleanupInv
    <3>. QED BY <1>2, <2>1, <3>2, <3>3
  <2>. QED BY <2>2, <2>3
<1>4. CASE Restart
  <2>1. UNCHANGED <<call, part>> /\ \A p \in Peers :
            phase'[p] = "idle" /\ (conn'[p] = "closed" => conn[p] = "closed")
    BY <1>4 DEF Restart
  <2>. QED BY <1>1, <1>2, <2>1 DEF CleanupInv, CleanedUp
<1>5. CASE OtherNodeStarts \/ UNCHANGED vars
  BY <1>1, <1>2, <1>5 DEF OtherNodeStarts, vars, work, CleanupInv, CleanedUp
<1>. QED BY <1>1, <1>3, <1>4, <1>5 DEF Next, CleanupInv

\* One pool slot: after handleDirectCallPeerDisconnected has run for a connection, no call
\* in progress is held by it, for good.
THEOREM ClosedPeersHoldNoCall == PoolSize = 1 /\ Spec => []ClosedPeerHoldsNoCall
<1>1. Init => CleanupInv
  BY DEF Init, CleanupInv, CleanedUp
<1>2. Typed /\ SerialInv /\ CleanupInv /\ [Next]_vars => CleanupInv'
  BY NextCleanupInv DEF Typed
<1>3. CleanupInv => ClosedPeerHoldsNoCall
  BY DEF CleanupInv, CleanedUp, ClosedPeerHoldsNoCall
<1>. QED BY <1>1, <1>2, <1>3, AlwaysTyped, SnapshotsAreFresh, PTL DEF Spec
=============================================================================
