----------------------- MODULE ConferenceSerialProofs -----------------------
(***************************************************************************)
(* What Conference keeps when its statements do not overlap: one slot in   *)
(* the Postgres pool, and any connections, accounts, conferences and       *)
(* faults.  A running statement's counts of sessions and members are still *)
(* right when it writes.                                                   *)
(***************************************************************************)
EXTENDS ConferenceProofs, FiniteSetTheorems

Running == {p \in Peers : phase[p] = "running"}

\* What p's statement read is what the tables hold.
FreshSnapshot(p) ==
    /\ seen[p].confs = Target(p) /\ seen[p].gone = {}
    /\ seen[p].away = {c \in Target(p) : Away(p, c) /\ mem[c][Actor(p)] # "none"}
    /\ seen[p].empty = {c \in Target(p) : Vacant(p, c)}

SerialInv == /\ PoolSize = 1
             /\ \A p, q \in Running : p = q
             /\ \A p \in Running : FreshSnapshot(p)
             /\ SessionsBelongToMembers

\* A step that leaves the tables and the running statements alone.
LEMMA SerialStays ==
    ASSUME SerialInv, UNCHANGED <<db, seen>>,
           \A q \in Peers : phase'[q] = "running" => phase[q] = "running" /\ job'[q] = job[q]
    PROVE  SerialInv'
<1>1. Running' \subseteq Running
  BY DEF Running
<1>2. ASSUME NEW q \in Running' PROVE FreshSnapshot(q)'
  <2>1. q \in Running /\ job'[q] = job[q]
    BY <1>2 DEF Running
  <2>2. Target(q)' = Target(q)
    BY <2>1 DEF Target, Requested, Exists, Actor, db
  <2>. QED BY <2>1, <2>2 DEF SerialInv, FreshSnapshot, Away, Vacant, Actor, db
<1>3. SessionsBelongToMembers'
  BY DEF SerialInv, SessionsBelongToMembers, db
<1>. QED BY <1>1, <1>2, <1>3 DEF SerialInv

\* A statement starts only when none runs, and finds the tables as they are.
LEMMA BeginSerial ==
    ASSUME TypeOK, SerialInv, NEW p \in Peers, Begin(p) PROVE SerialInv'
<1>1. ASSUME NEW q \in Running PROVE FALSE
  <2>1. Running = {q}
    BY <1>1 DEF SerialInv
  <2>2. Cardinality(Running) = 1
    BY <2>1, FS_Singleton
  <2>3. Cardinality(Running) < 1
    BY DEF Begin, SerialInv, Running
  <2>. QED BY <2>2, <2>3
<1>2. /\ UNCHANGED <<db, job>> /\ seen'[p] = Snapshot(p)
      /\ \A q \in Peers : phase'[q] = "running" => q = p
  BY <1>1 DEF Begin, TypeOK, Running
<1>3. Target(p)' = Target(p)
  BY <1>2 DEF Target, Requested, Exists, Actor, db
<1>4. FreshSnapshot(p)'
  BY <1>2, <1>3 DEF FreshSnapshot, Snapshot, Away, Vacant, Actor, db
<1>5. SessionsBelongToMembers'
  BY <1>2 DEF SerialInv, SessionsBelongToMembers, db
<1>. QED BY <1>2, <1>4, <1>5 DEF SerialInv, Running

\* A statement that has written is no longer running.
LEMMA StatementStops ==
    ASSUME TypeOK, NEW p \in Peers, Statement(p)
    PROVE  p \in Running /\ phase'[p] # "running" /\ \A q \in Peers \ {p} : phase'[q] = phase[q]
<1>1. ASSUME NEW next, Proceed(p, next), next # "running"
      PROVE  phase'[p] # "running" /\ \A q \in Peers \ {p} : phase'[q] = phase[q]
  BY <1>1 DEF Proceed, TypeOK
<1>2. ASSUME NEW next, NEW Q, Reply(p, next, Q), next # "running"
      PROVE  phase'[p] # "running" /\ \A q \in Peers \ {p} : phase'[q] = phase[q]
  BY <1>1, <1>2 DEF Reply
<1>3. ASSUME NEW next, next # "running" PROVE WithRoom(p, next) # "running"
  BY <1>3 DEF WithRoom
<1>4. p \in Running
  BY DEF Statement, ApplyCreate, ApplyJoin, ApplyClose, ApplyLeave, ApplyDisconnect, ApplyMedia,
         Runs, Running
<1>5. CASE ApplyCreate(p) \/ ApplyDisconnect(p)
  BY <1>2, <1>4, <1>5 DEF ApplyCreate, ApplyDisconnect
<1>6. CASE ApplyJoin(p)
  BY <1>1, <1>2, <1>3, <1>4, <1>6 DEF ApplyJoin
<1>7. CASE ApplyClose(p)
  BY <1>2, <1>3, <1>4, <1>7 DEF ApplyClose
<1>8. CASE ApplyLeave(p)
  BY <1>2, <1>3, <1>4, <1>8 DEF ApplyLeave
<1>9. CASE ApplyMedia(p)
  BY <1>2, <1>3, <1>4, <1>9 DEF ApplyMedia
<1>. QED BY <1>5, <1>6, <1>7, <1>8, <1>9 DEF Statement

\* Who enters becomes a joined member; who leaves stays one while a session of theirs is
\* open; a conference that is deleted loses its members and sessions together.
LEMMA StatementMembers ==
    ASSUME Typed, SerialInv, NEW p \in Peers, Statement(p) PROVE SessionsBelongToMembers'
<1>t. TypeOK /\ UserOf \in [Peers -> Users] /\ \A c \in Confs : csess[c] \subseteq Peers
  BY ConstantsAssumption DEF Typed, TypeOK
<1>f. FreshSnapshot(p) /\ SessionsBelongToMembers
  BY <1>t, StatementStops DEF SerialInv
<1>1. ASSUME NEW m, NEW s, NEW D, Write(p, m, s, D),
             \A c \in Confs : \A q \in s[c] : m[c][UserOf[q]] = "joined"
      PROVE  SessionsBelongToMembers'
  BY <1>1 DEF Write, SessionsBelongToMembers
<1>2. ASSUME NEW D, Write(p, mem, csess, D) PROVE SessionsBelongToMembers'
  BY <1>1, <1>2, <1>f DEF SessionsBelongToMembers
<1>3. ASSUME NEW e \in Confs, NEW c \in Confs, NEW q \in Opened(p, e)[c]
      PROVE  Entered(p, e)[c][UserOf[q]] = "joined"
  <2>1. (q = p /\ c = e) \/ q \in csess[c]
    BY <1>3, <1>t DEF Opened, TypeOK
  <2>. QED BY <1>t, <1>f, <2>1 DEF Entered, Actor, SessionsBelongToMembers, TypeOK
<1>4. ASSUME NEW c \in Confs, NEW q \in Closed(p)[c]
      PROVE  Departed(p)[c][UserOf[q]] = "joined"
  <2>1. q \in csess[c] /\ mem[c][UserOf[q]] = "joined"
    BY <1>4, <1>f DEF Closed, SessionsBelongToMembers
  <2>2. c \in seen[p].away => UserOf[q] # UserOf[p]
    BY <1>f, <2>1 DEF FreshSnapshot, Away
  <2>. QED BY <1>t, <2>1, <2>2 DEF Departed, Actor, TypeOK
<1>5. CASE ApplyCreate(p)
  <2>1. job[p].conf \in Confs
    BY <1>5, RequestNamesConf DEF ApplyCreate, Runs, ConfOps
  <2>2. mem' = Entered(p, job[p].conf) /\ csess' = Opened(p, job[p].conf)
    BY <1>5 DEF ApplyCreate
  <2>. QED BY <1>3, <2>1, <2>2 DEF SessionsBelongToMembers
<1>6. CASE ApplyJoin(p)
  <2>1. job[p].conf \in Confs
    BY <1>6, RequestNamesConf DEF ApplyJoin, Runs, ConfOps
  <2>2. \/ Write(p, Entered(p, job[p].conf), Opened(p, job[p].conf), {})
        \/ Write(p, mem, csess, {})
    BY <1>6 DEF ApplyJoin
  <2>. QED BY <1>1, <1>2, <1>3, <2>1, <2>2
<1>7. CASE ApplyClose(p) \/ ApplyMedia(p)
  BY <1>2, <1>7 DEF ApplyClose, ApplyMedia
<1>8. CASE ApplyLeave(p) \/ ApplyDisconnect(p)
  BY <1>1, <1>4, <1>8 DEF ApplyLeave, ApplyDisconnect
<1>. QED BY <1>5, <1>6, <1>7, <1>8 DEF Statement

LEMMA NextSerialInv ==
    ASSUME Typed, SerialInv, [Next]_vars PROVE SerialInv'
<1>t. TypeOK
  BY DEF Typed
<1>1. ASSUME NEW p \in Peers, Client(p) PROVE SerialInv'
  <2>1. UNCHANGED <<db, seen>>
    BY <1>1 DEF Client, Connect, Submit, Disconnect
  <2>2. \A q \in Peers : phase'[q] = "running" => phase[q] = "running" /\ job'[q] = job[q]
    BY <1>1, <1>t DEF Client, Connect, Submit, Disconnect, Idle, TypeOK
  <2>. QED BY <2>1, <2>2, SerialStays
<1>2. ASSUME NEW p \in Peers, NEW next, Proceed(p, next), next # "running", UNCHANGED <<db, seen>>
      PROVE  SerialInv'
  <2>1. \A q \in Peers : phase'[q] = "running" => phase[q] = "running" /\ job'[q] = job[q]
    BY <1>2, <1>t DEF Proceed, TypeOK
  <2>. QED BY <1>2, <2>1, SerialStays
<1>3. ASSUME NEW p \in Peers, Abort(p) \/ Catch(p) PROVE SerialInv'
  BY <1>2, <1>3 DEF Abort, Catch
<1>4. ASSUME NEW p \in Peers, Statement(p) PROVE SerialInv'
  <2>1. Running' = {}
    BY <1>4, <1>t, StatementStops DEF SerialInv, Running
  <2>2. SessionsBelongToMembers'
    BY <1>4, StatementMembers
  <2>. QED BY <2>1, <2>2 DEF SerialInv
<1>5. ASSUME NEW p \in Peers, Media(p) PROVE SerialInv'
  <2>1. CASE CloseSession(p)
    BY <2>1, SerialStays DEF CloseSession
  <2>2. CASE Hooks(p)
    <3>1. UNCHANGED <<db, seen>>
      BY <2>2 DEF Hooks
    <3>2. \A q \in Peers : phase'[q] = "running" => phase[q] = "running" /\ job'[q] = job[q]
      BY <2>2, <1>t DEF Hooks, TypeOK
    <3>. QED BY <3>1, <3>2, SerialStays
  <2>3. CASE CreateRoom(p) \/ JoinRoom(p) \/ LeaveRoom(p) \/ OpenTransport(p) \/ Rejoin(p)
    BY <1>2, <2>3 DEF CreateRoom, JoinRoom, LeaveRoom, OpenTransport, Rejoin
  <2>4. CASE CloseDone(p) \/ LeaveLast(p)
    BY <1>2, <2>4 DEF CloseDone, LeaveLast
  <2>. QED BY <1>5, <2>1, <2>2, <2>3, <2>4 DEF Media
<1>6. CASE Restart
  <2>1. Running' = {} /\ UNCHANGED db
    BY <1>6 DEF Restart, Running
  <2>. QED BY <2>1 DEF SerialInv, SessionsBelongToMembers, db
<1>7. CASE OtherNodeStarts \/ UNCHANGED vars
  BY <1>7, SerialStays DEF OtherNodeStarts, vars, db
<1>. QED BY <1>1, <1>3, <1>4, <1>5, <1>6, <1>7, <1>t, BeginSerial DEF Next, Handler

\* With one slot, a statement writes onto what it counted.
THEOREM SnapshotsAreFresh == PoolSize = 1 /\ Spec => []SerialInv
<1>1. PoolSize = 1 /\ Init => SerialInv
  BY DEF Init, SerialInv, Running, SessionsBelongToMembers
<1>2. Typed /\ SerialInv /\ [Next]_vars => SerialInv'
  BY NextSerialInv
<1>. QED BY <1>1, <1>2, AlwaysTyped, PTL DEF Spec

\* One pool slot: leaveConference and the disconnect cleanup turn a member row to left only
\* when no session of that user is open any more.
THEOREM SessionsHaveMembers == PoolSize = 1 /\ Spec => []SessionsBelongToMembers
BY SnapshotsAreFresh, PTL DEF SerialInv

\* What a step may do to a conference with an open session.
Evicts(c) == Exists(c) /\ ~Exists(c)' /\ csess[c] # {}

LEMMA OwnersEvict ==
    ASSUME Typed, SerialInv, [Next]_vars, NEW c \in Confs, Evicts(c)
    PROVE  \E p \in Peers : Runs(p, "close") /\ Actor(p) = owner[c]
<1>t. TypeOK
  BY DEF Typed
<1>1. PICK p \in Peers : Statement(p)
  <2>1. ASSUME NEW p \in Peers, Client(p) \/ Begin(p) \/ Abort(p) \/ Catch(p) \/ Media(p)
        PROVE  owner' = owner
    BY <2>1 DEF Client, Connect, Submit, Disconnect, Begin, Abort, Catch, Media, CreateRoom,
                JoinRoom, LeaveRoom, OpenTransport, Rejoin, CloseSession, CloseDone, Hooks,
                LeaveLast, db
  <2>2. CASE Restart \/ OtherNodeStarts \/ UNCHANGED vars
    BY <2>2 DEF Restart, OtherNodeStarts, vars, db, Evicts, Exists
  <2>. QED BY <2>1, <2>2 DEF Next, Handler, Evicts, Exists
<1>2. FreshSnapshot(p) /\ SessionsBelongToMembers
  BY <1>1, <1>t, StatementStops DEF SerialInv
<1>3. ASSUME NEW m, NEW s, NEW D, Write(p, m, s, D) PROVE c \in D
  BY <1>3 DEF Write, Evicts, Exists
<1>4. ~ApplyJoin(p) /\ ~ApplyMedia(p)
  BY <1>3 DEF ApplyJoin, ApplyMedia
<1>5. ~ApplyCreate(p)
  BY ConstantsAssumption, <1>t DEF ApplyCreate, Evicts, Exists, Actor, TypeOK
<1>6. ~ApplyLeave(p) /\ ~ApplyDisconnect(p)
  <2>. SUFFICES ASSUME c \in seen[p].empty PROVE FALSE
    BY <1>3 DEF ApplyLeave, ApplyDisconnect
  <2>1. PICK q \in csess[c] : mem[c][UserOf[q]] = "joined"
    BY <1>2 DEF Evicts, SessionsBelongToMembers
  <2>2. UserOf[q] \in Users
    BY <2>1, <1>t, ConstantsAssumption DEF TypeOK
  <2>. QED BY <1>2, <2>1, <2>2 DEF FreshSnapshot, Vacant
<1>7. ApplyClose(p)
  BY <1>1, <1>4, <1>5, <1>6 DEF Statement
<1>8. c \in Target(p) /\ job[p].op = "close"
  BY <1>2, <1>3, <1>7 DEF ApplyClose, Live, FreshSnapshot, Runs
<1>9. owner[c] = Actor(p)
  BY <1>8 DEF Target, CleanupOps
<1>. QED BY <1>7, <1>9 DEF ApplyClose

\* One pool slot: a conference in which somebody has an open session is deleted only by its
\* owner's close, never as an empty one.
THEOREM OwnersAloneEvict == PoolSize = 1 /\ Spec => OnlyTheOwnerEvicts
<1>1. Typed /\ SerialInv /\ [Next]_vars =>
        [\A c \in Confs : Exists(c) /\ ~Exists(c)' /\ csess[c] # {} =>
             \E p \in Peers : Runs(p, "close") /\ Actor(p) = owner[c]]_vars
  BY OwnersEvict DEF Evicts
<1>. QED BY <1>1, AlwaysTyped, SnapshotsAreFresh, PTL DEF Spec, OnlyTheOwnerEvicts
=============================================================================
