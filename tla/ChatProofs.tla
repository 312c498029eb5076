----------------------------- MODULE ChatProofs -----------------------------
(***************************************************************************)
(* Proofs about Chat, for any accounts, devices, requests, bounds, pool    *)
(* and faults: types, one message per request id, messages shown only to   *)
(* their readers, true receipts and read marks, and an outbox row for      *)
(* every recipient.                                                        *)
(***************************************************************************)
EXTENDS Chat, TLAPS, WellFoundedInduction

-----------------------------------------------------------------------------
(* The inductive invariant                                                 *)

\* Reads, of a row that is stored or still to be stored.
ReadsRow(u, r) ==
    IF r.chat = "direct" THEN u \in {r.by, r.to}
    ELSE member[u] # "none" /\ (r.to = NoUser \/ u \in {r.by, r.to})

\* Every stored message is what some client asked for.
MessagesWereRequested == \A m \in Stored : msgs[m] \in Requests

\* The job of p's handler: a send of p's own account, an acknowledgement of what a
\* client of the account has; after its commit a send knows its message.
JobFits(p) ==
    /\ phase[p] # "idle" => job[p].op # "none"
    /\ phase[p] = "running" => job[p].op \in {"send", "ack"}
    /\ job[p].op = "send" => job[p].req \in Requests /\ job[p].req.by = UserOf[p]
    /\ job[p].ids \subseteq shown[UserOf[p]]
    /\ phase[p] = "reply" /\ job[p].op = "send"
         => /\ seen[p].ok
            /\ job[p].msg \in Stored /\ msgs[job[p].msg] = job[p].req

\* The snapshot of p's statement stays true of the database it was taken from: who
\* could read then can read now.
ViewFits(p) ==
    /\ phase[p] \in {"idle", "queued"} => seen[p] = NoView
    /\ seen[p].msgs \subseteq Stored /\ \A m \in seen[p].msgs : Reads(UserOf[p], m)
    /\ job[p].op = "ack" => seen[p].msgs \subseteq job[p].ids
    /\ job[p].op # "send" => seen[p].peers = {}
    /\ seen[p].offline = seen[p].users \ {UserOf[q] : q \in seen[p].peers}
    /\ job[p].op = "send" /\ seen[p].ok
         => \A q \in seen[p].peers \cup {p} : ReadsRow(UserOf[q], job[p].req)

HandlersFit == \A p \in Peers : JobFits(p) /\ ViewFits(p)
ShownIsStored == \A u \in Users : shown[u] \subseteq Stored

ChatInv == /\ TypeOK /\ MessagesWereRequested /\ HandlersFit /\ ShownIsStored
           /\ OneMessagePerRequestId /\ OnlyReadersSee
           /\ ReceiptsAreTrue /\ LastReadIsRead /\ EveryRecipientHasARow

-----------------------------------------------------------------------------
(* Types                                                                   *)

MessageRows == [chat : Chats, by : Users, to : Users \cup {NoUser}, id : RequestIds]
Jobs == [op : {"none", "send", "sync", "ack"}, req : Requests \cup {NoRequest}, chat : Chats,
         ids : SUBSET Slots, read : BOOLEAN, msg : 0..MaxMessages]
Views == [users : SUBSET Users, peers : SUBSET Peers, offline : SUBSET Users,
          msgs : SUBSET Slots, ok : BOOLEAN]

\* What TypeOK says of the part of the state that is not a handler's.
TablesTyped ==
    /\ conn \in [Peers -> {"new", "open", "closed", "lost"}]
    /\ sess \in [Peers -> BOOLEAN]
    /\ member \in [Users -> {"none", "joined", "left"}]
    /\ msgs \in Seq(MessageRows) /\ Len(msgs) <= MaxMessages
    /\ receipt \in [Slots -> [Users -> Grades]]
    /\ lastRead \in [Users -> 0..MaxMessages]
    /\ outbox \subseteq Rows /\ claimed \subseteq Rows
    /\ shown \in [Users -> SUBSET Slots]
WorkTyped ==
    /\ phase \in [Peers -> {"idle", "queued", "running", "reply"}]
    /\ job \in [Peers -> Jobs] /\ seen \in [Peers -> Views]
    /\ left \in 0..MaxRequests

LEMMA TypeParts ==
    /\ TypeOK <=> TablesTyped /\ WorkTyped
    /\ TypeOK' <=> TablesTyped' /\ WorkTyped'
BY DEF TypeOK, TablesTyped, WorkTyped, MessageRows, Jobs, Views

LEMMA NothingTyped == NoJob \in Jobs /\ NoView \in Views
<1>1. 0 \in 0..MaxMessages
  BY ChatConstants
<1>. QED BY <1>1 DEF NoJob, NoView, Jobs, Views, Chats

LEMMA StoredAreSlots == TypeOK => Stored \subseteq Slots
BY ChatConstants DEF TypeOK, Stored, Slots

LEMMA RecipientsTyped ==
    ASSUME NEW r \in Requests PROVE Recipients(r) \subseteq Users
BY ChatConstants, SendsAreWellFormed DEF Recipients

LEMMA ViewTyped ==
    ASSUME TypeOK, NEW p \in Peers, JobFits(p), job[p].op # "none"
    PROVE  View(p) \in Views
<1>. DEFINE U == Recipients(job[p].req)
            active == ConnectedOf(U)
<1>1. job[p].op \in {"send", "sync", "ack"}
  BY DEF TypeOK
<1>2. CASE job[p].op = "send"
  <2>1. View(p) = [NoView EXCEPT !.users = U, !.peers = active,
                                 !.ok = MaySend(p, job[p].req),
                                 !.offline = U \ {UserOf[q] : q \in active}]
    BY <1>2 DEF View
  <2>2. U \subseteq Users
    BY <1>2, RecipientsTyped DEF JobFits
  <2>3. active \subseteq Peers
    BY DEF ConnectedOf
  <2>4. MaySend(p, job[p].req) \in BOOLEAN
    BY DEF MaySend, TypeOK
  <2>. HIDE DEF U, active
  <2>. QED BY <2>1, <2>2, <2>3, <2>4, NothingTyped DEF Views
<1>3. CASE job[p].op = "sync"
  <2>1. View(p) = [NoView EXCEPT !.ok = TRUE, !.msgs = Synced(p)]
    BY <1>3 DEF View
  <2>2. Synced(p) \subseteq Slots
    BY StoredAreSlots DEF Synced
  <2>. QED BY <2>1, <2>2, NothingTyped DEF Views
<1>4. CASE job[p].op = "ack"
  <2>1. View(p) = [NoView EXCEPT !.ok = TRUE, !.msgs = Acked(p)]
    BY <1>4 DEF View
  <2>2. Acked(p) \subseteq Slots
    BY StoredAreSlots DEF Acked
  <2>. QED BY <2>1, <2>2, NothingTyped DEF Views
<1>. QED BY <1>1, <1>2, <1>3, <1>4

\* A handler that finishes keeps the types of the handlers.
LEMMA FinishTyped ==
    ASSUME WorkTyped, NEW p \in Peers, Finish(p) PROVE WorkTyped'
BY NothingTyped DEF WorkTyped, Finish

LEMMA CommitTyped ==
    ASSUME WorkTyped, NEW p \in Peers, NEW m \in 0..MaxMessages, Commit(p, m), UNCHANGED left
    PROVE  WorkTyped'
<1>1. [job[p] EXCEPT !.msg = m] \in Jobs
  BY DEF WorkTyped, Jobs
<1>2. job' \in [Peers -> Jobs]
  BY <1>1 DEF Commit, WorkTyped
<1>. QED BY <1>2, NothingTyped DEF WorkTyped, Commit

LEMMA NewRowsTyped ==
    ASSUME TypeOK, NEW p \in Peers, NEW m \in Slots PROVE NewRows(p, m) \subseteq Rows
<1>1. seen[p].offline \subseteq Users /\ seen[p].peers \subseteq Peers
  BY DEF TypeOK
<1>2. [msg : {m}, user : seen[p].offline, peer : {NoPeer}, status : {"pending"}] \subseteq Rows
  BY <1>1 DEF Rows
<1>3. ASSUME NEW q \in seen[p].peers
      PROVE  [msg |-> m, user |-> UserOf[q], peer |-> q, status |-> "pending"] \in Rows
  BY <1>1, <1>3, ChatConstants DEF Rows
<1>. QED BY <1>2, <1>3 DEF NewRows

-----------------------------------------------------------------------------
(* The steps of the specification                                          *)

\* A step that no handler and no message is part of.
Quiet ==
    \/ \E p \in Peers : Connect(p) \/ Disconnect(p) \/ MarkDisconnected(p)
    \/ \E u \in Users : JoinConference(u) \/ LeaveConference(u)
    \/ Claim
    \/ UNCHANGED vars

LEMMA Steps ==
    ASSUME [Next]_vars
    PROVE  \/ Quiet \/ Restart
           \/ \E p \in Peers : \/ RequestSend(p) \/ RequestSync(p) \/ RequestAck(p)
                               \/ Begin(p) \/ Abort(p) \/ RefuseSend(p)
                               \/ ApplySend(p) \/ ApplyAck(p) \/ Reply(p)
BY DEF Next, Client, Handler, Dispatcher, DispatchClaimed, Crash, Quiet

\* What a step never takes back: who has been in the conference, what is stored,
\* what has been shown.
Grows ==
    /\ \A u \in Users : member[u] # "none" => member'[u] # "none"
    /\ \A m \in Stored : m \in Stored' /\ msgs'[m] = msgs[m]
    /\ \A u \in Users : shown[u] \subseteq shown'[u]

LEMMA ClaimedRow ==
    ASSUME NEW r \in Rows
    PROVE  LET s == [r EXCEPT !.status = "dispatching"]
           IN  s \in Rows /\ s.msg = r.msg /\ s.user = r.user
BY DEF Rows

LEMMA QuietKeeps ==
    ASSUME TypeOK, Quiet
    PROVE  UNCHANGED <<msgs, receipt, lastRead, work, shown>> /\ Grows /\ TypeOK'
<1>1. ASSUME NEW p \in Peers, Connect(p) \/ Disconnect(p) \/ MarkDisconnected(p)
      PROVE  UNCHANGED <<msgs, receipt, lastRead, work, shown>> /\ Grows /\ TypeOK'
  <2>1. UNCHANGED <<member, msgs, receipt, lastRead, outbox, work, shown, claimed>>
    BY <1>1 DEF Connect, Disconnect, MarkDisconnected, db
  <2>2. conn' \in [Peers -> {"new", "open", "closed", "lost"}] /\ sess' \in [Peers -> BOOLEAN]
    BY <1>1 DEF Connect, Disconnect, MarkDisconnected, db, TypeOK
  <2>. QED BY <2>1, <2>2 DEF TypeOK, Grows, work, Stored
<1>2. ASSUME NEW u \in Users, JoinConference(u) \/ LeaveConference(u)
      PROVE  UNCHANGED <<msgs, receipt, lastRead, work, shown>> /\ Grows /\ TypeOK'
  <2>1. UNCHANGED <<conn, sess, msgs, receipt, lastRead, outbox, work, shown, claimed>>
    BY <1>2 DEF JoinConference, LeaveConference
  <2>2. /\ member' \in [Users -> {"none", "joined", "left"}]
        /\ \A v \in Users : member[v] # "none" => member'[v] # "none"
    <3>1. member \in [Users -> {"none", "joined", "left"}]
      BY DEF TypeOK
    <3>2. PICK s \in {"joined", "left"} : member' = [member EXCEPT ![u] = s]
      BY <1>2 DEF JoinConference, LeaveConference
    <3>. QED BY <3>1, <3>2
  <2>. QED BY <2>1, <2>2 DEF TypeOK, Grows, work, Stored
<1>3. ASSUME Claim
      PROVE  UNCHANGED <<msgs, receipt, lastRead, work, shown>> /\ Grows /\ TypeOK'
  <2>1. \A r \in Claimable : [r EXCEPT !.status = "dispatching"] \in Rows
    <3>1. Claimable \subseteq Rows
      BY DEF Claimable, TypeOK
    <3>. QED BY <3>1, ClaimedRow
  <2>2. outbox' \subseteq Rows /\ claimed' \subseteq Rows
    BY <1>3, <2>1 DEF Claim, TypeOK
  <2>. QED BY <1>3, <2>2 DEF Claim, TypeOK, Grows, work, Stored
<1>4. CASE UNCHANGED vars
  BY <1>4 DEF vars, TypeOK, Grows, work, Stored
<1>. QED BY <1>1, <1>2, <1>3, <1>4 DEF Quiet

LEMMA ViewedPeers ==
    ASSUME TypeOK, NEW p \in Peers
    PROVE  seen[p].peers \cup {p} \subseteq Peers
BY DEF TypeOK

LEMMA ReaderStays ==
    ASSUME Grows, NEW q \in Peers, NEW r, ReadsRow(UserOf[q], r) PROVE ReadsRow(UserOf[q], r)'
<1>1. UserOf[q] \in Users
  BY ChatConstants
<1>. QED BY <1>1 DEF ReadsRow, Grows

\* A handler whose own part of the state does not change fits as before.
LEMMA Undisturbed ==
    ASSUME TypeOK, Grows, NEW p \in Peers, JobFits(p), ViewFits(p),
           phase'[p] = phase[p], job'[p] = job[p], seen'[p] = seen[p]
    PROVE  JobFits(p)' /\ ViewFits(p)'
<1>1. UserOf[p] \in Users
  BY ChatConstants
<1>2. JobFits(p)'
  BY <1>1 DEF JobFits, Grows
<1>3. \A m \in seen[p].msgs : Reads(UserOf[p], m) => Reads(UserOf[p], m)'
  BY <1>1 DEF ViewFits, Reads, Grows
<1>4. \A q \in seen[p].peers \cup {p} :
         ReadsRow(UserOf[q], job[p].req) => ReadsRow(UserOf[q], job[p].req)'
  BY ViewedPeers, ReaderStays
<1>5. ViewFits(p)'
  BY <1>3, <1>4 DEF ViewFits, Grows
<1>. QED BY <1>2, <1>5

\* What is shown stays with its readers while the tables grow.
LEMMA ShownStays ==
    ASSUME TypeOK, Grows, ShownIsStored, OnlyReadersSee
    PROVE  \A u \in Users : \A m \in shown[u] : m \in Stored' /\ Reads(u, m)'
BY DEF ShownIsStored, OnlyReadersSee, Reads, Grows

-----------------------------------------------------------------------------
(* Handlers: requests, snapshots and ends                                  *)

\* A handler that waits for a slot, or has nothing to do, has seen nothing.
LEMMA EmptyViewFits ==
    ASSUME NEW p \in Peers, seen'[p] = NoView PROVE ViewFits(p)'
BY DEF ViewFits, NoView

LEMMA IdleFits ==
    ASSUME NEW p \in Peers, phase'[p] = "idle", job'[p] = NoJob, seen'[p] = NoView
    PROVE  JobFits(p)' /\ ViewFits(p)'
BY EmptyViewFits DEF JobFits, NoJob

\* One handler moves and the tables grow: the others fit as before.
LEMMA OneMoves ==
    ASSUME TypeOK, HandlersFit, Grows, NEW p \in Peers, JobFits(p)', ViewFits(p)',
           \A q \in Peers \ {p} : phase'[q] = phase[q] /\ job'[q] = job[q] /\ seen'[q] = seen[q]
    PROVE  HandlersFit'
<1>1. ASSUME NEW q \in Peers PROVE JobFits(q)' /\ ViewFits(q)'
  <2>1. CASE q = p
    BY <2>1
  <2>2. CASE q # p
    BY <2>2, Undisturbed DEF HandlersFit
  <2>. QED BY <2>1, <2>2
<1>. QED BY <1>1 DEF HandlersFit

\* A step that changes no table, no mark of the dispatcher and nothing shown.
WorkOnly == UNCHANGED <<conn, db, shown, claimed>>

LEMMA WorkOnlyKeeps ==
    ASSUME TypeOK, WorkOnly PROVE Grows /\ TablesTyped'
<1>1. UNCHANGED <<conn, sess, member, msgs, receipt, lastRead, outbox, shown, claimed>>
  BY DEF WorkOnly, db
<1>2. TablesTyped'
  BY <1>1, TypeParts DEF TablesTyped
<1>. QED BY <1>1, <1>2 DEF Grows, Stored

LEMMA SubmitFits ==
    ASSUME TypeOK, HandlersFit, NEW p \in Peers, NEW j \in Jobs, Submit(p, j), j.op # "none",
           j.op = "send" => j.req \in Requests /\ j.req.by = UserOf[p],
           j.ids \subseteq shown[UserOf[p]]
    PROVE  WorkOnly /\ TypeOK' /\ HandlersFit'
<1>1. WorkOnly
  BY DEF Submit, WorkOnly
<1>2. /\ phase' = [phase EXCEPT ![p] = "queued"] /\ job' = [job EXCEPT ![p] = j]
      /\ seen' = seen /\ left' = left - 1 /\ left > 0 /\ phase[p] = "idle"
  BY DEF Submit
<1>3. WorkTyped'
  BY <1>2, TypeParts, ChatConstants DEF WorkTyped
<1>4. phase'[p] = "queued" /\ job'[p] = j /\ seen'[p] = NoView
  BY <1>2, TypeParts DEF WorkTyped, HandlersFit, ViewFits
<1>5. ViewFits(p)'
  BY <1>4, EmptyViewFits
<1>6. shown' = shown
  BY <1>1 DEF WorkOnly
<1>7. JobFits(p)'
  BY <1>4, <1>6 DEF JobFits
<1>8. \A q \in Peers \ {p} : phase'[q] = phase[q] /\ job'[q] = job[q] /\ seen'[q] = seen[q]
  BY <1>2, TypeParts DEF WorkTyped
<1>. QED BY <1>1, <1>3, <1>5, <1>7, <1>8, OneMoves, WorkOnlyKeeps, TypeParts

LEMMA RequestFits ==
    ASSUME TypeOK, HandlersFit, NEW p \in Peers,
           RequestSend(p) \/ RequestSync(p) \/ RequestAck(p)
    PROVE  WorkOnly /\ TypeOK' /\ HandlersFit'
<1>1. CASE RequestSend(p)
  <2>1. PICK r \in Requests : /\ r.by = UserOf[p]
                              /\ Submit(p, [NoJob EXCEPT !.op = "send", !.req = r])
    BY <1>1 DEF RequestSend
  <2>. DEFINE j == [NoJob EXCEPT !.op = "send", !.req = r]
  <2>2. j \in Jobs /\ j.op = "send" /\ j.req = r /\ j.ids = {}
    BY NothingTyped DEF Jobs, NoJob
  <2>. HIDE DEF j
  <2>. QED BY <2>1, <2>2, SubmitFits DEF j
<1>2. CASE RequestSync(p)
  <2>1. PICK c \in Chats : Submit(p, [NoJob EXCEPT !.op = "sync", !.chat = c])
    BY <1>2 DEF RequestSync
  <2>. DEFINE j == [NoJob EXCEPT !.op = "sync", !.chat = c]
  <2>2. j \in Jobs /\ j.op = "sync" /\ j.ids = {}
    BY NothingTyped DEF Jobs, NoJob
  <2>3. Submit(p, j)
    BY <2>1
  <2>. HIDE DEF j
  <2>. QED BY <2>2, <2>3, SubmitFits
<1>3. CASE RequestAck(p)
  <2>1. PICK c \in Chats, I \in SUBSET shown[UserOf[p]], b \in BOOLEAN :
           Submit(p, [NoJob EXCEPT !.op = "ack", !.chat = c, !.ids = I, !.read = b])
    BY <1>3 DEF RequestAck
  <2>. DEFINE j == [NoJob EXCEPT !.op = "ack", !.chat = c, !.ids = I, !.read = b]
  <2>2. I \subseteq Slots
    BY <2>1, ChatConstants DEF TypeOK
  <2>3. j \in Jobs /\ j.op = "ack" /\ j.ids = I
    BY <2>2, NothingTyped DEF Jobs, NoJob
  <2>4. Submit(p, j)
    BY <2>1
  <2>. HIDE DEF j
  <2>. QED BY <2>3, <2>4, SubmitFits
<1>. QED BY <1>1, <1>2, <1>3

\* Finish leaves p with nothing to do and nothing seen.
LEMMA FinishFits ==
    ASSUME TypeOK, HandlersFit, Grows, NEW p \in Peers, Finish(p)
    PROVE  HandlersFit'
<1>1. phase'[p] = "idle" /\ job'[p] = NoJob /\ seen'[p] = NoView
  BY TypeParts DEF Finish, WorkTyped
<1>2. JobFits(p)' /\ ViewFits(p)'
  BY <1>1, IdleFits
<1>3. \A q \in Peers \ {p} : phase'[q] = phase[q] /\ job'[q] = job[q] /\ seen'[q] = seen[q]
  BY TypeParts DEF Finish, WorkTyped
<1>. QED BY <1>2, <1>3, OneMoves

LEMMA GiveUpFits ==
    ASSUME TypeOK, HandlersFit, NEW p \in Peers, Abort(p) \/ RefuseSend(p)
    PROVE  WorkOnly /\ TypeOK' /\ HandlersFit'
<1>1. Finish(p) /\ WorkOnly
  BY DEF Abort, RefuseSend, WorkOnly
<1>. QED BY <1>1, FinishFits, FinishTyped, WorkOnlyKeeps, TypeParts

\* What a statement reads when it starts: nobody but readers, sessions of
\* recipients, and the offline recipients are those without a session in it.
LEMMA SendView ==
    ASSUME TypeOK, NEW p \in Peers, JobFits(p), job[p].op = "send"
    PROVE  LET v == View(p) IN
           /\ v.msgs = {} /\ v.offline = v.users \ {UserOf[q] : q \in v.peers}
           /\ v.ok => \A q \in v.peers \cup {p} : ReadsRow(UserOf[q], job[p].req)
<1>. DEFINE r == job[p].req
            U == Recipients(r)
            active == ConnectedOf(U)
<1>1. View(p) = [NoView EXCEPT !.users = U, !.peers = active, !.ok = MaySend(p, r),
                               !.offline = U \ {UserOf[q] : q \in active}]
  BY DEF View
<1>2. ASSUME NEW q \in active PROVE UserOf[q] \in U
  BY DEF ConnectedOf
<1>3. r \in Requests /\ r.by = UserOf[p]
  BY DEF JobFits
<1>4. ASSUME NEW u \in U PROVE ReadsRow(u, r)
  BY DEF Recipients, ReadsRow
<1>5. ASSUME MaySend(p, r) PROVE ReadsRow(r.by, r)
  <2>1. r.chat \in {"direct", "conf"}
    BY <1>3, ChatConstants DEF Chats
  <2>. QED BY <1>5, <2>1 DEF MaySend, ReadsRow
<1>6. ASSUME MaySend(p, r), NEW q \in active \cup {p} PROVE ReadsRow(UserOf[q], r)
  BY <1>2, <1>3, <1>4, <1>5, <1>6
<1>. HIDE DEF U, active, r
<1>7. LET v == View(p) IN
      v.msgs = {} /\ v.users = U /\ v.peers = active /\ v.ok = MaySend(p, r)
      /\ v.offline = U \ {UserOf[q] : q \in active}
  BY <1>1 DEF NoView
<1>. QED BY <1>6, <1>7 DEF r

LEMMA ReadView ==
    ASSUME TypeOK, NEW p \in Peers, job[p].op \in {"sync", "ack"}
    PROVE  LET v == View(p) IN
           /\ v.peers = {} /\ v.offline = {} /\ v.users = {}
           /\ v.msgs \subseteq Stored /\ \A m \in v.msgs : Reads(UserOf[p], m)
           /\ job[p].op = "ack" => v.msgs \subseteq job[p].ids
<1>1. CASE job[p].op = "sync"
  <2>1. View(p) = [NoView EXCEPT !.ok = TRUE, !.msgs = Synced(p)]
    BY <1>1 DEF View
  <2>. QED BY <1>1, <2>1 DEF NoView, Synced
<1>2. CASE job[p].op = "ack"
  <2>1. View(p) = [NoView EXCEPT !.ok = TRUE, !.msgs = Acked(p)]
    BY <1>2 DEF View
  <2>. QED BY <1>2, <2>1 DEF NoView, Acked
<1>. QED BY <1>1, <1>2

LEMMA BeginFits ==
    ASSUME TypeOK, HandlersFit, NEW p \in Peers, Begin(p)
    PROVE  WorkOnly /\ TypeOK' /\ HandlersFit'
<1>1. WorkOnly
  BY DEF Begin, WorkOnly
<1>2. /\ phase' = [phase EXCEPT ![p] = IF job[p].op = "sync" THEN "reply" ELSE "running"]
      /\ seen' = [seen EXCEPT ![p] = View(p)]
      /\ job' = job /\ left' = left /\ phase[p] = "queued"
  BY DEF Begin
<1>3. JobFits(p) /\ job[p].op \in {"send", "sync", "ack"}
  BY <1>2 DEF HandlersFit, JobFits, TypeOK
<1>4. View(p) \in Views
  BY <1>3, ViewTyped
<1>5. WorkTyped'
  BY <1>2, <1>4, TypeParts DEF WorkTyped
<1>6. /\ phase'[p] = IF job[p].op = "sync" THEN "reply" ELSE "running"
      /\ seen'[p] = View(p) /\ job'[p] = job[p]
  BY <1>2, TypeParts DEF WorkTyped
<1>7. Grows /\ UNCHANGED <<member, msgs, shown>>
  BY <1>1, WorkOnlyKeeps DEF WorkOnly, db
<1>8. JobFits(p)'
  BY <1>3, <1>6, <1>7 DEF JobFits
<1>9. ViewFits(p)'
  <2>1. \A m : Reads(UserOf[p], m)' <=> Reads(UserOf[p], m)
    BY <1>7 DEF Reads
  <2>2. \A u, r : ReadsRow(u, r)' <=> ReadsRow(u, r)
    BY <1>7 DEF ReadsRow
  <2>3. Stored' = Stored
    BY <1>7 DEF Stored
  <2>4. CASE job[p].op = "send"
    BY <1>3, <1>6, <2>2, <2>4, SendView DEF ViewFits
  <2>5. CASE job[p].op \in {"sync", "ack"}
    BY <1>6, <2>1, <2>3, <2>5, ReadView DEF ViewFits
  <2>. QED BY <1>3, <2>4, <2>5
<1>10. \A q \in Peers \ {p} : phase'[q] = phase[q] /\ job'[q] = job[q] /\ seen'[q] = seen[q]
  BY <1>2, TypeParts DEF WorkTyped
<1>. QED BY <1>1, <1>5, <1>7, <1>8, <1>9, <1>10, OneMoves, WorkOnlyKeeps, TypeParts

\* A statement that has committed: either its reply goes out or it runs again.
LEMMA CommitFits ==
    ASSUME TypeOK, HandlersFit, Grows, NEW p \in Peers, NEW m, Commit(p, m),
           phase[p] = "running",
           job[p].op = "send" => seen[p].ok /\ m \in Stored' /\ msgs'[m] = job[p].req
    PROVE  HandlersFit'
<1>1. JobFits(p) /\ ViewFits(p) /\ UserOf[p] \in Users
  BY ChatConstants DEF HandlersFit
<1>2. \A q \in Peers \ {p} : phase'[q] = phase[q] /\ job'[q] = job[q] /\ seen'[q] = seen[q]
  BY TypeParts DEF Commit, WorkTyped
<1>3. ASSUME phase' = [phase EXCEPT ![p] = "reply"], job' = [job EXCEPT ![p].msg = m], seen' = seen
      PROVE  JobFits(p)' /\ ViewFits(p)'
  <2>1. /\ phase'[p] = "reply" /\ seen'[p] = seen[p]
        /\ job'[p].op = job[p].op /\ job'[p].req = job[p].req /\ job'[p].ids = job[p].ids
        /\ job'[p].msg = m
    BY <1>3, TypeParts DEF WorkTyped, Jobs
  <2>2. JobFits(p)'
    BY <1>1, <2>1 DEF JobFits, Grows
  <2>3. \A n \in seen[p].msgs : Reads(UserOf[p], n) => Reads(UserOf[p], n)'
    BY <1>1 DEF ViewFits, Reads, Grows
  <2>4. \A q \in seen[p].peers \cup {p} :
           ReadsRow(UserOf[q], job[p].req) => ReadsRow(UserOf[q], job[p].req)'
    <3>1. ASSUME NEW q \in Peers, ReadsRow(UserOf[q], job[p].req)
          PROVE  ReadsRow(UserOf[q], job[p].req)'
      BY <2>1, <3>1, ReaderStays
    <3>. QED BY <3>1, ViewedPeers
  <2>5. ViewFits(p)'
    BY <1>1, <2>1, <2>3, <2>4 DEF ViewFits, Grows
  <2>. QED BY <2>2, <2>5
<1>4. ASSUME phase' = [phase EXCEPT ![p] = "queued"], seen' = [seen EXCEPT ![p] = NoView],
             job' = job
      PROVE  JobFits(p)' /\ ViewFits(p)'
  <2>1. phase'[p] = "queued" /\ seen'[p] = NoView /\ job'[p] = job[p]
    BY <1>4, TypeParts DEF WorkTyped
  <2>2. JobFits(p)'
    BY <1>1, <2>1 DEF JobFits, Grows
  <2>. QED BY <2>1, <2>2, EmptyViewFits
<1>. QED BY <1>2, <1>3, <1>4, OneMoves DEF Commit

-----------------------------------------------------------------------------
(* Handlers: the statements and the reply                                  *)

LEMMA RequestsAreRows == Requests \subseteq MessageRows
BY ChatConstants DEF MessageRows

\* A message is appended: the others keep their places.
LEMMA Appended ==
    ASSUME msgs \in Seq(MessageRows), NEW r \in MessageRows, msgs' = Append(msgs, r)
    PROVE  /\ msgs' \in Seq(MessageRows) /\ Stored' = Stored \cup {Len(msgs) + 1}
           /\ Len(msgs) + 1 \notin Stored /\ Len(msgs') = Len(msgs) + 1
           /\ msgs'[Len(msgs) + 1] = r
           /\ \A m \in Stored : msgs'[m] = msgs[m]
BY DEF Stored

\* A send stores its message once: the row of an earlier attempt is the same row.
LEMMA SendStores ==
    ASSUME TypeOK, MessagesWereRequested, OneMessagePerRequestId, NEW r \in Requests, NEW m,
           m \in IF Twins(r) # {} THEN Twins(r) ELSE {Len(msgs) + 1}, m <= MaxMessages,
           msgs' = IF Twins(r) # {} THEN msgs ELSE Append(msgs, r)
    PROVE  /\ m \in Slots /\ m \in Stored' /\ msgs'[m] = r
           /\ msgs' \in Seq(MessageRows) /\ Len(msgs') <= MaxMessages
           /\ \A n \in Stored : n \in Stored' /\ msgs'[n] = msgs[n]
           /\ MessagesWereRequested' /\ OneMessagePerRequestId'
<1>0. msgs \in Seq(MessageRows) /\ Len(msgs) \in Nat /\ Len(msgs) <= MaxMessages
  BY TypeParts DEF TablesTyped
<1>1. CASE Twins(r) # {}
  <2>1. m \in Twins(r) /\ msgs' = msgs
    BY <1>1
  <2>2. m \in Stored /\ r.id # NoId /\ msgs[m].chat = r.chat /\ msgs[m].by = r.by
        /\ msgs[m].id = r.id
    BY <2>1 DEF Twins
  <2>3. msgs[m] \in Requests
    BY <2>2 DEF MessagesWereRequested
  <2>4. msgs[m] = r
    BY <2>2, <2>3, SendsAreWellFormed
  <2>5. Stored' = Stored
    BY <2>1 DEF Stored
  <2>6. m \in Slots
    BY <2>2, StoredAreSlots
  <2>7. MessagesWereRequested'
    BY <2>1, <2>5 DEF MessagesWereRequested
  <2>8. OneMessagePerRequestId'
    BY <2>1, <2>5 DEF OneMessagePerRequestId
  <2>. QED BY <1>0, <2>1, <2>2, <2>4, <2>5, <2>6, <2>7, <2>8
<1>2. CASE Twins(r) = {}
  <2>. DEFINE k == Len(msgs) + 1
  <2>1. m = k /\ msgs' = Append(msgs, r)
    BY <1>2
  <2>2. /\ msgs' \in Seq(MessageRows) /\ Stored' = Stored \cup {k}
        /\ k \notin Stored /\ Len(msgs') = k /\ msgs'[k] = r
        /\ \A n \in Stored : msgs'[n] = msgs[n]
    BY <1>0, <2>1, Appended, RequestsAreRows
  <2>3. k \in Slots
    BY <1>0, <2>1, ChatConstants DEF Slots
  <2>4. MessagesWereRequested'
    BY <2>2 DEF MessagesWereRequested
  <2>5. ASSUME NEW n \in Stored, r.id # NoId, msgs[n].id = r.id,
               msgs[n].by = r.by, msgs[n].chat = r.chat
        PROVE  FALSE
    BY <1>2, <2>5 DEF Twins
  <2>6. OneMessagePerRequestId'
    <3>. HIDE DEF k
    <3>1. SUFFICES ASSUME NEW i \in Stored', NEW j \in Stored', msgs'[i].id # NoId,
                          msgs'[i].id = msgs'[j].id, msgs'[i].by = msgs'[j].by,
                          msgs'[i].chat = msgs'[j].chat
                   PROVE  i = j
      BY DEF OneMessagePerRequestId
    <3>2. CASE i \in Stored /\ j \in Stored
      BY <2>2, <3>1, <3>2 DEF OneMessagePerRequestId
    <3>3. CASE i = k /\ j \in Stored
      BY <2>2, <2>5, <3>1, <3>3
    <3>4. CASE i \in Stored /\ j = k
      BY <2>2, <2>5, <3>1, <3>4
    <3>. QED BY <2>2, <3>1, <3>2, <3>3, <3>4
  <2>. QED BY <1>0, <2>1, <2>2, <2>3, <2>4, <2>6
<1>. QED BY <1>1, <1>2

\* What a send does to the receipts of its message.
SentReceipt(p, m) ==
    [u \in Users |-> IF u \in seen[p].users /\ receipt[m][u] = "none"
                     THEN "sent" ELSE receipt[m][u]]

LEMMA ApplySendSteps ==
    ASSUME TypeOK, MessagesWereRequested, OneMessagePerRequestId, HandlersFit,
           NEW p \in Peers, ApplySend(p)
    PROVE  /\ Grows /\ TypeOK' /\ HandlersFit'
           /\ MessagesWereRequested' /\ OneMessagePerRequestId'
           /\ UNCHANGED <<lastRead, shown>>
           /\ \E m \in Slots : /\ receipt' = [receipt EXCEPT ![m] = SentReceipt(p, m)]
                               /\ outbox' = outbox \cup NewRows(p, m)
<1>. DEFINE r == job[p].req
<1>1. phase[p] = "running" /\ job[p].op = "send" /\ seen[p].ok
  BY DEF ApplySend, Runs
<1>2. UNCHANGED <<conn, sess, member, lastRead, left, shown, claimed>>
  BY DEF ApplySend
<1>3. r \in Requests
  BY <1>1 DEF HandlersFit, JobFits
<1>4. PICK m \in (IF Twins(r) # {} THEN Twins(r) ELSE {Len(msgs) + 1}) :
        /\ m <= MaxMessages
        /\ msgs' = IF Twins(r) # {} THEN msgs ELSE Append(msgs, r)
        /\ receipt' = [receipt EXCEPT ![m] = [u \in Users |->
                         IF u \in seen[p].users /\ @[u] = "none" THEN "sent" ELSE @[u]]]
        /\ outbox' = outbox \cup NewRows(p, m)
        /\ Commit(p, m)
  BY Zenon DEF ApplySend
<1>. HIDE DEF r
<1>5. /\ m \in Slots /\ m \in Stored' /\ msgs'[m] = r
      /\ msgs' \in Seq(MessageRows) /\ Len(msgs') <= MaxMessages
      /\ \A n \in Stored : n \in Stored' /\ msgs'[n] = msgs[n]
      /\ MessagesWereRequested' /\ OneMessagePerRequestId'
  BY <1>3, <1>4, SendStores
<1>6. receipt' = [receipt EXCEPT ![m] = SentReceipt(p, m)]
  BY <1>4 DEF SentReceipt
<1>7. Grows
  BY <1>2, <1>5 DEF Grows
<1>8. TypeOK'
  <2>1. SentReceipt(p, m) \in [Users -> Grades]
    BY <1>5 DEF SentReceipt, TypeOK, Grades
  <2>2. receipt' \in [Slots -> [Users -> Grades]]
    BY <1>6, <2>1 DEF TypeOK
  <2>3. outbox' \subseteq Rows
    BY <1>4, <1>5, NewRowsTyped DEF TypeOK
  <2>4. TablesTyped'
    BY <1>2, <1>5, <2>2, <2>3, TypeParts DEF TablesTyped
  <2>5. m \in 0..MaxMessages
    BY <1>5, ChatConstants DEF Slots
  <2>6. WorkTyped'
    BY <1>2, <1>4, <2>5, CommitTyped, TypeParts
  <2>. QED BY <2>4, <2>6, TypeParts
<1>9. HandlersFit'
  BY <1>1, <1>4, <1>5, <1>7, CommitFits DEF r
<1>. QED BY <1>2, <1>4, <1>5, <1>6, <1>7, <1>8, <1>9

\* A non-empty set of messages has a newest one: the largest is the one whose
\* distance to the bound is the least.
LEMMA NewestExists ==
    ASSUME NEW S \in SUBSET Slots, S # {}
    PROVE  \E m \in S : \A n \in S : n <= m
<1>. DEFINE D == {MaxMessages - m : m \in S}
<1>0. MaxMessages \in Nat /\ \A m \in S : m \in Nat /\ m <= MaxMessages
  BY ChatConstants DEF Slots
<1>1. D \subseteq Nat /\ D # {}
  BY <1>0
<1>2. PICK d \in D : \A e \in D : ~ (<<e, d>> \in OpToRel(<, Nat))
  <2>. HIDE DEF D
  <2>. QED BY <1>1, NatLessThanWellFounded, WFMin, Zenon
<1>3. PICK m \in S : d = MaxMessages - m
  OBVIOUS
<1>4. ASSUME NEW n \in S PROVE n <= m
  <2>1. MaxMessages - n \in D
    OBVIOUS
  <2>2. ~ (MaxMessages - n < MaxMessages - m)
    BY <1>1, <1>2, <1>3, <2>1 DEF OpToRel
  <2>. QED BY <1>0, <2>2
<1>. QED BY <1>4

LEMMA NewestIsSeen ==
    ASSUME TypeOK, NEW p \in Peers, seen[p].msgs # {}
    PROVE  Newest(p) \in seen[p].msgs
<1>1. seen[p].msgs \subseteq Slots
  BY DEF TypeOK
<1>. QED BY <1>1, NewestExists DEF Newest

\* What an acknowledgement does to the receipts.
AckedReceipt(p, m) ==
    IF m \in seen[p].msgs
    THEN [receipt[m] EXCEPT ![UserOf[p]] = Graded(@, job[p].read)] ELSE receipt[m]

LEMMA ApplyAckSteps ==
    ASSUME TypeOK, HandlersFit, NEW p \in Peers, ApplyAck(p)
    PROVE  /\ Grows /\ TypeOK' /\ HandlersFit'
           /\ UNCHANGED <<msgs, outbox, shown>>
           /\ receipt' = [m \in Slots |-> AckedReceipt(p, m)]
           /\ \/ UNCHANGED lastRead
              \/ /\ job[p].read /\ Newest(p) \in seen[p].msgs
                 /\ lastRead' = [lastRead EXCEPT ![UserOf[p]] = Newest(p)]
           /\ seen[p].msgs \subseteq shown[UserOf[p]]
<1>1. phase[p] = "running" /\ job[p].op = "ack" /\ Commit(p, 0)
  BY DEF ApplyAck, Runs
<1>2. UNCHANGED <<conn, sess, member, msgs, outbox, left, shown, claimed>>
  BY DEF ApplyAck
<1>3. receipt' = [m \in Slots |-> AckedReceipt(p, m)]
  BY Zenon DEF ApplyAck, AckedReceipt
<1>4. \/ UNCHANGED lastRead
      \/ /\ job[p].read /\ Newest(p) \in seen[p].msgs
         /\ lastRead' = [lastRead EXCEPT ![UserOf[p]] = Newest(p)]
  BY NewestIsSeen DEF ApplyAck
<1>5. seen[p].msgs \subseteq shown[UserOf[p]]
  BY <1>1 DEF HandlersFit, ViewFits, JobFits
<1>6. Grows
  BY <1>2 DEF Grows, Stored
<1>7. TypeOK'
  <2>1. UserOf[p] \in Users /\ seen[p].msgs \subseteq Slots
    BY ChatConstants DEF TypeOK
  <2>2. ASSUME NEW m \in Slots PROVE AckedReceipt(p, m) \in [Users -> Grades]
    <3>1. receipt[m] \in [Users -> Grades]
      BY DEF TypeOK
    <3>2. \A g : Graded(g, job[p].read) \in Grades
      BY DEF Graded, Grades
    <3>. QED BY <3>1, <3>2 DEF AckedReceipt
  <2>3. receipt' \in [Slots -> [Users -> Grades]]
    BY <1>3, <2>2
  <2>4. lastRead' \in [Users -> 0..MaxMessages]
    <3>1. Newest(p) \in seen[p].msgs => Newest(p) \in 0..MaxMessages
      BY <2>1, ChatConstants DEF Slots
    <3>2. lastRead \in [Users -> 0..MaxMessages]
      BY DEF TypeOK
    <3>. QED BY <1>4, <3>1, <3>2
  <2>5. TablesTyped'
    BY <1>2, <2>3, <2>4, TypeParts DEF TablesTyped
  <2>6. 0 \in 0..MaxMessages
    BY ChatConstants
  <2>. QED BY <1>1, <1>2, <2>5, <2>6, CommitTyped, TypeParts
<1>8. HandlersFit'
  BY <1>1, <1>6, CommitFits
<1>. QED BY <1>2, <1>3, <1>4, <1>5, <1>6, <1>7, <1>8

\* What a reply shows: what the client asked for, and a sent message to the
\* sessions of its recipients; all of it readable where it is shown.
LEMMA ReplySteps ==
    ASSUME TypeOK, HandlersFit, ShownIsStored, NEW p \in Peers, Reply(p)
    PROVE  /\ Grows /\ TypeOK' /\ HandlersFit'
           /\ UNCHANGED <<member, msgs, receipt, lastRead, outbox>>
           /\ \A u \in Users : \A m \in shown'[u] :
                 m \in shown[u] \/ (m \in Stored /\ Reads(u, m))
<1>. DEFINE mine == IF job[p].op = "sync" THEN seen[p].msgs
                    ELSE IF job[p].op = "send" THEN {job[p].msg} ELSE {}
<1>1. PICK got \in SUBSET {q \in seen[p].peers : conn[q] = "open"} :
         shown' = [u \in Users |->
              shown[u] \cup (IF u = UserOf[p] THEN mine ELSE {})
                       \cup (IF u \in {UserOf[q] : q \in got} THEN {job[p].msg} ELSE {})]
  BY Zenon DEF Reply, Carried
<1>2. UNCHANGED <<conn, db, claimed>> /\ Finish(p) /\ phase[p] = "reply"
  BY DEF Reply
<1>3. JobFits(p) /\ ViewFits(p)
  BY DEF HandlersFit
<1>4. ASSUME job[p].op = "send", NEW q \in seen[p].peers \cup {p}
      PROVE  job[p].msg \in Stored /\ Reads(UserOf[q], job[p].msg)
  <2>1. job[p].msg \in Stored /\ msgs[job[p].msg] = job[p].req
    BY <1>2, <1>3, <1>4 DEF JobFits
  <2>2. ReadsRow(UserOf[q], job[p].req)
    BY <1>2, <1>3, <1>4 DEF JobFits, ViewFits
  <2>. QED BY <2>1, <2>2 DEF Reads, ReadsRow
<1>5. ASSUME NEW m \in mine PROVE m \in Stored /\ Reads(UserOf[p], m)
  <2>1. CASE job[p].op = "sync"
    BY <1>3, <1>5, <2>1 DEF ViewFits
  <2>2. CASE job[p].op = "send"
    BY <1>4, <1>5, <2>2
  <2>. QED BY <1>5, <2>1, <2>2
<1>6. ASSUME NEW q \in got PROVE job[p].msg \in Stored /\ Reads(UserOf[q], job[p].msg)
  <2>1. job[p].op = "send"
    BY <1>3, <1>6 DEF ViewFits
  <2>. QED BY <1>4, <1>6, <2>1
<1>. HIDE DEF mine
<1>7. \A u \in Users : \A m \in shown'[u] : m \in shown[u] \/ (m \in Stored /\ Reads(u, m))
  BY <1>1, <1>5, <1>6
<1>8. Grows
  BY <1>1, <1>2 DEF Grows, db, Stored
<1>9. shown' \in [Users -> SUBSET Slots]
  <2>1. \A u \in Users : shown[u] \subseteq Slots
    BY DEF TypeOK
  <2>2. \A u \in Users : shown'[u] \subseteq Slots
    BY <1>7, <2>1, StoredAreSlots
  <2>. QED BY <1>1, <2>2
<1>10. TypeOK'
  BY <1>2, <1>9, FinishTyped, TypeParts DEF TablesTyped, db
<1>11. HandlersFit'
  BY <1>2, <1>8, FinishFits
<1>. QED BY <1>2, <1>7, <1>8, <1>10, <1>11 DEF db

LEMMA RestartSteps ==
    ASSUME TypeOK, Restart
    PROVE  /\ Grows /\ TypeOK' /\ HandlersFit'
           /\ UNCHANGED <<msgs, receipt, lastRead, outbox, shown>>
<1>1. UNCHANGED <<member, msgs, receipt, lastRead, outbox, left, shown>>
  BY DEF Restart
<1>2. ASSUME NEW p \in Peers
      PROVE  phase'[p] = "idle" /\ job'[p] = NoJob /\ seen'[p] = NoView
  BY DEF Restart
<1>3. HandlersFit'
  BY <1>2, IdleFits DEF HandlersFit
<1>4. WorkTyped'
  BY <1>1, NothingTyped, TypeParts DEF Restart, WorkTyped
<1>5. TablesTyped'
  BY <1>1, TypeParts DEF Restart, TablesTyped
<1>. QED BY <1>1, <1>3, <1>4, <1>5, TypeParts DEF Grows, Stored

-----------------------------------------------------------------------------
(* Every step keeps the structural part of the invariant                   *)

Structure == /\ TypeOK /\ MessagesWereRequested /\ HandlersFit /\ ShownIsStored
             /\ OneMessagePerRequestId /\ OnlyReadersSee

\* A step that leaves the handlers alone.
LEMMA HandlersRest ==
    ASSUME TypeOK, HandlersFit, Grows, UNCHANGED work PROVE HandlersFit'
<1>1. ASSUME NEW p \in Peers PROVE JobFits(p)' /\ ViewFits(p)'
  BY Undisturbed DEF HandlersFit, work
<1>. QED BY <1>1 DEF HandlersFit

\* A step that shows nothing new and stores nothing new.
LEMMA NothingNew ==
    ASSUME Structure, Grows, TypeOK', HandlersFit', UNCHANGED <<msgs, shown>>
    PROVE  Structure'
<1>1. Stored' = Stored
  BY DEF Stored
<1>2. MessagesWereRequested' /\ OneMessagePerRequestId' /\ ShownIsStored'
  BY <1>1 DEF Structure, MessagesWereRequested, OneMessagePerRequestId, ShownIsStored
<1>3. OnlyReadersSee'
  BY ShownStays DEF Structure, OnlyReadersSee
<1>. QED BY <1>2, <1>3 DEF Structure

LEMMA StructureStep ==
    ASSUME Structure, [Next]_vars PROVE Structure' /\ Grows
<1>0. TypeOK /\ HandlersFit
  BY DEF Structure
<1>1. CASE Quiet
  BY <1>0, <1>1, QuietKeeps, HandlersRest, NothingNew
<1>2. CASE Restart
  BY <1>0, <1>2, RestartSteps, NothingNew
<1>3. ASSUME NEW p \in Peers, \/ RequestSend(p) \/ RequestSync(p) \/ RequestAck(p)
                             \/ Begin(p) \/ Abort(p) \/ RefuseSend(p)
      PROVE  Structure' /\ Grows
  <2>1. WorkOnly /\ TypeOK' /\ HandlersFit'
    BY <1>0, <1>3, RequestFits, BeginFits, GiveUpFits
  <2>. QED BY <1>0, <2>1, WorkOnlyKeeps, NothingNew DEF WorkOnly, db
<1>4. ASSUME NEW p \in Peers, ApplySend(p) PROVE Structure' /\ Grows
  <2>1. /\ Grows /\ TypeOK' /\ HandlersFit' /\ MessagesWereRequested'
        /\ OneMessagePerRequestId' /\ shown' = shown
    BY <1>4, ApplySendSteps DEF Structure
  <2>2. \A u \in Users : \A m \in shown[u] : m \in Stored' /\ Reads(u, m)'
    BY <2>1, ShownStays DEF Structure
  <2>. QED BY <2>1, <2>2 DEF Structure, ShownIsStored, OnlyReadersSee
<1>5. ASSUME NEW p \in Peers, ApplyAck(p) PROVE Structure' /\ Grows
  BY <1>0, <1>5, ApplyAckSteps, NothingNew
<1>6. ASSUME NEW p \in Peers, Reply(p) PROVE Structure' /\ Grows
  <2>1. /\ Grows /\ TypeOK' /\ HandlersFit' /\ UNCHANGED <<member, msgs>>
        /\ \A u \in Users : \A m \in shown'[u] :
              m \in shown[u] \/ (m \in Stored /\ Reads(u, m))
    BY <1>6, ReplySteps DEF Structure
  <2>2. Stored' = Stored /\ \A u, m : Reads(u, m)' <=> Reads(u, m)
    BY <2>1 DEF Stored, Reads
  <2>3. ShownIsStored' /\ OnlyReadersSee'
    <3>1. ASSUME NEW u \in Users, NEW m \in shown'[u] PROVE m \in Stored' /\ Reads(u, m)'
      BY <2>1, <2>2 DEF Structure, ShownIsStored, OnlyReadersSee
    <3>. QED BY <3>1 DEF ShownIsStored, OnlyReadersSee
  <2>4. MessagesWereRequested' /\ OneMessagePerRequestId'
    BY <2>1, <2>2 DEF Structure, MessagesWereRequested, OneMessagePerRequestId
  <2>. QED BY <2>1, <2>3, <2>4 DEF Structure
<1>. QED BY <1>1, <1>2, <1>3, <1>4, <1>5, <1>6, Steps

-----------------------------------------------------------------------------
(* Receipts, read marks and outbox rows                                    *)

\* The three ways a step can treat receipts, read marks and outbox rows.
Receipts == \/ /\ UNCHANGED <<receipt, lastRead>>
               /\ \A r \in outbox : \E s \in outbox' : s.msg = r.msg /\ s.user = r.user
            \/ \E p \in Peers : ApplySend(p) \/ ApplyAck(p)

LEMMA ReceiptSteps == ASSUME Structure, [Next]_vars PROVE Receipts
<1>0. TypeOK /\ HandlersFit /\ ShownIsStored
  BY DEF Structure
<1>1. CASE Quiet /\ UNCHANGED outbox
  BY <1>0, <1>1, QuietKeeps DEF Receipts
<1>2. CASE Claim
  <2>1. ASSUME NEW r \in outbox
        PROVE  \E s \in outbox' : s.msg = r.msg /\ s.user = r.user
    <3>1. r \in Rows
      BY DEF Structure, TypeOK
    <3>2. CASE r \in Claimable
      <4>1. [r EXCEPT !.status = "dispatching"] \in outbox'
        BY <1>2, <3>2 DEF Claim
      <4>. QED BY <3>1, <4>1, ClaimedRow
    <3>3. CASE r \notin Claimable
      BY <1>2, <3>3 DEF Claim
    <3>. QED BY <3>2, <3>3
  <2>. QED BY <1>2, <2>1 DEF Claim, Receipts
<1>3. CASE Restart
  BY <1>0, <1>3, RestartSteps DEF Receipts
<1>4. ASSUME NEW p \in Peers, \/ RequestSend(p) \/ RequestSync(p) \/ RequestAck(p)
                             \/ Begin(p) \/ Abort(p) \/ RefuseSend(p)
      PROVE  Receipts
  <2>1. WorkOnly
    BY <1>0, <1>4, RequestFits, BeginFits, GiveUpFits
  <2>. QED BY <2>1 DEF WorkOnly, db, Receipts
<1>5. ASSUME NEW p \in Peers, Reply(p) PROVE Receipts
  BY <1>0, <1>5, ReplySteps DEF Receipts
<1>6. Quiet => Claim \/ UNCHANGED outbox
  BY DEF Quiet, Connect, Disconnect, MarkDisconnected, JoinConference, LeaveConference,
         vars, db
<1>. QED BY <1>1, <1>2, <1>3, <1>4, <1>5, <1>6, Steps DEF Receipts

\* No step lowers a receipt, and what it raises to delivered or read has been shown.
LEMMA ReceiptsRise ==
    ASSUME Structure, [Next]_vars, NEW m \in Slots, NEW u \in Users
    PROVE  /\ Rank[receipt'[m][u]] >= Rank[receipt[m][u]]
           /\ receipt'[m][u] = receipt[m][u] \/ receipt'[m][u] = "sent" \/ m \in shown[u]
<1>0. receipt \in [Slots -> [Users -> Grades]] /\ TypeOK /\ HandlersFit
  BY DEF Structure, TypeOK
<1>1. receipt[m][u] \in {"none", "sent", "delivered", "read"}
  BY <1>0 DEF Grades
<1>2. \A g \in Grades : Rank[g] >= Rank[g] /\ Rank[g] >= 0 /\ Rank["read"] >= Rank[g]
  BY DEF Rank, Grades
<1>3. CASE receipt' = receipt
  BY <1>0, <1>2, <1>3
<1>4. ASSUME NEW p \in Peers, ApplySend(p)
      PROVE  /\ Rank[receipt'[m][u]] >= Rank[receipt[m][u]]
             /\ receipt'[m][u] = receipt[m][u] \/ receipt'[m][u] = "sent"
  <2>1. PICK n \in Slots : receipt' = [receipt EXCEPT ![n] = SentReceipt(p, n)]
    BY <1>4, ApplySendSteps DEF Structure
  <2>2. \/ receipt'[m][u] = receipt[m][u]
        \/ receipt'[m][u] = "sent" /\ receipt[m][u] = "none"
    BY <1>0, <2>1 DEF SentReceipt
  <2>. QED BY <1>1, <1>2, <2>2 DEF Rank, Grades
<1>5. ASSUME NEW p \in Peers, ApplyAck(p)
      PROVE  /\ Rank[receipt'[m][u]] >= Rank[receipt[m][u]]
             /\ receipt'[m][u] = receipt[m][u] \/ m \in shown[u]
  <2>1. receipt'[m] = AckedReceipt(p, m) /\ seen[p].msgs \subseteq shown[UserOf[p]]
    BY <1>0, <1>5, ApplyAckSteps
  <2>2. \/ receipt'[m][u] = receipt[m][u]
        \/ /\ m \in shown[u]
           /\ receipt'[m][u] = Graded(receipt[m][u], job[p].read)
    BY <1>0, <2>1 DEF AckedReceipt
  <2>3. Rank[Graded(receipt[m][u], job[p].read)] >= Rank[receipt[m][u]]
    BY <1>1 DEF Graded, Rank
  <2>. QED BY <1>1, <1>2, <2>2, <2>3 DEF Grades
<1>. QED BY <1>3, <1>4, <1>5, ReceiptSteps DEF Receipts

LEMMA TrueReceiptsStep ==
    ASSUME Structure, ReceiptsAreTrue, [Next]_vars PROVE ReceiptsAreTrue'
<1>1. ASSUME NEW m \in Slots, NEW u \in Users, Rank[receipt'[m][u]] >= 2
      PROVE  m \in shown'[u]
  <2>1. receipt'[m][u] # "sent"
    BY <1>1 DEF Rank
  <2>2. m \in shown[u]
    BY <1>1, <2>1, ReceiptsRise DEF ReceiptsAreTrue
  <2>. QED BY <2>2, StructureStep DEF Grows
<1>. QED BY <1>1 DEF ReceiptsAreTrue

LEMMA LastReadStep ==
    ASSUME Structure, LastReadIsRead, [Next]_vars PROVE LastReadIsRead'
<1>0. /\ TypeOK /\ HandlersFit /\ TypeOK'
      /\ receipt \in [Slots -> [Users -> Grades]] /\ lastRead \in [Users -> 0..MaxMessages]
      /\ receipt' \in [Slots -> [Users -> Grades]]
  BY StructureStep DEF Structure, TypeOK
<1>1. ASSUME NEW m \in Slots, NEW u \in Users, receipt[m][u] = "read"
      PROVE  receipt'[m][u] = "read"
  <2>1. receipt'[m][u] \in {"none", "sent", "delivered", "read"}
    BY <1>0 DEF Grades
  <2>2. Rank[receipt'[m][u]] >= 3
    BY <1>1, ReceiptsRise DEF Rank
  <2>. QED BY <2>1, <2>2 DEF Rank
<1>2. ASSUME NEW u \in Users, lastRead[u] # 0 PROVE lastRead[u] \in Slots
  BY <1>0, <1>2, ChatConstants DEF Slots
<1>3. CASE UNCHANGED lastRead
  BY <1>1, <1>2, <1>3 DEF LastReadIsRead
<1>4. ASSUME NEW p \in Peers, ApplyAck(p), job[p].read, Newest(p) \in seen[p].msgs,
             lastRead' = [lastRead EXCEPT ![UserOf[p]] = Newest(p)]
      PROVE  LastReadIsRead'
  <2>1. UserOf[p] \in Users /\ Newest(p) \in Slots
    BY <1>0, <1>4, ChatConstants DEF TypeOK
  <2>2. receipt'[Newest(p)][UserOf[p]] = "read"
    <3>1. receipt'[Newest(p)] = AckedReceipt(p, Newest(p))
      BY <1>0, <1>4, <2>1, ApplyAckSteps
    <3>. QED BY <1>0, <1>4, <2>1, <3>1 DEF AckedReceipt, Graded
  <2>. QED BY <1>0, <1>1, <1>2, <1>4, <2>1, <2>2 DEF LastReadIsRead
<1>5. \A p \in Peers : ApplySend(p) => UNCHANGED lastRead
  BY DEF ApplySend
<1>6. \A p \in Peers : ApplyAck(p) =>
          \/ UNCHANGED lastRead
          \/ /\ job[p].read /\ Newest(p) \in seen[p].msgs
             /\ lastRead' = [lastRead EXCEPT ![UserOf[p]] = Newest(p)]
  BY <1>0, ApplyAckSteps
<1>. QED BY <1>3, <1>4, <1>5, <1>6, ReceiptSteps DEF Receipts

\* The recipients of a send are its sessions' accounts and its offline ones.
LEMMA RowForEachRecipient ==
    ASSUME HandlersFit, NEW p \in Peers, NEW m, NEW u \in seen[p].users
    PROVE  \E r \in NewRows(p, m) : r.msg = m /\ r.user = u
<1>1. seen[p].offline = seen[p].users \ {UserOf[q] : q \in seen[p].peers}
  BY DEF HandlersFit, ViewFits
<1>2. CASE u \in seen[p].offline
  <2>. DEFINE row == [msg |-> m, user |-> u, peer |-> NoPeer, status |-> "pending"]
  <2>1. row \in NewRows(p, m)
    BY <1>2 DEF NewRows
  <2>. QED BY <2>1
<1>3. ASSUME NEW q \in seen[p].peers, u = UserOf[q]
      PROVE  \E r \in NewRows(p, m) : r.msg = m /\ r.user = u
  <2>. DEFINE row == [msg |-> m, user |-> UserOf[q], peer |-> q, status |-> "pending"]
  <2>1. row \in NewRows(p, m)
    BY DEF NewRows
  <2>. QED BY <1>3, <2>1
<1>. QED BY <1>1, <1>2, <1>3

LEMMA RecipientRowsStep ==
    ASSUME Structure, EveryRecipientHasARow, [Next]_vars PROVE EveryRecipientHasARow'
<1>0. /\ TypeOK /\ HandlersFit /\ MessagesWereRequested /\ OneMessagePerRequestId
      /\ receipt \in [Slots -> [Users -> Grades]]
  BY DEF Structure, TypeOK
<1>1. ASSUME UNCHANGED receipt,
             \A r \in outbox : \E s \in outbox' : s.msg = r.msg /\ s.user = r.user
      PROVE  EveryRecipientHasARow'
  BY <1>1 DEF EveryRecipientHasARow
<1>2. ASSUME NEW p \in Peers, ApplySend(p) PROVE EveryRecipientHasARow'
  <2>1. PICK n \in Slots : /\ receipt' = [receipt EXCEPT ![n] = SentReceipt(p, n)]
                           /\ outbox' = outbox \cup NewRows(p, n)
    BY <1>0, <1>2, ApplySendSteps
  <2>2. ASSUME NEW m \in Slots, NEW u \in Users, receipt'[m][u] = "sent"
        PROVE  receipt[m][u] = "sent" \/ (m = n /\ u \in seen[p].users)
    BY <1>0, <2>1, <2>2 DEF SentReceipt
  <2>3. \A u \in seen[p].users : \E r \in NewRows(p, n) : r.msg = n /\ r.user = u
    BY <1>0, RowForEachRecipient
  <2>. QED BY <2>1, <2>2, <2>3 DEF EveryRecipientHasARow
<1>3. ASSUME NEW p \in Peers, ApplyAck(p) PROVE EveryRecipientHasARow'
  <2>1. receipt' = [m \in Slots |-> AckedReceipt(p, m)] /\ outbox' = outbox
    BY <1>0, <1>3, ApplyAckSteps
  <2>2. \A g : Graded(g, job[p].read) # "sent"
    BY DEF Graded
  <2>3. ASSUME NEW m \in Slots, NEW u \in Users, receipt'[m][u] = "sent"
        PROVE  receipt[m][u] = "sent"
    BY <1>0, <2>1, <2>2, <2>3 DEF AckedReceipt
  <2>. QED BY <2>1, <2>3 DEF EveryRecipientHasARow
<1>. QED BY <1>1, <1>2, <1>3, ReceiptSteps DEF Receipts

-----------------------------------------------------------------------------
(* The theorems                                                            *)

LEMMA InitInv == Init => ChatInv
<1>. SUFFICES ASSUME Init PROVE ChatInv
  OBVIOUS
<1>1. TypeOK
  <2>1. TablesTyped
    <3>1. msgs = <<>> /\ Len(msgs) = 0 /\ msgs \in Seq(MessageRows)
      BY DEF Init
    <3>. QED BY <3>1, ChatConstants DEF Init, TablesTyped, Grades
  <2>2. WorkTyped
    BY NothingTyped, ChatConstants DEF Init, WorkTyped
  <2>. QED BY <2>1, <2>2, TypeParts
<1>2. Stored = {}
  BY DEF Init, Stored
<1>3. HandlersFit
  BY DEF Init, HandlersFit, JobFits, ViewFits, NoJob, NoView
<1>4. ShownIsStored /\ OnlyReadersSee
  BY DEF Init, ShownIsStored, OnlyReadersSee
<1>5. ReceiptsAreTrue /\ EveryRecipientHasARow
  BY DEF Init, ReceiptsAreTrue, EveryRecipientHasARow, Rank
<1>6. LastReadIsRead
  BY DEF Init, LastReadIsRead
<1>. QED BY <1>1, <1>2, <1>3, <1>4, <1>5, <1>6
     DEF ChatInv, MessagesWereRequested, OneMessagePerRequestId

LEMMA NextInv == ChatInv /\ [Next]_vars => ChatInv'
<1>. SUFFICES ASSUME ChatInv, [Next]_vars PROVE ChatInv'
  OBVIOUS
<1>1. Structure /\ ReceiptsAreTrue /\ LastReadIsRead /\ EveryRecipientHasARow
  BY DEF ChatInv, Structure
<1>. QED BY <1>1, StructureStep, TrueReceiptsStep, LastReadStep, RecipientRowsStep
     DEF ChatInv, Structure

\* Chat: the invariant that the theorems rest on.  Every message was asked for, what
\* a handler read when its statement started stays true until its reply, and nothing
\* is shown that is not stored.
THEOREM ChatInvariant == Spec => []ChatInv
BY InitInv, NextInv, PTL DEF Spec

\* Chat: the variables keep their types, whatever overlaps, fails or is retried.
THEOREM TypeCorrect == Spec => []TypeOK
<1>1. ChatInv => TypeOK
  BY DEF ChatInv
<1>. QED BY <1>1, ChatInvariant, PTL

\* sendDirectMessage and sendConferenceMessage (ON CONFLICT on client_request_id): a
\* send that the client or execParamsResilient repeats is stored once.
THEOREM RepeatedSendsAreOneMessage == Spec => []OneMessagePerRequestId
<1>1. ChatInv => OneMessagePerRequestId
  BY DEF ChatInv
<1>. QED BY <1>1, ChatInvariant, PTL

\* The recipients and visibility conditions of the chat statements: a message is
\* shown only to accounts that may read it, however stale the snapshot was.
THEOREM MessagesReachOnlyReaders == Spec => []OnlyReadersSee
<1>1. ChatInv => OnlyReadersSee
  BY DEF ChatInv
<1>. QED BY <1>1, ChatInvariant, PTL

\* ackDirectMessages and ackConferenceMessages: a receipt that says delivered or
\* read is of a message that a client of the account has had.
THEOREM ReceiptsStayTrue == Spec => []ReceiptsAreTrue
<1>1. ChatInv => ReceiptsAreTrue
  BY DEF ChatInv
<1>. QED BY <1>1, ChatInvariant, PTL

\* mark_member of ackConferenceMessages: the read mark is on a message with a read
\* receipt of the same member.
THEOREM ReadMarksAreRead == Spec => []LastReadIsRead
<1>1. ChatInv => LastReadIsRead
  BY DEF ChatInv
<1>. QED BY <1>1, ChatInvariant, PTL

\* The outbox and offline_outbox CTEs split the recipients of a send without
\* losing one, whatever sessions come and go around the snapshot.
THEOREM RecipientsAreInTheOutbox == Spec => []EveryRecipientHasARow
<1>1. ChatInv => EveryRecipientHasARow
  BY DEF ChatInv
<1>. QED BY <1>1, ChatInvariant, PTL

\* COALESCE(delivered_at, ...) and COALESCE(read_at, ...): no step lowers a receipt.
THEOREM ReceiptsOnlyRise == Spec => ReceiptsNeverRetreat
<1>1. ChatInv /\ [Next]_vars =>
        [\A m \in Slots, u \in Users : Rank[receipt'[m][u]] >= Rank[receipt[m][u]]]_vars
  BY ReceiptsRise DEF ChatInv, Structure
<1>. QED BY <1>1, ChatInvariant, PTL DEF Spec, ReceiptsNeverRetreat
=============================================================================
