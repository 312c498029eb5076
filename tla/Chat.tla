-------------------------------- MODULE Chat --------------------------------
(***************************************************************************)
(* Direct chat and conference chat: messages, receipts, read marks and the *)
(* rows of app.realtime_outbox, as MessengerRepository writes them for     *)
(* DirectChatFeatureModule and ChatFeatureModule, and the dispatcher       *)
(* thread of the gateway that claims the rows of offline recipients.       *)
(*                                                                         *)
(* One thread ("direct") per pair of accounts and one conference ("conf"). *)
(* A statement reads its snapshot when it starts (Begin) and writes later  *)
(* (an Apply... action); the reply and the live events leave the server    *)
(* after that (Reply).  Texts, files and pages are left out: a message is  *)
(* its place in the order of commits.  markOfflineOutboxDelivered and      *)
(* markOfflineOutboxRetry have no action: the dispatcher never gets there. *)
(***************************************************************************)
EXTENDS Naturals, Sequences, FiniteSets

CONSTANTS
    Peers,        \* connections; a peer id is drawn anew for each
    Users,        \* accounts
    NoPeer, NoUser, NoId,   \* SQL NULL or the empty string
    UserOf,       \* UserOf[p]: the account p signs in with
    Requests,     \* the sends of clients: records [chat, by, to, id]
    MaxMessages,  \* bound: messages stored in a behaviour
    MaxRequests,  \* bound: requests that clients make in a behaviour
    Owner,        \* who created the conference, joined from then on
    Members,      \* the accounts that join and leave it
    PoolSize,     \* the slots of the Postgres pool
    Faults        \* which faults may happen, a subset of FaultKinds

\* "reply": a statement commits, its reply is lost and it runs again.  "db": all
\* attempts of a statement fail.  "crash": the server dies of something else.
FaultKinds == {"reply", "db", "crash"}
Chats == {"direct", "conf"}
RequestIds == {r.id : r \in Requests}

ASSUME ChatConstants ==
    /\ NoPeer \notin Peers /\ NoUser \notin Users
    /\ UserOf \in [Peers -> Users]
    /\ Requests \subseteq [chat : Chats, by : Users, to : Users \cup {NoUser},
                           id : RequestIds]
    /\ MaxMessages \in Nat /\ MaxRequests \in Nat /\ PoolSize \in Nat \ {0}
    /\ Owner \in Users /\ Members \subseteq Users \ {Owner} /\ Faults \subseteq FaultKinds

\* sendDirectMessage names another account; a client repeats an id only to retry.
ASSUME SendsAreWellFormed ==
    /\ \A r \in Requests : r.to # r.by /\ (r.chat = "direct" => r.to # NoUser)
    /\ \A r, s \in Requests : r.chat = s.chat /\ r.by = s.by /\ r.id = s.id
                              /\ r.id # NoId => r = s

VARIABLES
    conn,      \* conn[p]: the socket of p; "lost" when its process has ended
    sess,      \* sess[p]: the app.user_sessions row of p is 'connected'
    member,    \* member[u]: app.conference_members, "none", "joined" or "left"
    msgs,      \* the message rows, oldest first: records [chat, by, to, id]
    receipt,   \* receipt[m][u]: the receipt row of u for message m
    lastRead,  \* lastRead[u]: last_read_message_id, 0 for NULL
    outbox,    \* app.realtime_outbox: records [msg, user, peer, status]
    phase,     \* phase[p]: how far p's handler is
    job,       \* job[p]: what p's handler does
    seen,      \* seen[p]: what p's running statement read from its snapshot
    shown,     \* shown[u]: the messages that have reached a client of u
    claimed,   \* the rows the dispatcher has claimed and not handled yet
    left       \* how many of MaxRequests are left

db == <<sess, member, msgs, receipt, lastRead, outbox>>
work == <<phase, job, seen, left>>
vars == <<conn, sess, member, msgs, receipt, lastRead, outbox, phase, job,
          seen, left, shown, claimed>>

Slots == 1..MaxMessages
Stored == 1..Len(msgs)
Grades == {"none", "sent", "delivered", "read"}
Rank == [none |-> 0, sent |-> 1, delivered |-> 2, read |-> 3]
Rows == [msg : Slots, user : Users, peer : Peers \cup {NoPeer},
         status : {"pending", "dispatching"}]
NoRequest == [chat |-> "direct", by |-> NoUser, to |-> NoUser, id |-> NoId]
NoJob == [op |-> "none", req |-> NoRequest, chat |-> "direct", ids |-> {}, read |-> FALSE,
          msg |-> 0]
NoView == [users |-> {}, peers |-> {}, offline |-> {}, msgs |-> {}, ok |-> FALSE]

TypeOK ==
    /\ conn \in [Peers -> {"new", "open", "closed", "lost"}]
    /\ sess \in [Peers -> BOOLEAN]
    /\ member \in [Users -> {"none", "joined", "left"}]
    /\ msgs \in Seq([chat : Chats, by : Users, to : Users \cup {NoUser}, id : RequestIds])
    /\ Len(msgs) <= MaxMessages
    /\ receipt \in [Slots -> [Users -> Grades]]
    /\ lastRead \in [Users -> 0..MaxMessages]
    /\ outbox \subseteq Rows /\ claimed \subseteq Rows
    /\ phase \in [Peers -> {"idle", "queued", "running", "reply"}]
    /\ job \in [Peers -> [op : {"none", "send", "sync", "ack"},
                          req : Requests \cup {NoRequest}, chat : Chats,
                          ids : SUBSET Slots, read : BOOLEAN, msg : 0..MaxMessages]]
    /\ seen \in [Peers -> [users : SUBSET Users, peers : SUBSET Peers,
                           offline : SUBSET Users, msgs : SUBSET Slots, ok : BOOLEAN]]
    /\ shown \in [Users -> SUBSET Slots] /\ left \in 0..MaxRequests

Init ==
    /\ conn = [p \in Peers |-> "new"] /\ sess = [p \in Peers |-> FALSE]
    /\ member = [u \in Users |-> IF u = Owner THEN "joined" ELSE "none"]
    /\ msgs = <<>> /\ receipt = [m \in Slots |-> [u \in Users |-> "none"]]
    /\ lastRead = [u \in Users |-> 0] /\ outbox = {} /\ claimed = {}
    /\ phase = [p \in Peers |-> "idle"] /\ job = [p \in Peers |-> NoJob]
    /\ seen = [p \in Peers |-> NoView] /\ shown = [u \in Users |-> {}]
    /\ left = MaxRequests

-----------------------------------------------------------------------------
(* Connections and members                                                 *)

\* The client signs in: the session row is mirrored, then the handle is bound.
Connect(p) == /\ conn[p] = "new"
              /\ conn' = [conn EXCEPT ![p] = "open"]
              /\ sess' = [sess EXCEPT ![p] = TRUE]
              /\ UNCHANGED <<member, msgs, receipt, lastRead, outbox, work, shown, claimed>>

\* The socket closes.
Disconnect(p) == /\ conn[p] = "open" /\ phase[p] = "idle"
                 /\ conn' = [conn EXCEPT ![p] = "closed"]
                 /\ UNCHANGED <<db, work, shown, claimed>>

\* markRealtimeSessionDisconnected of the hook: until it commits, or for good
\* when it fails, the row of the closed socket says connected.
MarkDisconnected(p) ==
    /\ conn[p] = "closed" /\ sess[p]
    /\ sess' = [sess EXCEPT ![p] = FALSE]
    /\ UNCHANGED <<conn, member, msgs, receipt, lastRead, outbox, work, shown, claimed>>

\* The conference statements, as far as chat reads what they write.
JoinConference(u) == /\ u \in Members /\ member[u] # "joined"
                     /\ member' = [member EXCEPT ![u] = "joined"]
                     /\ UNCHANGED <<conn, sess, msgs, receipt, lastRead, outbox, work, shown, claimed>>
LeaveConference(u) == /\ u \in Members /\ member[u] = "joined"
                      /\ member' = [member EXCEPT ![u] = "left"]
                      /\ UNCHANGED <<conn, sess, msgs, receipt, lastRead, outbox, work, shown, claimed>>

-----------------------------------------------------------------------------
(* What statements read                                                    *)

\* Who may read message m: the two ends of the thread, or whoever is or was in
\* the conference when the message is for everyone, for them or by them.
Reads(u, m) ==
    IF msgs[m].chat = "direct" THEN u \in {msgs[m].by, msgs[m].to}
    ELSE member[u] # "none" /\ (msgs[m].to = NoUser \/ u \in {msgs[m].by, msgs[m].to})

\* The recipients CTE: the target, or the joined members but the sender.
Recipients(r) ==
    IF r.chat = "direct" THEN {r.to}
    ELSE {u \in Users \ {r.by} : member[u] = "joined" /\ r.to \in {NoUser, u}}

MaySend_AnyAccount(p, r) == sess[p]
\* The sender's session is connected and, in a conference, the sender joined.
MaySend(p, r) == sess[p] /\ (r.chat = "conf" => member[r.by] = "joined")

ConnectedOf(U) == {q \in Peers : sess[q] /\ UserOf[q] \in U}

\* What an acknowledgement is for: the named messages, not the client's own.
Acked_WholeThread(p) ==
    {m \in Stored : msgs[m].chat = job[p].chat /\ msgs[m].by # UserOf[p] /\ Reads(UserOf[p], m)}
Acked(p) ==
    {m \in job[p].ids \cap Stored :
        msgs[m].chat = job[p].chat /\ msgs[m].by # UserOf[p] /\ Reads(UserOf[p], m)}

\* What a synchronisation returns, on one page.
Synced(p) == {m \in Stored : msgs[m].chat = job[p].chat /\ Reads(UserOf[p], m)}

\* The snapshot of p's statement.
View(p) ==
    LET r == job[p].req
        U == Recipients(r)
        active == ConnectedOf(U)
    IN CASE job[p].op = "send" ->
              [NoView EXCEPT !.users = U, !.peers = active, !.ok = MaySend(p, r),
                             !.offline = U \ {UserOf[q] : q \in active}]
         [] job[p].op = "sync" -> [NoView EXCEPT !.ok = TRUE, !.msgs = Synced(p)]
         [] job[p].op = "ack" -> [NoView EXCEPT !.ok = TRUE, !.msgs = Acked(p)]

\* ON CONFLICT (..., client_request_id) WHERE it is not null.
Twins_NoUniqueIndex(r) == {}
Twins(r) == {m \in Stored : r.id # NoId /\ msgs[m].chat = r.chat
                            /\ msgs[m].by = r.by /\ msgs[m].id = r.id}

-----------------------------------------------------------------------------
(* Requests                                                                *)

Submit(p, j) == /\ conn[p] = "open" /\ phase[p] = "idle"
                /\ left > 0 /\ left' = left - 1
                /\ phase' = [phase EXCEPT ![p] = "queued"]
                /\ job' = [job EXCEPT ![p] = j]
                /\ UNCHANGED <<conn, db, seen, shown, claimed>>

RequestSend(p) == \E r \in Requests :
    r.by = UserOf[p] /\ Submit(p, [NoJob EXCEPT !.op = "send", !.req = r])

RequestSync(p) == \E c \in Chats : Submit(p, [NoJob EXCEPT !.op = "sync", !.chat = c])

\* A client acknowledges messages that it has, as delivered or as read.
RequestAck(p) == \E c \in Chats, I \in SUBSET shown[UserOf[p]], b \in BOOLEAN :
    /\ I # {} /\ \A m \in I : msgs[m].chat = c
    /\ Submit(p, [NoJob EXCEPT !.op = "ack", !.chat = c, !.ids = I, !.read = b])

\* A slot is free.  listDirectMessages and listConferenceMessages only read: they
\* are over with their snapshot.
Begin(p) == /\ phase[p] = "queued"
            /\ Cardinality({q \in Peers : phase[q] = "running"}) < PoolSize
            /\ phase' = [phase EXCEPT ![p] = IF job[p].op = "sync" THEN "reply" ELSE "running"]
            /\ seen' = [seen EXCEPT ![p] = View(p)]
            /\ UNCHANGED <<conn, db, job, left, shown, claimed>>

Finish(p) == /\ phase' = [phase EXCEPT ![p] = "idle"]
             /\ job' = [job EXCEPT ![p] = NoJob]
             /\ seen' = [seen EXCEPT ![p] = NoView]
             /\ UNCHANGED left

\* Every attempt failed: the handler answers with the failure.
Abort(p) == /\ "db" \in Faults /\ phase[p] = "queued"
            /\ Finish(p)
            /\ UNCHANGED <<conn, db, shown, claimed>>

-----------------------------------------------------------------------------
(* The statements                                                          *)

Runs(p, o) == phase[p] = "running" /\ job[p].op = o

\* Committed: the reply comes, or is lost and the statement runs again.
Commit(p, m) ==
    \/ /\ phase' = [phase EXCEPT ![p] = "reply"]
       /\ job' = [job EXCEPT ![p].msg = m]
       /\ UNCHANGED seen
    \/ /\ "reply" \in Faults
       /\ phase' = [phase EXCEPT ![p] = "queued"]
       /\ seen' = [seen EXCEPT ![p] = NoView]
       /\ UNCHANGED job

\* The rows of outbox and offline_outbox for one execution of a send.
NewRows_NowOffline(p, m) ==
    [msg : {m}, user : {u \in seen[p].users : ConnectedOf({u}) = {}}, peer : {NoPeer},
     status : {"pending"}]
    \cup {[msg |-> m, user |-> UserOf[q], peer |-> q, status |-> "pending"] : q \in seen[p].peers}
NewRows_UserAsPeer(p, m) ==
    [msg : {m}, user : seen[p].offline, peer : {NoPeer}, status : {"pending"}]
    \cup {[msg |-> m, user |-> UserOf[q], peer |-> UserOf[q], status |-> "pending"] :
             q \in seen[p].peers}
NewRows(p, m) ==
    [msg : {m}, user : seen[p].offline, peer : {NoPeer}, status : {"pending"}]
    \cup {[msg |-> m, user |-> UserOf[q], peer |-> q, status |-> "pending"] : q \in seen[p].peers}

\* sendDirectMessage and sendConferenceMessage: the message or its twin, a
\* receipt for each recipient that has none, and the outbox rows every time.
ApplySend(p) ==
    /\ Runs(p, "send") /\ seen[p].ok
    /\ LET r == job[p].req
           twins == Twins(r)
       IN \E m \in IF twins # {} THEN twins ELSE {Len(msgs) + 1} :
            /\ m <= MaxMessages
            /\ msgs' = IF twins # {} THEN msgs ELSE Append(msgs, r)
            /\ receipt' = [receipt EXCEPT ![m] = [u \in Users |->
                             IF u \in seen[p].users /\ @[u] = "none" THEN "sent" ELSE @[u]]]
            /\ outbox' = outbox \cup NewRows(p, m)
            /\ Commit(p, m)
    /\ UNCHANGED <<conn, sess, member, lastRead, left, shown, claimed>>

\* No connected session of the sender, or not a joined member: no row comes back
\* and the request fails.
RefuseSend(p) == /\ Runs(p, "send") /\ ~seen[p].ok
                 /\ Finish(p)
                 /\ UNCHANGED <<conn, db, shown, claimed>>

Graded_DropsRead(g, read) == IF read THEN "read" ELSE "delivered"
\* COALESCE keeps the first delivered_at and read_at.
Graded(g, read) == IF read \/ g = "read" THEN "read" ELSE "delivered"

\* mark_member: the newest message of this acknowledgement, if any.
Newest_OfTheChat(p) == CHOOSE m \in Stored : /\ msgs[m].chat = "conf"
    /\ \A n \in Stored : msgs[n].chat = "conf" => n <= m
Newest(p) == CHOOSE m \in seen[p].msgs : \A n \in seen[p].msgs : n <= m

\* ackDirectMessages and ackConferenceMessages.
ApplyAck(p) ==
    /\ Runs(p, "ack")
    /\ LET u == UserOf[p] IN
       /\ receipt' = [m \in Slots |->
                        IF m \in seen[p].msgs
                        THEN [receipt[m] EXCEPT ![u] = Graded(@, job[p].read)]
                        ELSE receipt[m]]
       /\ lastRead' = IF job[p].chat = "conf" /\ job[p].read /\ seen[p].msgs # {}
                         /\ member[u] # "none"
                      THEN [lastRead EXCEPT ![u] = Newest(p)] ELSE lastRead
    /\ Commit(p, 0)
    /\ UNCHANGED <<conn, sess, member, msgs, outbox, left, shown, claimed>>

\* What a reply brings to its client: the page of a synchronisation or, after a send,
\* the message as it is stored.
Carried(p) == IF job[p].op = "sync" THEN seen[p].msgs
              ELSE IF job[p].op = "send" THEN {job[p].msg} ELSE {}

\* The reply and, after a send, the live events to the sessions of the snapshot.
\* An event for a socket that has closed, or whose queue is full, is dropped.
Reply(p) ==
    /\ phase[p] = "reply"
    /\ \E got \in SUBSET {q \in seen[p].peers : conn[q] = "open"} :
         shown' = [u \in Users |->
              shown[u] \cup (IF u = UserOf[p] THEN Carried(p) ELSE {})
                       \cup (IF u \in {UserOf[q] : q \in got} THEN {job[p].msg} ELSE {})]
    /\ Finish(p)
    /\ UNCHANGED <<conn, db, claimed>>

-----------------------------------------------------------------------------
(* The dispatcher of offline rows                                          *)

Claimable_AnyRow == {r \in outbox : r.status = "pending"}
\* Rows with a target session or peer are nobody's to claim.
Claimable == {r \in outbox : r.status = "pending" /\ r.peer = NoPeer}

\* claimPendingOfflineOutbox.  After a lost reply the statement runs again and no
\* longer finds the rows.
Claim ==
    /\ claimed = {} /\ Claimable # {}
    /\ outbox' = (outbox \ Claimable) \cup {[r EXCEPT !.status = "dispatching"] : r \in Claimable}
    /\ \/ claimed' = {[r EXCEPT !.status = "dispatching"] : r \in Claimable}
       \/ "reply" \in Faults /\ UNCHANGED claimed
    /\ UNCHANGED <<conn, sess, member, msgs, receipt, lastRead, work, shown>>

\* The process ends and is started again: markServerNodeSessionsDisconnected, whose
\* failure is only logged.
Restart == /\ claimed' = {}
           /\ conn' = [p \in Peers |-> IF conn[p] = "new" THEN "new" ELSE "lost"]
           /\ sess' = [p \in Peers |-> FALSE] \/ ("db" \in Faults /\ UNCHANGED sess)
           /\ phase' = [p \in Peers |-> "idle"] /\ job' = [p \in Peers |-> NoJob]
           /\ seen' = [p \in Peers |-> NoView]
           /\ UNCHANGED <<member, msgs, receipt, lastRead, outbox, left, shown>>

\* targetPeerId of a claimed row is null, json::value() throws type_error, and
\* the exception leaves the thread function: std::terminate.
DispatchClaimed == claimed # {} /\ Restart

Crash == "crash" \in Faults /\ Restart

-----------------------------------------------------------------------------
Handler(p) == \/ Begin(p) \/ Abort(p) \/ ApplySend(p) \/ RefuseSend(p) \/ ApplyAck(p)
              \/ Reply(p)
Client(p) == Connect(p) \/ Disconnect(p) \/ RequestSend(p) \/ RequestSync(p) \/ RequestAck(p)
Dispatcher == Claim \/ DispatchClaimed

Next == \/ \E p \in Peers : Client(p) \/ MarkDisconnected(p) \/ Handler(p)
        \/ \E u \in Users : JoinConference(u) \/ LeaveConference(u)
        \/ Dispatcher \/ Crash

Spec == Init /\ [][Next]_vars
\* Handlers and the dispatcher thread run.
FairSpec == /\ Spec
            /\ \A p \in Peers : WF_vars(Handler(p) \/ MarkDisconnected(p))
            /\ WF_vars(Dispatcher)

-----------------------------------------------------------------------------
(* Properties                                                              *)

\* A send that is repeated, by the client or by execParamsResilient, is the same
\* message: no two messages of an account in a chat carry one request id.
OneMessagePerRequestId ==
    \A m, n \in Stored : msgs[m].id # NoId /\ msgs[m].id = msgs[n].id
        /\ msgs[m].by = msgs[n].by /\ msgs[m].chat = msgs[n].chat => m = n

\* Whatever overlaps - membership changes, retries, live events computed from an
\* old snapshot - a message shows up only with those it is for.
OnlyReadersSee == \A u \in Users : \A m \in shown[u] : Reads(u, m)

\* A receipt says delivered or read only if a client of that account has had the
\* message.
ReceiptsAreTrue ==
    \A m \in Slots, u \in Users : Rank[receipt[m][u]] >= 2 => m \in shown[u]

\* No acknowledgement, of whichever device and in whichever order, takes back what
\* an earlier one recorded.
ReceiptsNeverRetreat ==
    [][\A m \in Slots, u \in Users : Rank[receipt'[m][u]] >= Rank[receipt[m][u]]]_vars

\* The read mark of a member points to a message with a read receipt of theirs.
LastReadIsRead ==
    \A u \in Users : lastRead[u] # 0 => receipt[lastRead[u]][u] = "read"

\* Every receipt that a send left behind has an outbox row: no recipient falls
\* between the connected and the offline ones while sessions come and go.
EveryRecipientHasARow ==
    \A m \in Slots, u \in Users :
        receipt[m][u] = "sent" => \E r \in outbox : r.msg = m /\ r.user = u

\* scripts/chat-sync-reconnect-offline-e2e.ps1:589: a message sent to an account
\* that is offline reaches the client that reconnects and stays.
OfflineMessagesAreDelivered ==
    \A m \in Slots, u \in Users :
        (\E r \in outbox : r.msg = m /\ r.user = u /\ r.peer = NoPeer)
          ~> (m \in shown[u] \/ \A p \in Peers : UserOf[p] = u => conn[p] # "open")
=============================================================================
