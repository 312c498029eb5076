# A TLA+ verification development of MeetSpace_server

MeetSpace_server is a C++20 signalling server for chat, direct calls and
conferences (`EDS_serverNew`, on `Core`), a Postgres database it keeps all its
durable state in, and a node process (`apps/mediasoup-server`) that runs
mediasoup. This directory holds TLA+ modules of the parts of it that carry its
logic, the TLC configurations that check them on small instances, and theorems
about them that TLAPS checks for every instance.

In what follows `R` is `infrastructure/db/MessengerRepository.cpp`, `PG`
`PostgresClient.cpp`, `DC` and `CF` the feature modules of direct calls and
conferences, `GW` `MediasoupSignalingGateway.cpp`, `WS` `WebSocketServer.cpp`, `EN`
`MediasoupSfuEngine.cpp` and `JS` `apps/mediasoup-server/src/server.js`.
`PROJECT.json` maps every definition to the lines it stands for.

## 1. Inventory

### How a request travels

A client's text frame arrives on the strand of its socket (`WebSocketServer`),
the gateway parses it, checks the rate limits and hands it to `ApplicationCore`,
which finds the feature module for (object, agent, action). The feature module
asks `MessengerRepository` for ONE SQL statement, sends the media engine zero or
more commands, and returns a reply and events that the gateway posts to sockets.
All of it is synchronous: one connection has one handler at a time, and those of
different connections run in parallel on the io threads. They meet in the
database, in the session store, in the media engine, and in nothing else.

### Components

| Component | State | Operations | What is hard | What makes it correct |
|---|---|---|---|---|
| Direct calls (`DC`, statements in `R` 2440-2560, 3041-3420, 3840-4000) | `app.calls`, `call_participants`, `media_room_allocations` | create, accept, decline, hangup, open_transport with its recovery, webrtc_close, disconnect hook; file relay, call list, track commands | statements that overlap under READ COMMITTED; retries by client and pool; a peer that vanishes; media commands that fail after the commit | one call per request id; over stays over; no dangling invitation; a closed peer holds no call; only participants in its room |
| Conferences (`CF`, `R` 560-1180, 3700-3840) | `conferences`, `conference_members`, `conference_sessions`, `media_room_allocations` | create, join, leave, close, open_transport, webrtc_close, disconnect hook; three read-only lists; track commands | several devices of one account; counting what is left on an older snapshot; deletion under running statements | a conference and its allocation live together; open sessions belong to joined members; only the owner evicts; a closed connection leaves |
| `MessengerRepository` (`R`) | none of its own | one statement per method | every CTE of a statement sees one snapshot, its writes land on the latest row version | see its users |
| `PostgresClient` (`PG`) | slots with a connection and a mutex each | execute with reconnect and several attempts, each on the next slot | a lost reply means the statement runs twice; slots in turn, busy or not | at-least-once, and nothing else promised |
| Media engine (`EN`) | `rooms_`, `peers_`, transports, producers, consumers | create room, join, leave, close, disconnect, transports, produce, consume | the two maps and the backend's own state diverge when a backend operation fails | the maps agree; the last peer takes the room along |
| mediasoup feature module | none | commands to the engine without database rows; disconnect hook | its hook runs before or after the others | as the engine |
| `ApplicationCore` | map of feature modules | route; notify disconnect | hooks run in the order of an `unordered_map` | no order may matter |
| Control plane start-up | none | marks sessions disconnected | its statement does not filter on the node; failure is only logged | live sessions of other nodes survive (they do not) |
| Auth module, `SessionAuthStore` | handle -> user and two more indexes; `app.user_sessions` | bind, restore, logout, list peers | the binding and the row are written by two steps | the three indexes agree |
| Signalling gateway (`GW`) | peer registry, rate windows, dispatcher thread | connect, text, disconnect, publish | check and insertion of the connection limit; exception in a handler; fan-out to a socket that is closing | every request is answered once |
| `WebSocketServer` | sessions, outgoing queue | accept, post, close, stop | queue limit hit by another thread; stop detaches owners | `onDisconnected` exactly once |
| Offline outbox (`GW` 1226-1357, `R` 2878-3039) | rows of `app.realtime_outbox` without a target session | claim, deliver, retry | `GW` 1298 reads the `targetPeerId` of a claimed row, always null, into a string: the exception ends the process, the row stays `dispatching` | claimed at most once, delivered in the end |
| Chats (conference, direct) | messages, receipts, threads, last read message | send, sync, acknowledge, list threads, search | retries with one client message id; receipts out of order | one message per id; read implies delivered |
| Media policy | none | check a produce request | none | pure function |
| Supervisor, readiness probe | child process, output readers | start, probe, exit report, stop | readers stopped by the monitor thread; stop with a timeout | no start without readiness |
| mediasoup backend (`server.js`) | rooms, peers, transports, producers, consumers | one async operation per request | state checked before an `await` and used after it; timeouts that do not cancel; shutdown drains | no transport outlives its peer or room |
| `Core` framework | registries, fixed after start-up | register, dispatch | - | the chats reach their stores through it; the others answer in the feature module |
| State stores of calls and conferences | none | forward to the repository | - | no longer called |
| Cli, main, scripts | - | - | - | I/O, drivers; the scripts say what clients expect |

The hazards these behaviours bring are listed in `PROJECT.json`, each at the line
where it bites with the properties that would show it, or with the reason why no
property does.

## 2. Plan

Ordered by what matters most to users. All rows but the last exist.

| # | Module | Composes | Abstract specification | Runs | Theorems |
|---|---|---|---|---|---|
| 1 | `SfuRooms` | - | - | (by its users) | `EngineMapsAgree` (in 2) |
| 2 | `DirectCall` | `SfuRooms` | `CallLifecycle` | `call_serial`, `call_pool`, `call_rooms`, `call_live` | `DirectCallProofs`, `DirectCallRoomsProofs`, `DirectCallSerialProofs` |
| 3 | `Conference` | `SfuRooms` | - | `conf_serial`, `conf_pool`, `conf_live`, `conf_leave` | `ConferenceProofs`, `ConferenceSerialProofs` |
| 4 | `Chat` | - | - | `chat`, `chat_offline` | `ChatProofs` |
| 5 | `MediaPlane` | `MediaBackend` | `SfuRooms` | `media_plane` | `MediaPlaneProofs` |
| 6 | `Gateway` | `SessionAuthStore` | - | `gateway` | `GatewayProofs` |
| 7 | `PostgresPool`, `BackendSupervisor`, `ClientView` | - | - | - | left out, section 7 |

Every invariant, action property and refinement that a passing run checks is also stated by a
theorem (section 5). What may be proved beyond the runs: which properties of `PoolSize = 1` survive with more
slots when the statements of one call are known not to overlap, and an abstract specification of the chats.

## 3. The modules

### Statements, snapshots and the pool (`DirectCall`, `Conference`, `Chat`)

A repository method is one statement made of data-modifying CTEs. Postgres under
READ COMMITTED takes one snapshot when the statement starts; `target`,
`affected_calls` and every count of what remains read that snapshot. The `UPDATE`s then find the latest
version of each row by its id, and a guard such as `status = 'invited'` that was
tested in `target` is not tested again. So each statement is two actions:

* `Begin(p)`: a slot is free, `seen[p]` becomes what the CTEs read;
* `ApplyX(p)`: the writes of statement X, computed from `seen[p]`, on the rows as
  they are now; and the reply, or a lost reply after which the statement runs again
  (`PG` 345-424: at least three attempts, or one per slot if there are more, each on the next slot, whether
  or not the one before committed).

At most `PoolSize` statements are between the two. The code hands slots out in turn,
so two handlers may share one while another is idle; the model lets any free slot be
used, which allows every order the code allows and more. With `PoolSize = 1`
statements do not overlap. That configuration is a legal one, and
some properties hold only there. They say so.

The handler of a connection is a small program counter, `phase[p]`: a request is
`queued`, its statement `running`, then come the media commands one by one
(`create_room`, `join_room`, `close_peers`, `open`, `rejoin`, `recreate`, ...).
Everything of other connections may come between any two of those.

| In the model | In the code |
|---|---|
| `conn[p]` | the socket. `lost`: its cleanup did not run, because the statement failed on all attempts (`DC` 625) or the process died |
| `bound[p]`, `sess[p]` | `SessionAuthStore` and the row of `app.user_sessions` |
| `call`, `part`, `alloc` | rows of `app.calls`, `call_participants`, `media_room_allocations` |
| `owner`, `mem`, `csess` | rows of `app.conferences`, `conference_members`, `conference_sessions` |
| `rooms`, `members`, `roomOf` | `rooms_`, `rooms_[r].peers`, `peers_[p].roomId` |
| `Connect`, `BindSession`, `Logout`, `Disconnect` | gateway callbacks, auth module |
| `RequestCreate`, `RequestOnCall`, `Submit` | the feature module's handler up to its statement |
| `Hooks`, `LeaveLast` | `notifyFeatureSessionDisconnected`: mediasoup hook before or after the other |
| `Restart`, `OtherNodeStarts` | crash and start of this node; start of another one |

### `SfuRooms`

Rooms and their members as the engine keeps them. Each operation runs under the
engine's mutex with the backend call in the middle, hence is atomic; `BackendFails`
stands for a backend that refuses or is silent, and for a refusal by the media
policy, after which the engine keeps its state.

### `DirectCall` and `CallLifecycle`

`CallLifecycle` is the life of one call as a reader of the code expects it:
invited once, answered while invited, over for ever. `DirectCall` is how the code does
it. `Life` maps `declined` and `ended` to "over". `'ringing'` is in the code's
guards but no statement writes it, so it is not a status of the model.

Details kept because they decide properties: a caller may accept its own call (no
role is checked); a session whose row is disconnected joins a room without
a participant row; an accept by another session of the account takes over
`joined_session`; decline leaves the allocation; `open_transport` does not look at
the status; a retried `create_call` of an ended call allocates and creates its room again.

Abstracted: events and notifications, names, SDP, ports, the file relay and the
track commands (their effect on the engine is in `MediaPlane`). `Disconnect` marks the session row and unbinds the handle in one step
(two consecutive calls of the gateway; nothing the model has reads them apart).

`call[c].answerer` is a history field: the connection whose accept has made the call accepted, while it is accepted. No guard
reads it. The nearest thing in the code is the session of the 'accepted' row in `app.call_events`. With it
`AnswererHoldsAcceptedCall` is about the row of whoever answered: the caller's own row is accepted and joined from
the start, so that some row is accepted says nothing.

### `Conference`

The schema is not in the repository. Rows that refer to a deleted conference are
taken to be gone with it or never visible again; `gone` in a snapshot records the targets deleted
since it was taken, and a join on such a target either fails or writes rows nobody can see.

Details kept: a leave counts the user's open sessions and the joined members
on the snapshot in which its own session is still open, so a member
turns to `left` at its second leave and the conference goes at the third; a
disconnect, which uses the same counts, never turns anybody to `left`; only a leave that has
itself deleted the allocation returns a room id, any other reads JSON null into a
string and throws (phase `thrown`, answered by the gateway's anonymous error);
`left` members may still open transports; a create by somebody else on an
existing public id enters it and the owner stays. The account of a connection is fixed
(`UserOf`).

### `Chat`

One thread of two accounts and one conference stand for the tables of both chats, which are
written alike: a message is a slot in the order of commits with its sender, its recipient if it has
one, and its client request id; `receipt[m][u]` grades what is known of a recipient from "none" to
"read"; `lastRead` is the read mark of a member; `outbox` holds the rows of `app.realtime_outbox`;
`shown[u]` is what clients of an account have had on their screens, from a synchronisation, a
live event or their own reply.

A send is `RequestSend`, `Begin` (the snapshot: recipients, their connected sessions, the twin with
the same id), `ApplySend` and `Reply`, in which the live events go to the sessions of
the snapshot - also when they have closed or signed out of the conference since. `MarkDisconnected`
is an action of its own after `Disconnect`: until it commits, or for good when it
fails, the row of a closed socket says connected. `DispatchClaimed` is what the dispatcher thread does
with a claimed row: it ends the process. Process end and the
next start, with the clean-up of session rows, are one action; the clean-up may fail, which is only logged (`ControlPlaneServices.cpp` 94),
and the rows of the sockets that were open (`conn` "lost") then say connected.

Assumed: `SendsAreWellFormed`, a client uses a request id again only to retry. Without it `R` 1694
shows one recipient the message for another, which is listed as a hazard.

### `MediaBackend` and `MediaPlane`

`MediaBackend` is `server.js`: one room, its router, and the operations on it. Node runs one
piece of code at a time, so the model's actions are the pieces between two `await`s: `Serve` is an
operation up to its first `await` (`stage` "queued" to "pool", "router" or
"media"), `WorkerStarted`, `RouterMade` and `MediaMade` what follows. An operation that was
answered by `withOperationTimeout`, or whose socket closed, loses its `live` flag and goes on.

| In the model | In the code |
|---|---|
| `pool`, `serial`, `mapped`, `router` | `state.workerPool`, `workerSerial`, `workerByRoom`, the worker of `state.routers`' entry |
| `bIn`, `bTrans`, `bProd`, `bCons`, `bFlow` | `roomPeers`, `transports`, `producers`, `consumers`, those not paused |
| `dying` | consumers whose `producerclose` event has not been handled |
| `ops`, `inbox` | promises in flight; replies on the engine's socket |
| `eRoom`, `eIn`, `eTrans`, `eProd`, `eCons`, `eFlow` | `rooms_`, its peers, `transports_`, `producers_`, `consumers_` |
| `call`, `Send`, `IoFails`, `Receive` | `callMediasoupBackendNoLock` with its attempts |
| `doubt` | a ghost: the peers about whom an answer was lost, or whose worker or transport died |

`MediaPlane` is the engine in front of it. It holds its mutex for a whole call, so one call is
outstanding, and it never compares the id of a reply: `ReplyAnswersRequest` says why it may.
The engine's writes happen in `Receive` only.
`ImplementsRooms` is the refinement that ties this module to the calls and conferences: seen through the mapping `Sfu`,
rooms and members change by the operations of `SfuRooms` and by nothing else. `Addressed` and `MayCall` are the checks of the
feature modules and of `executeIntentNoLock`; refused intents change nothing and are left out.

Abstracted: one room; a transport and a track per peer, named by it; a consumer is the pair of its
ends. A request on a router that has been closed since may still succeed, and any eligible
worker may be chosen: both allow more than mediasoup does. Once a
connection has failed, what the backend has not yet taken from the old socket is dropped, and what it
has taken goes on next to the requests of the new one.

### `SessionAuthStore` and `Gateway`

`SessionAuthStore` is the store with its indexes `byHandle`, `peerToHandle`, `userToPeers` and
`userToHandles`, and `bind` and `unbind` with the early returns of the code. `Gateway` composes it with
the web socket server and the gateway. A session is its address (`sessionHandle` is the pointer),
which a later connection may get again once `Freed`; a peer name is drawn at random and checked only
against the names in use, so it comes again too.

`step[s]` is where the strand of a connection is: `checked` (the limit was tested, the peer
is not yet named: `GW` 533-578 are two critical sections), `verifying` (the HTTP request of a sign-in),
`unregistered` and `forgotten` (gone from the server's map, gone from the gateway's, not yet signed out). Texts go to the
send strand (`sends`), from there to the session's strand (`posted`) and its queue (`out`): each hop is an
action, so texts meet sockets that have closed, and addresses that belong to somebody else by now. At most
`IoThreads` strands run at once. Rate limits are a choice to `Refuse`.

`Disconnected` runs the hooks of the features (their own modules have them) and unbinds by handle.
`unbindPeer` is unreachable, since a handle is never 0. `stop()` is left out (section 7).

## 4. The runs

| Run | Instance | Shows |
|---|---|---|
| `call_serial` | alice and bob, 2 calls, `PoolSize` 1, lost replies, crashes; requests with and without an id | `ClosedPeerHoldsNoCall`, `CallInProgressIsAllocated`, `ImplementsLifecycle` |
| `call_pool` | the same people, `PoolSize` 2, every fault but "node", all operations | `TypeOK`, `OneCallPerRequestId`, `NoInvitationToAFinishedCall`, `AnswererHoldsAcceptedCall`, `PlacedPeersAreMembers` |
| `call_rooms` | alice, bob, carol, 1 call, `PoolSize` 2, lost replies | `RoomsHoldParticipants` |
| `call_live` | alice and bob on a shared device and bob on his own, 1 call, another node starting | `HeldCallsEnd`, under `FairSpec` |
| `conf_serial` | alice on two devices, bob, 1 conference, `PoolSize` 1, lost replies | `SessionsBelongToMembers`, `OnlyTheOwnerEvicts` |
| `conf_pool` | alice on two devices, `PoolSize` 2, all five faults, all operations | `TypeOK`, `ConferencesAreAllocated` |
| `conf_live` | alice and bob, `PoolSize` 2, lost replies, another node starting | `DisconnectedSessionsClose`, under `FairSpec` |
| `conf_leave` | alice and bob, no fault | refutes `LeavesAreAnswered` (section 6) |
| `chat` | alice on one device, bob on two; a direct message with an id and a conference message without; 2 messages, 3 requests, `PoolSize` 2; lost replies, failing statements, crashes | `TypeOK`, `OneMessagePerRequestId`, `OnlyReadersSee`, `ReceiptsAreTrue`, `LastReadIsRead`, `EveryRecipientHasARow`, `ReceiptsNeverRetreat` |
| `chat_offline` | alice and bob, one device each, no fault | refutes `OfflineMessagesAreDelivered` (section 6), under `FairSpec` |
| `media_plane` | three peers, two of them seated with a track each, 1 worker and a limit of 2 peers, 4 requests, 1 retry, all faults | `TypeOK`, `ReplyAnswersRequest`, `MapsAgree`, `EngineTracksAreOwned`, `WorkerLoadWithinLimit`, `ImplementsRooms`, and `EveryCallEnds` under `FairSpec` |
| `gateway` | three connections, three names, two accounts, 2 I/O threads, a limit of 1 connection, one text in each queue | `TypeOK`, `IndexesAgree`, `PeersWithinLimit`, `PeersAreConnections`, `BindingsAreConnected` |

**Bounds.** In the runs of calls and conferences: the calls that can be created (`Calls`; `Spare` keeps a free one for
each statement that may insert), the connections (each is used once, as a
peer id is), the accounts, and `Ops`, the operations clients request. There is no
bound on the number of requests, retries, crashes or lost replies: the runs explore
the whole reachable graph. Two calls are what a broken `ON CONFLICT` needs; two slots are
what an overlap of two statements needs, and every hazard in the list is one of two
statements (the theorems hold for any number); two
connections of one account plus one of another are what the counts of
remaining sessions and members tell apart; a third account is the stranger
`RoomsHoldParticipants` is about. `conf_pool` has one conference: conferences
share nothing but the engine's maps, and peers in several rooms are covered
by `call_pool`. Calls are symmetric in `call_pool` (no property orders them, no liveness there).

`chat` bounds messages (`MaxMessages`) and requests (`MaxRequests`): two messages are what an order of messages needs,
three requests a send, its retry or an acknowledgement from one device, and a second acknowledgement from the other. The thread and the
conference have one fixed send each, so that private and public messages both occur.

`media_plane` bounds requests (`MaxRequests`, an intent starts only if all its attempts fit), attempts, and workers ever started
(`MaxWorkers`). It starts from two peers that have joined and published (`Seated`), a state the two sides reach by six
successful calls, so that four requests are about what is hard: a leave or a lost consume next to an operation that was
given up on. The third peer meets the limit of the worker.

`gateway` bounds the texts on each strand (`MaxSends`, `MaxPosted`) and in each queue (`MaxOut`, the code's `kMaxOutboundQueueMessages`). With
`MaxConnections + IoThreads - 1` equal to 2, three connections are enough to overrun the limit, and are not enough
to exceed the overrun the code allows only if the bound is right. Connections, names and accounts are symmetric
(`Alike`; no liveness there).

**Faults** are switched per run (`FaultKinds`), for the size of the state space and because
some properties exclude some: `RoomsHoldParticipants` and
`AnswererHoldsAcceptedCall` do not hold once another node has marked a live
session disconnected, since an accept then records nobody (a hazard, `R` 302); the theorems have it as a hypothesis.

**Fairness.** `FairSpec` asks for weak fairness of `Handler(p)` only: a handler that started
goes on. This is the io threads' scheduling plus a database that answers
(the runs with fairness have no "db" fault). In them `PoolSize` is at least the
number of connections, so a queued statement is never kept out by others and
weak fairness is enough. Clients are under no fairness: a request may never be made, a socket never
close. A connection that was closed before keeps nothing alive.
`Chat` has fairness of handlers, of the dispatcher thread and of the clean-up of a closed socket. `MediaPlane` has it of
the engine's thread, of the backend's event loop, and of the backend's operation timer, since `EveryCallEnds` is not
about mediasoup being quick: it must hold when mediasoup never answers. The engine's own timeout is not used: Beast's
`expires_after` (`EN` 519) has no effect on synchronous reads and writes.

**Deadlock** is checked in `gateway`, where something can always happen. Elsewhere it is not: clients may close all their connections, or the requests of a bounded run be used up, and the
system then rightly has nothing to do.

**Mutants.** `PROJECT.json` names for each property of a passing run a mutant of the model, the
operator that stands before its original in the module (`StatusGuard_AcceptAny`
before `StatusGuard`): the change a plausible bug would make, under which TLC
finds the property violated.

## 5. The proofs

The proof modules hold for any sets of connections, accounts and calls or
conferences, any number of threads, any limits and any set of faults, from the assumptions on the constants
and, for direct calls, `RetriesRepeatTheRequest` (a client uses a request id
again only to retry the same invitation). The pool size is any but in the two modules named `Serial`, and
`DirectCallRoomsProofs` excludes one fault: both are hypotheses of the theorems. They are invariance proofs: one step per
action, one per conjunct that the action disturbs.

`DirectCallProofs`

* `TypeCorrect`, by `Typed`: the type invariant is not inductive by itself, because
  `CreateRoom` and `JoinRoom` index the rooms with `job[p].call`. `JobsNameCalls` adds that
  a handler in such a phase has a call.
* `CallsInvariant`, the inductive invariant behind `RetriesCreateOneCall` and
  `FinishedCallsHaveNoInvitation`. Neither goes through alone:
  a statement that ends a call settles only the participant rows of its snapshot, so
  we need that each snapshot covers every invitation the call will ever have. That is so because
  rows are added by creates alone; a create that finds its call by
  caller and request id must then add no one new, which needs
  `RetriesRepeatTheRequest`, that jobs carry real invitations
  (`CreatesAreInvites`), and that the callee of such a call already has a
  row (`CalleesHaveRows`).
* `EngineMapsAgree`: `PlacedPeersAreMembers`, by induction on its own.

`DirectCallRoomsProofs`

* The hypothesis `NoOtherNode`: "node" is not among the faults. Another node's start marks the
  session rows of live connections disconnected, after which an accept records nobody (a hazard, `R` 302; the
  properties are then false). A deployment of one node meets it.
* `RequestsInvariant`, by `RequestsInv`: a signed-in connection has its own connected session row, it signs out or
  closes only between requests, the snapshot of its statement found that row and targets only calls its user is in
  - and a handler that drives a room acts for a participant. `ClientKeepsOthers`, `StatementKeepsOthers` and
  `MediaKeepsOthers` say once what the steps of one connection leave to the others.
* `OnlyParticipantsInRooms`, from it. The second hypothesis, `SoleAccounts`, says that no connection signs in to two
  accounts one after the other: a sign-out leaves the connection in its rooms, and the next account is then in the room
  of a call that is not its own.
* `AnswerersHoldAcceptedCalls` needs in addition that a statement that writes over the row of whoever answered also
  targets the call, and so ends it or makes somebody else its answerer. It holds for statements that overlap, a call that an
  accept has revived included.

`DirectCallSerialProofs` and `ConferenceSerialProofs`

* The hypothesis is `PoolSize = 1`, the smallest pool the code allows (`PG` 13). The properties are false with two
  slots: the overlaps behind that are the hazards of section 6. So these theorems say what the
  statements guarantee one by one, and that overlap is all there is to blame: retries, lost replies and crashes are not.
* `SnapshotsAreFresh`, by `SerialInv`: at most one statement runs, and what it read is what the tables hold. It rests on
  `BeginsAlone` (the cardinality of `Running`) and on no step but a statement's writing the tables.
* `CallsInProgressAreAllocated` and `CallsLiveOnce` follow. The latter is the step simulation of `CallLifecycle` through
  `Life`: each statement invites, answers or finishes calls in the order that module allows, or stutters; a request,
  a media command, a crash and the start of a node stutter.
* `ClosedPeersHoldNoCall`, by `CleanupInv`: from the commit of the clean-up on, in every phase that may follow
  (`CleanedUp`), the connection is in no row of a call in progress, since a statement puts no connection but its own
  into rows (`NamesArise`).
* `SessionsHaveMembers` is part of the `SerialInv` of conferences; `OwnersAloneEvict` uses that the count
  of a leave or disconnect is still right when it deletes.

`ConferenceProofs`

* `TypeCorrect`, likewise with `JobsNameConfs`.
* `AllocationInvariant`, behind `AllocationsFollowConferences`. An allocation is
  deleted only if the snapshot saw it, a conference if it is still there: that they
  go together needs that a snapshot with a conference has its allocation
  (`SnapshotsShowRooms`), that a target not known to be deleted exists
  (`LiveTargetsExist`), and that open sessions have a conference (the disconnect finds
  its targets through them, `SessionsHaveConference`).

`ChatProofs`

* `ChatInvariant`, behind all others. `ChatInv` adds to the properties what a handler knows: `JobFits`, an
  acknowledgement names messages that clients of the account have had, and a send whose statement has committed knows its
  message; `ViewFits`, what the snapshot showed stays true, since no message is deleted and a member who has left may still read - so those who get the
  live event may still read the message; and `MessagesWereRequested`.
* `RepeatedSendsAreOneMessage` rests on the assumption `SendsAreWellFormed` and on the conflict target being looked up
  again at the write, not in the snapshot. `ReceiptsOnlyRise` is an action property on the same invariant.

`GatewayProofs`

* `EdgeInvariant`, behind `TypeCorrect`, `StoreIndexesAgree`, `NamesAreConnections` and
  `SignInsAreConnected`. These four are proved together with `StepsFit`, that a strand
  is only where its connection lets it be: a connection whose limit was checked has no name yet, one whose verifier
  is out has a name and is known to the server. Without it a late answer could sign in a connection that is gone.
  What the store does is in the lemmas `BindKeepsStore` and `UnbindKeepsStore`, free of the gateway.
* `LimitHolds`. The invariant counts the connections that are named together with those that have passed the check and are
  about to be named: `Accept` passes the check with fewer than `MaxConnections` names, and with fewer than
  `IoThreads` strands running, its own not included.

`MediaPlaneProofs`

* `PlaneInvariant`, behind `TypeCorrect`, `RepliesAreForTheCall`, `TracksHaveOwners` and `RoomsAreImplemented`.
  `OneAnswer` is the strengthening for the replies: somebody answers for an operation only while the engine waits
  for it, and while a reply is on its way nobody does. `CallFits` is the one for the engine's maps: the reply comes many
  steps after the check, so it must be known that the call may still do what it asked - the maps change in
  `Receive` alone. `OpFits` says which operations wait where. Each of the ten kinds of step of the backend is first brought into
  one of four shapes (`OpStep`), and the operations and replies are then reasoned about once.

* `WorkersAreNotOverloaded`, by `LoadInv`: numbers of workers are not used again, so a dead worker never comes back under a
  room that has outgrown it. It uses `SeatedFit`: the peers that are seated at the start have joined on one worker.
* `BeliefsInvariant`, behind `MapsStayRight`. Engine and backend agree between calls only, so `AgreeInv` compares the
  backend with `DueIn`, `DueTrans` and so on: the engine's maps as they will be once it has read the positive reply that
  is on its way, if there is one (`DueAgree`). `OpsAreKnown` keeps late operations apart: one that answers to nobody
  is about a peer in doubt. `RouterStays` says why the backend does not lose a
  transport nobody doubts: while there is one, the room has its router on a living worker. `MediaFits` says that what
  mediasoup was asked for is still new to the tables when it is done.

**A property that proof corrected.** `WorkerLoadWithinLimit` first said that a room with any worker has no more
peers than the limit, and the run with one worker agreed. The proof did not go through for a join that finds the worker dead:
`server.js` 574-590 then has no worker to count on and lets it pass. With two workers
and 8 requests there is such a behaviour of 38 steps: two joins that were given up on still wait for routers on worker 1,
the room moves to worker 2, the late router of worker 1 replaces its router, worker 2 dies without closing
the room, and the late join is not limited. The property now is about living workers, which is what the limit
protects.

Only model-checked are the liveness properties `HeldCallsEnd`, `DisconnectedSessionsClose` and
`EveryCallEnds` (fairness is out of the prover's reach), and the two properties that runs refute.

## 6. What the checks found

**A leave is not answered** (`conf_leave`). `leaveConference` returns
`(SELECT room_id FROM deleted_alloc)` as `mediaRoomId`: JSON null unless this very statement has
deleted the allocation. `CF` 475 reads it with `value("mediaRoomId", std::string{})`,
which throws on null. The gateway's catch posts an error without the
correlation id: the leave is committed, its events are lost, `LeaveSession` is not sent, the client
waits. `scripts/conf6-leave-check-after-fix.json` shows the six time-outs.

**The server ends when it delivers to somebody who was offline** (`chat_offline`). Rows for offline recipients have no
target session and no target peer; the claim takes exactly those and returns `targetPeerId` as
`NULLIF('', '')`, JSON null; `GW` 1298 reads it into a string, which throws. Nothing in the thread function catches it, so
`std::terminate` ends the process, and the rows stay `dispatching`, which no claim looks at.
`scripts/chat-sync-reconnect-offline-e2e.ps1` 589 and 620 expect the message at the client that signs in
later. So the crashes the modules allow at any moment do happen in ordinary use.

True of the code and stated by no text of the repository, hence hazards without a finding:
an accept that overlaps a hangup, decline or disconnect revives an
ended call; a call in progress at a crash stays in progress; a retried create of an ended call leaves
an allocation; a close whose reply is lost closes no media session; a disconnect
never lets a conference end; the start of a node disconnects the session rows of all others;
a leave that overlaps a join deletes the conference under the newcomer; the read mark of a member
moves back when an older message is read later; one client id used for two recipients shows one of them the other's
message; the connection limit can be overrun by the number of I/O threads less one; a text queued to an
address can reach the next connection at that address; a closed track whose confirmation was lost
stays open in the engine, since the retry fails with "not found", and an opened transport whose confirmation was lost
stays unknown to it, since the retry fails with "already exists"; an operation that outlived its timeout stores
what it made for a peer that has left; two overlapping creations of a router leave their peers on different ones.

## 7. Not modelled

Formatting and parsing of messages, logging, configuration, TLS records, the Windows service and the
Cli are I/O. The state stores of calls and conferences only forward, and nothing calls them.

* `PostgresClient`: which slot a statement gets, reconnection and keepalive. Slots are handed out in turn whether busy or
  not, so a handler may wait behind a busy slot while others are idle: a delay, not a state.
* The supervisor and the readiness probe of the node process: pipes, handles and polls around one start and one stop.
  Nothing restarts the process. Its absence is a fault of `SfuRooms` and `MediaPlane`.
* `WebSocketServer::stop()`: it detaches the owners of the sessions and resets the server's members while the I/O threads
  still run. What then happens is undefined behaviour, of which a useful model is not to be had; that the hooks may not
  run, and the sessions stay open in the database until the next start, is what `Restart` has.
* What clients are told: events of calls and conferences, the lists at reconnect and what a client concludes from them. The
  gaps seen while reading are hazards (`R` 721, the auth module 156).
* The clock of the chats: `created_at` and the paging by it (hazard `R` 1427).
* In the backend: several rooms on a worker, ICE restarts, pause, statistics, queue and overload limits, heartbeats,
  and shutdown, which refuses operations and waits; in the engine: capabilities, the audio counters.
* That a connection whose close was posted is forgotten in the end was checked on two connections while `Gateway` was
  written; it has no run of its own, since the symmetry that the safety run needs excludes liveness.
