---------------------------- MODULE MediaBackend ----------------------------
(***************************************************************************)
(* The mediasoup backend (server.js): one room, its router, its peers and  *)
(* what they own, and the operations that are in flight on them.           *)
(*                                                                         *)
(* An operation runs to its next await in one step.  It may be abandoned - *)
(* its socket closed, or withOperationTimeout answered for it - and then   *)
(* goes on all the same, next to whatever the engine asks for afterwards.  *)
(* A peer owns at most one transport and one producer, named by the peer; a *)
(* consumer is the pair of its peer and the producer's.  mediasoup itself  *)
(* may refuse what it is asked for.                                        *)
(***************************************************************************)
EXTENDS Naturals, Sequences, FiniteSets

CONSTANTS
    Peers,
    NoPeer,             \* nobody: the peer of an operation that is about no peer
    WorkerCount,        \* WORKER_COUNT
    MaxPeersPerWorker,  \* MAX_PEERS_PER_WORKER
    MaxWorkers,         \* bound: workers started in a behaviour
    MaxRequests,        \* bound: requests that the engine sends in a behaviour
    Faults              \* which faults may happen, a subset of FaultKinds

\* "death": a worker dies.  "slow": an operation outlives its timeout.  "io": the
\* connection to the engine fails.  "dtls": a client closes its transport.
FaultKinds == {"death", "slow", "io", "dtls"}

ASSUME BackendConstants ==
    /\ NoPeer \notin Peers
    /\ WorkerCount \in Nat \ {0} /\ MaxPeersPerWorker \in Nat /\ MaxRequests \in Nat
    /\ MaxWorkers \in Nat /\ WorkerCount <= MaxWorkers /\ Faults \subseteq FaultKinds

VARIABLES
    pool,      \* state.workerPool, as a set of worker numbers
    serial,    \* state.workerSerial
    mapped,    \* state.workerByRoom of the room, 0 for none
    router,    \* the worker of the room's router in state.routers, 0 for none
    bIn,       \* state.roomPeers of the room
    bTrans,    \* the peers with an entry in state.transports
    bProd,     \* the peers with an entry in state.producers
    bCons,     \* state.consumers: pairs of the consuming and the producing peer
    bFlow,     \* those of them that are not paused
    dying,     \* consumers whose 'producerclose' event is still to come
    ops,       \* the operations in flight
    inbox,     \* replies on the engine's socket that it has not read
    doubt      \* ghost: peers the engine cannot know the truth about any more

tracks == <<bTrans, bProd, bCons, bFlow, dying>>
room == <<mapped, router, bIn, tracks>>
backend == <<pool, serial, room, ops, inbox, doubt>>

Kinds == {"create", "join", "leave", "open", "publish", "closeTrack", "consume", "resume"}
Workers == 1..MaxWorkers
Ops == [n : 0..MaxRequests, kind : Kinds \cup {"refill"}, peer : Peers \cup {NoPeer},
        of : Peers \cup {NoPeer}, stage : {"queued", "pool", "router", "media"}, worker : 0..MaxWorkers, live : BOOLEAN]
Replies == [n : 1..MaxRequests, ok : BOOLEAN]

BackendTypeOK ==
    /\ pool \subseteq Workers /\ serial \in 0..MaxWorkers
    /\ mapped \in 0..MaxWorkers /\ router \in 0..MaxWorkers
    /\ bIn \subseteq Peers /\ bTrans \subseteq Peers /\ bProd \subseteq Peers
    /\ bCons \subseteq Peers \X Peers /\ bFlow \subseteq bCons /\ dying \subseteq bCons
    /\ ops \subseteq Ops /\ inbox \in Seq(Replies) /\ doubt \subseteq Peers

-----------------------------------------------------------------------------
(* Answers and what they change                                            *)

\* drainSocketQueue sends the response if nobody has answered for the operation.
Answer(o, ok) ==
    /\ ops' = ops \ {o}
    /\ inbox' = IF o.live THEN Append(inbox, [n |-> o.n, ok |-> ok]) ELSE inbox

Await(o, stage, w) ==
    /\ ops' = (ops \ {o}) \cup {[o EXCEPT !.stage = stage, !.worker = w]}
    /\ UNCHANGED inbox

DropConsumers_KeepFlow(C) ==
    bCons' = bCons \ C /\ bFlow' = bFlow /\ dying' = dying \ C
\* The consumers C go.
DropConsumers(C) ==
    bCons' = bCons \ C /\ bFlow' = bFlow \ C /\ dying' = dying \ C

ClosePeers_KeepTransports(P) ==
    /\ bTrans' = bTrans /\ bProd' = bProd \ P
    /\ bCons' = {c \in bCons : c[1] \notin P} /\ bFlow' = bFlow \cap bCons'
    /\ dying' = {c \in bCons' : c \in dying \/ c[2] \in bProd \cap P}
\* closePeerResources for each of P.  The consumers of other peers follow when
\* mediasoup reports 'producerclose'.
ClosePeers(P) ==
    /\ bTrans' = bTrans \ P /\ bProd' = bProd \ P
    /\ bCons' = {c \in bCons : c[1] \notin P} /\ bFlow' = bFlow \cap bCons'
    /\ dying' = {c \in bCons' : c \in dying \/ c[2] \in bProd \cap P}

\* closeRoom.
CloseRoom == /\ ClosePeers(bIn) /\ bIn' = {} /\ router' = 0 /\ mapped' = 0

\* ensureWorkerPeerCapacityForJoin: a room without a worker is not checked.
WorkerHasRoom(p, m, P) ==
    p \in bIn \/ m \notin P \/ Cardinality(bIn) + 1 <= MaxPeersPerWorker

-----------------------------------------------------------------------------
(* From one await to the next                                              *)

TakeSeat_Unchecked(o, m, P) == Answer(o, TRUE) /\ bIn' = bIn \cup {o.peer}
\* opJoinPeer after its await: the capacity is checked once more.
TakeSeat(o, m, P) ==
    /\ Answer(o, WorkerHasRoom(o.peer, m, P))
    /\ bIn' = IF WorkerHasRoom(o.peer, m, P) THEN bIn \cup {o.peer} ELSE bIn

\* What an operation does once its router r on the workers P is there.
WithRouter(o, r, m, P) ==
    CASE o.kind = "create" -> Answer(o, TRUE) /\ UNCHANGED <<bIn, tracks>>
      [] o.kind = "join" -> TakeSeat(o, m, P) /\ UNCHANGED tracks
      [] o.kind = "open" ->
           /\ IF m \in P /\ o.peer \notin bTrans THEN Await(o, "media", r) ELSE Answer(o, FALSE)
           /\ UNCHANGED <<bIn, tracks>>

\* pickWorkerContextForRoom: workers that can take the room's peers.  It orders them
\* by load and cursor; any of them may be chosen here.
Eligible(P) == IF Cardinality(bIn) <= MaxPeersPerWorker THEN P ELSE {}

\* ensureRoomRouter after its first await: a router whose worker is known is used;
\* one that is not is closed.
RoomRouter(o, P) ==
    \/ /\ router # 0 /\ mapped \in P
       /\ WithRouter(o, router, mapped, P) /\ UNCHANGED <<router, mapped>>
    \/ /\ ~(router # 0 /\ mapped \in P)
       /\ router' = 0
       /\ LET keeps == router = 0 /\ mapped \in P
              choice == IF keeps THEN {mapped}
                        ELSE Eligible(P)
          IN \/ \E w \in choice : mapped' = w /\ Await(o, "router", w)
             \/ /\ choice = {} /\ mapped' = IF router = 0 THEN mapped ELSE 0
                /\ Answer(o, FALSE)
       /\ UNCHANGED <<bIn, tracks>>

\* ensureWorkerPool.
Pooled(o) ==
    IF Cardinality(pool) >= WorkerCount THEN RoomRouter(o, pool)
    ELSE Await(o, "pool", 0) /\ UNCHANGED room

\* What handleRequest does with each operation, up to its first await.
Refuse(o) == Answer(o, FALSE) /\ UNCHANGED room
InMediasoup(o, possible) == IF possible THEN Await(o, "media", router) /\ UNCHANGED room ELSE Refuse(o)

OpCreateRouter(o) == o.kind = "create" /\ Pooled(o)

OpJoinPeer(o) ==
    /\ o.kind = "join"
    /\ IF WorkerHasRoom(o.peer, mapped, pool) THEN Pooled(o) ELSE Refuse(o)

\* opLeavePeer and opClosePeer: the last one to leave takes the room along.
OpLeavePeer(o) ==
    /\ o.kind = "leave" /\ Answer(o, TRUE)
    /\ bIn' = bIn \ {o.peer}
    /\ IF router # 0 THEN ClosePeers({o.peer}) ELSE UNCHANGED tracks
    /\ IF bIn = {o.peer} THEN router' = 0 /\ mapped' = 0 ELSE UNCHANGED <<router, mapped>>

OpCreateWebRtcTransport(o) ==
    /\ o.kind = "open"
    /\ IF o.peer \in bIn THEN Pooled(o) ELSE Refuse(o)

OpProduce(o) ==
    /\ o.kind = "publish"
    /\ InMediasoup(o, o.peer \in bTrans \cap bIn /\ o.peer \notin bProd)

OpCloseProducer(o) ==
    /\ o.kind = "closeTrack"
    /\ \/ o.peer \notin bProd /\ Refuse(o)
       \/ /\ o.peer \in bProd /\ Answer(o, TRUE)
          /\ bProd' = bProd \ {o.peer} /\ DropConsumers({c \in bCons : c[2] = o.peer})
          /\ UNCHANGED <<mapped, router, bIn, bTrans>>

OpConsume(o) ==
    /\ o.kind = "consume"
    /\ InMediasoup(o, /\ o.peer \in bTrans \cap bIn /\ o.of \in bProd
                      /\ <<o.peer, o.of>> \notin bCons)

OpResumeConsumer(o) == o.kind = "resume" /\ InMediasoup(o, <<o.peer, o.of>> \in bCons)

\* drainSocketQueue takes a request from its socket's queue.
Serve(o) ==
    /\ o \in ops /\ o.stage = "queued"
    /\ \/ OpCreateRouter(o) \/ OpJoinPeer(o) \/ OpLeavePeer(o)
       \/ OpCreateWebRtcTransport(o) \/ OpProduce(o) \/ OpCloseProducer(o)
       \/ OpConsume(o) \/ OpResumeConsumer(o)
    /\ UNCHANGED <<pool, serial, doubt>>

\* createWorkerContext has ended for a loop of ensureWorkerPool.
WorkerStarted(o) ==
    /\ o \in ops /\ o.stage = "pool" /\ serial < MaxWorkers
    /\ serial' = serial + 1 /\ pool' = pool \cup {serial + 1}
    /\ \/ Cardinality(pool) + 1 < WorkerCount /\ UNCHANGED <<ops, inbox, room>>
       \/ /\ Cardinality(pool) + 1 >= WorkerCount
          /\ IF o.kind = "refill" THEN Answer(o, TRUE) /\ UNCHANGED room
             ELSE RoomRouter(o, pool \cup {serial + 1})
    /\ UNCHANGED doubt

\* It has failed: only an empty pool is an error.
WorkerFailed(o) ==
    /\ o \in ops /\ o.stage = "pool" /\ "death" \in Faults
    /\ IF pool = {} \/ o.kind = "refill" THEN Answer(o, FALSE) /\ UNCHANGED room
       ELSE RoomRouter(o, pool)
    /\ UNCHANGED <<pool, serial, doubt>>

\* createRouter has resolved: the entry is stored, whatever is there by now.
RouterMade(o) ==
    /\ o \in ops /\ o.stage = "router" /\ o.worker \in pool
    /\ router' = o.worker /\ UNCHANGED mapped
    /\ WithRouter(o, o.worker, mapped, pool)
    /\ UNCHANGED <<pool, serial, doubt>>

\* createWebRtcTransport, produce or consume has resolved: the entry is stored
\* without another look at the peer or the room.  So has resume, which asks its
\* entry for the consumer again.
MediaMade(o) ==
    /\ o \in ops /\ o.stage = "media" /\ o.worker \in pool
    /\ LET c == <<o.peer, o.of>> IN
       /\ Answer(o, o.kind = "resume" => c \in bCons)
       /\ bTrans' = IF o.kind = "open" THEN bTrans \cup {o.peer} ELSE bTrans
       /\ bProd' = IF o.kind = "publish" THEN bProd \cup {o.peer} ELSE bProd
       /\ bCons' = IF o.kind = "consume" THEN bCons \cup {c} ELSE bCons
       /\ bFlow' = IF o.kind = "resume" THEN bFlow \cup ({c} \cap bCons)
                  ELSE IF o.kind = "consume" THEN bFlow \ {c} ELSE bFlow
    /\ UNCHANGED <<pool, serial, mapped, router, bIn, dying, doubt>>

\* mediasoup refuses, or the worker is gone.
Refused(o) ==
    /\ o \in ops /\ o.stage \in {"router", "media"}
    /\ Answer(o, FALSE)
    /\ UNCHANGED <<pool, serial, room, doubt>>

OperationTimeout_Silent(o) ==
    /\ "slow" \in Faults /\ o \in ops /\ o.live /\ o.stage # "queued"
    /\ ops' = (ops \ {o}) \cup {[o EXCEPT !.live = FALSE]}
    /\ doubt' = doubt \cup {o.peer}
    /\ UNCHANGED <<pool, serial, room, inbox>>
\* WS_OPERATION_TIMEOUT_MS: a failure is sent and the operation goes on.
OperationTimeout(o) ==
    /\ "slow" \in Faults /\ o \in ops /\ o.live /\ o.stage # "queued"
    /\ inbox' = Append(inbox, [n |-> o.n, ok |-> FALSE])
    /\ ops' = (ops \ {o}) \cup {[o EXCEPT !.live = FALSE]}
    /\ doubt' = doubt \cup {o.peer}
    /\ UNCHANGED <<pool, serial, room>>

\* A worker dies: its rooms are closed and the pool is filled up in the background,
\* by a loop named by the dead worker.
WorkerDied(w) ==
    /\ "death" \in Faults /\ w \in pool
    /\ pool' = pool \ {w}
    /\ IF router = w THEN CloseRoom ELSE UNCHANGED room
    /\ LET refill == [n |-> 0, kind |-> "refill", peer |-> NoPeer, of |-> NoPeer,
                      stage |-> "pool", worker |-> w, live |-> FALSE]
       IN ops' = IF Cardinality(pool \ {w}) < WorkerCount THEN ops \cup {refill} ELSE ops
    /\ doubt' = Peers
    /\ UNCHANGED <<serial, inbox>>

\* dtlsstatechange: the transport goes, and with it what it carries.
TransportClosed(p) ==
    /\ "dtls" \in Faults /\ p \in bTrans
    /\ ClosePeers({p})
    /\ doubt' = doubt \cup {p}
    /\ UNCHANGED <<pool, serial, mapped, router, bIn, ops, inbox>>

\* 'producerclose' of a consumer.
ConsumerClosed(c) ==
    /\ c \in dying /\ DropConsumers({c})
    /\ UNCHANGED <<pool, serial, mapped, router, bIn, bTrans, bProd, ops, inbox, doubt>>

Backend == \/ \E o \in ops : \/ Serve(o) \/ WorkerStarted(o) \/ WorkerFailed(o)
                             \/ RouterMade(o) \/ MediaMade(o) \/ Refused(o)
                             \/ OperationTimeout(o)
           \/ \E w \in Workers : WorkerDied(w)
           \/ \E p \in Peers : TransportClosed(p)
           \/ \E c \in Peers \X Peers : ConsumerClosed(c)
=============================================================================
