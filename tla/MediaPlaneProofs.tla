-------------------------- MODULE MediaPlaneProofs --------------------------
(***************************************************************************)
(* Proofs about MediaPlane, for any peers, workers, limits and faults:     *)
(* types, replies that stay with their requests, tracks that have owners,  *)
(* and rooms that change as SfuRooms says.                                 *)
(***************************************************************************)
EXTENDS MediaPlane, FiniteSetTheorems, TLAPS

-----------------------------------------------------------------------------
(* The backend                                                             *)

RoomTyped ==
    /\ mapped \in 0..MaxWorkers /\ router \in 0..MaxWorkers
    /\ bIn \subseteq Peers /\ bTrans \subseteq Peers /\ bProd \subseteq Peers
    /\ bCons \subseteq Peers \X Peers /\ bFlow \subseteq bCons /\ dying \subseteq bCons

\* Only creations, joins and openings wait for a worker or a router, and only the
\* background refill is about no peer.
OpFits(o) ==
    /\ o.kind = "refill" => ~o.live /\ o.stage = "pool"
    /\ o.kind # "refill" => o.n \in 1..MaxRequests /\ o.peer \in Peers /\ o.of \in Peers
    /\ o.stage \in {"pool", "router"} => o.kind \in {"create", "join", "open", "refill"}

Refill(w) == [n |-> 0, kind |-> "refill", peer |-> NoPeer, of |-> NoPeer,
              stage |-> "pool", worker |-> w, live |-> FALSE]

\* The four things a step of the backend may do to operations and replies.
Answered == \E o \in ops, ok \in BOOLEAN : Answer(o, ok)
Moved == \E o \in ops, stage \in {"pool", "router", "media"}, w \in 0..MaxWorkers :
            /\ Await(o, stage, w) /\ o.kind # "refill"
            /\ stage # "media" => o.kind \in {"create", "join", "open"}
GivenUp == \E o \in ops :
              /\ o.live
              /\ inbox' = Append(inbox, [n |-> o.n, ok |-> FALSE])
              /\ ops' = (ops \ {o}) \cup {[o EXCEPT !.live = FALSE]}
Refilled == \E w \in Workers :
               /\ inbox' = inbox
               /\ ops' = ops \/ ops' = ops \cup {Refill(w)}
OpStep == Answered \/ Moved \/ GivenUp \/ Refilled

LEMMA ClosePeersTyped ==
    ASSUME RoomTyped, NEW P, ClosePeers(P)
    PROVE  /\ bTrans' \subseteq Peers /\ bProd' \subseteq Peers
           /\ bCons' \subseteq Peers \X Peers /\ bFlow' \subseteq bCons' /\ dying' \subseteq bCons'
BY DEF RoomTyped, ClosePeers

LEMMA WithRouterTyped ==
    ASSUME RoomTyped, NEW o \in ops, OpFits(o), o.kind \in {"create", "join", "open"},
           NEW r \in 0..MaxWorkers, NEW m, NEW P, WithRouter(o, r, m, P)
    PROVE  /\ Answered \/ Moved
           /\ bIn' \subseteq Peers /\ UNCHANGED tracks
<1>1. CASE o.kind = "create"
  <2>1. Answer(o, TRUE) /\ UNCHANGED <<bIn, tracks>>
    BY <1>1 DEF WithRouter
  <2>. QED BY <2>1 DEF Answered, RoomTyped
<1>2. CASE o.kind = "join"
  <2>1. TakeSeat(o, m, P) /\ UNCHANGED tracks
    BY <1>2 DEF WithRouter
  <2>2. WorkerHasRoom(o.peer, m, P) \in BOOLEAN
    BY DEF WorkerHasRoom
  <2>3. Answered
    BY <2>1, <2>2 DEF TakeSeat, Answered
  <2>4. bIn' \subseteq Peers
    BY <1>2, <2>1 DEF TakeSeat, RoomTyped, OpFits
  <2>. QED BY <2>1, <2>3, <2>4
<1>3. CASE o.kind = "open"
  <2>1. /\ Await(o, "media", r) \/ Answer(o, FALSE)
        /\ UNCHANGED <<bIn, tracks>>
    BY <1>3 DEF WithRouter
  <2>. QED BY <1>3, <2>1 DEF Answered, Moved, RoomTyped
<1>. QED BY <1>1, <1>2, <1>3

LEMMA RoomRouterTyped ==
    ASSUME RoomTyped, NEW o \in ops, OpFits(o), o.kind \in {"create", "join", "open"},
           NEW P \in SUBSET Workers, RoomRouter(o, P)
    PROVE  (Answered \/ Moved) /\ RoomTyped'
<1>. USE BackendConstants
<1>1. CASE WithRouter(o, router, mapped, P) /\ UNCHANGED <<router, mapped>>
  <2>1. (Answered \/ Moved) /\ bIn' \subseteq Peers /\ UNCHANGED tracks
    BY <1>1, WithRouterTyped DEF RoomTyped
  <2>. QED BY <1>1, <2>1 DEF RoomTyped, tracks
<1>2. ASSUME NEW w \in P \cup {mapped}, mapped' = w, Await(o, "router", w), router' = 0,
             UNCHANGED <<bIn, tracks>>
      PROVE  Moved /\ RoomTyped'
  <2>1. w \in 0..MaxWorkers
    BY <1>2 DEF RoomTyped, Workers
  <2>2. Moved
    BY <1>2, <2>1 DEF Moved
  <2>. QED BY <1>2, <2>1, <2>2 DEF RoomTyped, tracks
<1>3. ASSUME mapped' \in {mapped, 0}, Answer(o, FALSE), router' = 0, UNCHANGED <<bIn, tracks>>
      PROVE  Answered /\ RoomTyped'
  <2>1. Answered
    BY <1>3 DEF Answered
  <2>. QED BY <1>3, <2>1 DEF RoomTyped, tracks
<1>4. \/ WithRouter(o, router, mapped, P) /\ UNCHANGED <<router, mapped>>
      \/ /\ router' = 0 /\ UNCHANGED <<bIn, tracks>>
         /\ \/ \E w \in P \cup {mapped} : mapped' = w /\ Await(o, "router", w)
            \/ mapped' \in {mapped, 0} /\ Answer(o, FALSE)
  <2>1. Eligible(P) \subseteq P
    BY DEF Eligible
  <2>. DEFINE choice == IF router = 0 /\ mapped \in P THEN {mapped} ELSE Eligible(P)
  <2>2. choice \subseteq P \cup {mapped}
    BY <2>1
  <2>3. \/ WithRouter(o, router, mapped, P) /\ UNCHANGED <<router, mapped>>
        \/ /\ router' = 0 /\ UNCHANGED <<bIn, tracks>>
           /\ \/ \E w \in choice : mapped' = w /\ Await(o, "router", w)
              \/ /\ choice = {} /\ mapped' = IF router = 0 THEN mapped ELSE 0
                 /\ Answer(o, FALSE)
    BY Zenon DEF RoomRouter
  <2>. HIDE DEF choice
  <2>. QED BY <2>2, <2>3
<1>. QED BY <1>1, <1>2, <1>3, <1>4

LEMMA PooledTyped ==
    ASSUME RoomTyped, pool \subseteq Workers, NEW o \in ops, OpFits(o),
           o.kind \in {"create", "join", "open"}, Pooled(o)
    PROVE  (Answered \/ Moved) /\ RoomTyped'
<1>1. CASE RoomRouter(o, pool)
  BY <1>1, RoomRouterTyped
<1>2. CASE Await(o, "pool", 0) /\ UNCHANGED room
  <2>1. 0 \in 0..MaxWorkers
    BY BackendConstants
  <2>2. Moved
    BY <1>2, <2>1 DEF Moved
  <2>. QED BY <1>2, <2>2 DEF RoomTyped, room, tracks
<1>. QED BY <1>1, <1>2 DEF Pooled

LEMMA RefuseTyped ==
    ASSUME RoomTyped, NEW o \in ops, Refuse(o)
    PROVE  Answered /\ RoomTyped'
<1>1. Answered
  BY DEF Answered, Refuse
<1>. QED BY <1>1 DEF Refuse, RoomTyped, room, tracks

LEMMA InMediasoupTyped ==
    ASSUME RoomTyped, NEW o \in ops, o.kind # "refill", NEW possible, InMediasoup(o, possible)
    PROVE  (Answered \/ Moved) /\ RoomTyped'
<1>1. CASE Refuse(o)
  BY <1>1, RefuseTyped
<1>2. CASE Await(o, "media", router) /\ UNCHANGED room
  <2>1. Moved
    BY <1>2 DEF Moved, RoomTyped
  <2>. QED BY <1>2, <2>1 DEF RoomTyped, room, tracks
<1>. QED BY <1>1, <1>2 DEF InMediasoup

LEMMA ServeTyped ==
    ASSUME RoomTyped, pool \subseteq Workers, NEW o \in ops, OpFits(o), Serve(o)
    PROVE  (Answered \/ Moved) /\ RoomTyped'
<1>. USE BackendConstants
<1>1. ASSUME OpCreateRouter(o) \/ OpJoinPeer(o) \/ OpCreateWebRtcTransport(o)
      PROVE  (Answered \/ Moved) /\ RoomTyped'
  <2>1. o.kind \in {"create", "join", "open"} /\ (Pooled(o) \/ Refuse(o))
    BY <1>1 DEF OpCreateRouter, OpJoinPeer, OpCreateWebRtcTransport
  <2>. QED BY <2>1, PooledTyped, RefuseTyped
<1>2. ASSUME OpLeavePeer(o) PROVE Answered /\ RoomTyped'
  <2>1. Answered
    BY <1>2 DEF OpLeavePeer, Answered
  <2>2. /\ mapped' \in {mapped, 0} /\ router' \in {router, 0} /\ bIn' \subseteq bIn
        /\ ClosePeers({o.peer}) \/ UNCHANGED tracks
    BY <1>2 DEF OpLeavePeer
  <2>3. CASE ClosePeers({o.peer})
    BY <2>1, <2>2, <2>3, ClosePeersTyped DEF RoomTyped
  <2>4. CASE UNCHANGED tracks
    BY <2>1, <2>2, <2>4 DEF RoomTyped, tracks
  <2>. QED BY <2>2, <2>3, <2>4
<1>3. ASSUME OpCloseProducer(o) PROVE Answered /\ RoomTyped'
  <2>1. CASE Refuse(o)
    BY <2>1, RefuseTyped
  <2>2. ASSUME NEW C, Answer(o, TRUE), bProd' = bProd \ {o.peer}, DropConsumers(C),
               UNCHANGED <<mapped, router, bIn, bTrans>>
        PROVE  Answered /\ RoomTyped'
    <3>1. Answered
      BY <2>2 DEF Answered
    <3>. QED BY <2>2, <3>1 DEF DropConsumers, RoomTyped
  <2>. QED BY <1>3, <2>1, <2>2 DEF OpCloseProducer
<1>4. ASSUME OpProduce(o) \/ OpConsume(o) \/ OpResumeConsumer(o)
      PROVE  (Answered \/ Moved) /\ RoomTyped'
  <2>1. o.kind # "refill" /\ \E possible : InMediasoup(o, possible)
    BY <1>4 DEF OpProduce, OpConsume, OpResumeConsumer
  <2>. QED BY <2>1, InMediasoupTyped
<1>. QED BY <1>1, <1>2, <1>3, <1>4 DEF Serve

\* Whatever the backend does, its tables keep their types and its operations and
\* replies change in one of the four ways.
LEMMA BackendSteps ==
    ASSUME BackendTypeOK, \A o \in ops : OpFits(o), Backend
    PROVE  /\ OpStep /\ RoomTyped'
           /\ pool' \subseteq Workers /\ serial' \in 0..MaxWorkers /\ doubt' \subseteq Peers
<1>. USE BackendConstants
<1>0. RoomTyped /\ pool \subseteq Workers /\ ops \subseteq Ops
  BY DEF BackendTypeOK, RoomTyped
<1>1. ASSUME NEW o \in ops, Serve(o)
      PROVE  OpStep /\ RoomTyped' /\ UNCHANGED <<pool, serial, doubt>>
  BY <1>0, <1>1, ServeTyped DEF OpStep, Serve
<1>2. ASSUME NEW o \in ops, WorkerStarted(o)
      PROVE  /\ OpStep /\ RoomTyped'
             /\ pool' \subseteq Workers /\ serial' \in 0..MaxWorkers /\ UNCHANGED doubt
  <2>1. serial + 1 \in Workers
    BY <1>2 DEF WorkerStarted, BackendTypeOK, Workers
  <2>2. pool' = pool \cup {serial + 1} /\ serial' = serial + 1 /\ UNCHANGED doubt
    BY <1>2 DEF WorkerStarted
  <2>3. pool' \subseteq Workers /\ serial' \in 0..MaxWorkers
    <3>1. pool' \subseteq Workers
      BY <1>0, <2>1, <2>2
    <3>2. serial + 1 \in 0..MaxWorkers
      BY <2>1 DEF Workers, BackendTypeOK
    <3>. QED BY <2>2, <3>1, <3>2
  <2>4. CASE UNCHANGED <<ops, inbox, room>>
    <3>1. Refilled
      BY <2>1, <2>4 DEF Refilled
    <3>. QED BY <1>0, <2>2, <2>3, <2>4, <3>1 DEF OpStep, RoomTyped, room, tracks
  <2>5. CASE o.kind = "refill" /\ Answer(o, TRUE) /\ UNCHANGED room
    <3>1. Answered
      BY <2>5 DEF Answered
    <3>. QED BY <1>0, <2>2, <2>3, <2>5, <3>1 DEF OpStep, RoomTyped, room, tracks
  <2>6. CASE o.kind # "refill" /\ RoomRouter(o, pool \cup {serial + 1})
    <3>1. o.kind \in {"create", "join", "open"} /\ pool \cup {serial + 1} \in SUBSET Workers
      BY <1>0, <1>2, <2>1, <2>6 DEF WorkerStarted, OpFits
    <3>2. (Answered \/ Moved) /\ RoomTyped'
      BY <1>0, <2>6, <3>1, RoomRouterTyped
    <3>. QED BY <2>2, <2>3, <3>2 DEF OpStep
  <2>. QED BY <1>2, <2>4, <2>5, <2>6 DEF WorkerStarted
<1>3. ASSUME NEW o \in ops, WorkerFailed(o)
      PROVE  OpStep /\ RoomTyped' /\ UNCHANGED <<pool, serial, doubt>>
  <2>1. CASE Answer(o, FALSE) /\ UNCHANGED room
    <3>1. Answered
      BY <2>1 DEF Answered
    <3>. QED BY <1>0, <1>3, <2>1, <3>1 DEF OpStep, RoomTyped, room, tracks, WorkerFailed
  <2>2. CASE o.kind # "refill" /\ RoomRouter(o, pool)
    <3>1. o.kind \in {"create", "join", "open"}
      BY <1>3, <2>2 DEF WorkerFailed, OpFits
    <3>2. (Answered \/ Moved) /\ RoomTyped'
      BY <1>0, <2>2, <3>1, RoomRouterTyped
    <3>. QED BY <1>3, <3>2 DEF OpStep, WorkerFailed
  <2>. QED BY <1>3, <2>1, <2>2 DEF WorkerFailed
<1>4. ASSUME NEW o \in ops, RouterMade(o)
      PROVE  OpStep /\ RoomTyped' /\ UNCHANGED <<pool, serial, doubt>>
  <2>1. o.kind \in {"create", "join", "open"} /\ o.worker \in 0..MaxWorkers
    BY <1>0, <1>4 DEF RouterMade, OpFits, Ops
  <2>2. (Answered \/ Moved) /\ bIn' \subseteq Peers /\ UNCHANGED tracks
    BY <1>0, <1>4, <2>1, WithRouterTyped DEF RouterMade
  <2>3. RoomTyped'
    BY <1>0, <1>4, <2>1, <2>2 DEF RouterMade, RoomTyped, tracks
  <2>. QED BY <1>4, <2>2, <2>3 DEF RouterMade, OpStep
<1>5. ASSUME NEW o \in ops, MediaMade(o)
      PROVE  OpStep /\ RoomTyped' /\ UNCHANGED <<pool, serial, doubt>>
  <2>. DEFINE c == <<o.peer, o.of>>
  <2>1. (o.kind = "resume" => c \in bCons) \in BOOLEAN
    OBVIOUS
  <2>2. Answer(o, o.kind = "resume" => c \in bCons)
    BY <1>5 DEF MediaMade
  <2>3. Answered
    BY <2>1, <2>2 DEF Answered
  <2>4. o.peer \in Peers /\ o.of \in Peers
    BY <1>5 DEF MediaMade, OpFits
  <2>5. RoomTyped'
    BY <1>0, <1>5, <2>4 DEF MediaMade, RoomTyped
  <2>. QED BY <1>5, <2>3, <2>5 DEF MediaMade, OpStep
<1>6. ASSUME NEW o \in ops, Refused(o)
      PROVE  OpStep /\ RoomTyped' /\ UNCHANGED <<pool, serial, doubt>>
  <2>1. Answered
    BY <1>6 DEF Refused, Answered
  <2>. QED BY <1>0, <1>6, <2>1 DEF Refused, OpStep, RoomTyped, room, tracks
<1>7. ASSUME NEW o \in ops, OperationTimeout(o)
      PROVE  OpStep /\ RoomTyped' /\ UNCHANGED <<pool, serial>> /\ doubt' \subseteq Peers
  <2>1. GivenUp
    BY <1>7 DEF OperationTimeout, GivenUp
  <2>2. o.peer \in Peers
    BY <1>7 DEF OperationTimeout, OpFits
  <2>3. doubt' \subseteq Peers
    BY <1>7, <2>2 DEF OperationTimeout, BackendTypeOK
  <2>. QED BY <1>0, <1>7, <2>1, <2>3 DEF OperationTimeout, OpStep, RoomTyped, room, tracks
<1>8. ASSUME NEW w \in Workers, WorkerDied(w)
      PROVE  OpStep /\ RoomTyped' /\ pool' \subseteq Workers /\ UNCHANGED serial /\ doubt' \subseteq Peers
  <2>1. Refilled
    BY <1>8 DEF WorkerDied, Refilled, Refill
  <2>2. RoomTyped'
    <3>1. CASE CloseRoom
      BY <1>0, <3>1, ClosePeersTyped DEF CloseRoom, RoomTyped
    <3>2. CASE UNCHANGED room
      BY <1>0, <3>2 DEF RoomTyped, room, tracks
    <3>. QED BY <1>8, <3>1, <3>2 DEF WorkerDied
  <2>. QED BY <1>0, <1>8, <2>1, <2>2 DEF WorkerDied, OpStep
<1>9. ASSUME NEW p \in Peers, TransportClosed(p)
      PROVE  OpStep /\ RoomTyped' /\ UNCHANGED <<pool, serial>> /\ doubt' \subseteq Peers
  <2>1. Refilled
    <3>1. 1 \in Workers
      BY DEF Workers
    <3>. QED BY <1>9, <3>1 DEF TransportClosed, Refilled
  <2>2. RoomTyped'
    BY <1>0, <1>9, ClosePeersTyped DEF TransportClosed, RoomTyped
  <2>. QED BY <1>9, <2>1, <2>2 DEF TransportClosed, OpStep, BackendTypeOK
<1>10. ASSUME NEW c \in Peers \X Peers, ConsumerClosed(c)
       PROVE  OpStep /\ RoomTyped' /\ UNCHANGED <<pool, serial, doubt>>
  <2>1. Refilled
    <3>1. 1 \in Workers
      BY DEF Workers
    <3>. QED BY <1>10, <3>1 DEF ConsumerClosed, Refilled
  <2>. QED BY <1>0, <1>10, <2>1 DEF ConsumerClosed, DropConsumers, OpStep, RoomTyped
<1>11. serial \in 0..MaxWorkers /\ doubt \subseteq Peers
  BY DEF BackendTypeOK
<1>. QED
  BY <1>0, <1>1, <1>2, <1>3, <1>4, <1>5, <1>6, <1>7, <1>8, <1>9, <1>10, <1>11 DEF Backend

-----------------------------------------------------------------------------
(* The two sides together                                                  *)

\* A call that is under way is one that the engine may make on its maps as they are,
\* and its attempts fit into the bound on requests.
CallFits ==
    /\ call.state # "none" => /\ call.peer \in Peers /\ call.of \in Peers
                              /\ MayCall(call.kind, call.peer, call.of)
    /\ call.state = "ready" => sent + (MaxRetries - call.attempt) + 1 <= MaxRequests
    /\ call.state = "waiting" => /\ call.n \in 1..MaxRequests
                                 /\ sent + (MaxRetries - call.attempt) <= MaxRequests

\* Somebody still answers for an operation only if the engine waits for it; there is
\* one such operation, or its reply, and never both.
OneAnswer ==
    /\ \A o \in ops : o.live => call.state = "waiting" /\ o.n = call.n
    /\ \A o1, o2 \in ops : o1.live /\ o2.live => o1 = o2
    /\ inbox # <<>> => \A o \in ops : ~o.live

PlaneInv ==
    /\ TypeOK
    /\ \A o \in ops : OpFits(o)
    /\ CallFits
    /\ OneAnswer /\ ReplyAnswersRequest
    /\ EngineTracksAreOwned

\* What the backend's steps do to the operations keeps them typed and answered once.
LEMMA OpStepKeeps ==
    ASSUME ops \subseteq Ops, inbox \in Seq(Replies), \A o \in ops : OpFits(o),
           OneAnswer, ReplyAnswersRequest, call.n \in 1..MaxRequests \/ call.state # "waiting",
           OpStep, UNCHANGED call
    PROVE  /\ ops' \subseteq Ops /\ inbox' \in Seq(Replies)
           /\ \A o \in ops' : OpFits(o)
           /\ OneAnswer' /\ ReplyAnswersRequest'
<1>. USE BackendConstants
<1>0. \A o \in ops : o \in Ops /\ OpFits(o)
  OBVIOUS
<1>1. ASSUME NEW o \in ops, o.live, NEW ok \in BOOLEAN, inbox' = Append(inbox, [n |-> o.n, ok |-> ok]),
             ops' \subseteq Ops, \A q \in ops' : OpFits(q) /\ ~q.live
      PROVE  /\ inbox' \in Seq(Replies) /\ OneAnswer' /\ ReplyAnswersRequest'
  <2>1. call.state = "waiting" /\ o.n = call.n /\ inbox = <<>>
    BY <1>1 DEF OneAnswer
  <2>2. [n |-> o.n, ok |-> ok] \in Replies
    BY <2>1 DEF Replies
  <2>3. /\ inbox' \in Seq(Replies) /\ Len(inbox') = 1
        /\ Head(inbox') = [n |-> o.n, ok |-> ok]
    BY <1>1, <2>1, <2>2
  <2>4. Head(inbox').n = call.n /\ call' = call
    BY <2>1, <2>3
  <2>5. OneAnswer'
    BY <1>1 DEF OneAnswer
  <2>. QED BY <2>1, <2>3, <2>4, <2>5 DEF ReplyAnswersRequest
<1>2. ASSUME UNCHANGED inbox, ops' \subseteq Ops, \A q \in ops' : OpFits(q),
             \A q \in ops' : q.live => \E o \in ops : o.live /\ o.n = q.n,
             \A q1, q2 \in ops' : q1.live /\ q2.live => q1 = q2
      PROVE  OneAnswer' /\ ReplyAnswersRequest'
  BY <1>2 DEF OneAnswer, ReplyAnswersRequest
<1>3. ASSUME NEW o \in ops, NEW ok \in BOOLEAN, Answer(o, ok)
      PROVE  /\ ops' \subseteq Ops /\ inbox' \in Seq(Replies)
             /\ \A q \in ops' : OpFits(q)
             /\ OneAnswer' /\ ReplyAnswersRequest'
  <2>1. ops' = ops \ {o} /\ ops' \subseteq Ops /\ \A q \in ops' : OpFits(q)
    BY <1>0, <1>3 DEF Answer
  <2>2. CASE o.live
    <3>1. \A q \in ops' : ~q.live
      BY <2>1, <2>2 DEF OneAnswer
    <3>2. inbox' = Append(inbox, [n |-> o.n, ok |-> ok])
      BY <1>3, <2>2 DEF Answer
    <3>. QED BY <1>1, <2>1, <2>2, <3>1, <3>2
  <2>3. CASE ~o.live
    <3>1. UNCHANGED inbox
      BY <1>3, <2>3 DEF Answer
    <3>. QED BY <1>2, <2>1, <3>1 DEF OneAnswer
  <2>. QED BY <2>2, <2>3
<1>4. ASSUME NEW o \in ops, NEW stage \in {"pool", "router", "media"}, NEW w \in 0..MaxWorkers,
             Await(o, stage, w), o.kind # "refill",
             stage # "media" => o.kind \in {"create", "join", "open"}
      PROVE  /\ ops' \subseteq Ops /\ inbox' \in Seq(Replies)
             /\ \A q \in ops' : OpFits(q)
             /\ OneAnswer' /\ ReplyAnswersRequest'
  <2>. DEFINE on == [o EXCEPT !.stage = stage, !.worker = w]
  <2>1. /\ ops' = (ops \ {o}) \cup {on} /\ UNCHANGED inbox
    BY <1>4 DEF Await
  <2>2. /\ on \in Ops /\ on.live = o.live /\ on.n = o.n /\ on.kind = o.kind /\ on.peer = o.peer
        /\ on.of = o.of /\ on.stage = stage
    BY <1>0, <1>4 DEF Ops
  <2>3. OpFits(on)
    BY <1>0, <1>4, <2>2 DEF OpFits
  <2>. HIDE DEF on
  <2>4. ops' \subseteq Ops /\ \A q \in ops' : OpFits(q)
    BY <1>0, <2>1, <2>2, <2>3
  <2>5. \A q \in ops' : q.live => \E r \in ops : r.live /\ r.n = q.n
    BY <2>1, <2>2
  <2>6. \A q1, q2 \in ops' : q1.live /\ q2.live => q1 = q2
    BY <2>1, <2>2 DEF OneAnswer
  <2>. QED BY <1>2, <2>1, <2>4, <2>5, <2>6
<1>5. ASSUME NEW o \in ops, o.live, inbox' = Append(inbox, [n |-> o.n, ok |-> FALSE]),
             ops' = (ops \ {o}) \cup {[o EXCEPT !.live = FALSE]}
      PROVE  /\ ops' \subseteq Ops /\ inbox' \in Seq(Replies)
             /\ \A q \in ops' : OpFits(q)
             /\ OneAnswer' /\ ReplyAnswersRequest'
  <2>. DEFINE on == [o EXCEPT !.live = FALSE]
  <2>1. on \in Ops /\ ~on.live /\ OpFits(on)
    BY <1>0, <1>5 DEF Ops, OpFits
  <2>. HIDE DEF on
  <2>2. ops' = (ops \ {o}) \cup {on}
    BY <1>5 DEF on
  <2>3. ops' \subseteq Ops /\ \A q \in ops' : OpFits(q) /\ ~q.live
    BY <1>0, <1>5, <2>1, <2>2 DEF OneAnswer
  <2>. QED BY <1>1, <1>5, <2>3
<1>6. ASSUME NEW w \in Workers, UNCHANGED inbox, ops' = ops \/ ops' = ops \cup {Refill(w)}
      PROVE  /\ ops' \subseteq Ops /\ inbox' \in Seq(Replies)
             /\ \A q \in ops' : OpFits(q)
             /\ OneAnswer' /\ ReplyAnswersRequest'
  <2>1. Refill(w) \in Ops /\ OpFits(Refill(w)) /\ ~Refill(w).live
    BY DEF Refill, Ops, OpFits, Workers
  <2>2. ops' \subseteq Ops /\ \A q \in ops' : OpFits(q)
    BY <1>0, <1>6, <2>1
  <2>3. /\ \A q \in ops' : q.live => q \in ops
        /\ \A q1, q2 \in ops' : q1.live /\ q2.live => q1 = q2
    BY <1>6, <2>1 DEF OneAnswer
  <2>. QED BY <1>2, <1>6, <2>2, <2>3
<1>. QED BY <1>3, <1>4, <1>5, <1>6 DEF OpStep, Answered, Moved, GivenUp, Refilled

EngineTyped ==
    /\ eRoom \in BOOLEAN /\ eIn \subseteq Peers
    /\ eTrans \subseteq Peers /\ eProd \subseteq Peers
    /\ eCons \subseteq Peers \X Peers /\ eFlow \subseteq eCons

\* What the engine writes down of an intent that it may carry out leaves every
\* transport, track and consumer with an owner.
LEMMA EffectKeeps ==
    ASSUME EngineTyped, EngineTracksAreOwned, NEW kind, NEW p \in Peers, NEW q \in Peers,
           MayCall(kind, p, q), Effect(kind, p, q)
    PROVE  EngineTyped' /\ EngineTracksAreOwned'
<1>. USE DEF EngineTyped, EngineTracksAreOwned
<1>1. CASE kind = "create" /\ CreateEffect
  BY <1>1 DEF CreateEffect
<1>2. CASE kind = "join" /\ JoinEffect(p)
  BY <1>2 DEF JoinEffect, MayCall
<1>3. CASE kind = "leave" /\ LeaveEffect(p)
  <2>1. /\ eIn' = eIn \ {p} /\ eRoom' = (eIn \ {p} # {})
        /\ eTrans' = eTrans \ {p} /\ eProd' = eProd \ {p}
        /\ eCons' = {c \in eCons : p \notin {c[1], c[2]}}
        /\ eFlow' = {c \in eFlow : p \notin {c[1], c[2]}}
    BY <1>3 DEF LeaveEffect
  <2>2. EngineTyped'
    BY <2>1
  <2>3. (~eRoom' => eIn' = {}) /\ eTrans' \subseteq eIn' /\ eProd' \subseteq eTrans'
    BY <2>1
  <2>4. eCons' \subseteq eTrans' \X eProd'
    BY <2>1
  <2>. QED BY <2>2, <2>3, <2>4
<1>4. CASE kind = "open" /\ OpenEffect(p)
  BY <1>4 DEF OpenEffect, MayCall
<1>5. CASE kind = "publish" /\ PublishEffect(p)
  BY <1>5 DEF PublishEffect, MayCall
<1>6. CASE kind = "closeTrack" /\ CloseTrackEffect(p)
  <2>1. /\ eProd' = eProd \ {p} /\ eCons' = {c \in eCons : c[2] # p}
        /\ eFlow' = {c \in eFlow : c[2] # p} /\ UNCHANGED <<eRoom, eIn, eTrans>>
    BY <1>6 DEF CloseTrackEffect
  <2>2. eCons' \subseteq eTrans' \X eProd'
    BY <2>1
  <2>. QED BY <2>1, <2>2
<1>7. CASE kind = "consume" /\ ConsumeEffect(<<p, q>>)
  BY <1>7 DEF ConsumeEffect, MayCall
<1>8. CASE kind = "resume" /\ ResumeEffect(<<p, q>>)
  BY <1>8 DEF ResumeEffect, MayCall
<1>. QED BY <1>1, <1>2, <1>3, <1>4, <1>5, <1>6, <1>7, <1>8 DEF Effect

\* A retry takes one of the attempts that were left, and names the same peers.
LEMMA RetryKeeps ==
    ASSUME call \in Calls, sent \in 0..MaxRequests, CallFits, call.state # "none",
           RetryOrFail, UNCHANGED <<engine, sent>>
    PROVE  call' \in Calls /\ CallFits' /\ call'.state \in {"none", "ready"}
<1>. USE BackendConstants, EngineConstants
<1>1. CASE call.attempt < MaxRetries
  <2>1. call.attempt \in Nat /\ call.attempt + 1 \in 0..MaxRetries /\ 0 \in 0..MaxRequests
    BY <1>1 DEF Calls
  <2>. DEFINE next == [state |-> "ready", kind |-> call.kind, peer |-> call.peer, of |-> call.of,
                       attempt |-> call.attempt + 1, n |-> 0]
  <2>2. call' = next
    <3>1. call' = [call EXCEPT !.state = "ready", !.attempt = @ + 1, !.n = 0]
      BY <1>1 DEF RetryOrFail
    <3>2. call = [state |-> call.state, kind |-> call.kind, peer |-> call.peer, of |-> call.of,
                  attempt |-> call.attempt, n |-> call.n]
      BY DEF Calls
    <3>. QED BY <3>1, <3>2
  <2>6. next \in Calls
    BY <2>1 DEF Calls
  <2>3. call.state \in {"ready", "waiting"} /\ call.attempt \in Nat
    BY DEF Calls
  <2>4. sent' + (MaxRetries - call'.attempt) + 1 <= MaxRequests
    BY <2>1, <2>2, <2>3 DEF CallFits
  <2>5. MayCall(call.kind, call.peer, call.of)'
    BY <2>2 DEF MayCall, engine, CallFits
  <2>. QED BY <2>2, <2>6, <2>4, <2>5 DEF CallFits, MayCall, engine
<1>2. CASE ~(call.attempt < MaxRetries)
  <2>1. call' = NoCall
    BY <1>2 DEF RetryOrFail
  <2>2. NoCall \in Calls /\ NoCall.state = "none"
    BY DEF NoCall, Calls, Kinds
  <2>. QED BY <2>1, <2>2 DEF CallFits
<1>. QED BY <1>1, <1>2

LEMMA PlaneStarts == Init => PlaneInv
<1>. SUFFICES ASSUME Init PROVE PlaneInv
  OBVIOUS
<1>. USE BackendConstants, EngineConstants DEF Init
<1>1. BackendTypeOK
  <2>1. 0 \in 0..MaxWorkers /\ 1 \in 0..MaxWorkers /\ WorkerCount \in 0..MaxWorkers
    OBVIOUS
  <2>2. pool \subseteq Workers
    BY DEF Workers
  <2>3. ops \subseteq Ops /\ inbox \in Seq(Replies) /\ doubt \subseteq Peers
    OBVIOUS
  <2>. QED BY <2>1, <2>2, <2>3 DEF BackendTypeOK
<1>2. call \in Calls /\ sent \in 0..MaxRequests
  BY DEF NoCall, Calls, Kinds
<1>3. TypeOK
  BY <1>1, <1>2 DEF TypeOK
<1>4. CallFits /\ OneAnswer /\ ReplyAnswersRequest
  BY DEF CallFits, OneAnswer, ReplyAnswersRequest, NoCall
<1>5. EngineTracksAreOwned
  BY DEF EngineTracksAreOwned
<1>. QED BY <1>3, <1>4, <1>5 DEF PlaneInv

LEMMA PlaneStep == PlaneInv /\ [Next]_vars => PlaneInv'
<1>. SUFFICES ASSUME PlaneInv, [Next]_vars PROVE PlaneInv'
  OBVIOUS
<1>. USE BackendConstants, EngineConstants
<1>0. /\ BackendTypeOK /\ EngineTyped /\ call \in Calls /\ sent \in 0..MaxRequests
      /\ ops \subseteq Ops /\ inbox \in Seq(Replies)
      /\ \A o \in ops : OpFits(o)
      /\ CallFits /\ OneAnswer /\ ReplyAnswersRequest /\ EngineTracksAreOwned
  BY DEF PlaneInv, TypeOK, BackendTypeOK, EngineTyped
<1>1. ASSUME NEW kind \in Kinds, NEW p \in Peers, NEW q \in Peers, Start(kind, p, q)
      PROVE  PlaneInv'
  <2>1. /\ call' = [state |-> "ready", kind |-> kind, peer |-> p, of |-> q, attempt |-> 0, n |-> 0]
        /\ UNCHANGED <<backend, engine, sent>>
    BY <1>1 DEF Start
  <2>2. call' \in Calls
    BY <2>1 DEF Calls
  <2>3. CallFits'
    BY <1>0, <1>1, <2>1 DEF CallFits, Start, MayCall, engine
  <2>4. TypeOK'
    BY <1>0, <2>1, <2>2 DEF TypeOK, BackendTypeOK, EngineTyped, backend, room, tracks, engine
  <2>5. (\A o \in ops : OpFits(o))' /\ OneAnswer' /\ ReplyAnswersRequest'
    BY <1>0, <1>1, <2>1 DEF Start, OneAnswer, ReplyAnswersRequest, backend
  <2>6. EngineTracksAreOwned'
    BY <1>0, <2>1 DEF EngineTracksAreOwned, engine
  <2>. QED BY <2>3, <2>4, <2>5, <2>6 DEF PlaneInv
<1>2. ASSUME Send PROVE PlaneInv'
  <2>. DEFINE o == [n |-> sent + 1, kind |-> call.kind, peer |-> call.peer,
                    of |-> call.of, stage |-> "queued", worker |-> 0, live |-> TRUE]
  <2>1. /\ call.state = "ready" /\ sent' = sent + 1
        /\ call' = [call EXCEPT !.state = "waiting", !.n = sent + 1]
        /\ ops' = ops \cup {o}
        /\ UNCHANGED <<pool, serial, room, inbox, doubt, engine>>
    BY <1>2 DEF Send
  <2>2. sent + 1 \in 1..MaxRequests /\ call.attempt \in 0..MaxRetries
    BY <1>0, <2>1 DEF CallFits, Calls
  <2>3. /\ call' \in Calls /\ call'.state = "waiting" /\ call'.n = sent + 1
        /\ call'.attempt = call.attempt
        /\ call'.kind = call.kind /\ call'.peer = call.peer /\ call'.of = call.of
    <3>1. call' = [state |-> "waiting", kind |-> call.kind, peer |-> call.peer, of |-> call.of,
                   attempt |-> call.attempt, n |-> sent + 1]
      BY <1>0, <2>1 DEF Calls
    <3>2. sent + 1 \in 0..MaxRequests
      BY <2>2
    <3>3. /\ call.kind \in Kinds /\ call.peer \in Peers \cup {NoPeer}
          /\ call.of \in Peers \cup {NoPeer}
      BY <1>0 DEF Calls
    <3>. QED BY <2>2, <3>1, <3>2, <3>3 DEF Calls
  <2>4. o \in Ops /\ OpFits(o) /\ o.live /\ o.n = sent + 1
    <3>1. call.peer \in Peers /\ call.of \in Peers /\ call.kind \in Kinds
      BY <1>0, <2>1 DEF CallFits, Calls
    <3>2. sent + 1 \in 0..MaxRequests /\ 0 \in 0..MaxWorkers
      BY <2>2
    <3>. QED BY <2>2, <3>1, <3>2 DEF Ops, OpFits, Kinds
  <2>. HIDE DEF o
  <2>5. (\A r \in ops : ~r.live) /\ inbox = <<>>
    BY <1>0, <2>1 DEF OneAnswer, ReplyAnswersRequest
  <2>6. CallFits'
    <3>1. sent' + (MaxRetries - call'.attempt) <= MaxRequests
      BY <1>0, <2>1, <2>2, <2>3 DEF CallFits
    <3>2. MayCall(call.kind, call.peer, call.of)'
      BY <1>0, <2>1, <2>3 DEF CallFits, MayCall, engine
    <3>. QED BY <1>0, <2>1, <2>2, <2>3, <3>1, <3>2 DEF CallFits, MayCall, engine
  <2>7. TypeOK'
    <3>1. ops' \subseteq Ops
      BY <1>0, <2>1, <2>4
    <3>2. sent' \in 0..MaxRequests
      BY <2>1, <2>2
    <3>. QED BY <1>0, <2>1, <2>3, <3>1, <3>2 DEF TypeOK, BackendTypeOK, EngineTyped, room, tracks, engine
  <2>8. (\A r \in ops : OpFits(r))'
    <3>1. \A r \in ops' : OpFits(r)
      BY <1>0, <2>1, <2>4
    <3>. QED BY <3>1 DEF OpFits
  <2>9. OneAnswer' /\ ReplyAnswersRequest'
    BY <2>1, <2>3, <2>4, <2>5 DEF OneAnswer, ReplyAnswersRequest
  <2>10. EngineTracksAreOwned'
    BY <1>0, <2>1 DEF EngineTracksAreOwned, engine
  <2>. QED BY <2>6, <2>7, <2>8, <2>9, <2>10 DEF PlaneInv
<1>3. ASSUME ConnectFails PROVE PlaneInv'
  <2>1. call.state = "ready" /\ RetryOrFail /\ UNCHANGED <<backend, engine, sent>>
    BY <1>3 DEF ConnectFails
  <2>2. call' \in Calls /\ CallFits' /\ call'.state \in {"none", "ready"}
    BY <1>0, <2>1, RetryKeeps
  <2>3. TypeOK'
    BY <1>0, <2>1, <2>2 DEF TypeOK, BackendTypeOK, EngineTyped, backend, room, tracks, engine
  <2>4. (\A o \in ops : OpFits(o))' /\ OneAnswer' /\ ReplyAnswersRequest'
    BY <1>0, <2>1 DEF OneAnswer, ReplyAnswersRequest, backend
  <2>5. EngineTracksAreOwned'
    BY <1>0, <2>1 DEF EngineTracksAreOwned, engine
  <2>. QED BY <2>2, <2>3, <2>4, <2>5 DEF PlaneInv
<1>4. ASSUME IoFails PROVE PlaneInv'
  <2>1. /\ call.state = "waiting" /\ Abandoned /\ RetryOrFail
        /\ doubt' = doubt \cup {call.peer}
        /\ UNCHANGED <<pool, serial, room, engine, sent>>
    BY <1>4 DEF IoFails
  <2>2. call' \in Calls /\ CallFits' /\ call'.state \in {"none", "ready"}
    BY <1>0, <2>1, RetryKeeps
  <2>3. \A o \in ops : /\ [o EXCEPT !.live = FALSE] \in Ops /\ OpFits([o EXCEPT !.live = FALSE])
                       /\ ~[o EXCEPT !.live = FALSE].live
    <3>. SUFFICES ASSUME NEW o \in ops
                  PROVE  /\ [o EXCEPT !.live = FALSE] \in Ops /\ OpFits([o EXCEPT !.live = FALSE])
                         /\ ~[o EXCEPT !.live = FALSE].live
      OBVIOUS
    <3>1. o \in Ops /\ OpFits(o)
      BY <1>0
    <3>. QED BY <3>1 DEF Ops, OpFits
  <2>4. ops' \subseteq Ops /\ inbox' = <<>> /\ \A o \in ops' : OpFits(o) /\ ~o.live
    BY <2>1, <2>3 DEF Abandoned
  <2>5. call.peer \in Peers
    BY <1>0, <2>1 DEF CallFits
  <2>6. TypeOK'
    BY <1>0, <2>1, <2>2, <2>4, <2>5 DEF TypeOK, BackendTypeOK, EngineTyped, room, tracks, engine
  <2>7. OneAnswer' /\ ReplyAnswersRequest'
    BY <2>4 DEF OneAnswer, ReplyAnswersRequest
  <2>8. EngineTracksAreOwned'
    BY <1>0, <2>1 DEF EngineTracksAreOwned, engine
  <2>. QED BY <2>2, <2>4, <2>6, <2>7, <2>8 DEF PlaneInv
<1>5. ASSUME Receive PROVE PlaneInv'
  <2>1. /\ call.state = "waiting" /\ inbox # <<>> /\ inbox' = Tail(inbox) /\ call' = NoCall
        /\ Effect(call.kind, call.peer, call.of) \/ UNCHANGED engine
        /\ UNCHANGED <<pool, serial, room, ops, doubt, sent>>
    BY <1>5 DEF Receive
  <2>2. EngineTyped' /\ EngineTracksAreOwned'
    <3>1. CASE UNCHANGED engine
      BY <1>0, <3>1 DEF EngineTyped, EngineTracksAreOwned, engine
    <3>2. CASE Effect(call.kind, call.peer, call.of)
      BY <1>0, <2>1, <3>2, EffectKeeps DEF CallFits
    <3>. QED BY <2>1, <3>1, <3>2
  <2>3. inbox' = <<>>
    BY <1>0, <2>1 DEF ReplyAnswersRequest
  <2>4. call' \in Calls /\ call'.state = "none"
    BY <2>1 DEF NoCall, Calls, Kinds
  <2>5. TypeOK'
    BY <1>0, <2>1, <2>2, <2>3, <2>4 DEF TypeOK, BackendTypeOK, EngineTyped, room, tracks
  <2>6. OneAnswer' /\ ReplyAnswersRequest' /\ CallFits' /\ (\A o \in ops : OpFits(o))'
    BY <1>0, <2>1, <2>3, <2>4 DEF OneAnswer, ReplyAnswersRequest, CallFits
  <2>. QED BY <2>2, <2>5, <2>6 DEF PlaneInv
<1>6. ASSUME Backend, UNCHANGED <<engine, call, sent>> PROVE PlaneInv'
  <2>1. /\ OpStep /\ RoomTyped'
        /\ pool' \subseteq Workers /\ serial' \in 0..MaxWorkers /\ doubt' \subseteq Peers
    BY <1>0, <1>6, BackendSteps
  <2>2. call.n \in 1..MaxRequests \/ call.state # "waiting"
    BY <1>0 DEF CallFits
  <2>3. /\ ops' \subseteq Ops /\ inbox' \in Seq(Replies) /\ \A o \in ops' : OpFits(o)
        /\ OneAnswer' /\ ReplyAnswersRequest'
    BY <1>0, <1>6, <2>1, <2>2, OpStepKeeps
  <2>4. TypeOK'
    BY <1>0, <1>6, <2>1, <2>3 DEF TypeOK, BackendTypeOK, RoomTyped, EngineTyped, engine
  <2>5. CallFits' /\ EngineTracksAreOwned'
    BY <1>0, <1>6 DEF CallFits, MayCall, EngineTracksAreOwned, engine
  <2>. QED BY <2>3, <2>4, <2>5 DEF PlaneInv
<1>7. ASSUME UNCHANGED vars PROVE PlaneInv'
  <2>1. TypeOK'
    BY <1>0, <1>7 DEF TypeOK, BackendTypeOK, EngineTyped, vars, backend, room, tracks, engine
  <2>2. (\A o \in ops : OpFits(o))' /\ OneAnswer' /\ ReplyAnswersRequest'
    BY <1>0, <1>7 DEF OneAnswer, ReplyAnswersRequest, vars, backend
  <2>3. CallFits' /\ EngineTracksAreOwned'
    BY <1>0, <1>7 DEF CallFits, MayCall, EngineTracksAreOwned, vars, engine
  <2>. QED BY <2>1, <2>2, <2>3 DEF PlaneInv
<1>. QED BY <1>1, <1>2, <1>3, <1>4, <1>5, <1>6, <1>7 DEF Next, Engine

-----------------------------------------------------------------------------
(* The theorems                                                            *)

\* The inductive invariant holds in every state: whatever fails, the one call of the
\* engine has one operation or one reply to wait for, and may still do what it asked.
THEOREM PlaneInvariant == Spec => []PlaneInv
<1>. QED BY PlaneStarts, PlaneStep, PTL DEF Spec

\* The tables of engine and backend, the operations in flight and the replies keep
\* their types, for any number of peers, workers and requests and any faults.
THEOREM TypeCorrect == Spec => []TypeOK
<1>1. PlaneInv => TypeOK
  BY DEF PlaneInv
<1>. QED BY <1>1, PlaneInvariant, PTL

\* callMediasoupBackendNoLock may take whatever it reads for its answer.
THEOREM RepliesAreForTheCall == Spec => []ReplyAnswersRequest
<1>1. PlaneInv => ReplyAnswersRequest
  BY DEF PlaneInv
<1>. QED BY <1>1, PlaneInvariant, PTL

\* However calls fail, what the engine's maps hold has an owner in the room.
THEOREM TracksHaveOwners == Spec => []EngineTracksAreOwned
<1>1. PlaneInv => EngineTracksAreOwned
  BY DEF PlaneInv
<1>. QED BY <1>1, PlaneInvariant, PTL

\* What an intent does to rooms and members is an operation of SfuRooms.
LEMMA EffectIsAnOperation ==
    ASSUME EngineTyped, EngineTracksAreOwned, NEW kind, NEW p \in Peers, NEW q \in Peers,
           MayCall(kind, p, q), Effect(kind, p, q)
    PROVE  \/ Sfu!EngineCreate("room")
           \/ Sfu!EngineJoin(p, "room") \/ Sfu!EngineLeave(p, "room")
           \/ UNCHANGED <<eRoom, eIn>>
<1>. USE DEF EngineTyped
<1>1. CASE kind = "create" /\ CreateEffect
  <2>1. eRoom' = TRUE /\ eIn' = eIn
    BY <1>1 DEF CreateEffect
  <2>. QED BY <2>1 DEF Sfu!EngineCreate
<1>2. CASE kind = "join" /\ JoinEffect(p)
  <2>1. eRoom' = eRoom /\ eIn' = eIn \cup {p}
    BY <1>2 DEF JoinEffect
  <2>. QED BY <2>1 DEF Sfu!EngineJoin
<1>3. CASE kind = "leave" /\ LeaveEffect(p)
  <2>1. eIn' = eIn \ {p} /\ eRoom' = (eIn \ {p} # {}) /\ p \in eIn /\ eRoom
    BY <1>3 DEF LeaveEffect, MayCall, EngineTracksAreOwned
  <2>2. eRoom' = (eIn # {p})
    BY <2>1
  <2>. QED BY <2>1, <2>2 DEF Sfu!EngineLeave
<1>4. CASE /\ kind \notin {"create", "join", "leave"}
           /\ \/ OpenEffect(p) \/ PublishEffect(p) \/ CloseTrackEffect(p)
              \/ ConsumeEffect(<<p, q>>) \/ ResumeEffect(<<p, q>>)
  BY <1>4 DEF OpenEffect, PublishEffect, CloseTrackEffect, ConsumeEffect, ResumeEffect
<1>. QED BY <1>1, <1>2, <1>3, <1>4 DEF Effect

\* Calls and conferences may take each intent for one step that happens or does not.
THEOREM RoomsAreImplemented == Spec => ImplementsRooms
<1>. DEFINE Operation == \/ Sfu!EngineCreate("room")
                        \/ \E p \in Peers : Sfu!EngineJoin(p, "room") \/ Sfu!EngineLeave(p, "room")
<1>1. PlaneInv /\ [Next]_vars => Operation \/ UNCHANGED <<eRoom, eIn>>
  <2>. SUFFICES ASSUME PlaneInv, [Next]_vars PROVE Operation \/ UNCHANGED <<eRoom, eIn>>
    OBVIOUS
  <2>1. CASE Receive
    <3>1. CASE UNCHANGED engine
      BY <3>1 DEF engine
    <3>2. CASE Effect(call.kind, call.peer, call.of)
      <4>1. call.peer \in Peers /\ call.of \in Peers /\ MayCall(call.kind, call.peer, call.of)
        BY <2>1 DEF PlaneInv, CallFits, Receive
      <4>2. EngineTyped /\ EngineTracksAreOwned
        BY DEF PlaneInv, TypeOK, EngineTyped
      <4>. QED BY <3>2, <4>1, <4>2, EffectIsAnOperation
    <3>. QED BY <2>1, <3>1, <3>2 DEF Receive
  <2>2. CASE UNCHANGED engine
    BY <2>2 DEF engine
  <2>. QED
    BY <2>1, <2>2 DEF Next, Engine, Start, Send, ConnectFails, IoFails, vars
<1>2. UNCHANGED <<eRoom, eIn>> => UNCHANGED Sfu!sfu
  BY DEF Sfu!sfu
<1>3. PlaneInv /\ [Next]_vars => [Operation]_Sfu!sfu
  BY <1>1, <1>2
<1>. QED BY <1>3, PlaneInvariant, PTL DEF Spec, ImplementsRooms

-----------------------------------------------------------------------------
(* The load of a worker                                                    *)

\* A room is on a worker of the pool, on one that is dead or on none: numbers of
\* workers are not used again.
LoadInv ==
    /\ IsFiniteSet(bIn)
    /\ mapped <= serial /\ pool \subseteq 1..serial
    /\ WorkerLoadWithinLimit

\* What a join adds to a room is checked against the worker that the room is on.
LEMMA SeatsAreLimited ==
    ASSUME NEW o, o.kind \in {"create", "join", "open"}, NEW r, NEW m, NEW P,
           IsFiniteSet(bIn), m \in P => Cardinality(bIn) <= MaxPeersPerWorker,
           WithRouter(o, r, m, P)
    PROVE  IsFiniteSet(bIn') /\ (m \in P => Cardinality(bIn') <= MaxPeersPerWorker)
<1>1. CASE o.kind = "join" /\ WorkerHasRoom(o.peer, m, P)
  <2>1. bIn' = bIn \cup {o.peer}
    BY <1>1 DEF WithRouter, TakeSeat
  <2>2. /\ IsFiniteSet(bIn') /\ Cardinality(bIn) \in Nat
        /\ Cardinality(bIn') = IF o.peer \in bIn THEN Cardinality(bIn) ELSE Cardinality(bIn) + 1
    BY <2>1, FS_AddElement, FS_CardinalityType
  <2>3. o.peer \in bIn \/ m \notin P \/ Cardinality(bIn) + 1 <= MaxPeersPerWorker
    BY <1>1 DEF WorkerHasRoom
  <2>. QED BY <2>2, <2>3
<1>2. CASE ~(o.kind = "join" /\ WorkerHasRoom(o.peer, m, P))
  <2>1. bIn' = bIn
    BY <1>2 DEF WithRouter, TakeSeat
  <2>. QED BY <2>1
<1>. QED BY <1>1, <1>2

LEMMA RoutersAreLimited ==
    ASSUME NEW o, o.kind \in {"create", "join", "open"}, NEW P, 0 \notin P,
           IsFiniteSet(bIn), mapped \in P => Cardinality(bIn) <= MaxPeersPerWorker,
           RoomRouter(o, P)
    PROVE  /\ IsFiniteSet(bIn') /\ mapped' \in P \cup {mapped, 0}
           /\ mapped' \in P => Cardinality(bIn') <= MaxPeersPerWorker
<1>1. CASE WithRouter(o, router, mapped, P) /\ mapped' = mapped
  BY <1>1, SeatsAreLimited
<1>2. ASSUME bIn' = bIn, NEW w \in Eligible(P), mapped' = w
      PROVE  /\ IsFiniteSet(bIn') /\ mapped' \in P
             /\ Cardinality(bIn') <= MaxPeersPerWorker
  BY <1>2 DEF Eligible
<1>3. CASE bIn' = bIn /\ mapped' \in {mapped, 0}
  BY <1>3
<1>4. \/ WithRouter(o, router, mapped, P) /\ mapped' = mapped
      \/ bIn' = bIn /\ mapped' \in Eligible(P) \cup {mapped, 0}
  <2>. DEFINE choice == IF router = 0 /\ mapped \in P THEN {mapped} ELSE Eligible(P)
  <2>1. choice \subseteq Eligible(P) \cup {mapped}
    OBVIOUS
  <2>2. \/ WithRouter(o, router, mapped, P) /\ mapped' = mapped
        \/ /\ bIn' = bIn
           /\ \/ \E w \in choice : mapped' = w
              \/ mapped' = IF router = 0 THEN mapped ELSE 0
    BY Zenon DEF RoomRouter
  <2>. HIDE DEF choice
  <2>. QED BY <2>1, <2>2
<1>. QED BY <1>1, <1>2, <1>3, <1>4

LEMMA LoadStep == PlaneInv /\ LoadInv /\ [Next]_vars => LoadInv'
<1>. SUFFICES ASSUME PlaneInv, LoadInv, [Next]_vars PROVE LoadInv'
  OBVIOUS
<1>. USE BackendConstants
<1>0. /\ \A o \in ops : OpFits(o)
      /\ serial \in Nat /\ mapped \in Nat
      /\ 0 \notin pool
      /\ IsFiniteSet(bIn) /\ mapped <= serial /\ pool \subseteq 1..serial
      /\ mapped \in pool => Cardinality(bIn) <= MaxPeersPerWorker
  BY DEF PlaneInv, TypeOK, BackendTypeOK, LoadInv, WorkerLoadWithinLimit, Workers
<1>1. CASE UNCHANGED <<pool, serial, mapped, bIn>>
  BY <1>0, <1>1 DEF LoadInv, WorkerLoadWithinLimit
<1>2. ASSUME NEW o \in ops, o.kind \in {"create", "join", "open"}, RoomRouter(o, pool),
             UNCHANGED <<pool, serial>>
      PROVE  LoadInv'
  <2>1. /\ IsFiniteSet(bIn') /\ mapped' \in pool \cup {mapped, 0}
        /\ mapped' \in pool => Cardinality(bIn') <= MaxPeersPerWorker
    BY <1>0, <1>2, RoutersAreLimited
  <2>. QED BY <1>0, <1>2, <2>1 DEF LoadInv, WorkerLoadWithinLimit
<1>3. ASSUME NEW o \in ops, Serve(o) PROVE LoadInv'
  <2>1. UNCHANGED <<pool, serial>>
    BY <1>3 DEF Serve
  <2>2. CASE OpLeavePeer(o)
    <3>1. bIn' \subseteq bIn /\ mapped' \in {mapped, 0}
      BY <2>2 DEF OpLeavePeer
    <3>2. IsFiniteSet(bIn') /\ Cardinality(bIn') <= Cardinality(bIn) /\ Cardinality(bIn) \in Nat
          /\ Cardinality(bIn') \in Nat
      BY <1>0, <3>1, FS_Subset, FS_CardinalityType
    <3>. QED BY <1>0, <2>1, <3>1, <3>2 DEF LoadInv, WorkerLoadWithinLimit
  <2>3. ASSUME o.kind \in {"create", "join", "open"}, Pooled(o) \/ Refuse(o) PROVE LoadInv'
    BY <1>1, <1>2, <2>1, <2>3 DEF Pooled, Refuse, room
  <2>4. CASE OpCloseProducer(o) \/ OpProduce(o) \/ OpConsume(o) \/ OpResumeConsumer(o)
    <3>1. UNCHANGED <<mapped, bIn>>
      BY <2>4 DEF OpCloseProducer, OpProduce, OpConsume, OpResumeConsumer, InMediasoup, Refuse, room
    <3>. QED BY <1>1, <2>1, <3>1
  <2>. QED BY <1>3, <2>2, <2>3, <2>4 DEF Serve, OpCreateRouter, OpJoinPeer, OpCreateWebRtcTransport
<1>4. ASSUME NEW o \in ops, WorkerStarted(o) PROVE LoadInv'
  <2>. DEFINE P == pool \cup {serial + 1}
  <2>1. serial' = serial + 1 /\ pool' = P
    BY <1>4 DEF WorkerStarted
  <2>2. 0 \notin P /\ P \subseteq 1..serial' /\ (mapped \in P <=> mapped \in pool)
    BY <1>0, <2>1
  <2>3. CASE UNCHANGED room
    BY <1>0, <2>1, <2>2, <2>3 DEF LoadInv, WorkerLoadWithinLimit, room
  <2>4. CASE o.kind # "refill" /\ RoomRouter(o, P)
    <3>1. o.kind \in {"create", "join", "open"}
      BY <1>0, <1>4, <2>4 DEF WorkerStarted, OpFits
    <3>2. mapped \in P => Cardinality(bIn) <= MaxPeersPerWorker
      BY <1>0, <2>2
    <3>3. /\ IsFiniteSet(bIn') /\ mapped' \in P \cup {mapped, 0}
          /\ mapped' \in P => Cardinality(bIn') <= MaxPeersPerWorker
      <4>. HIDE DEF P
      <4>. QED BY <1>0, <2>2, <2>4, <3>1, <3>2, RoutersAreLimited
    <3>4. mapped' <= serial'
      BY <1>0, <2>1, <2>2, <3>3
    <3>. QED BY <2>1, <2>2, <3>3, <3>4 DEF LoadInv, WorkerLoadWithinLimit
  <2>. QED BY <1>4, <2>3, <2>4 DEF WorkerStarted
<1>5. ASSUME NEW o \in ops, WorkerFailed(o) PROVE LoadInv'
  <2>1. CASE UNCHANGED room
    BY <1>1, <1>5, <2>1 DEF WorkerFailed, room
  <2>2. CASE o.kind # "refill" /\ RoomRouter(o, pool)
    <3>1. o.kind \in {"create", "join", "open"}
      BY <1>0, <1>5, <2>2 DEF WorkerFailed, OpFits
    <3>. QED BY <1>2, <1>5, <2>2, <3>1 DEF WorkerFailed
  <2>. QED BY <1>5, <2>1, <2>2 DEF WorkerFailed
<1>6. ASSUME NEW o \in ops, RouterMade(o) PROVE LoadInv'
  <2>1. o.kind \in {"create", "join", "open"}
    BY <1>0, <1>6 DEF RouterMade, OpFits
  <2>2. WithRouter(o, o.worker, mapped, pool) /\ UNCHANGED <<pool, serial, mapped>>
    BY <1>6 DEF RouterMade
  <2>3. IsFiniteSet(bIn') /\ (mapped \in pool => Cardinality(bIn') <= MaxPeersPerWorker)
    BY <1>0, <2>1, <2>2, SeatsAreLimited
  <2>. QED BY <1>0, <2>2, <2>3 DEF LoadInv, WorkerLoadWithinLimit
<1>7. ASSUME NEW w \in Workers, WorkerDied(w) PROVE LoadInv'
  <2>1. pool' \subseteq pool /\ serial' = serial
    BY <1>7 DEF WorkerDied
  <2>2. CASE CloseRoom
    <3>1. bIn' = {} /\ mapped' = 0
      BY <2>2 DEF CloseRoom
    <3>. QED BY <1>0, <2>1, <3>1, FS_EmptySet DEF LoadInv, WorkerLoadWithinLimit
  <2>3. CASE UNCHANGED room
    BY <1>0, <2>1, <2>3 DEF LoadInv, WorkerLoadWithinLimit, room
  <2>. QED BY <1>7, <2>2, <2>3 DEF WorkerDied
<1>8. ASSUME \/ \E o \in ops : MediaMade(o) \/ Refused(o) \/ OperationTimeout(o)
             \/ \E p \in Peers : TransportClosed(p)
             \/ \E c \in Peers \X Peers : ConsumerClosed(c)
             \/ Engine \/ UNCHANGED vars
      PROVE  UNCHANGED <<pool, serial, mapped, bIn>>
  BY <1>8 DEF MediaMade, Refused, OperationTimeout, TransportClosed, ConsumerClosed, Engine,
              Start, Send, ConnectFails, IoFails, Receive, vars, backend, room
<1>. QED BY <1>1, <1>3, <1>4, <1>5, <1>6, <1>7, <1>8 DEF Next, Backend

\* However joins, deaths of workers and late operations overlap, the living worker of
\* a room never has more peers than MAX_PEERS_PER_WORKER.
THEOREM WorkersAreNotOverloaded == Spec => []WorkerLoadWithinLimit
<1>1. Init => LoadInv
  <2>. SUFFICES ASSUME Init PROVE LoadInv
    OBVIOUS
  <2>1. mapped <= serial /\ pool \subseteq 1..serial
    BY BackendConstants DEF Init
  <2>2. IsFiniteSet(bIn) /\ Cardinality(bIn) <= MaxPeersPerWorker
    BY SeatedFit DEF Init
  <2>. QED BY <2>1, <2>2 DEF LoadInv, WorkerLoadWithinLimit
<1>2. PlaneInv /\ LoadInv /\ [Next]_vars => LoadInv'
  BY LoadStep
<1>3. LoadInv => WorkerLoadWithinLimit
  BY DEF LoadInv
<1>. QED BY <1>1, <1>2, <1>3, PlaneInvariant, PTL DEF Spec

-----------------------------------------------------------------------------
(* What engine and backend believe of each other                           *)

\* The engine's maps after an intent of p, about the track of q, that succeeds.
InAfter(kind, p) ==
    IF kind = "join" THEN eIn \cup {p} ELSE IF kind = "leave" THEN eIn \ {p} ELSE eIn
TransAfter(kind, p) ==
    IF kind = "open" THEN eTrans \cup {p} ELSE IF kind = "leave" THEN eTrans \ {p} ELSE eTrans
ProdAfter(kind, p) ==
    IF kind = "publish" THEN eProd \cup {p}
    ELSE IF kind \in {"leave", "closeTrack"} THEN eProd \ {p} ELSE eProd
Surviving(C, kind, p) ==
    IF kind = "leave" THEN {c \in C : p \notin {c[1], c[2]}}
    ELSE IF kind = "closeTrack" THEN {c \in C : c[2] # p} ELSE C
ConsAfter(kind, p, q) ==
    IF kind = "consume" THEN eCons \cup {<<p, q>>} ELSE Surviving(eCons, kind, p)
FlowAfter(kind, p, q) ==
    IF kind = "consume" THEN eFlow \ {<<p, q>>}
    ELSE IF kind = "resume" THEN eFlow \cup {<<p, q>>} ELSE Surviving(eFlow, kind, p)

\* The backend has said yes, and the engine has not read it yet.
Said == call.state = "waiting" /\ inbox # <<>> /\ Head(inbox).ok

\* The engine's maps as they are once it has.
DueIn == IF Said THEN InAfter(call.kind, call.peer) ELSE eIn
DueTrans == IF Said THEN TransAfter(call.kind, call.peer) ELSE eTrans
DueProd == IF Said THEN ProdAfter(call.kind, call.peer) ELSE eProd
DueCons == IF Said THEN ConsAfter(call.kind, call.peer, call.of) ELSE eCons
DueFlow == IF Said THEN FlowAfter(call.kind, call.peer, call.of) ELSE eFlow
dues == <<DueIn, DueTrans, DueProd, DueCons, DueFlow>>

\* About peers that no fault concerns they are the backend's, in every state.
DueAgree ==
    /\ \A p \in Peers \ doubt : /\ p \in DueIn <=> p \in bIn
                                /\ p \in DueTrans <=> p \in bTrans
                                /\ p \in DueProd <=> p \in bProd
    /\ \A p, q \in Peers \ doubt :
          /\ <<p, q>> \in DueCons <=> <<p, q>> \in bCons \ dying
          /\ <<p, q>> \in DueCons => (<<p, q>> \in DueFlow <=> <<p, q>> \in bFlow)

\* Who answers to nobody is about a peer that is in doubt; who answers to the engine
\* does what it asks.
OpsAreKnown ==
    \A o \in ops : /\ ~o.live => o.kind = "refill" \/ o.peer \in doubt
                   /\ o.live => o.kind = call.kind /\ o.peer = call.peer /\ o.of = call.of

\* What mediasoup is asked for is new to the tables.
MediaFits(o) ==
    o.stage = "media" => /\ o.kind \in {"open", "publish", "consume", "resume"}
                         /\ o.peer \notin doubt /\ o.kind = "consume" => <<o.peer, o.of>> \notin bCons

\* While a peer beyond doubt has a transport, or is about to get it, the room keeps
\* its router: to lose it, the room must be empty or the worker dead.
RoomNeeded == \/ bTrans \ doubt # {}
              \/ \E o \in ops : o.stage = "media" /\ o.kind = "open" /\ o.peer \notin doubt
RoomUsable == router # 0 /\ mapped \in pool
RouterStays == RoomNeeded => RoomUsable

AgreeInv == /\ DueAgree /\ OpsAreKnown /\ RouterStays
            /\ \A o \in ops : MediaFits(o)

LEMMA DuesAreOwned ==
    ASSUME PlaneInv
    PROVE  /\ DueTrans \subseteq DueIn /\ DueProd \subseteq DueTrans
           /\ DueCons \subseteq DueTrans \X DueProd
<1>1. eTrans \subseteq eIn /\ eProd \subseteq eTrans /\ eCons \subseteq eTrans \X eProd
  BY DEF PlaneInv, EngineTracksAreOwned
<1>2. CASE ~Said
  BY <1>1, <1>2 DEF DueIn, DueTrans, DueProd, DueCons
<1>3. CASE Said
  <2>. DEFINE k == call.kind  p == call.peer  q == call.of
  <2>1. MayCall(k, p, q)
    BY <1>3 DEF Said, PlaneInv, CallFits
  <2>2. /\ DueIn = InAfter(k, p) /\ DueTrans = TransAfter(k, p) /\ DueProd = ProdAfter(k, p)
        /\ DueCons = ConsAfter(k, p, q)
    BY <1>3 DEF DueIn, DueTrans, DueProd, DueCons
  <2>. HIDE DEF k, p, q
  <2>3. TransAfter(k, p) \subseteq InAfter(k, p) /\ ProdAfter(k, p) \subseteq TransAfter(k, p)
    BY <1>1, <2>1 DEF MayCall, InAfter, TransAfter, ProdAfter
  <2>4. ConsAfter(k, p, q) \subseteq TransAfter(k, p) \X ProdAfter(k, p)
    <3>1. ASSUME NEW c \in ConsAfter(k, p, q) PROVE c \in TransAfter(k, p) \X ProdAfter(k, p)
      <4>1. CASE k = "consume"
        BY <1>1, <2>1, <3>1, <4>1 DEF MayCall, TransAfter, ProdAfter, ConsAfter
      <4>2. CASE k # "consume"
        <5>1. /\ c \in eCons
              /\ k = "leave" => p # c[1] /\ p # c[2]
              /\ k = "closeTrack" => p # c[2]
          BY <3>1, <4>2 DEF ConsAfter, Surviving
        <5>. QED BY <1>1, <5>1 DEF TransAfter, ProdAfter
      <4>. QED BY <4>1, <4>2
    <3>. QED BY <3>1
  <2>. QED BY <2>2, <2>3, <2>4
<1>. QED BY <1>2, <1>3

\* An answer changes what is due if somebody waits for it and it is a yes.
LEMMA AnswersAreDue ==
    ASSUME PlaneInv, OpsAreKnown, NEW o \in ops, NEW ok \in BOOLEAN, Answer(o, ok),
           UNCHANGED <<engine, call>>
    PROVE  /\ ~(o.live /\ ok) => UNCHANGED dues
           /\ o.live /\ ok =>
                /\ DueIn = eIn /\ DueTrans = eTrans /\ DueProd = eProd
                /\ DueCons = eCons /\ DueFlow = eFlow
                /\ DueIn' = InAfter(o.kind, o.peer) /\ DueTrans' = TransAfter(o.kind, o.peer)
                /\ DueProd' = ProdAfter(o.kind, o.peer)
                /\ DueCons' = ConsAfter(o.kind, o.peer, o.of)
                /\ DueFlow' = FlowAfter(o.kind, o.peer, o.of)
<1>0. UNCHANGED <<eIn, eTrans, eProd, eCons, eFlow, call>>
  BY DEF engine
<1>1. ASSUME Said' = Said PROVE UNCHANGED dues
  BY <1>0, <1>1 DEF dues, DueIn, DueTrans, DueProd, DueCons, DueFlow, InAfter, TransAfter,
                    ProdAfter, ConsAfter, FlowAfter, Surviving
<1>2. CASE ~o.live
  <2>1. Said' = Said
    BY <1>0, <1>2 DEF Answer, Said
  <2>. QED BY <1>1, <1>2, <2>1
<1>3. CASE o.live
  <2>1. /\ inbox = <<>> /\ call.state = "waiting" /\ inbox' = Append(inbox, [n |-> o.n, ok |-> ok])
        /\ o.kind = call.kind /\ o.peer = call.peer /\ o.of = call.of
    BY <1>3 DEF Answer, OpsAreKnown, PlaneInv, OneAnswer
  <2>2. inbox' = <<[n |-> o.n, ok |-> ok]>>
    BY <2>1
  <2>3. ~Said /\ (Said' <=> ok)
    BY <1>0, <2>1, <2>2 DEF Said
  <2>4. CASE ~ok
    <3>1. Said' = Said
      BY <2>3, <2>4 DEF Said
    <3>. QED BY <1>1, <2>4, <3>1
  <2>5. CASE ok
    <3>1. /\ DueIn = eIn /\ DueTrans = eTrans /\ DueProd = eProd
          /\ DueCons = eCons /\ DueFlow = eFlow
      BY <2>3 DEF DueIn, DueTrans, DueProd, DueCons, DueFlow
    <3>2. DueIn' = InAfter(o.kind, o.peer)
      BY <1>0, <2>1, <2>3, <2>5 DEF DueIn, InAfter
    <3>3. DueTrans' = TransAfter(o.kind, o.peer)
      BY <1>0, <2>1, <2>3, <2>5 DEF DueTrans, TransAfter
    <3>4. DueProd' = ProdAfter(o.kind, o.peer)
      BY <1>0, <2>1, <2>3, <2>5 DEF DueProd, ProdAfter
    <3>5. DueCons' = ConsAfter(o.kind, o.peer, o.of)
      BY <1>0, <2>1, <2>3, <2>5 DEF DueCons, ConsAfter, Surviving
    <3>6. DueFlow' = FlowAfter(o.kind, o.peer, o.of)
      BY <1>0, <2>1, <2>3, <2>5 DEF DueFlow, FlowAfter, Surviving
    <3>. QED BY <1>3, <2>5, <3>1, <3>2, <3>3, <3>4, <3>5, <3>6
  <2>. QED BY <1>3, <2>4, <2>5
<1>. QED BY <1>2, <1>3

\* What the backend has done when it says yes to each kind of operation.
Joined(p) == bIn' = bIn \cup {p} /\ UNCHANGED tracks
Gone(p) == /\ bIn' = bIn \ {p}
           /\ IF router # 0 THEN ClosePeers({p}) ELSE UNCHANGED tracks
Opened(p) == bTrans' = bTrans \cup {p} /\ UNCHANGED <<bIn, bProd, bCons, bFlow, dying>>
Published(p) == bProd' = bProd \cup {p} /\ UNCHANGED <<bIn, bTrans, bCons, bFlow, dying>>
TrackClosed(p) == /\ bProd' = bProd \ {p} /\ DropConsumers({c \in bCons : c[2] = p})
                  /\ UNCHANGED <<bIn, bTrans>>
Consumed(c) == /\ bCons' = bCons \cup {c} /\ bFlow' = bFlow \ {c}
               /\ UNCHANGED <<bIn, bTrans, bProd, dying>>
Resumed(c) == bFlow' = bFlow \cup {c} /\ UNCHANGED <<bIn, bTrans, bProd, bCons, dying>>

Done(kind, p, q) ==
    \/ kind = "create" /\ UNCHANGED <<bIn, tracks>>
    \/ kind = "join" /\ Joined(p)
    \/ kind = "leave" /\ Gone(p)
    \/ kind = "open" /\ Opened(p)
    \/ kind = "publish" /\ Published(p)
    \/ kind = "closeTrack" /\ TrackClosed(p)
    \/ kind = "consume" /\ Consumed(<<p, q>>)
    \/ kind = "resume" /\ Resumed(<<p, q>>)

\* The tables of one side, as far as peers beyond doubt are concerned.
SameIn == \A p \in Peers \ doubt : p \in DueIn <=> p \in bIn
SameTrans == \A p \in Peers \ doubt : p \in DueTrans <=> p \in bTrans
SameProd == \A p \in Peers \ doubt : p \in DueProd <=> p \in bProd
SameCons == \A p, q \in Peers \ doubt : <<p, q>> \in DueCons <=> <<p, q>> \in bCons \ dying
SameFlow == \A p, q \in Peers \ doubt :
               <<p, q>> \in DueCons => (<<p, q>> \in DueFlow <=> <<p, q>> \in bFlow)

LEMMA AgreeParts == DueAgree <=> SameIn /\ SameTrans /\ SameProd /\ SameCons /\ SameFlow
BY DEF DueAgree, SameIn, SameTrans, SameProd, SameCons, SameFlow

LEMMA AgreeParted ==
    ASSUME SameIn', SameTrans', SameProd', SameCons', SameFlow'
    PROVE  DueAgree'
BY DEF DueAgree, SameIn, SameTrans, SameProd, SameCons, SameFlow

\* A yes to an operation that the engine waits for is what the engine will note.
LEMMA NotedIsDone ==
    ASSUME PlaneInv, DueAgree, RouterStays, NEW kind, NEW p \in Peers, NEW q \in Peers,
           Done(kind, p, q), UNCHANGED doubt,
           p \notin doubt /\ kind = "consume" => <<p, q>> \notin bCons,
           DueIn = eIn, DueTrans = eTrans, DueProd = eProd, DueCons = eCons, DueFlow = eFlow,
           DueIn' = InAfter(kind, p), DueTrans' = TransAfter(kind, p),
           DueProd' = ProdAfter(kind, p), DueCons' = ConsAfter(kind, p, q),
           DueFlow' = FlowAfter(kind, p, q)
    PROVE  DueAgree'
<1>0. /\ SameIn /\ SameTrans /\ SameProd /\ SameCons /\ SameFlow
      /\ dying \subseteq bCons /\ bFlow \subseteq bCons
      /\ eTrans \subseteq eIn /\ eProd \subseteq eTrans /\ eCons \subseteq eTrans \X eProd
      /\ doubt' = doubt
  BY AgreeParts DEF PlaneInv, TypeOK, BackendTypeOK, EngineTracksAreOwned
<1>. USE DEF SameIn, SameTrans, SameProd, SameCons, SameFlow
<1>1. CASE kind = "create" /\ UNCHANGED <<bIn, tracks>>
  BY <1>0, <1>1, AgreeParted DEF tracks, InAfter, TransAfter, ProdAfter, ConsAfter, FlowAfter, Surviving
<1>2. CASE kind = "join" /\ Joined(p)
  BY <1>0, <1>2, AgreeParted DEF Joined, tracks, InAfter, TransAfter, ProdAfter, ConsAfter, FlowAfter, Surviving
<1>3. CASE kind = "open" /\ Opened(p)
  BY <1>0, <1>3, AgreeParted DEF Opened, InAfter, TransAfter, ProdAfter, ConsAfter, FlowAfter, Surviving
<1>4. CASE kind = "publish" /\ Published(p)
  BY <1>0, <1>4, AgreeParted DEF Published, InAfter, TransAfter, ProdAfter, ConsAfter, FlowAfter, Surviving
<1>5. CASE kind = "consume" /\ Consumed(<<p, q>>)
  <2>1. /\ bCons' = bCons \cup {<<p, q>>} /\ bFlow' = bFlow \ {<<p, q>>}
        /\ UNCHANGED <<bIn, bTrans, bProd, dying>>
        /\ DueIn' = DueIn /\ DueTrans' = DueTrans /\ DueProd' = DueProd
        /\ DueCons' = DueCons \cup {<<p, q>>} /\ DueFlow' = DueFlow \ {<<p, q>>}
    BY <1>0, <1>5 DEF Consumed, InAfter, TransAfter, ProdAfter, ConsAfter, FlowAfter
  <2>2. SameIn' /\ SameTrans' /\ SameProd'
    BY <1>0, <2>1
  <2>3. SameCons' /\ SameFlow'
    BY <1>0, <1>5, <2>1
  <2>. QED BY <2>2, <2>3, AgreeParted
<1>6. CASE kind = "resume" /\ Resumed(<<p, q>>)
  <2>1. /\ bFlow' = bFlow \cup {<<p, q>>}
        /\ UNCHANGED <<bIn, bTrans, bProd, bCons, dying>>
        /\ DueIn' = DueIn /\ DueTrans' = DueTrans /\ DueProd' = DueProd
        /\ DueCons' = DueCons /\ DueFlow' = DueFlow \cup {<<p, q>>}
    BY <1>0, <1>6 DEF Resumed, InAfter, TransAfter, ProdAfter, ConsAfter, FlowAfter, Surviving
  <2>. QED BY <1>0, <2>1, AgreeParted
<1>7. CASE kind = "closeTrack" /\ TrackClosed(p)
  <2>. DEFINE C == {c \in bCons : c[2] = p}
  <2>1. /\ bProd' = bProd \ {p} /\ UNCHANGED <<bIn, bTrans>>
        /\ bCons' = bCons \ C /\ bFlow' = bFlow \ C /\ dying' = dying \ C
        /\ DueIn' = DueIn /\ DueTrans' = DueTrans /\ DueProd' = DueProd \ {p}
        /\ DueCons' = {c \in DueCons : c[2] # p} /\ DueFlow' = {c \in DueFlow : c[2] # p}
    BY <1>0, <1>7 DEF TrackClosed, DropConsumers, InAfter, TransAfter, ProdAfter, ConsAfter,
                      FlowAfter, Surviving
  <2>2. SameIn' /\ SameTrans' /\ SameProd'
    BY <1>0, <2>1
  <2>3. SameCons' /\ SameFlow'
    BY <1>0, <2>1
  <2>. QED BY <2>2, <2>3, AgreeParted
<1>8. CASE kind = "leave" /\ Gone(p)
  <2>1. /\ bIn' = bIn \ {p} /\ (router # 0 => ClosePeers({p})) /\ (router = 0 => UNCHANGED tracks)
        /\ DueIn' = DueIn \ {p} /\ DueTrans' = DueTrans \ {p} /\ DueProd' = DueProd \ {p}
        /\ DueCons' = {c \in DueCons : p \notin {c[1], c[2]}}
        /\ DueFlow' = {c \in DueFlow : p \notin {c[1], c[2]}}
    BY <1>0, <1>8 DEF Gone, InAfter, TransAfter, ProdAfter, ConsAfter, FlowAfter, Surviving
  <2>2. CASE router # 0
    <3>1. /\ bTrans' = bTrans \ {p} /\ bProd' = bProd \ {p}
          /\ bCons' = {c \in bCons : c[1] # p} /\ bFlow' = bFlow \cap bCons'
          /\ dying' = {c \in bCons' : c \in dying \/ c[2] \in bProd \cap {p}}
      BY <2>1, <2>2 DEF ClosePeers
    <3>2. SameIn' /\ SameTrans' /\ SameProd'
      BY <1>0, <2>1, <3>1
    <3>3. SameCons' /\ SameFlow'
      BY <1>0, <2>1, <3>1
    <3>. QED BY <3>2, <3>3, AgreeParted
  <2>3. CASE router = 0
    <3>1. bTrans \subseteq doubt
      BY <2>3 DEF RouterStays, RoomNeeded, RoomUsable
    <3>2. UNCHANGED <<bTrans, bProd, bCons, bFlow, dying>>
      BY <2>1, <2>3 DEF tracks
    <3>3. \A r \in Peers \ doubt : r \notin eTrans /\ r \notin eProd
      BY <1>0, <3>1
    <3>4. \A r, s \in Peers \ doubt : <<r, s>> \notin eCons
      BY <1>0, <3>3
    <3>. QED BY <1>0, <2>1, <3>1, <3>2, <3>3, <3>4, AgreeParted
  <2>. QED BY <2>2, <2>3
<1>. QED BY <1>1, <1>2, <1>3, <1>4, <1>5, <1>6, <1>7, <1>8 DEF Done

\* A step does not touch what the two sides believe of peers that are beyond doubt.
SparesDues ==
    /\ \A r \in Peers \ doubt' : /\ r \in DueIn' <=> r \in DueIn
                                 /\ r \in DueTrans' <=> r \in DueTrans
                                 /\ r \in DueProd' <=> r \in DueProd
    /\ \A r, s \in Peers \ doubt' : /\ <<r, s>> \in DueCons' <=> <<r, s>> \in DueCons
                                    /\ <<r, s>> \in DueFlow' <=> <<r, s>> \in DueFlow
SparesTables ==
    /\ \A r \in Peers \ doubt' : /\ r \in bIn' <=> r \in bIn
                                 /\ r \in bTrans' <=> r \in bTrans
                                 /\ r \in bProd' <=> r \in bProd
    /\ \A r, s \in Peers \ doubt' : /\ <<r, s>> \in bCons' <=> <<r, s>> \in bCons
                                    /\ <<r, s>> \in bFlow' <=> <<r, s>> \in bFlow
                                    /\ <<r, s>> \in dying' <=> <<r, s>> \in dying

LEMMA OthersAgree ==
    ASSUME DueAgree, doubt \subseteq doubt', SparesDues, SparesTables
    PROVE  DueAgree'
<1>1. SameIn /\ SameTrans /\ SameProd /\ SameCons /\ SameFlow
  BY AgreeParts
<1>. USE DEF SameIn, SameTrans, SameProd, SameCons, SameFlow
<1>2. SameIn' /\ SameTrans' /\ SameProd'
  BY <1>1 DEF SparesDues, SparesTables
<1>3. SameCons' /\ SameFlow'
  BY <1>1 DEF SparesDues, SparesTables
<1>. QED BY <1>2, <1>3, AgreeParted

\* What happens to one peer spares the others.
LEMMA ClosingIsOwn ==
    ASSUME PlaneInv, NEW p \in doubt', ClosePeers({p})
    PROVE  /\ \A r \in Peers \ doubt' : /\ r \in bTrans' <=> r \in bTrans
                                        /\ r \in bProd' <=> r \in bProd
           /\ \A r, s \in Peers \ doubt' : /\ <<r, s>> \in bCons' <=> <<r, s>> \in bCons
                                           /\ <<r, s>> \in bFlow' <=> <<r, s>> \in bFlow
                                           /\ <<r, s>> \in dying' <=> <<r, s>> \in dying
<1>1. dying \subseteq bCons /\ bFlow \subseteq bCons
  BY DEF PlaneInv, TypeOK, BackendTypeOK
<1>2. /\ bTrans' = bTrans \ {p} /\ bProd' = bProd \ {p}
      /\ bCons' = {c \in bCons : c[1] # p} /\ bFlow' = bFlow \cap bCons'
      /\ dying' = {c \in bCons' : c \in dying \/ c[2] \in bProd \cap {p}}
  BY DEF ClosePeers
<1>. QED BY <1>1, <1>2

LEMMA DoneIsOwn ==
    ASSUME PlaneInv, NEW kind, NEW p \in doubt', NEW q, Done(kind, p, q)
    PROVE  SparesTables
<1>1. CASE UNCHANGED <<bIn, tracks>>
  BY <1>1 DEF tracks, SparesTables
<1>2. CASE Joined(p)
  BY <1>2 DEF Joined, tracks, SparesTables
<1>3. CASE Gone(p)
  <2>1. CASE ClosePeers({p})
    BY <1>3, <2>1, ClosingIsOwn DEF Gone, SparesTables
  <2>2. CASE UNCHANGED tracks
    BY <1>3, <2>2 DEF Gone, tracks, SparesTables
  <2>. QED BY <1>3, <2>1, <2>2 DEF Gone
<1>4. CASE Opened(p)
  BY <1>4 DEF Opened, SparesTables
<1>5. CASE Published(p)
  BY <1>5 DEF Published, SparesTables
<1>6. CASE TrackClosed(p)
  BY <1>6 DEF TrackClosed, DropConsumers, SparesTables
<1>7. CASE Consumed(<<p, q>>)
  BY <1>7 DEF Consumed, SparesTables
<1>8. CASE Resumed(<<p, q>>)
  BY <1>8 DEF Resumed, SparesTables
<1>. QED BY <1>1, <1>2, <1>3, <1>4, <1>5, <1>6, <1>7, <1>8 DEF Done

LEMMA NotesAreOwn ==
    ASSUME NEW kind, NEW p \in doubt', NEW q,
           NEW r \in Peers \ doubt', NEW s \in Peers \ doubt'
    PROVE  /\ r \in InAfter(kind, p) <=> r \in eIn
           /\ r \in TransAfter(kind, p) <=> r \in eTrans
           /\ r \in ProdAfter(kind, p) <=> r \in eProd
           /\ <<r, s>> \in ConsAfter(kind, p, q) <=> <<r, s>> \in eCons
           /\ <<r, s>> \in FlowAfter(kind, p, q) <=> <<r, s>> \in eFlow
BY DEF InAfter, TransAfter, ProdAfter, ConsAfter, FlowAfter, Surviving

LEMMA SameDuesSpare == ASSUME UNCHANGED dues PROVE SparesDues
BY DEF dues, SparesDues

-----------------------------------------------------------------------------
(* The steps of the backend                                                *)

\* An operation that goes on to its next await.
LEMMA MovesAgree ==
    ASSUME PlaneInv, AgreeInv, NEW o \in ops, o.kind # "refill",
           NEW stage \in {"pool", "router", "media"}, NEW w, Await(o, stage, w),
           UNCHANGED <<bIn, tracks, doubt, engine, call>>,
           RoomNeeded => RoomUsable',
           stage = "media" =>
             /\ o.kind \in {"open", "publish", "consume", "resume"}
             /\ o.peer \notin doubt /\ o.kind = "open" => RoomUsable'
             /\ o.peer \notin doubt /\ o.kind = "consume" => <<o.peer, o.of>> \notin bCons
    PROVE  AgreeInv'
<1>. DEFINE on == [o EXCEPT !.stage = stage, !.worker = w]
<1>1. o \in Ops
  BY DEF PlaneInv, TypeOK, BackendTypeOK
<1>2. /\ on.live = o.live /\ on.kind = o.kind /\ on.peer = o.peer /\ on.of = o.of
      /\ on.stage = stage
  BY <1>1 DEF Ops
<1>3. ops' = (ops \ {o}) \cup {on} /\ UNCHANGED inbox
  BY DEF Await
<1>4. UNCHANGED <<bIn, bTrans, bProd, bCons, bFlow, dying, doubt, call>>
  BY DEF tracks
<1>. HIDE DEF on
<1>5. DueAgree'
  <2>1. UNCHANGED dues
    BY <1>3, <1>4 DEF dues, DueIn, DueTrans, DueProd, DueCons, DueFlow, Said, InAfter, TransAfter,
                  ProdAfter, ConsAfter, FlowAfter, Surviving, engine
  <2>2. SparesTables
    BY <1>4 DEF SparesTables
  <2>. QED BY <1>4, <2>1, <2>2, SameDuesSpare, OthersAgree DEF AgreeInv
<1>6. OpsAreKnown'
  BY <1>2, <1>3, <1>4 DEF OpsAreKnown, AgreeInv
<1>7. \A r \in ops' : MediaFits(r)'
  <2>1. MediaFits(on)'
    BY <1>2, <1>4 DEF MediaFits
  <2>2. \A r \in ops : MediaFits(r)'
    BY <1>4 DEF MediaFits, AgreeInv
  <2>. QED BY <1>3, <2>1, <2>2
<1>8. RouterStays'
  <2>1. ASSUME RoomNeeded' PROVE RoomNeeded \/ (stage = "media" /\ o.kind = "open" /\ o.peer \notin doubt)
    BY <1>2, <1>3, <1>4, <2>1 DEF RoomNeeded
  <2>. QED BY <2>1 DEF RouterStays
<1>. QED BY <1>5, <1>6, <1>7, <1>8 DEF AgreeInv

\* An operation that ends.
LEMMA EndsKeepOps ==
    ASSUME PlaneInv, AgreeInv, NEW o \in ops, NEW ok \in BOOLEAN, Answer(o, ok), UNCHANGED <<doubt, call>>,
           bCons' \subseteq bCons \cup (IF o.kind = "consume" THEN {<<o.peer, o.of>>} ELSE {})
    PROVE  OpsAreKnown' /\ \A r \in ops' : MediaFits(r)'
<1>1. ops' = ops \ {o} /\ doubt' = doubt /\ call' = call
  BY DEF Answer
<1>2. OpsAreKnown'
  BY <1>1 DEF OpsAreKnown, AgreeInv
<1>3. ASSUME NEW r \in ops' PROVE MediaFits(r)'
  <2>1. r \in ops /\ r # o /\ MediaFits(r)
    BY <1>1, <1>3 DEF AgreeInv
  <2>2. CASE r.stage = "media" /\ r.peer \notin doubt /\ r.kind = "consume"
    <3>1. r.live /\ r.kind # "refill"
      BY <2>1, <2>2 DEF AgreeInv, OpsAreKnown
    <3>2. o.peer # r.peer \/ o.kind # "consume"
      BY <2>1, <2>2, <3>1 DEF AgreeInv, OpsAreKnown, PlaneInv, OneAnswer
    <3>3. <<r.peer, r.of>> \notin bCons'
      BY <2>1, <2>2, <3>2 DEF MediaFits
    <3>. QED BY <1>1, <2>1, <3>3 DEF MediaFits
  <2>3. CASE ~(r.stage = "media" /\ r.peer \notin doubt /\ r.kind = "consume")
    BY <1>1, <2>1, <2>3 DEF MediaFits
  <2>. QED BY <2>2, <2>3
<1>. QED BY <1>2, <1>3

LEMMA NoesAgree ==
    ASSUME PlaneInv, AgreeInv, NEW o \in ops, Answer(o, FALSE),
           UNCHANGED <<bIn, tracks, doubt, engine, call>>, RoomNeeded => RoomUsable'
    PROVE  AgreeInv'
<1>1. UNCHANGED <<bIn, bTrans, bProd, bCons, bFlow, dying, doubt>> /\ ops' \subseteq ops
  BY DEF tracks, Answer
<1>2. UNCHANGED dues
  BY AnswersAreDue DEF AgreeInv
<1>3. DueAgree'
  <2>1. SparesTables
    BY <1>1 DEF SparesTables
  <2>. QED BY <1>1, <1>2, <2>1, SameDuesSpare, OthersAgree DEF AgreeInv
<1>4. OpsAreKnown' /\ \A r \in ops' : MediaFits(r)'
  BY <1>1, EndsKeepOps
<1>5. RouterStays'
  BY <1>1 DEF RouterStays, RoomNeeded
<1>. QED BY <1>3, <1>4, <1>5 DEF AgreeInv

LEMMA YesesAgree ==
    ASSUME PlaneInv, AgreeInv, NEW o \in ops, o.kind # "refill", Answer(o, TRUE),
           Done(o.kind, o.peer, o.of), UNCHANGED <<doubt, engine, call>>,
           o.peer \notin doubt /\ o.kind = "consume" => <<o.peer, o.of>> \notin bCons,
           RouterStays'
    PROVE  AgreeInv'
<1>1. o.peer \in Peers /\ o.of \in Peers /\ doubt' = doubt
  BY DEF PlaneInv, OpFits
<1>2. DueAgree'
  <2>1. CASE o.live
    <3>1. /\ DueIn = eIn /\ DueTrans = eTrans /\ DueProd = eProd
          /\ DueCons = eCons /\ DueFlow = eFlow
          /\ DueIn' = InAfter(o.kind, o.peer) /\ DueTrans' = TransAfter(o.kind, o.peer)
          /\ DueProd' = ProdAfter(o.kind, o.peer)
          /\ DueCons' = ConsAfter(o.kind, o.peer, o.of)
          /\ DueFlow' = FlowAfter(o.kind, o.peer, o.of)
      BY <2>1, AnswersAreDue DEF AgreeInv
    <3>. QED BY <1>1, <3>1, NotedIsDone DEF AgreeInv
  <2>2. CASE ~o.live
    <3>1. UNCHANGED dues
      BY <2>2, AnswersAreDue DEF AgreeInv
    <3>2. o.peer \in doubt'
      BY <1>1, <2>2 DEF AgreeInv, OpsAreKnown
    <3>. QED BY <1>1, <3>1, <3>2, SameDuesSpare, DoneIsOwn, OthersAgree DEF AgreeInv
  <2>. QED BY <2>1, <2>2
<1>3. bCons' \subseteq bCons \cup (IF o.kind = "consume" THEN {<<o.peer, o.of>>} ELSE {})
  BY DEF Done, Joined, Gone, Opened, Published, TrackClosed, Consumed, Resumed, DropConsumers,
         ClosePeers, tracks
<1>4. OpsAreKnown' /\ \A r \in ops' : MediaFits(r)'
  BY <1>1, <1>3, EndsKeepOps
<1>. QED BY <1>2, <1>4 DEF AgreeInv

LEMMA NeedEnds ==
    ASSUME ops' \subseteq ops, UNCHANGED <<bTrans, doubt>>, RoomNeeded => RoomUsable'
    PROVE  RouterStays'
BY DEF RouterStays, RoomNeeded

LEMMA WithRouterAgrees ==
    ASSUME PlaneInv, AgreeInv, NEW o \in ops, o.kind \in {"create", "join", "open"},
           NEW r, NEW m, NEW P, WithRouter(o, r, m, P), UNCHANGED <<doubt, engine, call>>,
           RoomNeeded => RoomUsable', m \in P => RoomUsable'
    PROVE  AgreeInv'
<1>1. CASE o.kind = "create"
  <2>1. Answer(o, TRUE) /\ UNCHANGED <<bIn, tracks>>
    BY <1>1 DEF WithRouter
  <2>2. Done(o.kind, o.peer, o.of)
    BY <1>1, <2>1 DEF Done
  <2>3. RouterStays'
    BY <2>1, NeedEnds DEF Answer, tracks
  <2>. QED BY <1>1, <2>1, <2>2, <2>3, YesesAgree
<1>2. CASE o.kind = "join" /\ WorkerHasRoom(o.peer, m, P)
  <2>1. Answer(o, WorkerHasRoom(o.peer, m, P)) /\ bIn' = bIn \cup {o.peer} /\ UNCHANGED tracks
    BY <1>2 DEF WithRouter, TakeSeat
  <2>2. WorkerHasRoom(o.peer, m, P) = TRUE
    BY <1>2 DEF WorkerHasRoom
  <2>3. Answer(o, TRUE)
    BY <2>1, <2>2
  <2>4. Done(o.kind, o.peer, o.of)
    BY <1>2, <2>1 DEF Done, Joined
  <2>5. RouterStays'
    BY <2>1, NeedEnds DEF Answer, tracks
  <2>. QED BY <1>2, <2>3, <2>4, <2>5, YesesAgree
<1>3. CASE o.kind = "join" /\ ~WorkerHasRoom(o.peer, m, P)
  <2>1. Answer(o, WorkerHasRoom(o.peer, m, P)) /\ bIn' = bIn /\ UNCHANGED tracks
    BY <1>3 DEF WithRouter, TakeSeat
  <2>2. WorkerHasRoom(o.peer, m, P) = FALSE
    BY <1>3 DEF WorkerHasRoom
  <2>3. Answer(o, FALSE)
    BY <2>1, <2>2
  <2>. QED BY <2>1, <2>3, NoesAgree
<1>4. CASE o.kind = "open"
  <2>1. /\ (m \in P /\ Await(o, "media", r)) \/ Answer(o, FALSE)
        /\ UNCHANGED <<bIn, tracks>>
    BY <1>4 DEF WithRouter
  <2>2. CASE Answer(o, FALSE)
    BY <2>1, <2>2, NoesAgree
  <2>3. CASE m \in P /\ Await(o, "media", r)
    BY <1>4, <2>1, <2>3, MovesAgree
  <2>. QED BY <2>1, <2>2, <2>3
<1>. QED BY <1>1, <1>2, <1>3, <1>4

LEMMA RoomRouterAgrees ==
    ASSUME PlaneInv, AgreeInv, NEW o \in ops, o.kind \in {"create", "join", "open"},
           NEW P, pool \subseteq P, pool' = P, RoomRouter(o, P), UNCHANGED <<doubt, engine, call>>
    PROVE  AgreeInv'
<1>1. CASE router # 0 /\ mapped \in P
  <2>1. WithRouter(o, router, mapped, P) /\ UNCHANGED <<router, mapped>>
    BY <1>1 DEF RoomRouter
  <2>2. RoomUsable'
    BY <1>1, <2>1 DEF RoomUsable
  <2>. QED BY <2>1, <2>2, WithRouterAgrees
<1>2. CASE ~(router # 0 /\ mapped \in P)
  <2>1. ~RoomNeeded
    BY <1>2 DEF AgreeInv, RouterStays, RoomUsable
  <2>2. /\ UNCHANGED <<bIn, tracks>>
        /\ (\E w : Await(o, "router", w)) \/ Answer(o, FALSE)
    BY <1>2, Zenon DEF RoomRouter
  <2>3. ASSUME NEW w, Await(o, "router", w) PROVE AgreeInv'
    BY <2>1, <2>2, <2>3, MovesAgree
  <2>4. CASE Answer(o, FALSE)
    BY <2>1, <2>2, <2>4, NoesAgree
  <2>. QED BY <2>2, <2>3, <2>4
<1>. QED BY <1>1, <1>2

LEMMA ServeAgrees ==
    ASSUME PlaneInv, AgreeInv, NEW o \in ops, Serve(o), UNCHANGED <<engine, call>>
    PROVE  AgreeInv'
<1>0. /\ UNCHANGED <<pool, doubt>> /\ o.stage = "queued" /\ OpFits(o)
      /\ RoomNeeded => RoomUsable
  BY DEF Serve, PlaneInv, AgreeInv, RouterStays
<1>1. CASE UNCHANGED room /\ Answer(o, FALSE)
  <2>1. RoomUsable' = RoomUsable /\ UNCHANGED <<bIn, tracks>>
    BY <1>0, <1>1 DEF room, RoomUsable
  <2>. QED BY <1>0, <1>1, <2>1, NoesAgree
<1>2. ASSUME o.kind \in {"create", "join", "open"}, Pooled(o) PROVE AgreeInv'
  <2>1. CASE RoomRouter(o, pool)
    BY <1>0, <1>2, <2>1, RoomRouterAgrees
  <2>2. CASE Await(o, "pool", 0) /\ UNCHANGED room
    <3>1. RoomUsable' = RoomUsable /\ UNCHANGED <<bIn, tracks>>
      BY <1>0, <2>2 DEF room, RoomUsable
    <3>. QED BY <1>0, <1>2, <2>2, <3>1, MovesAgree
  <2>. QED BY <1>2, <2>1, <2>2 DEF Pooled
<1>3. ASSUME o.kind \in {"publish", "consume", "resume"}, Await(o, "media", router), UNCHANGED room,
             o.kind = "consume" => <<o.peer, o.of>> \notin bCons
      PROVE  AgreeInv'
  <2>1. RoomUsable' = RoomUsable /\ UNCHANGED <<bIn, tracks>>
    BY <1>0, <1>3 DEF room, RoomUsable
  <2>. QED BY <1>0, <1>3, <2>1, MovesAgree
<1>4. CASE OpLeavePeer(o)
  <2>1. /\ o.kind = "leave" /\ Answer(o, TRUE) /\ bIn' = bIn \ {o.peer}
        /\ IF router # 0 THEN ClosePeers({o.peer}) ELSE UNCHANGED tracks
        /\ IF bIn = {o.peer} THEN router' = 0 /\ mapped' = 0 ELSE UNCHANGED <<router, mapped>>
    BY <1>4 DEF OpLeavePeer
  <2>2. Done(o.kind, o.peer, o.of)
    BY <2>1 DEF Done, Gone
  <2>3. bTrans' \subseteq bTrans /\ ops' \subseteq ops
    BY <2>1 DEF ClosePeers, tracks, Answer
  <2>4. CASE bIn # {o.peer}
    <3>1. RoomUsable' = RoomUsable
      BY <1>0, <2>1, <2>4 DEF RoomUsable
    <3>2. RouterStays'
      BY <1>0, <2>3, <3>1 DEF RouterStays, RoomNeeded
    <3>. QED BY <1>0, <2>1, <2>2, <3>2, YesesAgree
  <2>5. CASE bIn = {o.peer}
    <3>1. \A p \in Peers \ doubt : p \in bTrans => p \in bIn
      BY DuesAreOwned DEF AgreeInv, DueAgree
    <3>2. bTrans' \ doubt' = {}
      <4>1. ASSUME NEW p \in bTrans' \ doubt' PROVE FALSE
        <5>1. p \in bTrans /\ p \in Peers \ doubt
          BY <1>0, <2>3, <4>1 DEF PlaneInv, TypeOK, BackendTypeOK
        <5>2. p = o.peer
          BY <2>5, <3>1, <5>1
        <5>3. router # 0
          BY <1>0, <5>1 DEF RoomNeeded, RoomUsable
        <5>. QED BY <2>1, <4>1, <5>2, <5>3 DEF ClosePeers
      <4>. QED BY <4>1
    <3>3. ASSUME NEW r \in ops', r.stage = "media", r.kind = "open", r.peer \notin doubt' PROVE FALSE
      <4>1. r \in ops /\ r # o /\ r.peer \notin doubt /\ OpFits(r)
        BY <1>0, <2>3, <3>3 DEF PlaneInv
      <4>2. r.live /\ r.peer = call.peer /\ call.kind = "open"
        BY <3>3, <4>1 DEF AgreeInv, OpsAreKnown
      <4>3. inbox = <<>> /\ call.state = "waiting"
        BY <4>1, <4>2 DEF PlaneInv, OneAnswer
      <4>4. r.peer \in eIn /\ r.peer \in Peers
        BY <4>2, <4>3 DEF PlaneInv, CallFits, MayCall
      <4>5. r.peer \in bIn
        BY <4>1, <4>3, <4>4 DEF AgreeInv, DueAgree, DueIn, Said
      <4>6. ~o.live /\ o.kind # "refill"
        BY <2>1, <4>1, <4>2 DEF PlaneInv, OneAnswer
      <4>. QED BY <2>5, <4>1, <4>5, <4>6 DEF AgreeInv, OpsAreKnown
    <3>4. RouterStays'
      BY <3>2, <3>3 DEF RouterStays, RoomNeeded
    <3>. QED BY <1>0, <2>1, <2>2, <3>4, YesesAgree
  <2>. QED BY <2>4, <2>5
<1>5. ASSUME OpCloseProducer(o), ~Refuse(o) PROVE AgreeInv'
  <2>1. /\ o.kind = "closeTrack" /\ Answer(o, TRUE)
        /\ bProd' = bProd \ {o.peer} /\ DropConsumers({c \in bCons : c[2] = o.peer})
        /\ UNCHANGED <<mapped, router, bIn, bTrans>>
    BY <1>5 DEF OpCloseProducer
  <2>2. Done(o.kind, o.peer, o.of)
    BY <2>1 DEF Done, TrackClosed
  <2>3. RoomUsable' = RoomUsable
    BY <1>0, <2>1 DEF RoomUsable
  <2>4. RouterStays'
    BY <1>0, <2>1, <2>3, NeedEnds DEF Answer
  <2>. QED BY <1>0, <2>1, <2>2, <2>4, YesesAgree
<1>6. CASE Refuse(o)
  BY <1>1, <1>6 DEF Refuse
<1>7. ASSUME NEW possible, InMediasoup(o, possible), o.kind \in {"publish", "consume", "resume"},
             o.kind = "consume" => (possible => <<o.peer, o.of>> \notin bCons)
      PROVE  AgreeInv'
  BY <1>3, <1>6, <1>7 DEF InMediasoup
<1>8. CASE OpCreateRouter(o) \/ OpJoinPeer(o) \/ OpCreateWebRtcTransport(o)
  BY <1>2, <1>6, <1>8 DEF OpCreateRouter, OpJoinPeer, OpCreateWebRtcTransport
<1>9. CASE OpProduce(o)
  BY <1>7, <1>9 DEF OpProduce
<1>10. CASE OpConsume(o)
  BY <1>7, <1>10 DEF OpConsume
<1>11. CASE OpResumeConsumer(o)
  BY <1>7, <1>11 DEF OpResumeConsumer
<1>. QED BY <1>4, <1>5, <1>6, <1>8, <1>9, <1>10, <1>11 DEF Serve

LEMMA MediaMadeAgrees ==
    ASSUME PlaneInv, AgreeInv, NEW o \in ops, MediaMade(o), UNCHANGED <<engine, call>>
    PROVE  AgreeInv'
<1>. DEFINE c == <<o.peer, o.of>>
<1>1. /\ o.stage = "media" /\ o.kind \in {"open", "publish", "consume", "resume"}
      /\ o.peer \notin doubt /\ o.kind = "consume" => c \notin bCons
      /\ RoomNeeded => RoomUsable
  BY DEF MediaMade, AgreeInv, MediaFits, RouterStays
<1>2. /\ Answer(o, o.kind = "resume" => c \in bCons)
      /\ bTrans' = IF o.kind = "open" THEN bTrans \cup {o.peer} ELSE bTrans
      /\ bProd' = IF o.kind = "publish" THEN bProd \cup {o.peer} ELSE bProd
      /\ bCons' = IF o.kind = "consume" THEN bCons \cup {c} ELSE bCons
      /\ bFlow' = IF o.kind = "resume" THEN bFlow \cup ({c} \cap bCons)
                  ELSE IF o.kind = "consume" THEN bFlow \ {c} ELSE bFlow
      /\ UNCHANGED <<pool, serial, mapped, router, bIn, dying, doubt>>
  BY DEF MediaMade
<1>3. RoomUsable' = RoomUsable /\ ops' = ops \ {o}
  BY <1>2 DEF RoomUsable, Answer
<1>4. RouterStays'
  <2>1. ASSUME RoomNeeded' PROVE RoomNeeded
    <3>1. CASE o.kind = "open" /\ o.peer \notin doubt
      BY <1>1, <3>1 DEF RoomNeeded
    <3>2. CASE o.kind # "open" \/ o.peer \in doubt
      BY <1>2, <1>3, <2>1, <3>2 DEF RoomNeeded
    <3>. QED BY <3>1, <3>2
  <2>. QED BY <1>1, <1>3, <2>1 DEF RouterStays
<1>. HIDE DEF c
<1>5. CASE o.kind = "resume" /\ c \notin bCons
  <2>1. (o.kind = "resume" => c \in bCons) = FALSE
    BY <1>5
  <2>2. Answer(o, FALSE)
    BY <1>2, <2>1
  <2>3. UNCHANGED <<bIn, tracks>>
    BY <1>2, <1>5 DEF tracks
  <2>. QED BY <1>1, <1>2, <1>3, <2>2, <2>3, NoesAgree
<1>6. CASE o.kind # "resume" \/ c \in bCons
  <2>1. (o.kind = "resume" => c \in bCons) = TRUE
    BY <1>6
  <2>2. Answer(o, TRUE)
    BY <1>2, <2>1
  <2>3. Done(o.kind, o.peer, o.of)
    BY <1>1, <1>2, <1>6 DEF Done, Opened, Published, Consumed, Resumed, c
  <2>. QED BY <1>1, <1>2, <1>4, <2>2, <2>3, YesesAgree DEF c
<1>. QED BY <1>5, <1>6

LEMMA TimeoutAgrees ==
    ASSUME PlaneInv, AgreeInv, NEW o \in ops, OperationTimeout(o), UNCHANGED <<engine, call>>
    PROVE  AgreeInv'
<1>. DEFINE on == [o EXCEPT !.live = FALSE]
<1>1. /\ o.live /\ inbox' = Append(inbox, [n |-> o.n, ok |-> FALSE])
      /\ ops' = (ops \ {o}) \cup {on} /\ doubt' = doubt \cup {o.peer}
      /\ UNCHANGED <<pool, mapped, router, bIn, bTrans, bProd, bCons, bFlow, dying, call>>
  BY DEF OperationTimeout, room, tracks
<1>2. ~on.live /\ on.kind = o.kind /\ on.peer = o.peer /\ on.of = o.of /\ on.stage = o.stage
  BY DEF PlaneInv, TypeOK, BackendTypeOK, Ops
<1>. HIDE DEF on
<1>3. DueAgree'
  <2>1. inbox = <<>>
    BY <1>1 DEF PlaneInv, OneAnswer
  <2>2. inbox' = <<[n |-> o.n, ok |-> FALSE]>>
    BY <1>1, <2>1
  <2>3. ~Said /\ ~Said'
    BY <2>1, <2>2 DEF Said
  <2>4. UNCHANGED dues
    BY <2>3 DEF dues, DueIn, DueTrans, DueProd, DueCons, DueFlow, engine
  <2>5. SparesTables
    BY <1>1 DEF SparesTables
  <2>. QED BY <1>1, <2>4, <2>5, SameDuesSpare, OthersAgree DEF AgreeInv
<1>4. OpsAreKnown'
  BY <1>1, <1>2 DEF OpsAreKnown, AgreeInv
<1>5. \A r \in ops' : MediaFits(r)'
  BY <1>1, <1>2 DEF MediaFits, AgreeInv
<1>6. RouterStays'
  <2>1. RoomNeeded' => RoomNeeded
    BY <1>1, <1>2 DEF RoomNeeded
  <2>. QED BY <1>1, <2>1 DEF AgreeInv, RouterStays, RoomUsable
<1>. QED BY <1>3, <1>4, <1>5, <1>6 DEF AgreeInv

LEMMA DeathAgrees ==
    ASSUME PlaneInv, AgreeInv, NEW w \in Workers, WorkerDied(w), UNCHANGED <<engine, call>>
    PROVE  AgreeInv'
<1>1. doubt' = Peers /\ bTrans' \subseteq Peers /\ call' = call
  <2>1. bTrans' \subseteq bTrans
    BY DEF WorkerDied, CloseRoom, ClosePeers, room, tracks
  <2>. QED BY <2>1 DEF WorkerDied, PlaneInv, TypeOK, BackendTypeOK
<1>2. ops' \subseteq ops \cup {Refill(w)}
  BY DEF WorkerDied, Refill
<1>3. Refill(w).kind = "refill" /\ ~Refill(w).live /\ Refill(w).stage = "pool"
  BY DEF Refill
<1>4. \A o \in ops : (o.kind # "refill" => o.peer \in Peers) /\ (o.stage = "media" => o.kind # "refill")
  BY DEF PlaneInv, OpFits
<1>5. DueAgree'
  BY <1>1 DEF DueAgree
<1>6. OpsAreKnown'
  BY <1>1, <1>2, <1>3, <1>4 DEF OpsAreKnown, AgreeInv
<1>7. \A r \in ops' : MediaFits(r)'
  BY <1>1, <1>2, <1>3, <1>4 DEF MediaFits, AgreeInv
<1>8. RouterStays'
  BY <1>1, <1>2, <1>3, <1>4 DEF RouterStays, RoomNeeded
<1>. QED BY <1>5, <1>6, <1>7, <1>8 DEF AgreeInv

LEMMA BackendAgrees ==
    ASSUME PlaneInv, AgreeInv, Backend, UNCHANGED <<engine, call>>
    PROVE  AgreeInv'
<1>. USE BackendConstants
<1>0. /\ \A o \in ops : OpFits(o)
      /\ RoomNeeded => RoomUsable
      /\ pool \subseteq Workers
  BY DEF PlaneInv, AgreeInv, RouterStays, TypeOK, BackendTypeOK
<1>1. ASSUME ops' \subseteq ops, UNCHANGED <<inbox, bIn, tracks, doubt>>, RoomNeeded => RoomUsable'
      PROVE  AgreeInv'
  <2>1. UNCHANGED <<bIn, bTrans, bProd, bCons, bFlow, dying, doubt, inbox, call>>
    BY <1>1 DEF tracks
  <2>2. UNCHANGED dues
    BY <2>1 DEF dues, DueIn, DueTrans, DueProd, DueCons, DueFlow, Said, InAfter, TransAfter,
                ProdAfter, ConsAfter, FlowAfter, Surviving, engine
  <2>3. DueAgree'
    <3>1. SparesTables
      BY <2>1 DEF SparesTables
    <3>. QED BY <2>1, <2>2, <3>1, SameDuesSpare, OthersAgree DEF AgreeInv
  <2>4. OpsAreKnown'
    BY <1>1, <2>1 DEF OpsAreKnown, AgreeInv
  <2>5. \A r \in ops' : MediaFits(r)'
    BY <1>1, <2>1 DEF MediaFits, AgreeInv
  <2>6. RouterStays'
    BY <1>1, <2>1, NeedEnds
  <2>. QED BY <2>3, <2>4, <2>5, <2>6 DEF AgreeInv
<1>2. ASSUME NEW o \in ops, WorkerStarted(o) PROVE AgreeInv'
  <2>. DEFINE P == pool \cup {serial + 1}
  <2>1. pool' = P /\ UNCHANGED doubt
    BY <1>2 DEF WorkerStarted
  <2>2. pool \subseteq P
    OBVIOUS
  <2>. HIDE DEF P
  <2>3. CASE UNCHANGED room /\ ops' \subseteq ops /\ UNCHANGED inbox
    <3>1. RoomNeeded => RoomUsable'
      BY <1>0, <2>1, <2>2, <2>3 DEF RoomUsable, room
    <3>2. UNCHANGED <<bIn, tracks>>
      BY <2>3 DEF room
    <3>. QED BY <1>1, <2>1, <2>3, <3>1, <3>2
  <2>4. CASE o.kind # "refill" /\ RoomRouter(o, P)
    <3>1. o.kind \in {"create", "join", "open"}
      BY <1>0, <1>2, <2>4 DEF WorkerStarted, OpFits
    <3>. QED BY <2>1, <2>2, <2>4, <3>1, RoomRouterAgrees
  <2>5. o.kind = "refill" => ~o.live
    BY <1>0 DEF OpFits
  <2>. QED BY <1>2, <2>3, <2>4, <2>5 DEF WorkerStarted, Answer, P
<1>3. ASSUME NEW o \in ops, WorkerFailed(o) PROVE AgreeInv'
  <2>1. UNCHANGED <<pool, doubt>>
    BY <1>3 DEF WorkerFailed
  <2>2. CASE Answer(o, FALSE) /\ UNCHANGED room
    <3>1. RoomUsable' = RoomUsable /\ UNCHANGED <<bIn, tracks>>
      BY <2>1, <2>2 DEF RoomUsable, room
    <3>. QED BY <1>0, <2>1, <2>2, <3>1, NoesAgree
  <2>3. CASE o.kind # "refill" /\ RoomRouter(o, pool)
    <3>1. o.kind \in {"create", "join", "open"}
      BY <1>0, <1>3, <2>3 DEF WorkerFailed, OpFits
    <3>. QED BY <2>1, <2>3, <3>1, RoomRouterAgrees
  <2>. QED BY <1>3, <2>2, <2>3 DEF WorkerFailed
<1>4. ASSUME NEW o \in ops, RouterMade(o) PROVE AgreeInv'
  <2>1. /\ o.kind \in {"create", "join", "open"}
        /\ o.worker \in pool /\ router' = o.worker /\ UNCHANGED <<mapped, pool, doubt>>
        /\ WithRouter(o, o.worker, mapped, pool)
    BY <1>0, <1>4 DEF RouterMade, OpFits
  <2>2. mapped \in pool => RoomUsable'
    BY <1>0, <2>1 DEF RoomUsable, Workers
  <2>3. RoomNeeded => RoomUsable'
    BY <1>0, <2>2 DEF RoomUsable
  <2>. QED BY <2>1, <2>2, <2>3, WithRouterAgrees
<1>5. ASSUME NEW o \in ops, Refused(o) PROVE AgreeInv'
  <2>1. Answer(o, FALSE) /\ UNCHANGED <<pool, room, doubt>>
    BY <1>5 DEF Refused
  <2>2. RoomUsable' = RoomUsable /\ UNCHANGED <<bIn, tracks>>
    BY <2>1 DEF RoomUsable, room
  <2>. QED BY <1>0, <2>1, <2>2, NoesAgree
<1>6. ASSUME NEW P \in SUBSET Peers, doubt' = doubt \cup P, UNCHANGED <<pool, mapped, router, ops, inbox>>,
             bTrans' \subseteq bTrans, bCons' \subseteq bCons, DueAgree'
      PROVE  AgreeInv'
  <2>1. OpsAreKnown' /\ \A r \in ops' : MediaFits(r)'
    BY <1>6 DEF OpsAreKnown, MediaFits, AgreeInv
  <2>2. RouterStays'
    <3>1. RoomNeeded' => RoomNeeded
      BY <1>6 DEF RoomNeeded
    <3>. QED BY <1>0, <1>6, <3>1 DEF RouterStays, RoomUsable
  <2>. QED BY <1>6, <2>1, <2>2 DEF AgreeInv
<1>7. ASSUME UNCHANGED inbox PROVE UNCHANGED dues
  BY <1>7 DEF dues, DueIn, DueTrans, DueProd, DueCons, DueFlow, Said, InAfter, TransAfter,
              ProdAfter, ConsAfter, FlowAfter, Surviving, engine
<1>8. ASSUME NEW p \in Peers, TransportClosed(p) PROVE AgreeInv'
  <2>1. /\ ClosePeers({p}) /\ doubt' = doubt \cup {p}
        /\ UNCHANGED <<pool, mapped, router, bIn, ops, inbox>>
    BY <1>8 DEF TransportClosed
  <2>2. DueAgree'
    <3>1. SparesTables
      BY <2>1, ClosingIsOwn DEF SparesTables
    <3>. QED BY <1>7, <2>1, <3>1, SameDuesSpare, OthersAgree DEF AgreeInv
  <2>3. bTrans' \subseteq bTrans /\ bCons' \subseteq bCons
    BY <2>1 DEF ClosePeers
  <2>. QED BY <1>6, <2>1, <2>2, <2>3
<1>9. ASSUME NEW c \in Peers \X Peers, ConsumerClosed(c) PROVE AgreeInv'
  <2>1. /\ c \in dying /\ bCons' = bCons \ {c} /\ bFlow' = bFlow \ {c} /\ dying' = dying \ {c}
        /\ UNCHANGED <<pool, mapped, router, bIn, bTrans, bProd, ops, inbox, doubt>>
    BY <1>9 DEF ConsumerClosed, DropConsumers
  <2>2. UNCHANGED dues
    BY <1>7, <2>1
  <2>3. SameIn /\ SameTrans /\ SameProd /\ SameCons /\ SameFlow
    BY AgreeParts DEF AgreeInv
  <2>4. SameIn' /\ SameTrans' /\ SameProd'
    BY <2>1, <2>2, <2>3 DEF SameIn, SameTrans, SameProd, dues
  <2>5. SameCons' /\ SameFlow'
    BY <2>1, <2>2, <2>3 DEF SameCons, SameFlow, dues
  <2>6. DueAgree'
    BY <2>4, <2>5, AgreeParted
  <2>7. {} \in SUBSET Peers /\ doubt' = doubt \cup {} /\ bCons' \subseteq bCons /\ bTrans' \subseteq bTrans
    BY <2>1
  <2>. QED BY <1>6, <2>1, <2>6, <2>7
<1>. QED
  BY <1>2, <1>3, <1>4, <1>5, <1>8, <1>9, ServeAgrees, MediaMadeAgrees, TimeoutAgrees, DeathAgrees
  DEF Backend

-----------------------------------------------------------------------------
(* The steps of the engine                                                 *)

\* The engine's effect is the one that was due.
LEMMA EffectIsDue ==
    ASSUME NEW kind, NEW p, NEW q, Effect(kind, p, q)
    PROVE  /\ eIn' = InAfter(kind, p) /\ eTrans' = TransAfter(kind, p)
           /\ eProd' = ProdAfter(kind, p)
           /\ eCons' = ConsAfter(kind, p, q) /\ eFlow' = FlowAfter(kind, p, q)
<1>. USE DEF InAfter, TransAfter, ProdAfter, ConsAfter, FlowAfter, Surviving
<1>1. CASE kind = "create" /\ CreateEffect
  BY <1>1 DEF CreateEffect
<1>2. CASE kind = "join" /\ JoinEffect(p)
  BY <1>2 DEF JoinEffect
<1>3. CASE kind = "leave" /\ LeaveEffect(p)
  BY <1>3 DEF LeaveEffect
<1>4. CASE kind = "open" /\ OpenEffect(p)
  BY <1>4 DEF OpenEffect
<1>5. CASE kind = "publish" /\ PublishEffect(p)
  BY <1>5 DEF PublishEffect
<1>6. CASE kind = "closeTrack" /\ CloseTrackEffect(p)
  BY <1>6 DEF CloseTrackEffect
<1>7. CASE kind = "consume" /\ ConsumeEffect(<<p, q>>)
  BY <1>7 DEF ConsumeEffect
<1>8. CASE kind = "resume" /\ ResumeEffect(<<p, q>>)
  BY <1>8 DEF ResumeEffect
<1>. QED BY <1>1, <1>2, <1>3, <1>4, <1>5, <1>6, <1>7, <1>8 DEF Effect

LEMMA EngineAgrees ==
    ASSUME PlaneInv, AgreeInv, Engine \/ UNCHANGED vars
    PROVE  AgreeInv'
<1>0. OpsAreKnown /\ RouterStays /\ \A o \in ops : MediaFits(o)
  BY DEF AgreeInv
<1>1. ASSUME UNCHANGED <<pool, room, doubt>>, UNCHANGED dues, OpsAreKnown',
             \A o \in ops' : o \in ops \/ o.stage = "queued"
      PROVE  AgreeInv'
  <2>1. UNCHANGED <<pool, mapped, router, bIn, bTrans, bProd, bCons, bFlow, dying, doubt>>
    BY <1>1 DEF room, tracks
  <2>2. DueAgree'
    <3>1. SparesTables
      BY <2>1 DEF SparesTables
    <3>. QED BY <1>1, <2>1, <3>1, SameDuesSpare, OthersAgree DEF AgreeInv
  <2>3. \A o \in ops' : MediaFits(o)'
    BY <1>0, <1>1, <2>1 DEF MediaFits
  <2>4. RouterStays'
    <3>1. RoomNeeded' => RoomNeeded
      BY <1>1, <2>1 DEF RoomNeeded
    <3>. QED BY <1>0, <2>1, <3>1 DEF RouterStays, RoomUsable
  <2>. QED BY <1>1, <2>2, <2>3, <2>4 DEF AgreeInv
<1>2. ASSUME UNCHANGED engine, ~Said, ~Said' PROVE UNCHANGED dues
  BY <1>2 DEF dues, DueIn, DueTrans, DueProd, DueCons, DueFlow, engine
<1>3. ASSUME NEW kind, NEW p, NEW q, Start(kind, p, q) PROVE AgreeInv'
  <2>1. /\ call.state = "none" /\ call'.state = "ready"
        /\ UNCHANGED <<backend, engine>>
    BY <1>3 DEF Start
  <2>2. UNCHANGED <<pool, room, doubt, ops, inbox>>
    BY <2>1 DEF backend
  <2>3. ~Said /\ ~Said'
    BY <2>1 DEF Said
  <2>4. OpsAreKnown'
    BY <1>0, <2>1, <2>2 DEF OpsAreKnown, PlaneInv, OneAnswer
  <2>. QED BY <1>1, <1>2, <2>1, <2>2, <2>3, <2>4
<1>4. CASE Send
  <2>. DEFINE o == [n |-> sent + 1, kind |-> call.kind, peer |-> call.peer,
                    of |-> call.of, stage |-> "queued", worker |-> 0, live |-> TRUE]
  <2>1. /\ call.state = "ready" /\ call' = [call EXCEPT !.state = "waiting", !.n = sent + 1]
        /\ ops' = ops \cup {o}
        /\ UNCHANGED <<pool, room, inbox, doubt, engine>>
    BY <1>4 DEF Send
  <2>2. call \in Calls
    BY DEF PlaneInv, TypeOK
  <2>3. call'.kind = call.kind /\ call'.peer = call.peer /\ call'.of = call.of
    BY <2>1, <2>2 DEF Calls
  <2>4. /\ o.live /\ o.stage = "queued"
        /\ o.kind = call.kind /\ o.peer = call.peer /\ o.of = call.of
    OBVIOUS
  <2>. HIDE DEF o
  <2>5. inbox = <<>> /\ \A r \in ops : ~r.live
    BY <2>1 DEF PlaneInv, OneAnswer, ReplyAnswersRequest
  <2>6. ~Said /\ ~Said'
    BY <2>1, <2>5 DEF Said
  <2>7. OpsAreKnown'
    BY <1>0, <2>1, <2>3, <2>4, <2>5 DEF OpsAreKnown
  <2>. QED BY <1>1, <1>2, <2>1, <2>4, <2>6, <2>7
<1>5. CASE ConnectFails
  <2>1. call.state = "ready" /\ RetryOrFail /\ UNCHANGED <<backend, engine>>
    BY <1>5 DEF ConnectFails
  <2>2. UNCHANGED <<pool, room, doubt, ops, inbox>>
    BY <2>1 DEF backend
  <2>3. inbox = <<>> /\ \A r \in ops : ~r.live
    BY <2>1 DEF PlaneInv, OneAnswer, ReplyAnswersRequest
  <2>4. ~Said /\ ~Said'
    BY <2>2, <2>3 DEF Said
  <2>5. OpsAreKnown'
    BY <1>0, <2>2, <2>3 DEF OpsAreKnown
  <2>. QED BY <1>1, <1>2, <2>1, <2>2, <2>4, <2>5
<1>6. CASE IoFails
  <2>1. /\ ops' = {[o EXCEPT !.live = FALSE] : o \in {o \in ops : o.stage # "queued"}}
        /\ inbox' = <<>> /\ doubt' = doubt \cup {call.peer}
        /\ UNCHANGED <<pool, mapped, router, bIn, bTrans, bProd, bCons, bFlow, dying>>
        /\ UNCHANGED <<eIn, eTrans, eProd, eCons, eFlow>>
    BY <1>6 DEF IoFails, Abandoned, room, tracks, engine
  <2>2. ~Said'
    BY <2>1 DEF Said
  <2>3. SparesDues
    <3>1. /\ DueIn' = eIn /\ DueTrans' = eTrans /\ DueProd' = eProd
          /\ DueCons' = eCons /\ DueFlow' = eFlow
      BY <2>1, <2>2 DEF DueIn, DueTrans, DueProd, DueCons, DueFlow
    <3>2. CASE Said
      <4>1. /\ DueIn = InAfter(call.kind, call.peer) /\ DueTrans = TransAfter(call.kind, call.peer)
            /\ DueProd = ProdAfter(call.kind, call.peer)
            /\ DueCons = ConsAfter(call.kind, call.peer, call.of)
            /\ DueFlow = FlowAfter(call.kind, call.peer, call.of)
        BY <3>2 DEF DueIn, DueTrans, DueProd, DueCons, DueFlow
      <4>. QED BY <2>1, <3>1, <4>1, NotesAreOwn DEF SparesDues
    <3>3. CASE ~Said
      BY <3>1, <3>3 DEF SparesDues, DueIn, DueTrans, DueProd, DueCons, DueFlow
    <3>. QED BY <3>2, <3>3
  <2>4. DueAgree'
    <3>1. SparesTables
      BY <2>1 DEF SparesTables
    <3>. QED BY <2>1, <2>3, <3>1, OthersAgree DEF AgreeInv
  <2>5. \A r \in ops' : \E o \in ops : /\ ~r.live /\ r.kind = o.kind /\ r.peer = o.peer
                                       /\ r.of = o.of /\ r.stage = o.stage
    BY <2>1 DEF PlaneInv, TypeOK, BackendTypeOK, Ops
  <2>6. \A o \in ops : o.kind = "refill" \/ o.peer \in doubt'
    BY <1>0, <2>1 DEF OpsAreKnown
  <2>7. OpsAreKnown'
    BY <2>5, <2>6 DEF OpsAreKnown
  <2>8. \A r \in ops' : MediaFits(r)'
    BY <1>0, <2>1, <2>5 DEF MediaFits
  <2>9. RouterStays'
    <3>1. RoomNeeded' => RoomNeeded
      BY <2>1, <2>5 DEF RoomNeeded
    <3>. QED BY <1>0, <2>1, <3>1 DEF RouterStays, RoomUsable
  <2>. QED BY <2>4, <2>7, <2>8, <2>9 DEF AgreeInv
<1>7. CASE Receive
  <2>1. /\ call.state = "waiting" /\ inbox # <<>> /\ call' = NoCall
        /\ \/ Head(inbox).ok /\ Effect(call.kind, call.peer, call.of)
           \/ ~Head(inbox).ok /\ UNCHANGED engine
        /\ UNCHANGED <<pool, room, ops, doubt>>
    BY <1>7 DEF Receive
  <2>2. ~Said' /\ \A r \in ops : ~r.live
    BY <2>1 DEF Said, NoCall, PlaneInv, OneAnswer
  <2>3. UNCHANGED dues
    <3>1. CASE Head(inbox).ok
      <4>1. /\ DueIn = InAfter(call.kind, call.peer) /\ DueTrans = TransAfter(call.kind, call.peer)
            /\ DueProd = ProdAfter(call.kind, call.peer)
            /\ DueCons = ConsAfter(call.kind, call.peer, call.of)
            /\ DueFlow = FlowAfter(call.kind, call.peer, call.of)
        BY <2>1, <3>1 DEF Said, DueIn, DueTrans, DueProd, DueCons, DueFlow
      <4>2. Effect(call.kind, call.peer, call.of)
        BY <2>1, <3>1
      <4>3. /\ eIn' = DueIn /\ eTrans' = DueTrans /\ eProd' = DueProd
            /\ eCons' = DueCons /\ eFlow' = DueFlow
        BY <4>1, <4>2, EffectIsDue
      <4>4. /\ DueIn' = eIn' /\ DueTrans' = eTrans' /\ DueProd' = eProd'
            /\ DueCons' = eCons' /\ DueFlow' = eFlow'
        BY <2>2 DEF DueIn, DueTrans, DueProd, DueCons, DueFlow
      <4>. QED BY <4>3, <4>4 DEF dues
    <3>2. CASE ~Head(inbox).ok
      BY <1>2, <2>1, <2>2, <3>2 DEF Said
    <3>. QED BY <3>1, <3>2
  <2>4. OpsAreKnown'
    BY <1>0, <2>1, <2>2 DEF OpsAreKnown
  <2>. QED BY <1>1, <2>1, <2>3, <2>4
<1>8. CASE UNCHANGED vars
  <2>1. UNCHANGED <<pool, room, doubt, ops, inbox, call, eIn, eTrans, eProd, eCons, eFlow>>
    BY <1>8 DEF vars, backend, engine
  <2>2. Said' = Said
    BY <2>1 DEF Said
  <2>3. UNCHANGED dues
    BY <2>1, <2>2 DEF dues, DueIn, DueTrans, DueProd, DueCons, DueFlow, InAfter, TransAfter,
                      ProdAfter, ConsAfter, FlowAfter, Surviving
  <2>4. OpsAreKnown'
    BY <1>0, <2>1 DEF OpsAreKnown
  <2>. QED BY <1>1, <2>1, <2>3, <2>4
<1>. QED BY <1>3, <1>4, <1>5, <1>6, <1>7, <1>8 DEF Engine

\* The inductive invariant of what the two sides believe: what the engine will have
\* noted when it has read the reply on its way is what the backend has.
THEOREM BeliefsInvariant == Spec => []AgreeInv
<1>1. Init => AgreeInv
  <2>. SUFFICES ASSUME Init PROVE AgreeInv
    OBVIOUS
  <2>. USE BackendConstants, EngineConstants DEF Init
  <2>1. ~Said
    BY DEF Said
  <2>2. DueAgree
    BY <2>1 DEF DueAgree, DueIn, DueTrans, DueProd, DueCons, DueFlow
  <2>3. OpsAreKnown /\ \A o \in ops : MediaFits(o)
    BY DEF OpsAreKnown
  <2>4. RouterStays
    BY DEF RouterStays, RoomNeeded, RoomUsable
  <2>. QED BY <2>2, <2>3, <2>4 DEF AgreeInv
<1>2. PlaneInv /\ AgreeInv /\ [Next]_vars => AgreeInv'
  <2>. SUFFICES ASSUME PlaneInv, AgreeInv, [Next]_vars PROVE AgreeInv'
    OBVIOUS
  <2>. QED BY EngineAgrees, BackendAgrees DEF Next
<1>. QED BY <1>1, <1>2, PlaneInvariant, PTL DEF Spec

\* Between calls the engine's maps are right about every peer that no lost answer,
\* timeout, dead worker or closed transport concerns, whatever late operations of
\* others do meanwhile.
THEOREM MapsStayRight == Spec => []MapsAgree
<1>1. AgreeInv => MapsAgree
  <2>. SUFFICES ASSUME AgreeInv, call.state = "none"
                PROVE  /\ \A p \in Peers \ doubt : /\ p \in eIn <=> p \in bIn
                                                   /\ p \in eTrans <=> p \in bTrans
                                                   /\ p \in eProd <=> p \in bProd
                       /\ \A p, q \in Peers \ doubt :
                             LET c == <<p, q>> IN /\ c \in eCons => c \in bCons
                                                  /\ c \in bCons \ dying => c \in eCons
                                                  /\ c \in eCons => (c \in eFlow <=> c \in bFlow)
    BY DEF MapsAgree
  <2>1. ~Said
    BY DEF Said
  <2>. QED BY <2>1 DEF AgreeInv, DueAgree, DueIn, DueTrans, DueProd, DueCons, DueFlow
<1>. QED BY <1>1, BeliefsInvariant, PTL
=============================================================================
