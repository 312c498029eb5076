----------------------------- MODULE MediaPlane -----------------------------
(***************************************************************************)
(* MediasoupSfuEngine in front of the mediasoup backend: what each of the  *)
(* two believes about one room, over a connection that may fail.           *)
(*                                                                         *)
(* The engine holds its mutex for a whole intent: one call at a time.  A   *)
(* call is sent, repeated up to MaxRetries times when the connection fails *)
(* and ended by the first reply that is read, whatever it answers: the id  *)
(* of a reply is never compared.  An intent that the engine refuses by     *)
(* itself changes nothing and is not an action.  A client names its own    *)
(* transport and its own track.                                            *)
(***************************************************************************)
EXTENDS MediaBackend

CONSTANTS
    MaxRetries,   \* MediaPolicy::backendMaxRetries
    Seated        \* peers that have joined and published a track at the start

ASSUME EngineConstants == MaxRetries \in Nat /\ Seated \subseteq Peers

\* They have joined one room, on one worker.
ASSUME SeatedFit == IsFiniteSet(Seated) /\ Cardinality(Seated) <= MaxPeersPerWorker

VARIABLES
    eRoom,     \* whether rooms_ has the room
    eIn,       \* rooms_[room].peers
    eTrans,    \* the peers with an entry in transports_
    eProd,     \* the peers with an entry in producers_
    eCons,     \* consumers_: pairs of the consuming and the producing peer
    eFlow,     \* those of them that are not paused
    call,      \* the call of callMediasoupBackendNoLock
    sent       \* the number of requests sent

engine == <<eRoom, eIn, eTrans, eProd, eCons, eFlow>>
vars == <<backend, engine, call, sent>>

Calls == [state : {"none", "ready", "waiting"}, kind : Kinds, peer : Peers \cup {NoPeer},
          of : Peers \cup {NoPeer}, attempt : 0..MaxRetries, n : 0..MaxRequests]

NoCall == [state |-> "none", kind |-> "create", peer |-> NoPeer, of |-> NoPeer, attempt |-> 0, n |-> 0]

\* Every variable holds a value of its kind, on both sides of the connection.
TypeOK ==
    /\ BackendTypeOK
    /\ eRoom \in BOOLEAN /\ eIn \subseteq Peers
    /\ eTrans \subseteq Peers /\ eProd \subseteq Peers
    /\ eCons \subseteq Peers \X Peers /\ eFlow \subseteq eCons
    /\ call \in Calls /\ sent \in 0..MaxRequests

Init ==
    /\ pool = 1..WorkerCount /\ serial = WorkerCount
    /\ mapped = IF Seated = {} THEN 0 ELSE 1
    /\ router = mapped
    /\ bIn = Seated /\ bTrans = Seated /\ bProd = Seated /\ bCons = {} /\ bFlow = {} /\ dying = {}
    /\ ops = {} /\ inbox = <<>> /\ doubt = {}
    /\ eRoom = (Seated # {}) /\ eIn = Seated /\ eTrans = Seated
    /\ eProd = Seated /\ eCons = {} /\ eFlow = {}
    /\ call = NoCall
    /\ sent = 0

-----------------------------------------------------------------------------
(* Intents                                                                 *)

\* A feature fills in the peer that asks: only to consume names somebody else's track.
Addressed(kind, p, q) == kind \notin {"consume", "resume"} => q = p

\* What the engine asks of its own maps before it calls the backend.
MayCall(kind, p, q) ==
    \/ kind = "create" /\ ~eRoom
    \/ kind = "join" /\ eRoom
    \/ kind = "leave" /\ p \in eIn
    \/ kind = "open" /\ p \in eIn /\ p \notin eTrans
    \/ kind = "publish" /\ p \in eTrans /\ p \notin eProd
    \/ kind = "closeTrack" /\ p \in eProd
    \/ kind = "consume" /\ p \in eTrans /\ q \in eProd \ {p}
    \/ kind = "resume" /\ <<p, q>> \in eCons

\* An intent is taken up, while there are requests left for all its attempts.
Start(kind, p, q) ==
    /\ call.state = "none" /\ Addressed(kind, p, q) /\ MayCall(kind, p, q)
    /\ sent + MaxRetries + 1 <= MaxRequests
    /\ call' = [state |-> "ready", kind |-> kind, peer |-> p, of |-> q, attempt |-> 0, n |-> 0]
    /\ UNCHANGED <<backend, engine, sent>>

\* One attempt: the engine is connected, or connects, and writes its request.
Send ==
    /\ call.state = "ready"
    /\ sent' = sent + 1
    /\ call' = [call EXCEPT !.state = "waiting", !.n = sent + 1]
    /\ ops' = ops \cup {[n |-> sent + 1, kind |-> call.kind, peer |-> call.peer,
                         of |-> call.of, stage |-> "queued", worker |-> 0, live |-> TRUE]}
    /\ UNCHANGED <<pool, serial, room, inbox, doubt, engine>>

\* The next attempt, or the end of the call.
RetryOrFail ==
    call' = IF call.attempt < MaxRetries
            THEN [call EXCEPT !.state = "ready", !.attempt = @ + 1, !.n = 0] ELSE NoCall

\* The connection cannot be made, or what answers does not call itself mediasoup.
ConnectFails ==
    /\ "io" \in Faults /\ call.state = "ready"
    /\ RetryOrFail
    /\ UNCHANGED <<backend, engine, sent>>

Abandoned_KeepsReplies ==
    /\ ops' = {o \in ops : o.stage # "queued"}
    /\ UNCHANGED inbox
\* disconnectNoLock, as the backend sees it: the socket's queue is dropped, what is
\* being handled has nobody to answer, and a reply on its way is lost.
Abandoned ==
    /\ ops' = {[o EXCEPT !.live = FALSE] : o \in {o \in ops : o.stage # "queued"}}
    /\ inbox' = <<>>

\* The request or its reply is lost with the connection.
IoFails ==
    /\ "io" \in Faults /\ call.state = "waiting"
    /\ Abandoned /\ RetryOrFail
    /\ doubt' = doubt \cup {call.peer}
    /\ UNCHANGED <<pool, serial, room, engine, sent>>

-----------------------------------------------------------------------------
(* Replies                                                                 *)

LeaveEffect_KeepsOwn(p) ==
    /\ eIn' = eIn \ {p} /\ eRoom' = (eIn \ {p} # {})
    /\ eTrans' = eTrans \ {p} /\ eProd' = eProd \ {p}
    /\ eCons' = {c \in eCons : c[2] # p} /\ eFlow' = {c \in eFlow : c[2] # p}
LeaveEffect_KeepsRoom(p) ==
    /\ eIn' = eIn \ {p} /\ eRoom' = eRoom
    /\ eTrans' = eTrans \ {p} /\ eProd' = eProd \ {p}
    /\ eCons' = {c \in eCons : p \notin {c[1], c[2]}}
    /\ eFlow' = {c \in eFlow : p \notin {c[1], c[2]}}
\* leaveSessionNoLock: clearPeerRuntimeNoLock, and the room when nobody is left.
LeaveEffect(p) ==
    /\ eIn' = eIn \ {p} /\ eRoom' = (eIn \ {p} # {})
    /\ eTrans' = eTrans \ {p} /\ eProd' = eProd \ {p}
    /\ eCons' = {c \in eCons : p \notin {c[1], c[2]}}
    /\ eFlow' = {c \in eFlow : p \notin {c[1], c[2]}}

\* What the engine writes down of each intent once the backend has said yes.
CreateEffect == eRoom' = TRUE /\ UNCHANGED <<eIn, eTrans, eProd, eCons, eFlow>>
JoinEffect(p) == eIn' = eIn \cup {p} /\ UNCHANGED <<eRoom, eTrans, eProd, eCons, eFlow>>
OpenEffect(p) == eTrans' = eTrans \cup {p} /\ UNCHANGED <<eRoom, eIn, eProd, eCons, eFlow>>
PublishEffect(p) == eProd' = eProd \cup {p} /\ UNCHANGED <<eRoom, eIn, eTrans, eCons, eFlow>>
CloseTrackEffect(p) ==
    /\ eProd' = eProd \ {p}
    /\ eCons' = {c \in eCons : c[2] # p} /\ eFlow' = {c \in eFlow : c[2] # p}
    /\ UNCHANGED <<eRoom, eIn, eTrans>>
ConsumeEffect(c) ==
    /\ eCons' = eCons \cup {c} /\ eFlow' = eFlow \ {c}
    /\ UNCHANGED <<eRoom, eIn, eTrans, eProd>>
ResumeEffect(c) == eFlow' = eFlow \cup {c} /\ UNCHANGED <<eRoom, eIn, eTrans, eProd, eCons>>

Effect(kind, p, q) ==
    \/ kind = "create" /\ CreateEffect
    \/ kind = "join" /\ JoinEffect(p)
    \/ kind = "leave" /\ LeaveEffect(p)
    \/ kind = "open" /\ OpenEffect(p)
    \/ kind = "publish" /\ PublishEffect(p)
    \/ kind = "closeTrack" /\ CloseTrackEffect(p)
    \/ kind = "consume" /\ ConsumeEffect(<<p, q>>)
    \/ kind = "resume" /\ ResumeEffect(<<p, q>>)

\* A reply ends the call.  A refusal is not repeated; if an earlier attempt was
\* lost it may be a refusal of what that attempt had done.
Receive ==
    /\ call.state = "waiting" /\ inbox # <<>>
    /\ inbox' = Tail(inbox) /\ call' = NoCall
    /\ \/ Head(inbox).ok /\ Effect(call.kind, call.peer, call.of)
       \/ ~Head(inbox).ok /\ UNCHANGED engine
    /\ UNCHANGED <<pool, serial, room, ops, doubt, sent>>

Engine == \/ \E kind \in Kinds, p, q \in Peers : Start(kind, p, q)
          \/ Send \/ ConnectFails \/ IoFails \/ Receive

Next == Engine \/ (Backend /\ UNCHANGED <<engine, call, sent>>)

Spec == Init /\ [][Next]_vars

-----------------------------------------------------------------------------
(* Fairness: the backend's event loop takes a message that has arrived, and *)
(* its timer answers for an operation that mediasoup never finishes; the    *)
(* thread in the engine goes on.  Nothing is assumed of mediasoup itself.   *)

Fairness == /\ WF_vars(Send) /\ WF_vars(Receive)
            /\ WF_vars(\E o \in ops : Serve(o) /\ UNCHANGED <<engine, call, sent>>)
            /\ WF_vars(\E o \in ops : OperationTimeout(o) /\ UNCHANGED <<engine, call, sent>>)
FairSpec == Spec /\ Fairness

-----------------------------------------------------------------------------
(* Properties                                                              *)

\* callMediasoupBackendNoLock takes the next message on its socket for the answer
\* without comparing ids.  It is right to: a reply that can be read answers the
\* request that waits, because every failure closes the socket.
ReplyAnswersRequest ==
    inbox # <<>> => /\ call.state = "waiting" /\ Len(inbox) = 1
                    /\ Head(inbox).n = call.n

\* Between calls the engine's maps and the backend's agree about every peer that
\* no lost answer, operation timeout, dead worker or closed transport concerns,
\* but for consumers whose 'producerclose' the backend has yet to see.
MapsAgree ==
    call.state = "none" =>
      /\ \A p \in Peers \ doubt : /\ p \in eIn <=> p \in bIn
                                  /\ p \in eTrans <=> p \in bTrans
                                  /\ p \in eProd <=> p \in bProd
      /\ \A c \in (Peers \ doubt) \X (Peers \ doubt) :
            /\ c \in eCons => c \in bCons
            /\ c \in bCons \ dying => c \in eCons
            /\ c \in eCons => (c \in eFlow <=> c \in bFlow)

\* However calls fail: nobody has a transport without being in the room, a track
\* without a transport, or a consumer without a transport and a track to consume.
EngineTracksAreOwned ==
    /\ ~eRoom => eIn = {}
    /\ eTrans \subseteq eIn /\ eProd \subseteq eTrans
    /\ eCons \subseteq eTrans \X eProd

\* The engine's maps as SfuRooms sees them.
Sfu == INSTANCE SfuRooms WITH
         Rooms <- {"room"}, NoRoom <- "none", BackendFaults <- TRUE,
         rooms <- IF eRoom THEN {"room"} ELSE {},
         members <- [r \in {"room"} |-> eIn],
         roomOf <- [p \in Peers |-> IF p \in eIn THEN "room" ELSE "none"]

\* Calls and conferences take an intent for one step that happens or does not
\* (SfuRooms).  So it is for them: whatever becomes of requests, retries and late
\* operations, rooms and members only change as that module says.
ImplementsRooms ==
    [][\/ Sfu!EngineCreate("room")
       \/ \E p \in Peers : Sfu!EngineJoin(p, "room") \/ Sfu!EngineLeave(p, "room")]_Sfu!sfu

\* ensureWorkerPeerCapacityForJoin runs before and after the router's await: joins
\* that overlap do not fill the worker of a room beyond MAX_PEERS_PER_WORKER while it
\* lives.  (A join that finds the room's worker dead is not limited.)
WorkerLoadWithinLimit == mapped \in pool => Cardinality(bIn) <= MaxPeersPerWorker

\* The engine's mutex is held for a call: whatever mediasoup does, the call ends.
EveryCallEnds == call.state # "none" ~> call.state = "none"
=============================================================================
