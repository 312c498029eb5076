------------------------------ MODULE Gateway ------------------------------
(***************************************************************************)
(* The edge of the server: WebSocketServer, MediasoupSignalingGateway and  *)
(* the sign-in of a connection.                                            *)
(*                                                                         *)
(* The handlers of one connection run one at a time, on its strand; those  *)
(* of different connections run next to each other on the I/O threads.     *)
(* onConnected looks at the limit, lets go of the mutex and takes it again *)
(* to name the peer; onMessage signs in only after it has asked the token  *)
(* verifier and the database; and a closing connection leaves the server's *)
(* map, the gateway's and the store's one after the other.  Everything     *)
(* that is sent goes through one strand, which looks its receivers up when *)
(* its turn comes.                                                         *)
(***************************************************************************)
EXTENDS SessionAuthStore, Integers, Sequences, FiniteSets

CONSTANTS
    MaxConnections,   \* maxConcurrentConnections_
    IoThreads,        \* threads of NetIoContext
    MaxOut,           \* kMaxOutboundQueueMessages
    MaxSends,         \* bound: a handler starts while the send strand has fewer entries
    MaxPosted         \* bound: texts are posted to a strand with fewer entries

ASSUME GatewayConstants ==
    /\ MaxConnections \in Nat \ {0} /\ IoThreads \in Nat \ {0}
    /\ MaxOut \in Nat \ {0} /\ MaxSends \in Nat /\ MaxPosted \in Nat /\ IsFiniteSet(Sessions)

VARIABLES
    state,      \* state[s]: "none", "handshake", "open" or "closing"
    step,       \* step[s]: where the handler that runs on the connection's strand is
    who,        \* who[s]: the user a bind_session in progress is for
    posted,     \* posted[s]: what has been posted to the connection's strand
    out,        \* out[s]: the length of outQueue
    known,      \* the keys of WebSocketServer::sessions_
    s2p,        \* sessionToPeer_
    p2s,        \* peerToSession_
    sends       \* sendStrand_: each entry the session, or the peers, it is for

edge == <<state, step, who, posted, out, known>>
names == <<s2p, p2s>>
vars == <<store, edge, names, sends>>

Steps == {"idle", "checked", "verifying", "unregistered", "forgotten"}
Targets == [session : Sessions \cup {NoSession}, peers : SUBSET Peers]

\* Every variable holds a value of its kind; no connection's queue outgrows its limit.
TypeOK ==
    /\ StoreTypeOK
    /\ state \in [Sessions -> {"none", "handshake", "open", "closing"}]
    /\ step \in [Sessions -> Steps] /\ who \in [Sessions -> Users \cup {NoUser}]
    /\ posted \in [Sessions -> Seq({"text", "close"})] /\ out \in [Sessions -> 0..MaxOut]
    /\ known \in SUBSET Sessions
    /\ s2p \in [Sessions -> Peers \cup {NoPeer}] /\ p2s \in [Peers -> Sessions \cup {NoSession}]
    /\ sends \in Seq(Targets)

Init ==
    /\ StoreInit
    /\ state = [s \in Sessions |-> "none"] /\ step = [s \in Sessions |-> "idle"]
    /\ who = [s \in Sessions |-> NoUser]
    /\ posted = [s \in Sessions |-> <<>>] /\ out = [s \in Sessions |-> 0]
    /\ known = {}
    /\ s2p = [s \in Sessions |-> NoPeer] /\ p2s = [p \in Peers |-> NoSession]
    /\ sends = <<>>

Named == {s \in Sessions : s2p[s] # NoPeer}
Busy == {s \in Sessions : step[s] # "idle"}
AtCapacity_OneMore == Cardinality(Named) > MaxConnections
AtCapacity == Cardinality(Named) >= MaxConnections

\* A handler of the connection may start: a thread is free and none runs on its strand.
CanRun(s) == step[s] = "idle" /\ Cardinality(Busy) < IoThreads

Send(target) == sends' = Append(sends, target)
ToSession(s) == [session |-> s, peers |-> {}]
ToPeers(P) == [session |-> NoSession, peers |-> P]

-----------------------------------------------------------------------------
(* A connection is accepted                                                *)

\* A socket is taken from the acceptor: the handshakes of TLS and of the web socket begin.
Start(s) ==
    /\ state[s] = "none"
    /\ state' = [state EXCEPT ![s] = "handshake"]
    /\ UNCHANGED <<store, names, sends, step, who, posted, out, known>>

\* One of them fails, or the TLS handshake outlives its timer, which closes as well
\* as the handshake that fails of it.
HandshakeFails(s) ==
    /\ state[s] = "handshake" /\ posted[s] = <<>> /\ CanRun(s)
    /\ posted' = [posted EXCEPT ![s] = <<"close">>]
    /\ UNCHANGED <<store, names, sends, state, step, who, out, known>>

\* They are done: the session is registered, up to onConnected's look at the limit.
Accept(s) ==
    /\ state[s] = "handshake" /\ posted[s] = <<>> /\ CanRun(s) /\ Len(sends) < MaxSends
    /\ state' = [state EXCEPT ![s] = "open"] /\ known' = known \cup {s}
    /\ \/ /\ ~AtCapacity
          /\ step' = [step EXCEPT ![s] = "checked"] /\ UNCHANGED posted
       \/ /\ AtCapacity
          /\ posted' = [posted EXCEPT ![s] = <<"text", "close">>] /\ UNCHANGED step
    /\ UNCHANGED <<store, names, sends, who, out>>

\* resolveTrustedPeer draws a name nobody has, and peer_assigned is posted.
Assign(s, p) ==
    /\ step[s] = "checked" /\ p2s[p] = NoSession
    /\ s2p' = [s2p EXCEPT ![s] = p] /\ p2s' = [p2s EXCEPT ![p] = s]
    /\ Send(ToSession(s))
    /\ step' = [step EXCEPT ![s] = "idle"]
    /\ UNCHANGED <<store, state, who, posted, out, known>>

-----------------------------------------------------------------------------
(* A message                                                               *)

\* The read handler calls onMessage.  A connection that was refused reads nothing:
\* its close is the next thing on its strand.
Reads(s) == state[s] = "open" /\ s2p[s] # NoPeer /\ CanRun(s) /\ Len(sends) < MaxSends

\* bind_session and restore_session go off to the verifier and the database.
BindSession(s, u) ==
    /\ Reads(s)
    /\ step' = [step EXCEPT ![s] = "verifying"] /\ who' = [who EXCEPT ![s] = u]
    /\ UNCHANGED <<store, names, sends, state, posted, out, known>>

\* They come back: only then is the store told.  The reply carries the outcome.
SessionBound(s) ==
    /\ step[s] = "verifying"
    /\ Bind(s, s2p[s], who[s]) \/ UNCHANGED store
    /\ Send(ToSession(s))
    /\ step' = [step EXCEPT ![s] = "idle"] /\ who' = [who EXCEPT ![s] = NoUser]
    /\ UNCHANGED <<names, state, posted, out, known>>

Logout(s) ==
    /\ Reads(s) /\ Unbind(s) /\ Send(ToSession(s))
    /\ UNCHANGED <<edge, names>>

\* A message that is refused - unreadable, too frequent, or not signed in - is
\* answered and changes nothing.
Refuse(s) ==
    /\ Reads(s) /\ Send(ToSession(s))
    /\ UNCHANGED <<store, edge, names>>

\* requireAuthenticatedSession.
SignedIn(s) == byHandle[s] # NoBinding /\ byHandle[s].peer = s2p[s]

\* A feature is dispatched: a reply, and events for the peers of a user, as the
\* store knows them now.
Dispatch(s, u) ==
    /\ Reads(s) /\ SignedIn(s)
    /\ sends' = sends \o <<ToSession(s), ToPeers(userToPeers[u])>>
    /\ UNCHANGED <<store, edge, names>>

-----------------------------------------------------------------------------
(* Sending                                                                 *)

Receivers(target) ==
    known \cap ((IF target.session # NoSession THEN {target.session} ELSE {})
                  \cup {p2s[p] : p \in target.peers})

\* The send strand takes its next entry and posts the text to each receiver's strand.
Flush ==
    /\ sends # <<>> /\ Cardinality(Busy) < IoThreads
    /\ \A s \in Receivers(Head(sends)) : Len(posted[s]) < MaxPosted
    /\ sends' = Tail(sends)
    /\ posted' = [s \in Sessions |-> IF s \in Receivers(Head(sends))
                                     THEN Append(posted[s], "text") ELSE posted[s]]
    /\ UNCHANGED <<store, names, state, step, who, out, known>>

QueueFull_OneMore(s) == out[s] > MaxOut
QueueFull(s) == out[s] >= MaxOut

\* enqueueText on the connection's strand: a full queue closes the connection.
Enqueue(s) ==
    /\ CanRun(s) /\ posted[s] # <<>> /\ Head(posted[s]) = "text"
    /\ \/ /\ state[s] = "open" /\ ~QueueFull(s)
          /\ out' = [out EXCEPT ![s] = @ + 1]
          /\ posted' = [posted EXCEPT ![s] = Tail(@)]
       \/ /\ state[s] = "open" /\ QueueFull(s)
          /\ posted' = [posted EXCEPT ![s] = Append(Tail(@), "close")] /\ UNCHANGED out
       \/ /\ state[s] # "open"
          /\ posted' = [posted EXCEPT ![s] = Tail(@)] /\ UNCHANGED out
    /\ UNCHANGED <<store, names, sends, state, step, who, known>>

Written(s) ==
    /\ CanRun(s) /\ state[s] = "open" /\ out[s] > 0
    /\ out' = [out EXCEPT ![s] = @ - 1]
    /\ UNCHANGED <<store, names, sends, state, step, who, posted, known>>

-----------------------------------------------------------------------------
(* A connection ends                                                       *)

\* A read or a write fails: close() posts to the strand.
ConnectionFails(s) ==
    /\ CanRun(s) /\ state[s] = "open" /\ Len(posted[s]) <= MaxPosted
    /\ posted' = [posted EXCEPT ![s] = Append(@, "close")]
    /\ UNCHANGED <<store, names, sends, state, step, who, out, known>>

\* close() on the strand: the second one finds the connection closing, and nobody is
\* told of one that never opened.
Close(s) ==
    /\ CanRun(s) /\ posted[s] # <<>> /\ Head(posted[s]) = "close"
    /\ posted' = [posted EXCEPT ![s] = Tail(@)]
    /\ state' = [state EXCEPT ![s] = "closing"]
    /\ step' = [step EXCEPT ![s] = IF state[s] = "open" THEN "unregistered" ELSE "idle"]
    /\ known' = known \ {s} /\ out' = [out EXCEPT ![s] = 0]
    /\ UNCHANGED <<store, names, sends, who>>

WithoutName_StillTaken(s) == p2s
WithoutName(s) == [p \in Peers |-> IF p = s2p[s] THEN NoSession ELSE p2s[p]]

\* onDisconnected takes the session out of the gateway's maps.
Forget(s) ==
    /\ step[s] = "unregistered"
    /\ s2p' = [s2p EXCEPT ![s] = NoPeer]
    /\ p2s' = WithoutName(s)
    /\ step' = [step EXCEPT ![s] = "forgotten"]
    /\ UNCHANGED <<store, sends, state, who, posted, out, known>>

SignOut_ByName(s) == IF s \in Named THEN Unbind(s) ELSE UNCHANGED store
SignOut(s) == Unbind(s)

\* notifyFeatureSessionDisconnected marks the session in the database, takes it out
\* of the store and calls the features; what they have to say is sent to peers.
Disconnected(s) ==
    /\ step[s] = "forgotten"
    /\ SignOut(s)
    /\ \E P \in SUBSET {p \in Peers : p2s[p] # NoSession} : Send(ToPeers(P))
    /\ step' = [step EXCEPT ![s] = "idle"]
    /\ UNCHANGED <<names, state, who, posted, out, known>>

\* The object is freed once nothing is posted to it, and its address is free again.
Freed(s) ==
    /\ state[s] = "closing" /\ step[s] = "idle" /\ posted[s] = <<>>
    /\ state' = [state EXCEPT ![s] = "none"]
    /\ UNCHANGED <<store, names, sends, step, who, posted, out, known>>

-----------------------------------------------------------------------------
Connecting(s) == Start(s) \/ HandshakeFails(s) \/ Accept(s) \/ \E p \in Peers : Assign(s, p)
Messages(s) == \/ \E u \in Users : BindSession(s, u) \/ Dispatch(s, u)
               \/ SessionBound(s) \/ Logout(s) \/ Refuse(s)
Sending == Flush \/ \E s \in Sessions : Enqueue(s) \/ Written(s)
Closing(s) == ConnectionFails(s) \/ Close(s) \/ Forget(s) \/ Disconnected(s) \/ Freed(s)

Next == Sending \/ \E s \in Sessions : Connecting(s) \/ Messages(s) \/ Closing(s)

Spec == Init /\ [][Next]_vars

-----------------------------------------------------------------------------
(* Properties                                                              *)

\* onConnected checks the limit in one critical section and names the peer in
\* another, so the limit can be overrun - by as many connections as there are other
\* I/O threads, and never by more.
PeersWithinLimit == Cardinality(Named) <= MaxConnections + IoThreads - 1

\* The gateway's two maps are inverse to each other, and name only connections that
\* the server still has or is just taking out: no name is left behind by a connection
\* that was refused, closed twice or closed while its message was handled.
PeersAreConnections ==
    /\ \A s \in Sessions, p \in Peers : s2p[s] = p <=> p2s[p] = s
    /\ \A s \in Named : s \in known \/ step[s] = "unregistered"

\* Whoever is signed in is connected under the name of the sign-in, until the
\* connection's own end takes the sign-in along: a new connection at a reused address
\* starts signed out, and no late answer of the verifier signs in a closed one.
BindingsAreConnected ==
    \A s \in Sessions : byHandle[s] # NoBinding =>
        \/ s \in Named /\ byHandle[s].peer = s2p[s]
        \/ step[s] = "forgotten"
=============================================================================
