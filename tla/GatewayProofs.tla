---------------------------- MODULE GatewayProofs ----------------------------
(***************************************************************************)
(* Proofs about Gateway, for every number of connections, names, users and *)
(* threads: the auth store's indexes agree, the maps of the server, the    *)
(* gateway and the store agree, and the connection limit is overrun by     *)
(* less than the number of threads.                                        *)
(***************************************************************************)
EXTENDS Gateway, FiniteSetTheorems, TLAPS

-----------------------------------------------------------------------------
(* The auth store                                                          *)

\* The sessions that bind or unbind let go of, and what is left when they are gone.
LEMMA BindKeepsStore ==
    ASSUME StoreTypeOK, IndexesAgree, NEW s \in Sessions, NEW p \in Peers, NEW u \in Users,
           Bind(s, p, u)
    PROVE  StoreTypeOK' /\ IndexesAgree'
<1> DEFINE gone == Removed(s, p)
<1>. USE StoreConstants
<1>0. byHandle \in [Sessions -> Bindings \cup {NoBinding}]
  BY DEF StoreTypeOK
<1>1. /\ gone \subseteq Sessions
      /\ \A t \in gone : byHandle[t] \in Bindings
      /\ \A t \in Sessions \ gone : (byHandle[t].peer # p /\ t # s) \/ byHandle[t] = NoBinding
  BY <1>0 DEF Removed, IndexesAgree, Bindings, NoBinding
<1>2. /\ byHandle' = [t \in Sessions |-> IF t = s THEN [peer |-> p, user |-> u]
                                       ELSE IF t \in gone THEN NoBinding ELSE byHandle[t]]
      /\ peerToHandle' = [q \in Peers |-> IF q = p THEN s
                                        ELSE IF q \in PeersIn(gone) THEN NoSession
                                        ELSE peerToHandle[q]]
      /\ userToHandles' = [v \in Users |-> (userToHandles[v] \ SessionsOf(gone, v))
                                           \cup (IF v = u THEN {s} ELSE {})]
      /\ userToPeers' = [v \in Users |-> (userToPeers[v] \ PeersIn(SessionsOf(gone, v)))
                                         \cup (IF v = u THEN {p} ELSE {})]
  BY DEF Bind
<1>. HIDE DEF gone
<1>3. StoreTypeOK'
  <2>1. byHandle' \in [Sessions -> Bindings \cup {NoBinding}]
    BY <1>0, <1>2 DEF Bindings
  <2>2. peerToHandle' \in [Peers -> Sessions \cup {NoSession}]
    BY <1>2 DEF StoreTypeOK
  <2>3. userToHandles' \in [Users -> SUBSET Sessions]
    BY <1>2 DEF StoreTypeOK
  <2>4. userToPeers' \in [Users -> SUBSET Peers]
    BY <1>2 DEF StoreTypeOK
  <2>. QED BY <2>1, <2>2, <2>3, <2>4 DEF StoreTypeOK
<1>4. \A q \in Peers, t \in Sessions : peerToHandle'[q] = t <=> byHandle'[t].peer = q
  <2>. SUFFICES ASSUME NEW q \in Peers, NEW t \in Sessions
                PROVE  peerToHandle'[q] = t <=> byHandle'[t].peer = q
    OBVIOUS
  <2>1. peerToHandle[q] = t <=> byHandle[t].peer = q
    BY DEF IndexesAgree
  <2>2. q \in PeersIn(gone) <=> \E r \in gone : byHandle[r].peer = q
    BY DEF PeersIn
  <2>3. NoSession # t /\ NoBinding.peer # q
    BY DEF NoBinding
  <2>4. CASE t = s
    BY <1>1, <1>2, <2>1, <2>2, <2>3, <2>4
  <2>5. CASE t # s /\ q = p
    BY <1>1, <1>2, <2>1, <2>2, <2>3, <2>5
  <2>6. CASE t # s /\ q # p
    <3>1. q \in PeersIn(gone) /\ peerToHandle[q] = t => t \in gone
      BY <1>1, <2>2 DEF IndexesAgree
    <3>2. t \in gone /\ byHandle[t].peer = q => q \in PeersIn(gone)
      BY <2>2
    <3>. QED BY <1>1, <1>2, <2>1, <2>3, <2>6, <3>1, <3>2
  <2>. QED BY <2>4, <2>5, <2>6
<1>5. \A v \in Users : userToHandles'[v] = {t \in Sessions : byHandle'[t].user = v}
  <2>. SUFFICES ASSUME NEW v \in Users
                PROVE  userToHandles'[v] = {t \in Sessions : byHandle'[t].user = v}
    OBVIOUS
  <2>1. userToHandles[v] = {t \in Sessions : byHandle[t].user = v}
    BY DEF IndexesAgree
  <2>2. NoBinding.user # v
    BY DEF NoBinding
  <2>3. s \in gone \/ byHandle[s] = NoBinding
    BY <1>1
  <2>4. userToHandles'[v] = ({t \in Sessions : byHandle[t].user = v} \ {t \in gone : byHandle[t].user = v})
                               \cup (IF v = u THEN {s} ELSE {})
    BY <1>2, <2>1 DEF SessionsOf
  <2>. QED BY <1>1, <1>2, <2>2, <2>3, <2>4
<1>6. \A v \in Users : userToPeers'[v] = {byHandle'[t].peer : t \in userToHandles'[v]}
  <2>. SUFFICES ASSUME NEW v \in Users
                PROVE  userToPeers'[v] = {byHandle'[t].peer : t \in userToHandles'[v]}
    OBVIOUS
  <2> DEFINE mine == {t \in Sessions : byHandle[t].user = v}
  <2>1. userToPeers[v] = {byHandle[t].peer : t \in mine}
    BY DEF IndexesAgree
  <2>2. PeersIn(SessionsOf(gone, v)) = {byHandle[t].peer : t \in {t \in gone : byHandle[t].user = v}}
    BY DEF PeersIn, SessionsOf
  <2>3. \A t, r \in mine : byHandle[t].peer = byHandle[r].peer => t = r
    <3>1. \A t \in mine : byHandle[t].peer \in Peers
      BY <1>0 DEF Bindings, NoBinding
    <3>. QED BY <3>1 DEF IndexesAgree
  <2>4. userToPeers[v] \ PeersIn(SessionsOf(gone, v)) = {byHandle[t].peer : t \in mine \ gone}
    BY <2>1, <2>2, <2>3, <1>1
  <2>5. userToHandles'[v] = (mine \ gone) \cup (IF v = u THEN {s} ELSE {})
    <3>1. userToHandles[v] = mine
      BY DEF IndexesAgree
    <3>. QED BY <1>2, <3>1, <1>1 DEF SessionsOf
  <2>6. \A t \in mine \ gone : t # s /\ byHandle'[t].peer = byHandle[t].peer
    <3>1. NoBinding.user # v
      BY DEF NoBinding
    <3>. QED BY <1>1, <1>2, <3>1
  <2>7. byHandle'[s].peer = p
    BY <1>2
  <2>8. userToPeers'[v] = {byHandle[t].peer : t \in mine \ gone} \cup (IF v = u THEN {p} ELSE {})
    BY <1>2, <2>4
  <2>. HIDE DEF mine
  <2>. QED BY <2>5, <2>6, <2>7, <2>8
<1>. QED BY <1>3, <1>4, <1>5, <1>6 DEF IndexesAgree

LEMMA UnbindKeepsStore ==
    ASSUME StoreTypeOK, IndexesAgree, NEW s \in Sessions, Unbind(s)
    PROVE  StoreTypeOK' /\ IndexesAgree'
<1>. USE StoreConstants
<1>0. byHandle \in [Sessions -> Bindings \cup {NoBinding}]
  BY DEF StoreTypeOK
<1>1. CASE byHandle[s] = NoBinding
  <2>1. {t \in {s} : byHandle[t] # NoBinding} = {}
    BY <1>1
  <2>2. UNCHANGED store
    BY <1>0, <1>1, <2>1 DEF Unbind, PeersIn, SessionsOf, store, StoreTypeOK
  <2>. QED BY <2>2 DEF store, StoreTypeOK, IndexesAgree
<1>2. CASE byHandle[s] # NoBinding
  <2> DEFINE p == byHandle[s].peer
             u == byHandle[s].user
  <2>1. p \in Peers /\ u \in Users
    BY <1>0, <1>2 DEF Bindings
  <2>2. {t \in {s} : byHandle[t] # NoBinding} = {s}
    BY <1>2
  <2>3. PeersIn({s}) = {p} /\ \A v \in Users : SessionsOf({s}, v) = IF v = u THEN {s} ELSE {}
    BY DEF PeersIn, SessionsOf
  <2>4. \A v \in Users : PeersIn(SessionsOf({s}, v)) = IF v = u THEN {p} ELSE {}
    BY <2>3 DEF PeersIn
  <2>5. /\ byHandle' = [byHandle EXCEPT ![s] = NoBinding]
        /\ peerToHandle' = [q \in Peers |-> IF q = p THEN NoSession ELSE peerToHandle[q]]
        /\ userToHandles' = [v \in Users |-> userToHandles[v] \ (IF v = u THEN {s} ELSE {})]
        /\ userToPeers' = [v \in Users |-> userToPeers[v] \ (IF v = u THEN {p} ELSE {})]
    BY <2>2, <2>3, <2>4 DEF Unbind
  <2>6. StoreTypeOK'
    BY <1>0, <2>5 DEF StoreTypeOK
  <2>7. \A q \in Peers, t \in Sessions : peerToHandle'[q] = t <=> byHandle'[t].peer = q
    <3>1. NoBinding.peer \notin Peers
      BY DEF NoBinding
    <3>. QED BY <1>0, <2>1, <2>5, <3>1 DEF IndexesAgree
  <2>8. \A v \in Users : userToHandles'[v] = {t \in Sessions : byHandle'[t].user = v}
    <3>1. NoBinding.user \notin Users
      BY DEF NoBinding
    <3>. QED BY <1>0, <2>1, <2>5, <3>1 DEF IndexesAgree
  <2>9. \A v \in Users : userToPeers'[v] = {byHandle'[t].peer : t \in userToHandles'[v]}
    <3>. SUFFICES ASSUME NEW v \in Users
                  PROVE  userToPeers'[v] = {byHandle'[t].peer : t \in userToHandles'[v]}
      OBVIOUS
    <3> DEFINE mine == {t \in Sessions : byHandle[t].user = v}
    <3>1. userToPeers[v] = {byHandle[t].peer : t \in mine} /\ userToHandles[v] = mine
      BY DEF IndexesAgree
    <3>2. \A t \in mine : byHandle[t].peer = p => t = s
      BY <2>1 DEF IndexesAgree
    <3>3. s \in mine <=> v = u
      OBVIOUS
    <3>4. \A t \in mine \ {s} : byHandle'[t].peer = byHandle[t].peer
      BY <1>0, <2>5
    <3>. HIDE DEF mine
    <3>. QED BY <2>5, <3>1, <3>2, <3>3, <3>4
  <2>. QED BY <2>6, <2>7, <2>8, <2>9 DEF IndexesAgree
<1>. QED BY <1>1, <1>2

\* What a step does to the store is a bind, an unbind, or nothing.
LEMMA StoreSteps ==
    ASSUME TypeOK, IndexesAgree, [Next]_vars,
           \A s \in Sessions : step[s] = "verifying" => s2p[s] \in Peers /\ who[s] \in Users
    PROVE  StoreTypeOK' /\ IndexesAgree'
<1>0. StoreTypeOK
  BY DEF TypeOK
<1>1. ASSUME NEW s \in Sessions, SessionBound(s) PROVE StoreTypeOK' /\ IndexesAgree'
  <2>1. CASE Bind(s, s2p[s], who[s])
    BY <1>0, <1>1, <2>1, BindKeepsStore DEF SessionBound
  <2>2. CASE UNCHANGED store
    BY <1>0, <2>2 DEF store, StoreTypeOK, IndexesAgree
  <2>. QED BY <1>1, <2>1, <2>2 DEF SessionBound
<1>2. ASSUME NEW s \in Sessions, Logout(s) \/ Disconnected(s) PROVE StoreTypeOK' /\ IndexesAgree'
  BY <1>0, <1>2, UnbindKeepsStore DEF Logout, Disconnected, SignOut
<1>3. ASSUME UNCHANGED store PROVE StoreTypeOK' /\ IndexesAgree'
  BY <1>0, <1>3 DEF store, StoreTypeOK, IndexesAgree
<1>4. CASE Sending
  BY <1>3, <1>4 DEF Sending, Flush, Enqueue, Written
<1>5. ASSUME NEW s \in Sessions, Connecting(s) PROVE UNCHANGED store
  BY <1>5 DEF Connecting, Start, HandshakeFails, Accept, Assign
<1>6. ASSUME NEW s \in Sessions, Messages(s) PROVE StoreTypeOK' /\ IndexesAgree'
  BY <1>1, <1>2, <1>3, <1>6 DEF Messages, BindSession, Dispatch, Refuse
<1>7. ASSUME NEW s \in Sessions, Closing(s) PROVE StoreTypeOK' /\ IndexesAgree'
  BY <1>2, <1>3, <1>7 DEF Closing, ConnectionFails, Close, Forget, Freed
<1>8. CASE UNCHANGED vars
  BY <1>3, <1>8 DEF vars
<1>. QED BY <1>3, <1>4, <1>5, <1>6, <1>7, <1>8 DEF Next

-----------------------------------------------------------------------------
(* Types                                                                   *)

LEMMA TypesAtStart == Init => TypeOK
<1>. SUFFICES ASSUME Init PROVE TypeOK
  OBVIOUS
<1>1. StoreTypeOK
  BY DEF Init, StoreInit, StoreTypeOK
<1>2. sends \in Seq(Targets) /\ \A s \in Sessions : posted[s] \in Seq({"text", "close"})
  BY DEF Init
<1>3. out \in [Sessions -> 0..MaxOut]
  BY GatewayConstants DEF Init
<1>. QED BY <1>1, <1>2, <1>3 DEF Init, TypeOK, Steps

\* Every action writes values of the right kind.
LEMMA TypesAreKept ==
    ASSUME TypeOK, StoreTypeOK', [Next]_vars
    PROVE  TypeOK'
<1>. USE StoreConstants, GatewayConstants DEF TypeOK, Steps
<1>1. \A s \in Sessions : ToSession(s) \in Targets
  BY DEF ToSession, Targets
<1>2. \A P \in SUBSET Peers : ToPeers(P) \in Targets
  BY DEF ToPeers, Targets
<1>3. \A target \in Targets : Send(target) => sends' \in Seq(Targets)
  BY DEF Send
<1>4. \A s \in Sessions : posted[s] # <<>> => Tail(posted[s]) \in Seq({"text", "close"})
  OBVIOUS
<1>5. \A s \in Sessions : /\ Append(posted[s], "text") \in Seq({"text", "close"})
                          /\ Append(posted[s], "close") \in Seq({"text", "close"})
  OBVIOUS
<1>6. <<"text", "close">> \in Seq({"text", "close"}) /\ <<"close">> \in Seq({"text", "close"})
  OBVIOUS
<1>7. CASE Flush
  <2>1. sends' \in Seq(Targets)
    BY <1>7 DEF Flush
  <2>2. posted' \in [Sessions -> Seq({"text", "close"})]
    BY <1>7, <1>5 DEF Flush
  <2>. QED BY <1>7, <2>1, <2>2 DEF Flush, names
<1>8. ASSUME NEW s \in Sessions, Enqueue(s) \/ Written(s) PROVE TypeOK'
  <2>1. CASE Enqueue(s)
    <3>1. out' \in [Sessions -> 0..MaxOut]
      <4>1. out[s] \in 0..MaxOut /\ MaxOut \in Nat
        OBVIOUS
      <4>2. ~(out[s] >= MaxOut) => out[s] + 1 \in 0..MaxOut
        BY <4>1
      <4>3. out' = out \/ (~(out[s] >= MaxOut) /\ out' = [out EXCEPT ![s] = @ + 1])
        BY <2>1 DEF Enqueue, QueueFull
      <4>. QED BY <4>2, <4>3
    <3>2. posted' \in [Sessions -> Seq({"text", "close"})]
      <4>1. Append(Tail(posted[s]), "close") \in Seq({"text", "close"})
        BY <2>1, <1>4 DEF Enqueue
      <4>. QED BY <2>1, <1>4, <4>1 DEF Enqueue
    <3>. QED BY <2>1, <3>1, <3>2 DEF Enqueue, names
  <2>2. CASE Written(s)
    BY <2>2 DEF Written, names
  <2>. QED BY <1>8, <2>1, <2>2
<1>9. ASSUME NEW s \in Sessions, Connecting(s) PROVE TypeOK'
  <2>1. CASE Start(s)
    BY <2>1 DEF Start, names
  <2>2. CASE HandshakeFails(s)
    BY <2>2, <1>6 DEF HandshakeFails, names
  <2>3. CASE Accept(s)
    <3>1. posted' = posted \/ posted' = [posted EXCEPT ![s] = <<"text", "close">>]
      BY <2>3 DEF Accept
    <3>2. posted' \in [Sessions -> Seq({"text", "close"})]
      BY <1>6, <3>1
    <3>3. step' = step \/ step' = [step EXCEPT ![s] = "checked"]
      BY <2>3 DEF Accept
    <3>4. step' \in [Sessions -> Steps]
      BY <3>3
    <3>. QED BY <2>3, <3>2, <3>4 DEF Accept, names
  <2>4. ASSUME NEW p \in Peers, Assign(s, p) PROVE TypeOK'
    <3>1. sends' \in Seq(Targets)
      BY <2>4, <1>1, <1>3 DEF Assign
    <3>. QED BY <2>4, <3>1 DEF Assign
  <2>. QED BY <1>9, <2>1, <2>2, <2>3, <2>4 DEF Connecting
<1>10. ASSUME NEW s \in Sessions, Messages(s) PROVE TypeOK'
  <2>1. ASSUME NEW u \in Users, BindSession(s, u) PROVE TypeOK'
    BY <2>1 DEF BindSession, names
  <2>2. ASSUME NEW u \in Users, Dispatch(s, u) PROVE TypeOK'
    <3>1. userToPeers[u] \in SUBSET Peers
      BY DEF StoreTypeOK
    <3>2. <<ToSession(s), ToPeers(userToPeers[u])>> \in Seq(Targets)
      BY <1>1, <1>2, <3>1
    <3>3. sends' \in Seq(Targets)
      BY <2>2, <3>2 DEF Dispatch
    <3>. QED BY <2>2, <3>3 DEF Dispatch, edge, names
  <2>3. CASE SessionBound(s)
    <3>1. sends' \in Seq(Targets)
      BY <2>3, <1>1, <1>3 DEF SessionBound
    <3>. QED BY <2>3, <3>1 DEF SessionBound, names
  <2>4. CASE Logout(s) \/ Refuse(s)
    <3>1. sends' \in Seq(Targets)
      BY <2>4, <1>1, <1>3 DEF Logout, Refuse
    <3>. QED BY <2>4, <3>1 DEF Logout, Refuse, edge, names
  <2>. QED BY <1>10, <2>1, <2>2, <2>3, <2>4 DEF Messages
<1>11. ASSUME NEW s \in Sessions, Closing(s) PROVE TypeOK'
  <2>1. CASE ConnectionFails(s)
    BY <2>1, <1>5 DEF ConnectionFails, names
  <2>2. CASE Close(s)
    BY <2>2, <1>4 DEF Close, names
  <2>3. CASE Forget(s)
    BY <2>3 DEF Forget, WithoutName
  <2>4. CASE Disconnected(s)
    <3>1. sends' \in Seq(Targets)
      BY <2>4, <1>2, <1>3 DEF Disconnected
    <3>. QED BY <2>4, <3>1 DEF Disconnected, names
  <2>5. CASE Freed(s)
    BY <2>5 DEF Freed, names
  <2>. QED BY <1>11, <2>1, <2>2, <2>3, <2>4, <2>5 DEF Closing
<1>12. CASE UNCHANGED vars
  BY <1>12 DEF vars, edge, names
<1>. QED BY <1>7, <1>8, <1>9, <1>10, <1>11, <1>12 DEF Next, Sending

-----------------------------------------------------------------------------
(* Connections, names and sign-ins                                         *)

\* Where a connection can be: what its handler has in hand fits the maps.
StepsFit ==
    \A s \in Sessions :
      /\ s \in known => state[s] = "open"
      /\ step[s] \in {"checked", "verifying"} => s \in known
      /\ step[s] = "checked" => s2p[s] = NoPeer
      /\ step[s] = "verifying" => s2p[s] \in Peers /\ who[s] \in Users

EdgeInv == TypeOK /\ IndexesAgree /\ PeersAreConnections /\ BindingsAreConnected /\ StepsFit

\* Only the connection itself, and who is signed in under its name, are touched by
\* what its handlers do to the maps.
LEMMA EdgeStep ==
    ASSUME EdgeInv, TypeOK', [Next]_vars
    PROVE  PeersAreConnections' /\ BindingsAreConnected' /\ StepsFit'
<1>. USE StoreConstants, GatewayConstants
           DEF EdgeInv, PeersAreConnections, BindingsAreConnected, StepsFit, Named, NoBinding
<1>0. TypeOK
  OBVIOUS
<1>1. CASE Sending
  BY <1>1 DEF Sending, Flush, Enqueue, Written, names, store
<1>2. ASSUME NEW s \in Sessions, Connecting(s)
      PROVE  PeersAreConnections' /\ BindingsAreConnected' /\ StepsFit'
  <2>1. CASE Start(s) \/ HandshakeFails(s)
    BY <1>0, <2>1 DEF Start, HandshakeFails, names, store, TypeOK
  <2>2. CASE Accept(s)
    BY <1>0, <2>2 DEF Accept, CanRun, names, store, TypeOK
  <2>3. ASSUME NEW p \in Peers, Assign(s, p)
        PROVE  PeersAreConnections' /\ BindingsAreConnected' /\ StepsFit'
    BY <1>0, <2>3 DEF Assign, store, TypeOK
  <2>. QED BY <1>2, <2>1, <2>2, <2>3 DEF Connecting
<1>3. ASSUME NEW s \in Sessions, Messages(s)
      PROVE  PeersAreConnections' /\ BindingsAreConnected' /\ StepsFit'
  <2>1. ASSUME NEW u \in Users, BindSession(s, u)
        PROVE  PeersAreConnections' /\ BindingsAreConnected' /\ StepsFit'
    BY <1>0, <2>1 DEF BindSession, Reads, CanRun, names, store, TypeOK
  <2>2. CASE Refuse(s) \/ \E u \in Users : Dispatch(s, u)
    <3>1. UNCHANGED <<store, edge, names>>
      BY <2>2 DEF Refuse, Dispatch
    <3>. QED BY <3>1 DEF edge, names, store
  <2>3. CASE SessionBound(s)
    <3>1. /\ UNCHANGED <<names, state, known>>
          /\ step' = [step EXCEPT ![s] = "idle"] /\ who' = [who EXCEPT ![s] = NoUser]
      BY <2>3 DEF SessionBound
    <3>2. step[s] = "verifying" /\ s \in known /\ s \in Named
      BY <2>3 DEF SessionBound
    <3>3. PeersAreConnections' /\ StepsFit'
      BY <1>0, <3>1, <3>2 DEF names, TypeOK
    <3>4. /\ s \in Named /\ byHandle'[s] # NoBinding => byHandle'[s].peer = s2p[s]
          /\ \A t \in Sessions \ {s} : byHandle'[t] \in {byHandle[t], NoBinding}
      BY <1>0, <2>3, <3>2 DEF SessionBound, Bind, store, TypeOK, StoreTypeOK
    <3>5. BindingsAreConnected'
      <4>. SUFFICES ASSUME NEW t \in Sessions, byHandle'[t] # NoBinding
                    PROVE  (t \in Named' /\ byHandle'[t].peer = s2p'[t]) \/ step'[t] = "forgotten"
        OBVIOUS
      <4>1. CASE t = s
        BY <3>1, <3>2, <3>4, <4>1 DEF names
      <4>2. CASE t # s
        <5>1. byHandle'[t] = byHandle[t] /\ step'[t] = step[t] /\ s2p' = s2p
          BY <1>0, <3>1, <3>4, <4>2 DEF names, TypeOK
        <5>. QED BY <5>1
      <4>. QED BY <4>1, <4>2
    <3>. QED BY <3>3, <3>5
  <2>4. CASE Logout(s)
    BY <1>0, <2>4 DEF Logout, Unbind, edge, names, TypeOK, StoreTypeOK
  <2>. QED BY <1>3, <2>1, <2>2, <2>3, <2>4 DEF Messages
<1>4. ASSUME NEW s \in Sessions, Closing(s)
      PROVE  PeersAreConnections' /\ BindingsAreConnected' /\ StepsFit'
  <2>1. CASE ConnectionFails(s) \/ Freed(s)
    BY <1>0, <2>1 DEF ConnectionFails, Freed, names, store, TypeOK
  <2>2. CASE Close(s)
    BY <1>0, <2>2 DEF Close, CanRun, names, store, TypeOK
  <2>3. CASE Forget(s)
    BY <1>0, <2>3 DEF Forget, WithoutName, store, TypeOK
  <2>4. CASE Disconnected(s)
    BY <1>0, <2>4 DEF Disconnected, SignOut, Unbind, names, TypeOK, StoreTypeOK
  <2>. QED BY <1>4, <2>1, <2>2, <2>3, <2>4 DEF Closing
<1>5. CASE UNCHANGED vars
  BY <1>5 DEF vars, edge, names, store
<1>. QED BY <1>1, <1>2, <1>3, <1>4, <1>5 DEF Next

LEMMA EdgeInvariant == Spec => []EdgeInv
<1>1. Init => EdgeInv
  <2>. SUFFICES ASSUME Init PROVE EdgeInv
    OBVIOUS
  <2>1. TypeOK
    BY TypesAtStart
  <2>2. IndexesAgree
    BY StoreConstants DEF Init, StoreInit, IndexesAgree, NoBinding
  <2>3. PeersAreConnections /\ BindingsAreConnected /\ StepsFit
    BY StoreConstants DEF Init, StoreInit, PeersAreConnections, BindingsAreConnected, StepsFit, Named
  <2>. QED BY <2>1, <2>2, <2>3 DEF EdgeInv
<1>2. EdgeInv /\ [Next]_vars => EdgeInv'
  <2>. SUFFICES ASSUME EdgeInv, [Next]_vars PROVE EdgeInv'
    OBVIOUS
  <2>1. StoreTypeOK' /\ IndexesAgree'
    BY StoreSteps DEF EdgeInv, StepsFit
  <2>2. TypeOK'
    BY <2>1, TypesAreKept DEF EdgeInv
  <2>. QED BY <2>1, <2>2, EdgeStep DEF EdgeInv
<1>. QED BY <1>1, <1>2, PTL DEF Spec

\* Every variable keeps a value of its kind, and no connection's queue of texts
\* outgrows its limit, whatever is sent to whom and however connections end.
THEOREM TypeCorrect == Spec => []TypeOK
<1>1. EdgeInv => TypeOK
  BY DEF EdgeInv
<1>. QED BY <1>1, EdgeInvariant, PTL

\* The indexes of the auth store agree, for sessions that are bound again, taken over
\* under a name that was drawn twice and unbound in any order.
THEOREM StoreIndexesAgree == Spec => []IndexesAgree
<1>1. EdgeInv => IndexesAgree
  BY DEF EdgeInv
<1>. QED BY <1>1, EdgeInvariant, PTL

\* The gateway's maps are inverse to each other and name only connections the server
\* has or is taking out.
THEOREM NamesAreConnections == Spec => []PeersAreConnections
<1>1. EdgeInv => PeersAreConnections
  BY DEF EdgeInv
<1>. QED BY <1>1, EdgeInvariant, PTL

\* A sign-in lives on a connection that has its name, or is about to be taken along
\* by the end of that connection.
THEOREM SignInsAreConnected == Spec => []BindingsAreConnected
<1>1. EdgeInv => BindingsAreConnected
  BY DEF EdgeInv
<1>. QED BY <1>1, EdgeInvariant, PTL

-----------------------------------------------------------------------------
(* The connection limit                                                    *)

\* Connections that onConnected has let through but not named yet.
Checked == {s \in Sessions : step[s] = "checked"}

\* Those named and those let through: the second kind runs on a thread each.
LimitInv ==
    /\ TypeOK /\ StepsFit
    /\ Cardinality(Named) + Cardinality(Checked) <= MaxConnections + IoThreads - 1

LEMMA Finite ==
    \A S \in SUBSET Sessions : IsFiniteSet(S) /\ Cardinality(S) \in Nat
BY GatewayConstants, FS_Subset, FS_CardinalityType

LEMMA OneMore ==
    ASSUME NEW S \in SUBSET Sessions, NEW s \in Sessions
    PROVE  Cardinality(S \cup {s}) <= Cardinality(S) + 1
<1>1. IsFiniteSet(S) /\ Cardinality(S) \in Nat
  BY Finite
<1>2. Cardinality(S \cup {s}) = IF s \in S THEN Cardinality(S) ELSE Cardinality(S) + 1
  BY <1>1, FS_AddElement
<1>. QED BY <1>1, <1>2

\* A step that takes no connection into either set leaves the sum within the limit.
LEMMA NobodyComes ==
    ASSUME LimitInv, Named' \subseteq Named, Checked' \subseteq Checked
    PROVE  Cardinality(Named)' + Cardinality(Checked)' <= MaxConnections + IoThreads - 1
<1>1. Named \subseteq Sessions /\ Checked \subseteq Sessions
  BY DEF Named, Checked
<1>2. Cardinality(Named') <= Cardinality(Named) /\ Cardinality(Checked') <= Cardinality(Checked)
  BY <1>1, Finite, FS_Subset
<1>3. /\ Cardinality(Named) \in Nat /\ Cardinality(Checked) \in Nat
      /\ Cardinality(Named') \in Nat /\ Cardinality(Checked') \in Nat
  BY <1>1, Finite
<1>. QED BY <1>2, <1>3, GatewayConstants DEF LimitInv

LEMMA LimitStep ==
    ASSUME LimitInv, [Next]_vars
    PROVE  Cardinality(Named)' + Cardinality(Checked)' <= MaxConnections + IoThreads - 1
<1>. USE DEF Named, Checked
<1>0. TypeOK
  BY DEF LimitInv
<1>1. ASSUME NEW s \in Sessions, Accept(s)
      PROVE  Cardinality(Named)' + Cardinality(Checked)' <= MaxConnections + IoThreads - 1
  <2>1. CASE AtCapacity
    BY <1>1, <2>1, NobodyComes DEF Accept, names
  <2>2. CASE ~AtCapacity
    <3>1. Named' = Named /\ Checked' \subseteq Checked \cup {s}
      BY <1>0, <1>1 DEF Accept, names, TypeOK
    <3>2. Checked \subseteq Busy /\ Busy \subseteq Sessions
      BY DEF Busy
    <3>3. Cardinality(Busy) < IoThreads
      BY <1>1 DEF Accept, CanRun
    <3>4. Cardinality(Checked) <= Cardinality(Busy)
      BY <3>2, Finite, FS_Subset
    <3>5. Cardinality(Checked \cup {s}) <= Cardinality(Checked) + 1
      BY OneMore
    <3>6. Cardinality(Checked') <= Cardinality(Checked \cup {s})
      BY <3>1, Finite, FS_Subset
    <3>7. ~(Cardinality(Named) >= MaxConnections)
      BY <2>2 DEF AtCapacity
    <3>8. /\ Cardinality(Named) \in Nat /\ Cardinality(Checked) \in Nat
          /\ Cardinality(Checked') \in Nat /\ Cardinality(Busy) \in Nat
          /\ Cardinality(Checked \cup {s}) \in Nat
      BY <3>2, Finite
    <3>9. Cardinality(Named') = Cardinality(Named)
      BY <3>1
    <3>. HIDE DEF Named, Checked
    <3>. QED BY <3>3, <3>4, <3>5, <3>6, <3>7, <3>8, <3>9, GatewayConstants
  <2>. QED BY <2>1, <2>2
<1>2. ASSUME NEW s \in Sessions, NEW p \in Peers, Assign(s, p)
      PROVE  Cardinality(Named)' + Cardinality(Checked)' <= MaxConnections + IoThreads - 1
  <2>1. s \in Checked /\ Checked' = Checked \ {s}
    BY <1>0, <1>2 DEF Assign, TypeOK
  <2>2. Named' = Named \cup {s}
    BY <1>0, <1>2, StoreConstants DEF Assign, TypeOK
  <2>3. Cardinality(Checked') = Cardinality(Checked) - 1
    BY <2>1, Finite, FS_RemoveElement
  <2>4. Cardinality(Named') <= Cardinality(Named) + 1
    BY <2>2, OneMore
  <2>5. /\ Cardinality(Named) \in Nat /\ Cardinality(Checked) \in Nat
        /\ Cardinality(Named') \in Nat
    BY Finite
  <2>. QED BY <2>3, <2>4, <2>5, GatewayConstants DEF LimitInv
<1>3. CASE Sending \/ UNCHANGED vars
  BY <1>3, NobodyComes DEF Sending, Flush, Enqueue, Written, vars, edge, names
<1>4. ASSUME NEW s \in Sessions, Start(s) \/ HandshakeFails(s)
      PROVE  Cardinality(Named)' + Cardinality(Checked)' <= MaxConnections + IoThreads - 1
  BY <1>4, NobodyComes DEF Start, HandshakeFails, names
<1>5. ASSUME NEW s \in Sessions, Messages(s)
      PROVE  Cardinality(Named)' + Cardinality(Checked)' <= MaxConnections + IoThreads - 1
  <2>1. UNCHANGED names /\ Checked' \subseteq Checked
    BY <1>0, <1>5 DEF Messages, BindSession, Dispatch, SessionBound, Logout, Refuse, edge, TypeOK
  <2>. QED BY <2>1, NobodyComes DEF names
<1>6. ASSUME NEW s \in Sessions, Closing(s)
      PROVE  Cardinality(Named)' + Cardinality(Checked)' <= MaxConnections + IoThreads - 1
  <2>1. s2p' = s2p \/ s2p' = [s2p EXCEPT ![s] = NoPeer]
    BY <1>6 DEF Closing, ConnectionFails, Close, Forget, Disconnected, Freed, names
  <2>2. Named' \subseteq Named
    BY <1>0, <2>1 DEF TypeOK
  <2>3. step' = step \/ \E to \in Steps \ {"checked"} : step' = [step EXCEPT ![s] = to]
    BY <1>6 DEF Closing, ConnectionFails, Close, Forget, Disconnected, Freed, Steps
  <2>4. Checked' \subseteq Checked
    BY <1>0, <2>3 DEF TypeOK
  <2>. QED BY <2>2, <2>4, NobodyComes
<1>. QED BY <1>1, <1>2, <1>3, <1>4, <1>5, <1>6 DEF Next, Connecting

\* The limit on connections is overrun by fewer connections than there are threads,
\* though it is checked in one critical section and the name given in another.
THEOREM LimitHolds == Spec => []PeersWithinLimit
<1>1. Init => LimitInv
  <2>. SUFFICES ASSUME Init PROVE LimitInv
    OBVIOUS
  <2>1. TypeOK
    BY TypesAtStart
  <2>2. StepsFit
    BY DEF Init, StepsFit
  <2>3. Named = {} /\ Checked = {}
    BY DEF Init, Named, Checked
  <2>4. Cardinality(Named) = 0 /\ Cardinality(Checked) = 0
    BY <2>3, FS_EmptySet
  <2>. QED BY <2>1, <2>2, <2>4, GatewayConstants DEF LimitInv
<1>2. LimitInv /\ EdgeInv' /\ [Next]_vars => LimitInv'
  BY LimitStep DEF LimitInv, EdgeInv
<1>3. LimitInv => PeersWithinLimit
  <2>. SUFFICES ASSUME LimitInv PROVE PeersWithinLimit
    OBVIOUS
  <2>1. Cardinality(Named) \in Nat /\ Cardinality(Checked) \in Nat
    BY Finite DEF Named, Checked
  <2>. QED BY <2>1, GatewayConstants DEF LimitInv, PeersWithinLimit
<1>. QED BY <1>1, <1>2, <1>3, EdgeInvariant, PTL DEF Spec
=============================================================================
