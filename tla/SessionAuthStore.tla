-------------------------- MODULE SessionAuthStore --------------------------
(***************************************************************************)
(* SessionAuthStore: who is signed in on which connection, and the three   *)
(* indexes by which the features find a user's connections.  A session     *)
(* handle is the address of the connection's object, and comes back when   *)
(* the object is gone.  One mutex covers every operation.                  *)
(***************************************************************************)
CONSTANTS
    Sessions,             \* addresses of connection objects
    Peers,                \* names that resolveTrustedPeer may draw
    Users,
    NoSession, NoPeer, NoUser

ASSUME StoreConstants ==
    /\ NoSession \notin Sessions /\ NoPeer \notin Peers /\ NoUser \notin Users

VARIABLES
    byHandle,       \* byHandle[s]: the peer and the user of the session, NoBinding if none
    peerToHandle,   \* peerToHandle[p]: the session, or NoSession
    userToHandles,  \* userToHandles[u]: a set of sessions
    userToPeers     \* userToPeers[u]: a set of peers

store == <<byHandle, peerToHandle, userToHandles, userToPeers>>

NoBinding == [peer |-> NoPeer, user |-> NoUser]
Bindings == [peer : Peers, user : Users]

StoreTypeOK ==
    /\ byHandle \in [Sessions -> Bindings \cup {NoBinding}]
    /\ peerToHandle \in [Peers -> Sessions \cup {NoSession}]
    /\ userToHandles \in [Users -> SUBSET Sessions]
    /\ userToPeers \in [Users -> SUBSET Peers]

StoreInit ==
    /\ byHandle = [s \in Sessions |-> NoBinding]
    /\ peerToHandle = [p \in Peers |-> NoSession]
    /\ userToHandles = [u \in Users |-> {}]
    /\ userToPeers = [u \in Users |-> {}]

\* The bindings that bind(s, p, .) removes: the session's own, and that of another
\* session under the same peer.
Removed_OwnOnly(s, p) == {t \in Sessions : byHandle[t] # NoBinding /\ t = s}
Removed(s, p) == {t \in Sessions : byHandle[t] # NoBinding /\ (t = s \/ peerToHandle[p] = t)}

PeersIn(S) == {byHandle[t].peer : t \in S}
SessionsOf(S, u) == {t \in S : byHandle[t].user = u}

\* bind of the binding [p, u].
Bind(s, p, u) ==
    LET gone == Removed(s, p) IN
    /\ byHandle' = [t \in Sessions |-> IF t = s THEN [peer |-> p, user |-> u]
                                       ELSE IF t \in gone THEN NoBinding ELSE byHandle[t]]
    /\ peerToHandle' = [q \in Peers |-> IF q = p THEN s
                                        ELSE IF q \in PeersIn(gone) THEN NoSession
                                        ELSE peerToHandle[q]]
    /\ userToHandles' = [v \in Users |-> (userToHandles[v] \ SessionsOf(gone, v))
                                           \cup (IF v = u THEN {s} ELSE {})]
    /\ userToPeers' = [v \in Users |-> (userToPeers[v] \ PeersIn(SessionsOf(gone, v)))
                                         \cup (IF v = u THEN {p} ELSE {})]

\* unbind: nothing happens to a session that is not bound.
Unbind(s) ==
    LET gone == {t \in {s} : byHandle[t] # NoBinding} IN
    /\ byHandle' = [byHandle EXCEPT ![s] = NoBinding]
    /\ peerToHandle' = [q \in Peers |-> IF q \in PeersIn(gone) THEN NoSession ELSE peerToHandle[q]]
    /\ userToHandles' = [v \in Users |-> userToHandles[v] \ SessionsOf(gone, v)]
    /\ userToPeers' = [v \in Users |-> userToPeers[v] \ PeersIn(SessionsOf(gone, v))]

\* The four maps tell one story: a peer leads to the session bound under it, and a
\* user to exactly the sessions and peers bound for that user - whatever order
\* sessions are bound again, taken over under a reused name and let go in.
IndexesAgree ==
    /\ \A p \in Peers, s \in Sessions : peerToHandle[p] = s <=> byHandle[s].peer = p
    /\ \A u \in Users : userToHandles[u] = {s \in Sessions : byHandle[s].user = u}
    /\ \A u \in Users : userToPeers[u] = {byHandle[s].peer : s \in userToHandles[u]}
=============================================================================
