------------------------------- MODULE MCChat -------------------------------
(* Two accounts, the second with two devices, on a direct thread and in one  *)
(* conference, which the second owns and the first joins and leaves.         *)
EXTENDS Chat, TLC

CONSTANTS alice, bob, a1, b1, b2, r1

MCUserOf == [p \in Peers |-> IF p = a1 THEN alice ELSE bob]
Direct(u, v, i) == [chat |-> "direct", by |-> u, to |-> v, id |-> i]
ToAll(u, i) == [chat |-> "conf", by |-> u, to |-> NoUser, id |-> i]
MCSends == {Direct(alice, bob, r1), ToAll(alice, NoId)}
MCDirectSends == {Direct(alice, bob, r1)}

\* The two devices of bob are alike; no property checked with it is temporal
\* beyond a single step.
Devices == Permutations({b1, b2})
=============================================================================
