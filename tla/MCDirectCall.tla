---------------------------- MODULE MCDirectCall ----------------------------
(***************************************************************************)
(* Instances of DirectCall for TLC: alice, bob and carol with a connection  *)
(* each, or alice and bob on a shared device, and the invitations sent.     *)
(***************************************************************************)
EXTENDS DirectCall, TLC

CONSTANTS a1, b1, c1, alice, bob, carol, r1

MCAccounts == [p \in Peers |-> CASE p = a1 -> {alice} [] p = b1 -> {bob} [] OTHER -> {carol}]

\* The client of a1 holds the tokens of both accounts.
MCSharedDevice == [p \in Peers |-> IF p = b1 THEN {bob} ELSE {alice, bob}]

\* With an id, and without one: such a create_call cannot be recognised again.
MCInvites == {[id |-> r1, callee |-> bob]}
MCAnyInvites == {[id |-> r1, callee |-> bob], [id |-> NoId, callee |-> alice]}

MCSymmetry == Permutations(Calls)
=============================================================================
