---------------------------- MODULE MCConference ----------------------------
(***************************************************************************)
(* Instances of Conference for TLC: alice with two devices, and bob.       *)
(***************************************************************************)
EXTENDS Conference, TLC

CONSTANTS a1, a2, b1, alice, bob

MCUserOf == [p \in Peers |-> IF p = b1 THEN bob ELSE alice]

MCSymmetry == Permutations(Confs)
=============================================================================
