------------------------------ MODULE MCGateway ------------------------------
EXTENDS Gateway, TLC

\* Neither connections, nor names, nor users differ from one another.
Alike == Permutations(Sessions) \cup Permutations(Peers) \cup Permutations(Users)
=============================================================================
