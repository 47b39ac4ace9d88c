---------------------------- MODULE MCLobbyServer ----------------------------
EXTENDS LobbyServer, TLC

Symmetry == Permutations(Conns) \cup Permutations(Users) \cup Permutations(Tokens)

\* A bound: nothing is explored beyond two announcements that cross.
Uncrossed == ~crossed
==============================================================================
