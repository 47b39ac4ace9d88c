--------------------------- MODULE MCLobbySessions ---------------------------
EXTENDS LobbySessions, TLC

Symmetry == Permutations(Conns) \cup Permutations(Users) \cup Permutations(Tokens)
==============================================================================
