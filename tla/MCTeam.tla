------------------------------- MODULE MCTeam -------------------------------
\* A workspace with a founder and two people who may join it.
EXTENDS Team, TLC

CONSTANTS f, u1, u2, c1, c2

Symmetry == Permutations({u1, u2}) \cup Permutations({c1, c2})
=============================================================================
