-------------------------- MODULE MCSessionWindows --------------------------
EXTENDS SessionWindows, TLC
CONSTANTS s1, s2, w1, w2, w3, c1
Symmetry == Permutations(Servers) \cup Permutations(Windows)
=============================================================================
