------------------------ MODULE MCIntelligenceLayer ------------------------
EXTENDS IntelligenceLayer, TLC

CONSTANTS c1, c2, c3, s1, s2, a, b

Symmetry == Permutations({c1, c2, c3}) \cup Permutations({s1, s2}) \cup Permutations({a, b})
=============================================================================
