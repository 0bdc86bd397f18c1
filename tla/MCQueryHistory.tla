--------------------------- MODULE MCQueryHistory ---------------------------
EXTENDS QueryHistory, TLC

CONSTANTS w1, w2

MCSymmetry == Permutations(Workers)
=============================================================================
