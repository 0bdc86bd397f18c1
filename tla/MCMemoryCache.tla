--------------------------- MODULE MCMemoryCache ---------------------------
EXTENDS MemoryCache, TLC

CONSTANTS k1, k2, k3, v1, v2

\* An entry that never expires, one that expires at once, one that lives on.
MCTTLs == {NoTTL, 0, 1}
MCSymmetry == Permutations({k1, k2, k3}) \cup Permutations({v1, v2})
=============================================================================
