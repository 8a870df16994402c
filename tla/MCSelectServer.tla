--------------------------- MODULE MCSelectServer ---------------------------
EXTENDS SelectServer, TLC

Symmetry == Permutations(Conns)
=============================================================================
