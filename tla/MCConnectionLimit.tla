--------------------------- MODULE MCConnectionLimit ---------------------------
\* ConnectionLimit for TLC: four requests compete for two slots, so that two
\* of them can race for the last one while a third finishes or is lost.
EXTENDS ConnectionLimit, TLC

CONSTANTS c1, c2, c3, c4

MCConns == {c1, c2, c3, c4}
Symmetry == Permutations(MCConns)
================================================================================
