-------------------------------- MODULE MCUpload --------------------------------
\* Upload for TLC: two uploads of up to two files under two names, so that each can
\* find the other's file in its way before and after the check, and one download.
EXTENDS Upload, TLC

CONSTANTS u1, u2, d1, a, b

MCRequests == {u1, u2}
MCReaders == {d1}
MCNames == {a, b}
Symmetry == Permutations(MCRequests) \union Permutations(MCNames)
================================================================================
