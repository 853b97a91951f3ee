------------------------------- MODULE MCSessions -------------------------------
\* Sessions for TLC: three connections that share one session, so that one can
\* arrive late, one leave and one stay; or two connections with an isolated
\* session each, so that the cleanup task has several candidates at a time.
EXTENDS Sessions, TLC

CONSTANTS c1, c2, c3, s1, s2

TwoConns == {c1, c2}
ThreeConns == {c1, c2, c3}
OneSession == {s1}
TwoSessions == {s1, s2}
Symmetry == Permutations(Conns) \cup Permutations(Sessions)
================================================================================
