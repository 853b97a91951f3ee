------------------------------ MODULE MCPtyProcess ------------------------------
\* PtyProcess for TLC: a session spawned while another is set up, runs, ends or is
\* dropped; two pids, so that a reaped shell's pid comes back as another shell's.
EXTENDS PtyProcess

CONSTANTS s1, s2, p1, p2

MCShells == {s1, s2}
MCPids == {p1, p2}
================================================================================
