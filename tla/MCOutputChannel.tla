---------------------------- MODULE MCOutputChannel ----------------------------
\* OutputChannel for TLC: two clients, a channel that holds one burst, and two chunks
\* of output, so that one client can lag while the other is up to date.
EXTENDS OutputChannel

CONSTANTS c1, c2

MCClients == {c1, c2}
================================================================================
