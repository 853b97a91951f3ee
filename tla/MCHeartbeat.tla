------------------------------ MODULE MCHeartbeat ------------------------------
\* Heartbeat for TLC: the code's proportion of interval to timeout (30 s to 90 s) in
\* units of half an interval, and room for one burst on the way to the client, so that
\* it is full as soon as the client does not read.
EXTENDS Heartbeat
================================================================================
