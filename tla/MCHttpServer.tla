----------------------------- MODULE MCHttpServer -----------------------------
\* HttpServer for TLC: every configuration with every command line, two requests and
\* one WebSocket at a time in the file endpoints' budget of one.
EXTENDS HttpServer

CONSTANTS r1, r2, w1

MCRequests == {r1, r2}
MCSockets == {w1}
================================================================================
