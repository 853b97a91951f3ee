---------------------------- MODULE SessionRegistry ----------------------------
(***************************************************************************)
(* What the session manager promises to connections: a session is known to *)
(* its creator alone until it is opened; it is joined only while it is     *)
(* open, and only where sessions are shared; its creator does not go       *)
(* before it is open, so that none is forgotten; and one that was taken    *)
(* out never opens again, nor is its id used for another.  How a map, a    *)
(* token per session and the handlers' references do this is module        *)
(* Sessions, which implements this one.                                    *)
(***************************************************************************)
CONSTANTS Conns,        \* connections
          Sessions,     \* session ids
          NoSession,    \* where a connection is that is in no session
          Shared        \* whether sessions may be joined

VARIABLES state,        \* of a session: absent, open, closing or closed
          at            \* the session a connection is in

registryVars == <<state, at>>

RegistryInit ==
    /\ state = [s \in Sessions |-> "absent"]
    /\ at = [c \in Conns |-> NoSession]

Create(c, s) ==
    /\ at[c] = NoSession
    /\ state[s] = "absent"
    /\ \A d \in Conns : at[d] # s
    /\ at' = [at EXCEPT ![c] = s]
    /\ UNCHANGED state

Open(c, s) ==
    /\ at[c] = s
    /\ state[s] = "absent"
    /\ state' = [state EXCEPT ![s] = "open"]
    /\ UNCHANGED at

Join(c, s) ==
    /\ Shared
    /\ at[c] = NoSession
    /\ state[s] = "open"
    /\ at' = [at EXCEPT ![c] = s]
    /\ UNCHANGED state

Leave(c, s) ==
    /\ at[c] = s
    /\ state[s] # "absent"
    /\ at' = [at EXCEPT ![c] = NoSession]
    /\ UNCHANGED state

\* A session that is not shared ends with its connection.
LeaveLast(c, s) ==
    /\ ~Shared
    /\ at[c] = s
    /\ state[s] = "open"
    /\ at' = [at EXCEPT ![c] = NoSession]
    /\ state' = [state EXCEPT ![s] = "closed"]

\* No longer to be found, and not yet shut down.
TakeOut(s) ==
    /\ state[s] = "open"
    /\ state' = [state EXCEPT ![s] = "closing"]
    /\ UNCHANGED at

\* Sessions end, whoever is in them.
Close(S) ==
    /\ S # {}
    /\ \A s \in S : state[s] \in {"open", "closing"}
    /\ state' = [s \in Sessions |-> IF s \in S THEN "closed" ELSE state[s]]
    /\ UNCHANGED at

RegistryNext ==
    \/ \E c \in Conns, s \in Sessions :
          Create(c, s) \/ Open(c, s) \/ Join(c, s) \/ Leave(c, s) \/ LeaveLast(c, s)
    \/ \E s \in Sessions : TakeOut(s)
    \/ \E S \in SUBSET Sessions : Close(S)

RegistrySpec == RegistryInit /\ [][RegistryNext]_registryVars
================================================================================
