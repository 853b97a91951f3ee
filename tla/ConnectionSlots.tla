---------------------------- MODULE ConnectionSlots ----------------------------
(***************************************************************************)
(* What the connection limit promises: at most MaxConnections upgrades     *)
(* hold a slot at a time, and a slot is taken and given back one at a      *)
(* time.  How the server counts slots with an atomic counter is module     *)
(* ConnectionLimit, which implements this one.                             *)
(***************************************************************************)
EXTENDS Naturals, FiniteSets

CONSTANTS Conns,            \* upgrade requests
          MaxConnections    \* Config::max_connections

VARIABLE holders            \* the requests that hold a slot

SlotsInit == holders = {}

Acquire(c) ==
    /\ c \notin holders
    /\ Cardinality(holders) < MaxConnections
    /\ holders' = holders \cup {c}

Release(c) ==
    /\ c \in holders
    /\ holders' = holders \ {c}

SlotsNext == \E c \in Conns : Acquire(c) \/ Release(c)

SlotsSpec == SlotsInit /\ [][SlotsNext]_holders
================================================================================
