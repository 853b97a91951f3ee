---------------------------- MODULE ConnectionLimit ----------------------------
(***************************************************************************)
(* The counter behind max_connections: AppState::try_acquire_connection,   *)
(* websocket_handler and handle_socket in server/websocket.rs.             *)
(*                                                                         *)
(* A request loads the counter, then tries to move it from the value it    *)
(* saw to the next one with compare_exchange_weak, and looks again when it *)
(* loses.  A request that wins is answered 101 and handle_socket runs once *)
(* the HTTP upgrade has completed; it gives the slot back when the         *)
(* connection ends.  When the upgrade fails (the peer is gone before the   *)
(* connection is handed over) the callback never runs, and nothing gives   *)
(* the slot back.  A spurious failure of compare_exchange_weak reloads the *)
(* same value: it is a stuttering step.                                    *)
(*                                                                         *)
(* A request that has been answered comes back to "idle": the same name    *)
(* then stands for a later request.                                        *)
(***************************************************************************)
EXTENDS Naturals, FiniteSets

CONSTANTS Conns,            \* names for upgrade requests
          MaxConnections    \* Config::max_connections

\* Config::validate refuses a limit of zero.
ASSUME LimitAssumption == MaxConnections \in Nat \ {0}
ASSUME ConnsAssumption == IsFiniteSet(Conns)

VARIABLES active,   \* AppState::active_connections
          pc,       \* how far each request got
          seen      \* `current` in try_acquire_connection

limitVars == <<active, pc, seen>>

Phases == {"idle",        \* no request
           "loaded",      \* inside the compare-exchange loop
           "upgrading",   \* slot claimed, 101 answered, upgrade pending
           "serving",     \* handle_socket is running
           "lost"}        \* the upgrade failed after the slot was claimed

LimitInit ==
    /\ active = 0
    /\ pc = [c \in Conns |-> "idle"]
    /\ seen = [c \in Conns |-> 0]

-----------------------------------------------------------------------------

\* A request arrives and try_acquire_connection loads the counter.
Load(c) ==
    /\ pc[c] = "idle"
    /\ pc' = [pc EXCEPT ![c] = "loaded"]
    /\ seen' = [seen EXCEPT ![c] = active]
    /\ UNCHANGED active

\* The value last seen is at the limit: 503.
Reject(c) ==
    /\ pc[c] = "loaded"
    /\ seen[c] >= MaxConnections
    /\ pc' = [pc EXCEPT ![c] = "idle"]
    /\ UNCHANGED <<active, seen>>

\* Mutants of CompareExchange: a plain test and store ...
StoreInsteadOfExchange(c) ==
    /\ pc[c] = "loaded"
    /\ seen[c] < MaxConnections
    /\ active' = seen[c] + 1
    /\ pc' = [pc EXCEPT ![c] = "upgrading"]
    /\ UNCHANGED seen

\* ... an increment of whatever the counter holds by now ...
FetchAddAfterTest(c) ==
    /\ pc[c] = "loaded"
    /\ seen[c] < MaxConnections
    /\ active' = active + 1
    /\ pc' = [pc EXCEPT ![c] = "upgrading"]
    /\ UNCHANGED seen

\* ... and a limit test that lets one request too many into the exchange.
OffByOneLimit(c) ==
    /\ pc[c] = "loaded"
    /\ seen[c] <= MaxConnections
    /\ active = seen[c]
    /\ active' = seen[c] + 1
    /\ pc' = [pc EXCEPT ![c] = "upgrading"]
    /\ UNCHANGED seen

\* The exchange succeeds: the counter still is what this request saw.
CompareExchange(c) ==
    /\ pc[c] = "loaded"
    /\ seen[c] < MaxConnections
    /\ active = seen[c]
    /\ active' = seen[c] + 1
    /\ pc' = [pc EXCEPT ![c] = "upgrading"]
    /\ UNCHANGED seen

\* The exchange fails and hands back the present value.
Retry(c) ==
    /\ pc[c] = "loaded"
    /\ seen[c] < MaxConnections
    /\ active # seen[c]
    /\ seen' = [seen EXCEPT ![c] = active]
    /\ UNCHANGED <<active, pc>>

\* The upgrade completes: the on_upgrade callback starts handle_socket.
Upgraded(c) ==
    /\ pc[c] = "upgrading"
    /\ pc' = [pc EXCEPT ![c] = "serving"]
    /\ UNCHANGED <<active, seen>>

\* The upgrade fails: the callback is dropped without running.
UpgradeFails(c) ==
    /\ pc[c] = "upgrading"
    /\ pc' = [pc EXCEPT ![c] = "lost"]
    /\ UNCHANGED <<active, seen>>

\* handle_terminal_session returned: fetch_sub.
Finish(c) ==
    /\ pc[c] = "serving"
    /\ active' = active - 1
    /\ pc' = [pc EXCEPT ![c] = "idle"]
    /\ UNCHANGED seen

LimitNext == \E c \in Conns :
            \/ Load(c) \/ Reject(c) \/ CompareExchange(c) \/ Retry(c)
            \/ Upgraded(c) \/ UpgradeFails(c) \/ Finish(c)

LimitSpec == LimitInit /\ [][LimitNext]_limitVars

-----------------------------------------------------------------------------

InPhase(P) == {c \in Conns : pc[c] \in P}

\* Requests a slot is counted for, the leaked ones included.
Holders == InPhase({"upgrading", "serving", "lost"})

\* Variable types: the counter is a natural number, so fetch_sub never wraps.
CounterTypeOK ==
    /\ active \in Nat
    /\ pc \in [Conns -> Phases]
    /\ seen \in [Conns -> Nat]

\* The counter is exactly the number of claimed slots that nobody gave back:
\* no interleaving of the compare-exchange loops and the decrements of
\* finishing connections loses an update.
CounterCountsHolders == active = Cardinality(Holders)

\* However many requests race for the last slot, the counter never exceeds
\* max_connections (the comment on try_acquire_connection).
LimitHolds == active <= MaxConnections

Slots == INSTANCE ConnectionSlots WITH holders <- Holders

\* The counter implements the abstract slots: each claim takes one free slot,
\* each finished connection returns its own, and nothing else moves.
ImplementsSlots == Slots!SlotsSpec

\* status.rs says of the counter: "live WebSocket connections".  A slot lost
\* with a failed upgrade is counted although no connection lives.
CounterIsLiveConnections == active = Cardinality(InPhase({"upgrading", "serving"}))
================================================================================
