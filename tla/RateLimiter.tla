------------------------------ MODULE RateLimiter ------------------------------
(***************************************************************************)
(* The rate limiter of rate_limit.rs, shared by all handlers: requests are *)
(* counted per client key in windows of a fixed length, and a client that  *)
(* asks too often is blocked for a while.                                  *)
(*                                                                         *)
(* check takes the time first and waits for the write lock on the store    *)
(* afterwards, so a request may be counted late, and after one with a      *)
(* later time.  The rest of check, reset and cleanup each run under the    *)
(* lock and are one step.                                                  *)
(*                                                                         *)
(* There are two limiters, one for authentication and one for files.  Only *)
(* the first is ever reset (server/websocket/auth.rs, after a successful   *)
(* authentication); the second has the behaviours without that action.     *)
(***************************************************************************)
EXTENDS Naturals, FiniteSets

CONSTANTS Requests,      \* names of requests; one that is refused may come again
          Clients,       \* rate-limit keys
          MaxRequests,   \* RateLimiter::max_requests
          Window,        \* RateLimiter::window
          LockDelay,     \* bound: how long a request waits for the lock
          Horizon        \* bound: the last instant of the clock

\* Config::validate refuses zero for both parameters.
ASSUME LimitsAssumption == MaxRequests \in Nat \ {0} /\ Window \in Nat \ {0}
ASSUME RequestsAssumption == IsFiniteSet(Requests)
ASSUME BoundsAssumption == LockDelay \in Nat /\ Horizon \in Nat

VARIABLES clock,   \* Instant::now()
          entry,   \* RateLimiter::store
          req,     \* how far each request got
          told     \* history: when the block last announced to a client ends

vars == <<clock, entry, req, told>>

\* A client with no entry: the code never stores a count of zero.
NoEntry == [count |-> 0, start |-> 0, until |-> 0]

\* blocked_until = None is until = 0, which is no end of a block.
Entries == [count : 0..MaxRequests + 1, start : Nat, until : Nat]

\* A request: its client, and the time it took or, once it is allowed, the time
\* at which it was.
RequestStates == [pc : {"new", "waiting", "allowed", "authenticated"},
                  key : Clients, at : Nat]

Init ==
    /\ clock = 0
    /\ entry = [k \in Clients |-> NoEntry]
    /\ req \in [Requests -> [pc : {"new"}, key : Clients, at : {0}]]
    /\ told = [k \in Clients |-> 0]

-----------------------------------------------------------------------------
\* record

\* Instant::duration_since is zero for a time that comes later.
Elapsed(e, now) == IF now > e.start THEN now - e.start ELSE 0

\* Mutant: a window that has expired ends the block as well.
BlockedInWindow(e, now) == now < e.until /\ Elapsed(e, now) < Window

Blocked(e, now) == now < e.until

\* A block that is over or a window that is over starts a new window.
Renewed(e, now) == e.until # 0 \/ Elapsed(e, now) >= Window

\* Mutants of Current: the count outlives the block; the window never moves on.
CurrentKeepsCount(e, now) ==
    IF e.count > 0 /\ e.until # 0 THEN [e EXCEPT !.start = now, !.until = 0]
    ELSE IF e.count = 0 \/ Renewed(e, now)
    THEN [count |-> 0, start |-> now, until |-> 0] ELSE e

CurrentKeepsStart(e, now) ==
    IF e.count = 0 THEN [count |-> 0, start |-> now, until |-> 0]
    ELSE IF Renewed(e, now) THEN [e EXCEPT !.count = 0, !.until = 0] ELSE e

\* The entry against which a request that is not blocked is counted.
Current(e, now) ==
    IF e.count = 0 \/ Renewed(e, now)
    THEN [count |-> 0, start |-> now, until |-> 0] ELSE e

\* The end of the block: the rest of the window and one more.
BlockEnd(e, now) == now + Window + (Window - Elapsed(e, now))

-----------------------------------------------------------------------------
Move(r, pc, at) == req' = [req EXCEPT ![r].pc = pc, ![r].at = at]

\* check takes the time ...
Arrive(r) ==
    /\ req[r].pc = "new"
    /\ Move(r, "waiting", clock)
    /\ UNCHANGED <<clock, entry, told>>

\* ... and gets the lock.  The client is blocked:
Refuse(r) ==
    /\ req[r].pc = "waiting"
    /\ Blocked(entry[req[r].key], req[r].at)
    /\ Move(r, "new", 0)
    /\ UNCHANGED <<clock, entry, told>>

\* the request fits into the window:
Allow(r) ==
    LET k == req[r].key
        e == Current(entry[k], req[r].at)
    IN  /\ req[r].pc = "waiting"
        /\ ~Blocked(entry[k], req[r].at)
        /\ e.count < MaxRequests
        /\ entry' = [entry EXCEPT ![k] = [e EXCEPT !.count = @ + 1]]
        /\ Move(r, "allowed", clock)
        /\ UNCHANGED <<clock, told>>

\* it is one too many, and the client is blocked and told for how long.
Trip(r) ==
    LET k == req[r].key
        e == Current(entry[k], req[r].at)
        end == BlockEnd(e, req[r].at)
    IN  /\ req[r].pc = "waiting"
        /\ ~Blocked(entry[k], req[r].at)
        /\ e.count >= MaxRequests
        /\ entry' = [entry EXCEPT ![k] = [count |-> e.count + 1, start |-> e.start,
                                         until |-> end]]
        /\ told' = [told EXCEPT ![k] = end]
        /\ Move(r, "new", 0)
        /\ UNCHANGED clock

\* An allowed request goes on to authenticate, and the client's entry is removed:
\* perform_auth calls reset.
Authenticate(r) ==
    /\ req[r].pc = "allowed"
    /\ Move(r, "authenticated", 0)
    /\ entry' = [entry EXCEPT ![req[r].key] = NoEntry]
    /\ told' = [told EXCEPT ![req[r].key] = 0]
    /\ UNCHANGED clock

\* cleanup keeps entries that block or that are younger than two windows.
Stale(e) == IF e.until # 0 THEN e.until <= clock ELSE Elapsed(e, clock) >= 2 * Window

Cleanup ==
    /\ entry' = [k \in Clients |-> IF Stale(entry[k]) THEN NoEntry ELSE entry[k]]
    /\ UNCHANGED <<clock, req, told>>

\* Time passes; nobody waits for the lock longer than LockDelay.
Tick ==
    /\ clock < Horizon
    /\ \A r \in Requests : req[r].pc = "waiting" => clock < req[r].at + LockDelay
    /\ clock' = clock + 1
    /\ UNCHANGED <<entry, req, told>>

Next ==
    \/ \E r \in Requests : Arrive(r) \/ Refuse(r) \/ Allow(r) \/ Trip(r) \/ Authenticate(r)
    \/ Cleanup \/ Tick

Spec == Init /\ [][Next]_vars

-----------------------------------------------------------------------------
\* Variable types.  A count of MaxRequests + 1 is not exceeded, whatever comes
\* in which order: the counter of 32 bits does not overflow.
TypeOK ==
    /\ clock \in Nat
    /\ entry \in [Clients -> Entries]
    /\ req \in [Requests -> RequestStates]
    /\ told \in [Clients -> Nat]

\* The requests of a client that got through and have not lifted its limit since.
Allowed(k) == {r \in Requests : req[r].key = k /\ req[r].pc = "allowed"}

\* Nobody gets in before the block that was last announced to the client is over:
\* not with a time taken before or after it, not when cleanup forgets the entry.
\* Only a successful authentication of the same client lifts a block.
BlockIsServed ==
    [][\A r \in Requests :
          req[r].pc = "waiting" /\ req'[r].pc = "allowed" => clock >= told[req[r].key]]_vars

\* A refusal is deserved: the client asked before the end of the block it had been
\* told of, or MaxRequests of its requests got through since that end and less
\* than a window before the time of this one.
RefusalIsDeserved ==
    [][\A r \in Requests :
          LET k == req[r].key
          IN  req[r].pc = "waiting" /\ req'[r].pc = "new" =>
                \/ req[r].at < told[k]
                \/ Cardinality({q \in Allowed(k) : /\ req[q].at >= told[k]
                                                   /\ req[q].at + Window > req[r].at})
                       >= MaxRequests]_vars

\* Requests of a client that got through at the instants from x to y.
Between(k, x, y) == {r \in Allowed(k) : req[r].at \in x..y}

NeverReset(k) == \A r \in Requests : req[r].key = k => req[r].pc # "authenticated"

\* A client that never authenticates gets at most two windows' requests through
\* within any time shorter than the window by the wait for the lock: one at the end
\* of a window, one at the beginning of the next.  Within more, late requests of a
\* third window may come on top.
TwoWindowsAtMost ==
    \A k \in Clients : NeverReset(k) =>
        \A x \in 0..clock :
            Cardinality(Between(k, x, x + (Window - LockDelay))) <= 2 * MaxRequests

-----------------------------------------------------------------------------
\* What the documentation promises and the code does not keep.

\* docs/PROJECT_STATUS.md: "Rate limiting: sliding window".  A sliding window lets
\* no more than MaxRequests through within any time of one window's length.
SlidingWindow ==
    \A k \in Clients : NeverReset(k) =>
        \A x \in 0..clock :
            Cardinality(Between(k, x, x + Window - 1)) <= MaxRequests
================================================================================
