--------------------------- MODULE RateLimiterProofs ---------------------------
(***************************************************************************)
(* The rate limiter for any number of requests and clients, any limit and  *)
(* window, and any delay at the lock: blocks are served and refusals are   *)
(* deserved.                                                               *)
(***************************************************************************)
EXTENDS RateLimiter, FiniteSetTheorems, TLAPS

\* No time in the state lies ahead of the clock, but for ends of blocks.
PastTimes ==
    /\ \A r \in Requests : req[r].at <= clock
    /\ \A k \in Clients : entry[k].start <= clock

\* The entry and the client agree on the block: it is the one last announced,
\* and when there is none the last one announced is over.
BlockIsTold ==
    \A k \in Clients : IF entry[k].until # 0 THEN told[k] = entry[k].until
                       ELSE told[k] <= clock

\* The requests that got through since the window began and the block ended.
Since(k) == {q \in Allowed(k) : req[q].at >= told[k] /\ req[q].at >= entry[k].start}

\* Whatever counts against a client that is not blocked is one of them.
CountIsDeserved ==
    \A k \in Clients : entry[k].until = 0 =>
        entry[k].count <= MaxRequests /\ entry[k].count <= Cardinality(Since(k))

IInv == TypeOK /\ PastTimes /\ BlockIsTold /\ CountIsDeserved

\* The set of counted requests is finite.
LEMMA SinceFinite ==
  ASSUME NEW k \in Clients
  PROVE  IsFiniteSet(Since(k)) /\ Cardinality(Since(k)) \in Nat
  <1>1. Since(k) \in SUBSET Requests  BY DEF Since, Allowed
  <1>2. QED  BY <1>1, RequestsAssumption, FS_Subset, FS_CardinalityType

\* The entry a request is counted against is fresh, or the stored one with a
\* window that still runs.
LEMMA CurrentCases ==
  ASSUME IInv, NEW k \in Clients, NEW now \in Nat
  PROVE  \/ Current(entry[k], now) = [count |-> 0, start |-> now, until |-> 0]
         \/ /\ Current(entry[k], now) = entry[k]
            /\ entry[k].until = 0 /\ now < entry[k].start + Window
            /\ entry[k].count # 0
  BY LimitsAssumption DEF IInv, TypeOK, Entries, Current, Renewed, Elapsed

\* The end of a block is a time, and a later one.
LEMMA BlockEndLater ==
  ASSUME IInv, NEW k \in Clients, NEW now \in Nat
  PROVE  BlockEnd(Current(entry[k], now), now) \in Nat \ {0}
  <1> DEFINE e == Current(entry[k], now)
  <1>1. e.start \in Nat /\ now < e.start + Window
    BY CurrentCases, LimitsAssumption DEF IInv, TypeOK, Entries
  <1>2. Elapsed(e, now) \in Nat /\ Elapsed(e, now) < Window
    <2> HIDE DEF e
    <2> QED  BY <1>1, LimitsAssumption DEF Elapsed
  <1>3. QED
    <2> HIDE DEF e
    <2>1. BlockEnd(e, now) \in Nat \ {0}  BY <1>2, LimitsAssumption DEF BlockEnd
    <2>2. QED  BY <2>1 DEF e

\* A step that changes no entry and no announcement of a client, and none of the
\* requests it allowed, leaves what is counted as it was.
LEMMA SinceKept ==
  ASSUME NEW k \in Clients, entry'[k] = entry[k], told'[k] = told[k],
         Allowed(k)' = Allowed(k), \A q \in Allowed(k) : req'[q].at = req[q].at
  PROVE  Since(k)' = Since(k)
  BY DEF Since

\* A request that is allowed is not allowed before the announced block is over.
LEMMA AllowedInTime ==
  ASSUME IInv, NEW r \in Requests, Allow(r)
  PROVE  clock >= told[req[r].key]
  BY DEF IInv, TypeOK, RequestStates, Entries, PastTimes, BlockIsTold, Allow, Blocked

\* Types hold at the start, with nothing counted.
LEMMA Initial == Init => IInv
  <1> SUFFICES ASSUME Init PROVE IInv  OBVIOUS
  <1>1. TypeOK
    BY LimitsAssumption DEF Init, TypeOK, Entries, NoEntry, RequestStates
  <1>2. PastTimes /\ BlockIsTold  BY <1>1 DEF Init, PastTimes, BlockIsTold, NoEntry
  <1>3. CountIsDeserved
    BY SinceFinite, LimitsAssumption DEF Init, CountIsDeserved, NoEntry
  <1>4. QED  BY <1>1, <1>2, <1>3 DEF IInv

\* Arrivals and refusals of blocked clients.
LEMMA KeepsByWaiting ==
  ASSUME IInv, NEW r \in Requests, Arrive(r) \/ Refuse(r)
  PROVE  IInv'
  <1> USE DEF Arrive, Refuse, Move
  <1>1. TypeOK'  BY DEF IInv, TypeOK, RequestStates
  <1>2. PastTimes' /\ BlockIsTold'
    BY DEF IInv, TypeOK, RequestStates, PastTimes, BlockIsTold
  <1>3. CountIsDeserved'
    <2> SUFFICES ASSUME NEW k \in Clients PROVE Since(k)' = Since(k)
      BY DEF IInv, CountIsDeserved
    <2>1. Allowed(k)' = Allowed(k) /\ \A q \in Allowed(k) : req'[q].at = req[q].at
      BY DEF IInv, TypeOK, RequestStates, Allowed
    <2>2. QED  BY <2>1, SinceKept
  <1>4. QED  BY <1>1, <1>2, <1>3 DEF IInv

\* A request that gets through is counted, and is one of those that count.
LEMMA KeepsByAllow ==
  ASSUME IInv, NEW r \in Requests, Allow(r)
  PROVE  IInv'
  <1>0. PICK k \in Clients : k = req[r].key  BY DEF IInv, TypeOK, RequestStates
  <1> DEFINE now == req[r].at
             e == Current(entry[k], now)
  <1>1. now \in Nat /\ now <= clock /\ clock \in Nat
    BY DEF IInv, TypeOK, RequestStates, PastTimes
  <1>2. /\ e.count \in Nat /\ e.count < MaxRequests
        /\ e.start \in Nat /\ e.start <= clock /\ e.until = 0
        /\ e = [count |-> e.count, start |-> e.start, until |-> 0]
    BY <1>0, <1>1, CurrentCases, LimitsAssumption DEF IInv, TypeOK, Entries, PastTimes, Allow
  <1>3. entry' = [entry EXCEPT ![k] = [count |-> e.count + 1, start |-> e.start, until |-> 0]]
    <2>1. entry' = [entry EXCEPT ![k] = [e EXCEPT !.count = @ + 1]]  BY <1>0 DEF Allow
    <2>2. [e EXCEPT !.count = @ + 1] = [count |-> e.count + 1, start |-> e.start, until |-> 0]
      <3> HIDE DEF e
      <3> QED  BY <1>2
    <2>3. QED  BY <2>1, <2>2
  <1>4. /\ req' = [req EXCEPT ![r].pc = "allowed", ![r].at = clock]
        /\ req[r].pc = "waiting" /\ clock' = clock /\ told' = told
    BY DEF Allow, Move
  <1>5. clock >= told[k]  BY <1>0, AllowedInTime
  <1>6. TypeOK'
    <2> HIDE DEF now, e
    <2>1. [count |-> e.count + 1, start |-> e.start, until |-> 0] \in Entries
      BY <1>2, LimitsAssumption DEF Entries
    <2>2. entry' \in [Clients -> Entries]  BY <2>1, <1>1, <1>3 DEF IInv, TypeOK
    <2>3. req' \in [Requests -> RequestStates]
      BY <1>1, <1>4 DEF IInv, TypeOK, RequestStates
    <2>4. QED  BY <2>2, <2>3, <1>1, <1>4 DEF IInv, TypeOK
  <1>7. PastTimes' /\ BlockIsTold'
    <2> HIDE DEF now, e
    <2> QED  BY <1>1, <1>2, <1>3, <1>4, <1>5
             DEF IInv, TypeOK, Entries, RequestStates, PastTimes, BlockIsTold
  <1>8. CountIsDeserved'
    <2> SUFFICES ASSUME NEW j \in Clients, entry'[j].until = 0
                 PROVE  /\ entry'[j].count <= MaxRequests
                        /\ entry'[j].count <= Cardinality(Since(j)')
      BY DEF CountIsDeserved
    <2>1. CASE j # k
      <3>1. Allowed(j)' = Allowed(j) /\ \A q \in Allowed(j) : req'[q].at = req[q].at
        BY <1>0, <1>4, <2>1 DEF IInv, TypeOK, RequestStates, Allowed
      <3>2. entry'[j] = entry[j]  BY <1>3, <2>1 DEF IInv, TypeOK
      <3>3. QED  BY <3>1, <3>2, <1>4, SinceKept DEF IInv, CountIsDeserved
    <2>2. CASE j = k
      <3>1. entry'[k].count = e.count + 1 /\ entry'[k].start = e.start
        BY <1>3 DEF IInv, TypeOK
      <3>2. r \in Since(k)' /\ r \notin Since(k)
        BY <1>0, <1>1, <1>2, <1>4, <1>5, <3>1 DEF IInv, TypeOK, RequestStates, Since, Allowed
      <3>3. IsFiniteSet(Since(k)') /\ Cardinality(Since(k)') \in Nat
        <4>1. Since(k)' \in SUBSET Requests  BY DEF Since, Allowed
        <4>2. QED  BY <4>1, RequestsAssumption, FS_Subset, FS_CardinalityType
      <3>4. e.count + 1 <= Cardinality(Since(k)')
        <4>1. CASE e.count = 0
          BY <4>1, <3>2, <3>3, FS_EmptySet
        <4>2. CASE e.count # 0
          <5>1. e = entry[k] /\ entry[k].until = 0
            <6>1. \/ e = [count |-> 0, start |-> now, until |-> 0]
                  \/ e = entry[k] /\ entry[k].until = 0
              BY <1>1, CurrentCases
            <6> HIDE DEF e
            <6>2. QED  BY <4>2, <6>1
          <5>2. e.count <= Cardinality(Since(k))
            BY <5>1, <1>1 DEF IInv, CountIsDeserved
          <5>3. Since(k) \cup {r} \in SUBSET Since(k)'
            BY <1>4, <3>1, <3>2, <5>1 DEF IInv, TypeOK, RequestStates, Since, Allowed
          <5>4. Cardinality(Since(k) \cup {r}) = Cardinality(Since(k)) + 1
            BY <1>1, <3>2, SinceFinite, FS_AddElement
          <5>5. Cardinality(Since(k) \cup {r}) <= Cardinality(Since(k)')
            BY <5>3, <3>3, FS_Subset
          <5>6. Cardinality(Since(k)) \in Nat  BY <1>1, SinceFinite
          <5>7. QED
            <6> HIDE DEF now, e
            <6> QED  BY <5>2, <5>4, <5>5, <5>6, <1>2, <3>3
        <4>3. QED  BY <4>1, <4>2
      <3>5. Since(j)' = Since(k)' /\ entry'[j] = entry'[k]
        BY <2>2
      <3>6. Cardinality(Since(j)') = Cardinality(Since(k)')  BY <3>5
      <3>7. QED
        <4> HIDE DEF now, e
        <4> QED  BY <3>5, <3>6, <3>1, <3>4, <1>2, LimitsAssumption
    <2>3. QED  BY <2>1, <2>2
  <1>9. QED  BY <1>6, <1>7, <1>8 DEF IInv

\* One request too many: the client is blocked until the end it is told.
LEMMA KeepsByTrip ==
  ASSUME IInv, NEW r \in Requests, Trip(r)
  PROVE  IInv'
  <1>1. PICK k \in Clients : k = req[r].key  BY DEF IInv, TypeOK, RequestStates
  <1> DEFINE now == req[r].at
             e == Current(entry[k], now)
             end == BlockEnd(e, now)
  <1>2. now \in Nat /\ now <= clock
    BY DEF IInv, TypeOK, RequestStates, PastTimes
  <1>3. end \in Nat \ {0}  BY <1>2, BlockEndLater
  <1>4. /\ e.count \in Nat /\ e.count <= MaxRequests
        /\ e.start \in Nat /\ e.start <= clock
        /\ e = [count |-> e.count, start |-> e.start, until |-> 0]
    BY <1>1, <1>2, CurrentCases, LimitsAssumption
    DEF IInv, TypeOK, Entries, PastTimes, CountIsDeserved
  <1>5. entry' = [entry EXCEPT ![k] = [count |-> e.count + 1, start |-> e.start, until |-> end]]
    BY <1>1 DEF Trip
  <1>6. /\ req' = [req EXCEPT ![r].pc = "new", ![r].at = 0]
        /\ told' = [told EXCEPT ![k] = end]
        /\ req[r].pc = "waiting" /\ clock' = clock
    BY <1>1 DEF Trip, Move
  <1> HIDE DEF now, e, end
  <1>7. TypeOK'
    <2>1. [count |-> e.count + 1, start |-> e.start, until |-> end] \in Entries
      BY <1>3, <1>4, LimitsAssumption DEF Entries
    <2>2. entry' \in [Clients -> Entries]  BY <2>1, <1>5 DEF IInv, TypeOK
    <2>3. req' \in [Requests -> RequestStates]  BY <1>6 DEF IInv, TypeOK, RequestStates
    <2>4. QED  BY <2>2, <2>3, <1>3, <1>6 DEF IInv, TypeOK
  <1>8. PastTimes' /\ BlockIsTold'
    BY <1>3, <1>4, <1>5, <1>6
    DEF IInv, TypeOK, Entries, RequestStates, PastTimes, BlockIsTold
  <1>9. CountIsDeserved'
    <2> SUFFICES ASSUME NEW j \in Clients, entry'[j].until = 0
                 PROVE  /\ entry'[j].count <= MaxRequests
                        /\ entry'[j].count <= Cardinality(Since(j)')
      BY DEF CountIsDeserved
    <2>1. j # k  BY <1>3, <1>5 DEF IInv, TypeOK
    <2>2. Allowed(j)' = Allowed(j) /\ \A q \in Allowed(j) : req'[q].at = req[q].at
      BY <1>6 DEF IInv, TypeOK, RequestStates, Allowed
    <2>3. entry'[j] = entry[j] /\ told'[j] = told[j]
      BY <1>5, <1>6, <2>1 DEF IInv, TypeOK
    <2>4. QED  BY <2>2, <2>3, SinceKept DEF IInv, CountIsDeserved
  <1>10. QED  BY <1>7, <1>8, <1>9 DEF IInv

\* A reset forgets one client; the others are counted as before.
LEMMA KeepsByAuthenticate ==
  ASSUME IInv, NEW r \in Requests, Authenticate(r)
  PROVE  IInv'
  <1>1. PICK k \in Clients : k = req[r].key  BY DEF IInv, TypeOK, RequestStates
  <1>2. /\ req' = [req EXCEPT ![r].pc = "authenticated", ![r].at = 0]
        /\ entry' = [entry EXCEPT ![k] = [count |-> 0, start |-> 0, until |-> 0]]
        /\ told' = [told EXCEPT ![k] = 0]
        /\ clock' = clock
    BY <1>1 DEF Authenticate, Move, NoEntry
  <1>3. TypeOK'
    <2>1. [count |-> 0, start |-> 0, until |-> 0] \in Entries  BY LimitsAssumption DEF Entries
    <2>2. entry' \in [Clients -> Entries]  BY <2>1, <1>2 DEF IInv, TypeOK
    <2>3. req' \in [Requests -> RequestStates]  BY <1>2 DEF IInv, TypeOK, RequestStates
    <2>4. QED  BY <2>2, <2>3, <1>2 DEF IInv, TypeOK
  <1>4. PastTimes' /\ BlockIsTold'
    BY <1>2 DEF IInv, TypeOK, Entries, RequestStates, PastTimes, BlockIsTold
  <1>5. CountIsDeserved'
    <2> SUFFICES ASSUME NEW j \in Clients, entry'[j].until = 0
                 PROVE  /\ entry'[j].count <= MaxRequests
                        /\ entry'[j].count <= Cardinality(Since(j)')
      BY DEF CountIsDeserved
    <2>1. CASE j = k
      <3>1. entry'[j].count = 0  BY <1>2, <2>1 DEF IInv, TypeOK
      <3>2. Since(j)' \in SUBSET Requests  BY DEF Since, Allowed
      <3>3. Cardinality(Since(j)') \in Nat
        BY <3>2, RequestsAssumption, FS_Subset, FS_CardinalityType
      <3>4. QED  BY <3>1, <3>3, LimitsAssumption
    <2>2. CASE j # k
      <3>1. Allowed(j)' = Allowed(j) /\ \A q \in Allowed(j) : req'[q].at = req[q].at
        BY <1>1, <1>2, <2>2 DEF IInv, TypeOK, RequestStates, Allowed
      <3>2. entry'[j] = entry[j] /\ told'[j] = told[j]
        BY <1>2, <2>2 DEF IInv, TypeOK
      <3>3. QED  BY <3>1, <3>2, SinceKept DEF IInv, CountIsDeserved
    <2>3. QED  BY <2>1, <2>2
  <1>6. QED  BY <1>3, <1>4, <1>5 DEF IInv

\* cleanup forgets blocks that are over and windows that are.
LEMMA KeepsByCleanup ==
  ASSUME IInv, Cleanup
  PROVE  IInv'
  <1>1. /\ \A k \in Clients : entry'[k] = IF Stale(entry[k]) THEN NoEntry ELSE entry[k]
        /\ req' = req /\ told' = told /\ clock' = clock
    BY DEF Cleanup
  <1>2. TypeOK'
    BY LimitsAssumption DEF IInv, TypeOK, Cleanup, Entries, NoEntry
  <1>3. PastTimes'
    BY <1>1 DEF IInv, TypeOK, PastTimes, NoEntry
  <1>4. BlockIsTold'
    BY <1>1 DEF IInv, TypeOK, Entries, BlockIsTold, Stale, NoEntry
  <1>5. CountIsDeserved'
    <2> SUFFICES ASSUME NEW j \in Clients, entry'[j].until = 0
                 PROVE  /\ entry'[j].count <= MaxRequests
                        /\ entry'[j].count <= Cardinality(Since(j)')
      BY DEF CountIsDeserved
    <2>1. CASE Stale(entry[j])
      <3>1. entry'[j].count = 0  BY <1>1, <2>1 DEF NoEntry
      <3>2. Since(j)' \in SUBSET Requests  BY DEF Since, Allowed
      <3>3. Cardinality(Since(j)') \in Nat
        BY <3>2, RequestsAssumption, FS_Subset, FS_CardinalityType
      <3>4. QED  BY <3>1, <3>3, LimitsAssumption
    <2>2. CASE ~Stale(entry[j])
      <3>1. entry'[j] = entry[j]  BY <1>1, <2>2
      <3>2. Allowed(j)' = Allowed(j)  BY <1>1 DEF Allowed
      <3>3. QED  BY <1>1, <3>1, <3>2, SinceKept DEF IInv, CountIsDeserved
    <2>3. QED  BY <2>1, <2>2
  <1>6. QED  BY <1>2, <1>3, <1>4, <1>5 DEF IInv

\* The clock moves, and nothing else.
LEMMA KeepsByTick ==
  ASSUME IInv, Tick
  PROVE  IInv'
  <1> USE DEF Tick
  <1>1. TypeOK'  BY DEF IInv, TypeOK
  <1>2. PastTimes' /\ BlockIsTold'
    BY DEF IInv, TypeOK, Entries, RequestStates, PastTimes, BlockIsTold
  <1>3. CountIsDeserved'
    <2> SUFFICES ASSUME NEW k \in Clients PROVE Since(k)' = Since(k)
      BY DEF IInv, CountIsDeserved
    <2>1. Allowed(k)' = Allowed(k)  BY DEF Allowed
    <2>2. QED  BY <2>1, SinceKept
  <1>4. QED  BY <1>1, <1>2, <1>3 DEF IInv

\* Every step keeps the strengthened invariant.
LEMMA Inductive == IInv /\ [Next]_vars => IInv'
  <1> SUFFICES ASSUME IInv, [Next]_vars PROVE IInv'  OBVIOUS
  <1>1. ASSUME NEW r \in Requests, Arrive(r) \/ Refuse(r) PROVE IInv'
    BY <1>1, KeepsByWaiting
  <1>2. ASSUME NEW r \in Requests, Allow(r) PROVE IInv'  BY <1>2, KeepsByAllow
  <1>3. ASSUME NEW r \in Requests, Trip(r) PROVE IInv'  BY <1>3, KeepsByTrip
  <1>4. ASSUME NEW r \in Requests, Authenticate(r) PROVE IInv'
    BY <1>4, KeepsByAuthenticate
  <1>5. CASE Cleanup  BY <1>5, KeepsByCleanup
  <1>6. CASE Tick  BY <1>6, KeepsByTick
  <1>7. CASE UNCHANGED vars
    <2>1. TypeOK' /\ PastTimes' /\ BlockIsTold'
      BY <1>7 DEF vars, IInv, TypeOK, PastTimes, BlockIsTold
    <2>2. CountIsDeserved'
      BY <1>7 DEF vars, IInv, CountIsDeserved, Since, Allowed
    <2>3. QED  BY <2>1, <2>2 DEF IInv
  <1>8. QED  BY <1>1, <1>2, <1>3, <1>4, <1>5, <1>6, <1>7 DEF Next

\* The strengthened invariant holds throughout.
THEOREM InvariantHolds == Spec => []IInv
  BY Initial, Inductive, PTL DEF Spec

\* Types, and with them the bound of the 32-bit count.
THEOREM TypesHold == Spec => []TypeOK
  <1>1. IInv => TypeOK  BY DEF IInv
  <1>2. QED  BY <1>1, InvariantHolds, PTL

\* Nobody gets in before the announced end of a block, for any delay at the lock.
THEOREM BlocksAreServed == Spec => BlockIsServed
  <1>1. IInv /\ [Next]_vars =>
          [\A r \in Requests :
             req[r].pc = "waiting" /\ req'[r].pc = "allowed" => clock >= told[req[r].key]]_vars
    <2> SUFFICES ASSUME IInv, [Next]_vars, NEW r \in Requests,
                        req[r].pc = "waiting", req'[r].pc = "allowed"
                 PROVE  clock >= told[req[r].key]
      OBVIOUS
    <2>1. Allow(r)
      BY DEF IInv, TypeOK, RequestStates, Next, vars, Arrive, Refuse, Trip, Authenticate,
             Cleanup, Tick, Move, Allow
    <2>2. QED  BY <2>1, AllowedInTime
  <1>2. QED  BY <1>1, InvariantHolds, PTL DEF Spec, BlockIsServed

\* A request that trips the limit was preceded by MaxRequests that got through.
LEMMA TripIsDeserved ==
  ASSUME IInv, NEW r \in Requests, Trip(r),
         NEW k \in Clients, k = req[r].key
  PROVE  Cardinality({q \in Allowed(k) : /\ req[q].at >= told[k]
                                         /\ req[q].at + Window > req[r].at})
             >= MaxRequests
  <1> DEFINE now == req[r].at
             Deserving == {q \in Allowed(k) : req[q].at >= told[k] /\ req[q].at + Window > now}
  <1>1. now \in Nat  BY DEF IInv, TypeOK, RequestStates
  <1>2. Current(entry[k], now).count >= MaxRequests  BY DEF Trip
  <1>3. /\ entry[k].until = 0 /\ now < entry[k].start + Window
        /\ entry[k].count >= MaxRequests
    <2>1. ~ Current(entry[k], now) = [count |-> 0, start |-> now, until |-> 0]
      <3> HIDE DEF now
      <3> QED  BY <1>2, LimitsAssumption
    <2>2. QED  BY <1>1, <1>2, <2>1, CurrentCases
  <1>4. Since(k) \in SUBSET Deserving
    BY <1>1, <1>3, LimitsAssumption
    DEF IInv, TypeOK, Entries, RequestStates, Since, Allowed
  <1>5. IsFiniteSet(Deserving) /\ Cardinality(Deserving) \in Nat
    <2>1. Deserving \in SUBSET Requests  BY DEF Allowed
    <2>2. QED  BY <2>1, RequestsAssumption, FS_Subset, FS_CardinalityType
  <1>6. Cardinality(Since(k)) <= Cardinality(Deserving)  BY <1>4, <1>5, FS_Subset
  <1>7. entry[k].count <= Cardinality(Since(k)) /\ entry[k].count \in Nat
    BY <1>3 DEF IInv, TypeOK, Entries, CountIsDeserved
  <1>8. Cardinality(Since(k)) \in Nat  BY SinceFinite
  <1>9. Cardinality(Deserving) >= MaxRequests
    <2> HIDE DEF Deserving
    <2> QED  BY <1>3, <1>5, <1>6, <1>7, <1>8, LimitsAssumption
  <1>10. QED  BY <1>9

\* Nobody is refused who has neither a block to serve nor used up the window.
THEOREM RefusalsAreDeserved == Spec => RefusalIsDeserved
  <1> DEFINE Deserved(r) ==
        LET k == req[r].key
        IN  req[r].pc = "waiting" /\ req'[r].pc = "new" =>
              \/ req[r].at < told[k]
              \/ Cardinality({q \in Allowed(k) : /\ req[q].at >= told[k]
                                                 /\ req[q].at + Window > req[r].at})
                     >= MaxRequests
  <1>1. IInv /\ [Next]_vars => [\A r \in Requests : Deserved(r)]_vars
    <2> SUFFICES ASSUME IInv, [Next]_vars, NEW r \in Requests,
                        req[r].pc = "waiting", req'[r].pc = "new"
                 PROVE  Deserved(r)
      OBVIOUS
    <2>1. Refuse(r) \/ Trip(r)
      BY DEF IInv, TypeOK, RequestStates, Next, vars, Arrive, Refuse, Trip, Authenticate,
             Allow, Cleanup, Tick, Move
    <2>2. PICK k \in Clients : k = req[r].key  BY DEF IInv, TypeOK, RequestStates
    <2>3. CASE Refuse(r)
      <3>1. req[r].at < told[k]
        BY <2>2, <2>3
        DEF IInv, TypeOK, RequestStates, Entries, BlockIsTold, Refuse, Blocked
      <3>2. QED  BY <2>2, <3>1
    <2>4. CASE Trip(r)  BY <2>2, <2>4, TripIsDeserved
    <2>5. QED  BY <2>1, <2>3, <2>4
  <1>2. QED  BY <1>1, InvariantHolds, PTL DEF Spec, RefusalIsDeserved

-----------------------------------------------------------------------------
(* Two windows' requests, when the lock is waited for less than a window.  *)

\* Nobody waits for the lock longer than LockDelay.
LockIsGranted == \A r \in Requests : req[r].pc = "waiting" => clock <= req[r].at + LockDelay

\* The requests L of the last window that began (at s), those of the one before, P,
\* and all earlier ones are apart; `over` is when no more can come of the window, or
\* the end of the block.
Apart(k, L, P, s, over) ==
    /\ Cardinality(L) <= MaxRequests /\ Cardinality(P) <= MaxRequests
    /\ \A r \in L : s <= req[r].at
    /\ \A r \in Allowed(k) \ (L \union P) : req[r].at + Window < s + LockDelay
    /\ \A r \in Allowed(k) : req[r].at < over
    /\ \A r \in Allowed(k) \ L : req[r].at + Window < over

\* The entry knows of the last window and not of those before.
Remembered(k, L, s, over) ==
    /\ entry[k].until # 0 => over <= entry[k].until
    /\ entry[k].until = 0 /\ entry[k].count = 0 => over <= clock
    /\ entry[k].until = 0 /\ entry[k].count # 0 =>
          /\ entry[k].start = s /\ over = s + Window + LockDelay
          /\ Cardinality(L) <= entry[k].count

TwoWindowsOf(k) ==
    /\ \E L \in SUBSET Allowed(k), P \in SUBSET Allowed(k), s \in Nat, over \in Nat :
          Apart(k, L, P, s, over) /\ Remembered(k, L, s, over)
    /\ \A x \in Nat :
          Cardinality(Between(k, x, x + (Window - LockDelay))) <= 2 * MaxRequests

WindowsInv == LockIsGranted /\ \A k \in Clients : NeverReset(k) => TwoWindowsOf(k)

\* Sets of requests are finite.
LEMMA RequestsCount ==
  ASSUME NEW S \in SUBSET Requests
  PROVE  IsFiniteSet(S) /\ Cardinality(S) \in Nat
  BY RequestsAssumption, FS_Subset, FS_CardinalityType

\* The reset of a client is never forgotten.
LEMMA ResetIsForGood ==
  ASSUME IInv, [Next]_vars, NEW k \in Clients, NeverReset(k)'
  PROVE  NeverReset(k)
  <1> SUFFICES ASSUME NEW r \in Requests, req[r].key = k, req[r].pc = "authenticated"
               PROVE  FALSE
    BY DEF NeverReset
  <1>1. req'[r].key = k /\ req'[r].pc = "authenticated"
    BY DEF IInv, TypeOK, RequestStates, Next, vars, Arrive, Refuse, Allow, Trip,
           Authenticate, Cleanup, Tick, Move
  <1>2. QED  BY <1>1 DEF NeverReset

\* What a step does not touch stays apart and within two windows.
LEMMA ApartKept ==
  ASSUME NEW k \in Clients, Allowed(k)' = Allowed(k),
         \A q \in Allowed(k) : req'[q].at = req[q].at
  PROVE  /\ \A L \in SUBSET Allowed(k), P \in SUBSET Allowed(k), s \in Nat, over \in Nat :
               Apart(k, L, P, s, over) => Apart(k, L, P, s, over)'
         /\ \A x, y : Between(k, x, y)' = Between(k, x, y)
  BY DEF Apart, Between

\* Steps that change neither the entry of a client nor what it was allowed.
LEMMA TwoWindowsKept ==
  ASSUME IInv, NEW k \in Clients, TwoWindowsOf(k),
         Allowed(k)' = Allowed(k), \A q \in Allowed(k) : req'[q].at = req[q].at,
         entry'[k] = entry[k], clock' \in Nat, clock <= clock'
  PROVE  TwoWindowsOf(k)'
  <1>1. PICK L \in SUBSET Allowed(k), P \in SUBSET Allowed(k), s \in Nat, over \in Nat :
          Apart(k, L, P, s, over) /\ Remembered(k, L, s, over)
    BY DEF TwoWindowsOf
  <1>2. Apart(k, L, P, s, over)'  BY <1>1, ApartKept
  <1>3. Remembered(k, L, s, over)'  BY <1>1 DEF Remembered, IInv, TypeOK
  <1>4. \A x \in Nat :
          Cardinality(Between(k, x, x + (Window - LockDelay))') <= 2 * MaxRequests
    BY ApartKept DEF TwoWindowsOf
  <1>5. QED  BY <1>2, <1>3, <1>4 DEF TwoWindowsOf

\* A request that gets through joins the window that runs, or begins another when
\* no more can come of the last one.
LEMMA TwoWindowsAllow ==
  ASSUME LockDelay < Window, IInv, LockIsGranted, NEW r \in Requests, Allow(r),
         NEW k \in Clients, k = req[r].key, TwoWindowsOf(k)
  PROVE  TwoWindowsOf(k)'
  <1> DEFINE now == req[r].at
             e == Current(entry[k], now)
             A == Allowed(k)
             W == Window
             D == LockDelay
             M == MaxRequests
  <1>1. PICK L \in SUBSET A, P \in SUBSET A, s \in Nat, over \in Nat :
          Apart(k, L, P, s, over) /\ Remembered(k, L, s, over)
    BY DEF TwoWindowsOf
  <1>2. /\ now \in Nat /\ clock \in Nat /\ now <= clock /\ clock <= now + D
        /\ W \in Nat /\ D \in Nat /\ D < W /\ M \in Nat
    BY LimitsAssumption, BoundsAssumption
    DEF IInv, TypeOK, RequestStates, PastTimes, LockIsGranted, Allow
  <1>3. /\ req' = [req EXCEPT ![r].pc = "allowed", ![r].at = clock]
        /\ clock' = clock /\ req[r].pc = "waiting" /\ ~Blocked(entry[k], now)
        /\ e.count < M /\ entry'[k] = [e EXCEPT !.count = @ + 1]
    BY DEF Allow, Move, IInv, TypeOK
  <1>4. /\ Allowed(k)' = A \union {r} /\ r \notin A
        /\ req'[r].at = clock /\ \A q \in A : req'[q].at = req[q].at /\ req[q].at \in Nat
    BY <1>3 DEF IInv, TypeOK, RequestStates, Allowed
  <1>5. \E L2 \in SUBSET (A \union {r}), P2 \in SUBSET (A \union {r}), s2 \in Nat, over2 \in Nat :
          /\ r \in L2
          /\ Apart(k, L2, P2, s2, over2)' /\ Remembered(k, L2, s2, over2)'
    <2>1. IsFiniteSet(L) /\ Cardinality(L) \in Nat /\ r \notin L
      <3>1. L \in SUBSET Requests  BY DEF Allowed
      <3>2. QED  BY <3>1, <1>4, RequestsCount
    <2>2. CASE /\ e = entry[k] /\ entry[k].until = 0 /\ now < entry[k].start + W
               /\ entry[k].count # 0
      <3>1. /\ entry[k].count \in Nat /\ entry[k].count < M
            /\ entry[k].start = s /\ over = s + W + D /\ Cardinality(L) <= entry[k].count
            /\ s <= clock
        BY <1>1, <1>2, <1>3, <2>2 DEF Remembered, IInv, TypeOK, Entries, PastTimes
      <3>2. /\ entry'[k].count = entry[k].count + 1 /\ entry'[k].start = s
            /\ entry'[k].until = 0
        BY <1>3, <2>2, <3>1 DEF IInv, TypeOK, Entries
      <3>3. Cardinality(L \union {r}) = Cardinality(L) + 1
        BY <2>1, FS_AddElement
      <3>4. Apart(k, L \union {r}, P, s, over)'
        <4>1. Cardinality(L \union {r}) <= M /\ Cardinality(P) <= M
          BY <1>1, <1>2, <2>1, <3>1, <3>3 DEF Apart
        <4>2. \A q \in L \union {r} : s <= req'[q].at
          BY <1>1, <1>4, <3>1 DEF Apart
        <4>3. \A q \in (A \union {r}) \ ((L \union {r}) \union P) : req'[q].at + W < s + D
          BY <1>1, <1>4 DEF Apart
        <4>4. \A q \in A \union {r} : req'[q].at < over
          BY <1>1, <1>2, <1>4, <2>2, <3>1 DEF Apart
        <4>5. \A q \in (A \union {r}) \ (L \union {r}) : req'[q].at + W < over
          BY <1>1, <1>4 DEF Apart
        <4>6. QED  BY <1>4, <4>1, <4>2, <4>3, <4>4, <4>5 DEF Apart
      <3>5. Remembered(k, L \union {r}, s, over)'
        BY <2>1, <3>1, <3>2, <3>3 DEF Remembered
      <3>6. QED  BY <3>4, <3>5
    <2>3. CASE e = [count |-> 0, start |-> now, until |-> 0]
      <3>1. over <= now + D
        <4>1. CASE entry[k].until # 0
          BY <1>1, <1>2, <1>3, <4>1 DEF Remembered, Blocked, IInv, TypeOK, Entries
        <4>2. CASE entry[k].until = 0 /\ entry[k].count = 0
          BY <1>1, <1>2, <4>2 DEF Remembered
        <4>3. CASE entry[k].until = 0 /\ entry[k].count # 0
          <5>1. entry[k].start = s /\ over = s + W + D
            BY <1>1, <4>3 DEF Remembered
          <5>2. Renewed(entry[k], now)
            <6> SUFFICES ASSUME ~Renewed(entry[k], now) PROVE FALSE  OBVIOUS
            <6>1. e = entry[k]  BY <4>3 DEF Current
            <6>2. QED  BY <2>3, <4>3, <6>1
          <5>3. Elapsed(entry[k], now) >= W  BY <4>3, <5>2 DEF Renewed
          <5>4. now >= s + W  BY <1>2, <5>1, <5>3, LimitsAssumption DEF Elapsed
          <5>5. QED  BY <1>2, <5>1, <5>4
        <4>4. QED  BY <4>1, <4>2, <4>3
      <3>0. PICK t \in Nat : t = now  BY <1>2
      <3>2. entry'[k].count = 1 /\ entry'[k].start = t /\ entry'[k].until = 0
        BY <1>3, <2>3, <3>0
      <3>3. Cardinality({r}) = 1  BY FS_Singleton
      <3>4. Apart(k, {r}, L, t, t + W + D)'
        <4>1. Cardinality({r}) <= M /\ Cardinality(L) <= M
          BY <1>1, <3>3, LimitsAssumption DEF Apart
        <4>2. \A q \in {r} : t <= req'[q].at  BY <1>2, <1>4, <3>0
        <4>3. \A q \in (A \union {r}) \ ({r} \union L) : req'[q].at + W < t + D
          BY <1>1, <1>2, <1>4, <3>0, <3>1 DEF Apart
        <4>4. \A q \in A \union {r} : req'[q].at < t + W + D
          BY <1>1, <1>2, <1>4, <3>0, <3>1 DEF Apart
        <4>5. \A q \in (A \union {r}) \ {r} : req'[q].at + W < t + W + D
          BY <1>1, <1>2, <1>4, <3>0, <3>1 DEF Apart
        <4>6. QED  BY <1>4, <4>1, <4>2, <4>3, <4>4, <4>5 DEF Apart
      <3>5. Remembered(k, {r}, t, t + W + D)'
        BY <3>2, <3>3 DEF Remembered
      <3>6. t + W + D \in Nat  BY <1>2, <3>0
      <3>7. QED  BY <3>0, <3>4, <3>5, <3>6
    <2>4. QED  BY <1>2, <2>2, <2>3, CurrentCases
  <1>6. PICK L2 \in SUBSET (A \union {r}), P2 \in SUBSET (A \union {r}), s2 \in Nat, over2 \in Nat :
          /\ r \in L2
          /\ Apart(k, L2, P2, s2, over2)' /\ Remembered(k, L2, s2, over2)'
    BY <1>5
  <1>7. ASSUME NEW x \in Nat
        PROVE  Cardinality(Between(k, x, x + (W - D))') <= 2 * M
    <2> DEFINE B == Between(k, x, x + (W - D))'
    <2>1. W - D \in Nat /\ x + (W - D) \in Nat  BY <1>2
    <2>2. CASE \E q \in L2 : q \in B
      <3>1. PICK q \in L2 : q \in B  BY <2>2
      <3>2. s2 <= req'[q].at /\ req'[q].at <= x + (W - D) /\ req'[q].at \in Nat
        BY <1>2, <1>4, <1>6, <3>1 DEF Apart, Between
      <3>3. \A o \in (A \union {r}) \ (L2 \union P2) : o \notin B
        <4> SUFFICES ASSUME NEW o \in (A \union {r}) \ (L2 \union P2), o \in B PROVE FALSE
          OBVIOUS
        <4>1. req'[o].at + W < s2 + D /\ req'[o].at \in Nat
          BY <1>2, <1>4, <1>6 DEF Apart
        <4>2. x <= req'[o].at  BY <2>1, <4>1 DEF Between
        <4>3. QED  BY <1>2, <3>2, <4>1, <4>2
      <3>4. B \in SUBSET (L2 \union P2)  BY <1>4, <3>3 DEF Between
      <3>5. L2 \in SUBSET Requests /\ P2 \in SUBSET Requests  BY DEF Allowed
      <3>6. /\ IsFiniteSet(L2) /\ IsFiniteSet(P2) /\ IsFiniteSet(L2 \union P2)
            /\ Cardinality(L2) \in Nat /\ Cardinality(P2) \in Nat
            /\ Cardinality(L2 \intersect P2) \in Nat /\ Cardinality(L2 \union P2) \in Nat
        <4>1. (L2 \union P2) \in SUBSET Requests /\ (L2 \intersect P2) \in SUBSET Requests
          BY <3>5
        <4>2. QED  BY <3>5, <4>1, RequestsCount
      <3>7. Cardinality(L2 \union P2)
              = Cardinality(L2) + Cardinality(P2) - Cardinality(L2 \intersect P2)
        BY <3>6, FS_Union
      <3>8. Cardinality(L2) <= M /\ Cardinality(P2) <= M  BY <1>6 DEF Apart
      <3>9. IsFiniteSet(B) /\ Cardinality(B) <= Cardinality(L2 \union P2)
        BY <3>4, <3>6, FS_Subset
      <3>10. Cardinality(B) \in Nat  BY <3>9, FS_CardinalityType
      <3> HIDE DEF B
      <3>11. Cardinality(B) <= 2 * M
        BY <1>2, <3>6, <3>7, <3>8, <3>9, <3>10
      <3>12. QED  BY <3>11 DEF B
    <2>3. CASE ~ \E q \in L2 : q \in B
      <3>1. r \notin B  BY <1>6, <2>3
      <3>2. B \in SUBSET Between(k, x, x + (W - D))
        BY <1>4, <3>1 DEF Between
      <3>3. Between(k, x, x + (W - D)) \in SUBSET Requests  BY DEF Between, Allowed
      <3>4. IsFiniteSet(Between(k, x, x + (W - D)))
            /\ Cardinality(Between(k, x, x + (W - D))) \in Nat
        BY <3>3, RequestsCount
      <3>5. IsFiniteSet(B) /\ Cardinality(B) <= Cardinality(Between(k, x, x + (W - D)))
        BY <3>2, <3>4, FS_Subset
      <3>6. Cardinality(B) \in Nat  BY <3>5, FS_CardinalityType
      <3>7. Cardinality(Between(k, x, x + (W - D))) <= 2 * M  BY DEF TwoWindowsOf
      <3>8. QED
        <4> DEFINE n == Cardinality(B)
                   m == Cardinality(Between(k, x, x + (W - D)))
        <4>1. n <= m /\ m <= 2 * M /\ n \in Nat /\ m \in Nat  BY <3>4, <3>5, <3>6, <3>7
        <4> HIDE DEF n, m
        <4>2. n <= 2 * M  BY <1>2, <4>1
        <4>3. QED  BY <4>2 DEF n
    <2>4. QED  BY <2>2, <2>3
  <1>8. QED  BY <1>4, <1>6, <1>7 DEF TwoWindowsOf

\* A block begins: nothing gets through before it ends, later than what has.
LEMMA TwoWindowsTrip ==
  ASSUME LockDelay < Window, IInv, LockIsGranted, NEW r \in Requests, Trip(r),
         NEW k \in Clients, k = req[r].key, TwoWindowsOf(k)
  PROVE  TwoWindowsOf(k)'
  <1> DEFINE now == req[r].at
             e == Current(entry[k], now)
             end == BlockEnd(e, now)
             W == Window
             D == LockDelay
  <1>1. PICK L \in SUBSET Allowed(k), P \in SUBSET Allowed(k), s \in Nat, over \in Nat :
          Apart(k, L, P, s, over) /\ Remembered(k, L, s, over)
    BY DEF TwoWindowsOf
  <1>2. /\ now \in Nat /\ clock \in Nat /\ now <= clock /\ clock <= now + D
        /\ W \in Nat /\ D \in Nat /\ D < W
    BY LimitsAssumption, BoundsAssumption
    DEF IInv, TypeOK, RequestStates, PastTimes, LockIsGranted, Trip
  <1>3. /\ Allowed(k)' = Allowed(k) /\ \A q \in Allowed(k) : req'[q].at = req[q].at
        /\ \A q \in Allowed(k) : req[q].at \in Nat /\ req[q].at <= clock
    BY DEF Trip, Move, IInv, TypeOK, RequestStates, Allowed, PastTimes
  <1>4. entry'[k].until = end  BY DEF Trip, IInv, TypeOK
  <1>5. e.count >= MaxRequests  BY DEF Trip
  <1>6. e = entry[k] /\ entry[k].until = 0 /\ now < entry[k].start + W /\ entry[k].count # 0
    <2>1. e # [count |-> 0, start |-> now, until |-> 0]
      <3> HIDE DEF now, e
      <3> QED  BY <1>5, LimitsAssumption
    <2>2. QED  BY <1>2, <2>1, CurrentCases
  <1>7. entry[k].start = s /\ over = s + W + D  BY <1>1, <1>6 DEF Remembered
  <1>8. end = IF now > s THEN s + 2 * W ELSE now + 2 * W
    <2>1. BlockEnd(entry[k], now) = now + W + (W - Elapsed(entry[k], now))  BY DEF BlockEnd
    <2>2. Elapsed(entry[k], now) = IF now > s THEN now - s ELSE 0  BY <1>7 DEF Elapsed
    <2>3. now + W + (W - Elapsed(entry[k], now)) = IF now > s THEN s + 2 * W ELSE now + 2 * W
      BY <1>2, <2>2
    <2>4. QED  BY <1>6, <2>1, <2>3
  <1> HIDE DEF now, e, end
  <1>9. PICK m \in Nat : m = end /\ m # 0  BY <1>2, <1>8
  <1>10. \A q \in Allowed(k) : req[q].at < m
    BY <1>1, <1>2, <1>3, <1>7, <1>8, <1>9 DEF Apart
  <1>11. \A q \in Allowed(k) \ L : req[q].at + W < m
    BY <1>1, <1>2, <1>3, <1>7, <1>8, <1>9 DEF Apart
  <1>12. Apart(k, L, P, s, m)
    BY <1>1, <1>10, <1>11 DEF Apart
  <1>13. Apart(k, L, P, s, m)'  BY <1>3, <1>9, <1>12, ApartKept
  <1>14. Remembered(k, L, s, m)'  BY <1>4, <1>9 DEF Remembered
  <1>15. \A x \in Nat :
           Cardinality(Between(k, x, x + (Window - LockDelay))') <= 2 * MaxRequests
    BY <1>3, ApartKept DEF TwoWindowsOf
  <1>16. QED  BY <1>3, <1>9, <1>13, <1>14, <1>15 DEF TwoWindowsOf

\* cleanup forgets an entry only when no more can come of its window.
LEMMA TwoWindowsCleanup ==
  ASSUME LockDelay < Window, IInv, Cleanup, NEW k \in Clients, TwoWindowsOf(k)
  PROVE  TwoWindowsOf(k)'
  <1>1. PICK L \in SUBSET Allowed(k), P \in SUBSET Allowed(k), s \in Nat, over \in Nat :
          Apart(k, L, P, s, over) /\ Remembered(k, L, s, over)
    BY DEF TwoWindowsOf
  <1>2. /\ Allowed(k)' = Allowed(k) /\ \A q \in Allowed(k) : req'[q].at = req[q].at
        /\ clock' = clock
    BY DEF Cleanup, Allowed
  <1>3. entry'[k] = IF Stale(entry[k]) THEN NoEntry ELSE entry[k]  BY DEF Cleanup
  <1>4. CASE ~Stale(entry[k])
    <2>1. clock' \in Nat /\ clock <= clock'  BY <1>2 DEF IInv, TypeOK
    <2>2. QED  BY <1>2, <1>3, <1>4, <2>1, TwoWindowsKept
  <1>5. CASE Stale(entry[k])
    <2>1. over <= clock
      <3>0. /\ clock \in Nat /\ entry[k].until \in Nat /\ entry[k].start \in Nat
            /\ Window \in Nat \ {0} /\ LockDelay \in Nat
        BY LimitsAssumption, BoundsAssumption DEF IInv, TypeOK, Entries
      <3>1. CASE entry[k].until # 0
        BY <1>1, <1>5, <3>0, <3>1 DEF Remembered, Stale
      <3>2. CASE entry[k].until = 0 /\ entry[k].count = 0
        BY <1>1, <3>2 DEF Remembered
      <3>3. CASE entry[k].until = 0 /\ entry[k].count # 0
        <4>1. entry[k].start = s /\ over = s + Window + LockDelay
          BY <1>1, <3>3 DEF Remembered
        <4>2. Elapsed(entry[k], clock) >= 2 * Window  BY <1>5, <3>3 DEF Stale
        <4>3. clock >= s + 2 * Window  BY <3>0, <4>1, <4>2 DEF Elapsed
        <4>4. QED  BY <3>0, <4>1, <4>3
      <3>4. QED  BY <3>1, <3>2, <3>3
    <2>2. Apart(k, L, P, s, over)'  BY <1>1, <1>2, ApartKept
    <2>3. Remembered(k, L, s, over)'
      BY <1>2, <1>3, <1>5, <2>1 DEF Remembered, NoEntry
    <2>4. \A x \in Nat :
            Cardinality(Between(k, x, x + (Window - LockDelay))') <= 2 * MaxRequests
      BY <1>2, ApartKept DEF TwoWindowsOf
    <2>5. QED  BY <1>2, <2>2, <2>3, <2>4 DEF TwoWindowsOf
  <1>6. QED  BY <1>4, <1>5

\* At the start nothing has got through.
LEMMA WindowsInitially == Init => WindowsInv
  <1> SUFFICES ASSUME Init PROVE WindowsInv  OBVIOUS
  <1>1. LockIsGranted  BY DEF Init, LockIsGranted
  <1>2. ASSUME NEW k \in Clients PROVE TwoWindowsOf(k)
    <2>1. Allowed(k) = {}  BY DEF Init, Allowed
    <2>2. Cardinality({}) = 0  BY FS_EmptySet
    <2>3. Apart(k, {}, {}, 0, 0) /\ Remembered(k, {}, 0, 0)
      BY <2>1, <2>2, LimitsAssumption DEF Apart, Remembered, Init, NoEntry
    <2>4. \A x \in Nat :
            Cardinality(Between(k, x, x + (Window - LockDelay))) <= 2 * MaxRequests
      BY <2>1, <2>2, LimitsAssumption DEF Between
    <2>5. QED  BY <2>3, <2>4 DEF TwoWindowsOf
  <1>3. QED  BY <1>1, <1>2 DEF WindowsInv

LEMMA WindowsInductive ==
  ASSUME LockDelay < Window, IInv, WindowsInv, [Next]_vars
  PROVE  WindowsInv'
  <1>1. LockIsGranted'
    <2>1. ASSUME NEW r \in Requests,
                 Arrive(r) \/ Refuse(r) \/ Allow(r) \/ Trip(r) \/ Authenticate(r)
          PROVE  LockIsGranted'
      BY <2>1, BoundsAssumption
      DEF WindowsInv, LockIsGranted, IInv, TypeOK, RequestStates, Arrive, Refuse, Allow,
          Trip, Authenticate, Move
    <2>2. CASE Tick
      BY <2>2, BoundsAssumption
      DEF WindowsInv, LockIsGranted, IInv, TypeOK, RequestStates, Tick
    <2>3. CASE Cleanup \/ UNCHANGED vars
      BY <2>3 DEF WindowsInv, LockIsGranted, Cleanup, vars
    <2>4. QED  BY <2>1, <2>2, <2>3 DEF Next
  <1>2. ASSUME NEW k \in Clients, NeverReset(k)' PROVE TwoWindowsOf(k)'
    <2>1. NeverReset(k) /\ TwoWindowsOf(k)
      BY <1>2, ResetIsForGood DEF WindowsInv
    <2>2. clock \in Nat  BY DEF IInv, TypeOK
    <2>3. ASSUME NEW r \in Requests, Arrive(r) \/ Refuse(r) PROVE TwoWindowsOf(k)'
      <3>1. /\ Allowed(k)' = Allowed(k) /\ \A q \in Allowed(k) : req'[q].at = req[q].at
            /\ entry' = entry /\ clock' = clock
        BY <2>3 DEF Arrive, Refuse, Move, IInv, TypeOK, RequestStates, Allowed
      <3>2. QED  BY <2>1, <2>2, <3>1, TwoWindowsKept
    <2>4. ASSUME NEW r \in Requests, Allow(r) \/ Trip(r), req[r].key # k
          PROVE  TwoWindowsOf(k)'
      <3>1. /\ Allowed(k)' = Allowed(k) /\ \A q \in Allowed(k) : req'[q].at = req[q].at
            /\ entry'[k] = entry[k] /\ clock' = clock
        <4>1. /\ entry'[k] = entry[k] /\ clock' = clock
              /\ \A q \in Requests \ {r} : req'[q] = req[q]
              /\ req'[r].key = req[r].key
          BY <2>4 DEF Allow, Trip, Move, IInv, TypeOK, RequestStates
        <4>2. QED  BY <2>4, <4>1 DEF Allowed
      <3>2. QED  BY <2>1, <2>2, <3>1, TwoWindowsKept
    <2>5. ASSUME NEW r \in Requests, Allow(r), req[r].key = k PROVE TwoWindowsOf(k)'
      BY <2>1, <2>5, TwoWindowsAllow DEF WindowsInv
    <2>6. ASSUME NEW r \in Requests, Trip(r), req[r].key = k PROVE TwoWindowsOf(k)'
      BY <2>1, <2>6, TwoWindowsTrip DEF WindowsInv
    <2>7. ASSUME NEW r \in Requests, Authenticate(r) PROVE TwoWindowsOf(k)'
      <3>1. req[r].key # k
        BY <1>2, <2>7 DEF Authenticate, Move, NeverReset, IInv, TypeOK, RequestStates
      <3>2. /\ Allowed(k)' = Allowed(k) /\ \A q \in Allowed(k) : req'[q].at = req[q].at
            /\ entry'[k] = entry[k] /\ clock' = clock
        BY <2>7, <3>1 DEF Authenticate, Move, IInv, TypeOK, RequestStates, Allowed
      <3>3. QED  BY <2>1, <2>2, <3>2, TwoWindowsKept
    <2>8. CASE Cleanup  BY <2>1, <2>8, TwoWindowsCleanup
    <2>9. CASE Tick \/ UNCHANGED vars
      <3>1. /\ Allowed(k)' = Allowed(k) /\ \A q \in Allowed(k) : req'[q].at = req[q].at
            /\ entry' = entry /\ clock' \in Nat /\ clock <= clock'
        BY <2>2, <2>9 DEF Tick, vars, Allowed
      <3>2. QED  BY <2>1, <3>1, TwoWindowsKept
    <2>10. QED
      BY <2>3, <2>4, <2>5, <2>6, <2>7, <2>8, <2>9 DEF Next
  <1>3. QED  BY <1>1, <1>2 DEF WindowsInv

\* However late requests are counted and whatever cleanup forgets, a client that never
\* authenticates gets no more than two windows' requests through at a time, if the
\* lock is waited for less than a window.
THEOREM TwoWindows ==
  ASSUME LockDelay < Window
  PROVE  Spec => []TwoWindowsAtMost
  <1>1. Init => IInv /\ WindowsInv  BY Initial, WindowsInitially
  <1>2. IInv /\ WindowsInv /\ [Next]_vars => IInv' /\ WindowsInv'
    BY Inductive, WindowsInductive
  <1>3. IInv /\ WindowsInv => TwoWindowsAtMost
    BY DEF IInv, TypeOK, WindowsInv, TwoWindowsOf, TwoWindowsAtMost
  <1>4. QED  BY <1>1, <1>2, <1>3, PTL DEF Spec
================================================================================
