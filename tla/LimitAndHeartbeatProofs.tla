------------------------ MODULE LimitAndHeartbeatProofs ------------------------
(***************************************************************************)
(* The two ends of a connection's slot.  For every set of requests and     *)
(* every limit, the counter behind max_connections is exact, never exceeds *)
(* the limit, and implements the abstract slots.  For every interval,      *)
(* every timeout that is no shorter, and every room on the way to the      *)
(* client, the heartbeat gives up on no client that answers promptly, and  *)
(* notices in time one that is silent.                                     *)
(***************************************************************************)
EXTENDS ConnectionLimit, Heartbeat, FiniteSetTheorems, SequenceTheorems, TLAPS

-----------------------------------------------------------------------------
(* The connection limit.                                                   *)

\* The strengthening: types, an exact counter and the limit.
LimitInv == CounterTypeOK /\ CounterCountsHolders /\ LimitHolds

\* The holders are finitely many, so that counting them makes sense.
LEMMA HoldersFinite == IsFiniteSet(Holders) /\ Cardinality(Holders) \in Nat
  <1>1. Holders \in SUBSET Conns  BY DEF Holders, InPhase
  <1>2. QED  BY <1>1, ConnsAssumption, FS_Subset, FS_CardinalityType

\* A request that gains a slot adds itself, and nothing else, to the holders.
LEMMA HoldersGain ==
  ASSUME CounterTypeOK, NEW c \in Conns, pc[c] = "loaded",
         pc' = [pc EXCEPT ![c] = "upgrading"]
  PROVE  /\ c \notin Holders
         /\ Holders' = Holders \cup {c}
         /\ Cardinality(Holders') = Cardinality(Holders) + 1
  <1>1. c \notin Holders  BY DEF Holders, InPhase
  <1>2. Holders' = Holders \cup {c}  BY DEF Holders, InPhase, CounterTypeOK
  <1>3. QED  BY <1>1, <1>2, HoldersFinite, FS_AddElement

\* A connection that finishes removes itself, and nothing else.
LEMMA HoldersDrop ==
  ASSUME CounterTypeOK, NEW c \in Conns, pc[c] = "serving",
         pc' = [pc EXCEPT ![c] = "idle"]
  PROVE  /\ c \in Holders
         /\ Holders' = Holders \ {c}
         /\ Cardinality(Holders') = Cardinality(Holders) - 1
  <1>1. c \in Holders  BY DEF Holders, InPhase
  <1>2. Holders' = Holders \ {c}  BY DEF Holders, InPhase, CounterTypeOK
  <1>3. QED  BY <1>1, <1>2, HoldersFinite, FS_RemoveElement

\* No other step changes who holds a slot.
LEMMA HoldersKept ==
  ASSUME CounterTypeOK, NEW c \in Conns,
         \/ Load(c) \/ Reject(c) \/ Retry(c) \/ Upgraded(c) \/ UpgradeFails(c)
  PROVE  Holders' = Holders /\ active' = active
  BY DEF CounterTypeOK, Holders, InPhase, Load, Reject, Retry, Upgraded, UpgradeFails

\* Every step keeps the strengthened invariant.
LEMMA LimitInductive == LimitInv /\ [LimitNext]_limitVars => LimitInv'
  <1> SUFFICES ASSUME LimitInv, [LimitNext]_limitVars PROVE LimitInv'  OBVIOUS
  <1> USE DEF LimitInv
  <1>1. ASSUME NEW c \in Conns,
               \/ Load(c) \/ Reject(c) \/ Retry(c) \/ Upgraded(c) \/ UpgradeFails(c)
        PROVE  LimitInv'
    <2>1. Holders' = Holders /\ active' = active  BY <1>1, HoldersKept
    <2>2. CounterTypeOK'
      BY <1>1 DEF CounterTypeOK, Phases, Load, Reject, Retry, Upgraded, UpgradeFails
    <2>3. QED  BY <2>1, <2>2 DEF CounterCountsHolders, LimitHolds
  <1>2. ASSUME NEW c \in Conns, CompareExchange(c) PROVE LimitInv'
    <2>1. Cardinality(Holders') = Cardinality(Holders) + 1
      BY <1>2, HoldersGain DEF CompareExchange
    <2>2. CounterTypeOK'  BY <1>2 DEF CounterTypeOK, Phases, CompareExchange
    <2>3. active' = active + 1 /\ active < MaxConnections
      BY <1>2 DEF CompareExchange
    <2>4. QED
      BY <2>1, <2>2, <2>3, LimitAssumption DEF CounterCountsHolders, LimitHolds, CounterTypeOK
  <1>3. ASSUME NEW c \in Conns, Finish(c) PROVE LimitInv'
    <2>1. Cardinality(Holders') = Cardinality(Holders) - 1
      BY <1>3, HoldersDrop DEF Finish
    <2>2. active' = active - 1  BY <1>3 DEF Finish
    <2>3. Cardinality(Holders') \in Nat
      <3>1. Holders' \in SUBSET Conns  BY DEF Holders, InPhase
      <3>2. QED  BY <3>1, ConnsAssumption, FS_Subset, FS_CardinalityType
    <2>4. CounterCountsHolders'
      BY <2>1, <2>2, HoldersFinite DEF CounterCountsHolders
    <2>5. CounterTypeOK'
      BY <1>3, <2>3, <2>4 DEF CounterTypeOK, Phases, Finish, CounterCountsHolders
    <2>6. QED
      BY <2>2, <2>4, <2>5, LimitAssumption DEF LimitHolds, CounterTypeOK
  <1>4. CASE UNCHANGED limitVars
    <2>1. Holders' = Holders  BY <1>4 DEF limitVars, Holders, InPhase
    <2>2. QED
      BY <1>4, <2>1 DEF limitVars, CounterTypeOK, CounterCountsHolders, LimitHolds
  <1>5. QED  BY <1>1, <1>2, <1>3, <1>4 DEF LimitNext

\* The strengthened invariant holds initially: nobody holds a slot.
LEMMA LimitInitially == LimitInit => LimitInv
  <1> SUFFICES ASSUME LimitInit PROVE LimitInv  OBVIOUS
  <1>1. Holders = {}  BY DEF LimitInit, Holders, InPhase
  <1>2. Cardinality(Holders) = 0  BY <1>1, FS_EmptySet
  <1>3. QED
    BY <1>2, LimitAssumption
    DEF LimitInit, LimitInv, CounterTypeOK, Phases, CounterCountsHolders, LimitHolds

LEMMA LimitInvariant == LimitSpec => []LimitInv
  BY LimitInitially, LimitInductive, PTL DEF LimitSpec

\* The variables keep their types: in particular the counter never goes below
\* zero, so fetch_sub never wraps.
THEOREM CounterTypesHold == LimitSpec => []CounterTypeOK
  BY LimitInvariant, PTL DEF LimitInv

\* The counter is exactly the number of unreturned slots.
THEOREM CounterExact == LimitSpec => []CounterCountsHolders
  BY LimitInvariant, PTL DEF LimitInv

\* However many requests race, active_connections never exceeds max_connections.
THEOREM LimitNeverExceeded == LimitSpec => []LimitHolds
  BY LimitInvariant, PTL DEF LimitInv

\* The atomic counter implements the abstract slots.
THEOREM CounterImplementsSlots == LimitSpec => ImplementsSlots
  <1>1. LimitInit => Slots!SlotsInit
    BY DEF LimitInit, Slots!SlotsInit, Holders, InPhase
  <1>2. LimitInv /\ [LimitNext]_limitVars => [Slots!SlotsNext]_Holders
    <2> SUFFICES ASSUME LimitInv, [LimitNext]_limitVars
                 PROVE  Slots!SlotsNext \/ Holders' = Holders
      OBVIOUS
    <2> USE DEF LimitInv
    <2>1. ASSUME NEW c \in Conns,
                 \/ Load(c) \/ Reject(c) \/ Retry(c) \/ Upgraded(c) \/ UpgradeFails(c)
          PROVE  Holders' = Holders
      BY <2>1, HoldersKept
    <2>2. ASSUME NEW c \in Conns, CompareExchange(c) PROVE Slots!SlotsNext
      <3>1. c \notin Holders /\ Holders' = Holders \cup {c}
        BY <2>2, HoldersGain DEF CompareExchange
      <3>2. Cardinality(Holders) < MaxConnections
        BY <2>2 DEF CompareExchange, CounterCountsHolders
      <3>3. Slots!Cardinality(Holders) = Cardinality(Holders)
        BY DEF Slots!Cardinality, Cardinality
      <3>4. QED  BY <3>1, <3>2, <3>3 DEF Slots!SlotsNext, Slots!Acquire
    <2>3. ASSUME NEW c \in Conns, Finish(c) PROVE Slots!SlotsNext
      <3>1. c \in Holders /\ Holders' = Holders \ {c}
        BY <2>3, HoldersDrop DEF Finish
      <3>2. QED  BY <3>1 DEF Slots!SlotsNext, Slots!Release
    <2>4. CASE UNCHANGED limitVars
      BY <2>4 DEF limitVars, Holders, InPhase
    <2>5. QED  BY <2>1, <2>2, <2>3, <2>4 DEF LimitNext
  <1>3. QED
    BY <1>1, <1>2, LimitInvariant, PTL DEF LimitSpec, ImplementsSlots, Slots!SlotsSpec

-----------------------------------------------------------------------------
(* The heartbeat: the queue of the sender's lock.                          *)

\* A task that does not wait yet goes to the end of the queue.
LEMMA Joins ==
  ASSUME NEW q \in Seq(Tasks), IsInjective(q), NEW t \in Tasks, t \notin Range(q)
  PROVE  /\ Append(q, t) \in Seq(Tasks) /\ IsInjective(Append(q, t))
         /\ Range(Append(q, t)) = Range(q) \union {t}
  BY AppendProperties DEF IsInjective, Range

\* What is in a sequence is at some place of it.
LEMMA InRange ==
  ASSUME NEW S, NEW s \in Seq(S), NEW x
  PROVE  x \in Range(s) <=> \E i \in 1..Len(s) : s[i] = x
  BY LenProperties DEF Range

\* The holder of the lock gives it up.
LEMMA Leaves ==
  ASSUME NEW q \in Seq(Tasks), IsInjective(q), q # <<>>
  PROVE  /\ Tail(q) \in Seq(Tasks) /\ IsInjective(Tail(q))
         /\ Range(Tail(q)) = Range(q) \ {Head(q)}
  <1> DEFINE u == Tail(q)
  <1>1. /\ u \in Seq(Tasks) /\ Len(u) = Len(q) - 1 /\ Len(q) \in Nat \ {0}
        /\ \A i \in 1..Len(q) - 1 : u[i] = q[i+1]
        /\ Head(q) = q[1] /\ DOMAIN u = 1..Len(u) /\ DOMAIN q = 1..Len(q)
    BY HeadTailProperties, LenProperties, EmptySeq
  <1> HIDE DEF u
  <1>2. IsInjective(u)
    <2>1. ASSUME NEW i \in 1..Len(u), NEW j \in 1..Len(u), u[i] = u[j] PROVE i = j
      <3>1. i + 1 \in DOMAIN q /\ j + 1 \in DOMAIN q /\ q[i+1] = q[j+1]  BY <1>1, <2>1
      <3>2. i + 1 = j + 1  BY <3>1 DEF IsInjective
      <3>3. QED  BY <3>2
    <2>2. QED  BY <2>1, <1>1 DEF IsInjective
  <1>3. ASSUME NEW x PROVE x \in Range(u) <=> x \in Range(q) /\ x # Head(q)
    <2>1. x \in Range(u) <=> \E i \in 1..Len(u) : u[i] = x  BY <1>1, InRange
    <2>2. x \in Range(q) <=> \E i \in 1..Len(q) : q[i] = x  BY InRange
    <2>3. ASSUME NEW i \in 1..Len(u), u[i] = x PROVE x \in Range(q) /\ x # Head(q)
      BY <1>1, <2>2, <2>3 DEF IsInjective
    <2>4. ASSUME NEW i \in 1..Len(q), q[i] = x, x # Head(q) PROVE x \in Range(u)
      <3>1. i - 1 \in 1..Len(u) /\ u[i-1] = x  BY <1>1, <2>4
      <3>2. QED  BY <2>1, <3>1
    <2>5. QED  BY <2>1, <2>2, <2>3, <2>4
  <1>4. QED  BY <1>1, <1>2, <1>3 DEF u

\* Three tasks share the lock.
LEMMA AtMostThree ==
  ASSUME NEW q \in Seq(Tasks), IsInjective(q)
  PROVE  Len(q) <= 3
  <1> SUFFICES ASSUME Len(q) > 3 PROVE FALSE  OBVIOUS
  <1>1. \A i \in 1..4 : i \in DOMAIN q /\ q[i] \in Tasks  OBVIOUS
  <1>2. QED  BY <1>1 DEF IsInjective, Tasks

\* The sequences of bounded length.
LEMMA SeqIsBounded ==
  ASSUME NEW S, NEW n \in Nat, NEW s \in Seq(S), Len(s) <= n
  PROVE  s \in BoundedSeq(S, n)
  <1>1. s \in [1..Len(s) -> S] /\ Len(s) \in 0..n BY LenProperties
  <1>2. QED BY <1>1 DEF BoundedSeq, SeqOf

\* A task that is aborted leaves its place, wherever that is.
LEMMA Dropped ==
  ASSUME queue \in Seq(Tasks), IsInjective(queue), NEW t \in Tasks
  PROVE  /\ Without(t) \in Seq(Tasks) /\ IsInjective(Without(t))
         /\ Range(Without(t)) = Range(queue) \ {t}
  <1>1. CASE t \notin Range(queue)  BY <1>1 DEF Without
  <1>2. CASE t \in Range(queue)
    <2> DEFINE k == CHOOSE i \in DOMAIN queue : queue[i] = t
               n == Len(queue)
               a == SubSeq(queue, 1, k-1)
               b == SubSeq(queue, k+1, n)
               c == a \o b
    <2>1. DOMAIN queue = 1..n /\ n \in Nat  BY LenProperties
    <2>2. k \in 1..n /\ queue[k] = t  BY <1>2, <2>1 DEF Range
    <2>3. Without(t) = c  BY <1>2 DEF Without, RemoveAt
    <2> HIDE DEF k, n
    <2>4. \A i \in 1..n : queue[i] \in Tasks  BY ElementOfSeq DEF n
    <2>5. a \in Seq(Tasks) /\ Len(a) = k-1 /\ \A i \in 1..k-1 : a[i] = queue[i]
      <3>1. 1 \in Int /\ k-1 \in Int /\ \A i \in 1..k-1 : queue[i] \in Tasks
        BY <2>1, <2>2, <2>4
      <3>2. QED  BY <3>1, <2>1, <2>2, SubSeqProperties
    <2>6. b \in Seq(Tasks) /\ Len(b) = n-k /\ \A i \in 1..n-k : b[i] = queue[i+k]
      <3>1. k+1 \in Int /\ n \in Int /\ \A i \in k+1..n : queue[i] \in Tasks
        BY <2>1, <2>2, <2>4
      <3>2. /\ b \in Seq(Tasks) /\ Len(b) = IF k+1 <= n THEN n-(k+1)+1 ELSE 0
            /\ \A i \in 1..n-(k+1)+1 : b[i] = queue[(k+1)+i-1]
        BY <3>1, SubSeqProperties
      <3>3. Len(b) = n-k  BY <3>2, <2>1, <2>2
      <3>4. ASSUME NEW i \in 1..n-k PROVE b[i] = queue[i+k]
        <4>1. i \in 1..n-(k+1)+1 /\ (k+1)+i-1 = i+k  BY <2>1, <2>2
        <4>2. QED  BY <3>2, <4>1
      <3>5. QED  BY <3>2, <3>3, <3>4
    <2> HIDE DEF a, b
    <2>7. /\ c \in Seq(Tasks) /\ Len(c) = n-1 /\ DOMAIN c = 1..n-1
          /\ \A i \in 1..n-1 : c[i] = IF i < k THEN queue[i] ELSE queue[i+1]
      <3>1. /\ c \in Seq(Tasks) /\ Len(c) = (k-1) + (n-k)
            /\ \A i \in 1..(k-1) + (n-k) : c[i] = IF i <= k-1 THEN a[i] ELSE b[i-(k-1)]
        <4>1. /\ c \in Seq(Tasks) /\ Len(c) = Len(a) + Len(b)
              /\ \A i \in 1..Len(a) + Len(b) : c[i] = IF i <= Len(a) THEN a[i] ELSE b[i-Len(a)]
          BY <2>5, <2>6, ConcatProperties
        <4> HIDE DEF c
        <4>2. QED  BY <4>1, <2>5, <2>6
      <3>2. Len(c) = n-1 /\ DOMAIN c = 1..n-1  BY <3>1, <2>1, <2>2, LenProperties
      <3>3. ASSUME NEW i \in 1..n-1 PROVE c[i] = IF i < k THEN queue[i] ELSE queue[i+1]
        <4>1. c[i] = IF i <= k-1 THEN a[i] ELSE b[i-(k-1)]  BY <3>1, <2>1, <2>2
        <4>2. CASE i < k  BY <4>1, <4>2, <2>1, <2>2, <2>5
        <4>3. CASE ~(i < k)
          <5>1. i-(k-1) \in 1..n-k /\ (i-(k-1))+k = i+1  BY <4>3, <2>1, <2>2
          <5>2. ~(i <= k-1)  BY <4>3, <2>1, <2>2
          <5>3. QED  BY <4>1, <4>3, <5>1, <5>2, <2>6
        <4>4. QED  BY <4>2, <4>3
      <3>4. QED  BY <3>1, <3>2, <3>3
    <2> HIDE DEF c
    <2>8. IsInjective(c)
      <3>1. ASSUME NEW i \in 1..n-1, NEW j \in 1..n-1, c[i] = c[j] PROVE i = j
        <4> DEFINE m(l) == IF l < k THEN l ELSE l+1
        <4>1. c[i] = queue[m(i)] /\ c[j] = queue[m(j)]  BY <2>7
        <4>2. m(i) \in 1..n /\ m(j) \in 1..n  BY <2>1, <2>2
        <4>3. m(i) = m(j)  BY <4>1, <4>2, <3>1, <2>1 DEF IsInjective
        <4>4. QED  BY <4>3, <2>1, <2>2
      <3>2. QED  BY <3>1, <2>7 DEF IsInjective
    <2>9. ASSUME NEW x PROVE x \in Range(c) <=> x \in Range(queue) /\ x # t
      <3>1. x \in Range(c) <=> \E i \in 1..n-1 : c[i] = x  BY <2>7, InRange
      <3>2. x \in Range(queue) <=> \E i \in 1..n : queue[i] = x  BY InRange DEF n
      <3>3. ASSUME NEW i \in 1..n-1, c[i] = x PROVE x \in Range(queue) /\ x # t
        <4> DEFINE m == IF i < k THEN i ELSE i+1
        <4>1. m \in 1..n /\ m # k /\ queue[m] = x  BY <3>3, <2>1, <2>2, <2>7
        <4> HIDE DEF m
        <4>2. queue[m] # queue[k]  BY <4>1, <2>1, <2>2 DEF IsInjective
        <4>3. QED  BY <4>1, <4>2, <3>2, <2>2
      <3>4. ASSUME NEW i \in 1..n, queue[i] = x, x # t PROVE x \in Range(c)
        <4> DEFINE m == IF i < k THEN i ELSE i-1
        <4>1. i # k  BY <3>4, <2>2
        <4>2. m \in 1..n-1 /\ i = IF m < k THEN m ELSE m+1  BY <4>1, <2>1, <2>2
        <4>3. c[m] = x  BY <4>2, <2>7, <3>4
        <4>4. QED  BY <4>2, <4>3, <3>1
      <3>5. QED  BY <3>1, <3>2, <3>3, <3>4
    <2>10. QED  BY <2>3, <2>7, <2>8, <2>9 DEF Tasks
  <1>3. QED  BY <1>1, <1>2

-----------------------------------------------------------------------------
(* What is on the way to the client.                                       *)

Frames == {"data", "ping"}

BurstsIn(b) == {i \in DOMAIN b : b[i] = "data"}

\* Successive pings are one.
PingsApart(b) == \A i \in 1..Len(b) - 1 : b[i] = "ping" => b[i+1] # "ping"

\* There are finitely many bursts.
LEMMA BurstsFinite ==
  ASSUME NEW b \in Seq(Frames)
  PROVE  IsFiniteSet(BurstsIn(b)) /\ Cardinality(BurstsIn(b)) \in Nat
  <1>1. DOMAIN b = 1..Len(b) /\ Len(b) \in Nat  BY LenProperties
  <1>2. BurstsIn(b) \in SUBSET (1..Len(b))  BY <1>1 DEF BurstsIn
  <1>3. IsFiniteSet(1..Len(b))  BY <1>1, FS_Interval
  <1>4. QED  BY <1>2, <1>3, FS_Subset, FS_CardinalityType

\* A frame more is a burst more, or none.
LEMMA BurstAdded ==
  ASSUME NEW b \in Seq(Frames), NEW f \in Frames
  PROVE  Cardinality(BurstsIn(Append(b, f)))
           = IF f = "data" THEN Cardinality(BurstsIn(b)) + 1 ELSE Cardinality(BurstsIn(b))
  <1> DEFINE c == Append(b, f)
             n == Len(b) + 1
  <1>1. /\ DOMAIN c = 1..n /\ DOMAIN b = 1..Len(b) /\ Len(b) \in Nat
        /\ c[n] = f /\ \A i \in 1..Len(b) : c[i] = b[i]
    BY AppendProperties, LenProperties
  <1> HIDE DEF c
  <1>2. BurstsIn(c) = IF f = "data" THEN BurstsIn(b) \union {n} ELSE BurstsIn(b)
    BY <1>1 DEF BurstsIn
  <1>3. n \notin BurstsIn(b)  BY <1>1 DEF BurstsIn
  <1>4. QED  BY <1>2, <1>3, BurstsFinite, FS_AddElement DEF c

\* Reading a frame adds no burst.
LEMMA BurstRead ==
  ASSUME NEW b \in Seq(Frames), b # <<>>
  PROVE  Cardinality(BurstsIn(Tail(b))) <= Cardinality(BurstsIn(b))
  <1> DEFINE u == Tail(b)
             S == BurstsIn(u)
             T == BurstsIn(b)
             m == [i \in S |-> i + 1]
  <1>1. /\ DOMAIN u = 1..Len(b)-1 /\ DOMAIN b = 1..Len(b) /\ Len(b) \in Nat \ {0}
        /\ \A i \in 1..Len(b)-1 : u[i] = b[i+1]
    BY HeadTailProperties, LenProperties, EmptySeq
  <1> HIDE DEF u
  <1>2. ASSUME NEW i \in S PROVE i \in Int /\ i + 1 \in T  BY <1>1 DEF BurstsIn
  <1>3. m \in Injection(S, T)
    <2>1. m \in [S -> T]  BY <1>2
    <2>2. ASSUME NEW i \in S, NEW j \in S, m[i] = m[j] PROVE i = j  BY <1>2, <2>2
    <2>3. QED  BY <2>1, <2>2 DEF Injection, IsInjective
  <1>4. IsFiniteSet(T)  BY BurstsFinite
  <1> HIDE DEF m, S, T
  <1>5. Cardinality(S) <= Cardinality(T)  BY <1>3, <1>4, FS_Injection
  <1>6. QED  BY <1>5 DEF u, S, T

\* Before each ping but the first frame there is a burst.
LEMMA BufferBounded ==
  ASSUME NEW b \in Seq(Frames), PingsApart(b)
  PROVE  Len(b) <= 2 * Cardinality(BurstsIn(b)) + 1
  <1> DEFINE n == Len(b)
             D == BurstsIn(b)
             P == {i \in 2..n : b[i] = "ping"}
             m == [i \in P |-> i - 1]
  <1>1. DOMAIN b = 1..n /\ n \in Nat /\ \A i \in 1..n : b[i] \in Frames
    BY LenProperties, ElementOfSeq
  <1> HIDE DEF n
  <1>2. ASSUME NEW i \in P PROVE i \in Int /\ i - 1 \in D
    <2>1. i - 1 \in 1..n /\ i - 1 \in 1..n-1 /\ (i - 1) + 1 = i /\ b[i] = "ping"  BY <1>1
    <2>2. b[i-1] # "ping"  BY <2>1 DEF PingsApart, n
    <2>3. QED  BY <2>1, <2>2, <1>1 DEF BurstsIn, Frames
  <1>3. m \in Injection(P, D)
    <2>1. m \in [P -> D]  BY <1>2
    <2>2. ASSUME NEW i \in P, NEW j \in P, m[i] = m[j] PROVE i = j  BY <1>2, <2>2
    <2>3. QED  BY <2>1, <2>2 DEF Injection, IsInjective
  <1>4. IsFiniteSet(D) /\ Cardinality(D) \in Nat  BY BurstsFinite
  <1>5. 1..n \in SUBSET ((D \union P) \union {1})  BY <1>1 DEF BurstsIn, Frames
  <1> HIDE DEF D, P, m
  <1>6. IsFiniteSet(P) /\ Cardinality(P) <= Cardinality(D)  BY <1>3, <1>4, FS_Injection
  <1>7. /\ IsFiniteSet(D \union P)
        /\ Cardinality(D \union P) = Cardinality(D) + Cardinality(P) - Cardinality(D \cap P)
    BY <1>4, <1>6, FS_Union
  <1>8. Cardinality(D \cap P) \in Nat /\ Cardinality(P) \in Nat
    BY <1>4, <1>6, FS_Subset, FS_CardinalityType
  <1> DEFINE E == D \union P
             G == E \union {1}
  <1>9. IsFiniteSet(E) /\ Cardinality(E) \in Nat  BY <1>7, FS_CardinalityType
  <1> HIDE DEF E
  <1>10. IsFiniteSet(G) /\ Cardinality(G) <= Cardinality(E) + 1 /\ Cardinality(G) \in Nat
    <2>1. IsFiniteSet(G) /\ Cardinality(G) = IF 1 \in E THEN Cardinality(E) ELSE Cardinality(E) + 1
      BY <1>9, FS_AddElement
    <2> HIDE DEF G
    <2>2. QED  BY <1>9, <2>1
  <1>11. 1..n \in SUBSET G  BY <1>5 DEF E
  <1> HIDE DEF G
  <1>12. Cardinality(1..n) <= Cardinality(G)  BY <1>10, <1>11, FS_Subset
  <1>13. Cardinality(1..n) = n
    <2>1. 1 \in Int /\ n \in Int  BY <1>1
    <2>2. Cardinality(1..n) = IF 1 > n THEN 0 ELSE n-1+1  BY <2>1, FS_Interval
    <2>3. QED  BY <2>2, <1>1
  <1>14. Cardinality(E) <= 2 * Cardinality(D)
    BY <1>4, <1>6, <1>7, <1>8 DEF E
  <1>15. QED  BY <1>1, <1>4, <1>9, <1>10, <1>12, <1>13, <1>14 DEF n, D

-----------------------------------------------------------------------------
(* The inductive invariant.                                                *)

Scalars ==
    /\ monitor \in {"sleep", "send", "check", "false", "aborted"}
    /\ subscr \in {"recv", "send", "done", "aborted"}
    /\ loop \in {"select", "busy", "reply", "tell", "ending", "farewell", "close", "closed"}
    /\ aborted \in BOOLEAN /\ heldUp \in BOOLEAN
    /\ next \in -Interval..Interval /\ silence \in 0..Aged
    /\ client \in {"prompt", "slow", "deaf", "gone"}

\* Who waits for the lock is about to send.
Sender ==
    /\ queue \in Seq(Tasks) /\ IsInjective(queue)
    /\ Queued("monitor") <=> monitor = "send"
    /\ Queued("subscriber") <=> subscr = "send"
    /\ Queued("loop") <=> loop \in {"reply", "tell", "farewell", "close"}

\* Sending needs room.
Outward ==
    /\ buffer \in Seq(Frames) /\ PingsApart(buffer)
    /\ Cardinality(Bursts) <= BufferSize

Inward ==
    /\ inbox \in Seq({"pong", "ping", "request"}) /\ Len(inbox) <= InboxSize + 1
    /\ "pong" \in Range(inbox) \/ Len(inbox) <= InboxSize

\* Since the monitor last woke, a ping, and then the pong, is under way until
\* last_ping_time is fresh again: it is never older than the last tick.
AnswerUnderWay ==
    client = "prompt" /\ ~heldUp =>
        /\ monitor # "false"
        /\ monitor # "aborted" =>
             /\ 0 <= next /\ silence <= Interval
             /\ \/ monitor = "send" \/ "ping" \in Range(buffer) \/ "pong" \in Range(inbox)
                \/ silence + next <= Interval

\* A monitor that sleeps has found the client silent for no longer than the timeout.
FoundInTime == monitor = "sleep" /\ next > 0 => silence <= Timeout + Interval - next

HeartbeatInv == Scalars /\ Sender /\ Outward /\ Inward /\ AnswerUnderWay /\ FoundInTime

\* The invariant bounds what the type invariant bounds.
LEMMA InvariantTypes == HeartbeatInv => TypeOK
  <1> SUFFICES ASSUME HeartbeatInv PROVE TypeOK  OBVIOUS
  <1> USE DEF HeartbeatInv
  <1>1. queue \in BoundedSeq(Tasks, 3)  BY AtMostThree, SeqIsBounded DEF Sender
  <1>2. buffer \in BoundedSeq({"data", "ping"}, 2 * BufferSize + 1)
    <2>1. Bursts = BurstsIn(buffer)  BY DEF Bursts, BurstsIn
    <2>2. Len(buffer) <= 2 * Cardinality(BurstsIn(buffer)) + 1  BY BufferBounded DEF Outward
    <2>3. Cardinality(BurstsIn(buffer)) \in Nat  BY BurstsFinite DEF Outward
    <2>4. Len(buffer) \in Nat  BY LenProperties DEF Outward
    <2>5. Len(buffer) <= 2 * BufferSize + 1
      BY <2>1, <2>2, <2>3, <2>4, SizesAssumption DEF Outward
    <2>6. QED  BY <2>5, SeqIsBounded, SizesAssumption DEF Outward, Frames
  <1>3. inbox \in BoundedSeq({"pong", "ping", "request"}, InboxSize + 1)
    BY SeqIsBounded, SizesAssumption DEF Inward
  <1>4. QED  BY <1>1, <1>2, <1>3 DEF TypeOK, Scalars, Sender

-----------------------------------------------------------------------------
(* Every step keeps it.                                                    *)

\* The tasks, the clocks and the client.
LEMMA ScalarsKept == HeartbeatInv /\ [Next]_vars => Scalars'
  <1> SUFFICES ASSUME HeartbeatInv, [Next]_vars PROVE Scalars'  OBVIOUS
  <1> USE TimesAssumption DEF HeartbeatInv, Scalars
  <1>1. CASE MonitorStep
    BY <1>1 DEF MonitorStep, MonitorTicks, MonitorPings, MonitorChecks, MonitorDropped
  <1>2. CASE SubscriberStep \/ OutputArrives
    BY <1>2 DEF SubscriberStep, SubscriberSends, SubscriberDropped, OutputArrives
  <1>3. CASE LoopTakes \/ LoopWorked \/ LoopReplies \/ LoopSeesTimeout \/ LoopTells
    BY <1>3 DEF LoopTakes, LoopWorked, LoopReplies, LoopSeesTimeout, LoopTells, Aged
  <1>4. CASE StreamEnded \/ TokenCancelled \/ Abort \/ Farewell \/ Close
    BY <1>4 DEF StreamEnded, TokenCancelled, Abort, Farewell, Close
  <1>5. CASE ClientReads \/ ClientSends \/ ClientWorsens
    BY <1>5 DEF ClientReads, ClientSends, ClientWorsens, sides
  <1>6. CASE Tick  BY <1>6 DEF Tick, sides, Aged
  <1>7. CASE UNCHANGED vars  BY <1>7 DEF vars
  <1>8. QED  BY <1>1, <1>2, <1>3, <1>4, <1>5, <1>6, <1>7 DEF Next, LoopStep

\* A task that asks for the lock.
LEMMA Asks ==
  ASSUME Sender, NEW t \in Tasks, ~Queued(t), Waits(t)
  PROVE  /\ queue' \in Seq(Tasks) /\ IsInjective(queue)'
         /\ \A u : Queued(u)' <=> Queued(u) \/ u = t
  BY Joins DEF Sender, Waits, Queued

\* The holder of the lock that gives it up.
LEMMA Gives ==
  ASSUME Sender, NEW t \in Tasks, Holds(t), Unlocks
  PROVE  /\ queue' \in Seq(Tasks) /\ IsInjective(queue)'
         /\ \A u : Queued(u)' <=> Queued(u) /\ u # t
  BY Leaves DEF Sender, Holds, Unlocks, Queued

\* The queue of the lock.
LEMMA SenderKept == HeartbeatInv /\ [Next]_vars => Sender'
  <1> SUFFICES ASSUME HeartbeatInv, [Next]_vars PROVE Sender'  OBVIOUS
  <1> USE DEF HeartbeatInv
  <1>0. "monitor" \in Tasks /\ "subscriber" \in Tasks /\ "loop" \in Tasks  BY DEF Tasks
  <1>1. CASE UNCHANGED <<queue, sides>>
    BY <1>1 DEF Sender, Queued, sides
  <1>2. CASE MonitorTicks
    BY <1>2, <1>0, Asks DEF MonitorTicks, Sender
  <1>3. CASE MonitorPings
    BY <1>3, <1>0, Gives DEF MonitorPings, Sender
  <1>4. CASE MonitorChecks
    BY <1>4 DEF MonitorChecks, Sender, Queued
  <1>5. CASE MonitorDropped
    BY <1>5, <1>0, Dropped DEF MonitorDropped, Sender, Queued
  <1>6. CASE OutputArrives
    BY <1>6, <1>0, Asks DEF OutputArrives, Sender
  <1>7. CASE SubscriberSends
    BY <1>7, <1>0, Gives DEF SubscriberSends, Sender
  <1>8. CASE SubscriberDropped
    BY <1>8, <1>0, Dropped DEF SubscriberDropped, Sender, Queued
  <1>9. CASE LoopTakes
    <2>1. CASE UNCHANGED <<loop, queue>>  BY <1>9, <2>1 DEF LoopTakes, Sender, Queued
    <2>2. CASE loop' = "busy" /\ UNCHANGED queue
      BY <1>9, <2>2 DEF LoopTakes, Sender, Queued
    <2>3. CASE loop' = "reply" /\ Waits("loop")
      BY <1>9, <2>3, <1>0, Asks DEF LoopTakes, Sender
    <2>4. QED  BY <1>9, <2>1, <2>2, <2>3 DEF LoopTakes
  <1>10. CASE LoopWorked  BY <1>10, <1>0, Asks DEF LoopWorked, Sender
  <1>11. CASE LoopReplies  BY <1>11, <1>0, Gives DEF LoopReplies, Sender
  <1>12. CASE LoopSeesTimeout  BY <1>12, <1>0, Asks DEF LoopSeesTimeout, Sender
  <1>13. CASE LoopTells  BY <1>13, <1>0, Gives DEF LoopTells, Sender
  <1>14. CASE StreamEnded \/ TokenCancelled
    BY <1>14 DEF StreamEnded, TokenCancelled, Sender, Queued
  <1>15. CASE Abort  BY <1>15, <1>0, Asks DEF Abort, Sender
  <1>16. CASE Farewell
    <2> DEFINE q == Tail(queue)
    <2>1. q \in Seq(Tasks) /\ IsInjective(q) /\ Range(q) = Range(queue) \ {"loop"}
      BY <1>16, Leaves DEF Farewell, Holds, Sender
    <2> HIDE DEF q
    <2>2. /\ Append(q, "loop") \in Seq(Tasks) /\ IsInjective(Append(q, "loop"))
          /\ Range(Append(q, "loop")) = Range(queue) \union {"loop"}
      BY <2>1, <1>0, <1>16, Joins DEF Farewell, Sender, Queued
    <2>3. queue' = Append(q, "loop")  BY <1>16 DEF Farewell, q
    <2>4. QED  BY <1>16, <2>2, <2>3 DEF Farewell, Sender, Queued
  <1>17. CASE Close  BY <1>17, <1>0, Gives DEF Close, Sender
  <1>18. CASE ClientReads \/ ClientSends \/ ClientWorsens \/ Tick \/ UNCHANGED vars
    <2>1. UNCHANGED <<queue, sides>>
      BY <1>18 DEF ClientReads, ClientSends, ClientWorsens, Tick, vars, sides
    <2>2. QED  BY <2>1, <1>1
  <1>19. QED
    BY <1>2, <1>3, <1>4, <1>5, <1>6, <1>7, <1>8, <1>9, <1>10, <1>11, <1>12, <1>13, <1>14,
       <1>15, <1>16, <1>17, <1>18
    DEF Next, MonitorStep, SubscriberStep, LoopStep

\* A send leaves what is on the way bounded.
LEMMA SendsKeeps ==
  ASSUME Outward, NEW f \in {"data", "ping", "reply", "error", "disconnect", "close"},
         Sends(f)
  PROVE  Outward'
  <1>0. Bursts = BurstsIn(buffer) /\ Bursts' = BurstsIn(buffer')  BY DEF Bursts, BurstsIn
  <1>1. CASE buffer' = buffer  BY <1>1 DEF Outward, Bursts
  <1>2. CASE buffer' # buffer
    <2>1. /\ f \in Frames /\ buffer' = Append(buffer, f) /\ ~Full
          /\ f = "ping" => buffer = <<>> \/ Last(buffer) # "ping"
      BY <1>2 DEF Sends, Frames
    <2>2. /\ buffer' \in Seq(Frames) /\ Len(buffer') = Len(buffer) + 1
          /\ Len(buffer) \in Nat /\ buffer'[Len(buffer) + 1] = f
          /\ \A i \in 1..Len(buffer) : buffer'[i] = buffer[i]
      BY <2>1, AppendProperties, LenProperties DEF Outward
    <2>3. PingsApart(buffer')
      <3> SUFFICES ASSUME NEW i \in 1..Len(buffer') - 1,
                          buffer'[i] = "ping", buffer'[i+1] = "ping"
                   PROVE  FALSE
        BY DEF PingsApart
      <3>1. CASE i = Len(buffer)
        <4>1. f = "ping" /\ buffer[Len(buffer)] = "ping" /\ Len(buffer) # 0
          BY <2>2, <3>1
        <4>2. buffer # <<>>  BY <4>1
        <4>3. QED  BY <4>1, <4>2, <2>1 DEF Last
      <3>2. CASE i # Len(buffer)
        <4>1. i \in 1..Len(buffer) - 1 /\ i + 1 \in 1..Len(buffer) /\ i \in 1..Len(buffer)
          BY <3>2, <2>2
        <4>2. buffer[i] = "ping" /\ buffer[i+1] = "ping"  BY <4>1, <2>2
        <4>3. QED  BY <4>1, <4>2 DEF Outward, PingsApart
      <3>3. QED  BY <3>1, <3>2
    <2>4. Cardinality(Bursts') <= BufferSize
      <3>1. Cardinality(BurstsIn(buffer'))
              = IF f = "data" THEN Cardinality(Bursts) + 1 ELSE Cardinality(Bursts)
        BY <2>1, <1>0, BurstAdded DEF Outward
      <3>2. Cardinality(Bursts) \in Nat  BY <1>0, BurstsFinite DEF Outward
      <3>3. Cardinality(Bursts) < BufferSize  BY <2>1, <3>2, SizesAssumption DEF Full
      <3>4. QED  BY <1>0, <3>1, <3>2, <3>3, SizesAssumption
    <2>5. QED  BY <2>2, <2>3, <2>4 DEF Outward
  <1>3. QED  BY <1>1, <1>2

\* What is on the way to the client.
LEMMA OutwardKept == HeartbeatInv /\ [Next]_vars => Outward'
  <1> SUFFICES ASSUME HeartbeatInv, [Next]_vars PROVE Outward'  OBVIOUS
  <1> USE DEF HeartbeatInv
  <1>1. CASE UNCHANGED buffer  BY <1>1 DEF Outward, Bursts
  <1>2. CASE MonitorPings \/ SubscriberSends \/ LoopReplies \/ LoopTells \/ Farewell \/ Close
    <2>1. CASE UNCHANGED buffer  BY <2>1, <1>1
    <2>2. CASE \E f \in {"data", "ping", "reply", "error", "disconnect", "close"} : Sends(f)
      BY <2>2, SendsKeeps
    <2>3. QED
      BY <1>2, <2>1, <2>2
      DEF MonitorPings, SubscriberSends, LoopReplies, LoopTells, Farewell, Close, SendFails
  <1>3. CASE ClientReads
    <2>0. Bursts = BurstsIn(buffer) /\ Bursts' = BurstsIn(buffer')  BY DEF Bursts, BurstsIn
    <2>1. buffer # <<>> /\ buffer' = Tail(buffer)  BY <1>3 DEF ClientReads
    <2>2. /\ buffer' \in Seq(Frames) /\ Len(buffer') = Len(buffer) - 1 /\ Len(buffer) \in Nat
          /\ \A i \in 1..Len(buffer') : buffer'[i] = buffer[i+1]
      BY <2>1, HeadTailProperties, LenProperties DEF Outward
    <2>3. PingsApart(buffer')
      <3> SUFFICES ASSUME NEW i \in 1..Len(buffer') - 1, buffer'[i] = "ping"
                   PROVE  buffer'[i+1] # "ping"
        BY DEF PingsApart
      <3>1. /\ i + 1 \in 1..Len(buffer) - 1 /\ i + 1 \in 1..Len(buffer')
            /\ i \in 1..Len(buffer')
        BY <2>2
      <3>2. buffer[i+1] = "ping" /\ buffer'[i+1] = buffer[(i+1)+1]  BY <3>1, <2>2
      <3>3. QED  BY <3>1, <3>2 DEF Outward, PingsApart
    <2>4. Cardinality(Bursts') <= BufferSize
      <3>1. Cardinality(Bursts') <= Cardinality(Bursts)
        BY <2>0, <2>1, BurstRead DEF Outward
      <3>2. Cardinality(Bursts) \in Nat /\ Cardinality(Bursts') \in Nat
        BY <2>0, <2>2, BurstsFinite DEF Outward
      <3>3. QED  BY <3>1, <3>2, SizesAssumption DEF Outward
    <2>5. QED  BY <2>2, <2>3, <2>4 DEF Outward
  <1>4. CASE \/ MonitorTicks \/ MonitorChecks \/ MonitorDropped \/ OutputArrives
             \/ SubscriberDropped \/ LoopTakes \/ LoopWorked \/ LoopSeesTimeout
             \/ StreamEnded \/ TokenCancelled \/ Abort \/ ClientSends \/ ClientWorsens
             \/ Tick \/ UNCHANGED vars
    <2>1. UNCHANGED buffer
      BY <1>4
      DEF MonitorTicks, MonitorChecks, MonitorDropped, OutputArrives, SubscriberDropped,
          LoopTakes, LoopWorked, LoopSeesTimeout, StreamEnded, TokenCancelled, Abort,
          ClientSends, ClientWorsens, Tick, vars, way
    <2>2. QED  BY <2>1, <1>1
  <1>5. QED  BY <1>2, <1>3, <1>4 DEF Next, MonitorStep, SubscriberStep, LoopStep

\* What is left to read after a frame has been taken.
LEMMA FrameTaken ==
  ASSUME Inward, inbox # <<>>
  PROVE  /\ Tail(inbox) \in Seq({"pong", "ping", "request"})
         /\ Len(Tail(inbox)) <= InboxSize
         /\ "pong" \in Range(inbox) /\ Head(inbox) # "pong" => "pong" \in Range(Tail(inbox))
  <1> DEFINE u == Tail(inbox)
  <1>1. /\ u \in Seq({"pong", "ping", "request"}) /\ Len(u) = Len(inbox) - 1
        /\ Len(inbox) \in Nat \ {0} /\ \A i \in 1..Len(u) : u[i] = inbox[i+1]
        /\ Head(inbox) = inbox[1]
    BY HeadTailProperties, LenProperties, EmptySeq DEF Inward
  <1> HIDE DEF u
  <1>2. ASSUME "pong" \in Range(inbox), Head(inbox) # "pong" PROVE "pong" \in Range(u)
    <2>1. PICK i \in 1..Len(inbox) : inbox[i] = "pong"  BY <1>2, InRange DEF Inward
    <2>2. i - 1 \in 1..Len(u) /\ u[i-1] = "pong"  BY <1>1, <1>2, <2>1
    <2>3. QED  BY <1>1, <2>2, InRange
  <1>3. QED  BY <1>1, <1>2, SizesAssumption DEF u, Inward

\* What is left to read after a frame has come in.
LEMMA FrameComes ==
  ASSUME Inward, NEW f \in {"pong", "ping", "request"}
  PROVE  /\ Append(inbox, f) \in Seq({"pong", "ping", "request"})
         /\ Len(Append(inbox, f)) = Len(inbox) + 1 /\ Len(inbox) \in Nat
         /\ Range(Append(inbox, f)) = Range(inbox) \union {f}
  <1> DEFINE u == Append(inbox, f)
  <1>1. /\ u \in Seq({"pong", "ping", "request"}) /\ Len(u) = Len(inbox) + 1
        /\ Len(inbox) \in Nat /\ u[Len(inbox) + 1] = f
        /\ \A i \in 1..Len(inbox) : u[i] = inbox[i]
    BY AppendProperties, LenProperties DEF Inward
  <1> HIDE DEF u
  <1>2. DOMAIN u = 1..Len(u) /\ DOMAIN inbox = 1..Len(inbox)
    BY <1>1, LenProperties DEF Inward
  <1>3. Range(u) = Range(inbox) \union {f}  BY <1>1, <1>2 DEF Range
  <1>4. QED  BY <1>1, <1>3 DEF u

\* What is on the way from it.
LEMMA InwardKept == HeartbeatInv /\ [Next]_vars => Inward'
  <1> SUFFICES ASSUME HeartbeatInv, [Next]_vars PROVE Inward'  OBVIOUS
  <1> USE DEF HeartbeatInv
  <1>1. CASE UNCHANGED inbox  BY <1>1 DEF Inward
  <1>2. CASE LoopTakes
    <2>1. inbox # <<>> /\ inbox' = Tail(inbox)  BY <1>2 DEF LoopTakes
    <2>2. Len(Tail(inbox)) \in Nat  BY <2>1, FrameTaken, LenProperties
    <2>3. QED  BY <2>1, <2>2, FrameTaken, SizesAssumption DEF Inward
  <1>3. CASE ClientReads
    <2>1. \/ UNCHANGED inbox
          \/ "pong" \notin Range(inbox) /\ inbox' = Append(inbox, "pong")
      BY <1>3 DEF ClientReads
    <2>2. CASE "pong" \notin Range(inbox) /\ inbox' = Append(inbox, "pong")
      <3>1. Len(inbox) <= InboxSize  BY <2>2 DEF Inward
      <3>2. QED  BY <2>2, <3>1, FrameComes, SizesAssumption DEF Inward
    <2>3. QED  BY <2>1, <2>2, <1>1
  <1>4. CASE ClientSends
    <2>1. PICK f \in {"ping", "request"} : inbox' = Append(inbox, f)
      BY <1>4 DEF ClientSends
    <2>2. Len(inbox) < InboxSize  BY <1>4 DEF ClientSends
    <2>3. QED  BY <2>1, <2>2, FrameComes, SizesAssumption DEF Inward
  <1>5. CASE \/ MonitorStep \/ SubscriberStep \/ OutputArrives \/ LoopWorked \/ LoopReplies
             \/ LoopSeesTimeout \/ LoopTells \/ StreamEnded \/ TokenCancelled \/ Abort
             \/ Farewell \/ Close \/ ClientWorsens \/ Tick \/ UNCHANGED vars
    <2>1. UNCHANGED inbox
      BY <1>5
      DEF MonitorStep, MonitorTicks, MonitorPings, MonitorChecks, MonitorDropped,
          SubscriberStep, SubscriberSends, SubscriberDropped, OutputArrives, LoopWorked,
          LoopReplies, LoopSeesTimeout, LoopTells, StreamEnded, TokenCancelled, Abort,
          Farewell, Close, ClientWorsens, Tick, vars, way
    <2>2. QED  BY <2>1, <1>1
  <1>6. QED  BY <1>2, <1>3, <1>4, <1>5 DEF Next, LoopStep

-----------------------------------------------------------------------------
(* Time passes for a prompt client only when nothing of the exchange is    *)
(* left to do.                                                             *)

\* Nobody waits for a sender that has room.
LEMMA NothingLeftToDo ==
  ASSUME HeartbeatInv, Tick, ~Full
  PROVE  /\ monitor \notin {"send", "check"}
         /\ monitor = "sleep" => next > 0
         /\ loop \in {"select", "busy"} /\ (loop = "select" => inbox = <<>>)
  <1>1. queue = <<>>  BY DEF Tick, Settled
  <1>2. \A t : ~Queued(t)  BY <1>1 DEF Queued, Range
  <1>3. QED  BY <1>2 DEF Tick, Settled, HeartbeatInv, Sender, Scalars

\* An empty way is not full.
LEMMA EmptyHasRoom == buffer = <<>> => ~Full
  <1> SUFFICES ASSUME buffer = <<>> PROVE ~Full  OBVIOUS
  <1>1. Bursts = {}  BY DEF Bursts
  <1>2. QED  BY <1>1, FS_EmptySet, SizesAssumption DEF Full

\* Nothing can be found in an empty sequence.
LEMMA NothingInEmpty == Range(<<>>) = {}
  BY DEF Range

\* A ping or a pong is under way, or the last answer is fresh.
LEMMA AnswerKept == HeartbeatInv /\ [Next]_vars => AnswerUnderWay'
  <1> SUFFICES ASSUME HeartbeatInv, [Next]_vars, client' = "prompt", ~heldUp'
               PROVE  AnswerUnderWay'
    BY DEF AnswerUnderWay
  <1> USE DEF HeartbeatInv
  <1>0. /\ client = "prompt" /\ ~heldUp
        /\ next \in Int /\ silence \in Int /\ Interval \in Nat /\ Timeout \in Nat
        /\ Interval <= Timeout
    <2>1. client = "prompt"
      BY DEF Next, MonitorStep, MonitorTicks, MonitorPings, MonitorChecks, MonitorDropped,
          SubscriberStep, SubscriberSends, SubscriberDropped, OutputArrives, LoopStep,
          LoopTakes, LoopWorked, LoopReplies, LoopSeesTimeout, LoopTells, StreamEnded,
          TokenCancelled, Abort, Farewell, Close, ClientReads, ClientSends,
          ClientWorsens, Tick, vars
    <2>2. ~heldUp
      BY DEF Next, MonitorStep, MonitorTicks, MonitorPings, MonitorChecks, MonitorDropped,
          SubscriberStep, SubscriberSends, SubscriberDropped, OutputArrives, LoopStep,
          LoopTakes, LoopWorked, LoopReplies, LoopSeesTimeout, LoopTells, StreamEnded,
          TokenCancelled, Abort, Farewell, Close, ClientReads, ClientSends,
          ClientWorsens, Tick, vars
    <2>3. QED  BY <2>1, <2>2, TimesAssumption DEF Scalars, Aged
  <1>1. CASE monitor' = "aborted"  BY <1>1 DEF AnswerUnderWay
  <1>2. CASE UNCHANGED <<monitor, next, silence, way>>
    BY <1>0, <1>2 DEF AnswerUnderWay, way
  <1>3. CASE MonitorTicks
    BY <1>0, <1>3 DEF MonitorTicks, AnswerUnderWay
  <1>4. CASE MonitorPings
    <2>1. Sends("ping") /\ monitor' = "check" /\ UNCHANGED <<next, silence>>
      BY <1>0, <1>4 DEF MonitorPings, SendFails
    <2>2. "ping" \in Range(buffer')
      <3>1. CASE buffer' = Append(buffer, "ping")
        <4>1. /\ buffer' \in Seq(Frames) /\ Len(buffer') = Len(buffer) + 1
              /\ Len(buffer) \in Nat /\ buffer'[Len(buffer) + 1] = "ping"
          BY <3>1, AppendProperties, LenProperties DEF Outward, Frames
        <4>2. QED  BY <4>1, InRange
      <3>2. CASE buffer' = buffer /\ buffer # <<>> /\ Last(buffer) = "ping"
        <4>1. Len(buffer) \in 1..Len(buffer) /\ buffer[Len(buffer)] = "ping"
          BY <3>2, LenProperties, EmptySeq DEF Outward, Last
        <4>2. QED  BY <3>2, <4>1, InRange DEF Outward
      <3>3. QED  BY <1>0, <2>1, <3>1, <3>2 DEF Sends
    <2>3. QED  BY <1>0, <1>4, <2>1, <2>2 DEF MonitorPings, AnswerUnderWay
  <1>5. CASE MonitorChecks
    <2>1. monitor = "check" /\ UNCHANGED <<next, silence, buffer, inbox>>
      BY <1>5 DEF MonitorChecks, way
    <2>2. silence <= Interval  BY <1>0, <2>1 DEF AnswerUnderWay
    <2>3. monitor' = "sleep"  BY <1>0, <1>5, <2>2 DEF MonitorChecks
    <2>4. QED  BY <1>0, <2>1, <2>3 DEF AnswerUnderWay
  <1>6. CASE LoopTakes
    <2>1. inbox # <<>> /\ inbox' = Tail(inbox) /\ UNCHANGED <<monitor, next, buffer>>
      BY <1>6 DEF LoopTakes
    <2>2. CASE silence' = 0
      <3>1. next <= Interval  BY <1>0 DEF Scalars
      <3>2. QED  BY <1>0, <2>1, <2>2, <3>1 DEF AnswerUnderWay
    <2>3. CASE Head(inbox) = "request" /\ UNCHANGED silence
      <3>1. "pong" \in Range(inbox) => "pong" \in Range(inbox')
        BY <2>1, <2>3, FrameTaken
      <3>2. QED  BY <1>0, <2>1, <2>3, <3>1 DEF AnswerUnderWay
    <2>4. QED  BY <1>6, <2>2, <2>3 DEF LoopTakes
  <1>7. CASE SubscriberSends \/ LoopReplies \/ LoopTells \/ Farewell \/ Close
    <2>1. UNCHANGED <<monitor, next, silence, inbox>>
      BY <1>7 DEF SubscriberSends, LoopReplies, LoopTells, Farewell, Close
    <2>2. "ping" \in Range(buffer) => "ping" \in Range(buffer')
      <3>1. buffer' = buffer \/ buffer' = Append(buffer, "data")
        BY <1>7
        DEF SubscriberSends, LoopReplies, LoopTells, Farewell, Close, Sends, SendFails
      <3>2. ASSUME buffer' = Append(buffer, "data"), "ping" \in Range(buffer)
            PROVE  "ping" \in Range(buffer')
        <4>1. PICK i \in 1..Len(buffer) : buffer[i] = "ping"  BY <3>2, InRange DEF Outward
        <4>2. buffer' \in Seq(Frames) /\ i \in 1..Len(buffer') /\ buffer'[i] = "ping"
          BY <3>2, <4>1, AppendProperties, LenProperties DEF Outward, Frames
        <4>3. QED  BY <4>2, InRange
      <3>3. QED  BY <3>1, <3>2
    <2>3. QED  BY <1>0, <2>1, <2>2 DEF AnswerUnderWay
  <1>8. CASE ClientReads
    <2>1. buffer # <<>> /\ buffer' = Tail(buffer) /\ UNCHANGED <<monitor, next, silence>>
      BY <1>8 DEF ClientReads, sides
    <2>2. "pong" \in Range(inbox) => "pong" \in Range(inbox')
      BY <1>8, FrameComes DEF ClientReads
    <2>3. "ping" \in Range(buffer) => "ping" \in Range(buffer') \/ "pong" \in Range(inbox')
      <3>1. CASE Head(buffer) = "ping"
        BY <1>8, <3>1, FrameComes DEF ClientReads
      <3>2. ASSUME Head(buffer) # "ping", "ping" \in Range(buffer)
            PROVE  "ping" \in Range(buffer')
        <4>1. /\ buffer' \in Seq(Frames) /\ Len(buffer') = Len(buffer) - 1
              /\ Len(buffer) \in Nat \ {0} /\ Head(buffer) = buffer[1]
              /\ \A i \in 1..Len(buffer') : buffer'[i] = buffer[i+1]
          BY <2>1, HeadTailProperties, LenProperties, EmptySeq DEF Outward
        <4>2. PICK i \in 1..Len(buffer) : buffer[i] = "ping"  BY <3>2, InRange DEF Outward
        <4>3. i - 1 \in 1..Len(buffer') /\ buffer'[i-1] = "ping"  BY <3>2, <4>1, <4>2
        <4>4. QED  BY <4>1, <4>3, InRange
      <3>3. QED  BY <3>1, <3>2
    <2>4. QED  BY <1>0, <2>1, <2>2, <2>3 DEF AnswerUnderWay
  <1>9. CASE ClientSends
    <2>1. "pong" \in Range(inbox) => "pong" \in Range(inbox')
      BY <1>9, FrameComes DEF ClientSends
    <2>2. UNCHANGED <<monitor, next, silence, buffer>>  BY <1>9 DEF ClientSends, sides
    <2>3. QED  BY <1>0, <2>1, <2>2 DEF AnswerUnderWay
  <1>10. CASE Tick
    <2>1. buffer = <<>> /\ UNCHANGED <<monitor, loop, buffer, inbox>>
      BY <1>0, <1>10 DEF Tick, Settled, sides, way
    <2>2. /\ monitor \notin {"send", "check"} /\ (monitor = "sleep" => next > 0)
          /\ loop = "select" /\ inbox = <<>>
      BY <1>10, <2>1, EmptyHasRoom, NothingLeftToDo DEF Tick
    <2>3. monitor # "aborted" => 0 < next /\ silence + next <= Interval
      BY <1>0, <2>1, <2>2, NothingInEmpty DEF AnswerUnderWay, Scalars
    <2>4. next > 0 => next' = next - 1  BY <1>0, <1>10 DEF Tick
    <2>5. silence' <= silence + 1 /\ silence' \in Int
      BY <1>0, <1>10, TimesAssumption DEF Tick, Aged, Scalars
    <2>6. QED  BY <1>0, <2>1, <2>3, <2>4, <2>5 DEF AnswerUnderWay
  <1>11. CASE \/ SubscriberDropped \/ OutputArrives \/ LoopWorked \/ LoopSeesTimeout
              \/ StreamEnded \/ TokenCancelled \/ Abort \/ ClientWorsens \/ UNCHANGED vars
    <2>1. UNCHANGED <<monitor, next, silence, way>>
      BY <1>11
      DEF SubscriberDropped, OutputArrives, LoopWorked, LoopSeesTimeout, StreamEnded,
          TokenCancelled, Abort, ClientWorsens, vars, sides, way
    <2>2. QED  BY <2>1, <1>2
  <1>12. CASE MonitorDropped  BY <1>12, <1>1 DEF MonitorDropped
  <1>13. QED
    BY <1>3, <1>4, <1>5, <1>6, <1>7, <1>8, <1>9, <1>10, <1>11, <1>12
    DEF Next, MonitorStep, SubscriberStep, LoopStep

\* A silent client is found in time.
LEMMA FoundKept == HeartbeatInv /\ [Next]_vars => FoundInTime'
  <1> SUFFICES ASSUME HeartbeatInv, [Next]_vars, monitor' = "sleep", next' > 0
               PROVE  silence' <= Timeout + Interval - next'
    BY DEF FoundInTime
  <1> USE DEF HeartbeatInv
  <1>0. /\ next \in Int /\ silence \in Int /\ next <= Interval /\ 0 <= silence
        /\ Interval \in Nat /\ Timeout \in Nat
    BY TimesAssumption DEF Scalars, Aged
  <1>1. CASE UNCHANGED <<monitor, next, silence>>  BY <1>1 DEF FoundInTime
  <1>2. CASE MonitorChecks
    BY <1>0, <1>2 DEF MonitorChecks
  <1>3. CASE MonitorTicks \/ MonitorPings \/ MonitorDropped
    BY <1>3 DEF MonitorTicks, MonitorPings, MonitorDropped
  <1>4. CASE LoopTakes
    <2>1. UNCHANGED <<monitor, next>> /\ (silence' = 0 \/ UNCHANGED silence)
      BY <1>4 DEF LoopTakes
    <2>2. QED  BY <1>0, <2>1 DEF FoundInTime
  <1>5. CASE Tick
    <2>1. monitor = "sleep" /\ next > 0  BY <1>0, <1>5 DEF Tick, Settled, sides
    <2>2. next' = next - 1  BY <1>0, <1>5, <2>1 DEF Tick
    <2>3. silence' <= silence + 1 /\ silence' \in Int
      BY <1>0, <1>5, TimesAssumption DEF Tick, Aged, Scalars
    <2>4. QED  BY <1>0, <2>1, <2>2, <2>3 DEF FoundInTime
  <1>6. CASE \/ SubscriberStep \/ OutputArrives \/ LoopWorked \/ LoopReplies
             \/ LoopSeesTimeout \/ LoopTells \/ StreamEnded \/ TokenCancelled \/ Abort
             \/ Farewell \/ Close \/ ClientReads \/ ClientSends \/ ClientWorsens
             \/ UNCHANGED vars
    <2>1. UNCHANGED <<monitor, next, silence>>
      BY <1>6
      DEF SubscriberStep, SubscriberSends, SubscriberDropped, OutputArrives, LoopWorked,
          LoopReplies, LoopSeesTimeout, LoopTells, StreamEnded, TokenCancelled, Abort,
          Farewell, Close, ClientReads, ClientSends, ClientWorsens, vars, sides
    <2>2. QED  BY <2>1, <1>1
  <1>7. QED
    BY <1>2, <1>3, <1>4, <1>5, <1>6 DEF Next, MonitorStep, LoopStep

\* The invariant holds initially: the monitor sleeps, nothing is under way.
LEMMA HeartbeatInitially == Init => HeartbeatInv
  <1> SUFFICES ASSUME Init PROVE HeartbeatInv  OBVIOUS
  <1>1. Scalars
    <2>1. Interval \in -Interval..Interval /\ 0 \in 0..Aged  BY TimesAssumption DEF Aged
    <2>2. QED  BY <2>1 DEF Init, Scalars
  <1>2. Sender
    BY NothingInEmpty DEF Init, Sender, Queued, IsInjective
  <1>3. Outward
    <2>1. Bursts = {}  BY DEF Init, Bursts
    <2>2. QED
      BY <2>1, FS_EmptySet, SizesAssumption DEF Init, Outward, PingsApart
  <1>4. Inward  BY SizesAssumption DEF Init, Inward
  <1>5. AnswerUnderWay /\ FoundInTime
    BY TimesAssumption DEF Init, AnswerUnderWay, FoundInTime
  <1>6. QED  BY <1>1, <1>2, <1>3, <1>4, <1>5 DEF HeartbeatInv

LEMMA HeartbeatInvariant == Spec => []HeartbeatInv
  <1>1. HeartbeatInv /\ [Next]_vars => HeartbeatInv'
    BY ScalarsKept, SenderKept, OutwardKept, InwardKept, AnswerKept, FoundKept
    DEF HeartbeatInv
  <1>2. QED  BY <1>1, HeartbeatInitially, PTL DEF Spec

-----------------------------------------------------------------------------

\* The variables keep their types: no task is in the queue of the lock twice, and what
\* is on the way in either direction is bounded.
THEOREM TypesHold == Spec => []TypeOK
  BY HeartbeatInvariant, InvariantTypes, PTL

\* The monitor gives up on no client that reads and answers promptly, unless time has
\* passed while the loop was busy with a request.
THEOREM NobodyPromptIsDropped == Spec => []PromptClientIsKept
  <1>1. HeartbeatInv => PromptClientIsKept
    BY DEF HeartbeatInv, AnswerUnderWay, PromptClientIsKept
  <1>2. QED  BY <1>1, HeartbeatInvariant, PTL

\* No time passes beyond the timeout and one interval with a client that has been
\* silent that long, unless the monitor has ended or the way to the client is full.
THEOREM SilenceFound == Spec => SilenceIsNoticed
  <1>1. HeartbeatInv /\ [Next]_vars =>
          [Tick => silence < Timeout + Interval \/ monitor \in {"false", "aborted"} \/ Full]_vars
    <2> SUFFICES ASSUME HeartbeatInv, Tick, monitor \notin {"false", "aborted"}, ~Full
                 PROVE  silence < Timeout + Interval
      OBVIOUS
    <2>1. monitor = "sleep" /\ next > 0
      BY NothingLeftToDo DEF HeartbeatInv, Scalars
    <2>2. next \in Int /\ silence \in Int /\ Interval \in Nat /\ Timeout \in Nat
      BY TimesAssumption DEF HeartbeatInv, Scalars, Aged
    <2>3. QED  BY <2>1, <2>2 DEF HeartbeatInv, FoundInTime
  <1>2. QED  BY <1>1, HeartbeatInvariant, PTL DEF Spec, SilenceIsNoticed
=============================================================================
