----------------------------- MODULE SessionsProofs -----------------------------
(***************************************************************************)
(* The session manager for every set of connections and sessions, every    *)
(* mode and every pair of limits: types, and the safety invariants of      *)
(* module Sessions.                                                        *)
(***************************************************************************)
EXTENDS Sessions, TLAPS

\* Phases in which run_session holds an Arc<Session>.
Holding == {"creating", "found", "added", "started", "live", "leaving", "reclaiming"}

\* A handler holds a session exactly in those phases.
HoldersHold == \A c \in Conns : sess[c] # NoSession <=> pc[c] \in Holding

\* Only sessions that were created have a trace in any other variable.
TracesAreBorn ==
    /\ mapped \cup deleting \cup cancelled \subseteq born
    /\ \A c \in Conns : sess[c] # NoSession => sess[c] \in born
    /\ \A s \in Sessions \ born : clients[s] = {} /\ reader[s] = {}
    /\ \A s \in Sessions \ born, c \in Conns : task[s][c] = "none"

\* A session that is not published yet is known to its creator only.
UnpublishedIsPrivate ==
    \A c \in Conns : pc[c] = "creating" =>
        /\ sess[c] \notin mapped \cup deleting \cup cancelled
        /\ clients[sess[c]] = {}
        /\ \A d \in Conns : sess[d] = sess[c] => d = c

\* What the cleanup task is at: a session to look at, or one it has shut down.
CleanerIsAt ==
    /\ cleaner.pc = "probe" => cleaner.cur \in Sessions
    /\ cleaner.pc = "clear" => cleaner.cur \in cancelled

\* The handle is that of the reader that goes on, and of every reader there was if
\* the session was not shut down; only a shutdown aborts one.
ReaderIsHeld ==
    \A s \in Sessions, c \in Conns :
        /\ task[s][c] \in Unaborted => reader[s] = {c}
        /\ task[s][c] # "none" /\ s \notin cancelled
             => reader[s] = {c} /\ task[s][c] # "aborted"
        /\ c \in reader[s] => task[s][c] # "none"

IInv ==
    /\ TypeOK
    /\ HoldersHold
    /\ TracesAreBorn
    /\ UnpublishedIsPrivate
    /\ CleanerIsAt
    /\ ReaderIsHeld
    /\ FindableIsUsable
    /\ RegisteredIsServed
    /\ ServedIsRegistered
    /\ OneReaderUntilShutDown
    /\ IsolatedIsExclusive
    /\ IsolatedIsReclaimed

-----------------------------------------------------------------------------

LEMMA IdleCapNat == IdleCap \in Nat
  BY LimitsAssumption DEF IdleCap

\* What remove_if_empty removes is a set of mapped sessions without clients.
LEMMA RemoveIfEmptyIsShutDown ==
  ASSUME NEW s, RemoveIfEmpty(s)
  PROVE  \E gone \in SUBSET mapped :
            /\ gone \subseteq {s}
            /\ \A x \in gone : clients[x] = {}
            /\ s \in mapped /\ clients[s] = {} => s \in gone
            /\ mapped' = mapped \ gone
            /\ ShutDown(gone)
  <1> DEFINE gone == {x \in mapped : x = s /\ clients[x] = {}}
  <1>1. mapped' = mapped \ gone /\ ShutDown(gone)  BY DEF RemoveIfEmpty
  <1> HIDE DEF RemoveIfEmpty
  <1>2. /\ gone \in SUBSET mapped /\ gone \subseteq {s}
        /\ \A x \in gone : clients[x] = {}
        /\ s \in mapped /\ clients[s] = {} => s \in gone
    OBVIOUS
  <1> HIDE DEF gone
  <1>3. QED  BY <1>1, <1>2

\* Shutting sessions down keeps the types of what it changes.
LEMMA ShutDownTypes ==
  ASSUME TypeOK, NEW S \in SUBSET Sessions, ShutDown(S)
  PROVE  /\ cancelled' \in SUBSET Sessions /\ output' \in SUBSET Sessions
         /\ reader' \in [Sessions -> SUBSET Conns]
         /\ task' \in [Sessions -> [Conns -> TaskStates]]
  BY DEF TypeOK, ShutDown, TaskStates

\* What a shutdown does to the readers: it aborts those it has the handle of.
LEMMA ShutDownReaders ==
  ASSUME TypeOK, ReaderIsHeld, NEW S \in SUBSET Sessions, ShutDown(S)
  PROVE  /\ ReaderIsHeld'
         /\ \A s \in Sessions : reader'[s] \subseteq reader[s]
         /\ \A s \in Sessions, c \in Conns :
              /\ task'[s][c] = "none" <=> task[s][c] = "none"
              /\ task'[s][c] \in Unaborted => task[s][c] \in Unaborted
              /\ s \notin S => task'[s][c] = task[s][c]
  <1>1. \A s \in Sessions : reader'[s] = IF s \in S THEN {} ELSE reader[s]
    BY DEF ShutDown
  <1>2. \A s \in Sessions, c \in Conns :
          task'[s][c] = IF s \in S /\ c \in reader[s] /\ task[s][c] \in Unaborted
                        THEN "aborted" ELSE task[s][c]
    BY DEF ShutDown
  <1>3. cancelled' = cancelled \cup S  BY DEF ShutDown
  <1>4. ReaderIsHeld'
    BY <1>1, <1>2, <1>3 DEF ReaderIsHeld, Unaborted
  <1>5. QED  BY <1>1, <1>2, <1>4 DEF Unaborted

\* An activity keeps the types of the ages.
LEMMA TouchTypes ==
  ASSUME TypeOK, NEW s
  PROVE  /\ TouchScan(s) \in Cleaners
         /\ Touch(s) => idle' \in [Sessions -> 0..IdleCap]
  <1>1. 0 \in 0..IdleCap  BY IdleCapNat
  <1>2. [cleaner.age EXCEPT ![s] = 0] \in [Sessions -> 0..IdleCap]
    BY <1>1 DEF TypeOK, Cleaners
  <1>3. TouchScan(s) \in Cleaners
    BY <1>2 DEF TypeOK, Cleaners, TouchScan
  <1>4. QED  BY <1>1, <1>3 DEF TypeOK, Touch

\* Types: the steps of a handler.
LEMMA HandlerTypes ==
  ASSUME TypeOK, HoldersHold, NEW c \in Conns, HandlerStep(c) \/ ClientStep(c)
  PROVE  TypeOK'
  <1> USE DEF Phases
  <1>1. CASE Create(c)
    BY <1>1, TouchTypes DEF TypeOK, Create
  <1>2. CASE CreateFails(c)
    BY <1>2 DEF TypeOK, CreateFails, sessionVars
  <1>3. CASE Publish(c)
    BY <1>3 DEF TypeOK, Publish, sessionVars, HoldersHold, Holding
  <1>4. CASE Join(c)
    BY <1>4 DEF TypeOK, Join, sessionVars
  <1>5. CASE JoinRejected(c)
    BY <1>5 DEF TypeOK, JoinRejected, sessionVars
  <1>6. CASE AddClient(c)
    <2>1. /\ \/ clients' = [clients EXCEPT ![sess[c]] = @ \cup {c}]
             \/ UNCHANGED clients
          /\ \E p \in {"closed", "added"} : pc' = [pc EXCEPT ![c] = p]
          /\ sess' = [sess EXCEPT ![c] = NoSession] \/ UNCHANGED sess
      BY <1>6 DEF AddClient
    <2>2. /\ clients' \in [Sessions -> SUBSET Conns]
          /\ pc' \in [Conns -> Phases]
          /\ sess' \in [Conns -> Sessions \cup {NoSession}]
      BY <2>1 DEF TypeOK
    <2>3. idle' \in [Sessions -> 0..IdleCap] /\ cleaner' \in Cleaners
      BY <1>6, TouchTypes DEF TypeOK, AddClient
    <2>4. QED  BY <1>6, <2>2, <2>3 DEF TypeOK, AddClient
  <1>7. CASE StartReader(c)
    <2>1. reader' \in [Sessions -> SUBSET Conns] /\ revived' \in SUBSET Sessions
      BY <1>7 DEF TypeOK, StartReader
    <2>2. task' \in [Sessions -> [Conns -> TaskStates]]
      <3>1. task' = [task EXCEPT ![sess[c]][c] = "starting"] \/ task' = task
        BY <1>7 DEF StartReader
      <3>2. sess[c] \in Sessions
        BY <1>7 DEF StartReader, HoldersHold, Holding, TypeOK
      <3>3. [task[sess[c]] EXCEPT ![c] = "starting"] \in [Conns -> TaskStates]
        BY <3>2 DEF TypeOK, TaskStates
      <3>4. QED  BY <3>1, <3>2, <3>3 DEF TypeOK
    <2>3. pc' \in [Conns -> Phases]
      BY <1>7 DEF TypeOK, StartReader
    <2>4. QED  BY <1>7, <2>1, <2>2, <2>3 DEF TypeOK, StartReader
  <1>8. CASE WriterFails(c)
    BY <1>8 DEF TypeOK, WriterFails, sessionVars
  <1>9. CASE EnterLoop(c)
    BY <1>9 DEF TypeOK, EnterLoop, sessionVars
  <1>10. CASE Input(c)
    BY <1>10, TouchTypes DEF TypeOK, Input, connVars
  <1>11. CASE InputFails(c)
    BY <1>11 DEF TypeOK, InputFails
  <1>12. CASE Leave(c)
    BY <1>12 DEF TypeOK, Leave, sessionVars
  <1>13. CASE ObserveCancel(c)
    BY <1>13 DEF TypeOK, ObserveCancel, sessionVars
  <1>14. CASE RemoveClient(c)
    BY <1>14, TouchTypes DEF TypeOK, RemoveClient, Deregister
  <1>15. CASE Reclaim(c)
    <2>1. PICK gone \in SUBSET mapped : mapped' = mapped \ gone /\ ShutDown(gone)
      BY <1>15, RemoveIfEmptyIsShutDown DEF Reclaim
    <2>2. gone \in SUBSET Sessions  BY DEF TypeOK
    <2>3. QED  BY <1>15, <2>1, <2>2, ShutDownTypes DEF TypeOK, Reclaim
  <1>16. QED
    BY <1>1, <1>2, <1>3, <1>4, <1>5, <1>6, <1>7, <1>8, <1>9, <1>10, <1>11, <1>12,
       <1>13, <1>14, <1>15 DEF HandlerStep, ClientStep

\* Types: the steps of the cleanup task.
LEMMA CleanerTypes ==
  ASSUME TypeOK, CleanerIsAt, CleanerStep
  PROVE  TypeOK'
  <1>1. CASE ScanStart
    <2>1. [s \in Sessions |-> IF s \in mapped THEN idle[s] ELSE 0]
            \in [Sessions -> 0..IdleCap]
      BY IdleCapNat DEF TypeOK
    <2>2. cleaner' \in Cleaners
      BY <1>1, <2>1 DEF ScanStart, TypeOK, Cleaners
    <2>3. QED  BY <1>1, <2>2 DEF ScanStart, TypeOK, sessionVars, connVars
  <1>2. CASE ScanActivity
    <2>1. PICK s \in cleaner.todo :
            cleaner' = [cleaner EXCEPT !.pc = "probe", !.todo = @ \ {s}, !.age[s] = 0,
                                       !.cur = s, !.curAge = cleaner.age[s]]
      BY <1>2 DEF ScanActivity
    <2>2. s \in Sessions  BY DEF TypeOK, Cleaners
    <2>3. [cleaner.age EXCEPT ![s] = 0] \in [Sessions -> 0..IdleCap]
      BY IdleCapNat DEF TypeOK, Cleaners
    <2>4. cleaner' \in Cleaners
      BY <2>1, <2>2, <2>3 DEF TypeOK, Cleaners
    <2>5. QED  BY <1>2, <2>4 DEF ScanActivity, TypeOK, sessionVars, connVars
  <1>3. CASE ScanClients
    <2>1. PICK empties \in SUBSET Sessions, stales \in SUBSET Sessions :
            cleaner' = [cleaner EXCEPT !.pc = NextPc(cleaner.todo, empties, stales),
                           !.cur = NoSession, !.curAge = 0,
                           !.empties = empties, !.stales = stales]
      <3> DEFINE s == cleaner.cur
                 empties == cleaner.empties \cup
                     (IF EmptyTooLong(s, cleaner.curAge) THEN {s} ELSE {})
                 stales == cleaner.stales \cup
                     (IF IdleTooLong(s, cleaner.curAge) THEN {s} ELSE {})
      <3>1. s \in Sessions  BY <1>3 DEF ScanClients, CleanerIsAt
      <3>2. cleaner.empties \in SUBSET Sessions /\ cleaner.stales \in SUBSET Sessions
        BY DEF TypeOK, Cleaners
      <3>3. empties \in SUBSET Sessions /\ stales \in SUBSET Sessions
        BY <3>1, <3>2
      <3>4. QED  BY <1>3, <3>3 DEF ScanClients
    <2>2. NextPc(cleaner.todo, empties, stales) \in {"scan", "remove", "idle"}
      BY DEF NextPc
    <2>3. 0 \in 0..IdleCap  BY IdleCapNat
    <2>4. cleaner' \in Cleaners
      BY <2>1, <2>2, <2>3 DEF TypeOK, Cleaners
    <2>5. QED  BY <1>3, <2>4 DEF ScanClients, TypeOK, sessionVars, connVars
  <1>4. CASE RemoveEmpty
    <2>1. PICK s \in cleaner.empties :
            /\ RemoveIfEmpty(s)
            /\ cleaner' = [cleaner EXCEPT !.empties = @ \ {s},
                              !.pc = NextPc({}, cleaner.empties \ {s}, cleaner.stales)]
      BY <1>4 DEF RemoveEmpty
    <2>2. PICK gone \in SUBSET mapped : mapped' = mapped \ gone /\ ShutDown(gone)
      BY <2>1, RemoveIfEmptyIsShutDown
    <2>3. gone \in SUBSET Sessions  BY DEF TypeOK
    <2>4. cleaner' \in Cleaners  BY <2>1 DEF TypeOK, Cleaners, NextPc
    <2>5. QED
      BY <1>4, <2>2, <2>3, <2>4, ShutDownTypes DEF RemoveEmpty, TypeOK, connVars
  <1>5. CASE RemoveStale
    <2>1. PICK s \in cleaner.stales :
            IF s \in mapped
            THEN /\ mapped' = mapped \ {s}
                 /\ ShutDown({s})
                 /\ cleaner' = [cleaner EXCEPT !.pc = "clear", !.cur = s,
                                               !.stales = @ \ {s}]
            ELSE /\ cleaner' = [cleaner EXCEPT !.stales = @ \ {s},
                                    !.pc = NextPc({}, {}, cleaner.stales \ {s})]
                 /\ UNCHANGED <<mapped, output, cancelled, reader, task>>
      BY <1>5 DEF RemoveStale
    <2>2. s \in Sessions  BY DEF TypeOK, Cleaners
    <2>3. CASE s \in mapped
      <3>1. cleaner' \in Cleaners
        <4>1. cleaner' = [cleaner EXCEPT !.pc = "clear", !.cur = s, !.stales = @ \ {s}]
          BY <2>1, <2>3
        <4>2. QED  BY <2>2, <4>1 DEF TypeOK, Cleaners
      <3>2. {s} \in SUBSET Sessions  BY <2>2
      <3>3. QED
        BY <1>5, <2>1, <2>3, <3>1, <3>2, ShutDownTypes DEF RemoveStale, TypeOK, connVars
    <2>4. CASE s \notin mapped
      <3>1. NextPc({}, {}, cleaner.stales \ {s}) \in {"scan", "remove", "idle"}
        BY DEF NextPc
      <3>2. cleaner' \in Cleaners
        <4>1. cleaner' = [cleaner EXCEPT !.stales = @ \ {s},
                                         !.pc = NextPc({}, {}, cleaner.stales \ {s})]
          BY <2>1, <2>4
        <4>2. QED  BY <3>1, <4>1 DEF TypeOK, Cleaners
      <3>3. QED  BY <1>5, <2>1, <2>4, <3>2 DEF RemoveStale, TypeOK, connVars
    <2>5. QED  BY <2>3, <2>4
  <1>6. CASE ClearStale
    <2>1. cleaner' \in Cleaners
      BY <1>6 DEF ClearStale, TypeOK, Cleaners, NextPc
    <2>2. QED  BY <1>6, <2>1 DEF ClearStale, TypeOK, connVars
  <1>7. QED
    BY <1>1, <1>2, <1>3, <1>4, <1>5, <1>6 DEF CleanerStep

\* Types: every other step.
LEMMA OtherTypes ==
  ASSUME TypeOK,
         \/ \E s \in Sessions, c \in Conns : ReaderStep(s, c) \/ ReaderEof(s, c)
         \/ \E s \in Sessions : ApiRemove(s) \/ ApiShutDown(s)
         \/ StopSignal \/ ManagerShutDown \/ Tick \/ UNCHANGED vars
  PROVE  TypeOK'
  <1>1. ASSUME NEW s \in Sessions, NEW c \in Conns, ReaderStep(s, c) \/ ReaderEof(s, c)
        PROVE  TypeOK'
    <2>1. /\ \E x \in {"reading", "ended"} : task' = [task EXCEPT ![s][c] = x]
          /\ output' \subseteq output
          /\ UNCHANGED <<mapped, born, clients, idle, cancelled, reader, connVars, cleaner,
                         deleting, server, revived>>
      BY <1>1 DEF ReaderStep, ReaderRegisters, ReaderGivesUp, AbortedStops, ReaderEof
    <2>2. task' \in [Sessions -> [Conns -> TaskStates]]
      BY <2>1 DEF TypeOK, TaskStates
    <2>3. QED  BY <2>1, <2>2 DEF TypeOK, connVars
  <1>2. ASSUME NEW s \in Sessions, ApiRemove(s) PROVE TypeOK'
    BY <1>2 DEF ApiRemove, TypeOK, sessionVars, connVars
  <1>3. ASSUME NEW s \in Sessions, ApiShutDown(s) PROVE TypeOK'
    BY <1>3, ShutDownTypes DEF ApiShutDown, TypeOK, connVars
  <1>4. CASE StopSignal
    BY <1>4 DEF StopSignal, TypeOK, sessionVars, connVars
  <1>5. CASE ManagerShutDown
    <2>1. IdleCleaner \in Cleaners
      BY IdleCapNat DEF IdleCleaner, Cleaners
    <2>2. mapped \in SUBSET Sessions  BY DEF TypeOK
    <2>3. QED
      BY <1>5, <2>1, <2>2, ShutDownTypes DEF ManagerShutDown, TypeOK, connVars
  <1>6. CASE Tick
    <2>1. idle' \in [Sessions -> 0..IdleCap]
      BY <1>6, IdleCapNat DEF Tick, TypeOK
    <2>2. QED  BY <1>6, <2>1 DEF Tick, TypeOK, connVars
  <1>7. CASE UNCHANGED vars
    BY <1>7 DEF TypeOK, vars, sessionVars, connVars
  <1>8. QED  BY <1>1, <1>2, <1>3, <1>4, <1>5, <1>6, <1>7

LEMMA TypesKept ==
  ASSUME TypeOK, HoldersHold, CleanerIsAt, [Next]_vars PROVE TypeOK'
  BY HandlerTypes, CleanerTypes, OtherTypes DEF Next

-----------------------------------------------------------------------------
\* A step that spawns no reader, aborts those of cancelled sessions only and makes
\* no handler serve a session keeps one reader per session.
LEMMA OneReaderStays ==
  ASSUME OneReaderUntilShutDown, cancelled \subseteq cancelled',
         \A s \in Sessions, c \in Conns :
            /\ task'[s][c] = "none" <=> task[s][c] = "none"
            /\ task'[s][c] \in Unaborted => task[s][c] \in Unaborted
            /\ task'[s][c] = "aborted" => task[s][c] = "aborted" \/ s \in cancelled',
         \A c \in Conns : pc'[c] \in {"started", "live", "leaving"} =>
            pc[c] \in {"started", "live", "leaving"} /\ sess'[c] = sess[c]
  PROVE  OneReaderUntilShutDown'
  <1>1. \A s \in Sessions, c, d \in Conns :
          task'[s][c] \in Unaborted /\ task'[s][d] \in Unaborted => c = d
    BY DEF OneReaderUntilShutDown
  <1>2. \A s \in Sessions \ cancelled', c, d \in Conns :
          task'[s][c] # "none" /\ task'[s][d] # "none" => c = d /\ task'[s][c] # "aborted"
    BY DEF OneReaderUntilShutDown, Spawned
  <1>3. ASSUME NEW s \in Sessions \ cancelled', \A c \in Conns : task'[s][c] = "none",
               NEW c \in Conns, sess'[c] = s, pc'[c] \in {"started", "live", "leaving"}
        PROVE  FALSE
    BY <1>3 DEF OneReaderUntilShutDown, Spawned
  <1>4. QED  BY <1>1, <1>2, <1>3 DEF OneReaderUntilShutDown, Spawned

-----------------------------------------------------------------------------
\* Steps that leave sessions, registrations and handlers alone.

\* Nothing but output, ages, the cleaner's notes and the reader tasks changes.
LEMMA QuietKeeps ==
  ASSUME IInv, TypeOK', CleanerIsAt',
         UNCHANGED <<mapped, born, clients, cancelled, deleting, connVars>>,
         reader' = reader,
         \A s \in Sessions, c \in Conns :
            /\ task'[s][c] = "none" <=> task[s][c] = "none"
            /\ task'[s][c] = "aborted" => task[s][c] = "aborted"
            /\ task'[s][c] \in Unaborted => task[s][c] \in Unaborted
  PROVE  IInv'
  <1> USE DEF IInv, connVars
  <1>1. HoldersHold'  BY DEF HoldersHold
  <1>2. TracesAreBorn'  BY DEF TracesAreBorn
  <1>3. UnpublishedIsPrivate'  BY DEF UnpublishedIsPrivate
  <1>4. ReaderIsHeld'  BY DEF ReaderIsHeld
  <1>5. FindableIsUsable'  BY DEF FindableIsUsable
  <1>6. RegisteredIsServed'  BY DEF RegisteredIsServed
  <1>7. ServedIsRegistered'  BY DEF ServedIsRegistered
  <1>8. OneReaderUntilShutDown'  BY OneReaderStays
  <1>9. IsolatedIsExclusive'  BY DEF IsolatedIsExclusive
  <1>10. IsolatedIsReclaimed'  BY DEF IsolatedIsReclaimed
  <1>11. QED
    BY <1>1, <1>2, <1>3, <1>4, <1>5, <1>6, <1>7, <1>8, <1>9, <1>10

\* The reader tasks, the scan, a stop signal and time are quiet.
LEMMA QuietSteps ==
  ASSUME IInv, TypeOK',
         \/ \E s \in Sessions, c \in Conns : ReaderStep(s, c) \/ ReaderEof(s, c)
         \/ ScanStart \/ ScanActivity \/ ScanClients
         \/ StopSignal \/ Tick \/ UNCHANGED vars
         \/ \E c \in Conns : Input(c)
  PROVE  IInv'
  <1> USE DEF IInv
  <1>1. CASE \E s \in Sessions, c \in Conns : ReaderStep(s, c) \/ ReaderEof(s, c)
    <2>1. CleanerIsAt'
      <3>1. UNCHANGED <<cleaner, cancelled>>
        BY <1>1 DEF ReaderStep, ReaderRegisters, ReaderGivesUp, AbortedStops, ReaderEof
      <3>2. QED  BY <3>1 DEF CleanerIsAt
    <2>2. \A s \in Sessions, c \in Conns :
            /\ task'[s][c] = "none" <=> task[s][c] = "none"
            /\ task'[s][c] = "aborted" => task[s][c] = "aborted"
            /\ task'[s][c] \in Unaborted => task[s][c] \in Unaborted
      BY <1>1 DEF ReaderStep, ReaderRegisters, ReaderGivesUp, AbortedStops, ReaderEof,
                  TypeOK, Unaborted
    <2>3. UNCHANGED <<mapped, born, clients, cancelled, reader, deleting, connVars>>
      BY <1>1 DEF ReaderStep, ReaderRegisters, ReaderGivesUp, AbortedStops, ReaderEof
    <2>4. QED  BY <2>1, <2>2, <2>3, QuietKeeps
  <1>2. CASE ScanStart
    <2>1. CleanerIsAt'
      BY <1>2 DEF CleanerIsAt, ScanStart, TypeOK, Cleaners
    <2>2. QED  BY <1>2, <2>1, QuietKeeps DEF ScanStart, sessionVars
  <1>3. CASE ScanActivity
    <2>1. PICK s \in cleaner.todo :
            cleaner' = [cleaner EXCEPT !.pc = "probe", !.todo = @ \ {s}, !.age[s] = 0,
                                       !.cur = s, !.curAge = cleaner.age[s]]
      BY <1>3 DEF ScanActivity
    <2>2. cleaner'.pc = "probe" /\ cleaner'.cur = s /\ s \in Sessions
      BY <2>1 DEF TypeOK, Cleaners
    <2>3. CleanerIsAt'  BY <2>2 DEF CleanerIsAt
    <2>4. QED  BY <1>3, <2>3, QuietKeeps DEF ScanActivity, sessionVars
  <1>4. CASE ScanClients
    <2>1. cleaner'.pc \in {"scan", "remove", "idle"}
      BY <1>4 DEF ScanClients, NextPc, TypeOK, Cleaners
    <2>2. CleanerIsAt'  BY <2>1 DEF CleanerIsAt
    <2>3. QED  BY <1>4, <2>2, QuietKeeps DEF ScanClients, sessionVars
  <1>5. CASE StopSignal
    BY <1>5, QuietKeeps DEF StopSignal, sessionVars, CleanerIsAt
  <1>6. CASE Tick
    BY <1>6, QuietKeeps DEF Tick, CleanerIsAt
  <1>7. CASE UNCHANGED vars
    BY <1>7, QuietKeeps DEF vars, sessionVars, connVars, CleanerIsAt
  <1>8. CASE \E c \in Conns : Input(c)
    <2>1. CleanerIsAt'
      BY <1>8 DEF CleanerIsAt, Input, TouchScan, TypeOK, Cleaners
    <2>2. QED  BY <1>8, <2>1, QuietKeeps DEF Input
  <1>9. QED
    BY <1>1, <1>2, <1>3, <1>4, <1>5, <1>6, <1>7, <1>8

-----------------------------------------------------------------------------
\* Steps that shut sessions down.

\* The sessions in S leave the map or the pending deletions and are shut down.
Shuts(S) ==
    /\ ShutDown(S)
    /\ mapped' = mapped \ S /\ deleting' = deleting \ S
    /\ UNCHANGED <<born, clients, connVars>>

LEMMA ShutsKeeps ==
  ASSUME IInv, TypeOK', CleanerIsAt',
         NEW S \in SUBSET (mapped \cup deleting), Shuts(S)
  PROVE  IInv'
  <1>0. S \in SUBSET Sessions  BY DEF IInv, TypeOK
  <1>a. /\ ReaderIsHeld'
        /\ \A s \in Sessions : reader'[s] \subseteq reader[s]
        /\ \A s \in Sessions, c \in Conns :
             /\ task'[s][c] = "none" <=> task[s][c] = "none"
             /\ task'[s][c] \in Unaborted => task[s][c] \in Unaborted
             /\ s \notin S => task'[s][c] = task[s][c]
    BY <1>0, ShutDownReaders DEF IInv, Shuts
  <1>b. cancelled' = cancelled \cup S  BY DEF Shuts, ShutDown
  <1> USE <1>b DEF IInv, connVars, Shuts
  <1>1. HoldersHold'  BY DEF HoldersHold
  <1>2. TracesAreBorn'  BY <1>a DEF TracesAreBorn
  <1>3. UnpublishedIsPrivate'  BY DEF UnpublishedIsPrivate
  <1>4. ReaderIsHeld'  BY <1>a
  <1>5. FindableIsUsable'  BY DEF FindableIsUsable
  <1>6. RegisteredIsServed'  BY DEF RegisteredIsServed
  <1>7. ServedIsRegistered'  BY DEF ServedIsRegistered
  <1>8. OneReaderUntilShutDown'
    BY <1>a, OneReaderStays
  <1>9. IsolatedIsExclusive'  BY DEF IsolatedIsExclusive
  <1>10. IsolatedIsReclaimed'  BY DEF IsolatedIsReclaimed
  <1>11. QED
    BY <1>1, <1>2, <1>3, <1>4, <1>5, <1>6, <1>7, <1>8, <1>9, <1>10

LEMMA ShuttingSteps ==
  ASSUME IInv, TypeOK',
         \/ RemoveEmpty \/ RemoveStale \/ ManagerShutDown
         \/ \E s \in Sessions : ApiShutDown(s)
  PROVE  IInv'
  <1> USE DEF IInv
  <1>1. CASE RemoveEmpty
    <2>1. PICK s \in cleaner.empties :
            /\ RemoveIfEmpty(s)
            /\ cleaner' = [cleaner EXCEPT !.empties = @ \ {s},
                              !.pc = NextPc({}, cleaner.empties \ {s}, cleaner.stales)]
      BY <1>1 DEF RemoveEmpty
    <2>2. PICK gone \in SUBSET mapped : mapped' = mapped \ gone /\ ShutDown(gone)
      BY <2>1, RemoveIfEmptyIsShutDown
    <2>3. Shuts(gone)
      BY <1>1, <2>2 DEF RemoveEmpty, Shuts, FindableIsUsable
    <2>4. cleaner'.pc \in {"scan", "remove", "idle"}
      BY <2>1 DEF NextPc, TypeOK, Cleaners
    <2>5. CleanerIsAt'  BY <2>4 DEF CleanerIsAt
    <2>6. QED  BY <2>3, <2>5, ShutsKeeps
  <1>2. CASE RemoveStale
    <2>1. PICK s \in cleaner.stales :
            IF s \in mapped
            THEN /\ mapped' = mapped \ {s}
                 /\ ShutDown({s})
                 /\ cleaner' = [cleaner EXCEPT !.pc = "clear", !.cur = s,
                                               !.stales = @ \ {s}]
            ELSE /\ cleaner' = [cleaner EXCEPT !.stales = @ \ {s},
                                    !.pc = NextPc({}, {}, cleaner.stales \ {s})]
                 /\ UNCHANGED <<mapped, output, cancelled, reader, task>>
      BY <1>2 DEF RemoveStale
    <2>2. UNCHANGED <<born, clients, connVars, deleting>>
      BY <1>2 DEF RemoveStale
    <2>3. CASE s \in mapped
      <3>1. mapped' = mapped \ {s} /\ ShutDown({s})  BY <2>1, <2>3
      <3>2. cleaner' = [cleaner EXCEPT !.pc = "clear", !.cur = s, !.stales = @ \ {s}]
        BY <2>1, <2>3
      <3>3. CleanerIsAt'
        BY <3>1, <3>2 DEF CleanerIsAt, ShutDown, TypeOK, Cleaners
      <3>4. Shuts({s})  BY <2>2, <2>3, <3>1 DEF Shuts, FindableIsUsable
      <3>5. QED  BY <2>3, <3>3, <3>4, ShutsKeeps
    <2>4. CASE s \notin mapped
      <3>1. UNCHANGED <<mapped, output, cancelled, reader, task>>  BY <2>1, <2>4
      <3>2. cleaner' = [cleaner EXCEPT !.stales = @ \ {s},
                                       !.pc = NextPc({}, {}, cleaner.stales \ {s})]
        BY <2>1, <2>4
      <3>3. cleaner'.pc \in {"scan", "remove", "idle"}
        BY <3>2 DEF NextPc, TypeOK, Cleaners
      <3>4. CleanerIsAt'  BY <3>3 DEF CleanerIsAt
      <3>5. QED  BY <2>2, <3>1, <3>4, QuietKeeps
    <2>5. QED  BY <2>3, <2>4
  <1>3. CASE ManagerShutDown
    <2>1. CleanerIsAt'
      BY <1>3 DEF ManagerShutDown, CleanerIsAt, IdleCleaner
    <2>2. Shuts(mapped)
      BY <1>3 DEF ManagerShutDown, Shuts, FindableIsUsable
    <2>3. QED  BY <2>1, <2>2, ShutsKeeps
  <1>4. ASSUME NEW s \in Sessions, ApiShutDown(s) PROVE IInv'
    <2>1. CleanerIsAt'
      BY <1>4 DEF ApiShutDown, CleanerIsAt, ShutDown
    <2>2. Shuts({s}) /\ s \in deleting
      BY <1>4 DEF ApiShutDown, Shuts, FindableIsUsable
    <2>3. QED  BY <2>1, <2>2, ShutsKeeps
  <1>5. QED  BY <1>1, <1>2, <1>3, <1>4

\* The clients of a session that was shut down are cleared.
LEMMA ClearStaleKeeps == ASSUME IInv, TypeOK', ClearStale PROVE IInv'
  <1> USE DEF IInv, connVars, ClearStale
  <1>1. HoldersHold'  BY DEF HoldersHold
  <1>2. TracesAreBorn'  BY DEF TracesAreBorn, TypeOK
  <1>3. UnpublishedIsPrivate'  BY DEF UnpublishedIsPrivate, TypeOK, HoldersHold, Holding
  <1>4. CleanerIsAt'
    <2>1. cleaner'.pc \in {"scan", "remove", "idle"}  BY DEF NextPc, TypeOK, Cleaners
    <2>2. QED  BY <2>1 DEF CleanerIsAt
  <1>5. ReaderIsHeld'  BY DEF ReaderIsHeld
  <1>6. FindableIsUsable'  BY DEF FindableIsUsable
  <1>7. RegisteredIsServed'  BY DEF RegisteredIsServed, TypeOK
  <1>8. ServedIsRegistered'  BY DEF ServedIsRegistered, CleanerIsAt, TypeOK
  <1>9. OneReaderUntilShutDown'  BY OneReaderStays
  <1>10. IsolatedIsExclusive'  BY DEF IsolatedIsExclusive
  <1>11. IsolatedIsReclaimed'
    BY DEF IsolatedIsReclaimed, FindableIsUsable, CleanerIsAt, TypeOK
  <1>12. QED
    BY <1>1, <1>2, <1>3, <1>4, <1>5, <1>6, <1>7, <1>8, <1>9, <1>10, <1>11

\* A session about to be deleted only leaves the map.
LEMMA ApiRemoveKeeps ==
  ASSUME IInv, TypeOK', NEW s \in Sessions, ApiRemove(s) PROVE IInv'
  <1> USE DEF IInv, connVars, sessionVars, ApiRemove
  <1>1. HoldersHold'  BY DEF HoldersHold
  <1>2. TracesAreBorn'  BY DEF TracesAreBorn
  <1>3. UnpublishedIsPrivate'  BY DEF UnpublishedIsPrivate
  <1>4. CleanerIsAt'  BY DEF CleanerIsAt
  <1>5. ReaderIsHeld'  BY DEF ReaderIsHeld
  <1>6. FindableIsUsable'  BY DEF FindableIsUsable
  <1>7. RegisteredIsServed'  BY DEF RegisteredIsServed
  <1>8. ServedIsRegistered'  BY DEF ServedIsRegistered
  <1>9. OneReaderUntilShutDown'  BY OneReaderStays
  <1>10. IsolatedIsExclusive'  BY DEF IsolatedIsExclusive
  <1>11. IsolatedIsReclaimed'  BY DEF IsolatedIsReclaimed
  <1>12. QED
    BY <1>1, <1>2, <1>3, <1>4, <1>5, <1>6, <1>7, <1>8, <1>9, <1>10, <1>11

-----------------------------------------------------------------------------
\* Steps of a handler.

\* Steps that only move a handler between phases with the same obligations.
LEMMA MoveKeeps ==
  ASSUME IInv, TypeOK', NEW c \in Conns,
         \/ CreateFails(c) \/ JoinRejected(c) \/ EnterLoop(c)
         \/ InputFails(c) \/ Leave(c) \/ ObserveCancel(c)
  PROVE  IInv'
  <1>1. /\ UNCHANGED <<mapped, born, clients, cancelled, reader, task, deleting,
                       cleaner, sess>>
        /\ \A d \in Conns : d # c => pc'[d] = pc[d]
        /\ \/ pc[c] = "idle" /\ pc'[c] = "closed"
           \/ pc[c] = "started" /\ pc'[c] = "live"
           \/ pc[c] = "live" /\ pc'[c] = "leaving"
    BY DEF IInv, TypeOK, CreateFails, JoinRejected, EnterLoop, InputFails, Leave,
           ObserveCancel, sessionVars
  <1> USE <1>1 DEF IInv
  <1>2. HoldersHold'  BY DEF HoldersHold, Holding
  <1>3. TracesAreBorn'  BY DEF TracesAreBorn
  <1>4. UnpublishedIsPrivate'  BY DEF UnpublishedIsPrivate
  <1>5. CleanerIsAt'  BY DEF CleanerIsAt
  <1>6. ReaderIsHeld'  BY DEF ReaderIsHeld
  <1>7. FindableIsUsable'  BY DEF FindableIsUsable
  <1>8. RegisteredIsServed'  BY DEF RegisteredIsServed, Registered, TypeOK
  <1>9. ServedIsRegistered'  BY DEF ServedIsRegistered, Registered
  <1>10. OneReaderUntilShutDown'  BY OneReaderStays
  <1>11. IsolatedIsExclusive'  BY DEF IsolatedIsExclusive
  <1>12. IsolatedIsReclaimed'  BY DEF IsolatedIsReclaimed, TypeOK
  <1>13. QED
    BY <1>2, <1>3, <1>4, <1>5, <1>6, <1>7, <1>8, <1>9, <1>10, <1>11, <1>12

\* A new session: nobody else knows its id.
LEMMA CreateKeeps ==
  ASSUME IInv, TypeOK', NEW c \in Conns, Create(c) PROVE IInv'
  <1>1. PICK s \in Sessions \ born :
          /\ born' = born \cup {s}
          /\ sess' = [sess EXCEPT ![c] = s]
    BY DEF Create
  <1>2. /\ pc[c] = "idle" /\ pc' = [pc EXCEPT ![c] = "creating"]
        /\ UNCHANGED <<mapped, clients, cancelled, reader, task, cleaner, deleting>>
    BY DEF Create
  <1>3. s # NoSession  BY NoSessionAssumption
  <1>4. sess[c] = NoSession  BY <1>2 DEF IInv, HoldersHold, Holding
  <1> USE <1>1, <1>2, <1>3, <1>4 DEF IInv, TypeOK
  <1>5. HoldersHold'  BY DEF HoldersHold, Holding
  <1>6. TracesAreBorn'  BY DEF TracesAreBorn
  <1>7. UnpublishedIsPrivate'  BY DEF UnpublishedIsPrivate, TracesAreBorn
  <1>8. CleanerIsAt'  BY DEF CleanerIsAt
  <1>9. ReaderIsHeld'  BY DEF ReaderIsHeld
  <1>10. FindableIsUsable'  BY DEF FindableIsUsable
  <1>11. RegisteredIsServed'  BY DEF RegisteredIsServed, Registered
  <1>12. ServedIsRegistered'  BY DEF ServedIsRegistered, Registered
  <1>13. OneReaderUntilShutDown'  BY OneReaderStays
  <1>14. IsolatedIsExclusive'  BY DEF IsolatedIsExclusive, TracesAreBorn
  <1>15. IsolatedIsReclaimed'
    <2> SUFFICES ASSUME DefaultMode = "isolated", NEW x \in mapped
                 PROVE  \/ \E d \in Conns : sess'[d] = x
                        \/ \E d \in clients[x] : pc'[d] = "failed"
      BY DEF IsolatedIsReclaimed
    <2>1. x \in Sessions /\ x # NoSession  BY NoSessionAssumption
    <2>2. CASE \E d \in Conns : sess[d] = x
      <3>1. PICK d \in Conns : sess[d] = x  BY <2>2
      <3>2. d # c  BY <2>1, <3>1
      <3>3. sess'[d] = x  BY <3>1, <3>2
      <3>4. QED  BY <3>3
    <2>3. CASE \E d \in clients[x] : pc[d] = "failed"
      <3>1. PICK d \in clients[x] : pc[d] = "failed"  BY <2>3
      <3>2. d \in Conns /\ d # c  BY <2>1, <3>1
      <3>3. pc'[d] = "failed"  BY <3>1, <3>2
      <3>4. QED  BY <3>1, <3>3
    <2>4. QED  BY <2>2, <2>3 DEF IsolatedIsReclaimed
  <1>16. QED
    BY <1>5, <1>6, <1>7, <1>8, <1>9, <1>10, <1>11, <1>12, <1>13, <1>14, <1>15

\* The new session enters the map.
LEMMA PublishKeeps ==
  ASSUME IInv, TypeOK', NEW c \in Conns, Publish(c) PROVE IInv'
  <1>1. /\ pc[c] = "creating" /\ pc' = [pc EXCEPT ![c] = "found"]
        /\ mapped' = mapped \cup {sess[c]}
        /\ UNCHANGED <<born, clients, cancelled, reader, task, cleaner, deleting, sess>>
    BY DEF Publish, sessionVars
  <1>2. sess[c] \in Sessions /\ sess[c] # NoSession
    BY <1>1 DEF IInv, HoldersHold, Holding, TypeOK
  <1> USE <1>1, <1>2 DEF IInv, TypeOK
  <1>3. HoldersHold'  BY DEF HoldersHold, Holding
  <1>4. TracesAreBorn'  BY DEF TracesAreBorn
  <1>5. UnpublishedIsPrivate'  BY DEF UnpublishedIsPrivate
  <1>6. CleanerIsAt'  BY DEF CleanerIsAt
  <1>7. ReaderIsHeld'  BY DEF ReaderIsHeld
  <1>8. FindableIsUsable'  BY DEF FindableIsUsable, UnpublishedIsPrivate
  <1>9. RegisteredIsServed'  BY DEF RegisteredIsServed, Registered
  <1>10. ServedIsRegistered'  BY DEF ServedIsRegistered, Registered
  <1>11. OneReaderUntilShutDown'  BY OneReaderStays
  <1>12. IsolatedIsExclusive'  BY DEF IsolatedIsExclusive
  <1>13. IsolatedIsReclaimed'  BY DEF IsolatedIsReclaimed
  <1>14. QED
    BY <1>3, <1>4, <1>5, <1>6, <1>7, <1>8, <1>9, <1>10, <1>11, <1>12, <1>13

\* A shared session is joined.
LEMMA JoinKeeps ==
  ASSUME IInv, TypeOK', NEW c \in Conns, Join(c) PROVE IInv'
  <1>1. PICK s \in mapped : sess' = [sess EXCEPT ![c] = s]
    BY DEF Join
  <1>2. /\ pc[c] = "idle" /\ pc' = [pc EXCEPT ![c] = "found"]
        /\ DefaultMode # "isolated"
        /\ UNCHANGED <<mapped, born, clients, cancelled, reader, task, cleaner, deleting>>
    BY DEF Join, Joinable, sessionVars
  <1>3. s \in Sessions /\ s # NoSession  BY NoSessionAssumption DEF IInv, TypeOK
  <1> USE <1>1, <1>2, <1>3 DEF IInv, TypeOK
  <1>4. HoldersHold'  BY DEF HoldersHold, Holding
  <1>5. TracesAreBorn'  BY DEF TracesAreBorn
  <1>6. UnpublishedIsPrivate'  BY DEF UnpublishedIsPrivate, HoldersHold, Holding
  <1>7. CleanerIsAt'  BY DEF CleanerIsAt
  <1>8. ReaderIsHeld'  BY DEF ReaderIsHeld
  <1>9. FindableIsUsable'  BY DEF FindableIsUsable
  <1>10. RegisteredIsServed'  BY DEF RegisteredIsServed, Registered
  <1>11. ServedIsRegistered'  BY DEF ServedIsRegistered, Registered
  <1>12. OneReaderUntilShutDown'  BY OneReaderStays
  <1>13. IsolatedIsExclusive'  BY DEF IsolatedIsExclusive
  <1>14. IsolatedIsReclaimed'  BY DEF IsolatedIsReclaimed
  <1>15. QED
    BY <1>4, <1>5, <1>6, <1>7, <1>8, <1>9, <1>10, <1>11, <1>12, <1>13, <1>14

\* A client registers in the session it found, or is turned away.
LEMMA AddClientKeeps ==
  ASSUME IInv, TypeOK', NEW c \in Conns, AddClient(c) PROVE IInv'
  <1>1. CASE DefaultMode = "isolated" /\ clients[sess[c]] # {}
    <2>1. /\ pc[c] = "found" /\ pc' = [pc EXCEPT ![c] = "closed"]
          /\ sess' = [sess EXCEPT ![c] = NoSession]
          /\ UNCHANGED <<mapped, born, clients, cancelled, reader, task, cleaner,
                         deleting>>
      BY <1>1 DEF AddClient
    <2> USE <2>1 DEF IInv, TypeOK
    <2>2. HoldersHold'  BY DEF HoldersHold, Holding
    <2>3. TracesAreBorn'  BY DEF TracesAreBorn
    <2>4. UnpublishedIsPrivate'  BY NoSessionAssumption DEF UnpublishedIsPrivate, HoldersHold, Holding
    <2>5. CleanerIsAt'  BY DEF CleanerIsAt
    <2>6. ReaderIsHeld'  BY DEF ReaderIsHeld
    <2>7. FindableIsUsable'  BY DEF FindableIsUsable
    <2>8. RegisteredIsServed'  BY DEF RegisteredIsServed, Registered
    <2>9. ServedIsRegistered'  BY DEF ServedIsRegistered, Registered
    <2>10. OneReaderUntilShutDown'  BY OneReaderStays
    <2>11. IsolatedIsExclusive'  BY DEF IsolatedIsExclusive
    <2>12. IsolatedIsReclaimed'
      <3> SUFFICES ASSUME NEW x \in mapped
                   PROVE  \/ \E d \in Conns : sess'[d] = x
                          \/ \E d \in clients[x] : pc'[d] = "failed"
        BY DEF IsolatedIsReclaimed
      <3>1. x \in Sessions  OBVIOUS
      <3>2. CASE sess[c] = x
        <4>1. PICK d \in clients[x] : TRUE  BY <1>1, <3>2
        <4>2. d \in Conns  BY <3>1
        <4>3. (sess[d] = x /\ pc[d] \in Registered) \/ pc[d] = "failed"
          BY <3>1, <4>1 DEF RegisteredIsServed
        <4>4. CASE pc[d] = "failed"  BY <4>1, <4>2, <4>4
        <4>5. CASE sess[d] = x /\ pc[d] \in Registered
          <5>1. d # c  BY <4>5 DEF Registered
          <5>2. sess'[d] = x  BY <4>2, <4>5, <5>1
          <5>3. QED  BY <4>2, <5>2
        <4>6. QED  BY <4>3, <4>4, <4>5
      <3>3. CASE sess[c] # x
        <4>1. CASE \E d \in Conns : sess[d] = x
          <5>1. PICK d \in Conns : sess[d] = x  BY <4>1
          <5>2. d # c  BY <3>3, <5>1
          <5>3. sess'[d] = x  BY <5>1, <5>2
          <5>4. QED  BY <5>3
        <4>2. CASE \E d \in clients[x] : pc[d] = "failed"
          <5>1. PICK d \in clients[x] : pc[d] = "failed"  BY <4>2
          <5>2. d \in Conns /\ d # c  BY <3>1, <5>1
          <5>3. pc'[d] = "failed"  BY <5>1, <5>2
          <5>4. QED  BY <5>1, <5>3
        <4>3. QED  BY <1>1, <4>1, <4>2 DEF IsolatedIsReclaimed
      <3>4. QED  BY <3>2, <3>3
    <2>13. QED
      BY <2>2, <2>3, <2>4, <2>5, <2>6, <2>7, <2>8, <2>9, <2>10, <2>11, <2>12
  <1>2. CASE ~(DefaultMode = "isolated" /\ clients[sess[c]] # {})
    <2>1. /\ pc[c] = "found" /\ pc' = [pc EXCEPT ![c] = "added"]
          /\ clients' = [clients EXCEPT ![sess[c]] = @ \cup {c}]
          /\ cleaner' = TouchScan(sess[c])
          /\ UNCHANGED <<mapped, born, cancelled, reader, task, sess, deleting>>
      BY <1>2 DEF AddClient
    <2>2. sess[c] \in Sessions /\ sess[c] # NoSession
      BY <2>1 DEF IInv, HoldersHold, Holding, TypeOK
    <2>3. cleaner'.pc = cleaner.pc /\ cleaner'.cur = cleaner.cur
      BY <2>1 DEF IInv, TypeOK, TouchScan, Cleaners
    <2> USE <2>1, <2>2 DEF IInv, TypeOK
    <2>4. HoldersHold'  BY DEF HoldersHold, Holding
    <2>5. TracesAreBorn'  BY DEF TracesAreBorn
    <2>6. UnpublishedIsPrivate'  BY DEF UnpublishedIsPrivate
    <2>7. CleanerIsAt'  BY <2>3 DEF CleanerIsAt
    <2>8. ReaderIsHeld'  BY DEF ReaderIsHeld
    <2>9. FindableIsUsable'  BY DEF FindableIsUsable
    <2>10. RegisteredIsServed'  BY DEF RegisteredIsServed, Registered
    <2>11. ServedIsRegistered'  BY DEF ServedIsRegistered, Registered
    <2>12. OneReaderUntilShutDown'  BY OneReaderStays
    <2>13. IsolatedIsExclusive'  BY DEF IsolatedIsExclusive
    <2>14. IsolatedIsReclaimed'  BY DEF IsolatedIsReclaimed
    <2>15. QED
      BY <2>4, <2>5, <2>6, <2>7, <2>8, <2>9, <2>10, <2>11, <2>12, <2>13, <2>14
  <1>3. QED  BY <1>1, <1>2

\* A registered client makes sure that there is a reader.
LEMMA StartReaderKeeps ==
  ASSUME IInv, TypeOK', NEW c \in Conns, StartReader(c) PROVE IInv'
  <1>1. /\ pc[c] = "added" /\ pc' = [pc EXCEPT ![c] = "started"]
        /\ UNCHANGED <<mapped, born, clients, cancelled, cleaner, sess, deleting>>
    BY DEF StartReader
  <1>2. sess[c] \in Sessions /\ sess[c] # NoSession
    BY <1>1 DEF IInv, HoldersHold, Holding, TypeOK
  <1>3. \/ /\ reader[sess[c]] = {}
           /\ reader' = [reader EXCEPT ![sess[c]] = {c}]
           /\ task' = [task EXCEPT ![sess[c]][c] = "starting"]
        \/ reader[sess[c]] # {} /\ UNCHANGED <<reader, task>>
    BY DEF StartReader, NeedsReader
  <1>4. sess[c] \in born  BY <1>2 DEF IInv, TracesAreBorn
  <1>5. /\ ReaderIsHeld'
        /\ \A x \in Sessions : x # sess[c] => reader'[x] = reader[x] /\ task'[x] = task[x]
        /\ \A x \in Sessions, d \in Conns : task[x][d] # "none" => task'[x][d] # "none"
        /\ \E d \in Conns : task'[sess[c]][d] # "none"
    <2>1. CASE reader[sess[c]] = {}
      <3>1. /\ reader' = [reader EXCEPT ![sess[c]] = {c}]
            /\ task' = [task EXCEPT ![sess[c]][c] = "starting"]
        BY <1>3, <2>1
      <3>2. /\ reader'[sess[c]] = {c}
            /\ task'[sess[c]][c] = "starting"
            /\ \A d \in Conns : d # c => task'[sess[c]][d] = task[sess[c]][d]
            /\ \A x \in Sessions : x # sess[c] => reader'[x] = reader[x] /\ task'[x] = task[x]
        BY <1>2, <3>1 DEF IInv, TypeOK
      <3>3. \A d \in Conns : /\ task[sess[c]][d] \notin Unaborted
                             /\ task[sess[c]][d] # "none" => sess[c] \in cancelled
        BY <1>2, <2>1 DEF IInv, ReaderIsHeld
      <3>4. ReaderIsHeld'
        BY <1>1, <1>2, <3>2, <3>3 DEF IInv, ReaderIsHeld
      <3>5. QED  BY <3>2, <3>4
    <2>2. CASE reader[sess[c]] # {}
      <3>1. UNCHANGED <<reader, task>>  BY <1>3, <2>2
      <3>2. PICK d \in reader[sess[c]] : d \in Conns
        BY <1>2, <2>2 DEF IInv, TypeOK
      <3>3. task[sess[c]][d] # "none"  BY <1>2, <3>2 DEF IInv, ReaderIsHeld
      <3>4. ReaderIsHeld'  BY <1>1, <3>1 DEF IInv, ReaderIsHeld
      <3>5. QED  BY <3>1, <3>2, <3>3, <3>4
    <2>3. QED  BY <2>1, <2>2
  <1>6. OneReaderUntilShutDown'
    <2>1. \A s \in Sessions, d, e \in Conns :
            task'[s][d] \in Unaborted /\ task'[s][e] \in Unaborted => d = e
      BY <1>5 DEF ReaderIsHeld
    <2>2. \A s \in Sessions \ cancelled', d, e \in Conns :
            task'[s][d] # "none" /\ task'[s][e] # "none" => d = e /\ task'[s][d] # "aborted"
      BY <1>5 DEF ReaderIsHeld
    <2>3. ASSUME NEW s \in Sessions \ cancelled', \A d \in Conns : task'[s][d] = "none",
                 NEW d \in Conns, sess'[d] = s, pc'[d] \in {"started", "live", "leaving"}
          PROVE  FALSE
      <3>1. s # sess[c]  BY <1>5, <2>3
      <3>2. d # c /\ pc'[d] = pc[d]  BY <1>1, <2>3, <3>1 DEF IInv, TypeOK
      <3>3. \A e \in Conns : task[s][e] = "none"  BY <1>5, <2>3
      <3>4. QED  BY <1>1, <2>3, <3>2, <3>3 DEF IInv, OneReaderUntilShutDown, Spawned
    <2>4. QED  BY <2>1, <2>2, <2>3 DEF OneReaderUntilShutDown, Spawned
  <1> USE <1>1, <1>2 DEF IInv, TypeOK
  <1>7. HoldersHold'  BY DEF HoldersHold, Holding
  <1>8. TracesAreBorn'
    <2>1. \A x \in Sessions \ born : reader'[x] = reader[x] /\ task'[x] = task[x]
      BY <1>4, <1>5
    <2>2. QED  BY <2>1 DEF TracesAreBorn
  <1>9. UnpublishedIsPrivate'  BY DEF UnpublishedIsPrivate
  <1>10. CleanerIsAt'  BY DEF CleanerIsAt
  <1>11. FindableIsUsable'  BY DEF FindableIsUsable
  <1>12. RegisteredIsServed'  BY DEF RegisteredIsServed, Registered
  <1>13. ServedIsRegistered'  BY DEF ServedIsRegistered, Registered
  <1>14. IsolatedIsExclusive'  BY DEF IsolatedIsExclusive
  <1>15. IsolatedIsReclaimed'  BY DEF IsolatedIsReclaimed
  <1>16. QED
    BY <1>5, <1>6, <1>7, <1>8, <1>9, <1>10, <1>11, <1>12, <1>13, <1>14, <1>15

\* A handler drops its session and stays registered: if the session is mapped,
\* the failed connection is a client of it.
LEMMA WriterFailsKeeps ==
  ASSUME IInv, TypeOK', NEW c \in Conns, WriterFails(c) PROVE IInv'
  <1>1. /\ pc[c] = "added" /\ pc' = [pc EXCEPT ![c] = "failed"]
        /\ sess' = [sess EXCEPT ![c] = NoSession]
        /\ UNCHANGED <<mapped, born, clients, cancelled, reader, task, cleaner, deleting>>
    BY DEF WriterFails, sessionVars
  <1> USE <1>1 DEF IInv, TypeOK
  <1>2. HoldersHold'  BY DEF HoldersHold, Holding
  <1>3. TracesAreBorn'  BY DEF TracesAreBorn
  <1>4. UnpublishedIsPrivate'
    BY NoSessionAssumption DEF UnpublishedIsPrivate, HoldersHold, Holding
  <1>5. CleanerIsAt'  BY DEF CleanerIsAt
  <1>6. ReaderIsHeld'  BY DEF ReaderIsHeld
  <1>7. FindableIsUsable'  BY DEF FindableIsUsable
  <1>8. RegisteredIsServed'  BY DEF RegisteredIsServed, Registered
  <1>9. ServedIsRegistered'  BY DEF ServedIsRegistered, Registered
  <1>10. OneReaderUntilShutDown'  BY OneReaderStays
  <1>11. IsolatedIsExclusive'  BY DEF IsolatedIsExclusive
  <1>12. IsolatedIsReclaimed'
    <2> SUFFICES ASSUME DefaultMode = "isolated", NEW x \in mapped
                 PROVE  \/ \E d \in Conns : sess'[d] = x
                        \/ \E d \in clients[x] : pc'[d] = "failed"
      BY DEF IsolatedIsReclaimed
    <2>1. x \in Sessions /\ x \notin cancelled  BY DEF FindableIsUsable
    <2>2. CASE sess[c] = x
      <3>1. c \in clients[x]  BY <2>1, <2>2 DEF ServedIsRegistered, Registered
      <3>2. pc'[c] = "failed"  OBVIOUS
      <3>3. QED  BY <3>1, <3>2
    <2>3. CASE \E d \in Conns : sess[d] = x /\ d # c
      <3>1. PICK d \in Conns : sess[d] = x /\ d # c  BY <2>3
      <3>2. sess'[d] = x  BY <3>1
      <3>3. QED  BY <3>2
    <2>4. CASE \E d \in clients[x] : pc[d] = "failed"
      <3>1. PICK d \in clients[x] : pc[d] = "failed"  BY <2>4
      <3>2. d \in Conns /\ d # c  BY <2>1, <3>1
      <3>3. pc'[d] = "failed"  BY <3>1, <3>2
      <3>4. QED  BY <3>1, <3>3
    <2>5. QED  BY <2>2, <2>3, <2>4 DEF IsolatedIsReclaimed
  <1>13. QED
    BY <1>2, <1>3, <1>4, <1>5, <1>6, <1>7, <1>8, <1>9, <1>10, <1>11, <1>12

\* A client leaves; a shared session stays, an isolated one is reclaimed next.
LEMMA RemoveClientKeeps ==
  ASSUME IInv, TypeOK', NEW c \in Conns, RemoveClient(c) PROVE IInv'
  <1>1. /\ pc[c] = "leaving"
        /\ clients' = [clients EXCEPT ![sess[c]] = @ \ {c}]
        /\ \/ /\ DefaultMode # "isolated"
              /\ pc' = [pc EXCEPT ![c] = "closed"]
              /\ sess' = [sess EXCEPT ![c] = NoSession]
           \/ pc' = [pc EXCEPT ![c] = "reclaiming"] /\ sess' = sess
        /\ UNCHANGED <<mapped, born, cancelled, reader, task, deleting>>
    BY DEF RemoveClient, Deregister, KeptForReconnect
  <1>2. cleaner'.pc = cleaner.pc /\ cleaner'.cur = cleaner.cur
    BY DEF RemoveClient, TouchScan, IInv, TypeOK, Cleaners
  <1>3. sess[c] \in Sessions /\ sess[c] # NoSession
    BY <1>1 DEF IInv, HoldersHold, Holding, TypeOK
  <1> USE <1>1, <1>3 DEF IInv, TypeOK
  <1>4. HoldersHold'  BY DEF HoldersHold, Holding
  <1>5. TracesAreBorn'  BY DEF TracesAreBorn
  <1>6. UnpublishedIsPrivate'
    BY DEF UnpublishedIsPrivate, HoldersHold, Holding
  <1>7. CleanerIsAt'  BY <1>2 DEF CleanerIsAt
  <1>8. ReaderIsHeld'  BY DEF ReaderIsHeld
  <1>9. FindableIsUsable'  BY DEF FindableIsUsable
  <1>10. RegisteredIsServed'  BY DEF RegisteredIsServed, Registered
  <1>11. ServedIsRegistered'  BY DEF ServedIsRegistered, Registered
  <1>12. OneReaderUntilShutDown'  BY OneReaderStays
  <1>13. IsolatedIsExclusive'  BY DEF IsolatedIsExclusive
  <1>14. IsolatedIsReclaimed'
    <2> SUFFICES ASSUME DefaultMode = "isolated", NEW x \in mapped
                 PROVE  \/ \E d \in Conns : sess'[d] = x
                        \/ \E d \in clients'[x] : pc'[d] = "failed"
      BY DEF IsolatedIsReclaimed
    <2>1. sess' = sess /\ pc' = [pc EXCEPT ![c] = "reclaiming"]  OBVIOUS
    <2>2. CASE \E d \in clients[x] : pc[d] = "failed"
      <3>1. PICK d \in clients[x] : pc[d] = "failed"  BY <2>2
      <3>2. d \in Conns /\ d # c  BY <3>1
      <3>3. pc'[d] = "failed" /\ d \in clients'[x]  BY <2>1, <3>1, <3>2
      <3>4. QED  BY <3>3
    <2>3. QED  BY <2>1, <2>2 DEF IsolatedIsReclaimed
  <1>15. QED
    BY <1>4, <1>5, <1>6, <1>7, <1>8, <1>9, <1>10, <1>11, <1>12, <1>13, <1>14

\* remove_if_empty on the way out: whoever keeps the session in the map either
\* serves it or is a failed connection.
LEMMA ReclaimKeeps ==
  ASSUME IInv, TypeOK', NEW c \in Conns, Reclaim(c) PROVE IInv'
  <1>1. /\ pc[c] = "reclaiming" /\ pc' = [pc EXCEPT ![c] = "closed"]
        /\ sess' = [sess EXCEPT ![c] = NoSession]
        /\ UNCHANGED <<born, clients, cleaner, deleting>>
    BY DEF Reclaim
  <1>2. PICK gone \in SUBSET mapped :
          /\ gone \subseteq {sess[c]}
          /\ sess[c] \in mapped /\ clients[sess[c]] = {} => sess[c] \in gone
          /\ mapped' = mapped \ gone
          /\ ShutDown(gone)
    BY RemoveIfEmptyIsShutDown DEF Reclaim
  <1>3. /\ cancelled' = cancelled \cup gone
        /\ ReaderIsHeld'
        /\ \A s \in Sessions : reader'[s] \subseteq reader[s]
        /\ \A s \in Sessions, d \in Conns :
             /\ task'[s][d] = "none" <=> task[s][d] = "none"
             /\ task'[s][d] \in Unaborted => task[s][d] \in Unaborted
             /\ s \notin gone => task'[s][d] = task[s][d]
    <2>1. gone \in SUBSET Sessions  BY DEF IInv, TypeOK
    <2>2. QED  BY <1>2, <2>1, ShutDownReaders DEF IInv, ShutDown
  <1> USE <1>1, <1>2, <1>3 DEF IInv, TypeOK
  <1>4. HoldersHold'  BY DEF HoldersHold, Holding
  <1>5. TracesAreBorn'  BY DEF TracesAreBorn
  <1>6. UnpublishedIsPrivate'
    BY NoSessionAssumption DEF UnpublishedIsPrivate, HoldersHold, Holding
  <1>7. CleanerIsAt'  BY DEF CleanerIsAt
  <1>8. ReaderIsHeld'  BY DEF ReaderIsHeld
  <1>9. FindableIsUsable'  BY DEF FindableIsUsable
  <1>10. RegisteredIsServed'  BY DEF RegisteredIsServed, Registered
  <1>11. ServedIsRegistered'  BY DEF ServedIsRegistered, Registered
  <1>12. OneReaderUntilShutDown'  BY OneReaderStays
  <1>13. IsolatedIsExclusive'  BY DEF IsolatedIsExclusive
  <1>14. IsolatedIsReclaimed'
    <2> SUFFICES ASSUME DefaultMode = "isolated", NEW x \in mapped, x \notin gone
                 PROVE  \/ \E d \in Conns : sess'[d] = x
                        \/ \E d \in clients[x] : pc'[d] = "failed"
      BY DEF IsolatedIsReclaimed
    <2>1. x \in Sessions  OBVIOUS
    <2>2. ASSUME NEW d \in clients[x]
          PROVE  \/ \E e \in Conns : sess'[e] = x
                 \/ \E e \in clients[x] : pc'[e] = "failed"
      <3>1. d \in Conns  BY <2>1
      <3>2. (sess[d] = x /\ pc[d] \in Registered) \/ pc[d] = "failed"
        BY <2>1 DEF RegisteredIsServed
      <3>3. d # c  BY <3>2 DEF Registered
      <3>4. CASE pc[d] = "failed"
        <4>1. pc'[d] = "failed"  BY <3>1, <3>3, <3>4
        <4>2. QED  BY <4>1
      <3>5. CASE sess[d] = x
        <4>1. sess'[d] = x  BY <3>1, <3>3, <3>5
        <4>2. QED  BY <3>1, <4>1
      <3>6. QED  BY <3>2, <3>4, <3>5
    <2>3. CASE x = sess[c]
      <3>1. PICK d \in clients[x] : TRUE  BY <2>3
      <3>2. QED  BY <2>2, <3>1
    <2>4. CASE \E d \in Conns : sess[d] = x /\ d # c
      <3>1. PICK d \in Conns : sess[d] = x /\ d # c  BY <2>4
      <3>2. sess'[d] = x  BY <3>1
      <3>3. QED  BY <3>2
    <2>5. CASE \E d \in clients[x] : pc[d] = "failed"
      BY <2>2, <2>5
    <2>6. QED  BY <2>3, <2>4, <2>5 DEF IsolatedIsReclaimed
  <1>15. QED
    BY <1>4, <1>5, <1>6, <1>7, <1>8, <1>9, <1>10, <1>11, <1>12, <1>13, <1>14

-----------------------------------------------------------------------------

LEMMA Initially == Init => IInv
  <1> SUFFICES ASSUME Init PROVE IInv
    OBVIOUS
  <1>1. IdleCleaner \in Cleaners
    BY IdleCapNat DEF IdleCleaner, Cleaners
  <1>2. TypeOK
    BY <1>1, IdleCapNat DEF Init, TypeOK, TaskStates, Phases
  <1>3. HoldersHold /\ TracesAreBorn /\ UnpublishedIsPrivate
    BY DEF Init, HoldersHold, Holding, TracesAreBorn, UnpublishedIsPrivate
  <1>4. CleanerIsAt /\ ReaderIsHeld
    BY DEF Init, CleanerIsAt, IdleCleaner, ReaderIsHeld, Unaborted
  <1>5. FindableIsUsable /\ RegisteredIsServed /\ ServedIsRegistered
    BY DEF Init, FindableIsUsable, RegisteredIsServed, ServedIsRegistered, Registered
  <1>6. OneReaderUntilShutDown /\ IsolatedIsExclusive /\ IsolatedIsReclaimed
    BY NoSessionAssumption
    DEF Init, OneReaderUntilShutDown, Spawned, Unaborted, IsolatedIsExclusive, IsolatedIsReclaimed
  <1>7. QED  BY <1>2, <1>3, <1>4, <1>5, <1>6 DEF IInv

\* Every step of every task keeps the invariant.
LEMMA Inductive == IInv /\ [Next]_vars => IInv'
  <1> SUFFICES ASSUME IInv, [Next]_vars PROVE IInv'
    OBVIOUS
  <1>1. TypeOK'  BY TypesKept DEF IInv
  <1>2. ASSUME NEW c \in Conns, HandlerStep(c) PROVE IInv'
    BY <1>1, <1>2, PublishKeeps, AddClientKeeps, StartReaderKeeps, MoveKeeps,
       RemoveClientKeeps, ReclaimKeeps DEF HandlerStep
  <1>3. ASSUME NEW c \in Conns, ClientStep(c) PROVE IInv'
    BY <1>1, <1>3, CreateKeeps, JoinKeeps, WriterFailsKeeps, MoveKeeps, QuietSteps
       DEF ClientStep
  <1>4. CASE \/ \E s \in Sessions, c \in Conns : ReaderStep(s, c) \/ ReaderEof(s, c)
             \/ \E s \in Sessions : ApiRemove(s) \/ ApiShutDown(s)
    BY <1>1, <1>4, QuietSteps, ApiRemoveKeeps, ShuttingSteps
  <1>5. CASE CleanerStep
    BY <1>1, <1>5, QuietSteps, ShuttingSteps, ClearStaleKeeps DEF CleanerStep
  <1>6. CASE StopSignal \/ ManagerShutDown \/ Tick \/ UNCHANGED vars
    BY <1>1, <1>6, QuietSteps, ShuttingSteps
  <1>7. QED  BY <1>2, <1>3, <1>4, <1>5, <1>6 DEF Next

\* The inductive invariant holds whatever the tasks do.
THEOREM InvariantHolds == Spec => []IInv
  <1>1. QED  BY Initially, Inductive, PTL DEF Spec

\* Types: session.rs and the handlers keep every variable in its range; the age
\* of a session never passes the bound that time is cut off at.
THEOREM TypesHold == Spec => []TypeOK
  <1>1. IInv => TypeOK  BY DEF IInv
  <1>2. QED  BY <1>1, InvariantHolds, PTL

\* remove_if_empty, remove_session, cleanup_inactive and shutdown unmap a session
\* no later than they cancel its token, and create_session maps only a session
\* nobody could have cancelled.
THEOREM FindableSessionsUsable == Spec => []FindableIsUsable
  <1>1. IInv => FindableIsUsable  BY DEF IInv
  <1>2. QED  BY <1>1, InvariantHolds, PTL

\* add_client and remove_client pair up on every path out of run_session but the
\* one on which create_pty_writer fails.
THEOREM RegistrationIsServed == Spec => []RegisteredIsServed
  <1>1. IInv => RegisteredIsServed  BY DEF IInv
  <1>2. QED  BY <1>1, InvariantHolds, PTL

\* Only cleanup_inactive clears the clients of a session that is still served,
\* and only after shutting it down: no client is dropped from a session in use.
THEOREM ServiceIsRegistered == Spec => []ServedIsRegistered
  <1>1. IInv => ServedIsRegistered  BY DEF IInv
  <1>2. QED  BY <1>1, InvariantHolds, PTL

\* start_reader_once: however the handlers of a session interleave, one of them and
\* no other has spawned a reader by the time one serves the session, until
\* Session::shutdown takes the handle; a reader spawned after that is alone among
\* aborted ones.
THEOREM OneReader == Spec => []OneReaderUntilShutDown
  <1>1. IInv => OneReaderUntilShutDown  BY DEF IInv
  <1>2. QED  BY <1>1, InvariantHolds, PTL

\* No two handlers hold one isolated session: ids are fresh and isolated sessions
\* cannot be joined.
THEOREM IsolatedSessionsExclusive == Spec => []IsolatedIsExclusive
  <1>1. IInv => IsolatedIsExclusive  BY DEF IInv
  <1>2. QED  BY <1>1, InvariantHolds, PTL

\* cleanup_client leaves no isolated session behind, unless create_pty_writer
\* failed.
THEOREM IsolatedSessionsReclaimed == Spec => []IsolatedIsReclaimed
  <1>1. IInv => IsolatedIsReclaimed  BY DEF IInv
  <1>2. QED  BY <1>1, InvariantHolds, PTL

\* remove_if_empty looks at the clients under the lock it removes under, so a
\* session with a client goes only by a removal that does not ask: DELETE,
\* cleanup_inactive on a stale session, the manager's shutdown.
THEOREM OnlyForcedRemovalsEvict == Spec => OnlyForceEvicts
  <1>1. IInv /\ [Next]_vars
          => [\A s \in mapped \ mapped' : clients[s] = {} \/ Forced(s)]_vars
    <2> SUFFICES ASSUME IInv, Next, NEW s \in mapped, s \notin mapped'
                 PROVE  clients[s] = {} \/ Forced(s)
      BY DEF vars
    <2>1. ASSUME NEW c \in Conns, HandlerStep(c) PROVE clients[s] = {}
      <3>1. CASE Reclaim(c)
        <4>1. PICK gone \in SUBSET mapped :
                (\A x \in gone : clients[x] = {}) /\ mapped' = mapped \ gone
          BY <3>1, RemoveIfEmptyIsShutDown DEF Reclaim
        <4>2. QED  BY <4>1
      <3>2. CASE ~Reclaim(c)
        <4>1. mapped \subseteq mapped'
          BY <2>1, <3>2 DEF HandlerStep, Publish, AddClient, StartReader, EnterLoop,
                            ObserveCancel, RemoveClient
        <4>2. QED  BY <4>1
      <3>3. QED  BY <3>1, <3>2
    <2>2. ASSUME NEW c \in Conns, ClientStep(c) PROVE FALSE
      BY <2>2 DEF ClientStep, Create, CreateFails, Join, JoinRejected, WriterFails, Input,
                  InputFails, Leave
    <2>3. ASSUME NEW x \in Sessions, NEW c \in Conns, ReaderStep(x, c) \/ ReaderEof(x, c)
          PROVE  FALSE
      BY <2>3 DEF ReaderStep, ReaderRegisters, ReaderGivesUp, AbortedStops, ReaderEof
    <2>4. ASSUME NEW x \in Sessions, ApiRemove(x) \/ ApiShutDown(x)
          PROVE  Forced(s)
      <3>1. CASE ApiRemove(x)
        <4>1. s = x /\ s \in deleting'  BY <3>1 DEF ApiRemove
        <4>2. s \notin deleting  BY DEF IInv, FindableIsUsable
        <4>3. QED  BY <4>1, <4>2 DEF Forced
      <3>2. QED
        BY <2>4, <3>1 DEF ApiShutDown
    <2>5. CASE CleanerStep
      <3>1. CASE RemoveEmpty
        <4>1. PICK x \in cleaner.empties : RemoveIfEmpty(x)
          BY <3>1 DEF RemoveEmpty
        <4>2. PICK gone \in SUBSET mapped :
                (\A y \in gone : clients[y] = {}) /\ mapped' = mapped \ gone
          BY <4>1, RemoveIfEmptyIsShutDown
        <4>3. QED  BY <4>2
      <3>2. CASE RemoveStale
        <4>1. PICK x \in mapped :
                /\ mapped' = mapped \ {x}
                /\ cleaner' = [cleaner EXCEPT !.pc = "clear", !.cur = x,
                                              !.stales = @ \ {x}]
          BY <3>2 DEF RemoveStale
        <4>2. s = x  BY <4>1
        <4>3. cleaner'.pc = "clear" /\ cleaner'.cur = s
          BY <4>1, <4>2 DEF IInv, TypeOK, Cleaners
        <4>4. QED  BY <3>2, <4>3 DEF RemoveStale, Forced
      <3>3. QED
        BY <2>5, <3>1, <3>2
        DEF CleanerStep, ScanStart, ScanActivity, ScanClients, ClearStale
    <2>6. CASE ManagerShutDown
      BY <2>6 DEF ManagerShutDown, Forced
    <2>7. CASE StopSignal \/ Tick
      BY <2>7 DEF StopSignal, Tick
    <2>8. QED  BY <2>1, <2>2, <2>3, <2>4, <2>5, <2>6, <2>7 DEF Next
  <1>2. QED  BY <1>1, InvariantHolds, PTL DEF Spec, OnlyForceEvicts

-----------------------------------------------------------------------------
\* The registry: ids are used once, and none opens twice.

\* Ids that have been in the map.
Known == mapped \cup deleting \cup cancelled

\* A handler's session was in the map, unless the handler is about to enter it; only
\* an isolated session is reclaimed.
RegistryInv ==
    /\ IInv
    /\ \A c \in Conns : sess[c] # NoSession /\ pc[c] # "creating" => sess[c] \in Known
    /\ \A c \in Conns : pc[c] = "reclaiming" => DefaultMode = "isolated"

\* A step of the registry, or none.
RegistryStep == Registry!RegistryNext \/ UNCHANGED <<RegistryState, sess>>

\* A step that leaves the registry alone.
LEMMA RegistryRests ==
  ASSUME RegistryInv, IInv', UNCHANGED <<mapped, deleting, cancelled, sess>>,
         \A c \in Conns : /\ pc[c] = "creating" => pc'[c] = "creating"
                          /\ pc'[c] = "reclaiming" => pc[c] = "reclaiming" \/ DefaultMode = "isolated"
  PROVE  RegistryInv' /\ RegistryStep
  <1>1. RegistryState' = RegistryState  BY DEF RegistryState
  <1>2. RegistryInv'  BY DEF RegistryInv, Known
  <1>3. QED  BY <1>1, <1>2 DEF RegistryStep

\* Sessions that are shut down are closed.
LEMMA RegistryCloses ==
  ASSUME IInv, NEW S \in SUBSET (mapped \cup deleting), ShutDown(S),
         mapped' = mapped \ S, deleting' = deleting \ S
  PROVE  /\ S \subseteq Sessions
         /\ \A s \in S : RegistryState[s] \in {"open", "closing"}
         /\ RegistryState' = [s \in Sessions |-> IF s \in S THEN "closed" ELSE RegistryState[s]]
         /\ Known' = Known
  <1>1. S \subseteq Sessions  BY DEF IInv, TypeOK
  <1>2. cancelled' = cancelled \cup S  BY DEF ShutDown
  <1>3. \A s \in S : RegistryState[s] \in {"open", "closing"}
    BY <1>1 DEF IInv, FindableIsUsable, RegistryState
  <1>4. RegistryState' = [s \in Sessions |-> IF s \in S THEN "closed" ELSE RegistryState[s]]
    BY <1>1, <1>2 DEF RegistryState
  <1>5. Known' = Known  BY <1>2 DEF Known
  <1>6. QED  BY <1>1, <1>3, <1>4, <1>5

\* What a removal, the cleanup task and the shutdown do to the registry.
LEMMA RegistryShuts ==
  ASSUME RegistryInv, IInv', NEW S \in SUBSET (mapped \cup deleting), Shuts(S)
  PROVE  RegistryInv' /\ RegistryStep
  <1>1. /\ S \subseteq Sessions
        /\ \A s \in S : RegistryState[s] \in {"open", "closing"}
        /\ RegistryState' = [s \in Sessions |-> IF s \in S THEN "closed" ELSE RegistryState[s]]
        /\ Known' = Known
    BY RegistryCloses DEF Shuts, RegistryInv
  <1>2. UNCHANGED <<pc, sess>>  BY DEF Shuts, connVars
  <1>3. RegistryInv'  BY <1>1, <1>2 DEF RegistryInv
  <1>4. RegistryStep
    <2>1. CASE S = {}
      <3>1. RegistryState = [s \in Sessions |-> RegistryState[s]]  BY DEF RegistryState
      <3>2. RegistryState' = RegistryState  BY <1>1, <2>1, <3>1
      <3>3. QED  BY <1>2, <3>2 DEF RegistryStep
    <2>2. CASE S # {}
      <3>1. Registry!Close(S)  BY <1>1, <1>2, <2>2 DEF Registry!Close
      <3>2. QED  BY <1>1, <3>1 DEF RegistryStep, Registry!RegistryNext
    <2>3. QED  BY <2>1, <2>2
  <1>5. QED  BY <1>3, <1>4

\* A handler lets go of a session that has been in the map.
LEMMA RegistryLeaves ==
  ASSUME RegistryInv, IInv', NEW c \in Conns,
         pc[c] \in Holding \ {"creating"}, pc'[c] \notin {"creating", "reclaiming"},
         \A d \in Conns \ {c} : pc'[d] = pc[d],
         UNCHANGED <<mapped, deleting, cancelled>>,
         sess' = [sess EXCEPT ![c] = NoSession]
  PROVE  RegistryInv' /\ RegistryStep
  <1>1. RegistryState' = RegistryState /\ Known' = Known  BY DEF RegistryState, Known
  <1>2. sess[c] \in Known /\ sess[c] \in Sessions
    BY DEF RegistryInv, IInv, HoldersHold, TypeOK
  <1>3. RegistryState[sess[c]] # "absent"  BY <1>2 DEF Known, RegistryState
  <1>4. Registry!Leave(c, sess[c])  BY <1>1, <1>3 DEF Registry!Leave
  <1>5. RegistryInv'  BY <1>1 DEF RegistryInv, IInv, TypeOK
  <1>6. QED  BY <1>2, <1>4, <1>5 DEF RegistryStep, Registry!RegistryNext

\* The steps of the handlers.
LEMMA RegistryHandlers ==
  ASSUME RegistryInv, IInv', NEW c \in Conns, HandlerStep(c) \/ ClientStep(c)
  PROVE  RegistryInv' /\ RegistryStep
  <1> USE DEF RegistryInv
  <1>0. IInv /\ TypeOK  BY DEF IInv
  <1>1. CASE Create(c)
    <2>1. PICK s \in Sessions \ born : sess' = [sess EXCEPT ![c] = s]
      BY <1>1 DEF Create
    <2>2. /\ pc[c] = "idle" /\ pc' = [pc EXCEPT ![c] = "creating"]
          /\ UNCHANGED <<mapped, deleting, cancelled>>
      BY <1>1 DEF Create
    <2>3. sess[c] = NoSession  BY <2>2 DEF IInv, HoldersHold, Holding
    <2>4. s \notin Known /\ \A d \in Conns : sess[d] # s
      BY <2>1, NoSessionAssumption DEF IInv, TracesAreBorn, Known
    <2>5. RegistryState' = RegistryState /\ Known' = Known  BY <2>2 DEF RegistryState, Known
    <2>6. RegistryState[s] = "absent"  BY <2>4 DEF RegistryState, Known
    <2>7. Registry!Create(c, s)  BY <2>1, <2>3, <2>4, <2>5, <2>6 DEF Registry!Create
    <2>8. RegistryInv'  BY <1>0, <2>1, <2>2, <2>5 DEF TypeOK
    <2>9. QED  BY <2>7, <2>8 DEF RegistryStep, Registry!RegistryNext
  <1>2. CASE Publish(c)
    <2>1. /\ pc[c] = "creating" /\ pc' = [pc EXCEPT ![c] = "found"]
          /\ mapped' = mapped \cup {sess[c]}
          /\ UNCHANGED <<deleting, cancelled, sess>>
      BY <1>2 DEF Publish, sessionVars
    <2>2. sess[c] \in Sessions /\ sess[c] \notin Known
      BY <2>1, <1>0 DEF IInv, TypeOK, HoldersHold, Holding, UnpublishedIsPrivate, Known
    <2>3. PICK s \in Sessions : s = sess[c]  BY <2>2
    <2>4. RegistryState[s] = "absent"  BY <2>2, <2>3 DEF RegistryState, Known
    <2>5. RegistryState' = [RegistryState EXCEPT ![s] = "open"]
      BY <2>1, <2>2, <2>3 DEF RegistryState, Known
    <2>6. Registry!Open(c, s)  BY <2>1, <2>3, <2>4, <2>5 DEF Registry!Open
    <2>7. RegistryInv'  BY <1>0, <2>1 DEF Known, TypeOK
    <2>8. QED  BY <2>6, <2>7 DEF RegistryStep, Registry!RegistryNext
  <1>3. CASE Join(c)
    <2>1. PICK s \in mapped : sess' = [sess EXCEPT ![c] = s]
      BY <1>3 DEF Join
    <2>2. /\ pc[c] = "idle" /\ pc' = [pc EXCEPT ![c] = "found"]
          /\ DefaultMode # "isolated"
          /\ UNCHANGED <<mapped, deleting, cancelled>>
      BY <1>3 DEF Join, Joinable, sessionVars
    <2>3. sess[c] = NoSession  BY <2>2 DEF IInv, HoldersHold, Holding
    <2>4. s \in Sessions /\ s \notin cancelled \cup deleting
      BY <1>0, <2>1 DEF TypeOK, IInv, FindableIsUsable
    <2>5. RegistryState' = RegistryState /\ Known' = Known  BY <2>2 DEF RegistryState, Known
    <2>6. RegistryState[s] = "open"  BY <2>1, <2>4 DEF RegistryState
    <2>7. Registry!Join(c, s)  BY <2>1, <2>2, <2>3, <2>5, <2>6 DEF Registry!Join
    <2>8. RegistryInv'  BY <1>0, <2>1, <2>2, <2>5 DEF Known, TypeOK
    <2>9. QED  BY <2>4, <2>7, <2>8 DEF RegistryStep, Registry!RegistryNext
  <1>4. CASE AddClient(c)
    <2>1. /\ pc[c] = "found" /\ UNCHANGED <<mapped, deleting, cancelled>>
          /\ \/ pc' = [pc EXCEPT ![c] = "closed"] /\ sess' = [sess EXCEPT ![c] = NoSession]
             \/ pc' = [pc EXCEPT ![c] = "added"] /\ UNCHANGED sess
      BY <1>4 DEF AddClient
    <2>2. CASE UNCHANGED sess /\ pc' = [pc EXCEPT ![c] = "added"]
      BY <1>0, <2>1, <2>2, RegistryRests DEF TypeOK
    <2>3. CASE pc' = [pc EXCEPT ![c] = "closed"] /\ sess' = [sess EXCEPT ![c] = NoSession]
      BY <1>0, <2>1, <2>3, RegistryLeaves DEF TypeOK, Holding
    <2>4. QED  BY <2>1, <2>2, <2>3
  <1>5. CASE WriterFails(c)
    <2>1. /\ pc[c] = "added" /\ pc' = [pc EXCEPT ![c] = "failed"]
          /\ sess' = [sess EXCEPT ![c] = NoSession]
          /\ UNCHANGED <<mapped, deleting, cancelled>>
      BY <1>5 DEF WriterFails, sessionVars
    <2>2. QED  BY <1>0, <2>1, RegistryLeaves DEF TypeOK, Holding
  <1>6. CASE RemoveClient(c)
    <2>1. /\ pc[c] = "leaving" /\ UNCHANGED <<mapped, deleting, cancelled>>
          /\ \/ pc' = [pc EXCEPT ![c] = "closed"] /\ sess' = [sess EXCEPT ![c] = NoSession]
             \/ /\ DefaultMode = "isolated"
                /\ pc' = [pc EXCEPT ![c] = "reclaiming"] /\ UNCHANGED sess
      BY <1>6 DEF RemoveClient, KeptForReconnect
    <2>2. CASE DefaultMode = "isolated" /\ UNCHANGED sess /\ pc' = [pc EXCEPT ![c] = "reclaiming"]
      BY <1>0, <2>1, <2>2, RegistryRests DEF TypeOK
    <2>3. CASE pc' = [pc EXCEPT ![c] = "closed"] /\ sess' = [sess EXCEPT ![c] = NoSession]
      BY <1>0, <2>1, <2>3, RegistryLeaves DEF TypeOK, Holding
    <2>4. QED  BY <2>1, <2>2, <2>3
  <1>7. CASE Reclaim(c)
    <2>1. /\ pc[c] = "reclaiming" /\ pc' = [pc EXCEPT ![c] = "closed"]
          /\ sess' = [sess EXCEPT ![c] = NoSession]
          /\ UNCHANGED deleting
      BY <1>7 DEF Reclaim
    <2>2. PICK gone \in SUBSET mapped :
            gone \subseteq {sess[c]} /\ mapped' = mapped \ gone /\ ShutDown(gone)
      BY <1>7, RemoveIfEmptyIsShutDown DEF Reclaim
    <2>3. CASE gone = {}
      <3>1. UNCHANGED <<mapped, cancelled>>  BY <2>2, <2>3 DEF ShutDown
      <3>2. QED  BY <1>0, <2>1, <3>1, RegistryLeaves DEF TypeOK, Holding
    <2>4. CASE gone # {}
      <3>1. gone = {sess[c]} /\ sess[c] \in mapped  BY <2>2, <2>4
      <3>2. deleting' = deleting \ gone
        BY <2>1, <3>1 DEF IInv, FindableIsUsable
      <3>3. /\ gone \subseteq Sessions
            /\ RegistryState' = [s \in Sessions |-> IF s \in gone THEN "closed" ELSE RegistryState[s]]
            /\ Known' = Known
        BY <1>0, <2>2, <3>2, RegistryCloses
      <3>4. PICK s \in Sessions : s = sess[c]  BY <3>1, <3>3
      <3>5. RegistryState[s] = "open"
        BY <3>1, <3>4 DEF IInv, FindableIsUsable, RegistryState
      <3>6. RegistryState' = [RegistryState EXCEPT ![s] = "closed"]
        BY <3>1, <3>3, <3>4 DEF RegistryState
      <3>7. DefaultMode = "isolated"  BY <2>1
      <3>8. Registry!LeaveLast(c, s)
        BY <2>1, <3>4, <3>5, <3>6, <3>7 DEF Registry!LeaveLast
      <3>9. RegistryInv'  BY <1>0, <2>1, <3>3 DEF TypeOK
      <3>10. QED  BY <3>8, <3>9 DEF RegistryStep, Registry!RegistryNext
    <2>5. QED  BY <2>3, <2>4
  <1>8. CASE \/ CreateFails(c) \/ JoinRejected(c) \/ StartReader(c) \/ EnterLoop(c)
             \/ ObserveCancel(c) \/ Input(c) \/ InputFails(c) \/ Leave(c)
    <2>1. UNCHANGED <<mapped, deleting, cancelled, sess>>
      BY <1>8 DEF CreateFails, JoinRejected, StartReader, EnterLoop, ObserveCancel, Input,
                  InputFails, Leave, sessionVars, connVars
    <2>2. pc' = pc \/ (pc[c] # "creating" /\ \E p \in {"closed", "started", "live", "leaving"} :
                                                  pc' = [pc EXCEPT ![c] = p])
      BY <1>8 DEF CreateFails, JoinRejected, StartReader, EnterLoop, ObserveCancel, Input,
                  InputFails, Leave, connVars
    <2>3. \A d \in Conns : /\ pc[d] = "creating" => pc'[d] = "creating"
                           /\ pc'[d] = "reclaiming" => pc[d] = "reclaiming"
      BY <1>0, <2>2 DEF TypeOK
    <2>4. QED  BY <2>1, <2>3, RegistryRests
  <1>9. QED
    BY <1>1, <1>2, <1>3, <1>4, <1>5, <1>6, <1>7, <1>8 DEF HandlerStep, ClientStep

\* The steps of everyone else.
LEMMA RegistryOthers ==
  ASSUME RegistryInv, IInv',
         \/ \E s \in Sessions, c \in Conns : ReaderStep(s, c) \/ ReaderEof(s, c)
         \/ \E s \in Sessions : ApiRemove(s) \/ ApiShutDown(s)
         \/ CleanerStep \/ StopSignal \/ ManagerShutDown \/ Tick \/ UNCHANGED vars
  PROVE  RegistryInv' /\ RegistryStep
  <1>0. IInv /\ TypeOK  BY DEF RegistryInv, IInv
  <1>1. CASE \/ \E s \in Sessions, c \in Conns : ReaderStep(s, c) \/ ReaderEof(s, c)
             \/ ScanStart \/ ScanActivity \/ ScanClients \/ ClearStale
             \/ StopSignal \/ Tick \/ UNCHANGED vars
    <2>1. UNCHANGED <<mapped, deleting, cancelled, sess, pc>>
      BY <1>1 DEF ReaderStep, ReaderRegisters, ReaderGivesUp, AbortedStops, ReaderEof,
                  ScanStart, ScanActivity, ScanClients, ClearStale, StopSignal, Tick,
                  vars, sessionVars, connVars
    <2>2. QED  BY <2>1, RegistryRests
  <1>2. ASSUME NEW s \in Sessions, ApiRemove(s) PROVE RegistryInv' /\ RegistryStep
    <2>1. /\ s \in mapped /\ mapped' = mapped \ {s} /\ deleting' = deleting \cup {s}
          /\ UNCHANGED <<cancelled, sess, pc>>
      BY <1>2 DEF ApiRemove, sessionVars, connVars
    <2>2. s \notin cancelled \cup deleting  BY <1>0, <2>1 DEF IInv, FindableIsUsable
    <2>3. RegistryState[s] = "open"  BY <2>1, <2>2 DEF RegistryState
    <2>4. RegistryState' = [RegistryState EXCEPT ![s] = "closing"]
      BY <2>1, <2>2 DEF RegistryState
    <2>5. Known' = Known  BY <2>1 DEF Known
    <2>6. Registry!TakeOut(s)  BY <2>1, <2>3, <2>4 DEF Registry!TakeOut
    <2>7. RegistryInv'  BY <2>1, <2>5 DEF RegistryInv
    <2>8. QED  BY <2>6, <2>7 DEF RegistryStep, Registry!RegistryNext
  <1>3. ASSUME NEW s \in Sessions, ApiShutDown(s) PROVE RegistryInv' /\ RegistryStep
    <2>1. Shuts({s}) /\ {s} \in SUBSET (mapped \cup deleting)
      BY <1>0, <1>3 DEF ApiShutDown, Shuts, IInv, FindableIsUsable
    <2>2. QED  BY <2>1, RegistryShuts
  <1>4. CASE RemoveEmpty
    <2>1. PICK s \in cleaner.empties : RemoveIfEmpty(s)
      BY <1>4 DEF RemoveEmpty
    <2>2. PICK gone \in SUBSET mapped : mapped' = mapped \ gone /\ ShutDown(gone)
      BY <2>1, RemoveIfEmptyIsShutDown
    <2>3. Shuts(gone)
      BY <1>0, <1>4, <2>2 DEF RemoveEmpty, Shuts, IInv, FindableIsUsable
    <2>4. QED  BY <2>3, RegistryShuts
  <1>5. CASE RemoveStale
    <2>1. PICK s \in cleaner.stales :
            IF s \in mapped
            THEN mapped' = mapped \ {s} /\ ShutDown({s})
            ELSE UNCHANGED <<mapped, output, cancelled, reader, task>>
      BY <1>5 DEF RemoveStale
    <2>2. UNCHANGED <<born, clients, connVars, deleting>>
      BY <1>5 DEF RemoveStale
    <2>3. CASE s \in mapped
      <3>1. Shuts({s}) /\ {s} \in SUBSET (mapped \cup deleting)
        BY <1>0, <2>1, <2>2, <2>3 DEF Shuts, IInv, FindableIsUsable
      <3>2. QED  BY <3>1, RegistryShuts
    <2>4. CASE s \notin mapped
      <3>1. UNCHANGED <<mapped, deleting, cancelled, sess, pc>>
        BY <2>1, <2>2, <2>4 DEF connVars
      <3>2. QED  BY <3>1, RegistryRests
    <2>5. QED  BY <2>3, <2>4
  <1>6. CASE ManagerShutDown
    <2>1. Shuts(mapped) /\ mapped \in SUBSET (mapped \cup deleting)
      BY <1>0, <1>6 DEF ManagerShutDown, Shuts, IInv, FindableIsUsable
    <2>2. QED  BY <2>1, RegistryShuts
  <1>7. QED  BY <1>1, <1>2, <1>3, <1>4, <1>5, <1>6 DEF CleanerStep

\* The handlers, the cleanup task, DELETE and the shutdown implement the registry: an
\* id is used once, entered while open or by its creator, and never opens again
\* (session.rs, create_or_join_session, cleanup_client).
THEOREM SessionsAreARegistry == Spec => ImplementsRegistry
  <1>1. Init => RegistryInv /\ Registry!RegistryInit
    <2> SUFFICES ASSUME Init PROVE RegistryInv /\ Registry!RegistryInit
      OBVIOUS
    <2>1. RegistryInv  BY Initially DEF Init, RegistryInv
    <2>2. Registry!RegistryInit
      BY DEF Init, Registry!RegistryInit, RegistryState
    <2>3. QED  BY <2>1, <2>2
  <1>2. RegistryInv /\ [Next]_vars
          => RegistryInv' /\ [Registry!RegistryNext]_(Registry!registryVars)
    <2> SUFFICES ASSUME RegistryInv, [Next]_vars
                 PROVE  RegistryInv' /\ [Registry!RegistryNext]_(Registry!registryVars)
      OBVIOUS
    <2>1. IInv'  BY Inductive DEF RegistryInv
    <2>2. RegistryInv' /\ RegistryStep
      BY <2>1, RegistryHandlers, RegistryOthers DEF Next
    <2>3. QED  BY <2>2 DEF RegistryStep, Registry!registryVars
  <1>3. QED
    BY <1>1, <1>2, PTL DEF Spec, ImplementsRegistry, Registry!RegistrySpec

=================================================================================
