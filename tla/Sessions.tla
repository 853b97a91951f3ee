-------------------------------- MODULE Sessions --------------------------------
(***************************************************************************)
(* The life of terminal sessions: the SessionManager and Session of        *)
(* session.rs, the WebSocket handlers that create, join and leave sessions *)
(* (server/websocket.rs run_session, session_lifecycle.rs), the periodic   *)
(* cleanup task and graceful shutdown (server/http.rs) and DELETE          *)
(* /api/sessions/{id} (server/api.rs).                                     *)
(*                                                                         *)
(* A step is what a task does between two points where another task can    *)
(* come between: an await, or the release of a lock.  A critical section   *)
(* that takes several locks in the order sessions, clients, last_activity  *)
(* is one step, taken when its last lock is granted; the two that keep the *)
(* sessions lock while others run are the cleanup scan (read) and the      *)
(* removal of a stale session (write).                                     *)
(*                                                                         *)
(* Time: what the code compares is how long ago last_activity was, so the  *)
(* model keeps that age for every session and lets it grow up to IdleCap,  *)
(* one more than the longer of the two limits, beyond which ages behave    *)
(* alike.                                                                  *)
(*                                                                         *)
(* Left out: authentication and handshake (a connection starts when it     *)
(* asks for a session, and may still do so after a stop signal, for which  *)
(* those phases do not look), what is sent to clients, terminal output.    *)
(***************************************************************************)
EXTENDS Naturals, FiniteSets

CONSTANTS Conns,             \* WebSocket connections; each is used once
          Sessions,          \* session ids: fresh UUIDs
          NoSession,         \* the connection holds no session
          DefaultMode,       \* SessionManager::default_mode
          ReconnectWindow,   \* how long an empty session is kept
          SessionTimeout     \* how long an attached session may be idle

Modes == {"isolated", "shared_readonly", "shared_readwrite"}

ASSUME ModeAssumption == DefaultMode \in Modes
ASSUME NoSessionAssumption == NoSession \notin Sessions
ASSUME LimitsAssumption == ReconnectWindow \in Nat /\ SessionTimeout \in Nat

IdleCap == 1 + IF ReconnectWindow > SessionTimeout
               THEN ReconnectWindow ELSE SessionTimeout

VARIABLES
    \* SessionManager
    mapped,      \* ids in the sessions map
    born,        \* ids handed out so far
    \* Session, per id
    clients,     \* Session::clients
    idle,        \* age of Session::last_activity
    output,      \* ids whose output_tx still holds the broadcast sender
    cancelled,   \* ids whose cancel_token is cancelled
    reader,      \* Session::reader_task: {} or {the handler that spawned it}
    task,        \* the reader tasks, per id and handler that spawned them
    \* WebSocket handlers
    pc,          \* how far run_session got
    sess,        \* the session whose Arc the handler holds
    readonly,    \* connections that were told readonly (Client::readonly)
    \* other tasks
    cleaner,     \* cleanup_inactive: what it does and what it remembers
    deleting,    \* remove_session calls between the map and the shutdown
    server,      \* "up", "draining" (shutdown_token cancelled) or "down"
    \* history
    revived      \* sessions whose reader was started after their shutdown

sessionVars == <<clients, idle, output, cancelled, reader, task, revived>>
connVars == <<pc, sess, readonly>>
vars == <<mapped, born, sessionVars, connVars, cleaner, deleting, server>>

Phases == {"idle",        \* not connected yet
           "creating",    \* Session::new returned, not yet in the map
           "found",       \* holds the session, not yet one of its clients
           "added",       \* add_client done, READY on its way
           "started",     \* start_reader_once done
           "live",        \* in the message loop
           "leaving",     \* the loop returned
           "reclaiming",  \* removed from the clients, remove_if_empty next
           "failed",      \* create_pty_writer failed: run_session returned Err
           "closed"}

\* Phases in which a handler that called add_client has not undone it.
Registered == {"added", "started", "live", "leaving"}

\* A reader task that was never spawned, was spawned, reads, was aborted but has
\* not yet stopped, or has ended.
TaskStates == {"none", "starting", "reading", "aborted", "ended"}

Unaborted == {"starting", "reading"}

Cleaners == [pc      : {"idle", "scan", "probe", "remove", "clear"},
             todo    : SUBSET Sessions,           \* not yet looked at
             age     : [Sessions -> 0..IdleCap],  \* now - last_activity, see Touch
             cur     : Sessions \cup {NoSession}, \* being looked at or cleared
             curAge  : 0..IdleCap,                \* idle_time of cur
             empties : SUBSET Sessions,           \* empty_candidates
             stales  : SUBSET Sessions]           \* stale_candidates

IdleCleaner == [pc |-> "idle", todo |-> {}, age |-> [s \in Sessions |-> 0],
                cur |-> NoSession, curAge |-> 0, empties |-> {}, stales |-> {}]

Init ==
    /\ mapped = {} /\ born = {}
    /\ clients = [s \in Sessions |-> {}]
    /\ idle = [s \in Sessions |-> 0]
    /\ output = {} /\ cancelled = {}
    /\ reader = [s \in Sessions |-> {}]
    /\ task = [s \in Sessions |-> [c \in Conns |-> "none"]]
    /\ revived = {}
    /\ pc = [c \in Conns |-> "idle"]
    /\ sess = [c \in Conns |-> NoSession]
    /\ readonly = {}
    /\ cleaner = IdleCleaner
    /\ deleting = {}
    /\ server = "up"

-----------------------------------------------------------------------------
\* The sessions lock.  Every other critical section releases it within its step.
MapReadable == cleaner.pc # "clear"
MapWritable == cleaner.pc \notin {"scan", "probe", "clear"}

\* last_activity = now.  A scan compares it with the `now` it began with, so
\* an activity after that counts as age 0 for the scan as well.
Touch(s) == idle' = [idle EXCEPT ![s] = 0]
TouchScan(s) == [cleaner EXCEPT !.age[s] = 0]

\* Mutants of ShutDown: a reader that is left alone, a token that is not
\* cancelled.
ShutDownNoAbort(S) ==
    /\ cancelled' = cancelled \cup S
    /\ output' = output \ S
    /\ UNCHANGED <<reader, task>>

ShutDownNoCancel(S) ==
    /\ output' = output \ S
    /\ reader' = [s \in Sessions |-> IF s \in S THEN {} ELSE reader[s]]
    /\ task' = [s \in Sessions |-> [c \in Conns |->
                  IF s \in S /\ c \in reader[s] /\ task[s][c] \in Unaborted
                  THEN "aborted" ELSE task[s][c]]]
    /\ UNCHANGED cancelled

\* Session::shutdown for every session in S: cancel the token, drop the output
\* sender, take the reader handle and abort its task.  An aborted task stops at
\* its next await.
ShutDown(S) ==
    /\ cancelled' = cancelled \cup S
    /\ output' = output \ S
    /\ reader' = [s \in Sessions |-> IF s \in S THEN {} ELSE reader[s]]
    /\ task' = [s \in Sessions |-> [c \in Conns |->
                  IF s \in S /\ c \in reader[s] /\ task[s][c] \in Unaborted
                  THEN "aborted" ELSE task[s][c]]]

\* Mutant: the emptiness found by the scan is not checked again.
RemoveUnchecked(s) ==
    LET gone == mapped \cap {s}
    IN  /\ mapped' = mapped \ gone
        /\ ShutDown(gone)

\* SessionManager::remove_if_empty: nothing happens to a session with clients.
RemoveIfEmpty(s) ==
    LET gone == {x \in mapped : x = s /\ clients[x] = {}}
    IN  /\ mapped' = mapped \ gone
        /\ ShutDown(gone)

-----------------------------------------------------------------------------
\* WebSocket handlers.

\* create_or_join_session without a join id: Session::new spawns the PTY.
Create(c) ==
    /\ pc[c] = "idle"
    /\ \E s \in Sessions \ born :
        /\ born' = born \cup {s}
        /\ output' = output \cup {s}
        /\ Touch(s)
        /\ sess' = [sess EXCEPT ![c] = s]
    /\ pc' = [pc EXCEPT ![c] = "creating"]
    /\ UNCHANGED <<mapped, clients, cancelled, reader, task, readonly,
                   cleaner, deleting, server, revived>>

\* The PTY cannot be spawned: SESSION_CREATE_FAILED.
CreateFails(c) ==
    /\ pc[c] = "idle"
    /\ pc' = [pc EXCEPT ![c] = "closed"]
    /\ UNCHANGED <<mapped, born, sessionVars, sess, readonly, cleaner, deleting, server>>

\* create_session enters the new session into the map.
Publish(c) ==
    /\ pc[c] = "creating" /\ MapWritable
    /\ mapped' = mapped \cup {sess[c]}
    /\ pc' = [pc EXCEPT ![c] = "found"]
    /\ UNCHANGED <<born, sessionVars, sess, readonly, cleaner, deleting, server>>

\* Mutant: no CANNOT_JOIN.
AnySessionJoinable == TRUE

\* An isolated session cannot be joined.
Joinable == DefaultMode # "isolated"

\* create_or_join_session with the id of a session that exists.
Join(c) ==
    /\ pc[c] = "idle" /\ MapReadable
    /\ Joinable
    /\ \E s \in mapped : sess' = [sess EXCEPT ![c] = s]
    /\ readonly' = IF DefaultMode = "shared_readonly" THEN readonly \cup {c} ELSE readonly
    /\ pc' = [pc EXCEPT ![c] = "found"]
    /\ UNCHANGED <<mapped, born, sessionVars, cleaner, deleting, server>>

\* The id is unknown or no longer mapped (SESSION_NOT_FOUND), or it names an
\* isolated session (CANNOT_JOIN).
JoinRejected(c) ==
    /\ pc[c] = "idle" /\ MapReadable
    /\ pc' = [pc EXCEPT ![c] = "closed"]
    /\ UNCHANGED <<mapped, born, sessionVars, sess, readonly, cleaner, deleting, server>>

\* Session::add_client.  An isolated session takes one client; the refused
\* connection ends with SessionSetupFailed and drops its Arc.
AddClient(c) ==
    LET s == sess[c]
        full == DefaultMode = "isolated" /\ clients[s] # {}
    IN  /\ pc[c] = "found"
        /\ IF full
           THEN /\ pc' = [pc EXCEPT ![c] = "closed"]
                /\ sess' = [sess EXCEPT ![c] = NoSession]
                /\ UNCHANGED <<clients, idle, cleaner>>
           ELSE /\ pc' = [pc EXCEPT ![c] = "added"]
                /\ clients' = [clients EXCEPT ![s] = @ \cup {c}]
                /\ Touch(s) /\ cleaner' = TouchScan(s)
                /\ UNCHANGED sess
        /\ UNCHANGED <<mapped, born, output, cancelled, reader, task, readonly,
                       deleting, server, revived>>

\* Mutant: every client starts a reader.
NeedsReaderAlways(c) == TRUE

\* start_reader_once: no handle is stored.
NeedsReader(c) == reader[sess[c]] = {}

\* create_pty_writer succeeds and start_reader_once follows without an await.  The
\* task of a handle that is overwritten would be detached and read on.
StartReader(c) ==
    LET s == sess[c]
    IN  /\ pc[c] = "added"
        /\ pc' = [pc EXCEPT ![c] = "started"]
        /\ IF NeedsReader(c)
           THEN /\ reader' = [reader EXCEPT ![s] = {c}]
                /\ task' = [task EXCEPT ![s][c] = "starting"]
                /\ revived' = IF s \in cancelled THEN revived \cup {s} ELSE revived
           ELSE UNCHANGED <<reader, task, revived>>
        /\ UNCHANGED <<mapped, born, clients, idle, output, cancelled, sess,
                       readonly, cleaner, deleting, server>>

\* The descriptor cannot be duplicated: `?` leaves run_session, past cleanup_client.
WriterFails(c) ==
    /\ pc[c] = "added"
    /\ pc' = [pc EXCEPT ![c] = "failed"]
    /\ sess' = [sess EXCEPT ![c] = NoSession]
    /\ UNCHANGED <<mapped, born, sessionVars, readonly, cleaner, deleting, server>>

\* subscribe_output (whether there still is a sender or not), the heartbeat
\* monitor, and into the message loop.
EnterLoop(c) ==
    /\ pc[c] = "started"
    /\ pc' = [pc EXCEPT ![c] = "live"]
    /\ UNCHANGED <<mapped, born, sessionVars, sess, readonly, cleaner, deleting, server>>

\* Session::can_write
CanWrite(c) ==
    CASE DefaultMode = "isolated"         -> c \in clients[sess[c]]
      [] DefaultMode = "shared_readonly"  -> FALSE
      [] DefaultMode = "shared_readwrite" -> c \in clients[sess[c]] /\ c \notin readonly

\* handle_input: the input is handed to the PTY writer and refreshes the idle timer.
Input(c) ==
    /\ pc[c] = "live" /\ CanWrite(c)
    /\ Touch(sess[c]) /\ cleaner' = TouchScan(sess[c])
    /\ UNCHANGED <<mapped, born, clients, output, cancelled, reader, task, connVars,
                   deleting, server, revived>>

\* handle_input: the write fails; the output is closed for everyone.
InputFails(c) ==
    /\ pc[c] = "live" /\ CanWrite(c)
    /\ output' = output \ {sess[c]}
    /\ pc' = [pc EXCEPT ![c] = "leaving"]
    /\ UNCHANGED <<mapped, born, clients, idle, cancelled, reader, task, sess, readonly,
                   cleaner, deleting, server, revived>>

\* The loop returns: the client closed, went silent, or its socket broke.
Leave(c) ==
    /\ pc[c] = "live"
    /\ pc' = [pc EXCEPT ![c] = "leaving"]
    /\ UNCHANGED <<mapped, born, sessionVars, sess, readonly, cleaner, deleting, server>>

\* Mutant: the loop does not select on the session's token.
StopsWithServer(c) == server # "up"

\* The session's token or the server's token is cancelled.
ToldToStop(c) == sess[c] \in cancelled \/ server # "up"

\* The loop returns because it was told to.
ObserveCancel(c) ==
    /\ pc[c] = "live" /\ ToldToStop(c)
    /\ pc' = [pc EXCEPT ![c] = "leaving"]
    /\ UNCHANGED <<mapped, born, sessionVars, sess, readonly, cleaner, deleting, server>>

\* Mutant: no session is removed when its client leaves.
KeptWhateverMode == TRUE

\* cleanup_client keeps shared sessions for reconnection.
KeptForReconnect == DefaultMode # "isolated"

\* Mutant: a client of a session that is kept stays in it.
DeregisterUnlessKept(c) ==
    clients' = [clients EXCEPT ![sess[c]] = IF KeptForReconnect THEN @ ELSE @ \ {c}]

\* Session::remove_client
Deregister(c) == clients' = [clients EXCEPT ![sess[c]] = @ \ {c}]

\* cleanup_client: leaving counts as activity if the client was still registered.
\* What run_session then still sends, before it drops its Arc, touches no session.
RemoveClient(c) ==
    LET s == sess[c]
    IN  /\ pc[c] = "leaving"
        /\ Deregister(c)
        /\ IF c \in clients[s]
           THEN Touch(s) /\ cleaner' = TouchScan(s)
           ELSE UNCHANGED <<idle, cleaner>>
        /\ IF KeptForReconnect
           THEN /\ pc' = [pc EXCEPT ![c] = "closed"]
                /\ sess' = [sess EXCEPT ![c] = NoSession]
           ELSE pc' = [pc EXCEPT ![c] = "reclaiming"] /\ UNCHANGED sess
        /\ UNCHANGED <<mapped, born, output, cancelled, reader, task, readonly,
                       deleting, server, revived>>

\* cleanup_client: an isolated session is removed at once.
Reclaim(c) ==
    /\ pc[c] = "reclaiming" /\ MapWritable
    /\ RemoveIfEmpty(sess[c])
    /\ pc' = [pc EXCEPT ![c] = "closed"]
    /\ sess' = [sess EXCEPT ![c] = NoSession]
    /\ UNCHANGED <<born, clients, idle, readonly, cleaner, deleting, server, revived>>

-----------------------------------------------------------------------------
\* The PTY reader tasks (spawn_pty_reader), as far as the session sees them: the
\* one that handler c spawned for session s.

\* The descriptor is registered with the reactor.
ReaderRegisters(s, c) ==
    /\ task[s][c] = "starting"
    /\ task' = [task EXCEPT ![s][c] = "reading"]
    /\ UNCHANGED <<mapped, born, clients, idle, output, cancelled, reader, connVars,
                   cleaner, deleting, server, revived>>

\* dup, fcntl or register fails: an early return that marks nothing.
ReaderGivesUp(s, c) ==
    /\ task[s][c] = "starting"
    /\ task' = [task EXCEPT ![s][c] = "ended"]
    /\ UNCHANGED <<mapped, born, clients, idle, output, cancelled, reader, connVars,
                   cleaner, deleting, server, revived>>

\* The shell exits: end of file, then mark_pty_exited.
ReaderEof(s, c) ==
    /\ task[s][c] = "reading"
    /\ task' = [task EXCEPT ![s][c] = "ended"]
    /\ output' = output \ {s}
    /\ UNCHANGED <<mapped, born, clients, idle, cancelled, reader, connVars,
                   cleaner, deleting, server, revived>>

\* An aborted reader reaches an await and is dropped.
AbortedStops(s, c) ==
    /\ task[s][c] = "aborted"
    /\ task' = [task EXCEPT ![s][c] = "ended"]
    /\ UNCHANGED <<mapped, born, clients, idle, output, cancelled, reader, connVars,
                   cleaner, deleting, server, revived>>

-----------------------------------------------------------------------------
\* cleanup_inactive.

\* now is taken and the sessions map locked for reading.
ScanStart ==
    /\ cleaner.pc = "idle" /\ server # "down" /\ mapped # {}
    /\ cleaner' = [cleaner EXCEPT !.pc = "scan", !.todo = mapped,
                       !.age = [s \in Sessions |-> IF s \in mapped THEN idle[s] ELSE 0]]
    /\ UNCHANGED <<mapped, born, sessionVars, connVars, deleting, server>>

\* The next session: read its last_activity ...
ScanActivity ==
    /\ cleaner.pc = "scan"
    /\ \E s \in cleaner.todo :
        cleaner' = [cleaner EXCEPT !.pc = "probe", !.todo = @ \ {s}, !.age[s] = 0,
                                   !.cur = s, !.curAge = cleaner.age[s]]
    /\ UNCHANGED <<mapped, born, sessionVars, connVars, deleting, server>>

\* What the task does once nothing is left of a list.
NextPc(todo, empties, stales) ==
    IF todo # {} THEN "scan"
    ELSE IF empties \cup stales # {} THEN "remove" ELSE "idle"

\* Mutant: both limits are applied to empty sessions only.
EmptyTimesOut(s, age) == clients[s] = {} /\ age > SessionTimeout

\* The two kinds of candidates.
EmptyTooLong(s, age) == clients[s] = {} /\ age > ReconnectWindow
IdleTooLong(s, age) == clients[s] # {} /\ age > SessionTimeout

\* ... then whether it has clients, and sort it by the limit that applies.
ScanClients ==
    LET s == cleaner.cur
        empties == cleaner.empties \cup
            (IF EmptyTooLong(s, cleaner.curAge) THEN {s} ELSE {})
        stales == cleaner.stales \cup
            (IF IdleTooLong(s, cleaner.curAge) THEN {s} ELSE {})
    IN  /\ cleaner.pc = "probe"
        /\ cleaner' = [cleaner EXCEPT !.pc = NextPc(cleaner.todo, empties, stales),
                           !.cur = NoSession, !.curAge = 0,
                           !.empties = empties, !.stales = stales]
        /\ UNCHANGED <<mapped, born, sessionVars, connVars, deleting, server>>

\* An empty candidate goes through remove_if_empty.
RemoveEmpty ==
    /\ cleaner.pc = "remove"
    /\ \E s \in cleaner.empties :
        /\ RemoveIfEmpty(s)
        /\ cleaner' = [cleaner EXCEPT !.empties = @ \ {s},
                           !.pc = NextPc({}, cleaner.empties \ {s}, cleaner.stales)]
    /\ UNCHANGED <<born, clients, idle, connVars, deleting, server, revived>>

\* A stale candidate that still is in the map is removed and shut down, and the
\* sessions lock kept until its clients are cleared.
RemoveStale ==
    /\ cleaner.pc = "remove" /\ cleaner.empties = {}
    /\ \E s \in cleaner.stales :
        IF s \in mapped
        THEN /\ mapped' = mapped \ {s}
             /\ ShutDown({s})
             /\ cleaner' = [cleaner EXCEPT !.pc = "clear", !.cur = s, !.stales = @ \ {s}]
        ELSE /\ cleaner' = [cleaner EXCEPT !.stales = @ \ {s},
                                !.pc = NextPc({}, {}, cleaner.stales \ {s})]
             /\ UNCHANGED <<mapped, output, cancelled, reader, task>>
    /\ UNCHANGED <<born, clients, idle, connVars, deleting, server, revived>>

ClearStale ==
    /\ cleaner.pc = "clear"
    /\ clients' = [clients EXCEPT ![cleaner.cur] = {}]
    /\ cleaner' = [cleaner EXCEPT !.cur = NoSession,
                                  !.pc = NextPc({}, {}, cleaner.stales)]
    /\ UNCHANGED <<mapped, born, idle, output, cancelled, reader, task, connVars,
                   deleting, server, revived>>

-----------------------------------------------------------------------------
\* DELETE /api/sessions/{id}, graceful shutdown, time.

\* Mutant: the session is looked up, not taken out of the map.
ApiLookup(s) ==
    /\ s \in mapped /\ MapReadable
    /\ deleting' = deleting \cup {s}
    /\ UNCHANGED <<mapped, born, sessionVars, connVars, cleaner, server>>

\* remove_session takes the session out of the map and releases the lock ...
ApiRemove(s) ==
    /\ s \in mapped /\ MapWritable
    /\ mapped' = mapped \ {s}
    /\ deleting' = deleting \cup {s}
    /\ UNCHANGED <<born, sessionVars, connVars, cleaner, server>>

\* ... then shuts it down.  The clients are not cleared.
ApiShutDown(s) ==
    /\ s \in deleting
    /\ ShutDown({s})
    /\ deleting' = deleting \ {s}
    /\ UNCHANGED <<mapped, born, clients, idle, connVars, cleaner, server, revived>>

\* A signal cancels the shutdown token.
StopSignal ==
    /\ server = "up"
    /\ server' = "draining"
    /\ UNCHANGED <<mapped, born, sessionVars, connVars, cleaner, deleting>>

\* The listener has stopped: SessionManager::shutdown, and the background tasks
\* are aborted.
ManagerShutDown ==
    /\ server = "draining" /\ MapWritable
    /\ server' = "down"
    /\ ShutDown(mapped)
    /\ mapped' = {}
    /\ cleaner' = IdleCleaner
    /\ UNCHANGED <<born, clients, idle, connVars, deleting, revived>>

\* A session outside the map that no creator is about to publish is never
\* measured again, so its age stands still.
Aging == mapped \cup {sess[c] : c \in {d \in Conns : pc[d] = "creating"}}

Tick ==
    /\ \E s \in Aging : idle[s] < IdleCap
    /\ idle' = [s \in Sessions |->
                   IF s \in Aging /\ idle[s] < IdleCap THEN idle[s] + 1 ELSE idle[s]]
    /\ UNCHANGED <<mapped, born, clients, output, cancelled, reader, task, connVars,
                   cleaner, deleting, server, revived>>

-----------------------------------------------------------------------------
\* What a handler does on its own once it runs.
HandlerStep(c) ==
    \/ Publish(c) \/ AddClient(c) \/ StartReader(c) \/ EnterLoop(c)
    \/ ObserveCancel(c) \/ RemoveClient(c) \/ Reclaim(c)

\* What clients and failing system calls make it do.
ClientStep(c) ==
    \/ Create(c) \/ CreateFails(c) \/ Join(c) \/ JoinRejected(c) \/ WriterFails(c)
    \/ Input(c) \/ InputFails(c) \/ Leave(c)

ReaderStep(s, c) == ReaderRegisters(s, c) \/ ReaderGivesUp(s, c) \/ AbortedStops(s, c)

CleanerStep == \/ ScanStart \/ ScanActivity \/ ScanClients
               \/ RemoveEmpty \/ RemoveStale \/ ClearStale

Next ==
    \/ \E c \in Conns : HandlerStep(c) \/ ClientStep(c)
    \/ \E s \in Sessions, c \in Conns : ReaderStep(s, c) \/ ReaderEof(s, c)
    \/ \E s \in Sessions : ApiRemove(s) \/ ApiShutDown(s)
    \/ CleanerStep
    \/ StopSignal \/ ManagerShutDown \/ Tick

Spec == Init /\ [][Next]_vars

\* The runtime polls every task that can run, and time passes.  A task that
\* waits for the sessions lock gets it although the cleanup scan takes it again
\* and again, because tokio's RwLock queues its waiters: strong fairness for the
\* tasks that write the map.  A handler that sends to its client gets on, with the
\* message taken or the socket broken: the one thing assumed of clients.  Nothing
\* is assumed of the shell, of API users or of whoever stops the server.
Fairness ==
    /\ \A c \in Conns : SF_vars(HandlerStep(c))
    /\ \A s \in Sessions, c \in Conns : WF_vars(ReaderStep(s, c))
    /\ \A s \in Sessions : WF_vars(ApiShutDown(s))
    /\ WF_vars(CleanerStep)
    /\ SF_vars(ManagerShutDown)
    /\ WF_vars(Tick)

FairSpec == Spec /\ Fairness

-----------------------------------------------------------------------------
\* Properties.

\* Variable types.
TypeOK ==
    /\ mapped \in SUBSET Sessions /\ born \in SUBSET Sessions
    /\ clients \in [Sessions -> SUBSET Conns]
    /\ idle \in [Sessions -> 0..IdleCap]
    /\ output \in SUBSET Sessions /\ cancelled \in SUBSET Sessions
    /\ reader \in [Sessions -> SUBSET Conns]
    /\ task \in [Sessions -> [Conns -> TaskStates]]
    /\ revived \in SUBSET Sessions
    /\ pc \in [Conns -> Phases]
    /\ sess \in [Conns -> Sessions \cup {NoSession}]
    /\ readonly \in SUBSET Conns
    /\ cleaner \in Cleaners
    /\ deleting \in SUBSET Sessions
    /\ server \in {"up", "draining", "down"}

\* Who still has an Arc<Session>: the map, a remove_session under way, a handler,
\* a reader task, or the cleanup task.  The PTY and its shell live as long.
Referenced(s) ==
    \/ s \in mapped \cup deleting
    \/ \E c \in Conns : sess[c] = s \/ task[s][c] \in Unaborted \cup {"aborted"}
    \/ cleaner.pc = "clear" /\ cleaner.cur = s

\* A session that a client can look up has not been shut down, is not about to
\* be, and never comes back once it is: every removal takes the session out of
\* the map no later than it cancels the token.
FindableIsUsable ==
    /\ mapped \cap (cancelled \cup deleting) = {}
    /\ deleting \cap cancelled = {}

\* Whoever is registered in a session is a connection that serves it, with one
\* exception: a connection whose create_pty_writer failed stays registered.
RegisteredIsServed ==
    \A s \in Sessions : \A c \in clients[s] :
        (sess[c] = s /\ pc[c] \in Registered) \/ pc[c] = "failed"

\* A connection that serves a session is registered in it, and so may write,
\* until the session is shut down under it.
ServedIsRegistered ==
    \A c \in Conns :
        pc[c] \in Registered /\ sess[c] \notin cancelled => c \in clients[sess[c]]

\* Handlers that have spawned a reader for the session.
Spawned(s) == {c \in Conns : task[s][c] # "none"}

\* However many handlers join at a time, a session that is being served has had
\* exactly one reader started until it is shut down, and nobody aborted it: no
\* client waits for output nobody reads, and no two tasks read the PTY, each a part
\* of its output.  A reader started after the shutdown is at most one, and besides
\* it there are only aborted ones.
OneReaderUntilShutDown ==
    /\ \A s \in Sessions \ cancelled :
        /\ \A c, d \in Spawned(s) : c = d /\ task[s][c] # "aborted"
        /\ Spawned(s) = {} =>
            ~ \E c \in Conns : sess[c] = s /\ pc[c] \in {"started", "live", "leaving"}
    /\ \A s \in Sessions, c, d \in Conns :
        task[s][c] \in Unaborted /\ task[s][d] \in Unaborted => c = d

\* In isolated mode nobody shares a session: one handler at most holds it.
IsolatedIsExclusive ==
    DefaultMode = "isolated" =>
        \A c, d \in Conns : c # d /\ sess[c] = sess[d] => sess[c] = NoSession

\* In isolated mode a session leaves the map no later than its connection ends;
\* only the connection whose create_pty_writer failed leaves it behind.
IsolatedIsReclaimed ==
    DefaultMode = "isolated" =>
        \A s \in mapped : \/ \E c \in Conns : sess[c] = s
                          \/ \E c \in clients[s] : pc[c] = "failed"

\* The removals that do not ask whether the session has clients.
Forced(s) ==
    \/ s \in deleting' \ deleting
    \/ server # "down" /\ server' = "down"
    \/ cleaner.pc = "remove" /\ cleaner'.pc = "clear" /\ cleaner'.cur = s

\* No other removal takes a session away from a registered client, whatever
\* joined since the session was found empty.
OnlyForceEvicts ==
    [][\A s \in mapped \ mapped' : clients[s] = {} \/ Forced(s)]_vars

\* What the registry makes of an id: what the map, a removal under way and the
\* token say of it.
RegistryState ==
    [s \in Sessions |-> IF s \in cancelled THEN "closed"
                        ELSE IF s \in deleting THEN "closing"
                        ELSE IF s \in mapped THEN "open"
                        ELSE "absent"]

Registry == INSTANCE SessionRegistry
                WITH state <- RegistryState, at <- sess, Shared <- DefaultMode # "isolated"

\* The map, the tokens and the handlers' references implement the registry: whatever
\* handlers, the cleanup task, DELETE and the shutdown do among each other, an id is
\* used once, a session is entered while it is open or by its creator, no creator
\* drops a session that was never entered into the map, and none opens twice.
ImplementsRegistry == Registry!RegistrySpec

\* Every handler of a session that was shut down ends, also one that looked the
\* session up before and registers only afterwards.
ForcedOutHandlersEnd ==
    \A c \in Conns, s \in Sessions :
        (sess[c] = s /\ s \in cancelled) ~> sess[c] # s

\* A session that nobody serves does not stay: it is joined or removed, also one
\* left behind with a client that no longer exists.
AbandonedIsRemoved ==
    \A s \in Sessions :
        (s \in mapped /\ \A c \in Conns : sess[c] # s)
            ~> (s \notin mapped \/ (\E c \in Conns : sess[c] = s) \/ server = "down")

\* A session that is shut down is released, PTY and all, unless a handler that
\* was still on its way to start_reader_once started the reader anew.
ShutDownReleases ==
    \A s \in Sessions : s \in cancelled ~> (~Referenced(s) \/ s \in revived)

-----------------------------------------------------------------------------
\* What the code's comments promise and the code does not keep.

\* session.rs on cancel_token: handlers "run their normal cleanup paths, which
\* guarantees the PTY child is killed".  The end of the process, which would also
\* release everything, does not count: a server that goes on must get there.
ForcedRemovalReleasesPty ==
    \A s \in Sessions : s \in cancelled ~> (~Referenced(s) \/ server # "up")

\* message_loop.rs on touch: "cleanup_inactive never force-removes an actively
\* used session".
ActiveIsNeverForceRemoved ==
    [][\A s \in Sessions :
          cleaner.pc = "remove" /\ cleaner'.pc = "clear" /\ cleaner'.cur = s
              => idle[s] > SessionTimeout]_vars
================================================================================
