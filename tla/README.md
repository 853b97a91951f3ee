# Formal models of ttyd-rs

TLA+ modules that model ttyd-rs from its command line to its shells, the TLC
configurations that check them on small instances, and proofs, checked by TLAPS,
that the safety properties hold for every number of connections, sessions, uploads,
shells and requests. All paths
are relative to this directory; the program is under `../src`.

1. [The system](#1-the-system)
2. [Modules](#2-modules)
3. [Runs](#3-runs)
4. [Proofs](#4-proofs)
5. [Findings](#5-findings)
6. [What is not modelled](#6-what-is-not-modelled)
7. [Plan](#7-plan)

## 1. The system

ttyd-rs serves terminals over WebSockets. It is one process on a multi-threaded
tokio runtime; all concurrency is between tasks that share `Arc`s, `tokio`
locks (held across awaits), `std` mutexes (never held across an await), one
atomic counter, cancellation tokens and broadcast channels.

### Components, their state and their operations

| Component | Source | State | Operations |
|---|---|---|---|
| Connection limit | `server/websocket.rs` 72-195 | `active_connections: AtomicUsize` | claim a slot (compare-exchange loop), give it back |
| Connection handler (`run_session`) | `server/websocket.rs` 256-416 | locals: client id, `Arc<Session>`, PTY writer, heartbeat and subscriber handles | authenticate, handshake, create or join, register, start tasks, message loop, clean up |
| Authentication | `server/websocket/auth.rs`, `auth/*` | validator built at start-up | rate limit, one `Auth` message, reset on success |
| Handshake | `server/websocket/handshake.rs` | size, session to join | `Resize` and `Join` in either order, 100 ms look-ahead |
| Session | `session.rs` 89-333 | `clients`, `last_activity`, `output_tx`, `cancel_token`, `reader_task`, PTY | `add_client`, `remove_client`, `start_reader_once`, `mark_pty_exited`, `touch`, `can_write`, `shutdown` |
| Session manager | `session.rs` 335-570 | `sessions` map | `create_session`, `get_session`, `remove_session`, `remove_if_empty`, `cleanup_inactive`, `shutdown` |
| Message loop | `server/websocket/message_loop.rs` | - | input, resize, ping, file list; four ways to end |
| PTY reader, output subscribers | `server/websocket/pty_io.rs` 20-238 | broadcast channel of 256 bursts | read bursts, broadcast, lag notice, ordered disconnect |
| Heartbeat monitor | `server/websocket/pty_io.rs` 240-302 | `last_ping_time` | ping every 30 s, give up after 90 s |
| PTY process | `pty/process.rs` | master descriptor, child pid | fork, resize, SIGCHLD handler, SIGHUP on drop |
| Rate limiter | `rate_limit.rs` | entry per client key | `check`, `reset`, `cleanup` |
| HTTP server | `server/http.rs` | router, background tasks, `shutdown_token` | routes, middleware, periodic cleanup, graceful shutdown |
| REST API, status | `server/api.rs`, `server/status.rs` | - | list, get, delete sessions; counters |
| File transfer | `server/files.rs` | the file system | upload, download, list |
| Audit log | `audit.rs` | one open file | append a line per event |
| Configuration, CLI, validation, protocol types, assets | `config.rs`, `main.rs`, `validation.rs`, `protocol.rs`, `assets.rs` | - | parsing and checking |

### How they interact

An upgrade request claims a slot; `on_upgrade` then starts `handle_socket`, which
runs `run_session` and gives the slot back. `run_session` gets its session from
the manager (by creating it, or by looking up the id in `Join`), registers as a
client, starts the session's reader if nobody has, subscribes to the output and
enters the loop. The reader reads the PTY and broadcasts; each connection's
subscriber forwards to the WebSocket through a sender that it shares, under a
lock, with the heartbeat monitor and the loop. The loop ends when the client
closes, the heartbeat gives up, the session's token or the server's token is
cancelled, or an I/O error occurs; `cleanup_client` then deregisters the client
and, in isolated mode, removes the session.

Sessions are removed from four places: `cleanup_client`, the cleanup task (every
30 s), `DELETE /api/sessions/{id}` and the manager's shutdown. Removal takes a
session out of the map; `Session::shutdown` cancels its token, drops the
output sender and aborts the reader. The PTY itself goes when the last
`Arc<Session>` does.

Locks are taken in the order `sessions`, `clients`, `last_activity`.

### What is hard

* **Interleaving.** A handler holds an `Arc<Session>` over many awaits during
  which the session may be removed; four removers and any number of joiners.
* **Stale state.** `cleanup_inactive` decides under a read lock and acts after
  releasing it; the rate limiter takes the time before it has its lock.
* **Partial failure.** An upgrade that fails after the slot was claimed; a `?`
  that leaves `run_session` past its cleanup; a reader that gives up early.
* **Liveness.** Nothing kills a PTY directly: it goes when every holder has let
  go, so every handler and every reader has to notice the removal.
* **Shared resources.** One sender lock per connection, one file description
  per PTY, one counter for all connections.

* **Dropped handlers.** A task whose client leaves, or that is aborted, stops at its
  await, while a blocking task it started goes on; the process itself may end with
  handlers cut off wherever they are.
* **Processes and signals.** `fork` copies every descriptor the server has open,
  SIGCHLD is not queued, and the pid of a reaped child comes back as another's.
* **Layers of configuration.** File, command line and checks have an order, and so
  have the layers of the router; a wrong order opens something or lets refused
  clients use up what is for others.

`PROJECT.json` lists each hazard with the line where it bites and the property
that covers it, or why none does.

### What makes each component correct

* Connection limit: the counter is exact, never exceeds the limit, never wraps;
  a slot is given back when its connection ends.
* Sessions: a session that can be found is usable; registration and service
  agree; one reader per session; nobody but a forced removal throws clients
  out; an isolated session is private and goes with its connection; abandoned
  sessions are removed; removed ones are released with their PTY.
* Output: every subscriber gets a subsequence of the reader's bursts in order,
  hears of what it missed, and the disconnect comes last.
* Heartbeat: a silent client is disconnected, a live one is not.
* Authentication and handshake: no session without valid credentials; every
  open is paired with one close among the audit events; at most one message of the main
  loop is lost; READY is right.
* The server: access is what file and command line together ask for; refused
  clients use up no budget; a signal ends the process.
* Rate limiter: the number of requests let through is bounded, a penalty is
  served, cleanup changes no answer.
* File transfer: a reader sees whole files only; without `overwrite` nothing is
  replaced; no temporary file stays.
* PTY process: every child is reaped; no shell holds another's terminal; the end of
  a shell can be seen.

## 2. Modules

```
ConnectionSlots      what a connection limit promises (abstract)
ConnectionLimit      the atomic counter; INSTANCE ConnectionSlots WITH holders <- Holders
  MCConnectionLimit        constants for TLC
  LimitAndHeartbeatProofs  TLAPS, for Heartbeat too
SessionRegistry      what the session manager promises to connections (abstract)
Sessions             session manager, sessions, handlers, cleanup, DELETE, shutdown;
                     INSTANCE SessionRegistry WITH state <- RegistryState, at <- sess
  MCSessions               constants for TLC
  SessionsProofs           TLAPS
RateLimiter          check, record, reset and cleanup of the rate limiter
  MCRateLimiter            constants for TLC
  RateLimiterProofs        TLAPS
OutputStream         what a client may see of a terminal (abstract)
OutputChannel        reader, broadcast channel, subscribers; INSTANCE OutputStream
                     WITH produced <- Len(sent)
  MCOutputChannel          constants for TLC
  OutputChannelProofs      TLAPS
Connection           one connection: login, handshake, set-up, loop, end, audit events
  MCConnection             the configurations for TLC
  ConnectionProofs         TLAPS
Heartbeat            monitor, subscriber and loop at the sender's lock, and time
  MCHeartbeat              constants for TLC
FileStore            a directory of whole files (abstract)
Upload               uploads, their blocking tasks, downloads, a crash; INSTANCE
                     FileStore WITH files <- Contents
  MCUpload                 constants for TLC
  UploadProofs             TLAPS
PtyProcess           spawn, set-up, SIGCHLD handler and Drop of shells
  MCPtyProcess             constants for TLC
  PtyProcessProofs         TLAPS
HttpServer           configuration, start, routes, access, budget, graceful stop
  MCHttpServer             constants for TLC
  HttpServerProofs         TLAPS
```

The same handler appears at four levels. `HttpServer` has it from the upgrade to
its end as one thing that may be cut; `Connection` follows one handler through every
phase, with what its client sends and sees; `Sessions` has many handlers of several
sessions and leaves out what they say; `Heartbeat` and `OutputChannel` open the
message loop where its tasks share the sender and the broadcast channel. Each level
takes what the other decides as a choice: in `Connection` a session may be removed
by force at any time, which `Sessions` says when; in `Sessions` a handler may leave
its loop at any time, which `Heartbeat` says when.

### ConnectionLimit

`active` is `AppState::active_connections`; `pc[c]` and `seen[c]` are the
program counter and the local `current` of request `c`. `Load`, `Reject`,
`CompareExchange` and `Retry` are the four outcomes of the loop in
`try_acquire_connection`. `Upgraded` and `UpgradeFails` are axum's: the callback
runs, or is dropped when the peer has gone. `Finish` is the `fetch_sub`. A
request that has been answered returns to `"idle"` and its name is used
again, so the model runs for ever with a finite set of names. A spurious failure
of `compare_exchange_weak` is a stuttering step. Memory orderings are not
modelled: all accesses are to one location, whose modification order is total.

`ConnectionSlots` has one variable, the set of holders; `Acquire` needs fewer
than `MaxConnections` holders. `Holders` maps the detailed state to it.

### Sessions

State, per session id: membership in the map (`mapped`), `clients`, the age of
`last_activity` (`idle`), whether `output_tx` still has its sender (`output`),
whether the token is cancelled (`cancelled`), the handle in `reader_task` (`reader`,
which names the handler that spawned that task), and the reader tasks themselves,
one for each handler that may have spawned one (`task`: none, starting, reading,
aborted, ended), so that a session could have several. Per connection: how far
`run_session` got (`pc`), the session it holds (`sess`), whether it registered as
readonly. The cleanup task is a record with its candidate lists; `deleting` holds
the sessions that `remove_session` has taken out of the map and not yet shut down.
`born` makes ids fresh, as UUIDs are; `revived` is a history variable, the sessions
whose reader was started after their shutdown.

A step is what a task does between two points at which another task can come in
between. Actions and code:

| Actions | Code |
|---|---|
| `Create`, `CreateFails`, `Publish` | `Session::new`, then the insertion under the write lock: two steps |
| `Join`, `JoinRejected` | `get_session` and the mode test |
| `AddClient` | `add_client` under the clients lock, with its refusal |
| `StartReader`, `WriterFails` | `create_pty_writer` and `start_reader_once`, or the `?` between them |
| `EnterLoop`, `Input`, `InputFails`, `Leave`, `ObserveCancel` | the message loop |
| `RemoveClient`, `Reclaim` | `cleanup_client`: `remove_client`, then `remove_if_empty` in isolated mode |
| `ReaderRegisters`, `ReaderGivesUp`, `ReaderEof`, `AbortedStops` | the reader task |
| `ScanStart`, `ScanActivity`, `ScanClients` | the scan: `now` and the read lock, then for each session `last_activity` and `is_empty` separately |
| `RemoveEmpty`, `RemoveStale`, `ClearStale` | the removals; the write lock is kept from `RemoveStale` to `ClearStale` |
| `ApiRemove`, `ApiShutDown` | `remove_session`: the map, then the shutdown without the lock |
| `StopSignal`, `ManagerShutDown` | the shutdown token; `SessionManager::shutdown` |
| `Tick` | time |

The `sessions` lock is implicit: a critical section is one step, except the scan
(read lock over many steps) and the removal of a stale session (write lock over
two); `MapReadable` and `MapWritable` say when others may get it.

Time is relative. The code compares `now - last_activity` with two limits, so
the model keeps ages and caps them at `IdleCap`, one more than the longer limit:
beyond it all ages compare alike. A scan takes `now` once; an activity after that
has age 0 for this scan too (`duration_since` saturates), which `TouchScan`
records in the cleaner's snapshot.

Abstractions: a connection is used once, so a client that reconnects is another
connection; two `Arc`s of one handler are one; `list_sessions`, `stats` and file
requests hold an `Arc` for a moment and change nothing; no handler looks up
another's isolated session, so that `IsolatedIsExclusive` is about the mode test of
`create_or_join_session`, and the refusal of `add_client` behind it meets nobody;
what `run_session` sends after `cleanup_client` touches no session, and the
handler's `Arc` is dropped in the model with the cleanup.

`SessionRegistry` has two variables: what has become of an id (absent, open, closing,
closed), and the session each connection is in. A session is open while it is in the
map, closing while a removal has taken it out and has not yet shut it down, closed
once its token is cancelled (`RegistryState`). `Publish` is `Open`, the four removals
are `TakeOut` and `Close`, `RemoveClient` is `Leave`, and a `Reclaim` that finds nobody
closes the session and leaves it in one step (`LeaveLast`).

### RateLimiter

`entry` is the store, `NoEntry` an absent key (the code never stores a count of
zero), `until = 0` is `blocked_until = None`, `clock` is `Instant::now()`.

| Action | Code |
|---|---|
| `Arrive` | `check` takes `now`; the lock is waited for after that |
| `Refuse`, `Allow`, `Trip` | the lock is granted and `record` runs: blocked already, counted, or one too many |
| `Authenticate` | `perform_auth` succeeded and calls `reset` |
| `Cleanup` | `cleanup`, whose `now` is taken under the lock |
| `Tick` | time passes, while nobody waits for the lock longer than `LockDelay` |

A waiting request keeps the time it took, so requests are counted late and out of
order; `Elapsed` saturates at zero as `duration_since` does. A refused request
comes back as a later one. `told` is history: the end of the block that was last
announced to a client, none after a reset.

### OutputChannel

One session. The shell's output is a number of chunks (`written`), of which the
reader has taken `read`; `sent` holds the bursts it broadcast, each named by its
place in the stream. `closedBy` tells whether `output_tx` still has its sender and,
if not, who was the first to take it; `next[c]` is the position of a client's
`broadcast::Receiver`, `sub[c]` its subscriber task with what it is about to send,
`got[c]` what was sent to the client.

| Actions | Code |
|---|---|
| `ReaderRegisters`, `ReaderGivesUp` | `spawn_pty_reader` up to the registration, or one of its early returns |
| `ReaderDrains`, `ReaderEof`, `ReaderFails`, `ReaderMarks` | the read loop, `broadcast_output`, and the final `mark_pty_exited` |
| `Attach`, `Subscribe` | `start_reader_once`; `subscribe_output`, or "Shell exited" at once |
| `Input`, `InputFails` | a write that fails; `handle_input` hears of it and calls `mark_pty_exited` |
| `Leave`, `MustLeave`, `EndConnection` | the loop returns, the subscriber is aborted; "Session ended" and the close |
| `TakeBurst`, `TakeLag`, `TakeClose` | the three results of `recv` |
| `Deliver`, `SendFails`, `CooledDown` | the send under the sender lock; the cooldown of the lag notice |
| `ShutDown` | `Session::shutdown` |

A write that fails is reported late: `tokio::fs::File` hands the data to a blocking
thread and returns, and the next write returns the error. It fails when the shell is
gone (EIO), or, while it runs, because the PTY's buffer is full and the reader has set
`O_NONBLOCK` on the file description it shares with the writers (EAGAIN). An aborted
subscriber may go on until its next await.

`OutputStream` is what a client may rely on: bursts of one stream in order, none
twice, at most one "Shell exited" and no output after it, one "Session ended".

### Connection

One connection, its client, and its audit events. `pc` is how far
`handle_terminal_session` got, `wire` the number of frames that have arrived and were
not read: what a frame is, is decided when it is read, which makes a client that may
send anything one number. `said` is what the client was told outside the loop, `ready`
what READY said, `effects` what the client achieved. `events` (history) is what was
given to the audit logger: a step that joins or leaves a session records it, too.

| Actions | Code |
|---|---|
| `Open`, `NoAuthNeeded`, `Misconfigured`, `RateLimited`, `WithinRate` | the "opened" event and the checks before the first read |
| `LoginUnexpected`, `LoginUnreadable`, `LoginAbandoned`, `LoginRefused`, `LoggedIn` | `perform_auth`: the five kinds of first frame |
| `FirstIsResize`, `FirstIsJoin`, `FirstIsOther`, `SecondRead`, `Peek`, `SizeRejected`, `HandshakeFails` | `read_handshake` |
| `SetupRefused`, `CreateSession`, `JoinSession`, `WriterFails`, `EnterLoop` | `create_or_join_session`, `add_client`, READY, the tasks |
| `Input`, `InputRefused`, `InputFails`, `LoopRejects`, `Resize`, `FileList`, `LoopIgnores` | the messages of the loop |
| `ClientLeaves`, `HeartbeatTimeout`, `ObserveShutdown`, `ObserveToken` | the ways out of the loop |
| `CleanUp`, `FailureEndsIt`, `Disconnected` | `cleanup_client`; an error passed on with `?`; "Session ended" and the last event |

A send that must succeed is `SaysAndEnds`, one whose failure is ignored
`SaysIfPossible`; sends fail only when the client has gone. `Logs` is
`log_event`, which gives the event to tracing and then to the log file. What reaches the
file is left out: the logger's one `tokio::fs::File`, which all connections share,
returns before its write is done and reports a failure to the next write, whosever it
is, so that a full disk loses every line and nothing can be promised of any.

### Heartbeat

The sender's lock is a `tokio` mutex, which is fair: `queue` is its holder followed
by those who wait. Whoever holds it keeps it while the send waits for room, so
`buffer`, the way to the client, is what everybody waits for when a client does not
read. `next` is the time to the monitor's next tick (an interval that catches up),
`silence` the age of `last_ping_time`. Time passes only when all tasks that can go on
have done so (`Settled`) and a prompt client has read everything; a slow one reads at
some time, a deaf one never, one that has gone makes sends fail at once or later.

| Actions | Code |
|---|---|
| `MonitorTicks`, `MonitorPings`, `MonitorChecks` | `spawn_heartbeat_monitor`: the tick, the ping under the lock, and only then the look at the time |
| `OutputArrives`, `SubscriberSends` | the subscriber's sends |
| `LoopTakes`, `LoopWorked`, `LoopReplies` | pong, ping, requests that take time, answers |
| `LoopSeesTimeout`, `LoopTells`, `StreamEnded`, `TokenCancelled` | the ways out of the loop |
| `Abort`, `MonitorDropped`, `SubscriberDropped`, `Farewell`, `Close` | the end of `run_session`; a task that is aborted is dropped with the lock or with its place in the queue |

### Upload

A directory is `entry` (name to inode), `temps` (inodes that still have a temporary
name) and `whole` (inodes that hold all of their upload). An inode is named by the
request and the place of the file in its body. `File::create` and the renames run on a
blocking thread (`task`): the handler waits for them, and when its client leaves the
handler is dropped and the task goes on. That is why `Dropped` in "creating", where the
guard does not exist yet, can leave a temporary file behind, and why a rename may
still be done for a client that has gone.

| Actions | Code |
|---|---|
| `Begin`, `BaseUnresolved`, `DeclaredTooLarge`, `MakeBase`, `CheckBase` | the preflight of `upload_file` |
| `BadField`, `NextFile`, `NoMoreFiles`, `Drained` | the loop over the fields and the drain before a refusal |
| `PerformCreate`, `Created` | the temporary file and its guard |
| `TooLarge`, `WriteFails`, `Written` | the chunks and the flush |
| `PerformRename`, `Renamed`, `RenameFailed` | the rename, with and without replacement |
| `Dropped`, `Crash` | the client leaves; the server process ends and is started again |
| `Download`, `DownloadEnds` | a reader opens a target name |

`FileStore` has no temporary files, no tasks and no inodes: a name has a whole file or
none. `Contents` maps the directory to it, and would show a file that is not whole as
one the store does not have; `PerformRename` is `Put`, everything between the beginning
of a request and its end stutters.

### PtyProcess

A terminal's two ends are the sets of those who have them open (`master`, `slave`):
the server, the session, its reader, and every child between `fork` and `exec`, which
copies them all. `owner` says who has a pid: a process keeps it until it is reaped,
and then it is free for anybody. `sigchld` is one bit, as the kernel's.

| Actions | Code |
|---|---|
| `OpenPty`, `ForkFails`, `Fork`, `DropSlave` | `PtyProcess::spawn` in the server |
| `Exec`, `SetupFails` | `setup_child` up to `execvp`, with `close_fds_above` |
| `OpenReader`, `CloseReader` | the reader's duplicate of the master |
| `Exit`, `HangUp`, `OtherProcess` | external: the shell, the kernel, other processes |
| `Deliver`, `Reap`, `HandlerReturns` | `sigchld_handler` and its loop over `waitpid(-1)` |
| `DropClose`, `DropKill`, `DropReap` | `Drop`: the master, SIGHUP, `waitpid` |

The handler runs in one thread at a time here. On several threads two may be between
each other's calls of `waitpid`; each call is atomic in the kernel and each handler ends
only after a call that found nothing, so no order of theirs reaps less.
`close_fds_above` closes what it should: that `close_range` and `/proc/self/fd` are both
unavailable, when it would close nothing, is not modelled.

### HttpServer

`file` is the configuration, first as read and then with the overrides of `args`;
`built` says whether the state has a validator. `budget` is what the file limiter
still lets pass in its window.

| Actions | Code |
|---|---|
| `StandaloneOrBadInput`, `LoadConfig`, `StartFails`, `StartServer`, `Bind` | `main`, `load_config`, `apply_overrides`, `validate`, `start_server` up to the listener |
| `Listen`, `Signal`, `Notice`, `ServeEnds`, `MainReturns` | the signal task, the graceful stop, the end of `main` with what it cuts |
| `GetPublic`, `NoRoute`, `Authorize`, `Limit`, `Answer`, `Abandon` | a request through the layers of `create_router` |
| `OpenSocket`, `ListOverSocket`, `LeaveTerminal`, `CloseSocket` | a terminal: let in or not, its file lists on the same budget, its end |
| `WindowPasses` | time, for the budget |

"Basic" is a method of its own in the model because `validate` and
`AuthMethod::build` do not agree about it (see the findings).

## 3. Runs

Bounds: the CONSTANTS of each `.cfg`, and in guards `LockDelay` and `Horizon` of
`RateLimiter`, `MaxSent` of `Connection`, `MaxFiles` and `MaxCrashes` of `Upload`,
`BufferSize` and `InboxSize` of `Heartbeat`; nothing else is cut off.

| Run | Instance | Checks | States |
|---|---|---|---|
| `connection_limit` | 4 requests, limit 2 | `CounterCountsHolders`, `LimitHolds`, `ImplementsSlots` | 708 |
| `sessions_shared` | 3 connections, 1 session, read-write | `FindableIsUsable`, `RegisteredIsServed`, `ServedIsRegistered`, `OneReaderUntilShutDown`, `OnlyForceEvicts`, `ImplementsRegistry` | 0.87 M |
| `sessions_isolated` | 2 connections, 2 sessions, isolated | `IsolatedIsExclusive`, `IsolatedIsReclaimed` | 2.0 M |
| `sessions_live` | 2 connections, 1 session, read-write, fair | `ForcedOutHandlersEnd`, `AbandonedIsRemoved`, `ShutDownReleases` | 62 k |
| `sessions_pty_leak` | same, fair | violated, without a stop signal: `ForcedRemovalReleasesPty` | - |
| `rate_limiter` | 5 requests, 2 clients, limit 2, window 2, lock delay 1, clock to 6 | `TwoWindowsAtMost`, `BlockIsServed`, `RefusalIsDeserved` | 0.95 M |
| `output_channel` | 2 clients, capacity 1, 2 chunks, fair | `ExitAfterFinalOutput`, `FirstLossIsTold`, `ImplementsStream`, `ExitIsAnnounced` | 0.26 M |
| `connection` | 5 configurations, 4 frames, fair | `NothingWithoutLogin`, `AuditTellsTheStory`, `HandshakeTakesItsOwn`, `ReadyIsHonest`, `EndIsReached` | 0.27 M |
| `heartbeat` | interval 2, timeout 6, room for one burst, fair | `PromptClientIsKept`, `SilenceIsNoticed`, `DeadConnectionEnds` | 0.47 M |
| `upload` | 2 uploads of up to 2 files, 2 names, 1 download, 1 crash | `WholeFilesOnly`, `TempsAreTransient`, `AnswersAreTrue`, `OnlyOverwriteReplaces`, `ImplementsStore` | 0.23 M |
| `pty_process` | 2 shells, 2 pids, fair | `ShellsAreApart`, `ZombiesAreReaped`, `EndIsSeen` | 41 k |
| `http_server` | every configuration and command line, 2 requests, 1 WebSocket, budget 1, fair | `NothingIsOpenByAccident`, `OnlyAuthorizedSpend`, `SignalEndsIt` | 0.74 M |

Every module has a type invariant. No run checks one: all but `Connection`'s are proved.

Why these bounds. Four requests and two slots let two requests race for the last
slot while a third finishes and a fourth is lost. Three connections on one
session are one that leaves, one that stays and one that is late, which is what
the races on a single session need; sessions interact only through the cleanup
task's lists, for which the isolated run has two. `ReconnectWindow = 1` and
`SessionTimeout = 2` make the limits different and both reachable, with ages 0
to 3. All three modes differ from each other in `CanWrite`, `Joinable` and
`KeptForReconnect` only; `shared_readonly` allows a subset of the steps of
`shared_readwrite` (no `Input`). The proofs cover every instance.

Five requests are one more than two windows allow, and a clock that goes to 6 sees
a block of the first window end (at 4) and a window after it. `TwoWindowsAtMost`
depends on the delay at the lock: it speaks of the window less that delay, and within
more, late requests of a third window can come on top. It is proved for every delay
shorter than the window, the two action properties for every delay.

A channel that holds one burst (256 in the code) makes a client lag as soon as two are
sent. Two clients are one whose failed write closes the channel and one who suffers
from it. A second lag, which needs a third chunk, is outside the run; the proofs have
it, for the safety properties.

Four frames are a login, the two of a handshake and one for the loop, or three
for the loop where no login is asked for. The five configurations have every kind of
login and mode, and file transfer on and off; the proofs cover the rest.

The heartbeat's proportion of interval to timeout is the code's (30 s to 90 s). Room
for one burst makes the way full as soon as the client does not read; a ping takes no
room, so that a deaf client is first one that takes pings and then one that does not.

Two uploads of two files under two names can each find the other's file in their way
before and after the check, with or without `overwrite`; one crash comes between any
two of their steps. Two shells suffice for one that holds another's descriptors,
for a pid that comes back, and for two ends in one SIGCHLD. Two requests and a
WebSocket compete for a budget of one.

Symmetry is used in the safety runs whose properties treat names alike, never
with liveness. Deadlock is checked for the connection limit and the rate limiter,
which run for ever; the other runs switch it off because connections, uploads, shells
and the server itself come to an end.

Every property has a mutant: an operator that changes one modelled definition the
way a plausible bug would (a store instead of an exchange, a token that is not
cancelled, a lock that is kept, a rename that replaces, a layer in the wrong place).
Each mutant makes TLC find its property violated.

### Fairness

`FairSpec` is used by the runs with a liveness property.

* `Sessions`, handlers and the manager's shutdown: strong fairness. The runtime polls
  every task that can run. They wait for the `sessions` write lock, which the scan
  takes again and again; `tokio::sync::RwLock` queues its waiters in order, so a
  waiter that keeps being overtaken in the model would not be in the program.
* Reader tasks, `remove_session` under way, the cleanup task, time: weak fairness.
* `OutputChannel`: weak fairness of the reader, of each subscriber and of each
  handler's own steps, on the same grounds; none of the shell, of failures or of
  `CooledDown`.
* `Connection`: weak fairness of the handler as a whole: it does something whenever it
  can. The monitor, the client and the operator need do nothing.
* In `Sessions`, `OutputChannel` and `Connection` a send to a client completes or
  fails. The program has no send timeout; what a client that keeps its connection open
  and never reads can hold up is the subject of `Heartbeat`.
* `Heartbeat`: weak fairness of each of the three tasks (the mutex hands the lock on in
  order, and `queue` has that order), of time, and of a client that reads; none of a
  deaf one.
* `PtyProcess`: code that runs goes on and signals are delivered; nobody has to spawn,
  exit or drop anything.
* `HttpServer`: the start, the signal task and the stop go on; a terminal's handler
  looks at the token. A request may take as long as its client likes, which
  `SignalEndsIt` makes a condition: axum waits for it. It also waits for the answers of
  public routes and for request heads that have come in half, which are instantaneous in
  the model: of those the property does not speak.
* Nothing is assumed of shells, of API users, of clients that could connect, type
  or leave, or of the operator.

## 4. Proofs

Eight modules prove the safety properties for every value of the constants:

| Theorem | States |
|---|---|
| `LimitAndHeartbeatProofs!CounterTypesHold`, `CounterExact`, `LimitNeverExceeded` | the three invariants of the counter |
| `CounterImplementsSlots` | `ConnectionLimit` implements `ConnectionSlots` |
| `NobodyPromptIsDropped` | `PromptClientIsKept`: whoever answers promptly is not given up |
| `SilenceFound` | `SilenceIsNoticed`, an action property: silence is found within the timeout and one interval |
| `SessionsProofs!TypesHold` | `Spec => []TypeOK` |
| `FindableSessionsUsable`, `RegistrationIsServed`, `ServiceIsRegistered`, `OneReader`, `IsolatedSessionsExclusive`, `IsolatedSessionsReclaimed` | the safety invariants of the runs |
| `OnlyForcedRemovalsEvict` | `Spec => OnlyForceEvicts`, an action property |
| `SessionsAreARegistry` | `Sessions` implements `SessionRegistry` |
| `RateLimiterProofs!TypesHold` | types; a count never exceeds `max_requests + 1` |
| `BlocksAreServed`, `RefusalsAreDeserved` | the two action properties of the rate limiter |
| `TwoWindows` | `LockDelay < Window` implies `Spec => []TwoWindowsAtMost` |
| `OutputChannelProofs!ExitComesLast`, `FirstGapIsTold` | the two invariants of the output |
| `OutputIsAStream` | `OutputChannel` implements `OutputStream` |
| `ConnectionProofs!NobodyGetsIn`, `OrderDoesNotMatter`, `ReadyTellsTheTruth`, `AuditStory` | the connection's four invariants, for conversations of any length |
| `UploadProofs!WholeFiles`, `TemporaryFiles`, `TrueAnswers`, `NoSilentReplacement` | the upload's invariants and its action property |
| `UploadsAreAStore` | `Upload` implements `FileStore` |
| `PtyProcessProofs!Isolation` | `ShellsAreApart` |
| `HttpServerProofs!NothingOpens`, `SpendingIsAuthorized` | who is let in, and who uses up the budget |

`OutputChannelProofs`, `UploadProofs`, `PtyProcessProofs` and `HttpServerProofs` also
state the type invariant (`TypesHold`) and the inductive one (`InvariantHolds`), and
so does `LimitAndHeartbeatProofs` of the heartbeat (`TypesHold`, `HeartbeatInvariant`).

Assumptions: `MaxConnections`, `MaxBudget` and `MaxFiles` are positive natural
numbers (the first by `Config::validate`) and the connection requests are finite in
number; the heartbeat's interval is no longer than its timeout (30 s and 90 s,
constants of `pty_io.rs`; the monitor would give up everybody with a longer one),
and there is room for one burst and one frame at least; `DefaultMode` is one of the
three modes, `NoSession` is no session id, the limits are natural numbers; a shell
is none of the other names for holders of a descriptor; configurations are records
of the stated fields.

The counter. `TypeOK` and `CounterCountsHolders` are inductive together; the
limit needs in addition only the test of the value that the exchange compares,
since the exchange succeeds exactly when that value is current. The refinement
maps `CompareExchange` to `Acquire`, `Finish` to `Release`, the rest to
stuttering; `Acquire`'s bound on the number of holders comes from the counter
being exact.

The heartbeat. `HeartbeatInv` has the queue of the lock (`Sender`: nobody is in it twice,
and each task is in it exactly when it is about to send), what is on the way in both
directions (`Outward`: no two pings next to each other, which bounds them by the bursts;
`Inward`), and two facts about time. `AnswerUnderWay`: since the monitor last woke, a
ping of a prompt client waits for the lock, or lies in the buffer, or its pong lies in
the inbox, or `last_ping_time` has been refreshed since; time passes only when none of
the first three is so, and hence the age of `last_ping_time` never exceeds the last tick
and the monitor finds it within the timeout. A client for which time passed while the
loop was busy (`heldUp`) is excepted, as the code can give it up. `FoundInTime`: while
the monitor sleeps, the age is at most the timeout and what has passed of the interval;
`SilenceIsNoticed` follows, as the monitor sleeps whenever the lock is not waited for.

The sessions. `IInv` adds five facts to the seven invariants:

* `HoldersHold` - a handler holds a session exactly in the phases in which
  `run_session` has one;
* `TracesAreBorn` - an id that was never handed out occurs nowhere, so a new
  session starts with no clients and no reader;
* `UnpublishedIsPrivate` - between `Session::new` and the insertion only the
  creator knows the session, and nobody can have shut it down; without it
  `Publish` could map a cancelled session;
* `CleanerIsAt` - the session whose clients are about to be cleared is shut down;
  without it `ClearStale` could break `ServedIsRegistered`;
* `ReaderIsHeld` - the handle is that of the one reader that goes on, and of every
  reader there ever was unless the session was shut down: only a shutdown takes the
  handle and aborts. Without it `StartReader` could start a second reader while the
  first goes on, and `OneReaderUntilShutDown` would fail.

The steps fall into three groups with a lemma each: quiet steps that change none
of the variables the invariants relate (`QuietKeeps`), steps that shut sessions
down (`ShutsKeeps`), and the handler's steps, one lemma per action. The most
delicate argument is that of `IsolatedIsReclaimed` at `Reclaim`: if
`remove_if_empty` finds a client and keeps the session, that client serves the
session, which `RegisteredIsServed` says of every client, or it is a failed one.

The registry needs one fact more (`RegistryInv`): the session of a handler was in the
map at some time, unless the handler is about to enter it. Then `RemoveClient` leaves
a session that is not absent, and no creator goes before its session is open. A removal
that has taken a session out and not yet shut it down is `closing`; that such a session
cannot be closed, opened or found by anybody else is `FindableIsUsable` with the
freshness of ids (`TracesAreBorn`).

The rate limiter. `IInv` adds to the types: no time but the end of a block lies
ahead of the clock; the entry's block is the one last announced, and without one
the last announced is over (`BlockIsTold`, from which `BlocksAreServed` follows,
since a request's time is never ahead of the clock); and whatever counts against a
client is a request that got through since the window began and the last block
ended (`CountIsDeserved`, a bound by a cardinality, for `RefusalsAreDeserved`).
`cleanup` keeps both because it drops a block only when it is over.

Two windows. No one asked of the entry alone can tell how many requests got through in a
span of time, since a renewed window forgets the one before. `WindowsInv` therefore says
that there are two sets of requests of at most `max_requests` each, those of the last
window that began and those of the one before, such that all earlier ones lie more than
the window less the delay before the last window's (`Apart`), and that the entry counts
at least the last set (`Remembered`). A new window shifts the sets; a request that was
late at the lock may belong to the window before it in time, but not by more than
`LockDelay` (`LockIsGranted`), which is where the span comes from. `NeverReset` is
needed because a login forgets the window, and with it the count.

The output. The invariant follows one subscriber: until its receiver lags, what its
client got is exactly the bursts from the first after it subscribed to the one before the
next (`Reached`); a receiver that has lagged for the first time holds a notice before it
takes anything else (`Carries`); and whatever the reader has read was sent, as long as
the channel is open (`Reader`). The last makes the end of the reader the end of the
output. In the refinement `TakeBurst` and its like stutter, `Deliver` is one of the
abstract output, notice and exit steps, and what it delivers is in the abstract
stream because `Carries` says where it lies.

The connection. One invariant per theorem, each along the phases of the handler. For the
login: before its end nothing was said and no success logged, and whoever is in one of
the phases after it is logged in. For the handshake: in each phase, `hs` is what the
consumed frames say (`Knows`), and of the two reads after the first frame only one can
take a frame of the loop. For READY: from then on the session is the one it told of.
For the audit events: how many of each kind there are in each phase, and that a session
is open among them exactly while one is in use (`Chapters`); the count of one kind in a
sequence is the cardinality of its places, so that one more event adds one place
(`CountAppend`).

Uploads. `IInv` says of each request that its answer is decided when it ends, that a
blocking task is the one the handler waits for or was left by a client that has gone,
that a file that is being renamed is whole, and which temporary and placed files it has
(`InOrder`); a step of one request leaves the others in order, as files only become
whole (`Untouched`). `WholeFilesOnly` then rests on the rename alone. In the refinement a
rename is `Put`: it finds the temporary file in place, which `TempInOrder` allows only
while the request is open (the guard of one that was dropped has removed it); the file is
whole (`TaskInOrder`), is the next of its body (`PlacedInOrder`) and has a name of the
directory (`Named`).

Shells. Between `fork` and `exec` a child has copies of everything, so the invariant
says what it may not lack: its own slave side, which the server must not close before
the fork. What a running shell has of others is gone since its own `Exec`, and no later `Fork`
gives it anything, since a fork copies to the new child only.

The server. Who is in was let in under the configuration that is in force, and that was
validated after the overrides: the invariant says that it is valid from "configured" on,
that nobody is served before it is final, and that there is a validator only for a
method that has one.

Model-checked only: everything about liveness (`ForcedOutHandlersEnd`,
`AbandonedIsRemoved`, `ShutDownReleases`, `ExitIsAnnounced`, `EndIsReached`,
`DeadConnectionEnds`, `ZombiesAreReaped`, `EndIsSeen`, `SignalEndsIt`), which needs
fairness and `ENABLED`. All invariants and action properties of the runs, and the four
refinements, are proved. `Connection`'s type invariant is neither run nor proved as a
whole; what its proofs need of it is in their invariants.

## 5. Findings

One is a run that TLC refutes:

* **A reader can be started after the session was shut down**
  (`sessions_pty_leak`). `shutdown` takes the reader handle, and
  `start_reader_once` starts a reader whenever there is none. A handler that is
  between its lookup and `start_reader_once` when the session is removed starts
  a reader that nobody aborts; it keeps the session, the PTY and the shell while
  the server goes on (the property asks for nothing of one that has stopped).
  `ShutDownReleases` shows that this is the only way.

Six are properties that a module states, that no run holds, and that TLC refutes at
once when one asks it (add the property to the module's `.cfg`):

* `CounterIsLiveConnections` - **a failed upgrade leaks a connection slot**. The counter
  is incremented before `on_upgrade`; only the callback decrements it, and it
  does not run when the upgrade fails.
* `ActiveIsNeverForceRemoved` - **activity after the scan does not save a session**:
  `cleanup_inactive` does not look again before a forced removal.
* `SlidingWindow` - **the rate limiter's window does not slide**, although
  a comment and the project status say so: requests around the end of a window add
  up to more than `max_requests` within its length, though never to more than twice
  as many (`TwoWindowsAtMost`).
* `FinalOutputFirst` - **the last output can be lost to a failed write**. A client that
  types while the shell goes away gets an error from its write, and `handle_input`
  drops the broadcast sender for everyone while the reader may still have output to
  read. `ExitAfterFinalOutput` shows that "Shell exited" comes last when the reader
  closes the channel.
* `HandlersComplete` - **the graceful stop cuts connections off**: axum does not wait
  for upgraded connections, `main` returns, and their handlers are dropped before their
  clean-up, last audit events and Disconnect.
* `AcceptedMethodsWork` - **a method may be accepted that does not work**: `validate` takes
  "Basic" for "basic", `AuthMethod::build` does not, and such a server refuses everybody.

The others are exceptions that a property had to make:

* The heartbeat's timeout is not looked at while its ping waits for room: a client that
  keeps its connection open and does not read keeps its slot and its session for ever
  (`SilenceIsNoticed` and `DeadConnectionEnds` except the full way).
* `read_handshake` drops a frame of the main loop that comes first, second after a
  `Join`, or within 100 ms of a `Resize` (`HandshakeTakesItsOwn`: at most one).
* READY tells who joins a size the terminal does not have, and the creator of a
  `shared_readonly` session that it may write (`ReadyIsHonest`).
* Some first frames end a connection without the `auth_fail` that PROTOCOL.md promises.
* `PtyProcess::drop` signals and waits for a pid that the SIGCHLD handler may have reaped
  and that may be another process's by then (`DropKill`).
* A partial upload can be listed and downloaded under its temporary name
  (`WholeFilesOnly` is about target names); the body limit of the upload route, being the
  limit of one file, refuses files and pairs of files that are within it.

Each is quoted with its lines in `PROJECT.json`.

Also seen: `session.timeout = 0` is documented as
"no timeout" (`config.rs` 172) and means immediate removal at the next cleanup;
a client whose PTY writer could not be created stays registered
(`RegisteredIsServed` and `IsolatedIsReclaimed` state the exception); a write that
fails with EAGAIN makes all clients hear "Shell exited" while the shell runs
(`Input` allows it); after "Shell exited" the connection stays open until another
reason ends it, where `docs/PROTOCOL.md` 235 says that it closes; the same document
(339) gives the channel 1024 messages, `session.rs` 144 gives it 256, and a lag within
a second of the last notice is not reported (pty_io.rs 206-210), where 341 says that
it is; a client that says nothing before the loop holds its slot without a time limit.

## 6. What is not modelled

* Pure computations: serialisation, the checks of names, sizes and characters, Argon2
  and the constant-time comparison, TOML and command-line parsing, the resolution of
  paths, the derivation of rate-limit keys from addresses and headers. They appear by
  their outcomes; the repository's unit tests cover them.
* The content of answers that only read: listings, statistics, `/api/status` and its
  sampler, `current_dir`.
* The audit log's file, see `Connection`: which events are recorded is modelled, what
  reaches the disk is not.
* The time that public answers and half-sent request heads take, for which axum's
  graceful stop waits as well; `close_fds_above` when neither of its two ways works.
* Compression, security headers, static files, logging, packaging, the browser client.
* The data that flows through the terminal, and the sizes of bursts.
* Memory orderings (each atomic is accessed alone, and its modification order is
  total). Panics: the release profile aborts the process.
* Children of shells, which may keep a terminal open after the shell's end.

## 7. Plan

1. `Connection`'s type invariant as a theorem, and an abstract protocol (login, handshake,
   ready, frames, farewell) that `Connection` implements.
2. Safety facts that carry the liveness properties, as theorems: that a reaped shell
   stays reaped, that a cancelled session is never entered again, that no task waits
   for the sender's lock while nobody holds it.
3. A run of `Sessions` for `SessionTimeout = 0`, and several threads in `sigchld_handler`.
4. Rate-limit keys (proxies, IPv6 prefixes) as operators with a reference definition.
