-------------------------------- MODULE Heartbeat --------------------------------
(***************************************************************************)
(* The three tasks of a connection that share its sender: the heartbeat    *)
(* monitor and the output subscriber (server/websocket/pty_io.rs) and the  *)
(* handler in its message loop and after it (message_loop.rs, run_session  *)
(* in server/websocket.rs).  Each locks ws_sender, a fair mutex, and keeps *)
(* it while its send waits for room on the way to the client.              *)
(*                                                                         *)
(* `buffer` is what lies between the server and the client, in order.      *)
(* Bursts of output fill it; pings and other short frames need room to be  *)
(* sent but take none, and successive pings are one.  Time counts in       *)
(* fractions of the heartbeat interval; it passes only when every task     *)
(* that can go on has done so (the runtime needs microseconds), and no     *)
(* prompt client has anything unread.                                      *)
(***************************************************************************)
EXTENDS Integers, Sequences, FiniteSets, SequencesExt

CONSTANTS Interval,     \* HEARTBEAT_INTERVAL
          Timeout,      \* HEARTBEAT_TIMEOUT
          BufferSize,   \* bound of the model: bursts that fit on the way to the client
          InboxSize     \* bound of the model: frames of the client not read yet

\* 30 and 90 seconds.
ASSUME TimesAssumption == Interval \in Nat \ {0} /\ Timeout \in Nat /\ Interval <= Timeout
ASSUME SizesAssumption == BufferSize \in Nat \ {0} /\ InboxSize \in Nat \ {0}

Tasks == {"monitor", "subscriber", "loop"}

\* Ages beyond this compare alike with every limit.
Aged == Timeout + Interval + 1

VARIABLES
    monitor,   \* sleep, send, check; true result: false; aborted
    subscr,    \* recv, send, done, aborted
    loop,      \* select, busy, reply; tell, ending, farewell, close, closed
    queue,     \* the sender lock: its holder, then those who wait for it
    aborted,   \* the handler has aborted the two tasks
    next,      \* time to the monitor's next tick; negative when it is late
    silence,   \* age of last_ping_time
    client,    \* prompt or slow in reading and answering, deaf, gone
    buffer,    \* on the way to the client
    inbox,     \* sent by the client and not read
    heldUp     \* history: time has passed while the loop was busy

sides == <<monitor, subscr, loop>>
way   == <<buffer, inbox>>
vars  == <<monitor, subscr, loop, queue, aborted, next, silence, client, buffer, inbox, heldUp>>

Init ==
    /\ monitor = "sleep" /\ subscr = "recv" /\ loop = "select"
    /\ queue = <<>> /\ aborted = FALSE
    /\ next = Interval /\ silence = 0
    /\ client = "prompt" /\ buffer = <<>> /\ inbox = <<>>
    /\ heldUp = FALSE

-----------------------------------------------------------------------------
(* The sender.                                                             *)

Holds(t) == queue # <<>> /\ Head(queue) = t

Waits(t) == queue' = Append(queue, t)

Unlocks == queue' = Tail(queue)

Bursts == {i \in DOMAIN buffer : buffer[i] = "data"}

Full == Cardinality(Bursts) >= BufferSize

\* A send by the holder of the lock succeeds, or fails because the client has gone;
\* it may also be some time before sends to a client that has gone fail.
Sends(f) ==
    \/ /\ client # "gone" /\ ~Full
       /\ buffer' = IF f = "data" \/ (f = "ping" /\ (buffer = <<>> \/ Last(buffer) # "ping"))
                    THEN Append(buffer, f) ELSE buffer
    \/ client = "gone" /\ UNCHANGED buffer

SendFails == client = "gone" /\ UNCHANGED buffer

-----------------------------------------------------------------------------
(* spawn_heartbeat_monitor.  The interval makes up for missed ticks.       *)

MonitorTicks ==
    /\ monitor = "sleep" /\ next <= 0
    /\ next' = next + Interval
    /\ monitor' = "send" /\ Waits("monitor")
    /\ UNCHANGED <<subscr, loop, aborted, silence, client, way, heldUp>>

MonitorPings ==
    /\ monitor = "send" /\ Holds("monitor")
    /\ \/ Sends("ping") /\ monitor' = "check"
       \/ SendFails /\ monitor' = "false"
    /\ Unlocks
    /\ UNCHANGED <<subscr, loop, aborted, next, silence, client, inbox, heldUp>>

\* Mutant: a timeout is only logged.
MonitorGoesOn ==
    /\ monitor = "check"
    /\ monitor' = "sleep"
    /\ UNCHANGED <<subscr, loop, queue, aborted, next, silence, client, way, heldUp>>

MonitorChecks ==
    /\ monitor = "check"
    /\ monitor' = IF silence > Timeout THEN "false" ELSE "sleep"
    /\ UNCHANGED <<subscr, loop, queue, aborted, next, silence, client, way, heldUp>>

(* spawn_output_subscriber, as far as the sender is concerned.             *)

OutputArrives ==
    /\ subscr = "recv" /\ ~aborted
    /\ subscr' = "send" /\ Waits("subscriber")
    /\ UNCHANGED <<monitor, loop, aborted, next, silence, client, way, heldUp>>

SubscriberSends ==
    /\ subscr = "send" /\ Holds("subscriber")
    /\ \/ Sends("data") /\ subscr' = "recv"
       \/ SendFails /\ subscr' = "done"
    /\ Unlocks
    /\ UNCHANGED <<monitor, loop, aborted, next, silence, client, inbox, heldUp>>

-----------------------------------------------------------------------------
(* The message loop.  A pong and a ping of the client refresh              *)
(* last_ping_time; a ping is answered, and so is a request that may take   *)
(* its time (a file list, a resize that waits for the PTY lock).           *)

\* Mutant: only a ping of the client counts.
LoopIgnoresPong ==
    /\ loop = "select" /\ inbox # <<>>
    /\ inbox' = Tail(inbox)
    /\ \/ /\ Head(inbox) = "pong"
          /\ UNCHANGED <<loop, queue, silence>>
       \/ /\ Head(inbox) = "ping"
          /\ silence' = 0
          /\ loop' = "reply" /\ Waits("loop")
       \/ /\ Head(inbox) = "request"
          /\ loop' = "busy"
          /\ UNCHANGED <<queue, silence>>
    /\ UNCHANGED <<monitor, subscr, aborted, next, client, buffer, heldUp>>

LoopTakes ==
    /\ loop = "select" /\ inbox # <<>>
    /\ inbox' = Tail(inbox)
    /\ \/ /\ Head(inbox) = "pong"
          /\ silence' = 0
          /\ UNCHANGED <<loop, queue>>
       \/ /\ Head(inbox) = "ping"
          /\ silence' = 0
          /\ loop' = "reply" /\ Waits("loop")
       \/ /\ Head(inbox) = "request"
          /\ loop' = "busy"
          /\ UNCHANGED <<queue, silence>>
    /\ UNCHANGED <<monitor, subscr, aborted, next, client, buffer, heldUp>>

LoopWorked ==
    /\ loop = "busy"
    /\ loop' = "reply" /\ Waits("loop")
    /\ UNCHANGED <<monitor, subscr, aborted, next, silence, client, way, heldUp>>

\* A failure is ignored; the loop reads on.
LoopReplies ==
    /\ loop = "reply" /\ Holds("loop")
    /\ Sends("reply") \/ SendFails
    /\ loop' = "select" /\ Unlocks
    /\ UNCHANGED <<monitor, subscr, aborted, next, silence, client, inbox, heldUp>>

\* Mutant: the result of the monitor is looked at between two frames only.
LoopSeesTimeoutLate ==
    /\ loop = "select" /\ monitor = "false" /\ inbox # <<>>
    /\ loop' = "tell" /\ Waits("loop")
    /\ UNCHANGED <<monitor, subscr, aborted, next, silence, client, way, heldUp>>

\* The monitor has ended: HEARTBEAT_TIMEOUT is to be sent.
LoopSeesTimeout ==
    /\ loop = "select" /\ monitor = "false"
    /\ loop' = "tell" /\ Waits("loop")
    /\ UNCHANGED <<monitor, subscr, aborted, next, silence, client, way, heldUp>>

LoopTells ==
    /\ loop = "tell" /\ Holds("loop")
    /\ Sends("error") \/ SendFails
    /\ loop' = "ending" /\ Unlocks
    /\ UNCHANGED <<monitor, subscr, aborted, next, silence, client, inbox, heldUp>>

StreamEnded ==
    /\ loop = "select" /\ client = "gone" /\ inbox = <<>>
    /\ loop' = "ending"
    /\ UNCHANGED <<monitor, subscr, queue, aborted, next, silence, client, way, heldUp>>

\* The shutdown token or the session's is cancelled.
TokenCancelled ==
    /\ loop = "select"
    /\ loop' = "ending"
    /\ UNCHANGED <<monitor, subscr, queue, aborted, next, silence, client, way, heldUp>>

\* Both tasks are aborted; cleanup_client and the audit event follow, and the
\* farewell has to be sent.
Abort ==
    /\ loop = "ending"
    /\ aborted' = TRUE
    /\ loop' = "farewell" /\ Waits("loop")
    /\ UNCHANGED <<monitor, subscr, next, silence, client, way, heldUp>>

\* An aborted task is dropped at its await, with the lock or its place in the queue.
Without(t) == IF t \in Range(queue)
              THEN RemoveAt(queue, CHOOSE i \in DOMAIN queue : queue[i] = t) ELSE queue

MonitorDropped ==
    /\ aborted /\ monitor \in {"sleep", "send", "check"}
    /\ monitor' = "aborted" /\ queue' = Without("monitor")
    /\ UNCHANGED <<subscr, loop, aborted, next, silence, client, way, heldUp>>

SubscriberDropped ==
    /\ aborted /\ subscr \in {"recv", "send"}
    /\ subscr' = "aborted" /\ queue' = Without("subscriber")
    /\ UNCHANGED <<monitor, loop, aborted, next, silence, client, way, heldUp>>

\* "Session ended"; the lock is taken once more for the close frame.
Farewell ==
    /\ loop = "farewell" /\ Holds("loop")
    /\ Sends("disconnect") \/ SendFails
    /\ loop' = "close" /\ queue' = Append(Tail(queue), "loop")
    /\ UNCHANGED <<monitor, subscr, aborted, next, silence, client, inbox, heldUp>>

Close ==
    /\ loop = "close" /\ Holds("loop")
    /\ Sends("close") \/ SendFails
    /\ loop' = "closed" /\ Unlocks
    /\ UNCHANGED <<monitor, subscr, aborted, next, silence, client, inbox, heldUp>>

-----------------------------------------------------------------------------
(* The client, and time.                                                   *)

Reading == client \in {"prompt", "slow"}

\* A ping is answered by the client's network stack.
ClientReads ==
    /\ Reading /\ buffer # <<>>
    /\ buffer' = Tail(buffer)
    /\ inbox' = IF Head(buffer) = "ping" /\ "pong" \notin Range(inbox)
                THEN Append(inbox, "pong") ELSE inbox
    /\ UNCHANGED <<sides, queue, aborted, next, silence, client, heldUp>>

ClientSends ==
    /\ Reading /\ Len(inbox) < InboxSize
    /\ \E f \in {"ping", "request"} : inbox' = Append(inbox, f)
    /\ UNCHANGED <<sides, queue, aborted, next, silence, client, buffer, heldUp>>

\* It never gets better: the properties are about what a client comes to.
ClientWorsens ==
    /\ \/ client = "prompt" /\ client' \in {"slow", "deaf", "gone"}
       \/ client = "slow" /\ client' \in {"deaf", "gone"}
       \/ client = "deaf" /\ client' = "gone"
    /\ UNCHANGED <<sides, queue, aborted, next, silence, way, heldUp>>

\* Nobody who can go on has been kept from it.
Settled ==
    /\ ~(monitor = "sleep" /\ next <= 0) /\ monitor # "check"
    /\ queue # <<>> => (client # "gone" /\ Full)
    /\ loop = "select" => (inbox = <<>> /\ monitor # "false" /\ client # "gone")
    /\ loop # "ending"
    /\ aborted => (monitor \in {"false", "aborted"} /\ subscr \in {"done", "aborted"})
    /\ client = "prompt" => buffer = <<>>

Tick ==
    /\ Settled /\ loop # "closed"
    /\ silence' = IF silence < Aged THEN silence + 1 ELSE Aged
    /\ next' = IF next > -Interval THEN next - 1 ELSE next
    /\ heldUp' = (heldUp \/ loop = "busy")
    /\ UNCHANGED <<sides, queue, aborted, client, way>>

MonitorStep == MonitorTicks \/ MonitorPings \/ MonitorChecks \/ MonitorDropped

SubscriberStep == SubscriberSends \/ SubscriberDropped

LoopStep == \/ LoopTakes \/ LoopWorked \/ LoopReplies \/ LoopSeesTimeout \/ LoopTells
            \/ StreamEnded \/ Abort \/ Farewell \/ Close

Next == \/ MonitorStep \/ SubscriberStep \/ LoopStep
        \/ OutputArrives \/ TokenCancelled
        \/ ClientReads \/ ClientSends \/ ClientWorsens \/ Tick

Spec == Init /\ [][Next]_vars

\* The runtime polls every task that can go on, time passes, and a client that
\* is not deaf reads.  The mutex hands the lock on in order.
FairSpec == /\ Spec
            /\ WF_vars(MonitorStep) /\ WF_vars(SubscriberStep) /\ WF_vars(LoopStep)
            /\ WF_vars(ClientReads) /\ WF_vars(Tick)

-----------------------------------------------------------------------------

Queued(t) == t \in Range(queue)

\* Variable types; each task is in the queue of the lock at most once, and
\* exactly when it is about to send.
TypeOK ==
    /\ monitor \in {"sleep", "send", "check", "false", "aborted"}
    /\ subscr \in {"recv", "send", "done", "aborted"}
    /\ loop \in {"select", "busy", "reply", "tell", "ending", "farewell", "close", "closed"}
    /\ queue \in BoundedSeq(Tasks, 3) /\ IsInjective(queue)
    /\ Queued("monitor") <=> monitor = "send"
    /\ Queued("subscriber") <=> subscr = "send"
    /\ Queued("loop") <=> loop \in {"reply", "tell", "farewell", "close"}
    /\ aborted \in BOOLEAN /\ heldUp \in BOOLEAN
    /\ next \in -Interval..Interval /\ silence \in 0..Aged
    /\ client \in {"prompt", "slow", "deaf", "gone"}
    /\ buffer \in BoundedSeq({"data", "ping"}, 2 * BufferSize + 1)
    /\ inbox \in BoundedSeq({"pong", "ping", "request"}, InboxSize + 1)

\* The monitor gives up on no client that reads and answers promptly, whatever
\* output there is and whoever waits for the sender - unless the loop was busy with
\* a request, when it does not read the pongs that have arrived.
PromptClientIsKept ==
    monitor = "false" => client # "prompt" \/ heldUp

\* A client that has been silent for the timeout is noticed at the next tick of the
\* monitor: no time passes beyond that with the monitor still going, unless the way
\* to the client is full.
SilenceIsNoticed ==
    [][Tick => silence < Timeout + Interval \/ monitor \in {"false", "aborted"} \/ Full]_vars

\* A client that has gone or does not read any more loses its connection, and with
\* it its slot - unless the way to it is full, when the sender stays locked.
DeadConnectionEnds ==
    (client \in {"deaf", "gone"}) ~> (loop = "closed" \/ (client = "deaf" /\ Full))
=============================================================================
