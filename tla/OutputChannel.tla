----------------------------- MODULE OutputChannel -----------------------------
(***************************************************************************)
(* The way of a session's output to its clients: the PTY reader task       *)
(* (server/websocket/pty_io.rs spawn_pty_reader), the broadcast channel in *)
(* Session::output_tx (session.rs), one subscriber task per client         *)
(* (spawn_output_subscriber), and who else closes the channel: handle_input*)
(* (message_loop.rs) when a write to the PTY fails, and Session::shutdown. *)
(*                                                                         *)
(* The shell's output is a number of chunks, of which only the order       *)
(* matters; a burst is what the reader drains in one go.  A subscriber     *)
(* takes a burst from the channel, waits for the socket's lock and sends:  *)
(* two steps, between which the handler may abort it.  An aborted task     *)
(* still ends what it does until its next await.                           *)
(*                                                                         *)
(* The writer is a tokio File: write_all hands the data to a blocking      *)
(* thread and returns; whether the write failed is reported by the next    *)
(* one.                                                                    *)
(*                                                                         *)
(* Left out: who leaves why (module Sessions), heartbeats, error replies   *)
(* to the client's own requests.                                           *)
(***************************************************************************)
EXTENDS Naturals, Sequences

CONSTANTS Clients,
          Capacity,    \* OUTPUT_CHANNEL_CAPACITY
          MaxOutput    \* bound: chunks the shell writes

ASSUME CapacityAssumption == Capacity \in Nat \ {0}
ASSUME MaxOutputAssumption == MaxOutput \in Nat

VARIABLES
    shell,      \* "running" or "exited"
    written,    \* chunks the shell has written
    read,       \* chunks the reader has taken
    reader,     \* the task behind Session::reader_task
    sent,       \* the bursts sent so far: the last chunk of each
    closedBy,   \* who took the sender out of output_tx: "nobody" while it is there
    removed,    \* Session::shutdown was called
    pc,         \* handlers: how far run_session got
    sub,        \* subscriber tasks
    next,       \* broadcast receivers: the next burst to take
    cool,       \* LAG_NOTIFY_COOLDOWN has not passed since the last notice
    failed,     \* clients whose last write to the PTY failed
    got,        \* what was sent to each client
    first,      \* history: the first burst after the client subscribed
    missed      \* history: clients whose receiver lagged

ptyVars == <<shell, written, read, reader>>
channelVars == <<sent, closedBy, removed>>
clientVars == <<pc, sub, next, cool, got, first, missed>>
vars == <<ptyVars, channelVars, clientVars, failed>>

Item(kind, n) == [kind |-> kind, burst |-> n]

Subscribers == [pc : {"none",        \* no subscriber task
                      "receiving",   \* in recv
                      "holding",     \* has something to send
                      "broken",      \* a send failed
                      "done"},       \* ended or aborted
                item : [kind : {"none", "output", "lagged", "exited"},
                        burst : 0..MaxOutput]]

Sub(state) == [pc |-> state, item |-> Item("none", 0)]
Holding(kind, n) == [pc |-> "holding", item |-> Item(kind, n)]

Init ==
    /\ shell = "running" /\ written = 0 /\ read = 0 /\ reader = "none"
    /\ sent = <<>> /\ closedBy = "nobody" /\ removed = FALSE
    /\ pc = [c \in Clients |-> "new"]
    /\ sub = [c \in Clients |-> Sub("none")]
    /\ next = [c \in Clients |-> 0]
    /\ cool = [c \in Clients |-> FALSE]
    /\ failed = {}
    /\ got = [c \in Clients |-> <<>>]
    /\ first = [c \in Clients |-> 0]
    /\ missed = {}

Open == closedBy = "nobody"

\* The Option is taken; who comes second finds nothing there.
Close(who) == closedBy' = IF Open THEN who ELSE closedBy

-----------------------------------------------------------------------------
\* The shell.
ShellWrites ==
    /\ shell = "running" /\ written < MaxOutput
    /\ written' = written + 1
    /\ UNCHANGED <<shell, read, reader, channelVars, clientVars, failed>>

ShellExits ==
    /\ shell = "running"
    /\ shell' = "exited"
    /\ UNCHANGED <<written, read, reader, channelVars, clientVars, failed>>

-----------------------------------------------------------------------------
\* The reader.
ReaderRegisters ==
    /\ reader = "starting"
    /\ reader' = "reading"
    /\ UNCHANGED <<shell, written, read, channelVars, clientVars, failed>>

\* dup, fcntl or register fails: nothing is marked.
ReaderGivesUp ==
    /\ reader = "starting"
    /\ reader' = "gone"
    /\ UNCHANGED <<shell, written, read, channelVars, clientVars, failed>>

\* The inner loop ends with end of file once the shell is gone and everything is
\* read.
AtEof(n) == shell = "exited" /\ n = written

\* Mutant: output drained together with the end of file is not sent.
DrainUnlessEof ==
    /\ reader = "reading"
    /\ \E n \in read + 1..written :
        /\ read' = n
        /\ reader' = IF AtEof(n) THEN "terminated" ELSE "reading"
        /\ sent' = IF Open /\ ~AtEof(n) THEN Append(sent, n) ELSE sent
    /\ UNCHANGED <<shell, written, closedBy, removed, clientVars, failed>>

\* What is there, or MAX_BURST of it, is drained and broadcast; without a sender
\* broadcast_output does nothing.
ReaderDrains ==
    /\ reader = "reading"
    /\ \E n \in read + 1..written :
        /\ read' = n
        /\ \/ reader' = "reading"
           \/ AtEof(n) /\ reader' = "terminated"
        /\ sent' = IF Open THEN Append(sent, n) ELSE sent
    /\ UNCHANGED <<shell, written, closedBy, removed, clientVars, failed>>

ReaderEof ==
    /\ reader = "reading" /\ AtEof(read)
    /\ reader' = "terminated"
    /\ UNCHANGED <<shell, written, read, channelVars, clientVars, failed>>

\* Waiting for readability or a read fails.
ReaderFails ==
    /\ reader = "reading"
    /\ reader' = "failed"
    /\ UNCHANGED <<shell, written, read, channelVars, clientVars, failed>>

\* Mutant: the reader ends without closing the channel.
ReaderEnds ==
    /\ reader \in {"terminated", "failed"}
    /\ reader' = "ended"
    /\ UNCHANGED <<shell, written, read, channelVars, clientVars, failed>>

\* mark_pty_exited
ReaderMarks ==
    /\ reader \in {"terminated", "failed"}
    /\ reader' = "ended"
    /\ Close(IF reader = "terminated" THEN "reader" ELSE "read error")
    /\ UNCHANGED <<shell, written, read, sent, removed, clientVars, failed>>

-----------------------------------------------------------------------------
\* Session::shutdown, for whatever reason the session is removed.  When exactly the
\* aborted reader stops, and whether a late handler starts another (which module
\* Sessions is about), does not matter here: neither has a channel left.
ShutDown ==
    /\ ~removed
    /\ removed' = TRUE
    /\ Close("removal")
    /\ reader' = "ended"
    /\ UNCHANGED <<shell, written, read, sent, clientVars, failed>>

-----------------------------------------------------------------------------
\* Handlers.

\* add_client, READY, start_reader_once.
Attach(c) ==
    /\ pc[c] = "new"
    /\ pc' = [pc EXCEPT ![c] = "attached"]
    /\ reader' = IF reader = "none" THEN "starting" ELSE reader
    /\ UNCHANGED <<shell, written, read, channelVars, sub, next, cool, got, first, missed,
                   failed>>

\* subscribe_output: from here on, or the client is told at once.
Subscribe(c) ==
    /\ pc[c] = "attached"
    /\ pc' = [pc EXCEPT ![c] = "live"]
    /\ IF Open
       THEN /\ sub' = [sub EXCEPT ![c] = Sub("receiving")]
            /\ next' = [next EXCEPT ![c] = Len(sent) + 1]
            /\ first' = [first EXCEPT ![c] = Len(sent) + 1]
            /\ UNCHANGED got
       ELSE /\ sub' = [sub EXCEPT ![c] = Sub("done")]
            /\ got' = [got EXCEPT ![c] = Append(@, Item("exited", 0))]
            /\ UNCHANGED <<next, first>>
    /\ UNCHANGED <<ptyVars, channelVars, cool, missed, failed>>

\* handle_input: the blocking write fails, because the shell is gone, or because
\* the buffer is full and the reader has made the description non-blocking.  (One
\* that succeeds changes nothing here.)
Input(c) ==
    /\ pc[c] = "live" /\ c \notin failed
    /\ shell = "exited" \/ reader \in {"reading", "terminated", "failed"}
    /\ failed' = failed \cup {c}
    /\ UNCHANGED <<ptyVars, channelVars, clientVars>>

\* The loop returns.  The handler aborts the subscriber, which may still send what
\* it holds if it gets to it without waiting.
LeaveLoop(c) ==
    /\ pc' = [pc EXCEPT ![c] = "closing"]
    /\ \E s \in {sub[c], Sub("done")} :
        /\ s.pc \in {"holding", "done"}
        /\ sub' = [sub EXCEPT ![c] = s]
    /\ next' = [next EXCEPT ![c] = 0]
    /\ cool' = [cool EXCEPT ![c] = FALSE]
    /\ failed' = failed \ {c}
    /\ UNCHANGED <<got, first, missed>>

\* handle_input: the failure of the write before is reported, the channel closed
\* for everyone.
InputFails(c) ==
    /\ pc[c] = "live" /\ c \in failed
    /\ Close("input")
    /\ LeaveLoop(c)
    /\ UNCHANGED <<ptyVars, sent, removed>>

\* The client leaves, is silent, or the server stops ...
Leave(c) ==
    /\ pc[c] = "live"
    /\ LeaveLoop(c)
    /\ UNCHANGED <<ptyVars, channelVars>>

\* ... or the loop is told that the session is gone or that the socket is broken.
MustLeave(c) ==
    /\ pc[c] = "live" /\ (removed \/ sub[c].pc = "broken")
    /\ LeaveLoop(c)
    /\ UNCHANGED <<ptyVars, channelVars>>

\* "Session ended", and the socket is closed: an aborted subscriber that still holds
\* something can no longer send it.
EndConnection(c) ==
    /\ pc[c] = "closing"
    /\ pc' = [pc EXCEPT ![c] = "closed"]
    /\ got' = [got EXCEPT ![c] = Append(@, Item("ended", 0))]
    /\ sub' = [sub EXCEPT ![c] = Sub("done")]
    /\ UNCHANGED <<ptyVars, channelVars, next, cool, first, missed, failed>>

-----------------------------------------------------------------------------
\* Subscribers.

\* broadcast::Receiver::recv: the next burst, if the channel still holds it ...
TakeBurst(c) ==
    /\ next[c] <= Len(sent) /\ next[c] + Capacity > Len(sent)
    /\ sub' = [sub EXCEPT ![c] = Holding("output", next[c])]
    /\ next' = [next EXCEPT ![c] = @ + 1]
    /\ UNCHANGED <<cool, missed>>

\* Mutant: a lag is never reported.
LagSilently(c) ==
    /\ next[c] + Capacity <= Len(sent)
    /\ next' = [next EXCEPT ![c] = Len(sent) - Capacity + 1]
    /\ missed' = missed \cup {c}
    /\ UNCHANGED <<sub, cool>>

\* ... Lagged, and the receiver goes on with the oldest burst there is; the client
\* is told, but not twice within the cooldown ...
TakeLag(c) ==
    /\ next[c] + Capacity <= Len(sent)
    /\ next' = [next EXCEPT ![c] = Len(sent) - Capacity + 1]
    /\ missed' = missed \cup {c}
    /\ cool' = [cool EXCEPT ![c] = TRUE]
    /\ sub' = IF cool[c] THEN sub ELSE [sub EXCEPT ![c] = Holding("lagged", 0)]

\* ... or Closed, when nothing is left.
TakeClose(c) ==
    /\ next[c] = Len(sent) + 1 /\ ~Open
    /\ sub' = [sub EXCEPT ![c] = Holding("exited", 0)]
    /\ UNCHANGED <<next, cool, missed>>

Receive(c) ==
    /\ pc[c] = "live" /\ sub[c].pc = "receiving"
    /\ TakeBurst(c) \/ TakeLag(c) \/ TakeClose(c)
    /\ UNCHANGED <<ptyVars, channelVars, pc, got, first, failed>>

\* Mutant: after the disconnect the subscriber goes on.
AfterSendGoesOn(c) == IF pc[c] = "live" THEN "receiving" ELSE "done"

\* The task ends after the disconnect, and at the next await if it was aborted.
AfterSend(c) ==
    IF pc[c] = "live" /\ sub[c].item.kind # "exited" THEN "receiving" ELSE "done"

\* The socket's lock is granted and the message sent.
Deliver(c) ==
    /\ sub[c].pc = "holding"
    /\ got' = [got EXCEPT ![c] = Append(@, sub[c].item)]
    /\ sub' = [sub EXCEPT ![c] = Sub(AfterSend(c))]
    /\ UNCHANGED <<ptyVars, channelVars, pc, next, cool, first, missed, failed>>

\* The socket is broken.
SendFails(c) ==
    /\ sub[c].pc = "holding"
    /\ sub' = [sub EXCEPT ![c] = Sub(IF pc[c] = "live" THEN "broken" ELSE "done")]
    /\ UNCHANGED <<ptyVars, channelVars, pc, next, cool, got, first, missed, failed>>

\* A second has passed since the last notice.
CooledDown(c) ==
    /\ cool[c]
    /\ cool' = [cool EXCEPT ![c] = FALSE]
    /\ UNCHANGED <<ptyVars, channelVars, pc, sub, next, got, first, missed, failed>>

-----------------------------------------------------------------------------
ReaderStep == \/ ReaderRegisters \/ ReaderGivesUp \/ ReaderDrains
              \/ ReaderEof \/ ReaderMarks

SubscriberStep(c) == Receive(c) \/ Deliver(c) \/ SendFails(c)

HandlerStep(c) == Subscribe(c) \/ MustLeave(c) \/ EndConnection(c)

Next ==
    \/ ShellWrites \/ ShellExits \/ ReaderFails \/ ShutDown
    \/ ReaderStep
    \/ \E c \in Clients :
        \/ Attach(c) \/ Input(c) \/ InputFails(c) \/ Leave(c)
        \/ CooledDown(c) \/ SubscriberStep(c) \/ HandlerStep(c)

Spec == Init /\ [][Next]_vars

\* Tasks that can run do; a send to a client completes or fails.
Fairness ==
    /\ WF_vars(ReaderStep)
    /\ \A c \in Clients : WF_vars(SubscriberStep(c)) /\ WF_vars(HandlerStep(c))

FairSpec == Spec /\ Fairness

-----------------------------------------------------------------------------
\* Properties.

TypeOK ==
    /\ shell \in {"running", "exited"}
    /\ written \in 0..MaxOutput /\ read \in 0..written
    /\ reader \in {"none", "starting", "reading", "gone", "terminated", "failed", "ended"}
    /\ sent \in Seq(1..MaxOutput) /\ Len(sent) <= MaxOutput
    /\ closedBy \in {"nobody", "reader", "read error", "input", "removal"}
    /\ removed \in BOOLEAN
    /\ pc \in [Clients -> {"new", "attached", "live", "closing", "closed"}]
    /\ sub \in [Clients -> Subscribers]
    /\ next \in [Clients -> 0..MaxOutput + 1]
    /\ cool \in [Clients -> BOOLEAN]
    /\ first \in [Clients -> 0..MaxOutput + 1]
    /\ missed \subseteq Clients /\ failed \subseteq Clients

Stream == INSTANCE OutputStream WITH produced <- Len(sent)

\* Every client sees bursts of one stream in order and none twice, then at most one
\* "Shell exited" and no output after it, whatever lags, closes or aborts.
ImplementsStream == Stream!StreamSpec

Told(c, kind) == \E i \in 1..Len(got[c]) : got[c][i].kind = kind

\* The bursts a client was sent among the first n things it was sent.
Bursts(c, n) == {got[c][i].burst : i \in 1..n} \ {0}

\* The output that was sent to the channel.
Broadcast == IF sent = <<>> THEN 0 ELSE sent[Len(sent)]

\* A client that is told "Shell exited" has before that got all the shell wrote
\* since it subscribed, unless it lagged or something else than the end of the
\* output closed the channel.
ExitAfterFinalOutput ==
    \A c \in Clients :
        Told(c, "exited") /\ c \notin missed /\ closedBy = "reader" =>
            /\ shell = "exited" /\ Broadcast = written
            /\ first[c] > 0 => Bursts(c, Len(got[c])) = first[c]..Len(sent)

\* Where a client's output has its first gap, the client was told before that some
\* is missing.
FirstLossIsTold ==
    \A c \in Clients : \A i \in 1..Len(got[c]) :
        LET b == got[c][i].burst
        IN  b > 0 /\ ~(first[c]..b \subseteq Bursts(c, i)) =>
                \E j \in 1..i : got[c][j].kind = "lagged"

\* When the shell exits, every client is told or its connection ends, unless the
\* reader gave up at its start or the client's socket is broken.
ExitIsAnnounced ==
    \A c \in Clients :
        (shell = "exited" /\ pc[c] = "live") ~>
            (Told(c, "exited") \/ pc[c] = "closed" \/ reader = "gone")

-----------------------------------------------------------------------------
\* What the comments and the documentation promise and the code does not keep.

\* session.rs on mark_pty_exited: subscribers' disconnect "is ordered after the
\* final output burst for each client".
FinalOutputFirst ==
    \A c \in Clients :
        Told(c, "exited") /\ shell = "exited" /\ closedBy \in {"reader", "input"} =>
            read = written
================================================================================
