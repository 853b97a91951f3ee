------------------------------- MODULE Connection -------------------------------
(***************************************************************************)
(* One WebSocket connection from the upgrade to its end, as its client     *)
(* sees it: handle_terminal_session and run_session (server/websocket.rs), *)
(* authenticate and perform_auth (auth.rs), read_handshake (handshake.rs), *)
(* create_or_join_session (session_lifecycle.rs), the message loop         *)
(* (message_loop.rs), and the events they give to the audit logger         *)
(* (audit.rs).                                                             *)
(*                                                                         *)
(* Frames of the client arrive at any time, and `wire` of them wait to be  *)
(* read.  What a frame contains is abstracted to what the handler tells    *)
(* apart, and chosen when the frame is read: nothing depends on it before. *)
(* The sessions are those of module Sessions; here there is the one this   *)
(* connection creates and one that another client runs.  Sends to a client *)
(* that has gone may fail; a client that stays and does not read is the    *)
(* subject of Heartbeat.                                                   *)
(***************************************************************************)
EXTENDS Naturals, FiniteSets, Sequences, SequencesExt

CONSTANTS Configs,    \* the server configurations to look at
          MaxSent     \* bound of the model: frames the client sends

Modes == {"isolated", "shared_readonly", "shared_readwrite"}

\* auth: no [auth] section, a working authenticator, or one that could not be
\* built at start-up; files: file_transfer.enabled.
ASSUME ConfigsAssumption ==
    Configs \subseteq [auth  : {"off", "on", "broken"},
                       mode  : Modes,
                       files : BOOLEAN]

\* Frames, by what the parser and the validators make of them.
AuthFrames == {"auth_valid",       \* the configured credentials
               "auth_wrong",       \* others, those of the other method, or
                                   \* malformed ones
               "auth_unknown"}     \* method is neither basic nor token
JoinFrames == {"join",             \* names the session of the other client
               "join_missing"}     \* names no session
LoopFrames == {"input", "input_bad", "ping", "file_list"}
Frames == AuthFrames \cup JoinFrames \cup LoopFrames
              \cup {"resize", "resize_bad",
                    "garbage",     \* a text frame that does not parse
                    "nontext",     \* a binary, ping or pong frame
                    "close"}

Events == {"opened", "closed", "auth_success", "auth_failure", "session_started",
           "session_ended", "error"}

Reasons == {"client", "auth", "handshake", "setup", "heartbeat", "shutdown", "session", "io"}

Phases == {"opening", "auth", "login",                 \* authenticate
           "first", "second", "peek",                  \* the reads of read_handshake
           "setup", "attached", "loop", "leaving",     \* the session
           "failed",                                   \* run_session returned Err
           "closing", "closed"}

VARIABLES
    config,    \* the configuration, fixed at the start
    wire,      \* how many frames have arrived and were not read
    sent,      \* how many frames the client has sent
    gone,      \* the client has closed its side
    shared,    \* the other client's session is in the map
    forced,    \* this connection's session was removed by force
    stopping,  \* the shutdown token is cancelled
    pc,        \* how far the handler got
    hs,        \* HandshakeState; pc tells whether a Resize was received
    sess,      \* the session this connection uses: none, own or shared
    ptySize,   \* the size of that session's terminal
    reason,    \* CloseReason
    said,      \* frames sent to the client, loop replies left out
    ready,     \* what READY said, and the terminal's size at that time
    effects,   \* what the client achieved in the loop
    events,    \* history: the events given to the audit logger
    shook      \* history: what read_handshake consumed, by whom it is for

client  == <<wire, sent, gone>>
outside == <<shared, forced, stopping>>
server  == <<hs, sess, ptySize>>
talk    == <<said, ready, effects>>
vars == <<config, client, outside, pc, server, reason, talk, events, shook>>

Init ==
    /\ config \in Configs
    /\ wire = 0 /\ sent = 0 /\ gone = FALSE
    /\ shared = TRUE /\ forced = FALSE /\ stopping = FALSE
    /\ pc = "opening"
    /\ hs = [size |-> "default", join |-> "none"]
    /\ sess = "none" /\ ptySize = "none"
    /\ reason = "none"
    /\ said = <<>> /\ ready = [session |-> "none"] /\ effects = {}
    /\ events = <<>>
    /\ shook = [own |-> {}, strays |-> 0]

-----------------------------------------------------------------------------
(* Around the handler.                                                     *)

ClientSends ==
    /\ ~gone
    /\ sent < MaxSent
    /\ wire' = wire + 1
    /\ sent' = sent + 1
    /\ UNCHANGED <<config, gone, outside, pc, server, reason, talk, events, shook>>

\* The peer goes; its last frame may be a close frame.
ClientGone ==
    /\ ~gone
    /\ gone' = TRUE
    /\ UNCHANGED <<config, wire, sent, outside, pc, server, reason, talk, events, shook>>

\* The other client's session is removed, by whatever removes sessions.
SharedEnds ==
    /\ shared /\ sess # "shared"
    /\ shared' = FALSE
    /\ UNCHANGED <<config, client, forced, stopping, pc, server, reason, talk, events, shook>>

\* The cleanup task or DELETE removes the session of this connection.
ForceRemoved ==
    /\ sess # "none" /\ ~forced
    /\ forced' = TRUE
    /\ UNCHANGED <<config, client, shared, stopping, pc, server, reason, talk, events, shook>>

StopSignal ==
    /\ ~stopping
    /\ stopping' = TRUE
    /\ UNCHANGED <<config, client, shared, forced, pc, server, reason, talk, events, shook>>

-----------------------------------------------------------------------------
(* What the handler does with the wire, the client and the audit logger.   *)

\* The next frame is f; a close frame is the last one.
Takes(f) ==
    /\ wire > 0
    /\ f = "close" => gone /\ wire = 1
    /\ wire' = wire - 1
    /\ UNCHANGED <<sent, gone>>

\* The stream ends, with an error or without.
StreamEnded == gone /\ wire = 0

Says(f) == said' = Append(said, f)

\* A send whose failure is ignored.
SaysIfPossible(f) == Says(f) \/ (gone /\ UNCHANGED said)

\* log_event hands the event to tracing and then to the log file, if there is one.
\* What becomes of the line there is left out: the one File of the logger, which all
\* connections share, reports a failed write to the next write, whoever's it is.
Logs(e) == events' = Append(events, e)

GoesTo(p) == pc' = p /\ UNCHANGED reason

\* run_session returns Ok(reason).
Ends(r) == pc' = "closing" /\ reason' = r

\* A frame that must reach the client: Ok, or the error is passed on with `?`.
SaysAndEnds(f, r) ==
    \/ Says(f) /\ Ends(r)
    \/ gone /\ UNCHANGED said /\ GoesTo("failed")

-----------------------------------------------------------------------------
(* handle_terminal_session and authenticate.                               *)

Open ==
    /\ pc = "opening"
    /\ Logs("opened")
    /\ GoesTo("auth")
    /\ UNCHANGED <<config, client, outside, server, talk, shook>>

NoAuthNeeded ==
    /\ pc = "auth" /\ config.auth = "off"
    /\ GoesTo("first")
    /\ UNCHANGED <<config, client, outside, server, talk, events, shook>>

\* Mutant: without an authenticator nobody has to log in.
OpenWithoutAuthenticator ==
    /\ pc = "auth" /\ config.auth = "broken"
    /\ GoesTo("first")
    /\ UNCHANGED <<config, client, outside, server, talk, events, shook>>

\* Authentication is configured and could not be built: fail closed.
Misconfigured ==
    /\ pc = "auth" /\ config.auth = "broken"
    /\ SaysAndEnds("auth_fail", "auth")
    /\ UNCHANGED <<config, client, outside, server, ready, effects, events, shook>>

RateLimited ==
    /\ pc = "auth" /\ config.auth = "on"
    /\ SaysAndEnds("auth_fail", "auth")
    /\ UNCHANGED <<config, client, outside, server, ready, effects, events, shook>>

WithinRate ==
    /\ pc = "auth" /\ config.auth = "on"
    /\ GoesTo("login")
    /\ UNCHANGED <<config, client, outside, server, talk, events, shook>>

\* A text frame that is not an auth message, or one of an unknown method.
LoginUnexpected ==
    /\ pc = "login"
    /\ \E f \in Frames \ {"auth_valid", "auth_wrong", "garbage", "nontext", "close"} : Takes(f)
    /\ SaysAndEnds("auth_fail", "auth")
    /\ UNCHANGED <<config, outside, server, ready, effects, events, shook>>

LoginUnreadable ==
    /\ pc = "login"
    /\ Takes("garbage")
    /\ GoesTo("failed")
    /\ UNCHANGED <<config, outside, server, talk, events, shook>>

LoginAbandoned ==
    /\ pc = "login"
    /\ \/ \E f \in {"nontext", "close"} : Takes(f)
       \/ StreamEnded /\ UNCHANGED client
    /\ Ends("client")
    /\ UNCHANGED <<config, outside, server, talk, events, shook>>

LoginRefused ==
    /\ pc = "login"
    /\ Takes("auth_wrong")
    /\ Logs("auth_failure")
    /\ SaysAndEnds("auth_fail", "auth")
    /\ UNCHANGED <<config, outside, server, ready, effects, shook>>

LoggedIn ==
    /\ pc = "login"
    /\ Takes("auth_valid")
    /\ Logs("auth_success")
    /\ \/ Says("auth_ok") /\ GoesTo("first")
       \/ gone /\ UNCHANGED said /\ GoesTo("failed")
    /\ UNCHANGED <<config, outside, server, ready, effects, shook>>

-----------------------------------------------------------------------------
(* read_handshake.                                                         *)

Consumes(f) ==
    /\ Takes(f)
    /\ shook' = [own    |-> shook.own \cup ({f} \cap ({"resize"} \cup JoinFrames)),
                 strays |-> shook.strays + (IF f \in LoopFrames THEN 1 ELSE 0)]

\* A size outside the bounds: report_rejection, and the handshake fails.
SizeRejected ==
    /\ pc \in {"first", "second"}
    /\ Consumes("resize_bad")
    /\ Logs("error")
    /\ SaysIfPossible("error")
    /\ Ends("handshake")
    /\ UNCHANGED <<config, outside, server, ready, effects>>

HandshakeFails ==
    /\ pc = "first"
    /\ \/ \E f \in {"garbage", "close"} : Consumes(f)
       \/ StreamEnded /\ UNCHANGED <<client, shook>>
    /\ Ends("handshake")
    /\ UNCHANGED <<config, outside, server, talk, events>>

FirstIsResize ==
    /\ pc = "first"
    /\ Consumes("resize")
    /\ hs' = [hs EXCEPT !.size = "asked"]
    /\ GoesTo("peek")
    /\ UNCHANGED <<config, outside, sess, ptySize, talk, events>>

FirstIsJoin ==
    /\ pc = "first"
    /\ \E f \in JoinFrames : Consumes(f) /\ hs' = [hs EXCEPT !.join = f]
    /\ GoesTo("second")
    /\ UNCHANGED <<config, outside, sess, ptySize, talk, events>>

\* Mutant: whatever else comes first is skipped and the next frame is read.
FirstIsSkipped ==
    /\ pc = "first"
    /\ \E f \in AuthFrames \cup LoopFrames \cup {"nontext"} : Consumes(f)
    /\ GoesTo("first")
    /\ UNCHANGED <<config, outside, server, talk, events>>

\* Anything else is dropped; the session gets the default size.
FirstIsOther ==
    /\ pc = "first"
    /\ \E f \in AuthFrames \cup LoopFrames \cup {"nontext"} : Consumes(f)
    /\ GoesTo("setup")
    /\ UNCHANGED <<config, outside, server, talk, events>>

\* After a Join one more frame is waited for, in which only a Resize counts.
SecondRead ==
    /\ pc = "second"
    /\ \/ /\ Consumes("resize")
          /\ hs' = [hs EXCEPT !.size = "asked"]
       \/ /\ \/ \E f \in Frames \ {"resize", "resize_bad"} : Consumes(f)
             \/ StreamEnded /\ UNCHANGED <<client, shook>>
          /\ UNCHANGED hs
    /\ GoesTo("setup")
    /\ UNCHANGED <<config, outside, sess, ptySize, talk, events>>

\* After a Resize one more frame is waited for, for at most 100 ms, in which
\* only a Join counts; a frame that has arrived is taken before the time is
\* looked at.
Peek ==
    /\ pc = "peek"
    /\ \/ \E f \in JoinFrames : Consumes(f) /\ hs' = [hs EXCEPT !.join = f]
       \/ \E f \in Frames \ JoinFrames : Consumes(f) /\ UNCHANGED hs
       \/ wire = 0 /\ UNCHANGED <<client, shook, hs>>
    /\ GoesTo("setup")
    /\ UNCHANGED <<config, outside, sess, ptySize, talk, events>>

-----------------------------------------------------------------------------
(* create_or_join_session, add_client, READY, and the tasks.  add_client   *)
(* cannot refuse here: only a second client of an isolated session is, and *)
(* nobody can join one.                                                    *)

SetupRefused ==
    /\ pc = "setup"
    /\ \/ hs.join = "none"                      \* the PTY could not be created
       \/ hs.join = "join_missing" \/ ~shared   \* SESSION_NOT_FOUND
       \/ config.mode = "isolated"              \* CANNOT_JOIN
    /\ SaysIfPossible("error")
    /\ Ends("setup")
    /\ UNCHANGED <<config, client, outside, server, ready, effects, events, shook>>

Attached(s, size, readonly) ==
    /\ sess' = s /\ ptySize' = size
    /\ Logs("session_started")
    /\ \/ Says("ready")
       \/ gone /\ UNCHANGED said
    /\ ready' = [session |-> s, size |-> hs.size, pty |-> size, readonly |-> readonly]
    /\ GoesTo("attached")
    /\ UNCHANGED <<config, client, outside, hs, effects, shook>>

CreateSession ==
    /\ pc = "setup" /\ hs.join = "none"
    /\ Attached("own", hs.size, FALSE)

\* Mutant: joins have write access in every shared mode.
JoinReadWrite ==
    /\ pc = "setup" /\ hs.join = "join" /\ shared /\ config.mode # "isolated"
    /\ Attached("shared", "theirs", FALSE)

\* The joined terminal keeps the size it has.
JoinSession ==
    /\ pc = "setup" /\ hs.join = "join" /\ shared /\ config.mode # "isolated"
    /\ Attached("shared", "theirs", config.mode = "shared_readonly")

\* create_pty_writer fails: `?` leaves run_session before the clean-up.
WriterFails ==
    /\ pc = "attached"
    /\ GoesTo("failed")
    /\ UNCHANGED <<config, client, outside, server, talk, events, shook>>

\* Reader, subscriber and heartbeat monitor are started.
EnterLoop ==
    /\ pc = "attached"
    /\ GoesTo("loop")
    /\ UNCHANGED <<config, client, outside, server, talk, events, shook>>

-----------------------------------------------------------------------------
(* The message loop.                                                       *)

LeavesLoop(r) == pc' = "leaving" /\ reason' = r

\* can_write: the mode decides; a client that a forced removal has taken out
\* of the session may not write either.
CanWrite == config.mode # "shared_readonly"

Input ==
    /\ pc = "loop" /\ CanWrite
    /\ Takes("input")
    /\ effects' = effects \cup {"input"}
    /\ GoesTo("loop")
    /\ UNCHANGED <<config, outside, server, said, ready, events, shook>>

InputRefused ==
    /\ pc = "loop" /\ (~CanWrite \/ forced)
    /\ \E f \in {"input", "input_bad"} : Takes(f)
    /\ effects' = effects \cup {"refused"}
    /\ GoesTo("loop")
    /\ UNCHANGED <<config, outside, server, said, ready, events, shook>>

\* The write to the PTY fails: mark_pty_exited, and the connection ends.
InputFails ==
    /\ pc = "loop" /\ CanWrite
    /\ Takes("input")
    /\ LeavesLoop("io")
    /\ UNCHANGED <<config, outside, server, talk, events, shook>>

\* report_rejection: an oversized or NUL-bearing payload, a size out of bounds.
LoopRejects ==
    /\ pc = "loop"
    /\ \/ CanWrite /\ Takes("input_bad")
       \/ Takes("resize_bad")
    /\ Logs("error")
    /\ GoesTo("loop")
    /\ UNCHANGED <<config, outside, server, talk, shook>>

\* The ioctl may fail: RESIZE_FAILED.
Resize ==
    /\ pc = "loop"
    /\ Takes("resize")
    /\ ptySize' \in {ptySize, "asked"}
    /\ GoesTo("loop")
    /\ UNCHANGED <<config, outside, hs, sess, talk, events, shook>>

\* Disabled, over the rate limit or not readable: an error; or the listing.
FileList ==
    /\ pc = "loop"
    /\ Takes("file_list")
    /\ \/ UNCHANGED effects
       \/ config.files /\ effects' = effects \cup {"listing"}
    /\ GoesTo("loop")
    /\ UNCHANGED <<config, outside, server, said, ready, events, shook>>

\* A ping refreshes the heartbeat and is answered; other messages, a late Join
\* among them, and other frames are ignored.
LoopIgnores ==
    /\ pc = "loop"
    /\ \E f \in AuthFrames \cup JoinFrames \cup {"ping", "garbage", "nontext"} : Takes(f)
    /\ GoesTo("loop")
    /\ UNCHANGED <<config, outside, server, talk, events, shook>>

ClientLeaves ==
    /\ pc = "loop"
    /\ \/ Takes("close") /\ LeavesLoop("client")
       \/ StreamEnded /\ UNCHANGED client /\ (LeavesLoop("client") \/ LeavesLoop("io"))
    /\ UNCHANGED <<config, outside, server, talk, events, shook>>

HeartbeatTimeout ==
    /\ pc = "loop"
    /\ SaysIfPossible("error")
    /\ LeavesLoop("heartbeat")
    /\ UNCHANGED <<config, client, outside, server, ready, effects, events, shook>>

\* Mutant: only the server's token is watched.
ObserveShutdown ==
    /\ pc = "loop"
    /\ stopping /\ LeavesLoop("shutdown")
    /\ UNCHANGED <<config, client, outside, server, talk, events, shook>>

ObserveToken ==
    /\ pc = "loop"
    /\ \/ stopping /\ LeavesLoop("shutdown")
       \/ forced /\ LeavesLoop("session")
    /\ UNCHANGED <<config, client, outside, server, talk, events, shook>>

\* The monitor and the subscriber are aborted, cleanup_client, the event, the
\* farewell and the close frame.
CleanUp ==
    /\ pc = "leaving"
    /\ sess' = "none" /\ ptySize' = "none"
    /\ Logs("session_ended")
    /\ SaysIfPossible("disconnect")
    /\ GoesTo("closing")
    /\ UNCHANGED <<config, client, outside, hs, ready, effects, shook>>

-----------------------------------------------------------------------------
(* The end of handle_terminal_session.                                     *)

\* Mutant: an error of run_session is passed on.
FailureEndsIt ==
    /\ pc = "failed"
    /\ Logs("error")
    /\ pc' = "closed" /\ reason' = "io"
    /\ UNCHANGED <<config, client, outside, server, talk, shook>>

Failure ==
    /\ pc = "failed"
    /\ Logs("error")
    /\ Ends("io")
    /\ UNCHANGED <<config, client, outside, server, talk, shook>>

Disconnected ==
    /\ pc = "closing"
    /\ Logs("closed")
    /\ GoesTo("closed")
    /\ UNCHANGED <<config, client, outside, server, talk, shook>>

Login == \/ Open \/ NoAuthNeeded \/ Misconfigured \/ RateLimited \/ WithinRate
         \/ LoginUnexpected \/ LoginUnreadable \/ LoginAbandoned \/ LoginRefused \/ LoggedIn

Handshake == \/ SizeRejected \/ HandshakeFails \/ FirstIsResize \/ FirstIsJoin
             \/ FirstIsOther \/ SecondRead \/ Peek

Setup == SetupRefused \/ CreateSession \/ JoinSession \/ WriterFails \/ EnterLoop

Loop == \/ Input \/ InputRefused \/ InputFails \/ LoopRejects \/ Resize \/ FileList
        \/ LoopIgnores \/ ClientLeaves \/ ObserveToken

Handler == Login \/ Handshake \/ Setup \/ Loop \/ CleanUp \/ Failure \/ Disconnected

Environment == \/ ClientSends \/ ClientGone \/ SharedEnds \/ ForceRemoved \/ StopSignal

Next == Handler \/ HeartbeatTimeout \/ Environment

Spec == Init /\ [][Next]_vars

\* The runtime polls the handler whenever it can go on.
FairSpec == Spec /\ WF_vars(Handler)

-----------------------------------------------------------------------------

Has(seq, e) == \E i \in DOMAIN seq : seq[i] = e

Count(seq, e) == Cardinality({i \in DOMAIN seq : seq[i] = e})

\* Variable types.  At most four frames are said outside the loop; a session in use
\* has a terminal, and a closed connection a reason.
TypeOK ==
    /\ config \in Configs
    /\ wire \in 0..sent /\ sent \in 0..MaxSent /\ gone \in BOOLEAN
    /\ {shared, forced, stopping} \subseteq BOOLEAN
    /\ pc \in Phases
    /\ hs \in [size : {"default", "asked"}, join : JoinFrames \cup {"none"}]
    /\ sess \in {"none", "own", "shared"}
    /\ ptySize \in {"none", "default", "asked", "theirs"}
    /\ (sess = "none") <=> (ptySize = "none")
    /\ reason \in Reasons \cup {"none"}
    /\ pc = "closed" => reason # "none"
    /\ said \in BoundedSeq({"auth_ok", "auth_fail", "ready", "error", "disconnect"}, 4)
    /\ effects \subseteq {"input", "listing", "refused"}
    /\ events \in Seq(Events)
    /\ shook \in [own : SUBSET ({"resize"} \cup JoinFrames), strays : 0..2]

\* Fail closed: where authentication is configured, nothing beyond the login
\* happens to a connection - no frame of the handshake is read, no session is
\* created or joined, no READY is sent, nothing is typed or listed - unless the
\* configured credentials were presented, and never when the authenticator could
\* not be built.  A refusal is the only frame its client gets.
NothingWithoutLogin ==
    /\ (config.auth # "off" /\ (pc \in {"first", "second", "peek", "setup"} \/ sess # "none" \/ effects # {}
                                  \/ ready.session # "none" \/ Has(said, "ready")))
           => config.auth = "on" /\ Has(events, "auth_success")
    /\ Has(said, "auth_fail") => said = <<"auth_fail">> /\ ~Has(events, "auth_success")

\* The story the audit events tell: it begins with "opened", ends with exactly one
\* "closed" however the connection ends, and in between a session that was started
\* is ended - unless the PTY could not be duplicated for writing, when run_session
\* is left with an error before its clean-up, and that error is on record.  The record
\* has a session open exactly while the connection uses one, where joining or leaving
\* it and recording that, which follow each other, are one step.
AuditTellsTheStory ==
    /\ events # <<>> => Head(events) = "opened" /\ Count(events, "opened") = 1
    /\ Count(events, "closed") = (IF pc = "closed" THEN 1 ELSE 0)
    /\ pc = "closed" => Last(events) = "closed"
    /\ Count(events, "session_ended") <= Count(events, "session_started")
    /\ (sess # "none") <=> Count(events, "session_ended") < Count(events, "session_started")
    /\ pc = "closed" /\ Count(events, "session_ended") < Count(events, "session_started")
           => reason = "io" /\ events[Len(events) - 1] = "error"

\* Resize and Join come in either order: what the handshake makes of the frames
\* it consumed does not depend on their order, and at most one of them is a frame
\* that belongs to the message loop.
HandshakeTakesItsOwn ==
    /\ shook.strays <= 1
    /\ pc \in {"setup", "attached", "loop", "leaving"} =>
           /\ (hs.size = "asked") <=> ("resize" \in shook.own)
           /\ (hs.join # "none") <=> (shook.own \cap JoinFrames # {})
           /\ sess = "shared" => ready.session = "shared" /\ "join" \in shook.own

\* READY is right about the session, about write access that it denies, and about
\* the size of a terminal that was created for this client.  It grants write access
\* that can_write denies to the creator of a read-only session only, and tells a
\* size that the terminal does not have to clients that joined only.
ReadyIsHonest ==
    ready.session # "none" =>
        /\ sess \in {ready.session, "none"}
        /\ ready.readonly => ~CanWrite
        /\ ~ready.readonly /\ ~CanWrite => ready.session = "own"
        /\ ready.size # ready.pty => ready.session = "shared"
        /\ "input" \in effects => ~ready.readonly

\* A connection whose client has gone comes to its end, whatever it was waiting
\* for, and so does one in the loop whose session was removed or whose server
\* stops.  Before the loop nobody looks at the tokens.
EndIsReached ==
    (gone \/ (pc = "loop" /\ (stopping \/ forced))) ~> pc = "closed"
=============================================================================
