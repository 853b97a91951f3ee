----------------------------- MODULE ConnectionProofs ----------------------------
(***************************************************************************)
(* For any conversation, however long: nobody gets past the login without  *)
(* it, the handshake takes what is its own, READY is right, and the audit  *)
(* events tell the story of the connection.                                *)
(*                                                                         *)
(* Four invariants, one per theorem, each along the phases of the handler: *)
(* before the login nothing was said, while the session is set up what was *)
(* consumed is what the handshake knows, from READY on the session is the  *)
(* one READY told of, and each phase has its chapter of the story.         *)
(***************************************************************************)
EXTENDS Connection, FiniteSetTheorems, TLAPS

Replies == {"auth_ok", "auth_fail", "ready", "error", "disconnect"}

Early == {"opening", "auth", "login"}
Mid == {"first", "second", "peek", "setup", "attached", "loop", "leaving"}
Late == {"failed", "closing", "closed"}

--------------------------------------------------------------------------------
\* What one more event or reply changes.
LEMMA HasAppend ==
    ASSUME NEW S, NEW q \in Seq(S), NEW e \in S
    PROVE  /\ Append(q, e) \in Seq(S)
           /\ \A x : Has(Append(q, e), x) <=> Has(q, x) \/ x = e
<1> DEFINE h == Append(q, e)
<1>1. h \in Seq(S) /\ Len(h) = Len(q) + 1 /\ Len(q) \in Nat
    OBVIOUS
<1>2. \A i \in 1..Len(q) : h[i] = q[i]
    OBVIOUS
<1>3. h[Len(q) + 1] = e
    OBVIOUS
<1>4. DOMAIN q = 1..Len(q) /\ DOMAIN h = 1..Len(q) \union {Len(q) + 1}
    BY <1>1
<1> HIDE DEF h
<1>5. \A x : Has(h, x) <=> Has(q, x) \/ x = e
    BY <1>2, <1>3, <1>4 DEF Has
<1> QED
    BY <1>1, <1>5 DEF h

\* The events grow by what is logged (log_event).
LEMMA LogsAdds ==
    ASSUME NEW e \in Events, Logs(e), events \in Seq(Events)
    PROVE  events' \in Seq(Events) /\ \A x : Has(events', x) <=> Has(events, x) \/ x = e
BY HasAppend DEF Logs

\* What is said is added to what was said.
LEMMA SaysAdds ==
    ASSUME NEW f \in Replies, Says(f), said \in Seq(Replies)
    PROVE  said' \in Seq(Replies) /\ \A x : Has(said', x) <=> Has(said, x) \/ x = f
BY HasAppend DEF Says

--------------------------------------------------------------------------------
(* The login.                                                              *)

LoggedInAs == \/ config.auth = "off"
              \/ config.auth = "on" /\ Has(events, "auth_success")

Inside == \/ sess # "none" \/ effects # {}
          \/ ready.session # "none" \/ Has(said, "ready")

LoginInv ==
    /\ pc \in Phases
    /\ events \in Seq(Events) /\ said \in Seq(Replies)
    /\ pc \in Early => said = <<>> /\ ~Has(events, "auth_success")
    /\ pc = "login" => config.auth = "on"
    /\ pc \in Mid \/ Inside => LoggedInAs
    /\ pc \in Mid => ~Has(said, "auth_fail")
    /\ Has(said, "auth_fail") => said = <<"auth_fail">> /\ ~Has(events, "auth_success")

\* A step that says nothing and logs in nobody.
LEMMA SilentStep ==
    ASSUME LoginInv, UNCHANGED <<config, said>>, events' \in Seq(Events),
           Has(events', "auth_success") <=> Has(events, "auth_success"),
           pc' \in Phases,
           pc' \in Early => pc \in Early, pc' = "login" => config.auth = "on",
           pc' \in Mid => pc \in Mid \/ (config.auth = "off" /\ pc \in Early),
           UNCHANGED <<sess, effects, ready>> \/ pc \in Mid
    PROVE  LoginInv'
<1> USE DEF LoginInv, Early, Mid, Late, Phases
<1>1. (pc \in Mid \/ Inside => LoggedInAs)'
    <2>1. LoggedInAs => LoggedInAs'
        BY DEF LoggedInAs
    <2>2. Inside' => Inside \/ pc \in Mid
        BY DEF Inside
    <2>3. pc \in Mid \/ config.auth = "off" => LoggedInAs
        BY DEF LoggedInAs
    <2> QED
        BY <2>1, <2>2, <2>3
<1>2. (pc \in Mid => ~Has(said, "auth_fail"))'
    <2>1. said = <<>> => ~Has(said, "auth_fail")
        BY DEF Has
    <2>2. Has(said', "auth_fail") <=> Has(said, "auth_fail")
        OBVIOUS
    <2> QED
        BY <2>1, <2>2
<1> QED
    BY <1>1, <1>2

\* A step that does nothing of this.
LEMMA StillStep ==
    ASSUME LoginInv, UNCHANGED <<config, said, events, pc, sess, effects, ready>>
    PROVE  LoginInv'
BY DEF LoginInv, Inside, LoggedInAs

\* A step inside, which may say anything but a refusal.
LEMMA InsideStep ==
    ASSUME LoginInv, pc \in Mid, pc' \in Mid \union Late, UNCHANGED config,
           events' \in Seq(Events),
           Has(events', "auth_success") <=> Has(events, "auth_success"),
           said' \in Seq(Replies), ~Has(said', "auth_fail")
    PROVE  LoginInv'
<1> USE DEF LoginInv, Early, Mid, Late, Phases
<1>1. LoggedInAs'
    BY DEF LoggedInAs
<1> QED
    BY <1>1

\* Refusals end before anything is said or granted (authenticate's fail_auth).
LEMMA RefusalStep ==
    ASSUME LoginInv, pc \in Early, SaysAndEnds("auth_fail", "auth"),
           UNCHANGED <<config, sess, effects, ready>>, events' \in Seq(Events),
           Has(events', "auth_success") <=> Has(events, "auth_success")
    PROVE  LoginInv'
<1> USE DEF LoginInv
<1>1. pc' \in Late /\ pc' \in Phases /\ pc' \notin Early /\ pc' \notin Mid
    BY DEF SaysAndEnds, Ends, GoesTo, Late, Early, Mid, Phases
<1>2. pc' # "login"
    BY <1>1 DEF Early
<1>3. CASE UNCHANGED said
    BY <1>1, <1>2, <1>3, SilentStep
<1>4. CASE Says("auth_fail")
    <2>1. said' = <<"auth_fail">> /\ ~Has(events', "auth_success")
        BY <1>4 DEF Says
    <2>2. said' \in Seq(Replies)
        BY <2>1 DEF Replies
    <2>3. ~Has(said', "ready")
        BY <2>1 DEF Has
    <2>4. (Inside => LoggedInAs)'
        <3>1. Inside' => Inside
            BY <2>3 DEF Inside
        <3>2. Inside => LoggedInAs
            OBVIOUS
        <3>3. LoggedInAs => LoggedInAs'
            BY DEF LoggedInAs
        <3> QED
            BY <3>1, <3>2, <3>3
    <2> QED
        BY <1>1, <1>2, <2>1, <2>2, <2>4
<1> QED
    BY <1>3, <1>4 DEF SaysAndEnds

\* handle_terminal_session up to the end of authenticate.
LEMMA LoginKeepsLogin == LoginInv /\ Login => LoginInv'
<1> SUFFICES ASSUME LoginInv, Login PROVE LoginInv'
    OBVIOUS
<1>0. events \in Seq(Events) /\ said \in Seq(Replies)
    BY DEF LoginInv
<1>1. CASE Open
    <2>1. Logs("opened") /\ "opened" \in Events
        BY <1>1 DEF Open, Events
    <2>2. events' \in Seq(Events) /\ (Has(events', "auth_success") <=> Has(events, "auth_success"))
        BY <1>0, <2>1, LogsAdds
    <2> QED
        BY <1>1, <2>2, SilentStep DEF Open, GoesTo, server, talk, Early, Mid, Phases
<1>2. CASE NoAuthNeeded
    BY <1>0, <1>2, SilentStep DEF NoAuthNeeded, GoesTo, server, talk, Early, Mid, Phases
<1>3. CASE Misconfigured \/ RateLimited
    BY <1>0, <1>3, RefusalStep DEF Misconfigured, RateLimited, server, Early
<1>4. CASE WithinRate
    BY <1>0, <1>4, SilentStep DEF WithinRate, GoesTo, server, talk, Early, Mid, Phases
<1>5. CASE LoginUnexpected
    BY <1>0, <1>5, RefusalStep DEF LoginUnexpected, server, Early
<1>6. CASE LoginUnreadable \/ LoginAbandoned
    BY <1>0, <1>6, SilentStep
       DEF LoginUnreadable, LoginAbandoned, GoesTo, Ends, server, talk, Early, Mid, Phases
<1>7. CASE LoginRefused
    <2>1. Logs("auth_failure") /\ "auth_failure" \in Events
        BY <1>7 DEF LoginRefused, Events
    <2>2. events' \in Seq(Events) /\ (Has(events', "auth_success") <=> Has(events, "auth_success"))
        BY <1>0, <2>1, LogsAdds
    <2> QED
        BY <1>7, <2>2, RefusalStep DEF LoginRefused, server, Early
<1>8. CASE LoggedIn
    <2>1. Logs("auth_success") /\ "auth_success" \in Events /\ pc = "login"
        BY <1>8 DEF LoggedIn, Events
    <2>2. events' \in Seq(Events) /\ Has(events', "auth_success")
        BY <1>0, <2>1, LogsAdds
    <2>3. said = <<>> /\ config.auth = "on"
        BY <2>1 DEF LoginInv, Early
    <2>4. said' = <<"auth_ok">> \/ said' = <<>>
        BY <1>8, <2>3 DEF LoggedIn, Says
    <2>5. said' \in Seq(Replies) /\ ~Has(said', "auth_fail")
        <3>1. CASE said' = <<>>
            BY <3>1 DEF Has
        <3>2. CASE said' = <<"auth_ok">>
            <4>1. said' \in Seq(Replies)
                BY <3>2 DEF Replies
            <4>2. \A i \in DOMAIN said' : said'[i] = "auth_ok"
                BY <3>2
            <4> QED
                BY <4>1, <4>2 DEF Has
        <3> QED
            BY <2>4, <3>1, <3>2
    <2>6. pc' \in {"first", "failed"} /\ UNCHANGED config
        BY <1>8 DEF LoggedIn, GoesTo
    <2> QED
        BY <2>2, <2>3, <2>5, <2>6 DEF LoginInv, LoggedInAs, Early, Phases
<1> QED
    BY <1>1, <1>2, <1>3, <1>4, <1>5, <1>6, <1>7, <1>8 DEF Login

\* The rest of the handler: only who is in gets anything.
LEMMA OthersKeepLogin ==
    LoginInv /\ (Handshake \/ Setup \/ Loop \/ HeartbeatTimeout \/ CleanUp \/ Failure
                   \/ Disconnected \/ Environment) => LoginInv'
<1> SUFFICES ASSUME LoginInv, \/ Handshake \/ Setup \/ Loop \/ HeartbeatTimeout \/ CleanUp
                              \/ Failure \/ Disconnected \/ Environment
             PROVE  LoginInv'
    OBVIOUS
<1>0. events \in Seq(Events) /\ said \in Seq(Replies)
    BY DEF LoginInv
<1>1. ASSUME NEW e \in Events \ {"auth_success"}, Logs(e)
      PROVE  /\ events' \in Seq(Events)
             /\ Has(events', "auth_success") <=> Has(events, "auth_success")
    BY <1>0, <1>1, LogsAdds
<1>2. ASSUME NEW f \in Replies \ {"auth_fail"}, Says(f), pc \in Mid
      PROVE  said' \in Seq(Replies) /\ ~Has(said', "auth_fail")
    BY <1>0, <1>2, SaysAdds DEF LoginInv
<1>3. ASSUME pc \in Mid, UNCHANGED said
      PROVE  said' \in Seq(Replies) /\ ~Has(said', "auth_fail")
    BY <1>0, <1>3 DEF LoginInv
<1>4. CASE SizeRejected
    <2>1. pc \in Mid /\ pc' \in Late /\ UNCHANGED config
        BY <1>4 DEF SizeRejected, Ends, Mid, Late
    <2>2. Logs("error") /\ "error" \in Events \ {"auth_success"} /\ "error" \in Replies \ {"auth_fail"}
        BY <1>4 DEF SizeRejected, Events, Replies
    <2>3. Says("error") \/ UNCHANGED said
        BY <1>4 DEF SizeRejected, SaysIfPossible
    <2> QED
        BY <1>1, <1>2, <1>3, <2>1, <2>2, <2>3, InsideStep
<1>5. CASE Handshake /\ ~SizeRejected
    <2>1. pc \in Mid /\ pc' \in Mid \union Late /\ UNCHANGED <<config, said, events>>
        BY <1>5 DEF Handshake, HandshakeFails, FirstIsResize, FirstIsJoin, FirstIsOther,
                    SecondRead, Peek, GoesTo, Ends, Mid, Late, talk
    <2> QED
        BY <1>0, <1>3, <2>1, InsideStep
<1>6. CASE SetupRefused
    <2>1. pc \in Mid /\ pc' \in Late /\ UNCHANGED <<config, events>>
        BY <1>6 DEF SetupRefused, Ends, Mid, Late
    <2>2. (Says("error") \/ UNCHANGED said) /\ "error" \in Replies \ {"auth_fail"}
        BY <1>6 DEF SetupRefused, SaysIfPossible, Replies
    <2> QED
        BY <1>0, <1>2, <1>3, <2>1, <2>2, InsideStep
<1>7. CASE CreateSession \/ JoinSession
    <2>1. pc \in Mid /\ pc' \in Mid /\ UNCHANGED config
        BY <1>7 DEF CreateSession, JoinSession, Attached, GoesTo, Mid
    <2>2. /\ Logs("session_started") /\ "session_started" \in Events \ {"auth_success"}
          /\ "ready" \in Replies \ {"auth_fail"} /\ (Says("ready") \/ UNCHANGED said)
        BY <1>7 DEF CreateSession, JoinSession, Attached, Events, Replies
    <2> QED
        BY <1>1, <1>2, <1>3, <2>1, <2>2, InsideStep
<1>8. CASE WriterFails \/ EnterLoop
    <2>1. pc \in Mid /\ pc' \in Mid \union Late /\ UNCHANGED <<config, said, events>>
        BY <1>8 DEF WriterFails, EnterLoop, GoesTo, Mid, Late, talk
    <2> QED
        BY <1>0, <1>3, <2>1, InsideStep
<1>9. CASE LoopRejects
    <2>1. pc \in Mid /\ pc' \in Mid /\ UNCHANGED <<config, said>>
        BY <1>9 DEF LoopRejects, GoesTo, Mid, talk
    <2>2. Logs("error") /\ "error" \in Events \ {"auth_success"}
        BY <1>9 DEF LoopRejects, Events
    <2> QED
        BY <1>1, <1>3, <2>1, <2>2, InsideStep
<1>10. CASE Loop /\ ~LoopRejects
    <2>1. pc \in Mid /\ pc' \in Mid \union Late /\ UNCHANGED <<config, said, events>>
        BY <1>10 DEF Loop, Input, InputRefused, InputFails, Resize, FileList, LoopIgnores,
                     ClientLeaves, ObserveToken, LeavesLoop, GoesTo, Mid, Late, talk
    <2> QED
        BY <1>0, <1>3, <2>1, InsideStep
<1>11. CASE HeartbeatTimeout
    <2>1. pc \in Mid /\ pc' \in Mid /\ UNCHANGED <<config, events>>
        BY <1>11 DEF HeartbeatTimeout, LeavesLoop, Mid
    <2>2. (Says("error") \/ UNCHANGED said) /\ "error" \in Replies \ {"auth_fail"}
        BY <1>11 DEF HeartbeatTimeout, SaysIfPossible, Replies
    <2> QED
        BY <1>0, <1>2, <1>3, <2>1, <2>2, InsideStep
<1>12. CASE CleanUp
    <2>1. pc \in Mid /\ pc' \in Late /\ UNCHANGED config
        BY <1>12 DEF CleanUp, GoesTo, Mid, Late
    <2>2. /\ Logs("session_ended") /\ "session_ended" \in Events \ {"auth_success"}
          /\ "disconnect" \in Replies \ {"auth_fail"} /\ (Says("disconnect") \/ UNCHANGED said)
        BY <1>12 DEF CleanUp, SaysIfPossible, Events, Replies
    <2> QED
        BY <1>1, <1>2, <1>3, <2>1, <2>2, InsideStep
<1>13. CASE Failure \/ Disconnected
    <2>1. pc' \in Late /\ UNCHANGED <<config, said, sess, effects, ready>>
        BY <1>13 DEF Failure, Disconnected, Ends, GoesTo, Late, server, talk
    <2>2. \E e \in {"error", "closed"} : Logs(e)
        BY <1>13 DEF Failure, Disconnected
    <2>3. events' \in Seq(Events) /\ (Has(events', "auth_success") <=> Has(events, "auth_success"))
        BY <1>1, <2>2 DEF Events
    <2> QED
        BY <2>1, <2>3, SilentStep DEF Early, Mid, Late, Phases
<1>14. CASE Environment
    <2>1. UNCHANGED <<config, said, events, pc, sess, effects, ready>>
        BY <1>14 DEF Environment, ClientSends, ClientGone, SharedEnds, ForceRemoved, StopSignal,
                     server, talk
    <2> QED
        BY <2>1, StillStep
<1> QED
    BY <1>4, <1>5, <1>6, <1>7, <1>8, <1>9, <1>10, <1>11, <1>12, <1>13, <1>14 DEF Setup

\* Fail closed: where authentication is configured nothing beyond the login happens
\* without it (authenticate, perform_auth).
THEOREM NobodyGetsIn == Spec => []NothingWithoutLogin
<1>1. Init => LoginInv
    <2> SUFFICES ASSUME Init PROVE LoginInv
        OBVIOUS
    <2>1. pc = "opening" /\ events = <<>> /\ said = <<>> /\ ready.session = "none"
          /\ sess = "none" /\ effects = {}
        BY DEF Init
    <2>2. \A x : ~Has(<<>>, x)
        BY DEF Has
    <2> QED
        BY <2>1, <2>2 DEF LoginInv, Inside, Mid, Phases
<1>2. LoginInv /\ [Next]_vars => LoginInv'
    <2> SUFFICES ASSUME LoginInv, [Next]_vars PROVE LoginInv'
        OBVIOUS
    <2>1. CASE UNCHANGED vars
        <3>1. UNCHANGED <<config, said, events, pc, sess, effects, ready>>
            BY <2>1 DEF vars, server, talk
        <3> QED
            BY <3>1, StillStep
    <2> QED
        BY <2>1, LoginKeepsLogin, OthersKeepLogin DEF Next, Handler
<1>3. LoginInv => NothingWithoutLogin
    BY DEF LoginInv, NothingWithoutLogin, Inside, LoggedInAs, Mid
<1> QED
    BY <1>1, <1>2, <1>3, PTL DEF Spec

--------------------------------------------------------------------------------
(* The handshake.                                                          *)

Settled == {"setup", "attached", "loop", "leaving"}

Own == {"resize"} \union JoinFrames

\* What the handshake consumed is what it knows.
Knows ==
    /\ (hs.size = "asked") <=> ("resize" \in shook.own)
    /\ (hs.join # "none") <=> (shook.own \cap JoinFrames # {})
    /\ hs.join # "none" => hs.join \in shook.own

HandshakeInv ==
    /\ pc \in Phases
    /\ hs \in [size : {"default", "asked"}, join : JoinFrames \cup {"none"}]
    /\ shook \in [own : SUBSET Own, strays : {0, 1}]
    /\ pc \in Early \union {"first"} =>
           hs = [size |-> "default", join |-> "none"] /\ shook = [own |-> {}, strays |-> 0]
    /\ pc \in {"second", "peek"} => shook.strays = 0 /\ Knows
    /\ pc = "second" => hs.join # "none" /\ hs.size = "default"
    /\ pc = "peek" => hs.join = "none" /\ hs.size = "asked"
    /\ pc \in Settled => Knows
    /\ pc \in Settled /\ sess = "shared" => ready.session = "shared" /\ "join" \in shook.own
    /\ pc \in Early \union {"first", "second", "peek", "setup"} => sess = "none"

\* A frame is the handshake's own, a stray one of the loop, or neither.
LEMMA ConsumesOnce ==
    ASSUME HandshakeInv, NEW f \in Frames, Consumes(f), shook.strays = 0
    PROVE  /\ shook' \in [own : SUBSET Own, strays : {0, 1}]
           /\ shook'.own = shook.own \union ({f} \cap Own)
<1>1. shook.own \subseteq Own
    BY DEF HandshakeInv
<1>2. shook.strays + (IF f \in LoopFrames THEN 1 ELSE 0) \in {0, 1}
    OBVIOUS
<1> QED
    BY <1>1, <1>2 DEF Consumes, Own

\* read_handshake, in either order.
LEMMA HandshakeKeeps == HandshakeInv /\ Handshake => HandshakeInv'
<1> SUFFICES ASSUME HandshakeInv, Handshake PROVE HandshakeInv'
    OBVIOUS
<1>0. /\ shook \in [own : SUBSET Own, strays : {0, 1}]
      /\ hs \in [size : {"default", "asked"}, join : JoinFrames \cup {"none"}]
    BY DEF HandshakeInv
<1>1. pc \in {"first", "second", "peek"} /\ sess = "none" /\ shook.strays = 0
    BY DEF Handshake, SizeRejected, HandshakeFails, FirstIsResize, FirstIsJoin, FirstIsOther,
           SecondRead, Peek, HandshakeInv
<1>2. UNCHANGED <<sess, ready>>
    BY DEF Handshake, SizeRejected, HandshakeFails, FirstIsResize, FirstIsJoin, FirstIsOther,
           SecondRead, Peek, server, talk
<1>3. pc = "first" => shook.own = {} /\ hs.size = "default" /\ hs.join = "none"
    BY DEF HandshakeInv
<1>4. CASE SizeRejected \/ HandshakeFails
    <2>1. pc' = "closing" /\ UNCHANGED hs
        BY <1>4 DEF SizeRejected, HandshakeFails, Ends, server
    <2>2. (\E f \in Frames : Consumes(f)) \/ UNCHANGED shook
        BY <1>4 DEF SizeRejected, HandshakeFails, Frames
    <2>3. shook' \in [own : SUBSET Own, strays : {0, 1}]
        BY <1>0, <1>1, <2>2, ConsumesOnce
    <2> QED
        BY <1>0, <2>1, <2>3 DEF HandshakeInv, Early, Settled, Phases
<1>5. CASE FirstIsResize
    <2>1. pc = "first" /\ pc' = "peek" /\ Consumes("resize") /\ hs' = [hs EXCEPT !.size = "asked"]
        BY <1>5 DEF FirstIsResize, GoesTo
    <2>2. /\ shook' \in [own : SUBSET Own, strays : {0, 1}]
          /\ shook'.own = {"resize"} /\ shook'.strays = 0
        <3>1. "resize" \in Frames /\ "resize" \in Own /\ "resize" \notin LoopFrames
            BY DEF Frames, Own, LoopFrames
        <3>2. shook' \in [own : SUBSET Own, strays : {0, 1}]
            BY <1>1, <2>1, <3>1, ConsumesOnce
        <3>3. shook'.own = {"resize"}
            BY <1>1, <1>3, <2>1, <3>1, ConsumesOnce
        <3>4. shook'.strays = 0
            BY <1>1, <2>1, <3>1 DEF Consumes
        <3> QED
            BY <3>2, <3>3, <3>4
    <2>3. /\ hs' \in [size : {"default", "asked"}, join : JoinFrames \cup {"none"}]
          /\ hs'.size = "asked" /\ hs'.join = "none"
        BY <1>0, <1>3, <2>1
    <2> QED
        BY <1>1, <1>2, <2>1, <2>2, <2>3
           DEF HandshakeInv, Knows, JoinFrames, Early, Settled, Phases
<1>6. CASE FirstIsJoin
    <2>1. PICK f \in JoinFrames : Consumes(f) /\ hs' = [hs EXCEPT !.join = f]
        BY <1>6 DEF FirstIsJoin
    <2>2. pc = "first" /\ pc' = "second"
        BY <1>6 DEF FirstIsJoin, GoesTo
    <2>3. /\ shook' \in [own : SUBSET Own, strays : {0, 1}]
          /\ shook'.own = {f} /\ shook'.strays = 0
        <3>1. f \in Frames /\ f \in Own /\ f \notin LoopFrames
            BY DEF Frames, Own, LoopFrames, JoinFrames
        <3>2. shook' \in [own : SUBSET Own, strays : {0, 1}]
            BY <1>1, <2>1, <3>1, ConsumesOnce
        <3>3. shook'.own = {f}
            BY <1>1, <1>3, <2>1, <2>2, <3>1, ConsumesOnce
        <3>4. shook'.strays = 0
            BY <1>1, <2>1, <3>1 DEF Consumes
        <3> QED
            BY <3>2, <3>3, <3>4
    <2>4. /\ hs' \in [size : {"default", "asked"}, join : JoinFrames \cup {"none"}]
          /\ hs'.size = "default" /\ hs'.join = f
        BY <1>0, <1>3, <2>1, <2>2
    <2> QED
        BY <1>1, <1>2, <2>2, <2>3, <2>4
           DEF HandshakeInv, Knows, JoinFrames, Early, Settled, Phases
<1>7. CASE FirstIsOther
    <2>1. PICK f \in AuthFrames \cup LoopFrames \cup {"nontext"} : Consumes(f)
        BY <1>7 DEF FirstIsOther
    <2>2. pc = "first" /\ pc' = "setup" /\ UNCHANGED hs
        BY <1>7 DEF FirstIsOther, GoesTo, server
    <2>3. f \in Frames /\ f \notin Own
        BY DEF Frames, Own, LoopFrames, JoinFrames, AuthFrames
    <2>4. shook' \in [own : SUBSET Own, strays : {0, 1}] /\ shook'.own = {}
        BY <1>1, <1>3, <2>1, <2>2, <2>3, ConsumesOnce
    <2> QED
        BY <1>0, <1>1, <1>2, <1>3, <2>2, <2>4
           DEF HandshakeInv, Knows, JoinFrames, Early, Settled, Phases
<1>8. CASE SecondRead
    <2>0. /\ pc = "second" /\ pc' = "setup" /\ hs.join # "none" /\ hs.size = "default"
          /\ Knows
        BY <1>8 DEF SecondRead, GoesTo, HandshakeInv
    <2>1. CASE Consumes("resize") /\ hs' = [hs EXCEPT !.size = "asked"]
        <3>1. "resize" \in Frames /\ "resize" \in Own
            BY DEF Frames, Own
        <3>2. shook' \in [own : SUBSET Own, strays : {0, 1}]
              /\ shook'.own = shook.own \union {"resize"}
            BY <1>1, <2>1, <3>1, ConsumesOnce
        <3>3. /\ hs' \in [size : {"default", "asked"}, join : JoinFrames \cup {"none"}]
              /\ hs'.size = "asked" /\ hs'.join = hs.join
            BY <1>0, <2>1
        <3> QED
            BY <1>0, <1>1, <1>2, <2>0, <3>2, <3>3
               DEF HandshakeInv, Knows, JoinFrames, Early, Settled, Phases
    <2>2. ASSUME NEW f \in Frames \ {"resize", "resize_bad"}, Consumes(f), UNCHANGED hs
          PROVE  HandshakeInv'
        <3>1. shook' \in [own : SUBSET Own, strays : {0, 1}]
              /\ shook'.own = shook.own \union ({f} \cap Own)
            BY <1>1, <2>2, ConsumesOnce
        <3>2. "resize" \notin {f} \cap Own
            BY <2>2
        <3>3. Knows'
            BY <1>0, <2>0, <2>2, <3>1, <3>2 DEF Knows
        <3> QED
            BY <1>0, <1>1, <1>2, <2>0, <2>2, <3>1, <3>3 DEF HandshakeInv, Early, Settled, Phases
    <2>3. CASE UNCHANGED <<hs, shook>>
        BY <1>0, <1>1, <1>2, <2>0, <2>3 DEF HandshakeInv, Knows, Early, Settled, Phases
    <2> QED
        BY <1>8, <2>1, <2>2, <2>3 DEF SecondRead
<1>9. CASE Peek
    <2>0. /\ pc = "peek" /\ pc' = "setup" /\ hs.join = "none" /\ hs.size = "asked"
          /\ Knows
        BY <1>9 DEF Peek, GoesTo, HandshakeInv
    <2>1. ASSUME NEW f \in JoinFrames, Consumes(f), hs' = [hs EXCEPT !.join = f]
          PROVE  HandshakeInv'
        <3>1. f \in Frames /\ f \in Own
            BY <2>1 DEF Frames, Own
        <3>2. shook' \in [own : SUBSET Own, strays : {0, 1}] /\ shook'.own = shook.own \union {f}
            BY <1>1, <2>1, <3>1, ConsumesOnce
        <3>3. /\ hs' \in [size : {"default", "asked"}, join : JoinFrames \cup {"none"}]
              /\ hs'.size = "asked" /\ hs'.join = f
            BY <1>0, <2>0, <2>1
        <3> QED
            BY <1>1, <1>2, <2>0, <2>1, <3>2, <3>3
               DEF HandshakeInv, Knows, JoinFrames, Early, Settled, Phases
    <2>2. ASSUME NEW f \in Frames \ JoinFrames, Consumes(f), UNCHANGED hs
          PROVE  HandshakeInv'
        <3>1. shook' \in [own : SUBSET Own, strays : {0, 1}]
              /\ shook'.own = shook.own \union ({f} \cap Own)
            BY <1>1, <2>2, ConsumesOnce
        <3>2. ({f} \cap Own) \cap JoinFrames = {}
            BY <2>2
        <3>3. Knows'
            BY <1>0, <2>0, <2>2, <3>1, <3>2 DEF Knows
        <3> QED
            BY <1>0, <1>1, <1>2, <2>0, <2>2, <3>1, <3>3 DEF HandshakeInv, Early, Settled, Phases
    <2>3. CASE UNCHANGED <<hs, shook>>
        BY <1>0, <1>1, <1>2, <2>0, <2>3 DEF HandshakeInv, Knows, Early, Settled, Phases
    <2> QED
        BY <1>9, <2>1, <2>2, <2>3 DEF Peek
<1> QED
    BY <1>4, <1>5, <1>6, <1>7, <1>8, <1>9 DEF Handshake

\* Everything else goes past the handshake or does not come to it.
LEMMA PastHandshake ==
    ASSUME HandshakeInv, UNCHANGED <<hs, shook>>, pc' \in Phases,
           pc' \in Early \union {"first", "second", "peek", "setup"} => sess' = "none",
           pc' \in Early \union {"first"} => pc \in Early \union {"first"},
           pc' \in {"second", "peek"} => pc' = pc,
           pc' \in Settled => pc \in Settled,
           pc' \in Settled /\ sess' = "shared" => ready'.session = "shared" /\ "join" \in shook.own
    PROVE  HandshakeInv'
<1>1. Knows => Knows'
    BY DEF Knows
<1> QED
    BY <1>1 DEF HandshakeInv

\* The rest of the program and the handshake's invariant.
LEMMA OthersKeepHandshake == HandshakeInv /\ [Next]_vars /\ ~Handshake => HandshakeInv'
<1> SUFFICES ASSUME HandshakeInv, [Next]_vars, ~Handshake PROVE HandshakeInv'
    OBVIOUS
<1>0. pc \in Phases
    BY DEF HandshakeInv
<1>1. CASE Login \/ SetupRefused \/ WriterFails \/ EnterLoop \/ Loop \/ HeartbeatTimeout
           \/ Failure \/ Disconnected
    <2>1. UNCHANGED <<hs, shook>>
        BY <1>1 DEF Login, Open, NoAuthNeeded, Misconfigured, RateLimited, WithinRate,
                    LoginUnexpected, LoginUnreadable, LoginAbandoned, LoginRefused, LoggedIn,
                    SetupRefused, WriterFails, EnterLoop, Loop, Input, InputRefused, InputFails,
                    LoopRejects, Resize, FileList, LoopIgnores, ClientLeaves, ObserveToken,
                    HeartbeatTimeout, Failure, Disconnected, server
    <2>2. UNCHANGED <<sess, ready>>
        BY <1>1 DEF Login, Open, NoAuthNeeded, Misconfigured, RateLimited, WithinRate,
                    LoginUnexpected, LoginUnreadable, LoginAbandoned, LoginRefused, LoggedIn,
                    SetupRefused, WriterFails, EnterLoop, Loop, Input, InputRefused, InputFails,
                    LoopRejects, Resize, FileList, LoopIgnores, ClientLeaves, ObserveToken,
                    HeartbeatTimeout, Failure, Disconnected, server, talk
    <2>3. \/ pc \in Early /\ pc' \in Early \union {"first"} \union Late
          \/ pc \in Settled /\ pc' \in {"loop", "leaving"} \union Late
          \/ pc' \in Late
        BY <1>1 DEF Login, Open, NoAuthNeeded, Misconfigured, RateLimited, WithinRate,
                    LoginUnexpected, LoginUnreadable, LoginAbandoned, LoginRefused, LoggedIn,
                    SetupRefused, WriterFails, EnterLoop, Loop, Input, InputRefused, InputFails,
                    LoopRejects, Resize, FileList, LoopIgnores, ClientLeaves, ObserveToken,
                    HeartbeatTimeout, Failure, Disconnected,
                    SaysAndEnds, Ends, GoesTo, LeavesLoop, Early, Late, Settled
    <2>4. pc' \in Phases
        BY <2>3 DEF Early, Late, Settled, Phases
    <2>5. pc \in Early => sess = "none"
        BY DEF HandshakeInv
    <2>6. pc \in Settled /\ sess = "shared" => ready.session = "shared" /\ "join" \in shook.own
        BY DEF HandshakeInv
    <2> QED
        BY <2>1, <2>2, <2>3, <2>4, <2>5, <2>6, PastHandshake DEF Early, Late, Settled
<1>2. CASE CreateSession \/ JoinSession
    <2>1. /\ pc = "setup" /\ pc' = "attached" /\ UNCHANGED <<hs, shook>>
          /\ sess' = ready'.session
        BY <1>2 DEF CreateSession, JoinSession, Attached, GoesTo
    <2>2. sess' = "shared" => hs.join = "join"
        BY <1>2 DEF CreateSession, JoinSession, Attached
    <2>3. hs.join = "join" => "join" \in shook.own
        BY <2>1 DEF HandshakeInv, Knows, Settled
    <2> QED
        BY <2>1, <2>2, <2>3, PastHandshake DEF Early, Settled, Phases
<1>3. CASE CleanUp
    <2>1. pc' = "closing" /\ UNCHANGED <<hs, shook>>
        BY <1>3 DEF CleanUp, GoesTo
    <2> QED
        BY <2>1, PastHandshake DEF Early, Settled, Phases
<1>4. CASE Environment \/ UNCHANGED vars
    <2>1. UNCHANGED <<pc, hs, shook, sess, ready>>
        BY <1>4 DEF Environment, ClientSends, ClientGone, SharedEnds, ForceRemoved, StopSignal,
                    vars, server, talk
    <2> QED
        BY <2>1 DEF HandshakeInv, Knows
<1> QED
    BY <1>1, <1>2, <1>3, <1>4 DEF Next, Handler, Setup

\* Resize and Join come in either order, and at most one frame of the loop is lost
\* (read_handshake).
THEOREM OrderDoesNotMatter == Spec => []HandshakeTakesItsOwn
<1>1. Init => HandshakeInv
    BY DEF Init, HandshakeInv, Early, Settled, Phases
<1>2. HandshakeInv /\ [Next]_vars => HandshakeInv'
    BY HandshakeKeeps, OthersKeepHandshake
<1>3. HandshakeInv => HandshakeTakesItsOwn
    <2> SUFFICES ASSUME HandshakeInv PROVE HandshakeTakesItsOwn
        OBVIOUS
    <2>1. shook.strays <= 1
        BY DEF HandshakeInv
    <2> QED
        BY <2>1 DEF HandshakeInv, Knows, Settled, HandshakeTakesItsOwn
<1> QED
    BY <1>1, <1>2, <1>3, PTL DEF Spec

--------------------------------------------------------------------------------
(* READY.                                                                  *)

Unready == Early \union {"first", "second", "peek", "setup"}

Honest ==
    ready.session # "none" =>
        /\ sess \in {ready.session, "none"}
        /\ ready.readonly => ~CanWrite
        /\ ~ready.readonly /\ ~CanWrite => ready.session = "own"
        /\ ready.size # ready.pty => ready.session = "shared"

ReadyInv ==
    /\ pc \in Unready => sess = "none" /\ ready.session = "none" /\ effects = {}
    /\ "input" \in effects => CanWrite
    /\ Honest

\* Steps before READY, after it, and when it is sent.
LEMMA ReadyStep == ReadyInv /\ [Next]_vars => ReadyInv'
<1> SUFFICES ASSUME ReadyInv, [Next]_vars PROVE ReadyInv'
    OBVIOUS
<1>0. UNCHANGED config
    BY DEF Next, Handler, Login, Open, NoAuthNeeded, Misconfigured, RateLimited, WithinRate,
           LoginUnexpected, LoginUnreadable, LoginAbandoned, LoginRefused, LoggedIn,
           Handshake, SizeRejected, HandshakeFails, FirstIsResize, FirstIsJoin, FirstIsOther,
           SecondRead, Peek, Setup, CreateSession, JoinSession, Attached,
           SetupRefused, WriterFails, EnterLoop, Loop, Input, InputRefused, InputFails,
           LoopRejects, Resize, FileList, LoopIgnores, ClientLeaves, ObserveToken,
           HeartbeatTimeout, Failure, Disconnected, CleanUp,
           Environment, ClientSends, ClientGone, SharedEnds, ForceRemoved, StopSignal, vars
<1>1. ASSUME UNCHANGED ready, sess' \in {sess, "none"}, pc' \in Unready => pc \in Unready,
             pc \in Unready => UNCHANGED effects, "input" \in effects' => CanWrite
      PROVE  ReadyInv'
    BY <1>0, <1>1 DEF ReadyInv, Honest, CanWrite
<1>2. CASE Login \/ Handshake \/ SetupRefused \/ WriterFails \/ EnterLoop
    <2>1. UNCHANGED <<ready, sess, effects>>
        BY <1>2 DEF Login, Open, NoAuthNeeded, Misconfigured, RateLimited, WithinRate,
                    LoginUnexpected, LoginUnreadable, LoginAbandoned, LoginRefused, LoggedIn,
                    Handshake, SizeRejected, HandshakeFails, FirstIsResize, FirstIsJoin,
                    FirstIsOther, SecondRead, Peek, SetupRefused, WriterFails, EnterLoop,
                    server, talk
    <2>2. pc \in Unready \/ pc' \notin Unready
        BY <1>2 DEF Login, Open, NoAuthNeeded, Misconfigured, RateLimited, WithinRate,
                    LoginUnexpected, LoginUnreadable, LoginAbandoned, LoginRefused, LoggedIn,
                    Handshake, SizeRejected, HandshakeFails, FirstIsResize, FirstIsJoin,
                    FirstIsOther, SecondRead, Peek, SetupRefused, WriterFails, EnterLoop,
                    GoesTo, Unready, Early
    <2> QED
        BY <1>1, <2>1, <2>2 DEF ReadyInv
<1>3. CASE CreateSession \/ JoinSession
    <2>1. /\ ready' = [session |-> "own", size |-> hs.size, pty |-> hs.size, readonly |-> FALSE]
             \/ ready' = [session |-> "shared", size |-> hs.size, pty |-> "theirs",
                          readonly |-> ~CanWrite]
          /\ sess' = ready'.session /\ pc = "setup" /\ pc' = "attached" /\ UNCHANGED effects
        BY <1>3 DEF CreateSession, JoinSession, Attached, GoesTo, CanWrite
    <2>2. CanWrite' <=> CanWrite
        BY <1>0 DEF CanWrite
    <2>3. effects' = {} /\ pc' \notin Unready
        BY <2>1 DEF ReadyInv, Unready, Early
    <2>4. /\ sess' = ready'.session
          /\ ready'.readonly => ~CanWrite
          /\ ~ready'.readonly /\ ~CanWrite => ready'.session = "own"
          /\ ready'.size # ready'.pty => ready'.session = "shared"
        <3>1. sess' = ready'.session
            BY <2>1
        <3>2. CASE ready' = [session |-> "own", size |-> hs.size, pty |-> hs.size,
                             readonly |-> FALSE]
            <4>1. /\ ready'.session = "own" /\ ready'.readonly = FALSE
                  /\ ready'.size = ready'.pty
                BY <3>2
            <4> QED
                BY <3>1, <4>1
        <3>3. CASE ready' = [session |-> "shared", size |-> hs.size, pty |-> "theirs",
                             readonly |-> ~CanWrite]
            <4>1. ready'.session = "shared" /\ ready'.readonly = ~CanWrite
                BY <3>3
            <4>2. CanWrite \in BOOLEAN
                BY DEF CanWrite
            <4> QED
                BY <3>1, <4>1, <4>2
        <3> QED
            BY <2>1, <3>2, <3>3
    <2> QED
        BY <2>2, <2>3, <2>4 DEF ReadyInv, Honest
<1>4. CASE Input
    <2>1. CanWrite /\ pc' \notin Unready /\ pc \notin Unready /\ UNCHANGED <<ready, sess>>
        BY <1>4 DEF Input, GoesTo, Unready, Early, server
    <2> QED
        BY <1>1, <2>1
<1>5. CASE (Loop /\ ~Input) \/ HeartbeatTimeout \/ CleanUp
    <2>1. UNCHANGED ready /\ sess' \in {sess, "none"}
        BY <1>5 DEF Loop, InputRefused, InputFails, LoopRejects, Resize, FileList, LoopIgnores,
                    ClientLeaves, ObserveToken, HeartbeatTimeout, CleanUp, server, talk
    <2>2. pc \notin Unready /\ pc' \notin Unready
        BY <1>5 DEF Loop, InputRefused, InputFails, LoopRejects, Resize, FileList, LoopIgnores,
                    ClientLeaves, ObserveToken, HeartbeatTimeout, CleanUp, GoesTo, LeavesLoop,
                    Unready, Early
    <2>3. effects' \subseteq effects \union {"refused", "listing"}
        BY <1>5 DEF Loop, InputRefused, InputFails, LoopRejects, Resize, FileList, LoopIgnores,
                    ClientLeaves, ObserveToken, HeartbeatTimeout, CleanUp, talk
    <2> QED
        BY <1>1, <2>1, <2>2, <2>3 DEF ReadyInv
<1>6. CASE Failure \/ Disconnected
    <2>1. UNCHANGED <<ready, sess, effects>> /\ pc' \notin Unready
        BY <1>6 DEF Failure, Disconnected, Ends, GoesTo, Unready, Early, server, talk
    <2> QED
        BY <1>1, <2>1 DEF ReadyInv
<1>7. CASE Environment \/ UNCHANGED vars
    <2>1. UNCHANGED <<pc, ready, sess, effects>>
        BY <1>7 DEF Environment, ClientSends, ClientGone, SharedEnds, ForceRemoved, StopSignal,
                    vars, server, talk
    <2> QED
        BY <1>1, <2>1 DEF ReadyInv
<1> QED
    BY <1>2, <1>3, <1>4, <1>5, <1>6, <1>7 DEF Next, Handler, Setup

\* READY is right about the session, about write access that it denies, and about a
\* terminal that was created for the client (create_or_join_session, can_write).
THEOREM ReadyTellsTheTruth == Spec => []ReadyIsHonest
<1>1. Init => ReadyInv
    BY DEF Init, ReadyInv, Honest
<1>2. ReadyInv => ReadyIsHonest
    BY DEF ReadyInv, Honest, ReadyIsHonest
<1> QED
    BY <1>1, <1>2, ReadyStep, PTL DEF Spec
--------------------------------------------------------------------------------
(* The audit events.                                                       *)

Unattached == Early \union {"first", "second", "peek", "setup"}
Attendance == {"attached", "loop", "leaving"}

Opened  == Count(events, "opened")
Closed  == Count(events, "closed")
Started == Count(events, "session_started")
Ended   == Count(events, "session_ended")

\* What was logged, by how far the handler got.
Chapters ==
    /\ pc \in Phases /\ events \in Seq(Events)
    /\ {Opened, Closed, Started, Ended} \subseteq Nat
    /\ (pc = "opening") <=> (events = <<>>)
    /\ events # <<>> => Head(events) = "opened" /\ Opened = 1
    /\ Closed = IF pc = "closed" THEN 1 ELSE 0
    /\ pc = "closed" => Last(events) = "closed"
    /\ pc \in Unattached => Started = 0 /\ Ended = 0
    /\ pc \in Attendance => Started = 1 /\ Ended = 0
    /\ Ended <= Started
    /\ (sess # "none") <=> Ended < Started
    /\ pc = "closing" /\ Ended < Started => reason = "io" /\ Last(events) = "error"
    /\ pc = "closed" /\ Ended < Started => reason = "io" /\ events[Len(events) - 1] = "error"

\* One more event is counted once.
LEMMA CountAppend ==
    ASSUME NEW S, NEW q \in Seq(S), NEW e \in S, NEW x
    PROVE  /\ Count(q, x) \in Nat
           /\ Count(Append(q, e), x) = IF x = e THEN Count(q, x) + 1 ELSE Count(q, x)
<1> DEFINE h == Append(q, e)
           n == Len(q) + 1
           At(s) == {i \in DOMAIN s : s[i] = x}
<1>1. /\ DOMAIN h = 1..n /\ DOMAIN q = 1..Len(q) /\ Len(q) \in Nat
      /\ h[n] = e /\ \A i \in 1..Len(q) : h[i] = q[i]
    OBVIOUS
<1> HIDE DEF h
<1>2. At(h) = IF x = e THEN At(q) \union {n} ELSE At(q)
    BY <1>1
<1>3. n \notin At(q)
    BY <1>1
<1>4. IsFiniteSet(At(q))
    <2>1. At(q) \in SUBSET (1..Len(q))
        BY <1>1
    <2>2. IsFiniteSet(1..Len(q))
        BY <1>1, FS_Interval
    <2> QED
        BY <2>1, <2>2, FS_Subset
<1> HIDE DEF At
<1>5. /\ Cardinality(At(q)) \in Nat
      /\ Cardinality(At(h)) = IF x = e THEN Cardinality(At(q)) + 1 ELSE Cardinality(At(q))
    BY <1>2, <1>3, <1>4, FS_AddElement, FS_CardinalityType
<1> QED
    BY <1>5 DEF h, At, Count

\* What a logged event does to the story (log_event).
LEMMA StoryGrows ==
    ASSUME NEW e \in Events, Logs(e), events \in Seq(Events)
    PROVE  /\ events' \in Seq(Events) /\ events' # <<>>
           /\ Head(events') = IF events = <<>> THEN e ELSE Head(events)
           /\ Last(events') = e
           /\ events # <<>> => events'[Len(events') - 1] = Last(events)
           /\ Opened' = Opened + (IF e = "opened" THEN 1 ELSE 0)
           /\ Closed' = Closed + (IF e = "closed" THEN 1 ELSE 0)
           /\ Started' = Started + (IF e = "session_started" THEN 1 ELSE 0)
           /\ Ended' = Ended + (IF e = "session_ended" THEN 1 ELSE 0)
           /\ {Opened, Closed, Started, Ended} \subseteq Nat
<1>1. events' = Append(events, e)
    BY DEF Logs
<1>2. /\ events' \in Seq(Events) /\ Len(events') = Len(events) + 1 /\ Len(events) \in Nat
      /\ events'[Len(events) + 1] = e /\ \A i \in 1..Len(events) : events'[i] = events[i]
    BY <1>1
<1>3. events' # <<>> /\ Last(events') = e
    BY <1>2 DEF Last
<1>4. Head(events') = IF events = <<>> THEN e ELSE Head(events)
    BY <1>1, <1>2
<1>5. events # <<>> => events'[Len(events') - 1] = Last(events)
    BY <1>2 DEF Last
<1>6. \A x : Count(events, x) \in Nat
             /\ Count(events', x) = IF x = e THEN Count(events, x) + 1 ELSE Count(events, x)
    BY <1>1, CountAppend
<1>7. ASSUME NEW x
      PROVE  Count(events, x) \in Nat
             /\ Count(events', x) = Count(events, x) + (IF e = x THEN 1 ELSE 0)
    BY <1>6
<1>8. /\ Opened' = Opened + (IF e = "opened" THEN 1 ELSE 0)
      /\ Closed' = Closed + (IF e = "closed" THEN 1 ELSE 0)
      /\ Started' = Started + (IF e = "session_started" THEN 1 ELSE 0)
      /\ Ended' = Ended + (IF e = "session_ended" THEN 1 ELSE 0)
      /\ {Opened, Closed, Started, Ended} \subseteq Nat
    BY <1>7 DEF Opened, Closed, Started, Ended
<1> QED
    BY <1>2, <1>3, <1>4, <1>5, <1>8

\* Neither the ends of the connection nor those of a session.
Remarks == {"auth_success", "auth_failure", "error"}

\* From one phase to the next without a session's beginning or end.
Onward ==
    /\ UNCHANGED sess
    /\ \/ pc \in Unattached \ {"opening"} /\ pc' \in (Unattached \ {"opening"}) \union {"failed", "closing"}
       \/ pc = "attached" /\ pc' = "failed"
       \/ pc \in Attendance /\ pc' \in {"loop", "leaving"}
       \/ UNCHANGED <<pc, reason>> /\ pc \notin {"opening", "closing", "closed"}

\* Such a step keeps the story, with a remark or without.
LEMMA StoryGoesOn ==
    ASSUME Chapters, Onward, (\E e \in Remarks : Logs(e)) \/ UNCHANGED events
    PROVE  Chapters'
<1> USE DEF Chapters, Onward, Unattached, Attendance, Early, Phases
<1>1. CASE UNCHANGED events
    <2>1. UNCHANGED <<Opened, Closed, Started, Ended>>
        BY <1>1 DEF Opened, Closed, Started, Ended
    <2> QED
        BY <1>1, <2>1
<1>2. CASE \E e \in Remarks : Logs(e)
    <2>1. PICK e \in Remarks : Logs(e)
        BY <1>2
    <2>2. e \in Events
        BY DEF Remarks, Events
    <2>3. /\ events' \in Seq(Events) /\ events' # <<>> /\ events # <<>>
          /\ Head(events') = "opened"
          /\ UNCHANGED <<Opened, Closed, Started, Ended>>
        BY <2>1, <2>2, StoryGrows DEF Remarks
    <2> QED
        BY <2>3
<1> QED
    BY <1>1, <1>2

\* A step in which nothing of this happens.
LEMMA StoryRests ==
    ASSUME Chapters, UNCHANGED <<events, pc, reason, sess>>
    PROVE  Chapters'
<1>1. UNCHANGED <<Opened, Closed, Started, Ended>>
    BY DEF Opened, Closed, Started, Ended
<1> QED
    BY <1>1 DEF Chapters

\* The beginning of the connection.
LEMMA OpenTold == Chapters /\ Open => Chapters'
<1> SUFFICES ASSUME Chapters, Open PROVE Chapters'
    OBVIOUS
<1>1. pc = "opening" /\ pc' = "auth" /\ Logs("opened") /\ "opened" \in Events
      /\ UNCHANGED <<reason, sess>>
    BY DEF Open, GoesTo, Events, server
<1>2. events \in Seq(Events) /\ events = <<>>
    BY <1>1 DEF Chapters
<1>3. Opened = 0 /\ Closed = 0 /\ Started = 0 /\ Ended = 0
    <2>1. \A x : {i \in DOMAIN <<>> : <<>>[i] = x} = {}
        OBVIOUS
    <2> QED
        BY <1>2, <2>1, FS_EmptySet DEF Opened, Closed, Started, Ended, Count
<1>4. /\ events' \in Seq(Events) /\ events' # <<>> /\ Head(events') = "opened"
      /\ Opened' = 1 /\ Closed' = 0 /\ Started' = 0 /\ Ended' = 0
    BY <1>1, <1>2, <1>3, StoryGrows
<1> QED
    BY <1>1, <1>4 DEF Chapters, Unattached, Attendance, Early, Phases

\* The session's beginning and its end.
LEMMA SessionTold == Chapters /\ (CreateSession \/ JoinSession \/ CleanUp) => Chapters'
<1> SUFFICES ASSUME Chapters, CreateSession \/ JoinSession \/ CleanUp PROVE Chapters'
    OBVIOUS
<1> USE DEF Chapters, Unattached, Attendance, Early, Phases
<1>0. events \in Seq(Events)
    OBVIOUS
<1>1. CASE CreateSession \/ JoinSession
    <2>1. /\ pc = "setup" /\ pc' = "attached" /\ UNCHANGED reason
          /\ Logs("session_started") /\ "session_started" \in Events
          /\ sess' # "none"
        BY <1>1 DEF CreateSession, JoinSession, Attached, GoesTo, Events
    <2>2. /\ events' \in Seq(Events) /\ events' # <<>> /\ events # <<>>
          /\ Head(events') = "opened"
          /\ UNCHANGED <<Opened, Closed, Ended>> /\ Started' = Started + 1
        BY <1>0, <2>1, StoryGrows
    <2> QED
        BY <2>1, <2>2
<1>2. CASE CleanUp
    <2>1. /\ pc = "leaving" /\ pc' = "closing" /\ UNCHANGED reason
          /\ Logs("session_ended") /\ "session_ended" \in Events
          /\ sess' = "none"
        BY <1>2 DEF CleanUp, GoesTo, Events
    <2>2. /\ events' \in Seq(Events) /\ events' # <<>> /\ events # <<>>
          /\ Head(events') = "opened"
          /\ UNCHANGED <<Opened, Closed, Started>> /\ Ended' = Ended + 1
        BY <1>0, <2>1, StoryGrows
    <2> QED
        BY <2>1, <2>2
<1> QED
    BY <1>1, <1>2

\* The end of the connection, after an error or without.
LEMMA EndTold == Chapters /\ (Failure \/ Disconnected) => Chapters'
<1> SUFFICES ASSUME Chapters, Failure \/ Disconnected PROVE Chapters'
    OBVIOUS
<1> USE DEF Chapters, Unattached, Attendance, Early, Phases
<1>0. events \in Seq(Events)
    OBVIOUS
<1>1. CASE Failure
    <2>1. /\ pc = "failed" /\ pc' = "closing" /\ reason' = "io"
          /\ Logs("error") /\ "error" \in Events /\ UNCHANGED sess
        BY <1>1 DEF Failure, Ends, Events, server
    <2>2. /\ events' \in Seq(Events) /\ events' # <<>> /\ events # <<>>
          /\ Head(events') = "opened" /\ Last(events') = "error"
          /\ UNCHANGED <<Opened, Closed, Started, Ended>>
        BY <1>0, <2>1, StoryGrows
    <2> QED
        BY <2>1, <2>2
<1>2. CASE Disconnected
    <2>1. /\ pc = "closing" /\ pc' = "closed" /\ UNCHANGED reason
          /\ Logs("closed") /\ "closed" \in Events /\ UNCHANGED sess
        BY <1>2 DEF Disconnected, GoesTo, Events, server
    <2>2. /\ events' \in Seq(Events) /\ events' # <<>> /\ events # <<>>
          /\ Head(events') = "opened" /\ Last(events') = "closed"
          /\ events'[Len(events') - 1] = Last(events)
          /\ UNCHANGED <<Opened, Started, Ended>> /\ Closed' = Closed + 1
        BY <1>0, <2>1, StoryGrows
    <2> QED
        BY <2>1, <2>2
<1> QED
    BY <1>1, <1>2

\* The rest of the handler.
LEMMA HandlerTold ==
    ASSUME Chapters,
           \/ Login \/ Handshake \/ Setup \/ Loop \/ HeartbeatTimeout
    PROVE  Chapters'
<1>1. CASE Open \/ CreateSession \/ JoinSession
    BY <1>1, OpenTold, SessionTold
<1> DEFINE InLogin == Login /\ ~Open
           InSetup == SetupRefused \/ WriterFails \/ EnterLoop
           InLoop  == Loop \/ HeartbeatTimeout
<1>2. CASE InLogin
    <2>1. Onward
        BY <1>2 DEF Login, NoAuthNeeded, Misconfigured, RateLimited, WithinRate,
                    LoginUnexpected, LoginUnreadable, LoginAbandoned, LoginRefused, LoggedIn,
                    SaysAndEnds, Ends, GoesTo, Onward, Unattached, Early, server
    <2>2. (\E e \in Remarks : Logs(e)) \/ UNCHANGED events
        BY <1>2 DEF Login, NoAuthNeeded, Misconfigured, RateLimited, WithinRate,
                    LoginUnexpected, LoginUnreadable, LoginAbandoned, LoginRefused, LoggedIn,
                    Remarks
    <2> QED
        BY <2>1, <2>2, StoryGoesOn
<1>3. CASE Handshake
    <2>1. Onward
        BY <1>3 DEF Handshake, SizeRejected, HandshakeFails, FirstIsResize, FirstIsJoin,
                    FirstIsOther, SecondRead, Peek, Ends, GoesTo, Onward, Unattached, Early,
                    server
    <2>2. (\E e \in Remarks : Logs(e)) \/ UNCHANGED events
        BY <1>3 DEF Handshake, SizeRejected, HandshakeFails, FirstIsResize, FirstIsJoin,
                    FirstIsOther, SecondRead, Peek, Remarks
    <2> QED
        BY <2>1, <2>2, StoryGoesOn
<1>4. CASE InSetup
    <2>1. Onward
        BY <1>4 DEF SetupRefused, WriterFails, EnterLoop, Ends, GoesTo, Onward,
                    Unattached, Attendance, Early, server
    <2>2. UNCHANGED events
        BY <1>4 DEF SetupRefused, WriterFails, EnterLoop
    <2> QED
        BY <2>1, <2>2, StoryGoesOn
<1>5. CASE InLoop
    <2>1. Onward
        BY <1>5 DEF Loop, Input, InputRefused, InputFails, LoopRejects, Resize, FileList,
                    LoopIgnores, ClientLeaves, ObserveToken, HeartbeatTimeout,
                    GoesTo, LeavesLoop, Onward, Attendance, server
    <2>2. (\E e \in Remarks : Logs(e)) \/ UNCHANGED events
        BY <1>5 DEF Loop, Input, InputRefused, InputFails, LoopRejects, Resize, FileList,
                    LoopIgnores, ClientLeaves, ObserveToken, HeartbeatTimeout, Remarks
    <2> QED
        BY <2>1, <2>2, StoryGoesOn
<1> QED
    BY <1>1, <1>2, <1>3, <1>4, <1>5 DEF Setup

\* However the connection goes, the events given to AuditLogger::log_event tell of its
\* beginning, once and first, and its end, once and last, and of the end of a session
\* that began unless an I/O error was logged instead (handle_terminal_session,
\* run_session).
THEOREM AuditStory == Spec => []AuditTellsTheStory
<1>1. Init => Chapters
    <2> SUFFICES ASSUME Init PROVE Chapters
        OBVIOUS
    <2>1. pc = "opening" /\ events = <<>> /\ sess = "none"
        BY DEF Init
    <2>2. \A x : {i \in DOMAIN <<>> : <<>>[i] = x} = {}
        OBVIOUS
    <2>3. Opened = 0 /\ Closed = 0 /\ Started = 0 /\ Ended = 0
        BY <2>1, <2>2, FS_EmptySet DEF Opened, Closed, Started, Ended, Count
    <2> QED
        BY <2>1, <2>3 DEF Chapters, Unattached, Attendance, Early, Phases
<1>2. Chapters /\ [Next]_vars => Chapters'
    <2> SUFFICES ASSUME Chapters, [Next]_vars PROVE Chapters'
        OBVIOUS
    <2>1. CASE Login \/ Handshake \/ Setup \/ Loop \/ HeartbeatTimeout
        BY <2>1, HandlerTold
    <2>2. CASE CleanUp \/ Failure \/ Disconnected
        BY <2>2, SessionTold, EndTold
    <2>3. CASE Environment \/ UNCHANGED vars
        <3>1. UNCHANGED <<events, pc, reason, sess>>
            BY <2>3 DEF Environment, ClientSends, ClientGone, SharedEnds, ForceRemoved,
                        StopSignal, vars, server
        <3> QED
            BY <3>1, StoryRests
    <2> QED
        BY <2>1, <2>2, <2>3 DEF Next, Handler
<1>3. Chapters => AuditTellsTheStory
    BY DEF Chapters, AuditTellsTheStory, Opened, Closed, Started, Ended
<1> QED
    BY <1>1, <1>2, <1>3, PTL DEF Spec
================================================================================
