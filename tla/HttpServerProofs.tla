--------------------------- MODULE HttpServerProofs ----------------------------
(***************************************************************************)
(* For any number of requests and connections and any budget: what the     *)
(* server lets in, whatever file and command line say together.            *)
(*                                                                         *)
(* Who is in was let in under the configuration that is in force now, and  *)
(* that configuration was validated after the overrides.  So the invariant *)
(* says that the configuration is valid from "configured" on, that nobody  *)
(* is served before it is final, and that a validator belongs to a method. *)
(***************************************************************************)
EXTENDS HttpServer, TLAPS

Early == phase \in {"starting", "configured", "binding"}
Running == phase \in {"configured", "binding", "serving", "stopped"}

OpenTo(c) == \/ file.method # "none" /\ built /\ c = "right"
             \/ file.method = "none" /\ (file.loopback \/ file.allow)

FilesOpen == file.files /\ (file.method = "none" => file.filesAllow)

In(r) == req[r].pc \in {"authorized", "handled"} \/ req[r].answer \in {"ok", "ok with details"}

\* A request that was let in had the right to.
LetIn(r) ==
    In(r) => \/ req[r].route \in Public
             \/ OpenTo(req[r].sent) /\ (req[r].route \in FileRoutes => FilesOpen)

\* A terminal is open to its client.
LetTerminal(w) == InTerminal(w) => OpenTo(sock[w].sent)

Quiet == /\ \A r \in Requests : ~In(r)
         /\ \A w \in Sockets : ~InTerminal(w)

Inv == /\ TypeOK
       /\ Running => Valid(file)
       /\ Early => Quiet
       /\ phase \in {"starting", "configured"} => ~built
       /\ built => file.method \in {"basic", "token"}
       /\ \A r \in Requests : LetIn(r)
       /\ \A w \in Sockets : LetTerminal(w)

--------------------------------------------------------------------------------
\* The overrides make a configuration of a configuration (apply_overrides).
LEMMA OverrideType ==
    ASSUME NEW c \in Config, NEW a \in Args
    PROVE  Override(c, a) \in Config
BY DEF Override, Config, Args

\* A valid configuration that lets a client in is open to it (validate, create_router).
LEMMA AuthorizedIsOpen ==
    ASSUME Valid(file), file \in Config, built => file.method \in {"basic", "token"},
           NEW c \in Credentials, Authorized(c)
    PROVE  OpenTo(c)
BY DEF Valid, Authorized, OpenTo, Config

\* Who is open to a client has authorized it (api_auth_middleware).
LEMMA OpenIsAuthorized ==
    ASSUME NEW c, OpenTo(c)
    PROVE  Authorized(c)
BY DEF Authorized, OpenTo

\* Nobody is in before anything has happened.
LEMMA InitInv == Init => Inv
<1> SUFFICES ASSUME Init PROVE Inv
    OBVIOUS
<1>1. TypeOK
    <2>1. budget \in 0..MaxBudget
        BY MaxBudgetAssumption DEF Init
    <2>2. req \in [Requests -> Request]
        <3>1. [pc |-> "new", route |-> "none", sent |-> "wrong", answer |-> "none"] \in Request
            BY DEF Request, Credentials
        <3> QED
            BY <3>1 DEF Init
    <2>3. sock \in [Sockets -> Socket]
        <3>1. [pc |-> "new", sent |-> "wrong"] \in Socket
            BY DEF Socket, Credentials
        <3> QED
            BY <3>1 DEF Init
    <2> QED
        BY <2>1, <2>2, <2>3 DEF Init, TypeOK
<1>2. Quiet
    BY DEF Init, Quiet, In, InTerminal
<1> QED
    BY <1>1, <1>2 DEF Init, Inv, Quiet, LetIn, LetTerminal, Running

--------------------------------------------------------------------------------
\* An answered request keeps its route and credentials (the middleware's answers).
LEMMA AnswersFields ==
    ASSUME NEW r \in Requests, req \in [Requests -> Request],
           NEW answer \in {"ok", "too many requests", "cut"}, Answers(r, answer)
    PROVE  /\ req' \in [Requests -> Request]
           /\ req'[r].pc = "answered" /\ req'[r].answer = answer
           /\ req'[r].route = req[r].route /\ req'[r].sent = req[r].sent
           /\ \A o \in Requests \ {r} : req'[o] = req[o]
<1> DEFINE h == [req[r] EXCEPT !.pc = "answered", !.answer = answer]
<1>1. req[r] \in Request
    OBVIOUS
<1>2. /\ h \in Request
      /\ h.pc = "answered" /\ h.answer = answer
      /\ h.route = req[r].route /\ h.sent = req[r].sent
    BY <1>1 DEF Request
<1>3. req' = [req EXCEPT ![r] = h]
    BY <1>1 DEF Answers, Request
<1> HIDE DEF h
<1> QED
    BY <1>2, <1>3

\* A request that is past the limit keeps its route and credentials.
LEMMA HandledFields ==
    ASSUME NEW r \in Requests, req \in [Requests -> Request],
           req' = [req EXCEPT ![r].pc = "handled"]
    PROVE  /\ req' \in [Requests -> Request]
           /\ req'[r].pc = "handled" /\ req'[r].answer = req[r].answer
           /\ req'[r].route = req[r].route /\ req'[r].sent = req[r].sent
           /\ \A o \in Requests \ {r} : req'[o] = req[o]
BY DEF Request

\* A request nobody touched is in as it was, under the same configuration.
LEMMA RequestKept ==
    ASSUME NEW r \in Requests, LetIn(r), req'[r] = req[r], UNCHANGED <<file, built>>
    PROVE  LetIn(r)'
BY DEF LetIn, In, OpenTo, FilesOpen

\* A request in progress stays let in until its answer.
LEMMA RequestMoves ==
    ASSUME NEW r \in Requests, LetIn(r), InProgress(r), UNCHANGED <<file, built>>,
           req'[r].route = req[r].route, req'[r].sent = req[r].sent
    PROVE  LetIn(r)'
BY DEF LetIn, In, InProgress, OpenTo, FilesOpen

\* A connection nobody touched, or that moves on, is as open as it was.
LEMMA SocketMoves ==
    ASSUME NEW w \in Sockets, LetTerminal(w), UNCHANGED <<file, built>>,
           InTerminal(w)' => InTerminal(w), sock'[w].sent = sock[w].sent
    PROVE  LetTerminal(w)'
BY DEF LetTerminal, OpenTo

\* All connections are as open as they were when no handler moved.
LEMMA SocketsKept ==
    ASSUME \A w \in Sockets : LetTerminal(w), UNCHANGED <<file, built, sock>>
    PROVE  \A w \in Sockets : LetTerminal(w)'
BY DEF LetTerminal, InTerminal, OpenTo

\* All requests are as let in as they were when none moved.
LEMMA RequestsKept ==
    ASSUME \A r \in Requests : LetIn(r), UNCHANGED <<file, built, req>>
    PROVE  \A r \in Requests : LetIn(r)'
BY DEF LetIn, In, OpenTo, FilesOpen

--------------------------------------------------------------------------------
\* load_config: what runs was validated as it runs.
LEMMA LoadConfigKeeps == Inv /\ LoadConfig => Inv'
<1> SUFFICES ASSUME Inv, LoadConfig PROVE Inv'
    OBVIOUS
<1> USE DEF Inv
<1>1. file' \in Config
    BY OverrideType DEF LoadConfig, TypeOK
<1>2. TypeOK'
    BY <1>1 DEF LoadConfig, TypeOK, NoArgs, Args, stop
<1>3. (Running => Valid(file))'
    BY DEF LoadConfig, Running
<1>4. Quiet'
    BY DEF LoadConfig, Early, Quiet, In, InTerminal
<1>5. (built => file.method \in {"basic", "token"})'
    BY DEF LoadConfig
<1>6. phase' \in {"configured", "exited"} /\ ~built'
    BY DEF LoadConfig
<1> QED
    BY <1>2, <1>3, <1>4, <1>5, <1>6 DEF Quiet, LetIn, LetTerminal

\* start_server: only a method that has a validator builds one.
LEMMA StartServerKeeps == Inv /\ StartServer => Inv'
<1> SUFFICES ASSUME Inv, StartServer PROVE Inv'
    OBVIOUS
<1> USE DEF Inv
<1>1. TypeOK'
    BY DEF StartServer, TypeOK, stop
<1>2. Quiet'
    BY DEF StartServer, Early, Quiet, In, InTerminal
<1>3. Valid(file)'
    BY DEF StartServer, Running, Valid
<1>4. (built => file.method \in {"basic", "token"})' /\ phase' = "binding"
    BY DEF StartServer
<1> QED
    BY <1>1, <1>2, <1>3, <1>4 DEF Quiet, LetIn, LetTerminal

\* main goes on or exits, and nothing else moves.
LEMMA PhaseMoves ==
    ASSUME Inv, UNCHANGED <<file, args, built, stop, budget, req, sock>>,
           phase' \in {"serving", "stopped", "exited"},
           phase' # "exited" => Running
    PROVE  Inv'
<1> USE DEF Inv
<1>1. TypeOK'
    BY DEF TypeOK, stop
<1>2. (Running => Valid(file))'
    BY DEF Running, Valid
<1> QED
    BY <1>1, <1>2, RequestsKept, SocketsKept DEF Early

\* The stop: signals, the token, and what main cuts when it returns.
LEMMA StopKeeps == Inv /\ Stop => Inv'
<1> SUFFICES ASSUME Inv, Stop PROVE Inv'
    OBVIOUS
<1> USE DEF Inv
<1>1. ASSUME UNCHANGED <<start, budget, req, sock>>, TypeOK' PROVE Inv'
    <2>1. UNCHANGED <<phase, file, built, req, sock>>
        BY <1>1 DEF start
    <2>2. (Early => Quiet)'
        BY <2>1 DEF Early, Quiet, In, InTerminal
    <2>3. (Running => Valid(file))'
        BY <2>1 DEF Running, Valid
    <2> QED
        BY <1>1, <2>1, <2>2, <2>3, RequestsKept, SocketsKept
<1>2. CASE Listen
    BY <1>1, <1>2 DEF Listen, TypeOK, start
<1>3. CASE Signal /\ listening
    BY <1>1, <1>3 DEF Signal, TypeOK, start
<1>4. CASE Signal /\ ~listening
    <2>1. TypeOK'
        BY <1>4 DEF Signal, Exits, TypeOK
    <2>2. phase' = "exited" /\ UNCHANGED <<file, built, req, sock>>
        BY <1>4 DEF Signal, Exits
    <2> QED
        BY <2>1, <2>2, RequestsKept, SocketsKept DEF Early, Running
<1>5. CASE Notice
    BY <1>1, <1>5 DEF Notice, TypeOK, start
<1>6. CASE ServeEnds
    BY <1>6, PhaseMoves DEF ServeEnds, Running
<1>7. CASE MainReturns
    <2>1. sock' \in [Sockets -> Socket]
        BY <1>7 DEF MainReturns, TypeOK, Socket
    <2>2. TypeOK'
        BY <1>7, <2>1 DEF MainReturns, Exits, TypeOK, stop
    <2>3. phase' = "exited" /\ UNCHANGED <<file, built, req>>
        BY <1>7 DEF MainReturns, Exits
    <2>4. ASSUME NEW w \in Sockets PROVE LetTerminal(w)'
        <3>1. InTerminal(w)' => InTerminal(w)
            BY <1>7 DEF MainReturns, InTerminal, TypeOK, Socket
        <3>2. sock'[w].sent = sock[w].sent
            BY <1>7 DEF MainReturns, TypeOK, Socket
        <3> QED
            BY <2>3, <3>1, <3>2, SocketMoves
    <2> QED
        BY <2>2, <2>3, <2>4, RequestsKept DEF Early, Running
<1> QED
    BY <1>2, <1>3, <1>4, <1>5, <1>6, <1>7 DEF Stop

\* main up to serve.
LEMMA StartKeeps == Inv /\ Start => Inv'
<1> SUFFICES ASSUME Inv, Start PROVE Inv'
    OBVIOUS
<1>1. CASE StandaloneOrBadInput
    BY <1>1, PhaseMoves DEF StandaloneOrBadInput, Exits
<1>2. CASE LoadConfig
    BY <1>2, LoadConfigKeeps
<1>3. CASE StartFails
    BY <1>3, PhaseMoves DEF StartFails, Exits
<1>4. CASE StartServer
    BY <1>4, StartServerKeeps
<1>5. CASE Bind
    BY <1>5, PhaseMoves DEF Bind, Running
<1> QED
    BY <1>1, <1>2, <1>3, <1>4, <1>5 DEF Start

--------------------------------------------------------------------------------
\* A step of one request keeps the invariant when it keeps that request's part.
LEMMA RequestStep ==
    ASSUME Inv, NEW r \in Requests, ~Early,
           UNCHANGED <<start, stop, sock>>, budget' \in 0..MaxBudget,
           req' \in [Requests -> Request],
           \A o \in Requests \ {r} : req'[o] = req[o],
           LetIn(r)'
    PROVE  Inv'
<1> USE DEF Inv
<1>1. UNCHANGED <<phase, file, args, built>>
    BY DEF start
<1>2. TypeOK'
    BY <1>1 DEF TypeOK, stop
<1>3. \A o \in Requests : LetIn(o)'
    BY <1>1, RequestKept
<1>4. (Running => Valid(file))' /\ ~Early'
    BY <1>1 DEF Running, Valid, Early
<1> QED
    BY <1>1, <1>2, <1>3, <1>4, SocketsKept

\* A step of one connection keeps the invariant when it keeps that connection's part.
LEMMA SocketStep ==
    ASSUME Inv, NEW w \in Sockets, ~Early,
           UNCHANGED <<start, stop, req>>, budget' \in 0..MaxBudget,
           sock' \in [Sockets -> Socket],
           \A o \in Sockets \ {w} : sock'[o] = sock[o],
           LetTerminal(w)'
    PROVE  Inv'
<1> USE DEF Inv
<1>1. UNCHANGED <<phase, file, args, built>>
    BY DEF start
<1>2. TypeOK'
    BY <1>1 DEF TypeOK, stop
<1>3. \A o \in Sockets : LetTerminal(o)'
    BY <1>1, SocketMoves DEF InTerminal
<1>4. (Running => Valid(file))' /\ ~Early'
    BY <1>1 DEF Running, Valid, Early
<1> QED
    BY <1>1, <1>2, <1>3, <1>4, RequestsKept

\* Requests and connections in progress belong to a server that got to serve.
LEMMA BusyIsLate ==
    ASSUME Inv
    PROVE  /\ \A r \in Requests : InProgress(r) => ~Early
           /\ \A w \in Sockets : InTerminal(w) => ~Early
BY DEF Inv, Quiet, In, InProgress

\* The API's answers: a protected route is handled only for who is authorized.
LEMMA HandleKeeps ==
    ASSUME Inv, NEW r \in Requests, Handle(r)
    PROVE  Inv'
<1>0. req \in [Requests -> Request] /\ budget \in 0..MaxBudget /\ file \in Config
    BY DEF Inv, TypeOK
<1>1. CASE GetPublic(r)
    <2>1. PICK p \in Public, c \in Credentials :
            req' = [req EXCEPT ![r] = [pc |-> "answered", route |-> p, sent |-> c,
                              answer |-> IF p = "config" THEN ConfigAnswer ELSE "ok"]]
        BY <1>1 DEF GetPublic
    <2>2. [pc |-> "answered", route |-> p, sent |-> c,
           answer |-> IF p = "config" THEN ConfigAnswer ELSE "ok"] \in Request
        BY DEF Request, ConfigAnswer
    <2>3. /\ req' \in [Requests -> Request] /\ req'[r].route = p
          /\ \A o \in Requests \ {r} : req'[o] = req[o]
        BY <1>0, <2>1, <2>2
    <2>4. LetIn(r)'
        BY <2>3 DEF LetIn
    <2>5. ~Early /\ UNCHANGED <<start, stop, sock, budget>>
        BY <1>1 DEF GetPublic, Accepts, Early
    <2> QED
        BY <1>0, <2>3, <2>4, <2>5, RequestStep
<1>2. CASE NoRoute(r)
    <2>1. PICK p \in FileRoutes, c \in Credentials :
            req' = [req EXCEPT ![r] = [pc |-> "answered", route |-> p, sent |-> c,
                                       answer |-> "not found"]]
        BY <1>2 DEF NoRoute
    <2>2. [pc |-> "answered", route |-> p, sent |-> c, answer |-> "not found"] \in Request
        BY DEF Request, Protected
    <2>3. /\ req' \in [Requests -> Request]
          /\ req'[r].pc = "answered" /\ req'[r].answer = "not found"
          /\ \A o \in Requests \ {r} : req'[o] = req[o]
        BY <1>0, <2>1, <2>2
    <2>4. LetIn(r)'
        BY <2>3 DEF LetIn, In
    <2>5. ~Early /\ UNCHANGED <<start, stop, sock, budget>>
        BY <1>2 DEF NoRoute, Accepts, Early
    <2> QED
        BY <1>0, <2>3, <2>4, <2>5, RequestStep
<1>3. CASE Authorize(r)
    <2>1. ~Early /\ UNCHANGED <<start, stop, sock, budget>> /\ phase = "serving"
        BY <1>3 DEF Authorize, Accepts, Early
    <2>2. UNCHANGED <<file, built>>
        BY <2>1 DEF start
    <2>3. PICK p \in Protected, c \in Credentials :
            /\ p \in FileRoutes => file.files
            /\ req' = [req EXCEPT ![r] =
                 IF Authorized(c)
                 THEN [pc |-> "authorized", route |-> p, sent |-> c, answer |-> "none"]
                 ELSE [pc |-> "answered", route |-> p, sent |-> c,
                       answer |-> "unauthorized"]]
        BY <1>3 DEF Authorize
    <2>4. CASE Authorized(c)
        <3>1. [pc |-> "authorized", route |-> p, sent |-> c, answer |-> "none"] \in Request
            BY DEF Request
        <3>2. /\ req' \in [Requests -> Request]
              /\ req'[r].route = p /\ req'[r].sent = c
              /\ \A o \in Requests \ {r} : req'[o] = req[o]
            BY <1>0, <2>3, <2>4, <3>1
        <3>3. Valid(file) /\ (built => file.method \in {"basic", "token"})
            BY <2>1 DEF Inv, Running
        <3>4. OpenTo(c)
            BY <1>0, <2>4, <3>3, AuthorizedIsOpen
        <3>5. p \in FileRoutes => FilesOpen
            BY <2>3, <3>3 DEF FilesOpen, Valid
        <3>6. LetIn(r)'
            BY <2>2, <3>2, <3>4, <3>5 DEF LetIn, OpenTo, FilesOpen
        <3> QED
            BY <1>0, <2>1, <3>2, <3>6, RequestStep
    <2>5. CASE ~Authorized(c)
        <3>1. [pc |-> "answered", route |-> p, sent |-> c, answer |-> "unauthorized"]
                \in Request
            BY DEF Request
        <3>2. /\ req' \in [Requests -> Request]
              /\ req'[r].pc = "answered" /\ req'[r].answer = "unauthorized"
              /\ \A o \in Requests \ {r} : req'[o] = req[o]
            BY <1>0, <2>3, <2>5, <3>1
        <3>3. LetIn(r)'
            BY <3>2 DEF LetIn, In
        <3> QED
            BY <1>0, <2>1, <3>2, <3>3, RequestStep
    <2> QED
        BY <2>4, <2>5
<1>4. CASE Limit(r)
    <2>1. UNCHANGED <<start, stop, sock>> /\ InProgress(r)
        BY <1>4 DEF Limit, InProgress
    <2>2. ~Early
        BY <2>1, BusyIsLate
    <2>3. budget' \in 0..MaxBudget
        <3>1. CASE budget = 0
            BY <1>0, <1>4, <3>1 DEF Limit
        <3>2. CASE budget # 0
            <4>1. budget - 1 \in 0..MaxBudget
                BY <1>0, <3>2, MaxBudgetAssumption
            <4> QED
                BY <1>0, <1>4, <3>2, <4>1 DEF Limit
        <3> QED
            BY <3>1, <3>2
    <2>4. /\ req' \in [Requests -> Request]
          /\ req'[r].route = req[r].route /\ req'[r].sent = req[r].sent
          /\ \A o \in Requests \ {r} : req'[o] = req[o]
        <3>1. CASE Answers(r, "too many requests")
            BY <1>0, <3>1, AnswersFields
        <3>2. CASE req' = [req EXCEPT ![r].pc = "handled"]
            BY <1>0, <3>2, HandledFields
        <3> QED
            BY <1>4, <3>1, <3>2 DEF Limit
    <2>5. LetIn(r)'
        <3>1. LetIn(r) /\ UNCHANGED <<file, built>>
            BY <2>1 DEF Inv, start
        <3> QED
            BY <2>1, <2>4, <3>1, RequestMoves
    <2> QED
        BY <2>1, <2>2, <2>3, <2>4, <2>5, RequestStep
<1>5. CASE Answer(r) \/ Abandon(r)
    <2>1. UNCHANGED <<start, stop, sock, budget>> /\ InProgress(r)
        BY <1>5 DEF Answer, Abandon, InProgress
    <2>2. ~Early
        BY <2>1, BusyIsLate
    <2>3. Answers(r, "ok") \/ Answers(r, "cut")
        BY <1>5 DEF Answer, Abandon
    <2>4. /\ req' \in [Requests -> Request]
          /\ req'[r].route = req[r].route /\ req'[r].sent = req[r].sent
          /\ \A o \in Requests \ {r} : req'[o] = req[o]
        BY <1>0, <2>3, AnswersFields
    <2>5. LetIn(r)'
        <3>1. LetIn(r) /\ UNCHANGED <<file, built>>
            BY <2>1 DEF Inv, start
        <3> QED
            BY <2>1, <2>4, <3>1, RequestMoves
    <2> QED
        BY <1>0, <2>1, <2>2, <2>4, <2>5, RequestStep
<1> QED
    BY <1>1, <1>2, <1>3, <1>4, <1>5 DEF Handle

\* A terminal is given only to who is authorized (module Connection).
LEMMA ServeKeeps ==
    ASSUME Inv, NEW w \in Sockets, Serve(w)
    PROVE  Inv'
<1>0. sock \in [Sockets -> Socket] /\ budget \in 0..MaxBudget /\ file \in Config
    BY DEF Inv, TypeOK
<1>1. CASE OpenSocket(w)
    <2>1. ~Early /\ UNCHANGED <<start, stop, req, budget>> /\ phase = "serving"
        BY <1>1 DEF OpenSocket, Accepts, Early
    <2>2. UNCHANGED <<file, built>>
        BY <2>1 DEF start
    <2>3. PICK c \in Credentials :
            sock' = [sock EXCEPT ![w] =
                       [pc |-> IF Authorized(c) THEN "terminal" ELSE "refused", sent |-> c]]
        BY <1>1 DEF OpenSocket
    <2>4. [pc |-> IF Authorized(c) THEN "terminal" ELSE "refused", sent |-> c] \in Socket
        BY DEF Socket
    <2>5. /\ sock' \in [Sockets -> Socket] /\ sock'[w].sent = c
          /\ sock'[w].pc = IF Authorized(c) THEN "terminal" ELSE "refused"
          /\ \A o \in Sockets \ {w} : sock'[o] = sock[o]
        BY <1>0, <2>3, <2>4
    <2>6. Authorized(c) => OpenTo(c)
        BY <1>0, <2>1, AuthorizedIsOpen DEF Inv, Running
    <2>7. LetTerminal(w)'
        BY <2>2, <2>5, <2>6 DEF LetTerminal, InTerminal, OpenTo
    <2> QED
        BY <1>0, <2>1, <2>5, <2>7, SocketStep
<1>2. CASE ListOverSocket(w)
    <2>1. UNCHANGED <<start, stop, req, sock>> /\ InTerminal(w)
        BY <1>2 DEF ListOverSocket, InTerminal
    <2>2. budget' \in 0..MaxBudget
        BY <1>0, <1>2, MaxBudgetAssumption DEF ListOverSocket
    <2>3. ~Early
        BY <2>1, BusyIsLate
    <2>4. LetTerminal(w)'
        BY <2>1, SocketsKept DEF Inv, start
    <2> QED
        BY <1>0, <2>1, <2>2, <2>3, <2>4, SocketStep
<1>3. CASE LeaveTerminal(w) \/ CloseSocket(w)
    <2>1. UNCHANGED <<start, stop, req, budget>> /\ InTerminal(w)
        BY <1>3 DEF LeaveTerminal, CloseSocket, InTerminal
    <2>2. ~Early
        BY <2>1, BusyIsLate
    <2>3. \E q \in {"leaving", "closed"} : sock' = [sock EXCEPT ![w].pc = q]
        BY <1>3 DEF LeaveTerminal, CloseSocket
    <2>4. /\ sock' \in [Sockets -> Socket] /\ sock'[w].sent = sock[w].sent
          /\ \A o \in Sockets \ {w} : sock'[o] = sock[o]
        BY <1>0, <2>3 DEF Socket
    <2>5. LetTerminal(w)'
        BY <2>1, <2>4, SocketMoves DEF Inv, start
    <2> QED
        BY <1>0, <2>1, <2>2, <2>4, <2>5, SocketStep
<1> QED
    BY <1>1, <1>2, <1>3 DEF Serve

\* A window that passes refills the budget.
LEMMA WindowKeeps == Inv /\ WindowPasses => Inv'
<1> SUFFICES ASSUME Inv, WindowPasses PROVE Inv'
    OBVIOUS
<1> USE DEF Inv
<1>1. UNCHANGED <<phase, file, args, built, stop, req, sock>> /\ budget' = MaxBudget
    BY DEF WindowPasses, start
<1>2. TypeOK'
    BY <1>1, MaxBudgetAssumption DEF TypeOK, stop
<1>3. (Running => Valid(file))' /\ (Early => Quiet)'
    BY <1>1 DEF Running, Valid, Early, Quiet, In, InTerminal
<1> QED
    BY <1>1, <1>2, <1>3, RequestsKept, SocketsKept

\* A step in which nothing changes.
LEMMA StutterKeeps == Inv /\ UNCHANGED vars => Inv'
<1> SUFFICES ASSUME Inv, UNCHANGED vars PROVE Inv'
    OBVIOUS
<1> USE DEF Inv
<1>1. UNCHANGED <<phase, file, args, built, stop, budget, req, sock>>
    BY DEF vars, start
<1>2. TypeOK'
    BY <1>1 DEF TypeOK, stop
<1>3. (Running => Valid(file))' /\ (Early => Quiet)'
    BY <1>1 DEF Running, Valid, Early, Quiet, In, InTerminal
<1> QED
    BY <1>1, <1>2, <1>3, RequestsKept, SocketsKept

\* Every step of the server keeps the invariant.
LEMMA NextInv == Inv /\ [Next]_vars => Inv'
BY StartKeeps, StopKeeps, WindowKeeps, HandleKeeps, ServeKeeps, StutterKeeps DEF Next

--------------------------------------------------------------------------------
\* The inductive invariant holds in every reachable state (main, start_server, the
\* router's middleware).
THEOREM InvariantHolds == Spec => []Inv
BY InitInv, NextInv, PTL DEF Spec

\* Every state is one the program can describe: configurations stay configurations,
\* the budget stays within max_requests.
THEOREM TypesHold == Spec => []TypeOK
<1>1. Inv => TypeOK
    BY DEF Inv
<1> QED
    BY <1>1, InvariantHolds, PTL

\* Whatever file and command line say together, a terminal or a protected endpoint is
\* used only with accepted credentials or by the operator's choice (validate,
\* create_router's middleware, authenticate_client).
THEOREM NothingOpens == Spec => []NothingIsOpenByAccident
<1>1. Inv => NothingIsOpenByAccident
    BY DEF Inv, NothingIsOpenByAccident, LetIn, LetTerminal, In, OpenTo, FilesOpen
<1> QED
    BY <1>1, InvariantHolds, PTL

\* Only who was let in uses up the budget of the file endpoints (the order of
\* api_auth_middleware and file_rate_limit_middleware).
THEOREM SpendingIsAuthorized == Spec => OnlyAuthorizedSpend
<1> DEFINE Spent == budget' < budget =>
         \/ \E r \in Requests : InProgress(r) /\ req'[r] # req[r] /\ Authorized(req[r].sent)
         \/ \E w \in Sockets : sock[w].pc = "terminal"
<1>1. ASSUME Inv, [Next]_vars PROVE Spent
    <2>0. budget \in 0..MaxBudget /\ req \in [Requests -> Request]
        BY <1>1 DEF Inv, TypeOK
    <2>1. CASE UNCHANGED budget
        BY <2>0, <2>1
    <2>2. CASE WindowPasses
        BY <2>0, <2>2, MaxBudgetAssumption DEF WindowPasses
    <2>3. ASSUME NEW w \in Sockets, ListOverSocket(w) PROVE Spent
        BY <2>3 DEF ListOverSocket
    <2>4. ASSUME NEW r \in Requests, Limit(r), budget' # budget PROVE Spent
        <3>1. /\ req[r].pc = "authorized" /\ req[r].route \in FileRoutes
              /\ req' = [req EXCEPT ![r].pc = "handled"]
            BY <2>4 DEF Limit
        <3>2. OpenTo(req[r].sent)
            BY <1>1, <3>1 DEF Inv, LetIn, In, FileRoutes, Public
        <3>3. req'[r] # req[r]
            <4>1. req'[r].pc = "handled"
                BY <2>0, <3>1, HandledFields
            <4> QED
                BY <3>1, <4>1
        <3> QED
            BY <3>1, <3>2, <3>3, OpenIsAuthorized DEF InProgress
    <2>5. UNCHANGED vars => UNCHANGED budget
        BY DEF vars
    <2>6. Start \/ Stop => UNCHANGED budget
        BY DEF Start, StandaloneOrBadInput, LoadConfig, StartFails, StartServer, Bind,
               Stop, Listen, Signal, Notice, ServeEnds, MainReturns
    <2>7. ASSUME NEW r \in Requests, Handle(r) PROVE Limit(r) \/ UNCHANGED budget
        BY <2>7 DEF Handle, GetPublic, NoRoute, Authorize, Answer, Abandon
    <2>8. ASSUME NEW w \in Sockets, Serve(w) PROVE ListOverSocket(w) \/ UNCHANGED budget
        BY <2>8 DEF Serve, OpenSocket, LeaveTerminal, CloseSocket
    <2> QED
        BY <1>1, <2>1, <2>2, <2>3, <2>4, <2>5, <2>6, <2>7, <2>8 DEF Next
<1> QED
    BY <1>1, InvariantHolds, PTL DEF Spec, OnlyAuthorizedSpend
================================================================================
