------------------------------ MODULE HttpServer ------------------------------
(***************************************************************************)
(* The server as a whole: configuration file and command line (main.rs,    *)
(* config.rs), start_server with its signal task and the graceful stop,    *)
(* the router with its access control and the file endpoints' rate limit   *)
(* (server/http.rs, server/api.rs), and who may use a terminal.            *)
(*                                                                         *)
(* A configuration is what access depends on; everything else validate     *)
(* checks (command, sizes, limits, levels, session mode) may be wrong or   *)
(* not.  One client address stands for all: the rate limiter keeps them    *)
(* apart (module RateLimiter); here it is a budget that time refills.      *)
(*                                                                         *)
(* External: axum's graceful stop waits for the requests in progress but   *)
(* not for upgraded connections, and tokio cuts what still runs when main  *)
(* returns; SIGTERM and SIGINT end a process that has no handler for them. *)
(*                                                                         *)
(* Left out: static files, compression, headers and the content of         *)
(* answers, but for /api/config's, which depends on the configuration.     *)
(***************************************************************************)
EXTENDS Naturals

CONSTANTS Requests,    \* HTTP requests; each is used once
          Sockets,     \* requests to upgrade to WebSocket
          MaxBudget    \* rate_limit.max_requests

ASSUME MaxBudgetAssumption == MaxBudget \in Nat \ {0}

VARIABLES phase,      \* how far main got
          file,       \* the configuration: as read, then with the overrides
          args,       \* the command line
          built,      \* AppState::auth_method is there
          signal,     \* a SIGINT or SIGTERM was sent
          listening,  \* the signal task's handlers are installed
          token,      \* shutdown_token is cancelled
          budget,     \* checks file_rate_limiter still lets pass
          req,        \* HTTP requests
          sock        \* WebSocket handlers

start == <<phase, file, args, built>>
stop == <<signal, listening, token>>
vars == <<start, stop, budget, req, sock>>

Config == [method : {"none", "basic", "Basic", "token", "other"},
           credentials : {"usable", "unusable"},    \* missing, or a malformed hash
           loopback : BOOLEAN,              \* bind
           allow : BOOLEAN,                 \* allow_unauthenticated
           files : BOOLEAN,                 \* file_transfer.enabled
           filesAllow : BOOLEAN]            \* file_transfer.allow_unauthenticated

\* Flags that were not given keep what the file says.
Args == [auth : BOOLEAN,
         bind : {"keep", "loopback", "public"},
         allow : {"keep", "true", "false"},
         noFiles : BOOLEAN]

NoArgs == [auth |-> FALSE, bind |-> "keep", allow |-> "keep", noFiles |-> FALSE]

\* /api/files/upload, download and list; /api/sessions, stats and status
FileRoutes == {"files"}
Protected == {"sessions"} \union FileRoutes
Public == {"health", "config"}
Credentials == {"wrong", "right"}    \* none at all is wrong

Request == [pc : {"new", "authorized", "handled", "answered"},
            route : Protected \union Public \union {"none"},
            sent : Credentials,
            answer : {"none", "ok", "ok with details", "unauthorized", "not found",
                      "too many requests", "cut"}]

Socket == [pc : {"new", "refused", "terminal",
                 "leaving",    \* clean-up and audit event are still to come
                 "closed", "cut"},
           sent : Credentials]

Init ==
    /\ phase = "starting"
    /\ file \in Config
    /\ file.method = "none" => file.credentials = "unusable"
    /\ args \in Args
    /\ built = FALSE
    /\ signal = FALSE /\ listening = FALSE /\ token = FALSE
    /\ budget = MaxBudget
    /\ req = [r \in Requests |-> [pc |-> "new", route |-> "none", sent |-> "wrong",
                                  answer |-> "none"]]
    /\ sock = [w \in Sockets |-> [pc |-> "new", sent |-> "wrong"]]

--------------------------------------------------------------------------------
\* main: configuration.

Exits == phase' = "exited" /\ UNCHANGED <<file, args, built>>

\* -t, --hash-password, an unreadable file, a bad flag.
StandaloneOrBadInput ==
    /\ phase = "starting"
    /\ Exits
    /\ UNCHANGED <<stop, budget, req, sock>>

Override(c, a) ==
    [method |-> IF a.auth THEN "basic" ELSE c.method,
     credentials |-> IF a.auth THEN "usable" ELSE c.credentials,
     loopback |-> IF a.bind = "keep" THEN c.loopback ELSE a.bind = "loopback",
     allow |-> IF a.allow = "keep" THEN c.allow ELSE a.allow = "true",
     files |-> c.files /\ ~a.noFiles,
     filesAllow |-> c.filesAllow]

\* Config::validate
Valid(c) ==
    /\ c.files /\ c.method = "none" => c.filesAllow
    /\ c.method = "none" /\ ~c.loopback => c.allow
    /\ c.method \in {"none", "basic", "Basic", "token"}
    /\ c.method # "none" => c.credentials = "usable"

\* What validating the file before the overrides would do.
LoadConfigUnmerged ==
    /\ phase = "starting"
    /\ args' = NoArgs
    /\ file' = Override(file, args)
    /\ phase' = IF Valid(file) THEN "configured" ELSE "exited"
    /\ UNCHANGED <<built, stop, budget, req, sock>>

\* load_config: from_file, the overrides, validate.
LoadConfig ==
    /\ phase = "starting"
    /\ args' = NoArgs
    /\ file' = Override(file, args)
    /\ phase' = IF Valid(file') THEN "configured" ELSE "exited"
    /\ UNCHANGED <<built, stop, budget, req, sock>>

\* Another setting is wrong, logging or the SIGCHLD handler cannot be set up, the
\* audit log cannot be prepared.
StartFails ==
    /\ phase = "configured"
    /\ Exits
    /\ UNCHANGED <<stop, budget, req, sock>>

\* AuthMethod::build compares the method as it is written, and hashing may fail.
\* The tasks are spawned, the one that waits for signals among them.
StartServer ==
    /\ phase = "configured"
    /\ phase' = "binding"
    /\ \E ok \in BOOLEAN : built' = (ok /\ file.method \in {"basic", "token"})
    /\ UNCHANGED <<file, args, stop, budget, req, sock>>

Bind ==
    /\ phase = "binding"
    /\ phase' \in {"serving", "exited"}
    /\ UNCHANGED <<file, args, built, stop, budget, req, sock>>

--------------------------------------------------------------------------------
\* Stop.

\* ctrl_c that cannot be set up counts as a signal.
Listen ==
    /\ phase \in {"binding", "serving"} /\ ~listening
    /\ listening' = TRUE
    /\ token' \in {FALSE, TRUE}
    /\ UNCHANGED <<start, signal, budget, req, sock>>

Signal ==
    /\ ~signal /\ phase # "exited"
    /\ signal' = TRUE
    /\ IF listening THEN UNCHANGED start ELSE Exits
    /\ UNCHANGED <<listening, token, budget, req, sock>>

\* What cancelling the token after serve would do.
NoticeAfterServe ==
    /\ signal /\ listening /\ ~token /\ phase = "stopped"
    /\ token' = TRUE
    /\ UNCHANGED <<start, signal, listening, budget, req, sock>>

Notice ==
    /\ signal /\ listening /\ ~token
    /\ token' = TRUE
    /\ UNCHANGED <<start, signal, listening, budget, req, sock>>

InProgress(r) == req[r].pc \in {"authorized", "handled"}

\* serve returns, SessionManager::shutdown, the background tasks are aborted.
ServeEnds ==
    /\ phase = "serving" /\ token
    /\ \A r \in Requests : ~InProgress(r)
    /\ phase' = "stopped"
    /\ UNCHANGED <<file, args, built, stop, budget, req, sock>>

\* main returns: the runtime drops the tasks that are left.
MainReturns ==
    /\ phase = "stopped"
    /\ Exits
    /\ sock' = [w \in Sockets |-> IF sock[w].pc \in {"terminal", "leaving"}
                                  THEN [sock[w] EXCEPT !.pc = "cut"] ELSE sock[w]]
    /\ UNCHANGED <<stop, budget, req>>

--------------------------------------------------------------------------------
\* HTTP requests.

Accepts == phase = "serving" /\ ~token

Answers(r, answer) ==
    req' = [req EXCEPT ![r].pc = "answered", ![r].answer = answer]

\* Credentials only count with the validator that was built at the start.
Authorized(sent) == file.method = "none" \/ (built /\ sent = "right")

\* get_config
ConfigAnswer == IF file.method = "none" /\ file.files THEN "ok with details" ELSE "ok"

GetPublic(r) ==
    /\ Accepts /\ req[r].pc = "new"
    /\ \E p \in Public, c \in Credentials :
         req' = [req EXCEPT ![r] = [pc |-> "answered", route |-> p, sent |-> c,
                                    answer |-> IF p = "config" THEN ConfigAnswer ELSE "ok"]]
    /\ UNCHANGED <<start, stop, budget, sock>>

\* Without file transfer its routes do not exist.
NoRoute(r) ==
    /\ Accepts /\ req[r].pc = "new" /\ ~file.files
    /\ \E p \in FileRoutes, c \in Credentials :
         req' = [req EXCEPT ![r] = [pc |-> "answered", route |-> p, sent |-> c,
                                    answer |-> "not found"]]
    /\ UNCHANGED <<start, stop, budget, sock>>

\* What the limit as the outer layer would do.
AuthorizeAfterLimit(r) ==
    /\ Accepts /\ req[r].pc = "new" /\ budget > 0
    /\ \E p \in Protected, c \in Credentials :
         /\ p \in FileRoutes => file.files
         /\ req' = [req EXCEPT ![r] =
              IF Authorized(c)
              THEN [pc |-> "authorized", route |-> p, sent |-> c, answer |-> "none"]
              ELSE [pc |-> "answered", route |-> p, sent |-> c, answer |-> "unauthorized"]]
         /\ budget' = IF p \in FileRoutes THEN budget - 1 ELSE budget
    /\ UNCHANGED <<start, stop, sock>>

\* api_auth_middleware, the outer layer
Authorize(r) ==
    /\ Accepts /\ req[r].pc = "new"
    /\ \E p \in Protected, c \in Credentials :
         /\ p \in FileRoutes => file.files
         /\ req' = [req EXCEPT ![r] =
              IF Authorized(c)
              THEN [pc |-> "authorized", route |-> p, sent |-> c, answer |-> "none"]
              ELSE [pc |-> "answered", route |-> p, sent |-> c, answer |-> "unauthorized"]]
    /\ UNCHANGED <<start, stop, budget, sock>>

\* file_rate_limit_middleware; the other routes go straight to their handler.
Limit(r) ==
    /\ req[r].pc = "authorized"
    /\ IF req[r].route \notin FileRoutes
       THEN req' = [req EXCEPT ![r].pc = "handled"] /\ UNCHANGED budget
       ELSE IF budget = 0
       THEN Answers(r, "too many requests") /\ UNCHANGED budget
       ELSE req' = [req EXCEPT ![r].pc = "handled"] /\ budget' = budget - 1
    /\ UNCHANGED <<start, stop, sock>>

\* The handler's own errors are left to its module (Upload, Sessions).
Answer(r) ==
    /\ req[r].pc = "handled"
    /\ Answers(r, "ok")
    /\ UNCHANGED <<start, stop, budget, sock>>

\* The client closes the connection: the handler is dropped.
Abandon(r) ==
    /\ InProgress(r)
    /\ Answers(r, "cut")
    /\ UNCHANGED <<start, stop, budget, sock>>

WindowPasses ==
    /\ budget < MaxBudget
    /\ budget' = MaxBudget
    /\ UNCHANGED <<start, stop, req, sock>>

--------------------------------------------------------------------------------
\* WebSockets (module Connection).

\* /ws is public; the login is the first message.
OpenSocket(w) ==
    /\ Accepts /\ sock[w].pc = "new"
    /\ \E c \in Credentials :
         sock' = [sock EXCEPT ![w] =
                    [pc |-> IF Authorized(c) THEN "terminal" ELSE "refused", sent |-> c]]
    /\ UNCHANGED <<start, stop, budget, req>>

\* The listing over the WebSocket takes from the same budget.
ListOverSocket(w) ==
    /\ sock[w].pc = "terminal" /\ file.files /\ budget > 0
    /\ budget' = budget - 1
    /\ UNCHANGED <<start, stop, req, sock>>

\* The client goes, or the loop sees the token.
LeaveTerminal(w) ==
    /\ sock[w].pc = "terminal"
    /\ sock' = [sock EXCEPT ![w].pc = "leaving"]
    /\ UNCHANGED <<start, stop, budget, req>>

\* cleanup_client, log_session_ended, Disconnect
CloseSocket(w) ==
    /\ sock[w].pc = "leaving"
    /\ sock' = [sock EXCEPT ![w].pc = "closed"]
    /\ UNCHANGED <<start, stop, budget, req>>

Start == \/ StandaloneOrBadInput \/ LoadConfig \/ StartFails \/ StartServer \/ Bind
Stop == Listen \/ Signal \/ Notice \/ ServeEnds \/ MainReturns
Handle(r) == \/ GetPublic(r) \/ NoRoute(r) \/ Authorize(r) \/ Limit(r) \/ Answer(r)
             \/ Abandon(r)
Serve(w) == OpenSocket(w) \/ ListOverSocket(w) \/ LeaveTerminal(w) \/ CloseSocket(w)

Next ==
    \/ Start \/ Stop \/ WindowPasses
    \/ \E r \in Requests : Handle(r)
    \/ \E w \in Sockets : Serve(w)

Spec == Init /\ [][Next]_vars

\* The program runs on.  A handler may take as long as its client likes, and nobody
\* has to connect or to send a signal.
Fairness ==
    /\ WF_vars(LoadConfig) /\ WF_vars(StartServer) /\ WF_vars(Bind)
    /\ WF_vars(Listen) /\ WF_vars(Notice) /\ WF_vars(ServeEnds) /\ WF_vars(MainReturns)
    /\ \A w \in Sockets : WF_vars(token /\ LeaveTerminal(w)) /\ WF_vars(CloseSocket(w))

FairSpec == Spec /\ Fairness

--------------------------------------------------------------------------------
TypeOK ==
    /\ phase \in {"starting", "configured", "binding", "serving", "stopped", "exited"}
    /\ file \in Config /\ args \in Args
    /\ built \in BOOLEAN /\ signal \in BOOLEAN /\ listening \in BOOLEAN /\ token \in BOOLEAN
    /\ budget \in 0..MaxBudget
    /\ req \in [Requests -> Request]
    /\ sock \in [Sockets -> Socket]

InTerminal(w) == sock[w].pc \in {"terminal", "leaving", "closed", "cut"}

\* Whatever file and command line say together: without credentials that a validator
\* accepted, a terminal or a protected endpoint is used only when no authentication is
\* configured, on the loopback interface or with the operator's opt-in, and the file
\* endpoints only with theirs; a method nobody could build a validator for lets nobody
\* in (validate, create_router: "deny all").
NothingIsOpenByAccident ==
    LET OpenTo(c) == \/ file.method # "none" /\ built /\ c = "right"
                     \/ file.method = "none" /\ (file.loopback \/ file.allow)
    IN
    /\ \A w \in Sockets : InTerminal(w) => OpenTo(sock[w].sent)
    /\ \A r \in Requests :
         req[r].pc \in {"authorized", "handled"} \/ req[r].answer \in {"ok", "ok with details"}
           => \/ req[r].route \in Public
              \/ /\ OpenTo(req[r].sent)
                 /\ req[r].route \in FileRoutes
                      => file.files /\ (file.method = "none" => file.filesAllow)

\* Only who was let in uses up the file endpoints' budget.
OnlyAuthorizedSpend ==
    [][budget' < budget =>
         \/ \E r \in Requests : InProgress(r) /\ req'[r] # req[r] /\ Authorized(req[r].sent)
         \/ \E w \in Sockets : sock[w].pc = "terminal"]_vars

\* After a signal the process ends, however far it got and whatever the clients at
\* terminals do, unless a request never ends: a client may take as long as it likes.
\* axum waits for the answers of public routes and for half-sent request heads, too,
\* which take no time in the model: of a client that delays those nothing is said.
SignalEndsIt ==
    (\A r \in Requests : []<>~InProgress(r)) => (signal ~> phase = "exited")

\* start_server: the signal task comes first "so that WebSocket handlers can break out
\* of their message loops and complete".
HandlersComplete == \A w \in Sockets : sock[w].pc # "cut"

\* validate: "The method is matched case-insensitively".
AcceptedMethodsWork ==
    phase = "serving" /\ file.method = "Basic" => built
================================================================================
