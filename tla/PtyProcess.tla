------------------------------- MODULE PtyProcess -------------------------------
(***************************************************************************)
(* Shells and their terminals (pty/process.rs): openpty and fork, the set  *)
(* up of the child, the process-wide SIGCHLD handler, and Drop.            *)
(*                                                                         *)
(* fork copies every descriptor the server has open at that moment, those  *)
(* of other sessions included; the child closes them just before exec.     *)
(* So a terminal's two ends are the sets of those who have them open.  A   *)
(* pid belongs to its process until that is reaped, and to anybody after.  *)
(*                                                                         *)
(* External: the kernel (fork, exit, SIGHUP, the coalescing of SIGCHLD),   *)
(* the shells, which may exit, ignore SIGHUP or run for ever, and other    *)
(* processes, which take and free pids.  A shell has no children of its    *)
(* own here: one that keeps the terminal open delays the end of output.    *)
(***************************************************************************)
EXTENDS Naturals

CONSTANTS Shells,    \* PtyProcess values; each is spawned once
          Pids

\* A shell is none of the other holders of a descriptor or a pid.
ASSUME ShellsAssumption ==
    Shells \intersect {"session", "reader", "server", "free", "other"} = {}

VARIABLES pc,        \* the shell's process
          pid,       \* child_pid; meaningful once the shell was forked
          owner,     \* who has a pid
          master,    \* who has the master side open: "session", "reader", children
          slave,     \* who has the slave side open: "server" and children
          ignores,   \* shells that ignore SIGHUP
          hup,       \* processes with a SIGHUP pending
          sigchld,   \* SIGCHLD is pending; one or several children make no difference
          handling,  \* sigchld_handler is running
          drop       \* how far PtyProcess::drop got

process == <<pc, pid, owner, ignores>>
terminal == <<master, slave>>
signals == <<hup, sigchld, handling>>
vars == <<process, terminal, signals, drop>>

Init ==
    /\ pc = [s \in Shells |-> "none"]
    /\ pid \in [Shells -> Pids] /\ \A s, t \in Shells : pid[s] = pid[t]
    /\ owner = [p \in Pids |-> "free"]
    /\ master = [s \in Shells |-> {}] /\ slave = [s \in Shells |-> {}]
    /\ ignores = {} /\ hup = {}
    /\ sigchld = FALSE /\ handling = FALSE
    /\ drop = [s \in Shells |-> "owned"]

Child(s) == pc[s] \in {"setup", "running"}

\* The server's own copies, which fork duplicates.
ServerHas(end, t) == end[t] \intersect {"session", "reader", "server"} # {}

ClosesAll(s) ==
    /\ master' = [t \in Shells |-> master[t] \ {s}]
    /\ slave' = [t \in Shells |-> slave[t] \ {s}]

--------------------------------------------------------------------------------
\* PtyProcess::spawn, in the server.

OpenPty(s) ==
    /\ pc[s] = "none"
    /\ pc' = [pc EXCEPT ![s] = "opened"]
    /\ master' = [master EXCEPT ![s] = {"session"}]
    /\ slave' = [slave EXCEPT ![s] = {"server"}]
    /\ UNCHANGED <<pid, owner, ignores, signals, drop>>

ForkFails(s) ==
    /\ pc[s] = "opened"
    /\ pc' = [pc EXCEPT ![s] = "failed"]
    /\ master' = [master EXCEPT ![s] = @ \ {"session"}]
    /\ slave' = [slave EXCEPT ![s] = @ \ {"server"}]
    /\ UNCHANGED <<pid, owner, ignores, signals, drop>>

Fork(s) ==
    /\ pc[s] = "opened"
    /\ \E p \in Pids :
         /\ owner[p] = "free"
         /\ owner' = [owner EXCEPT ![p] = s]
         /\ pid' = [pid EXCEPT ![s] = p]
    /\ pc' = [pc EXCEPT ![s] = "setup"]
    /\ master' = [t \in Shells |-> IF ServerHas(master, t) THEN master[t] \union {s}
                                                          ELSE master[t]]
    /\ slave' = [t \in Shells |-> IF ServerHas(slave, t) THEN slave[t] \union {s}
                                                        ELSE slave[t]]
    /\ UNCHANGED <<ignores, signals, drop>>

DropSlave(s) ==
    /\ pc[s] \notin {"none", "opened"} /\ "server" \in slave[s]
    /\ slave' = [slave EXCEPT ![s] = @ \ {"server"}]
    /\ UNCHANGED <<process, master, signals, drop>>

\* The reader's dup of the master; the writers' are as short-lived as a write.
OpenReader(s) ==
    /\ "session" \in master[s] /\ "reader" \notin master[s] /\ pc[s] # "opened"
    /\ "server" \notin slave[s]
    /\ drop[s] = "owned"
    /\ master' = [master EXCEPT ![s] = @ \union {"reader"}]
    /\ UNCHANGED <<process, slave, signals, drop>>

\* EIO or EOF when nobody has the slave side open, or Session::shutdown's abort.
CloseReader(s) ==
    /\ "reader" \in master[s]
    /\ master' = [master EXCEPT ![s] = @ \ {"reader"}]
    /\ UNCHANGED <<process, slave, signals, drop>>

--------------------------------------------------------------------------------
\* The child, up to exec, and the shell.

Dies(s) ==
    /\ pc' = [pc EXCEPT ![s] = "zombie"]
    /\ sigchld' = TRUE
    /\ ClosesAll(s)
    /\ UNCHANGED <<pid, owner, ignores, hup, handling, drop>>

\* What relying on FD_CLOEXEC would do: it is set for the master side only.
ExecCloexec(s) ==
    /\ pc[s] = "setup"
    /\ pc' = [pc EXCEPT ![s] = "running"]
    /\ master' = [t \in Shells |-> master[t] \ {s}]
    /\ ignores' \in {ignores, ignores \union {s}}
    /\ UNCHANGED <<slave, pid, owner, signals, drop>>

\* dup2 to 0, 1 and 2, close_fds_above(2), execvp.  That both of close_fds_above's
\* ways fail, close_range and the list in /proc/self/fd, is left out.
Exec(s) ==
    /\ pc[s] = "setup"
    /\ pc' = [pc EXCEPT ![s] = "running"]
    /\ master' = [t \in Shells |-> master[t] \ {s}]
    /\ slave' = [t \in Shells |-> IF t = s THEN slave[t] ELSE slave[t] \ {s}]
    /\ ignores' \in {ignores, ignores \union {s}}
    /\ UNCHANGED <<pid, owner, signals, drop>>

\* _exit(127): the child never returns into the server's code.
SetupFails(s) == pc[s] = "setup" /\ Dies(s)

Exit(s) == pc[s] = "running" /\ Dies(s)

\* SIGHUP, sent or from the hangup of the terminal's last master descriptor.
HangUp(s) ==
    /\ Child(s) /\ s \notin ignores
    /\ s \in hup \/ master[s] = {}
    /\ Dies(s)

--------------------------------------------------------------------------------
\* sigchld_handler: waitpid(-1, WNOHANG) until nobody is left.

\* From here on the pid may be given to another process.
Reaps(s) ==
    /\ pc' = [pc EXCEPT ![s] = "reaped"]
    /\ owner' = [owner EXCEPT ![pid[s]] = "free"]
    /\ hup' = hup \ {s}

Deliver ==
    /\ sigchld /\ ~handling
    /\ sigchld' = FALSE /\ handling' = TRUE
    /\ UNCHANGED <<process, terminal, hup, drop>>

\* What one waitpid per signal would do.
ReapOnce ==
    /\ handling
    /\ \E s \in Shells : pc[s] = "zombie" /\ Reaps(s)
    /\ handling' = FALSE
    /\ UNCHANGED <<pid, ignores, terminal, sigchld, drop>>

Reap ==
    /\ handling
    /\ \E s \in Shells : pc[s] = "zombie" /\ Reaps(s)
    /\ UNCHANGED <<pid, ignores, terminal, sigchld, handling, drop>>

HandlerReturns ==
    /\ handling /\ \A s \in Shells : pc[s] # "zombie"
    /\ handling' = FALSE
    /\ UNCHANGED <<process, terminal, hup, sigchld, drop>>

--------------------------------------------------------------------------------
\* PtyProcess::drop: the last Arc is gone, hence the reader task as well.

DropClose(s) ==
    /\ drop[s] = "owned" /\ "session" \in master[s]
    /\ pc[s] # "opened" /\ "server" \notin slave[s] /\ "reader" \notin master[s]
    /\ master' = [master EXCEPT ![s] = @ \ {"session"}]
    /\ drop' = [drop EXCEPT ![s] = "closed"]
    /\ UNCHANGED <<process, slave, signals>>

\* The pid is used whether or not the shell was reaped meanwhile; what has it now
\* gets the signal.
DropKill(s) ==
    /\ drop[s] = "closed"
    /\ drop' = [drop EXCEPT ![s] = "killed"]
    /\ hup' = hup \union ({owner[pid[s]]} \intersect {t \in Shells : Child(t)})
    /\ UNCHANGED <<process, terminal, sigchld, handling>>

\* waitpid(child_pid, WNOHANG)
DropReap(s) ==
    /\ drop[s] = "killed"
    /\ drop' = [drop EXCEPT ![s] = "dropped"]
    /\ \/ \E t \in Shells : owner[pid[s]] = t /\ pc[t] = "zombie" /\ Reaps(t)
       \/ /\ \A t \in Shells : owner[pid[s]] = t => pc[t] # "zombie"
          /\ UNCHANGED <<pc, owner, hup>>
    /\ UNCHANGED <<pid, ignores, terminal, sigchld, handling>>

OtherProcess(p) ==
    /\ owner[p] \in {"free", "other"}
    /\ owner' = [owner EXCEPT ![p] = IF @ = "free" THEN "other" ELSE "free"]
    /\ UNCHANGED <<pc, pid, ignores, terminal, signals, drop>>

Spawn(s) == OpenPty(s) \/ ForkFails(s) \/ Fork(s)
SetUp(s) == Exec(s) \/ SetupFails(s)
Drop(s) == DropClose(s) \/ DropKill(s) \/ DropReap(s)

Next ==
    \/ \E s \in Shells : \/ Spawn(s) \/ DropSlave(s) \/ OpenReader(s) \/ CloseReader(s)
                         \/ SetUp(s) \/ Exit(s) \/ HangUp(s) \/ Drop(s)
    \/ Deliver \/ Reap \/ HandlerReturns
    \/ \E p \in Pids : OtherProcess(p)

Spec == Init /\ [][Next]_vars

\* Code that runs goes on, signals are delivered; nobody has to spawn, exit or drop.
Fairness ==
    /\ \A s \in Shells : /\ WF_vars(DropSlave(s)) /\ WF_vars(SetUp(s)) /\ WF_vars(HangUp(s))
                         /\ WF_vars(DropKill(s)) /\ WF_vars(DropReap(s))
    /\ WF_vars(Deliver) /\ WF_vars(Reap) /\ WF_vars(HandlerReturns)

FairSpec == Spec /\ Fairness

--------------------------------------------------------------------------------
\* Types, and: the pid of a shell that is not reaped is its own.
TypeOK ==
    /\ pc \in [Shells -> {"none", "opened", "failed", "setup", "running", "zombie", "reaped"}]
    /\ pid \in [Shells -> Pids]
    /\ owner \in [Pids -> Shells \union {"free", "other"}]
    /\ master \in [Shells -> SUBSET ({"session", "reader"} \union Shells)]
    /\ slave \in [Shells -> SUBSET ({"server"} \union Shells)]
    /\ ignores \subseteq Shells /\ hup \subseteq Shells
    /\ sigchld \in BOOLEAN /\ handling \in BOOLEAN
    /\ drop \in [Shells -> {"owned", "closed", "killed", "dropped"}]
    /\ \A s \in Shells : pc[s] \in {"setup", "running", "zombie"} => owner[pid[s]] = s

\* A shell holds its own terminal and no other session's, and it never has the master
\* side: what setup_child's close_fds_above is for.
ShellsAreApart ==
    \A s, t \in Shells : pc[s] = "running" => /\ s \notin master[t]
                                              /\ s \in slave[t] <=> s = t

\* Every child that ends is reaped, however many end while the handler runs
\* (register_sigchld_handler: "preventing zombie accumulation regardless of when
\* PtyProcess is dropped").
ZombiesAreReaped == \A s \in Shells : pc[s] = "zombie" ~> pc[s] = "reaped"

\* Once a shell has ended its terminal's slave side is closed for good, so that the
\* reader comes to see the end, whichever other sessions were being spawned.
EndIsSeen ==
    \A s \in Shells : pc[s] \in {"zombie", "reaped"} ~> [](slave[s] = {})
================================================================================
