----------------------------- MODULE PtyProcessProofs ----------------------------
(***************************************************************************)
(* For any number of shells, sessions and pids: a shell that runs has its  *)
(* own terminal open and no other session's, and a pid that was not given  *)
(* back names the shell it was given to.                                   *)
(*                                                                         *)
(* Between fork and exec a child has copies of everything, so the          *)
(* invariant says only what it may not lack (its own slave side) and what  *)
(* the server may not close before the fork.                               *)
(***************************************************************************)
EXTENDS PtyProcess, TLAPS

States == {"none", "opened", "failed", "setup", "running", "zombie", "reaped"}

Types ==
    /\ pc \in [Shells -> States]
    /\ pid \in [Shells -> Pids]
    /\ owner \in [Pids -> Shells \union {"free", "other"}]
    /\ master \in [Shells -> SUBSET ({"session", "reader"} \union Shells)]
    /\ slave \in [Shells -> SUBSET ({"server"} \union Shells)]
    /\ ignores \subseteq Shells /\ hup \subseteq Shells
    /\ sigchld \in BOOLEAN /\ handling \in BOOLEAN
    /\ drop \in [Shells -> {"owned", "closed", "killed", "dropped"}]

Owned(s) == pc[s] \in {"setup", "running", "zombie"} => owner[pid[s]] = s

\* Nobody but s has the slave side of s for good, and s has no other.
Apart(s) ==
    /\ pc[s] = "opened" => "server" \in slave[s]
    /\ pc[s] = "setup" => s \in slave[s]
    /\ pc[s] = "running" => \A t \in Shells : /\ s \notin master[t]
                                              /\ s \in slave[t] <=> s = t

Inv == Types /\ \A s \in Shells : Owned(s) /\ Apart(s)

--------------------------------------------------------------------------------
\* Nothing is open and no pid is taken before the first spawn.
LEMMA InitInv == Init => Inv
<1> SUFFICES ASSUME Init PROVE Inv
    OBVIOUS
<1>1. Types
    BY DEF Init, Types, States
<1>2. \A s \in Shells : Owned(s) /\ Apart(s)
    BY DEF Init, Owned, Apart
<1> QED
    BY <1>1, <1>2 DEF Inv

\* A step that leaves processes and pids alone keeps the pids' owners.
LEMMA OwnersKept ==
    ASSUME Inv, UNCHANGED <<pc, pid, owner>>
    PROVE  \A s \in Shells : Owned(s)'
BY DEF Inv, Owned

\* A step that leaves processes and terminals alone keeps the shells apart.
LEMMA ApartKept ==
    ASSUME Inv, UNCHANGED <<pc, master, slave>>
    PROVE  \A s \in Shells : Apart(s)'
BY DEF Inv, Apart

--------------------------------------------------------------------------------
\* openpty and fork: the child is in no other session's way until it runs.
LEMMA SpawnKeeps ==
    ASSUME Inv, NEW s \in Shells, Spawn(s)
    PROVE  Inv'
<1> USE DEF Inv
<1>1. CASE OpenPty(s)
    <2>1. Types'
        BY <1>1 DEF OpenPty, Types, States, signals
    <2>2. ASSUME NEW u \in Shells PROVE Owned(u)'
        BY <1>1 DEF OpenPty, Types, Owned
    <2>3. ASSUME NEW u \in Shells PROVE Apart(u)'
        BY <1>1, ShellsAssumption DEF OpenPty, Types, Apart
    <2> QED
        BY <2>1, <2>2, <2>3
<1>2. CASE ForkFails(s)
    <2>1. Types'
        BY <1>2 DEF ForkFails, Types, States, signals
    <2>2. ASSUME NEW u \in Shells PROVE Owned(u)'
        BY <1>2 DEF ForkFails, Types, Owned
    <2>3. ASSUME NEW u \in Shells PROVE Apart(u)'
        BY <1>2, ShellsAssumption DEF ForkFails, Types, Apart
    <2> QED
        BY <2>1, <2>2, <2>3
<1>3. CASE Fork(s)
    <2>1. PICK p \in Pids :
            /\ owner[p] = "free"
            /\ owner' = [owner EXCEPT ![p] = s]
            /\ pid' = [pid EXCEPT ![s] = p]
        BY <1>3 DEF Fork
    <2>2. Types'
        <3>1. pc' \in [Shells -> States] /\ pid' \in [Shells -> Pids]
              /\ owner' \in [Pids -> Shells \union {"free", "other"}]
            BY <1>3, <2>1 DEF Fork, Types, States
        <3>2. master' \in [Shells -> SUBSET ({"session", "reader"} \union Shells)]
            BY <1>3 DEF Fork, Types
        <3>3. slave' \in [Shells -> SUBSET ({"server"} \union Shells)]
            BY <1>3 DEF Fork, Types
        <3> QED
            BY <1>3, <3>1, <3>2, <3>3 DEF Fork, Types, signals
    <2>3. ASSUME NEW u \in Shells PROVE Owned(u)'
        <3>1. CASE u = s
            BY <2>1, <3>1 DEF Types, Owned
        <3>2. CASE u # s
            BY <1>3, <2>1, <3>2, ShellsAssumption DEF Fork, Types, Owned
        <3> QED
            BY <3>1, <3>2
    <2>4. ASSUME NEW u \in Shells PROVE Apart(u)'
        <3>1. CASE u = s
            <4>1. "server" \in slave[s] /\ pc' = [pc EXCEPT ![s] = "setup"]
                BY <1>3 DEF Fork, Apart
            <4>2. s \in slave'[s]
                BY <1>3, <4>1 DEF Fork, ServerHas
            <4> QED
                BY <3>1, <4>1, <4>2 DEF Apart, Types
        <3>2. CASE u # s
            <4>1. \A t \in Shells : /\ u \in master'[t] <=> u \in master[t]
                                    /\ u \in slave'[t] <=> u \in slave[t]
                BY <1>3, <3>2 DEF Fork
            <4>2. pc'[u] = pc[u]
                BY <1>3, <3>2 DEF Fork, Types
            <4>3. "server" \in slave[u] => "server" \in slave'[u]
                BY <1>3 DEF Fork
            <4> QED
                BY <4>1, <4>2, <4>3 DEF Apart
        <3> QED
            BY <3>1, <3>2
    <2> QED
        BY <2>2, <2>3, <2>4
<1> QED
    BY <1>1, <1>2, <1>3 DEF Spawn

\* The server's own descriptors may go, its copies in children stay.
LEMMA ServerDescriptorsKeep ==
    ASSUME Inv, NEW s \in Shells,
           DropSlave(s) \/ OpenReader(s) \/ CloseReader(s) \/ DropClose(s)
    PROVE  Inv'
<1> USE DEF Inv
<1>1. UNCHANGED <<pc, pid, owner, ignores, hup, sigchld, handling>>
    BY DEF DropSlave, OpenReader, CloseReader, DropClose, process, signals
<1>2. Types'
    BY <1>1 DEF DropSlave, OpenReader, CloseReader, DropClose, Types, process
<1>3. \A u \in Shells : Owned(u)'
    BY <1>1, OwnersKept
<1>4. ASSUME NEW u \in Shells PROVE Apart(u)'
    <2>1. \A t \in Shells : /\ u \in master'[t] <=> u \in master[t]
                            /\ u \in slave'[t] <=> u \in slave[t]
        BY ShellsAssumption DEF DropSlave, OpenReader, CloseReader, DropClose, Types
    <2>2. pc[u] = "opened" /\ "server" \in slave[u] => "server" \in slave'[u]
        BY DEF DropSlave, OpenReader, CloseReader, DropClose, Types
    <2> QED
        BY <1>1, <2>1, <2>2 DEF Apart
<1> QED
    BY <1>2, <1>3, <1>4

\* A process that ends has nothing open; the others keep what they have.
LEMMA DiesKeeps ==
    ASSUME Inv, NEW s \in Shells, Child(s), Dies(s)
    PROVE  Inv'
<1> USE DEF Inv
<1>1. Types'
    <2>1. pc' \in [Shells -> States]
        BY DEF Dies, Types, States
    <2>2. master' \in [Shells -> SUBSET ({"session", "reader"} \union Shells)]
        BY DEF Dies, ClosesAll, Types
    <2>3. slave' \in [Shells -> SUBSET ({"server"} \union Shells)]
        BY DEF Dies, ClosesAll, Types
    <2> QED
        BY <2>1, <2>2, <2>3 DEF Dies, Types
<1>2. ASSUME NEW u \in Shells PROVE Owned(u)'
    BY DEF Dies, Child, Types, Owned
<1>3. ASSUME NEW u \in Shells PROVE Apart(u)'
    <2>1. CASE u = s
        BY <2>1 DEF Dies, Types, Apart
    <2>2. CASE u # s
        <3>1. pc'[u] = pc[u]
            BY <2>2 DEF Dies, Types
        <3>2. \A t \in Shells : /\ u \in master'[t] <=> u \in master[t]
                                /\ u \in slave'[t] <=> u \in slave[t]
            BY <2>2 DEF Dies, ClosesAll
        <3>3. "server" \in slave[u] => "server" \in slave'[u]
            BY ShellsAssumption DEF Dies, ClosesAll
        <3> QED
            BY <3>1, <3>2, <3>3 DEF Apart
    <2> QED
        BY <2>1, <2>2
<1> QED
    BY <1>1, <1>2, <1>3

\* setup_child up to exec: what is above descriptor 2 is closed, the rest is its own.
LEMMA ExecKeeps ==
    ASSUME Inv, NEW s \in Shells, Exec(s)
    PROVE  Inv'
<1> USE DEF Inv
<1>1. Types'
    <2>1. pc' \in [Shells -> States]
        BY DEF Exec, Types, States
    <2>2. master' \in [Shells -> SUBSET ({"session", "reader"} \union Shells)]
        BY DEF Exec, Types
    <2>3. slave' \in [Shells -> SUBSET ({"server"} \union Shells)]
        BY DEF Exec, Types
    <2> QED
        BY <2>1, <2>2, <2>3 DEF Exec, Types, signals
<1>2. ASSUME NEW u \in Shells PROVE Owned(u)'
    BY DEF Exec, Types, Owned
<1>3. ASSUME NEW u \in Shells PROVE Apart(u)'
    <2>1. CASE u = s
        <3>1. pc'[s] = "running" /\ s \in slave[s]
            BY DEF Exec, Types, Apart
        <3>2. \A t \in Shells : s \notin master'[t] /\ (s \in slave'[t] <=> s = t)
            BY <3>1 DEF Exec
        <3> QED
            BY <2>1, <3>1, <3>2 DEF Apart
    <2>2. CASE u # s
        <3>1. pc'[u] = pc[u]
            BY <2>2 DEF Exec, Types
        <3>2. \A t \in Shells : /\ u \in master'[t] <=> u \in master[t]
                                /\ u \in slave'[t] <=> u \in slave[t]
            BY <2>2 DEF Exec
        <3>3. "server" \in slave[u] => "server" \in slave'[u]
            BY ShellsAssumption DEF Exec
        <3> QED
            BY <3>1, <3>2, <3>3 DEF Apart
    <2> QED
        BY <2>1, <2>2
<1> QED
    BY <1>1, <1>2, <1>3

\* Who is reaped gives back its own pid and nobody else's.
LEMMA ReapsKeeps ==
    ASSUME Inv, NEW s \in Shells, pc[s] = "zombie", Reaps(s),
           UNCHANGED <<pid, ignores, master, slave, sigchld, handling>>,
           drop' \in [Shells -> {"owned", "closed", "killed", "dropped"}]
    PROVE  Inv'
<1> USE DEF Inv
<1>1. Types'
    BY DEF Reaps, Types, States
<1>2. ASSUME NEW u \in Shells PROVE Owned(u)'
    <2>1. CASE u = s
        BY <2>1 DEF Reaps, Types, Owned
    <2>2. CASE u # s
        <3>1. owner[pid[s]] = s
            BY DEF Owned
        <3>2. pc'[u] = pc[u] /\ owner' = [owner EXCEPT ![pid[s]] = "free"]
            BY <2>2 DEF Reaps, Types
        <3>3. pc[u] \in {"setup", "running", "zombie"} => pid[u] # pid[s]
            BY <2>2, <3>1 DEF Owned
        <3> QED
            BY <3>2, <3>3 DEF Owned, Types
    <2> QED
        BY <2>1, <2>2
<1>3. ASSUME NEW u \in Shells PROVE Apart(u)'
    BY DEF Reaps, Types, Apart
<1> QED
    BY <1>1, <1>2, <1>3

\* Signals and drops touch neither descriptors nor, before reaping, pids.
LEMMA SignalsKeep ==
    ASSUME Inv, UNCHANGED <<pc, pid, owner, ignores, master, slave>>,
           hup' \subseteq Shells, sigchld' \in BOOLEAN, handling' \in BOOLEAN,
           drop' \in [Shells -> {"owned", "closed", "killed", "dropped"}]
    PROVE  Inv'
<1>1. Types'
    BY DEF Inv, Types
<1> QED
    BY <1>1, OwnersKept, ApartKept DEF Inv

--------------------------------------------------------------------------------
\* Every step keeps the invariant.
LEMMA NextInv == Inv /\ [Next]_vars => Inv'
<1> SUFFICES ASSUME Inv, [Next]_vars PROVE Inv'
    OBVIOUS
<1>0. Types
    BY DEF Inv
<1>1. ASSUME NEW s \in Shells, Spawn(s) PROVE Inv'
    BY <1>1, SpawnKeeps
<1>2. ASSUME NEW s \in Shells, DropSlave(s) \/ OpenReader(s) \/ CloseReader(s) PROVE Inv'
    BY <1>2, ServerDescriptorsKeep
<1>3. ASSUME NEW s \in Shells, SetUp(s) \/ Exit(s) \/ HangUp(s) PROVE Inv'
    <2>1. CASE Exec(s)
        BY <2>1, ExecKeeps
    <2>2. CASE ~Exec(s)
        <3>1. Child(s) /\ Dies(s)
            BY <1>3, <2>2 DEF SetUp, SetupFails, Exit, HangUp, Child
        <3> QED
            BY <3>1, DiesKeeps
    <2> QED
        BY <2>1, <2>2
<1>4. ASSUME NEW s \in Shells, Drop(s) PROVE Inv'
    <2>1. CASE DropClose(s)
        BY <2>1, ServerDescriptorsKeep
    <2>2. CASE DropKill(s)
        BY <1>0, <2>2, SignalsKeep DEF DropKill, Types, process, terminal
    <2>3. CASE DropReap(s)
        <3>0. drop' \in [Shells -> {"owned", "closed", "killed", "dropped"}]
            BY <1>0, <2>3 DEF DropReap, Types
        <3>1. ASSUME NEW t \in Shells, pc[t] = "zombie", Reaps(t) PROVE Inv'
            BY <2>3, <3>0, <3>1, ReapsKeeps DEF DropReap, terminal
        <3>2. CASE UNCHANGED <<pc, owner, hup>>
            BY <1>0, <2>3, <3>0, <3>2, SignalsKeep DEF DropReap, Types, terminal
        <3> QED
            BY <2>3, <3>1, <3>2 DEF DropReap
    <2> QED
        BY <1>4, <2>1, <2>2, <2>3 DEF Drop
<1>5. CASE Deliver
    BY <1>0, <1>5, SignalsKeep DEF Deliver, Types, process, terminal
<1>6. CASE Reap
    <2>1. PICK s \in Shells : pc[s] = "zombie" /\ Reaps(s)
        BY <1>6 DEF Reap
    <2> QED
        BY <1>0, <1>6, <2>1, ReapsKeeps DEF Reap, Types, terminal
<1>7. CASE HandlerReturns
    BY <1>0, <1>7, SignalsKeep DEF HandlerReturns, Types, process, terminal
<1>8. ASSUME NEW p \in Pids, OtherProcess(p) PROVE Inv'
    <2>1. UNCHANGED <<pc, pid, ignores, master, slave, hup, sigchld, handling, drop>>
        BY <1>8 DEF OtherProcess, terminal, signals
    <2>2. Types'
        BY <1>0, <1>8, <2>1 DEF OtherProcess, Types
    <2>3. ASSUME NEW u \in Shells PROVE Owned(u)'
        BY <1>0, <1>8, <2>1, ShellsAssumption DEF OtherProcess, Types, Owned, Inv
    <2> QED
        BY <2>1, <2>2, <2>3, ApartKept DEF Inv
<1>9. CASE UNCHANGED vars
    BY <1>0, <1>9, SignalsKeep DEF vars, process, terminal, signals, Types
<1> QED
    BY <1>1, <1>2, <1>3, <1>4, <1>5, <1>6, <1>7, <1>8, <1>9 DEF Next

--------------------------------------------------------------------------------
\* The inductive invariant holds in every reachable state (PtyProcess::spawn,
\* sigchld_handler, Drop).
THEOREM InvariantHolds == Spec => []Inv
BY InitInv, NextInv, PTL DEF Spec

\* Descriptors, pids and signals are what they can be; above all the pid of a shell
\* that is not reaped is its own (sigchld_handler, Drop).
THEOREM TypesHold == Spec => []TypeOK
<1>1. Inv => TypeOK
    BY DEF Inv, Types, Owned, TypeOK, States
<1> QED
    BY <1>1, InvariantHolds, PTL

\* A shell holds its own terminal and no other session's, and never a master side,
\* however many are spawned at a time (setup_child, close_fds_above).
THEOREM Isolation == Spec => []ShellsAreApart
<1>1. Inv => ShellsAreApart
    BY DEF Inv, Apart, ShellsAreApart
<1> QED
    BY <1>1, InvariantHolds, PTL
================================================================================
