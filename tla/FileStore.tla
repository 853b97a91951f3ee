------------------------------- MODULE FileStore -------------------------------
(***************************************************************************)
(* What uploads promise to whoever uses the directory: a file appears      *)
(* under its name whole and at once, replaces another only if the request  *)
(* asked for that, and only while the request has no answer; a request     *)
(* that is told "ok" has stored a file; a download gets one file from its  *)
(* beginning to its end.  How temporary files, a guard and renames do this *)
(* is module Upload, which implements this one.                            *)
(***************************************************************************)
EXTENDS Naturals

CONSTANTS Requests, Readers, Names,
          MaxFiles,     \* files in the body of a request
          NoFile,       \* what a name without a file has
          Old           \* a file that was there before the server

VARIABLES files,        \* the directory
          reads,        \* the file a download is reading
          status,       \* of a request: new, open, ok, refused or lost
          force,        \* whether it may replace files
          stored        \* which of its files it has stored

storeVars == <<files, reads, status, force, stored>>

StoreInit ==
    /\ files \in [Names -> {NoFile, Old}]
    /\ reads = [d \in Readers |-> NoFile]
    /\ status = [r \in Requests |-> "new"]
    /\ force = [r \in Requests |-> FALSE]
    /\ stored = [r \in Requests |-> {}]

Start(r) ==
    /\ status[r] = "new"
    /\ status' = [status EXCEPT ![r] = "open"]
    /\ \E f \in BOOLEAN : force' = [force EXCEPT ![r] = f]
    /\ UNCHANGED <<files, reads, stored>>

\* The k-th file of r's body gets its name, when those before it have theirs.
Put(r, n, k) ==
    /\ status[r] = "open"
    /\ files[n] = NoFile \/ force[r]
    /\ stored[r] = 1..(k - 1)
    /\ files' = [files EXCEPT ![n] = <<r, k>>]
    /\ stored' = [stored EXCEPT ![r] = @ \union {k}]
    /\ UNCHANGED <<reads, status, force>>

Accept(r) ==
    /\ status[r] = "open" /\ stored[r] # {}
    /\ status' = [status EXCEPT ![r] = "ok"]
    /\ UNCHANGED <<files, reads, force, stored>>

Refuse(r) ==
    /\ status[r] \in {"new", "open"}
    /\ status' = [status EXCEPT ![r] = "refused"]
    /\ UNCHANGED <<files, reads, force, stored>>

\* The client of r leaves.
Lose(r) ==
    /\ status[r] = "open"
    /\ status' = [status EXCEPT ![r] = "lost"]
    /\ UNCHANGED <<files, reads, force, stored>>

Open(d, n) ==
    /\ reads[d] = NoFile
    /\ reads' = [reads EXCEPT ![d] = files[n]]
    /\ UNCHANGED <<files, status, force, stored>>

Close(d) ==
    /\ reads' = [reads EXCEPT ![d] = NoFile]
    /\ UNCHANGED <<files, status, force, stored>>

\* The server dies.
Die ==
    /\ status' = [r \in Requests |-> IF status[r] = "open" THEN "lost" ELSE status[r]]
    /\ reads' = [d \in Readers |-> NoFile]
    /\ UNCHANGED <<files, force, stored>>

StoreNext ==
    \/ \E r \in Requests : Start(r) \/ Accept(r) \/ Refuse(r) \/ Lose(r)
    \/ \E r \in Requests, n \in Names, k \in 1..MaxFiles : Put(r, n, k)
    \/ \E d \in Readers : Close(d)
    \/ \E d \in Readers, n \in Names : Open(d, n)
    \/ Die

StoreSpec == StoreInit /\ [][StoreNext]_storeVars
================================================================================
