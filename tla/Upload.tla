--------------------------------- MODULE Upload ---------------------------------
(***************************************************************************)
(* File transfer (server/files.rs): uploads that stream into a temporary   *)
(* file and are renamed into place, and downloads that may run meanwhile.  *)
(*                                                                         *)
(* The file system is a directory: names to inodes, the inodes that still  *)
(* have a temporary name, and for each inode whether all of the upload is  *)
(* in it.  File::create and the two renames are blocking tasks: the        *)
(* handler waits for them, and when its client leaves the handler is       *)
(* dropped while the task goes on.  unlink in the guard's Drop is done at  *)
(* once.                                                                   *)
(*                                                                         *)
(* A crash ends the server process only: what was written to a file stays, *)
(* so does its temporary name, and the server is started again.            *)
(*                                                                         *)
(* Left out: parts of the request without a file, which are skipped;       *)
(* subdirectories and symbolic links but for the refusals they cause; the  *)
(* names of temporary files, which a listing shows and a download accepts  *)
(* like any other: readers here ask for a target name.                     *)
(***************************************************************************)
EXTENDS Naturals, FiniteSets

CONSTANTS Requests,     \* upload requests; each is used once
          Readers,      \* downloads
          Names,        \* sanitized file names
          Configured,   \* file_transfer.dir is set
          MaxFiles,     \* bound: files in one multipart body
          MaxCrashes    \* bound: crashes of the server

ASSUME ConfiguredAssumption == Configured \in BOOLEAN
ASSUME MaxFilesAssumption == MaxFiles \in Nat \ {0}
ASSUME MaxCrashesAssumption == MaxCrashes \in Nat

VARIABLES base,      \* the base directory
          entry,     \* names of the directory
          temps,     \* inodes with a temporary name
          whole,     \* inodes that hold a whole upload
          req,       \* upload handlers
          task,      \* their blocking tasks
          reading,   \* downloads: the inode they have open
          placed,    \* history: files each request put in place
          crashes    \* how often the server has crashed

store == <<base, entry, temps, whole>>
vars == <<store, req, task, reading, placed, crashes>>

NoFile == <<"no file", 0>>
Old == <<"old", 0>>    \* was there before the server

\* The k-th file of a request's body.
Uploads == Requests \X (1..MaxFiles)
Inodes == Uploads \union {Old}

\* 400, 403, 404, 409, 413, 500
Refusals == {"bad request", "forbidden", "not found", "conflict", "too large", "error"}
Lost == {"dropped",                 \* the client left, the guard was dropped
         "dropped in create",       \* the client left before there was a guard
         "crashed"}

Handler == [pc : {"new", "preflight", "fields", "creating", "writing", "renaming",
                  "draining",    \* an answer is decided, the body is read to its end
                  "ended"},
            overwrite : BOOLEAN,
            done : 0..MaxFiles,  \* files of the body that are in place
            name : Names \union {"none"},
            answer : {"none", "ok"} \union Refusals \union Lost]

NoTask == [op |-> "none", result |-> "none"]
BlockingTask == [op : {"none", "create", "rename"},
                 result : {"none", "pending", "ok", "exists", "failed"}]

Init ==
    /\ base \in {"missing", "read-only", "writable"}
    /\ entry \in [Names -> {NoFile, Old}]
    /\ Cardinality({n \in Names : entry[n] = Old}) <= (IF base = "missing" THEN 0 ELSE 1)
    /\ temps = {} /\ whole = {Old}
    /\ req = [r \in Requests |-> [pc |-> "new", overwrite |-> FALSE, done |-> 0,
                                  name |-> "none", answer |-> "none"]]
    /\ task = [r \in Requests |-> NoTask]
    /\ reading = [d \in Readers |-> NoFile]
    /\ placed = [r \in Requests |-> {}]
    /\ crashes = 0

--------------------------------------------------------------------------------
At(r, pc) == req[r].pc = pc

\* The file of r's body that is being received.
Current(r) == <<r, req[r].done + 1>>

Goes(r, pc) == req' = [req EXCEPT ![r].pc = pc]

Ends(r, answer) == req' = [req EXCEPT ![r].pc = "ended", ![r].answer = answer]

\* UploadFileGuard::drop
DropGuard(r) == temps' = temps \ {Current(r)}

\* The body is read to its end, at most DRAIN_TIMEOUT, before the refusal is sent.
Drains(r, answer) == req' = [req EXCEPT ![r].pc = "draining", ![r].answer = answer]

Spawns(r, op) == task' = [task EXCEPT ![r] = [op |-> op, result |-> "pending"]]

Results(r, result) == task' = [task EXCEPT ![r].result = result]

ContentsKept == UNCHANGED <<base, entry, whole>>
OthersKept == UNCHANGED <<reading, placed, crashes>>

--------------------------------------------------------------------------------
\* Before the body.

Begin(r) ==
    /\ At(r, "new")
    /\ \E o \in BOOLEAN : req' = [req EXCEPT ![r].pc = "preflight", ![r].overwrite = o]
    /\ UNCHANGED <<store, task>> /\ OthersKept

\* No session named, no such session, or its working directory cannot be read.
BaseUnresolved(r) ==
    /\ At(r, "new") /\ ~Configured
    /\ \E s \in {"bad request", "not found", "error"} : Ends(r, s)
    /\ UNCHANGED <<store, task>> /\ OthersKept

DeclaredTooLarge(r) ==
    /\ At(r, "preflight")
    /\ Drains(r, "too large")
    /\ UNCHANGED <<store, task>> /\ OthersKept

MakeBase(r) ==
    /\ At(r, "preflight") /\ base = "missing"
    /\ \/ base' = "writable" /\ Goes(r, "fields")
       \/ base' = base /\ Ends(r, "error")
    /\ UNCHANGED <<entry, temps, whole, task>> /\ OthersKept

CheckBase(r) ==
    /\ At(r, "preflight") /\ base # "missing"
    /\ IF base = "writable" THEN Goes(r, "fields") ELSE Ends(r, "forbidden")
    /\ UNCHANGED <<store, task>> /\ OthersKept

--------------------------------------------------------------------------------
\* One file of the body after another.

\* The body is malformed, or the file's name is refused.
BadField(r) ==
    /\ At(r, "fields")
    /\ \E s \in {"bad request", "forbidden", "error"} : Ends(r, s)
    /\ UNCHANGED <<store, task>> /\ OthersKept

NextFile(r) ==
    /\ At(r, "fields") /\ req[r].done < MaxFiles
    /\ \E n \in Names :
         IF ~req[r].overwrite /\ entry[n] # NoFile
         THEN Drains(r, "conflict") /\ UNCHANGED task
         ELSE /\ req' = [req EXCEPT ![r].pc = "creating", ![r].name = n]
              /\ Spawns(r, "create")
    /\ UNCHANGED store /\ OthersKept

\* The guard comes only with the handler's next step.
PerformCreate(r) ==
    /\ task[r] = [op |-> "create", result |-> "pending"]
    /\ \/ temps' = temps \union {Current(r)} /\ Results(r, "ok")
       \/ temps' = temps /\ Results(r, "failed")
    /\ UNCHANGED req /\ ContentsKept /\ OthersKept

Created(r) ==
    /\ At(r, "creating") /\ task[r].result \in {"ok", "failed"}
    /\ IF task[r].result = "ok" THEN Goes(r, "writing") ELSE Ends(r, "error")
    /\ task' = [task EXCEPT ![r] = NoTask]
    /\ UNCHANGED store /\ OthersKept

\* The guard holds on until the body is drained.
TooLarge(r) ==
    /\ At(r, "writing")
    /\ Drains(r, "too large")
    /\ UNCHANGED <<store, task>> /\ OthersKept

\* What a return before the guard would do.
WriteFailsUnguarded(r) ==
    /\ At(r, "writing")
    /\ \E s \in {"bad request", "error"} : Ends(r, s)
    /\ UNCHANGED <<store, task>> /\ OthersKept

WriteFails(r) ==
    /\ At(r, "writing")
    /\ \E s \in {"bad request", "error"} : Ends(r, s)
    /\ DropGuard(r)
    /\ UNCHANGED task /\ ContentsKept /\ OthersKept

\* What a rename without the flush would do.
WrittenUnflushed(r) ==
    /\ At(r, "writing")
    /\ Goes(r, "renaming")
    /\ Spawns(r, "rename")
    /\ UNCHANGED store /\ OthersKept

Written(r) ==
    /\ At(r, "writing")
    /\ whole' = whole \union {Current(r)}
    /\ Goes(r, "renaming")
    /\ Spawns(r, "rename")
    /\ UNCHANGED <<base, entry, temps>> /\ OthersKept

\* What a plain rename would do, after the check in NextFile.
PerformPlainRename(r) ==
    /\ task[r] = [op |-> "rename", result |-> "pending"]
    /\ \/ /\ Current(r) \in temps
          /\ entry' = [entry EXCEPT ![req[r].name] = Current(r)]
          /\ temps' = temps \ {Current(r)}
          /\ placed' = [placed EXCEPT ![r] = @ \union {req[r].done + 1}]
          /\ Results(r, "ok")
       \/ Results(r, "failed") /\ UNCHANGED <<entry, temps, placed>>
    /\ UNCHANGED <<base, whole, req, reading, crashes>>

\* rename, or renameat2(RENAME_NOREPLACE) without overwrite.  The temporary name is
\* gone when the guard of a dropped handler came first.
PerformRename(r) ==
    /\ task[r] = [op |-> "rename", result |-> "pending"]
    /\ \/ /\ Current(r) \in temps
          /\ req[r].overwrite \/ entry[req[r].name] = NoFile
          /\ entry' = [entry EXCEPT ![req[r].name] = Current(r)]
          /\ temps' = temps \ {Current(r)}
          /\ placed' = [placed EXCEPT ![r] = @ \union {req[r].done + 1}]
          /\ Results(r, "ok")
       \/ /\ Current(r) \in temps
          /\ ~req[r].overwrite /\ entry[req[r].name] # NoFile
          /\ Results(r, "exists")
          /\ UNCHANGED <<entry, temps, placed>>
       \/ Results(r, "failed") /\ UNCHANGED <<entry, temps, placed>>
    /\ UNCHANGED <<base, whole, req, reading, crashes>>

\* What a handler that does not look at the result would do.
RenamedAnyhow(r) ==
    /\ At(r, "renaming") /\ task[r].result \in {"ok", "exists", "failed"}
    /\ req' = [req EXCEPT ![r].pc = "fields", ![r].done = req[r].done + 1]
    /\ DropGuard(r)
    /\ task' = [task EXCEPT ![r] = NoTask]
    /\ ContentsKept /\ OthersKept

Renamed(r) ==
    /\ At(r, "renaming") /\ task[r].result = "ok"
    /\ req' = [req EXCEPT ![r].pc = "fields", ![r].done = req[r].done + 1]
    /\ task' = [task EXCEPT ![r] = NoTask]
    /\ UNCHANGED store /\ OthersKept

RenameFailed(r) ==
    /\ At(r, "renaming") /\ task[r].result \in {"exists", "failed"}
    /\ Ends(r, IF task[r].result = "exists" THEN "conflict" ELSE "error")
    /\ DropGuard(r)
    /\ task' = [task EXCEPT ![r] = NoTask]
    /\ ContentsKept /\ OthersKept

NoMoreFiles(r) ==
    /\ At(r, "fields")
    /\ Ends(r, IF req[r].done = 0 THEN "bad request" ELSE "ok")
    /\ UNCHANGED <<store, task>> /\ OthersKept

Drained(r) ==
    /\ At(r, "draining")
    /\ Goes(r, "ended")
    /\ DropGuard(r)
    /\ UNCHANGED task /\ ContentsKept /\ OthersKept

\* What a guard that is disarmed before the rename would do.
DroppedDisarmed(r) ==
    /\ req[r].pc \notin {"new", "ended"}
    /\ IF At(r, "creating")
       THEN Ends(r, "dropped in create") /\ UNCHANGED temps
       ELSE /\ Ends(r, "dropped")
            /\ IF At(r, "renaming") THEN UNCHANGED temps ELSE DropGuard(r)
    /\ UNCHANGED task /\ ContentsKept /\ OthersKept

\* The client leaves and the handler's future is dropped; a task goes on.
Dropped(r) ==
    /\ req[r].pc \notin {"new", "ended"}
    /\ IF At(r, "creating")
       THEN Ends(r, "dropped in create") /\ UNCHANGED temps
       ELSE Ends(r, "dropped") /\ DropGuard(r)
    /\ UNCHANGED task /\ ContentsKept /\ OthersKept

--------------------------------------------------------------------------------
\* Downloads: the inode is opened once and streamed.

Download(d) ==
    /\ reading[d] = NoFile
    /\ \E n \in Names : reading' = [reading EXCEPT ![d] = entry[n]]
    /\ UNCHANGED <<store, req, task, placed, crashes>>

DownloadEnds(d) ==
    /\ reading[d] # NoFile
    /\ reading' = [reading EXCEPT ![d] = NoFile]
    /\ UNCHANGED <<store, req, task, placed, crashes>>

\* Nothing removes the temporary files that are left.
Crash ==
    /\ crashes < MaxCrashes
    /\ crashes' = crashes + 1
    /\ req' = [r \in Requests |->
                 IF req[r].pc \in {"new", "ended"} THEN req[r]
                 ELSE [req[r] EXCEPT !.pc = "ended", !.answer = "crashed"]]
    /\ task' = [r \in Requests |-> NoTask]
    /\ reading' = [d \in Readers |-> NoFile]
    /\ UNCHANGED <<store, placed>>

Handle(r) ==
    \/ Begin(r) \/ BaseUnresolved(r) \/ DeclaredTooLarge(r) \/ MakeBase(r) \/ CheckBase(r)
    \/ BadField(r) \/ NextFile(r) \/ Created(r) \/ TooLarge(r) \/ WriteFails(r)
    \/ Written(r) \/ Renamed(r) \/ RenameFailed(r) \/ NoMoreFiles(r) \/ Drained(r)

Perform(r) == PerformCreate(r) \/ PerformRename(r)

Next ==
    \/ \E r \in Requests : Handle(r) \/ Perform(r) \/ Dropped(r)
    \/ \E d \in Readers : Download(d) \/ DownloadEnds(d)
    \/ Crash

Spec == Init /\ [][Next]_vars

--------------------------------------------------------------------------------
\* Types, and: a handler waits for a task exactly while it is creating or renaming.
TypeOK ==
    /\ base \in {"missing", "read-only", "writable"}
    /\ entry \in [Names -> Inodes \union {NoFile}]
    /\ temps \subseteq Uploads
    /\ whole \subseteq Inodes
    /\ req \in [Requests -> Handler]
    /\ task \in [Requests -> BlockingTask]
    /\ reading \in [Readers -> Inodes \union {NoFile}]
    /\ placed \in [Requests -> SUBSET (1..MaxFiles)]
    /\ crashes \in 0..MaxCrashes
    /\ \A r \in Requests : /\ At(r, "creating") => task[r].op = "create"
                           /\ At(r, "renaming") => task[r].op = "rename"

\* No name of the directory and no download ever has a file that is not whole,
\* whichever uploads run, fail, are abandoned or die with the server
\* (upload_file: "readers never observe a partially written file").
WholeFilesOnly ==
    /\ \A n \in Names : entry[n] \in whole \union {NoFile}
    /\ \A d \in Readers : reading[d] \in whole \union {NoFile}

\* A file that is in place is replaced only by an upload that asked for it, even when
\* several uploads of one name passed the check of exists() together, and no name
\* disappears.
OnlyOverwriteReplaces ==
    [][\A n \in Names :
         entry[n] # NoFile /\ entry'[n] # entry[n]
           => \E u \in Uploads : entry'[n] = u /\ req[u[1]].overwrite]_vars

\* A temporary file is that of the upload in progress.  It is left behind only by a
\* client that left between the creation of the file and the guard, or by a crash.
TempsAreTransient ==
    \A u \in temps :
        LET h == req[u[1]] IN
        \/ /\ h.pc \in {"creating", "writing", "renaming", "draining"}
           /\ u[2] = h.done + 1
        \/ h.answer \in {"dropped in create", "crashed"}

\* The answer says what happened: 200 that each file of the body was put in place, a
\* refusal that the files before the refused one were, and nothing of the upload is
\* left to happen afterwards.
AnswersAreTrue ==
    \A r \in Requests :
        At(r, "ended") /\ req[r].answer \notin Lost
          => /\ placed[r] = 1..req[r].done
             /\ req[r].answer = "ok" => placed[r] # {}
             /\ task[r] = NoTask

\* What a reader finds in a file: a part of it would show.
Seen(f) == IF f \in whole \union {NoFile} THEN f ELSE <<"partial", 0>>

\* What a request has come to, as its client sees it.
Status(r) ==
    IF At(r, "new") THEN "new"
    ELSE IF ~At(r, "ended") THEN "open"
    ELSE IF req[r].answer = "ok" THEN "ok"
    ELSE IF req[r].answer \in Refusals THEN "refused"
    ELSE "lost"

Contents == [n \in Names |-> Seen(entry[n])]
Reads == [d \in Readers |-> Seen(reading[d])]
Statuses == [r \in Requests |-> Status(r)]
Forces == [r \in Requests |-> req[r].overwrite]

Store == INSTANCE FileStore WITH files <- Contents, reads <- Reads, status <- Statuses,
                                 force <- Forces, stored <- placed

\* Temporary files, the guard and the two renames implement a store of whole files:
\* however uploads of one name race, fail, are abandoned or die with the server, a
\* file appears at once, in the order of its body, before its request is answered,
\* and where another was only if the request asked for it; nothing is stored for a
\* client that has its answer or has gone, and 200 comes after a file was stored.
ImplementsStore == Store!StoreSpec
================================================================================
