----------------------------- MODULE UploadProofs -----------------------------
(***************************************************************************)
(* Uploads for any number of requests, files and names: nobody sees a file *)
(* that is not whole, no file is replaced unasked, temporary files are     *)
(* cleaned up but in the two known cases, answers tell the truth, and all  *)
(* of it together is a store of whole files.                               *)
(***************************************************************************)
EXTENDS Upload, TLAPS

\* The handler is receiving a file, and owns its temporary file.
Receiving(r) == req[r].pc \in {"creating", "writing", "renaming"}

\* A request has an answer once it is decided, and 200 only after a file.
AnswerDecided(r) ==
    /\ req[r].pc \notin {"draining", "ended"} => req[r].answer = "none"
    /\ At(r, "draining") => req[r].answer \in Refusals
    /\ At(r, "ended") => req[r].answer # "none"
    /\ req[r].answer = "ok" => req[r].done > 0

\* A blocking task is the one its handler waits for, or was left by a client that
\* has gone; a file is renamed when all of it is written.
TaskInOrder(r) ==
    /\ At(r, "creating") => task[r].op = "create"
    /\ At(r, "renaming") => task[r].op = "rename"
    /\ Receiving(r) \/ task[r].op # "none" => req[r].done < MaxFiles
    /\ task[r].op = "none" => task[r] = NoTask
    /\ task[r].op = "create" => At(r, "creating") \/ req[r].answer = "dropped in create"
    /\ task[r].op = "rename" => /\ At(r, "renaming") \/ req[r].answer = "dropped"
                                /\ Current(r) \in whole

\* The temporary files of r.
TempInOrder(r) ==
    /\ task[r].op = "create" /\ task[r].result # "ok" => Current(r) \notin temps
    /\ task[r].op = "rename" /\ task[r].result = "ok" => Current(r) \notin temps
    /\ \A k \in 1..MaxFiles : <<r, k>> \in temps =>
         \/ (Receiving(r) \/ At(r, "draining")) /\ k = req[r].done + 1
         \/ req[r].answer \in {"dropped in create", "crashed"}

\* What r has put in place.
PlacedInOrder(r) ==
    req[r].answer \notin Lost =>
        placed[r] = IF task[r].op = "rename" /\ task[r].result = "ok"
                    THEN 1..(req[r].done + 1) ELSE 1..req[r].done

InOrder(r) == AnswerDecided(r) /\ TaskInOrder(r) /\ TempInOrder(r) /\ PlacedInOrder(r)

IInv == TypeOK /\ WholeFilesOnly /\ \A r \in Requests : InOrder(r)

USE DEF At, Current

\* A request whose handler, task and files a step leaves alone stays in order, as
\* files only become whole.
LEMMA Untouched ==
  ASSUME NEW r \in Requests, InOrder(r), TypeOK,
         req'[r] = req[r], task'[r] = task[r], placed'[r] = placed[r],
         whole \subseteq whole',
         \A k \in 1..MaxFiles : <<r, k>> \in temps' <=> <<r, k>> \in temps
  PROVE  InOrder(r)'
  <1>1. req[r].done \in 0..MaxFiles  BY DEF TypeOK, Handler
  <1>2. task[r].op # "none" => req[r].done + 1 \in 1..MaxFiles
    <2>1. task[r].op # "none" => req[r].done < MaxFiles  BY DEF InOrder, TaskInOrder
    <2>2. QED  BY <1>1, <2>1, MaxFilesAssumption
  <1>3. AnswerDecided(r)'  BY DEF InOrder, AnswerDecided
  <1>4. TaskInOrder(r)'  BY DEF InOrder, TaskInOrder, Receiving
  <1>5. TempInOrder(r)'  BY <1>2 DEF InOrder, TempInOrder, Receiving
  <1>6. PlacedInOrder(r)'  BY DEF InOrder, PlacedInOrder
  <1>7. QED  BY <1>3, <1>4, <1>5, <1>6 DEF InOrder

\* At the start no request has done anything.
LEMMA Initial == Init => IInv
  <1> SUFFICES ASSUME Init PROVE IInv  OBVIOUS
  <1>1. TypeOK
    BY MaxFilesAssumption, MaxCrashesAssumption
    DEF Init, TypeOK, Handler, BlockingTask, NoTask, Inodes
  <1>2. WholeFilesOnly  BY DEF Init, WholeFilesOnly
  <1>3. ASSUME NEW r \in Requests PROVE InOrder(r)
    <2>1. /\ req[r] = [pc |-> "new", overwrite |-> FALSE, done |-> 0, name |-> "none",
                       answer |-> "none"]
          /\ task[r] = NoTask /\ placed[r] = {} /\ temps = {}
      BY DEF Init
    <2>2. AnswerDecided(r)  BY <2>1 DEF AnswerDecided
    <2>3. TaskInOrder(r)  BY <2>1, MaxFilesAssumption DEF TaskInOrder, Receiving, NoTask
    <2>4. TempInOrder(r)  BY <2>1 DEF TempInOrder
    <2>5. PlacedInOrder(r)  BY <2>1 DEF PlacedInOrder, NoTask
    <2>6. QED  BY <2>2, <2>3, <2>4, <2>5 DEF InOrder
  <1>4. QED  BY <1>1, <1>2, <1>3 DEF IInv

\* A step takes r's handler to pc with an answer; what it is receiving stays.
HandlerGoes(r, pc, answer) ==
    /\ req' \in [Requests -> Handler]
    /\ req'[r].pc = pc /\ req'[r].answer = answer /\ req'[r].done = req[r].done
    /\ \A q \in Requests \ {r} : req'[q] = req[q]

Pcs == {"new", "preflight", "fields", "creating", "writing", "renaming", "draining", "ended"}

\* A handler that goes on keeps its answer.
LEMMA GoesHandler ==
  ASSUME TypeOK, NEW r \in Requests, NEW pc \in Pcs, Goes(r, pc)
  PROVE  HandlerGoes(r, pc, req[r].answer)
  <1>1. req[r] \in Handler  BY DEF TypeOK
  <1>2. [req[r] EXCEPT !.pc = pc] \in Handler  BY <1>1 DEF Handler, Pcs
  <1>3. req' = [req EXCEPT ![r] = [req[r] EXCEPT !.pc = pc]]  BY DEF Goes
  <1>4. QED  BY <1>1, <1>2, <1>3 DEF TypeOK, HandlerGoes, Handler

\* An answer ends the handler ...
LEMMA EndsHandler ==
  ASSUME TypeOK, NEW r \in Requests, NEW answer \in {"ok"} \union Refusals \union Lost,
         Ends(r, answer)
  PROVE  HandlerGoes(r, "ended", answer)
  <1> DEFINE h == [req[r] EXCEPT !.pc = "ended", !.answer = answer]
  <1>1. req[r] \in Handler  BY DEF TypeOK
  <1>2. h \in Handler  BY <1>1 DEF Handler
  <1>3. req' = [req EXCEPT ![r] = h]  BY <1>1 DEF Ends, TypeOK, Handler
  <1>4. h.pc = "ended" /\ h.answer = answer /\ h.done = req[r].done  BY <1>1 DEF Handler
  <1> HIDE DEF h
  <1>5. QED  BY <1>2, <1>3, <1>4 DEF TypeOK, HandlerGoes

\* ... or waits for the body to be read.
LEMMA DrainsHandler ==
  ASSUME TypeOK, NEW r \in Requests, NEW answer \in Refusals, Drains(r, answer)
  PROVE  HandlerGoes(r, "draining", answer)
  <1> DEFINE h == [req[r] EXCEPT !.pc = "draining", !.answer = answer]
  <1>1. req[r] \in Handler  BY DEF TypeOK
  <1>2. h \in Handler  BY <1>1 DEF Handler
  <1>3. req' = [req EXCEPT ![r] = h]  BY <1>1 DEF Drains, TypeOK, Handler
  <1>4. h.pc = "draining" /\ h.answer = answer /\ h.done = req[r].done  BY <1>1 DEF Handler
  <1> HIDE DEF h
  <1>5. QED  BY <1>2, <1>3, <1>4 DEF TypeOK, HandlerGoes

\* The store and the rest of the types after a step.
RestTyped ==
    /\ base \in {"missing", "read-only", "writable"}
    /\ entry \in [Names -> Inodes \union {NoFile}]
    /\ temps \subseteq Uploads /\ whole \subseteq Inodes
    /\ task \in [Requests -> BlockingTask]
    /\ reading \in [Readers -> Inodes \union {NoFile}]
    /\ placed \in [Requests -> SUBSET (1..MaxFiles)]
    /\ crashes \in 0..MaxCrashes

\* A step of one request keeps the invariant when it keeps the request in order and
\* leaves the others alone.
LEMMA StepKeeps ==
  ASSUME IInv, NEW r \in Requests, InOrder(r)', RestTyped', WholeFilesOnly',
         req' \in [Requests -> Handler],
         \A q \in Requests \ {r} : /\ req'[q] = req[q] /\ task'[q] = task[q]
                                   /\ placed'[q] = placed[q],
         whole \subseteq whole',
         temps' \subseteq temps \union {Current(r)}, temps \subseteq temps' \union {Current(r)}
  PROVE  IInv'
  <1>1. ASSUME NEW q \in Requests PROVE InOrder(q)'
    <2>1. CASE q = r  BY <2>1
    <2>2. CASE q # r
      <3>1. ASSUME NEW k \in 1..MaxFiles PROVE <<q, k>> \in temps' <=> <<q, k>> \in temps
        BY <2>2
      <3>2. InOrder(q) /\ TypeOK  BY DEF IInv
      <3>3. req'[q] = req[q] /\ task'[q] = task[q] /\ placed'[q] = placed[q]  BY <2>2
      <3>4. QED  BY <3>1, <3>2, <3>3, Untouched
    <2>3. QED  BY <2>1, <2>2
  <1>2. \A q \in Requests : /\ At(q, "creating")' => task'[q].op = "create"
                            /\ At(q, "renaming")' => task'[q].op = "rename"
    BY <1>1 DEF InOrder, TaskInOrder
  <1>3. TypeOK'  BY <1>2 DEF TypeOK, RestTyped
  <1>4. QED  BY <1>1, <1>3 DEF IInv

\* Before a file is received a request may be answered, or go on.
LEMMA DecideInOrder ==
  ASSUME IInv, NEW r \in Requests, req[r].pc \in {"new", "preflight", "fields"},
         NEW pc, NEW answer, HandlerGoes(r, pc, answer),
         UNCHANGED <<temps, whole, task, placed>>,
         \/ pc = "ended" /\ answer \in Refusals \union {"ok"} /\ (answer = "ok" => req[r].done > 0)
         \/ pc = "draining" /\ answer \in Refusals
         \/ pc \in {"preflight", "fields"} /\ answer = "none"
  PROVE  InOrder(r)'
  <1>1. InOrder(r) /\ req[r].answer = "none"  BY DEF IInv, InOrder, AnswerDecided
  <1>2. task[r] = NoTask /\ task'[r] = NoTask /\ task'[r].op = "none"
    BY <1>1 DEF IInv, TypeOK, BlockingTask, InOrder, TaskInOrder, NoTask
  <1>3. req'[r].pc = pc /\ req'[r].answer = answer /\ req'[r].done = req[r].done
    BY DEF HandlerGoes
  <1>4. \A k \in 1..MaxFiles : <<r, k>> \notin temps'
    BY <1>1 DEF InOrder, TempInOrder, Receiving
  <1>5. AnswerDecided(r)'  BY <1>3 DEF AnswerDecided, Refusals
  <1>6. TaskInOrder(r)'  BY <1>2, <1>3 DEF TaskInOrder, NoTask, Receiving
  <1>7. TempInOrder(r)'  BY <1>2, <1>4 DEF TempInOrder
  <1>8. PlacedInOrder(r)'
    BY <1>1, <1>2, <1>3 DEF InOrder, PlacedInOrder, NoTask, Lost
  <1>9. QED  BY <1>5, <1>6, <1>7, <1>8 DEF InOrder

\* Steps of the handler while it receives nothing.
LEMMA QuietStep ==
  ASSUME IInv, NEW r \in Requests,
         \/ Begin(r) \/ BaseUnresolved(r) \/ DeclaredTooLarge(r) \/ MakeBase(r) \/ CheckBase(r)
         \/ BadField(r) \/ NoMoreFiles(r) \/ (NextFile(r) /\ UNCHANGED task)
  PROVE  IInv'
  <1> USE DEF OthersKept, store
  <1>1. TypeOK /\ req[r].answer \in {"none"} \union Lost \union Refusals \union {"ok"}
        /\ (req[r].pc \in {"new", "preflight", "fields"} => req[r].answer = "none")
    BY DEF IInv, InOrder, AnswerDecided, TypeOK, Handler
  <1>2. /\ req[r].pc \in {"new", "preflight", "fields"}
        /\ UNCHANGED <<temps, whole, entry, task, reading, placed, crashes>>
        /\ base' \in {"missing", "read-only", "writable"}
    BY <1>1 DEF Begin, BaseUnresolved, DeclaredTooLarge, MakeBase, CheckBase, BadField,
                NoMoreFiles, NextFile, TypeOK
  <1>3. \/ \E s \in Refusals : HandlerGoes(r, "ended", s) \/ HandlerGoes(r, "draining", s)
        \/ HandlerGoes(r, "ended", "ok") /\ req[r].done > 0
        \/ HandlerGoes(r, "preflight", "none") \/ HandlerGoes(r, "fields", "none")
    <2>1. ASSUME NEW s \in Refusals, Ends(r, s) PROVE HandlerGoes(r, "ended", s)
      BY <1>1, <2>1, EndsHandler
    <2>2. ASSUME NEW s \in Refusals, Drains(r, s) PROVE HandlerGoes(r, "draining", s)
      BY <1>1, <2>2, DrainsHandler
    <2>3. ASSUME Goes(r, "fields") PROVE HandlerGoes(r, "fields", "none")
      BY <1>1, <1>2, <2>3, GoesHandler DEF Pcs
    <2>4. CASE Begin(r)
      <3>1. PICK o \in BOOLEAN :
              req' = [req EXCEPT ![r].pc = "preflight", ![r].overwrite = o]
        BY <2>4 DEF Begin
      <3> DEFINE h == [req[r] EXCEPT !.pc = "preflight", !.overwrite = o]
      <3>2. req[r] \in Handler  BY <1>1 DEF TypeOK
      <3>3. h \in Handler  BY <3>2 DEF Handler
      <3>4. req' = [req EXCEPT ![r] = h]  BY <1>1, <3>1, <3>2 DEF TypeOK, Handler
      <3>5. h.pc = "preflight" /\ h.answer = "none" /\ h.done = req[r].done
        BY <1>1, <1>2, <3>2 DEF Handler
      <3> HIDE DEF h
      <3>6. HandlerGoes(r, "preflight", "none")  BY <1>1, <3>3, <3>4, <3>5 DEF TypeOK, HandlerGoes
      <3>7. QED  BY <3>6
    <2>5. CASE BaseUnresolved(r)  BY <2>1, <2>5 DEF BaseUnresolved, Refusals
    <2>6. CASE DeclaredTooLarge(r)  BY <2>2, <2>6 DEF DeclaredTooLarge, Refusals
    <2>7. CASE MakeBase(r)
      <3>1. Goes(r, "fields") \/ Ends(r, "error")  BY <2>7 DEF MakeBase
      <3>2. QED  BY <2>1, <2>3, <3>1 DEF Refusals
    <2>8. CASE CheckBase(r)
      <3>1. Goes(r, "fields") \/ Ends(r, "forbidden")  BY <2>8 DEF CheckBase
      <3>2. QED  BY <2>1, <2>3, <3>1 DEF Refusals
    <2>9. CASE BadField(r)  BY <2>1, <2>9 DEF BadField, Refusals
    <2>10. CASE NoMoreFiles(r)
      <3>1. CASE req[r].done = 0
        <4>1. Ends(r, "bad request")  BY <2>10, <3>1 DEF NoMoreFiles
        <4>2. QED  BY <2>1, <4>1 DEF Refusals
      <3>2. CASE req[r].done # 0
        <4>1. HandlerGoes(r, "ended", "ok")  BY <1>1, <2>10, <3>2, EndsHandler DEF NoMoreFiles
        <4>2. req[r].done > 0  BY <1>1, <3>2 DEF TypeOK, Handler
        <4>3. QED  BY <4>1, <4>2
      <3>3. QED  BY <3>1, <3>2
    <2>11. CASE NextFile(r) /\ UNCHANGED task
      <3>1. PICK n \in Names :
              IF ~req[r].overwrite /\ entry[n] # NoFile
              THEN Drains(r, "conflict") /\ UNCHANGED task
              ELSE /\ req' = [req EXCEPT ![r].pc = "creating", ![r].name = n]
                   /\ Spawns(r, "create")
        BY <2>11 DEF NextFile
      <3>2. task[r].op # "create"
        BY <1>1, <1>2 DEF IInv, InOrder, TaskInOrder
      <3>3. ~Spawns(r, "create")  BY <1>1, <2>11, <3>2 DEF Spawns, TypeOK
      <3>4. Drains(r, "conflict")  BY <3>1, <3>3
      <3>5. QED  BY <2>2, <3>4 DEF Refusals
    <2>12. QED
      BY <2>4, <2>5, <2>6, <2>7, <2>8, <2>9, <2>10, <2>11
  <1>4. InOrder(r)'
    <2>1. CASE \E s \in Refusals : HandlerGoes(r, "ended", s) \/ HandlerGoes(r, "draining", s)
      <3>1. PICK s \in Refusals : HandlerGoes(r, "ended", s) \/ HandlerGoes(r, "draining", s)
        BY <2>1
      <3>2. s # "ok"  BY DEF Refusals
      <3>3. QED  BY <1>2, <3>1, <3>2, DecideInOrder
    <2>2. QED  BY <1>2, <1>3, <2>1, DecideInOrder
  <1>5. RestTyped' /\ WholeFilesOnly'
    BY <1>1, <1>2 DEF RestTyped, TypeOK, IInv, WholeFilesOnly
  <1>6. /\ req' \in [Requests -> Handler]
        /\ \A q \in Requests \ {r} : req'[q] = req[q]
    BY <1>3 DEF HandlerGoes
  <1>7. QED  BY <1>2, <1>4, <1>5, <1>6, StepKeeps

\* Facts about a request that is receiving a file.
LEMMA ReceivingFacts ==
  ASSUME IInv, NEW r \in Requests, Receiving(r) \/ task[r].op # "none"
  PROVE  /\ req[r].done \in Nat /\ req[r].done < MaxFiles
         /\ Current(r) \in Uploads
         /\ InOrder(r) /\ TypeOK
  <1>1. InOrder(r) /\ TypeOK  BY DEF IInv
  <1>2. req[r].done < MaxFiles  BY <1>1 DEF InOrder, TaskInOrder
  <1>3. req[r].done \in 0..MaxFiles  BY <1>1 DEF TypeOK, Handler
  <1>4. req[r].done + 1 \in 1..MaxFiles  BY <1>2, <1>3, MaxFilesAssumption
  <1>5. QED  BY <1>1, <1>2, <1>3, <1>4, MaxFilesAssumption DEF Uploads

\* A temporary file is created by one task and guarded from the next step on.
LEMMA CreateStep ==
  ASSUME IInv, NEW r \in Requests,
         (NextFile(r) /\ ~UNCHANGED task) \/ PerformCreate(r) \/ Created(r)
  PROVE  IInv'
  <1> USE DEF OthersKept, store, ContentsKept
  <1>1. TypeOK /\ InOrder(r) /\ WholeFilesOnly  BY DEF IInv
  <1>2. CASE NextFile(r) /\ ~UNCHANGED task
    <2>1. PICK n \in Names :
            /\ req' = [req EXCEPT ![r].pc = "creating", ![r].name = n]
            /\ Spawns(r, "create")
      BY <1>2 DEF NextFile
    <2> DEFINE h == [req[r] EXCEPT !.pc = "creating", !.name = n]
    <2>2. req[r] \in Handler  BY <1>1 DEF TypeOK
    <2>3. h \in Handler  BY <2>2 DEF Handler
    <2>4. req' = [req EXCEPT ![r] = h]  BY <1>1, <2>1, <2>2 DEF TypeOK, Handler
    <2>5. h.pc = "creating" /\ h.answer = req[r].answer /\ h.done = req[r].done
      BY <2>2 DEF Handler
    <2> HIDE DEF h
    <2>6. HandlerGoes(r, "creating", req[r].answer)
      BY <1>1, <2>3, <2>4, <2>5 DEF TypeOK, HandlerGoes
    <2>7. /\ task' = [task EXCEPT ![r] = [op |-> "create", result |-> "pending"]]
          /\ At(r, "fields") /\ req[r].done < MaxFiles
          /\ UNCHANGED <<base, entry, temps, whole, reading, placed, crashes>>
      BY <1>2, <2>1 DEF NextFile, Spawns
    <2>8. req[r].answer = "none" /\ task[r] = NoTask /\ task[r].op = "none"
      BY <1>1, <2>7 DEF InOrder, AnswerDecided, TaskInOrder, TypeOK, BlockingTask
    <2>9. \A k \in 1..MaxFiles : <<r, k>> \notin temps
      BY <1>1, <2>7, <2>8 DEF InOrder, TempInOrder, Receiving
    <2>10. Current(r) \notin temps
      BY <1>1, <2>7, <2>9 DEF TypeOK, Uploads
    <2>11. /\ task'[r].op = "create" /\ task'[r].result = "pending"
           /\ task' \in [Requests -> BlockingTask]
      BY <1>1, <2>7 DEF TypeOK, BlockingTask
    <2>12. InOrder(r)'
      <3>1. AnswerDecided(r)'  BY <2>6, <2>8 DEF AnswerDecided, HandlerGoes
      <3>2. TaskInOrder(r)'  BY <2>6, <2>7, <2>11 DEF TaskInOrder, HandlerGoes
      <3>3. TempInOrder(r)'  BY <2>6, <2>7, <2>9, <2>10, <2>11 DEF TempInOrder, HandlerGoes
      <3>4. PlacedInOrder(r)'
        BY <1>1, <2>6, <2>7, <2>8, <2>11 DEF InOrder, PlacedInOrder, HandlerGoes, Lost
      <3>5. QED  BY <3>1, <3>2, <3>3, <3>4 DEF InOrder
    <2>13. RestTyped' /\ WholeFilesOnly'
      BY <1>1, <2>7, <2>11 DEF RestTyped, TypeOK, WholeFilesOnly
    <2>14. \A q \in Requests \ {r} : req'[q] = req[q] /\ task'[q] = task[q]
      BY <1>1, <2>6, <2>7 DEF HandlerGoes, TypeOK
    <2>15. QED  BY <2>6, <2>7, <2>12, <2>13, <2>14, StepKeeps DEF HandlerGoes
  <1>3. CASE PerformCreate(r)
    <2>1. task[r].op = "create" /\ task[r].result = "pending"  BY <1>3 DEF PerformCreate
    <2>2. /\ Current(r) \in Uploads /\ req[r].done < MaxFiles /\ req[r].done \in Nat
      BY <2>1, ReceivingFacts
    <2>3. /\ UNCHANGED <<base, entry, whole, req, reading, placed, crashes>>
          /\ \E res \in {"ok", "failed"} :
               /\ task' = [task EXCEPT ![r].result = res]
               /\ temps' = IF res = "ok" THEN temps \union {Current(r)} ELSE temps
      BY <1>3 DEF PerformCreate, Results
    <2>4. PICK res \in {"ok", "failed"} :
               /\ task' = [task EXCEPT ![r].result = res]
               /\ temps' = IF res = "ok" THEN temps \union {Current(r)} ELSE temps
      BY <2>3
    <2>5. /\ task' \in [Requests -> BlockingTask]
          /\ task'[r].op = "create" /\ task'[r].result = res
          /\ \A q \in Requests \ {r} : task'[q] = task[q]
      BY <1>1, <2>1, <2>4 DEF TypeOK, BlockingTask
    <2>6. InOrder(r)'
      <3>1. AnswerDecided(r)'  BY <1>1, <2>3 DEF InOrder, AnswerDecided
      <3>2. TaskInOrder(r)'  BY <1>1, <2>1, <2>3, <2>5 DEF InOrder, TaskInOrder, Receiving
      <3>3. TempInOrder(r)'
        <4>1. At(r, "creating") \/ req[r].answer = "dropped in create"
          BY <1>1, <2>1 DEF InOrder, TaskInOrder
        <4>2. Current(r) \notin temps  BY <1>1, <2>1 DEF InOrder, TempInOrder
        <4>3. res # "ok" => Current(r)' \notin temps'  BY <2>3, <2>4, <4>2
        <4>4. \A k \in 1..MaxFiles :
                <<r, k>> \in temps' => <<r, k>> \in temps \/ k = req[r].done + 1
          BY <2>4
        <4>5. QED  BY <1>1, <2>3, <2>5, <4>1, <4>3, <4>4 DEF InOrder, TempInOrder, Receiving
      <3>4. PlacedInOrder(r)'  BY <1>1, <2>1, <2>3, <2>5 DEF InOrder, PlacedInOrder
      <3>5. QED  BY <3>1, <3>2, <3>3, <3>4 DEF InOrder
    <2>7. RestTyped' /\ WholeFilesOnly'
      BY <1>1, <2>2, <2>3, <2>4, <2>5 DEF RestTyped, TypeOK, WholeFilesOnly
    <2>8. req' \in [Requests -> Handler]  BY <1>1, <2>3 DEF TypeOK
    <2>9. temps' \subseteq temps \union {Current(r)} /\ temps \subseteq temps'  BY <2>4
    <2>10. QED  BY <2>3, <2>5, <2>6, <2>7, <2>8, <2>9, StepKeeps
  <1>4. CASE Created(r)
    <2>1. At(r, "creating") /\ task[r].result \in {"ok", "failed"} /\ task[r].op = "create"
      BY <1>1, <1>4 DEF Created, InOrder, TaskInOrder
    <2>2. req[r].answer = "none"  BY <1>1, <2>1 DEF InOrder, AnswerDecided
    <2>3. /\ task' = [task EXCEPT ![r] = NoTask]
          /\ UNCHANGED <<base, entry, temps, whole, reading, placed, crashes>>
      BY <1>4 DEF Created
    <2>4. /\ task' \in [Requests -> BlockingTask]
          /\ task'[r] = NoTask /\ task'[r].op = "none"
          /\ \A q \in Requests \ {r} : task'[q] = task[q]
      BY <1>1, <2>3 DEF TypeOK, BlockingTask, NoTask
    <2>5. IF task[r].result = "ok" THEN HandlerGoes(r, "writing", "none")
                                   ELSE HandlerGoes(r, "ended", "error")
      <3>1. ASSUME Goes(r, "writing") PROVE HandlerGoes(r, "writing", "none")
        BY <1>1, <2>2, <3>1, GoesHandler DEF Pcs
      <3>2. ASSUME Ends(r, "error") PROVE HandlerGoes(r, "ended", "error")
        BY <1>1, <3>2, EndsHandler DEF Refusals
      <3>3. QED  BY <1>4, <3>1, <3>2 DEF Created
    <2>6. req[r].done \in Nat /\ req[r].done < MaxFiles  BY <2>1, ReceivingFacts DEF Receiving
    <2>7. InOrder(r)'
      <3>1. AnswerDecided(r)'  BY <2>5 DEF AnswerDecided, HandlerGoes
      <3>2. TaskInOrder(r)'  BY <2>4, <2>5, <2>6 DEF TaskInOrder, HandlerGoes
      <3>3. TempInOrder(r)'
        <4>1. task[r].result # "ok" => \A k \in 1..MaxFiles : <<r, k>> \notin temps'
          BY <1>1, <2>1, <2>2, <2>3 DEF InOrder, TempInOrder
        <4>2. \A k \in 1..MaxFiles : <<r, k>> \in temps' => k = req[r].done + 1
          BY <1>1, <2>1, <2>2, <2>3 DEF InOrder, TempInOrder
        <4>3. QED  BY <2>4, <2>5, <4>1, <4>2 DEF TempInOrder, Receiving, HandlerGoes
      <3>4. PlacedInOrder(r)'
        BY <1>1, <2>1, <2>2, <2>3, <2>4, <2>5 DEF InOrder, PlacedInOrder, HandlerGoes, Lost
      <3>5. QED  BY <3>1, <3>2, <3>3, <3>4 DEF InOrder
    <2>8. RestTyped' /\ WholeFilesOnly'
      BY <1>1, <2>3, <2>4 DEF RestTyped, TypeOK, WholeFilesOnly
    <2>9. /\ req' \in [Requests -> Handler]
          /\ \A q \in Requests \ {r} : req'[q] = req[q]
      BY <2>5 DEF HandlerGoes
    <2>10. QED  BY <2>3, <2>4, <2>7, <2>8, <2>9, StepKeeps
  <1>5. QED  BY <1>2, <1>3, <1>4

\* The guard's file is gone when its handler ends, and the other requests' are not
\* touched.
LEMMA GuardDrops ==
  ASSUME IInv, NEW r \in Requests, DropGuard(r), req[r].answer \in {"none"} \union Refusals
  PROVE  /\ \A k \in 1..MaxFiles : <<r, k>> \notin temps'
         /\ temps' \subseteq temps /\ temps \subseteq temps' \union {Current(r)}
  BY DEF IInv, InOrder, TempInOrder, DropGuard, Refusals

\* A request ends without a task and without a file of its own.
LEMMA EndInOrder ==
  ASSUME IInv, NEW r \in Requests, NEW answer \in Refusals \union {"dropped"},
         HandlerGoes(r, "ended", answer), DropGuard(r),
         req[r].answer \in {"none"} \union Refusals,
         answer = "dropped" => task' = task /\ ~At(r, "creating"),
         answer # "dropped" => task'[r] = NoTask
                               /\ ~(task[r].op = "rename" /\ task[r].result = "ok"),
         UNCHANGED <<whole, placed>>
  PROVE  InOrder(r)'
  <1>1. InOrder(r) /\ TypeOK  BY DEF IInv
  <1>2. /\ \A k \in 1..MaxFiles : <<r, k>> \notin temps'
        /\ temps' \subseteq temps
    BY GuardDrops
  <1>3. req'[r].pc = "ended" /\ req'[r].answer = answer /\ req'[r].done = req[r].done
    BY DEF HandlerGoes
  <1>4. AnswerDecided(r)'  BY <1>3 DEF AnswerDecided, Refusals
  <1>5. CASE answer = "dropped"
    <2>1. task'[r] = task[r] /\ task[r].op # "create"
      BY <1>1, <1>5 DEF InOrder, TaskInOrder, Refusals
    <2>2. TaskInOrder(r)'
      BY <1>1, <1>3, <1>5, <2>1 DEF InOrder, TaskInOrder, Receiving
    <2>3. TempInOrder(r)'  BY <1>1, <1>2, <1>3, <2>1 DEF InOrder, TempInOrder
    <2>4. PlacedInOrder(r)'  BY <1>3, <1>5 DEF PlacedInOrder, Lost
    <2>5. QED  BY <1>4, <2>2, <2>3, <2>4 DEF InOrder
  <1>6. CASE answer # "dropped"
    <2>1. task'[r] = NoTask /\ task'[r].op = "none"  BY <1>6 DEF NoTask
    <2>2. TaskInOrder(r)'  BY <1>3, <2>1 DEF TaskInOrder, Receiving
    <2>3. TempInOrder(r)'  BY <1>2, <2>1 DEF TempInOrder
    <2>4. PlacedInOrder(r)'
      BY <1>1, <1>3, <1>6, <2>1 DEF InOrder, PlacedInOrder, Lost, Refusals
    <2>5. QED  BY <1>4, <2>2, <2>3, <2>4 DEF InOrder
  <1>7. QED  BY <1>5, <1>6

\* The body of a file is received, or not.
LEMMA WriteStep ==
  ASSUME IInv, NEW r \in Requests, TooLarge(r) \/ WriteFails(r) \/ Written(r)
  PROVE  IInv'
  <1> USE DEF OthersKept, store, ContentsKept
  <1>1. TypeOK /\ InOrder(r) /\ WholeFilesOnly  BY DEF IInv
  <1>2. At(r, "writing")  BY DEF TooLarge, WriteFails, Written
  <1>3. req[r].answer = "none" /\ task[r] = NoTask /\ task[r].op = "none"
    BY <1>1, <1>2 DEF InOrder, AnswerDecided, TaskInOrder, TypeOK, BlockingTask
  <1>4. /\ Current(r) \in Uploads /\ req[r].done < MaxFiles /\ req[r].done \in Nat
    BY <1>2, ReceivingFacts DEF Receiving
  <1>5. CASE TooLarge(r)
    <2>1. HandlerGoes(r, "draining", "too large")
      BY <1>1, <1>5, DrainsHandler DEF TooLarge, Refusals
    <2>2. UNCHANGED <<store, task, reading, placed, crashes>>  BY <1>5 DEF TooLarge
    <2>3. InOrder(r)'
      <3>1. AnswerDecided(r)'  BY <2>1 DEF AnswerDecided, HandlerGoes, Refusals
      <3>2. TaskInOrder(r)'  BY <1>3, <1>4, <2>1, <2>2 DEF TaskInOrder, HandlerGoes
      <3>3. TempInOrder(r)'
        BY <1>1, <1>3, <2>1, <2>2 DEF InOrder, TempInOrder, Receiving, HandlerGoes
      <3>4. PlacedInOrder(r)'
        BY <1>1, <1>3, <2>1, <2>2 DEF InOrder, PlacedInOrder, HandlerGoes, Lost
      <3>5. QED  BY <3>1, <3>2, <3>3, <3>4 DEF InOrder
    <2>4. RestTyped' /\ WholeFilesOnly'
      BY <1>1, <2>2 DEF RestTyped, TypeOK, WholeFilesOnly
    <2>5. QED  BY <2>1, <2>2, <2>3, <2>4, StepKeeps DEF HandlerGoes
  <1>6. CASE WriteFails(r)
    <2>1. PICK s \in {"bad request", "error"} : Ends(r, s)  BY <1>6 DEF WriteFails
    <2>2. HandlerGoes(r, "ended", s)  BY <1>1, <2>1, EndsHandler DEF Refusals
    <2>3. DropGuard(r) /\ UNCHANGED <<base, entry, whole, task, reading, placed, crashes>>
      BY <1>6 DEF WriteFails
    <2>4. InOrder(r)'  BY <1>3, <2>2, <2>3, EndInOrder DEF Refusals
    <2>5. temps' \subseteq temps /\ temps \subseteq temps' \union {Current(r)}
      BY <1>3, <2>3, GuardDrops
    <2>6. RestTyped' /\ WholeFilesOnly'
      BY <1>1, <2>3, <2>5 DEF RestTyped, TypeOK, WholeFilesOnly
    <2>7. QED  BY <2>2, <2>3, <2>4, <2>5, <2>6, StepKeeps DEF HandlerGoes
  <1>7. CASE Written(r)
    <2>1. HandlerGoes(r, "renaming", "none")
      BY <1>1, <1>3, <1>7, GoesHandler DEF Written, Pcs
    <2>2. /\ whole' = whole \union {Current(r)}
          /\ task' = [task EXCEPT ![r] = [op |-> "rename", result |-> "pending"]]
          /\ UNCHANGED <<base, entry, temps, reading, placed, crashes>>
      BY <1>7 DEF Written, Spawns
    <2>3. /\ task' \in [Requests -> BlockingTask]
          /\ task'[r].op = "rename" /\ task'[r].result = "pending"
          /\ \A q \in Requests \ {r} : task'[q] = task[q]
      BY <1>1, <2>2 DEF TypeOK, BlockingTask
    <2>4. InOrder(r)'
      <3>1. AnswerDecided(r)'  BY <2>1 DEF AnswerDecided, HandlerGoes
      <3>2. TaskInOrder(r)'  BY <1>4, <2>1, <2>2, <2>3 DEF TaskInOrder, HandlerGoes
      <3>3. TempInOrder(r)'
        BY <1>1, <1>2, <1>3, <2>1, <2>2, <2>3 DEF InOrder, TempInOrder, Receiving, HandlerGoes
      <3>4. PlacedInOrder(r)'
        BY <1>1, <1>3, <2>1, <2>2, <2>3 DEF InOrder, PlacedInOrder, HandlerGoes, Lost
      <3>5. QED  BY <3>1, <3>2, <3>3, <3>4 DEF InOrder
    <2>5. RestTyped'  BY <1>1, <1>4, <2>2, <2>3 DEF RestTyped, TypeOK, Inodes
    <2>6. WholeFilesOnly'  BY <1>1, <2>2 DEF WholeFilesOnly
    <2>7. QED  BY <2>1, <2>2, <2>3, <2>4, <2>5, <2>6, StepKeeps DEF HandlerGoes
  <1>8. QED  BY <1>5, <1>6, <1>7

\* A file is renamed into place, and the handler hears of it.
LEMMA RenameStep ==
  ASSUME IInv, NEW r \in Requests, PerformRename(r) \/ Renamed(r) \/ RenameFailed(r)
  PROVE  IInv'
  <1> USE DEF OthersKept, store, ContentsKept
  <1>1. TypeOK /\ InOrder(r) /\ WholeFilesOnly  BY DEF IInv
  <1>2. task[r].op = "rename"
    <2>1. CASE PerformRename(r)  BY <2>1 DEF PerformRename
    <2>2. CASE Renamed(r) \/ RenameFailed(r)
      BY <1>1, <2>2 DEF Renamed, RenameFailed, InOrder, TaskInOrder
    <2>3. QED  BY <2>1, <2>2
  <1>3. /\ Current(r) \in Uploads /\ req[r].done < MaxFiles /\ req[r].done \in Nat
    BY <1>2, ReceivingFacts
  <1>4. Current(r) \in whole /\ (At(r, "renaming") \/ req[r].answer = "dropped")
    BY <1>1, <1>2 DEF InOrder, TaskInOrder
  <1>5. CASE PerformRename(r)
    <2>1. task[r].result = "pending"  BY <1>5 DEF PerformRename
    <2>2. PICK res \in {"ok", "exists", "failed"} :
            /\ task' = [task EXCEPT ![r].result = res]
            /\ IF res = "ok"
               THEN /\ entry' = [entry EXCEPT ![req[r].name] = Current(r)]
                    /\ temps' = temps \ {Current(r)}
                    /\ placed' = [placed EXCEPT ![r] = @ \union {req[r].done + 1}]
               ELSE UNCHANGED <<entry, temps, placed>>
      BY <1>5 DEF PerformRename, Results
    <2>3. UNCHANGED <<base, whole, req, reading, crashes>>  BY <1>5 DEF PerformRename
    <2>4. /\ task' \in [Requests -> BlockingTask]
          /\ task'[r].op = "rename" /\ task'[r].result = res
          /\ \A q \in Requests \ {r} : task'[q] = task[q]
      BY <1>1, <1>2, <2>2 DEF TypeOK, BlockingTask
    <2>5. /\ placed' \in [Requests -> SUBSET (1..MaxFiles)]
          /\ \A q \in Requests \ {r} : placed'[q] = placed[q]
          /\ placed'[r] = IF res = "ok" THEN placed[r] \union {req[r].done + 1} ELSE placed[r]
      <3>1. req[r].done + 1 \in 1..MaxFiles  BY <1>3, MaxFilesAssumption
      <3>2. placed \in [Requests -> SUBSET (1..MaxFiles)]  BY <1>1 DEF TypeOK
      <3>3. CASE res = "ok"
        <4>1. placed[r] \union {req[r].done + 1} \in SUBSET (1..MaxFiles)  BY <3>1, <3>2
        <4>2. placed' = [placed EXCEPT ![r] = placed[r] \union {req[r].done + 1}]
          BY <2>2, <3>3
        <4>3. QED  BY <3>2, <3>3, <4>1, <4>2
      <3>4. CASE res # "ok"  BY <2>2, <3>2, <3>4
      <3>5. QED  BY <3>3, <3>4
    <2>6. temps' \subseteq temps /\ temps \subseteq temps' \union {Current(r)}  BY <2>2
    <2>7. InOrder(r)'
      <3>1. AnswerDecided(r)'  BY <1>1, <2>3 DEF InOrder, AnswerDecided
      <3>2. TaskInOrder(r)'  BY <1>1, <1>2, <2>3, <2>4 DEF InOrder, TaskInOrder, Receiving
      <3>3. TempInOrder(r)'
        BY <1>1, <2>2, <2>3, <2>4, <2>6 DEF InOrder, TempInOrder, Receiving
      <3>4. PlacedInOrder(r)'
        <4>1. req[r].answer \notin Lost => placed[r] = 1..req[r].done
          BY <1>1, <2>1 DEF InOrder, PlacedInOrder
        <4>2. 1..(req[r].done + 1) = 1..req[r].done \union {req[r].done + 1}  BY <1>3
        <4>3. QED  BY <2>3, <2>4, <2>5, <4>1, <4>2 DEF PlacedInOrder
      <3>5. QED  BY <3>1, <3>2, <3>3, <3>4 DEF InOrder
    <2>8. entry' \in [Names -> Inodes \union {NoFile}] /\ WholeFilesOnly'
      <3>1. CASE res = "ok"
        BY <1>1, <1>3, <1>4, <2>2, <2>3, <3>1 DEF TypeOK, WholeFilesOnly, Inodes
      <3>2. CASE res # "ok"  BY <1>1, <2>2, <2>3, <3>2 DEF TypeOK, WholeFilesOnly
      <3>3. QED  BY <3>1, <3>2
    <2>9. RestTyped'  BY <1>1, <2>3, <2>4, <2>5, <2>6, <2>8 DEF RestTyped, TypeOK
    <2>10. req' \in [Requests -> Handler]  BY <1>1, <2>3 DEF TypeOK
    <2>11. QED  BY <2>3, <2>4, <2>5, <2>6, <2>7, <2>8, <2>9, <2>10, StepKeeps
  <1>6. ASSUME task' = [task EXCEPT ![r] = NoTask]
        PROVE  /\ task' \in [Requests -> BlockingTask] /\ task'[r] = NoTask
               /\ task'[r].op = "none"
               /\ \A q \in Requests \ {r} : task'[q] = task[q]
    BY <1>1, <1>6 DEF TypeOK, BlockingTask, NoTask
  <1>7. CASE Renamed(r)
    <2>1. At(r, "renaming") /\ task[r].result = "ok" /\ task' = [task EXCEPT ![r] = NoTask]
          /\ UNCHANGED <<store, reading, placed, crashes>>
      BY <1>7 DEF Renamed
    <2>2. req[r].answer = "none"  BY <1>1, <2>1 DEF InOrder, AnswerDecided
    <2> DEFINE h == [req[r] EXCEPT !.pc = "fields", !.done = req[r].done + 1]
    <2>3. req[r] \in Handler  BY <1>1 DEF TypeOK
    <2>4. h \in Handler
      <3>1. req[r].done + 1 \in 0..MaxFiles  BY <1>3, MaxFilesAssumption
      <3>2. QED  BY <2>3, <3>1 DEF Handler
    <2>5. req' = [req EXCEPT ![r] = h]  BY <1>1, <1>7, <2>3 DEF Renamed, TypeOK, Handler
    <2>6. h.pc = "fields" /\ h.answer = "none" /\ h.done = req[r].done + 1
      BY <2>2, <2>3 DEF Handler
    <2> HIDE DEF h
    <2>7. /\ req' \in [Requests -> Handler]
          /\ req'[r].pc = "fields" /\ req'[r].answer = "none" /\ req'[r].done = req[r].done + 1
          /\ \A q \in Requests \ {r} : req'[q] = req[q]
      BY <1>1, <2>4, <2>5, <2>6 DEF TypeOK
    <2>8. InOrder(r)'
      <3>1. AnswerDecided(r)'  BY <2>7 DEF AnswerDecided
      <3>2. TaskInOrder(r)'  BY <1>6, <2>1, <2>7 DEF TaskInOrder, Receiving
      <3>3. TempInOrder(r)'
        <4>1. \A k \in 1..MaxFiles : <<r, k>> \notin temps
          BY <1>1, <1>2, <2>1, <2>2 DEF InOrder, TempInOrder
        <4>2. QED  BY <1>6, <2>1, <4>1 DEF TempInOrder
      <3>4. PlacedInOrder(r)'
        BY <1>1, <1>2, <1>6, <2>1, <2>2, <2>7 DEF InOrder, PlacedInOrder, Lost
      <3>5. QED  BY <3>1, <3>2, <3>3, <3>4 DEF InOrder
    <2>9. RestTyped' /\ WholeFilesOnly'
      BY <1>1, <1>6, <2>1 DEF RestTyped, TypeOK, WholeFilesOnly
    <2>10. QED  BY <1>6, <2>1, <2>7, <2>8, <2>9, StepKeeps
  <1>8. CASE RenameFailed(r)
    <2>1. /\ At(r, "renaming") /\ task[r].result # "ok" /\ task' = [task EXCEPT ![r] = NoTask]
          /\ DropGuard(r) /\ UNCHANGED <<base, entry, whole, reading, placed, crashes>>
      BY <1>8 DEF RenameFailed
    <2>2. req[r].answer = "none"  BY <1>1, <2>1 DEF InOrder, AnswerDecided
    <2>3. PICK s \in {"conflict", "error"} : Ends(r, s)  BY <1>8 DEF RenameFailed
    <2>4. HandlerGoes(r, "ended", s)  BY <1>1, <2>3, EndsHandler DEF Refusals
    <2>5. InOrder(r)'  BY <1>6, <2>1, <2>2, <2>4, EndInOrder DEF Refusals
    <2>6. temps' \subseteq temps /\ temps \subseteq temps' \union {Current(r)}
      BY <2>1, <2>2, GuardDrops
    <2>7. RestTyped' /\ WholeFilesOnly'
      BY <1>1, <1>6, <2>1, <2>6 DEF RestTyped, TypeOK, WholeFilesOnly
    <2>8. QED  BY <1>6, <2>1, <2>4, <2>5, <2>6, <2>7, StepKeeps DEF HandlerGoes
  <1>9. QED  BY <1>5, <1>7, <1>8

\* A request ends: its body is drained, or its client has left.
LEMMA EndStep ==
  ASSUME IInv, NEW r \in Requests, Drained(r) \/ Dropped(r)
  PROVE  IInv'
  <1> USE DEF OthersKept, store, ContentsKept
  <1>1. TypeOK /\ InOrder(r) /\ WholeFilesOnly  BY DEF IInv
  <1>2. UNCHANGED <<base, entry, whole, task, reading, placed, crashes>>
    BY DEF Drained, Dropped
  <1>3. /\ HandlerGoes(r, "ended", req'[r].answer)
        /\ temps' \subseteq temps /\ temps \subseteq temps' \union {Current(r)}
        /\ InOrder(r)'
    <2>1. CASE Drained(r)
      <3>1. At(r, "draining") /\ req[r].answer \in Refusals
        BY <1>1, <2>1 DEF Drained, InOrder, AnswerDecided
      <3>2. HandlerGoes(r, "ended", req[r].answer) /\ DropGuard(r)
        BY <1>1, <2>1, GoesHandler DEF Drained, Pcs
      <3>3. task[r] = NoTask /\ task[r].op = "none"
        BY <1>1, <3>1 DEF InOrder, TaskInOrder, TypeOK, BlockingTask, Refusals
      <3>4. InOrder(r)'  BY <1>2, <3>1, <3>2, <3>3, EndInOrder DEF Refusals
      <3>5. QED  BY <3>1, <3>2, <3>4, GuardDrops DEF HandlerGoes
    <2>2. CASE Dropped(r) /\ At(r, "creating")
      <3>1. HandlerGoes(r, "ended", "dropped in create") /\ temps' = temps
        BY <1>1, <2>2, EndsHandler DEF Dropped, Lost
      <3>2. req[r].done < MaxFiles /\ task[r].op = "create"
        BY <1>1, <2>2 DEF InOrder, TaskInOrder, Receiving
      <3>3. AnswerDecided(r)'  BY <3>1 DEF AnswerDecided, HandlerGoes
      <3>4. TaskInOrder(r)'  BY <1>2, <3>1, <3>2 DEF TaskInOrder, HandlerGoes
      <3>5. TempInOrder(r)'
        BY <1>1, <1>2, <3>1, <3>2 DEF InOrder, TempInOrder, HandlerGoes
      <3>6. PlacedInOrder(r)'  BY <3>1 DEF PlacedInOrder, HandlerGoes, Lost
      <3>7. QED  BY <3>1, <3>3, <3>4, <3>5, <3>6 DEF InOrder, HandlerGoes
    <2>3. CASE Dropped(r) /\ ~At(r, "creating")
      <3>1. HandlerGoes(r, "ended", "dropped") /\ DropGuard(r) /\ req[r].pc # "ended"
        BY <1>1, <2>3, EndsHandler DEF Dropped, Lost
      <3>2. req[r].answer \in {"none"} \union Refusals
        BY <1>1, <3>1 DEF InOrder, AnswerDecided
      <3>3. InOrder(r)'  BY <1>2, <2>3, <3>1, <3>2, EndInOrder
      <3>4. QED  BY <3>1, <3>2, <3>3, GuardDrops DEF HandlerGoes
    <2>4. QED  BY <2>1, <2>2, <2>3
  <1>4. RestTyped' /\ WholeFilesOnly'
    BY <1>1, <1>2, <1>3 DEF RestTyped, TypeOK, WholeFilesOnly
  <1>5. QED  BY <1>2, <1>3, <1>4, StepKeeps DEF HandlerGoes

\* A crash leaves the files, and no task.
LEMMA CrashStep == IInv /\ Crash => IInv'
  <1> SUFFICES ASSUME IInv, Crash PROVE IInv'  OBVIOUS
  <1>1. TypeOK /\ WholeFilesOnly  BY DEF IInv
  <1>2. /\ UNCHANGED <<base, entry, temps, whole, placed>>
        /\ task' = [r \in Requests |-> NoTask]
        /\ reading' = [d \in Readers |-> NoFile]
        /\ crashes' \in 0..MaxCrashes
    <2>1. crashes \in 0..MaxCrashes  BY <1>1 DEF TypeOK
    <2>2. crashes < MaxCrashes /\ crashes' = crashes + 1  BY DEF Crash
    <2>3. crashes' \in 0..MaxCrashes  BY <2>1, <2>2, MaxCrashesAssumption
    <2>4. QED  BY <2>3 DEF Crash, store
  <1>3. ASSUME NEW r \in Requests
        PROVE  /\ req'[r] \in Handler /\ req'[r].done = req[r].done
               /\ IF req[r].pc \in {"new", "ended"} THEN req'[r] = req[r]
                  ELSE req'[r].pc = "ended" /\ req'[r].answer = "crashed"
    <2>1. req[r] \in Handler  BY <1>1 DEF TypeOK
    <2>2. [req[r] EXCEPT !.pc = "ended", !.answer = "crashed"] \in Handler
      BY <2>1 DEF Handler, Lost
    <2>3. req'[r] = IF req[r].pc \in {"new", "ended"} THEN req[r]
                    ELSE [req[r] EXCEPT !.pc = "ended", !.answer = "crashed"]
      BY DEF Crash
    <2>4. QED  BY <2>1, <2>2, <2>3 DEF Handler
  <1>4. req' \in [Requests -> Handler]  BY <1>3 DEF Crash
  <1>5. ASSUME NEW r \in Requests PROVE InOrder(r)'
    <2>1. InOrder(r)  BY DEF IInv
    <2>2. task'[r] = NoTask /\ task'[r].op = "none"  BY <1>2 DEF NoTask
    <2>3. req'[r].pc \in {"new", "ended"}  BY <1>3
    <2>4. AnswerDecided(r)'  BY <1>3, <2>1 DEF InOrder, AnswerDecided
    <2>5. TaskInOrder(r)'  BY <2>2, <2>3 DEF TaskInOrder, Receiving
    <2>6. TempInOrder(r)'
      BY <1>2, <1>3, <2>1, <2>2 DEF InOrder, TempInOrder, Receiving
    <2>7. PlacedInOrder(r)'
      <3>1. CASE req'[r].answer \notin Lost
        <4>1. req'[r] = req[r]  BY <1>3, <3>1 DEF Lost
        <4>2. task[r].op = "none"
          BY <1>1, <1>3, <2>1, <3>1, <4>1
          DEF InOrder, TaskInOrder, Lost, TypeOK, BlockingTask
        <4>3. QED  BY <1>2, <2>1, <2>2, <4>1, <4>2 DEF InOrder, PlacedInOrder
      <3>2. QED  BY <3>1 DEF PlacedInOrder
    <2>8. QED  BY <2>4, <2>5, <2>6, <2>7 DEF InOrder
  <1>6. TypeOK'
    <2>1. task' \in [Requests -> BlockingTask]  BY <1>2 DEF NoTask, BlockingTask
    <2>2. \A r \in Requests : /\ At(r, "creating")' => task'[r].op = "create"
                              /\ At(r, "renaming")' => task'[r].op = "rename"
      BY <1>5 DEF InOrder, TaskInOrder
    <2>3. QED  BY <1>1, <1>2, <1>4, <2>1, <2>2 DEF TypeOK
  <1>7. WholeFilesOnly'  BY <1>1, <1>2 DEF WholeFilesOnly
  <1>8. QED  BY <1>5, <1>6, <1>7 DEF IInv

\* A download opens what is there.
LEMMA ReadStep == ASSUME IInv, NEW d \in Readers, Download(d) \/ DownloadEnds(d) PROVE IInv'
  <1>1. TypeOK /\ WholeFilesOnly  BY DEF IInv
  <1>2. UNCHANGED <<base, entry, temps, whole, req, task, placed, crashes>>
    BY DEF Download, DownloadEnds, store
  <1>3. PICK i \in {NoFile} \union {entry[n] : n \in Names} :
          reading' = [reading EXCEPT ![d] = i]
    BY DEF Download, DownloadEnds
  <1>4. TypeOK' /\ WholeFilesOnly'  BY <1>1, <1>2, <1>3 DEF TypeOK, WholeFilesOnly
  <1>5. ASSUME NEW r \in Requests PROVE InOrder(r)'
    BY <1>1, <1>2, Untouched DEF IInv
  <1>6. QED  BY <1>4, <1>5 DEF IInv

\* Every step keeps the invariant.
LEMMA Invariance == IInv /\ [Next]_vars => IInv'
  <1> SUFFICES ASSUME IInv, [Next]_vars PROVE IInv'  OBVIOUS
  <1>1. ASSUME NEW r \in Requests, Handle(r) PROVE IInv'
    BY <1>1, QuietStep, CreateStep, WriteStep, RenameStep, EndStep DEF Handle
  <1>2. ASSUME NEW r \in Requests, Perform(r) PROVE IInv'
    BY <1>2, CreateStep, RenameStep DEF Perform
  <1>3. ASSUME NEW r \in Requests, Dropped(r) PROVE IInv'  BY <1>3, EndStep
  <1>4. ASSUME NEW d \in Readers, Download(d) \/ DownloadEnds(d) PROVE IInv'  BY <1>4, ReadStep
  <1>5. CASE Crash  BY <1>5, CrashStep
  <1>6. CASE UNCHANGED vars
    <2>1. UNCHANGED <<base, entry, temps, whole, req, task, reading, placed, crashes>>
      BY <1>6 DEF vars, store
    <2>2. \A r \in Requests : InOrder(r)'  BY <2>1, Untouched DEF IInv
    <2>3. QED  BY <2>1, <2>2 DEF IInv, TypeOK, WholeFilesOnly
  <1>7. QED  BY <1>1, <1>2, <1>3, <1>4, <1>5, <1>6 DEF Next

\* The inductive invariant, on which the theorems below rest.
THEOREM InvariantHolds == Spec => []IInv
  <1>1. Init => IInv  BY Initial
  <1>2. IInv /\ [Next]_vars => IInv'  BY Invariance
  <1>3. QED  BY <1>1, <1>2, PTL DEF Spec

\* Types hold, and a handler waits for the task it started.
THEOREM TypesHold == Spec => []TypeOK
  <1>1. IInv => TypeOK  BY DEF IInv
  <1>2. QED  BY <1>1, InvariantHolds, PTL

\* No name and no download ever has a file that is not whole.
THEOREM WholeFiles == Spec => []WholeFilesOnly
  <1>1. IInv => WholeFilesOnly  BY DEF IInv
  <1>2. QED  BY <1>1, InvariantHolds, PTL

\* A temporary file belongs to the upload in progress, or was left by a client that
\* went before there was a guard, or by a crash.
THEOREM TemporaryFiles == Spec => []TempsAreTransient
  <1>1. IInv => TempsAreTransient
    <2> SUFFICES ASSUME IInv, NEW u \in temps PROVE
          LET h == req[u[1]] IN
          \/ /\ h.pc \in {"creating", "writing", "renaming", "draining"}
             /\ u[2] = h.done + 1
          \/ h.answer \in {"dropped in create", "crashed"}
      BY DEF TempsAreTransient
    <2>1. PICK r \in Requests, k \in 1..MaxFiles : u = <<r, k>>
      BY DEF IInv, TypeOK, Uploads
    <2>2. InOrder(r)  BY DEF IInv
    <2>3. QED  BY <2>1, <2>2 DEF InOrder, TempInOrder, Receiving
  <1>2. QED  BY <1>1, InvariantHolds, PTL

\* What a client is told is what was done.
THEOREM TrueAnswers == Spec => []AnswersAreTrue
  <1>1. IInv => AnswersAreTrue
    <2> SUFFICES ASSUME IInv, NEW r \in Requests, At(r, "ended"), req[r].answer \notin Lost
                 PROVE  /\ placed[r] = 1..req[r].done
                        /\ req[r].answer = "ok" => placed[r] # {}
                        /\ task[r] = NoTask
      BY DEF AnswersAreTrue
    <2>1. InOrder(r) /\ TypeOK  BY DEF IInv
    <2>2. task[r].op = "none" /\ task[r] = NoTask
      BY <2>1 DEF InOrder, TaskInOrder, Lost, TypeOK, BlockingTask
    <2>3. placed[r] = 1..req[r].done  BY <2>1, <2>2 DEF InOrder, PlacedInOrder
    <2>4. req[r].done \in Nat  BY <2>1 DEF TypeOK, Handler
    <2>5. req[r].answer = "ok" => 1 \in 1..req[r].done
      BY <2>1, <2>4 DEF InOrder, AnswerDecided
    <2>6. QED  BY <2>2, <2>3, <2>5
  <1>2. QED  BY <1>1, InvariantHolds, PTL

\* A file in place is replaced only by an upload that asked for it.
THEOREM NoSilentReplacement == Spec => OnlyOverwriteReplaces
  <1> DEFINE Step == \A n \in Names :
                       entry[n] # NoFile /\ entry'[n] # entry[n]
                         => \E u \in Uploads : entry'[n] = u /\ req[u[1]].overwrite
  <1>1. IInv /\ [Next]_vars => Step
    <2> SUFFICES ASSUME IInv, [Next]_vars, NEW n \in Names,
                        entry[n] # NoFile, entry'[n] # entry[n]
                 PROVE  \E u \in Uploads : entry'[n] = u /\ req[u[1]].overwrite
      OBVIOUS
    <2>1. PICK r \in Requests : PerformRename(r)
      BY DEF Next, vars, store, Handle, Perform, OthersKept, ContentsKept, Begin, BaseUnresolved,
             DeclaredTooLarge, MakeBase, CheckBase, BadField, NextFile, PerformCreate, Created,
             TooLarge, WriteFails, Written, Renamed, RenameFailed, NoMoreFiles, Drained, Dropped,
             Download, DownloadEnds, Crash
    <2>2. task[r].op = "rename"  BY <2>1 DEF PerformRename
    <2>3. Current(r) \in Uploads  BY <2>2, ReceivingFacts
    <2>4. /\ entry' = [entry EXCEPT ![req[r].name] = Current(r)]
          /\ req[r].overwrite \/ entry[req[r].name] = NoFile
      BY <2>1 DEF PerformRename
    <2>5. n = req[r].name /\ entry'[n] = Current(r)
      BY <2>4 DEF IInv, TypeOK
    <2>6. req[r].overwrite /\ Current(r)[1] = r  BY <2>4, <2>5
    <2>7. QED  BY <2>3, <2>5, <2>6
  <1>2. QED  BY <1>1, InvariantHolds, PTL DEF Spec, OnlyOverwriteReplaces

-----------------------------------------------------------------------------
(* Uploads implement the store of whole files.                             *)

StoreStep == Store!StoreNext \/ UNCHANGED <<Contents, Reads, Statuses, Forces, placed>>

\* Readers find the files themselves, as none of them is partial.
LEMMA AllSeen ==
  ASSUME IInv, IInv'
  PROVE  /\ Contents = [n \in Names |-> entry[n]] /\ Contents' = [n \in Names |-> entry'[n]]
         /\ Reads = [d \in Readers |-> reading[d]] /\ Reads' = [d \in Readers |-> reading'[d]]
  <1>1. WholeFilesOnly /\ WholeFilesOnly'  BY DEF IInv
  <1>2. QED  BY <1>1 DEF WholeFilesOnly, Contents, Reads, Seen

\* A request that is receiving a file knows its name.
Named == \A r \in Requests : Receiving(r) => req[r].name \in Names

LEMMA NamesKept == IInv /\ Named /\ [Next]_vars => Named'
  <1> SUFFICES ASSUME IInv, Named, [Next]_vars, NEW r \in Requests, Receiving(r)'
               PROVE  req'[r].name \in Names
    BY DEF Named
  <1>1. req \in [Requests -> Handler] /\ req[r] \in Handler  BY DEF IInv, TypeOK
  <1>2. CASE req'[r] = req[r]  BY <1>2 DEF Named, Receiving
  <1>3. ASSUME NEW pc, Goes(r, pc),
               Receiving(r) \/ pc \notin {"creating", "writing", "renaming"}
        PROVE  req'[r].name \in Names
    BY <1>1, <1>3 DEF Goes, Handler, Named, Receiving
  <1>4. ASSUME NEW a, Ends(r, a) \/ Drains(r, a) PROVE FALSE
    BY <1>1, <1>4 DEF Ends, Drains, Handler, Receiving
  <1>5. CASE \E q \in Requests : q # r /\ (Handle(q) \/ Dropped(q))
    <2>1. req'[r] = req[r]
      BY <1>1, <1>5 DEF Handle, Begin, BaseUnresolved, DeclaredTooLarge, MakeBase, CheckBase,
         BadField, NextFile, Created, TooLarge, WriteFails, Written, Renamed, RenameFailed,
         NoMoreFiles, Drained, Dropped, Goes, Ends, Drains, store
    <2>2. QED  BY <1>2, <2>1
  <1>6. CASE Handle(r) \/ Dropped(r)
    <2>1. CASE Begin(r)  BY <1>1, <2>1 DEF Begin, Handler, Receiving
    <2>2. CASE Renamed(r)  BY <1>1, <2>2 DEF Renamed, Handler, Receiving
    <2>3. CASE NextFile(r)
      <3>1. PICK n \in Names : \/ Drains(r, "conflict")
                              \/ req' = [req EXCEPT ![r].pc = "creating", ![r].name = n]
        BY <2>3 DEF NextFile
      <3>2. QED  BY <1>1, <1>4, <3>1 DEF Handler
    <2>4. CASE Written(r)  BY <1>3, <2>4 DEF Written, Receiving
    <2>5. CASE Created(r)
      <3>1. At(r, "creating") /\ (Goes(r, "writing") \/ Ends(r, "error"))
        BY <2>5 DEF Created
      <3>2. QED  BY <1>3, <1>4, <3>1 DEF Receiving
    <2>6. CASE MakeBase(r) \/ CheckBase(r)
      <3>1. Goes(r, "fields") \/ Ends(r, "error") \/ Ends(r, "forbidden")
        BY <2>6 DEF MakeBase, CheckBase
      <3>2. QED  BY <1>3, <1>4, <3>1
    <2>7. CASE Drained(r)
      <3>1. Goes(r, "ended")  BY <2>7 DEF Drained
      <3>2. QED  BY <1>3, <3>1
    <2>8. CASE \/ BaseUnresolved(r) \/ DeclaredTooLarge(r) \/ BadField(r) \/ TooLarge(r)
               \/ WriteFails(r) \/ RenameFailed(r) \/ NoMoreFiles(r) \/ Dropped(r)
      BY <1>4, <2>8 DEF BaseUnresolved, DeclaredTooLarge, BadField, TooLarge, WriteFails,
                        RenameFailed, NoMoreFiles, Dropped
    <2>9. QED
      BY <1>6, <2>1, <2>2, <2>3, <2>4, <2>5, <2>6, <2>7, <2>8 DEF Handle
  <1>7. CASE \E q \in Requests : Perform(q)
    BY <1>2, <1>7 DEF Perform, PerformCreate, PerformRename
  <1>8. CASE \/ \E d \in Readers : Download(d) \/ DownloadEnds(d)
             \/ UNCHANGED vars
    BY <1>2, <1>8 DEF Download, DownloadEnds, vars
  <1>9. CASE Crash
    <2>1. \/ req'[r] = req[r]
          \/ req'[r] = [req[r] EXCEPT !.pc = "ended", !.answer = "crashed"]
      BY <1>9 DEF Crash
    <2>2. QED  BY <1>1, <1>2, <2>1 DEF Handler, Receiving
  <1>10. QED  BY <1>5, <1>6, <1>7, <1>8, <1>9 DEF Next

\* A step of one request changes no other one's status.
LEMMA OneStatus ==
  ASSUME NEW r \in Requests, \A q \in Requests \ {r} : req'[q] = req[q]
  PROVE  /\ Statuses' = [Statuses EXCEPT ![r] = Status(r)']
         /\ req'[r].overwrite = req[r].overwrite => Forces' = Forces
  <1>1. \A q \in Requests \ {r} : Status(q)' = Status(q)  BY DEF Status
  <1>2. QED  BY <1>1 DEF Statuses, Forces

\* Most steps of a handler leave the store alone: they go on, or decide the request.
LEMMA DecisionStep ==
  ASSUME IInv, IInv', NEW r \in Requests,
         \A q \in Requests \ {r} : req'[q] = req[q],
         req'[r].overwrite = req[r].overwrite,
         UNCHANGED <<entry, reading, placed>>,
         \/ Status(r)' = Status(r)
         \/ Status(r) \in {"new", "open"} /\ Status(r)' = "refused"
         \/ Status(r) = "open" /\ Status(r)' = "lost"
         \/ Status(r) = "open" /\ Status(r)' = "ok" /\ placed[r] # {}
  PROVE  StoreStep
  <1>1. UNCHANGED <<Contents, Reads>>  BY AllSeen
  <1>2. /\ Statuses' = [Statuses EXCEPT ![r] = Status(r)']
        /\ UNCHANGED <<Forces, placed>> /\ Statuses[r] = Status(r)
    BY OneStatus DEF Statuses
  <1>3. CASE Status(r)' = Status(r)
    <2>1. Statuses' = Statuses  BY <1>2, <1>3 DEF Statuses
    <2>2. QED  BY <1>1, <1>2, <2>1 DEF StoreStep
  <1>4. CASE Status(r) \in {"new", "open"} /\ Status(r)' = "refused"
    <2>1. Store!Refuse(r)  BY <1>1, <1>2, <1>4 DEF Store!Refuse
    <2>2. QED  BY <2>1 DEF StoreStep, Store!StoreNext
  <1>5. CASE Status(r) = "open" /\ Status(r)' = "lost"
    <2>1. Store!Lose(r)  BY <1>1, <1>2, <1>5 DEF Store!Lose
    <2>2. QED  BY <2>1 DEF StoreStep, Store!StoreNext
  <1>6. CASE Status(r) = "open" /\ Status(r)' = "ok" /\ placed[r] # {}
    <2>1. Store!Accept(r)  BY <1>1, <1>2, <1>6 DEF Store!Accept
    <2>2. QED  BY <2>1 DEF StoreStep, Store!StoreNext
  <1>7. QED  BY <1>3, <1>4, <1>5, <1>6

\* What the three ways of moving a handler do to its status.
LEMMA MovesDecide ==
  ASSUME IInv, NEW r \in Requests
  PROVE  /\ \A pc \in Pcs \ {"new", "ended"} : Goes(r, pc) =>
               /\ Status(r)' = "open" /\ req'[r].overwrite = req[r].overwrite
               /\ \A q \in Requests \ {r} : req'[q] = req[q]
         /\ \A a \in Refusals : Drains(r, a) =>
               /\ Status(r)' = "open" /\ req'[r].overwrite = req[r].overwrite
               /\ \A q \in Requests \ {r} : req'[q] = req[q]
         /\ \A a \in {"ok"} \union Refusals \union Lost : Ends(r, a) =>
               /\ Status(r)' = IF a = "ok" THEN "ok"
                               ELSE IF a \in Refusals THEN "refused" ELSE "lost"
               /\ req'[r].overwrite = req[r].overwrite
               /\ \A q \in Requests \ {r} : req'[q] = req[q]
  <1>1. req \in [Requests -> Handler] /\ req[r] \in Handler  BY DEF IInv, TypeOK
  <1>2. ASSUME NEW pc \in Pcs \ {"new", "ended"}, Goes(r, pc)
        PROVE  /\ Status(r)' = "open" /\ req'[r].overwrite = req[r].overwrite
               /\ \A q \in Requests \ {r} : req'[q] = req[q]
    BY <1>1, <1>2 DEF Goes, Handler, Status, Pcs
  <1>3. ASSUME NEW a \in Refusals, Drains(r, a)
        PROVE  /\ Status(r)' = "open" /\ req'[r].overwrite = req[r].overwrite
               /\ \A q \in Requests \ {r} : req'[q] = req[q]
    BY <1>1, <1>3 DEF Drains, Handler, Status
  <1>4. ASSUME NEW a \in {"ok"} \union Refusals \union Lost, Ends(r, a)
        PROVE  /\ Status(r)' = IF a = "ok" THEN "ok"
                               ELSE IF a \in Refusals THEN "refused" ELSE "lost"
               /\ req'[r].overwrite = req[r].overwrite
               /\ \A q \in Requests \ {r} : req'[q] = req[q]
    BY <1>1, <1>4 DEF Ends, Handler, Status
  <1>5. QED  BY <1>2, <1>3, <1>4

\* A refusal, and a client that leaves, end an open request.
LEMMA EndingStep ==
  ASSUME IInv, IInv', NEW r \in Requests, NEW a \in Refusals \union Lost, Ends(r, a),
         Status(r) = "open", UNCHANGED <<entry, reading, placed>>
  PROVE  StoreStep
  <1>1. /\ Status(r)' = IF a = "ok" THEN "ok"
                        ELSE IF a \in Refusals THEN "refused" ELSE "lost"
        /\ req'[r].overwrite = req[r].overwrite
        /\ \A q \in Requests \ {r} : req'[q] = req[q]
    BY MovesDecide
  <1>2. a # "ok"  BY DEF Refusals, Lost
  <1>3. QED  BY <1>1, <1>2, DecisionStep

\* The request is started.
LEMMA StartStep == ASSUME IInv, IInv', NEW r \in Requests, Begin(r) PROVE StoreStep
  <1>1. req \in [Requests -> Handler] /\ req[r] \in Handler  BY DEF IInv, TypeOK
  <1>2. PICK o \in BOOLEAN : req' = [req EXCEPT ![r].pc = "preflight", ![r].overwrite = o]
    BY DEF Begin
  <1>3. /\ Status(r) = "new" /\ Status(r)' = "open" /\ req'[r].overwrite = o
        /\ \A q \in Requests \ {r} : req'[q] = req[q]
    BY <1>1, <1>2 DEF Begin, Handler, Status
  <1>4. /\ Statuses' = [Statuses EXCEPT ![r] = "open"] /\ Statuses[r] = "new"
    BY <1>3, OneStatus DEF Statuses
  <1>5. Forces' = [Forces EXCEPT ![r] = o]  BY <1>3 DEF Forces
  <1>6. UNCHANGED <<Contents, Reads, placed>>
    BY AllSeen DEF Begin, store, OthersKept
  <1>7. Store!Start(r)  BY <1>4, <1>5, <1>6 DEF Store!Start
  <1>8. QED  BY <1>7 DEF StoreStep, Store!StoreNext

\* The handler's other steps.
LEMMA HandleStep ==
  ASSUME IInv, IInv', NEW r \in Requests, Handle(r) \/ Dropped(r) \/ PerformCreate(r)
  PROVE  StoreStep
  <1> USE DEF OthersKept, ContentsKept, store, Pcs, Refusals, Lost
  <1>1. /\ req \in [Requests -> Handler] /\ req[r] \in Handler
        /\ InOrder(r) /\ InOrder(r)'
    BY DEF IInv, TypeOK
  <1>2. CASE Begin(r)  BY <1>2, StartStep
  <1>3. CASE BaseUnresolved(r)
    <2>1. Status(r) = "new"  BY <1>3 DEF BaseUnresolved, Status
    <2>2. QED  BY <1>3, <2>1, MovesDecide, DecisionStep DEF BaseUnresolved
  <1>4. CASE DeclaredTooLarge(r)
    <2>1. Status(r) = "open"  BY <1>4 DEF DeclaredTooLarge, Status
    <2>2. QED  BY <1>4, <2>1, MovesDecide, DecisionStep DEF DeclaredTooLarge
  <1>5. CASE MakeBase(r) \/ CheckBase(r)
    <2>1. Status(r) = "open"  BY <1>5 DEF MakeBase, CheckBase, Status
    <2>2. Goes(r, "fields") \/ Ends(r, "error") \/ Ends(r, "forbidden")
      BY <1>5 DEF MakeBase, CheckBase
    <2>3. UNCHANGED <<entry, reading, placed>>  BY <1>5 DEF MakeBase, CheckBase
    <2>4. CASE Goes(r, "fields")  BY <2>1, <2>3, <2>4, MovesDecide, DecisionStep
    <2>5. CASE Ends(r, "error")  BY <2>1, <2>3, <2>5, EndingStep
    <2>6. CASE Ends(r, "forbidden")  BY <2>1, <2>3, <2>6, EndingStep
    <2>7. QED  BY <2>2, <2>4, <2>5, <2>6
  <1>6. CASE BadField(r)
    <2>1. Status(r) = "open"  BY <1>6 DEF BadField, Status
    <2>2. QED  BY <1>6, <2>1, MovesDecide, DecisionStep DEF BadField
  <1>7. CASE NextFile(r)
    <2>1. Status(r) = "open"  BY <1>7 DEF NextFile, Status
    <2>2. UNCHANGED <<entry, reading, placed>>  BY <1>7 DEF NextFile
    <2>3. PICK n \in Names : \/ Drains(r, "conflict")
                            \/ req' = [req EXCEPT ![r].pc = "creating", ![r].name = n]
      BY <1>7 DEF NextFile
    <2>4. CASE Drains(r, "conflict")  BY <2>1, <2>2, <2>4, MovesDecide, DecisionStep
    <2>5. CASE req' = [req EXCEPT ![r].pc = "creating", ![r].name = n]
      <3>1. /\ Status(r)' = "open" /\ req'[r].overwrite = req[r].overwrite
            /\ \A q \in Requests \ {r} : req'[q] = req[q]
        BY <1>1, <2>5 DEF Handler, Status
      <3>2. QED  BY <2>1, <2>2, <3>1, DecisionStep
    <2>6. QED  BY <2>3, <2>4, <2>5
  <1>8. CASE Created(r)
    <2>1. Status(r) = "open"  BY <1>8 DEF Created, Status
    <2>2. Goes(r, "writing") \/ Ends(r, "error")  BY <1>8 DEF Created
    <2>3. UNCHANGED <<entry, reading, placed>>  BY <1>8 DEF Created
    <2>4. CASE Goes(r, "writing")  BY <2>1, <2>3, <2>4, MovesDecide, DecisionStep
    <2>5. CASE Ends(r, "error")  BY <2>1, <2>3, <2>5, EndingStep
    <2>6. QED  BY <2>2, <2>4, <2>5
  <1>9. CASE TooLarge(r)
    <2>1. Status(r) = "open"  BY <1>9 DEF TooLarge, Status
    <2>2. QED  BY <1>9, <2>1, MovesDecide, DecisionStep DEF TooLarge
  <1>10. CASE WriteFails(r)
    <2>1. Status(r) = "open"  BY <1>10 DEF WriteFails, Status
    <2>2. QED  BY <1>10, <2>1, MovesDecide, DecisionStep DEF WriteFails
  <1>11. CASE Written(r)
    <2>1. Status(r) = "open"  BY <1>11 DEF Written, Status
    <2>2. QED  BY <1>11, <2>1, MovesDecide, DecisionStep DEF Written
  <1>12. CASE Renamed(r)
    <2>1. /\ Status(r) = "open" /\ UNCHANGED <<entry, reading, placed>>
          /\ req' = [req EXCEPT ![r].pc = "fields", ![r].done = req[r].done + 1]
      BY <1>12 DEF Renamed, Status
    <2>2. /\ Status(r)' = "open" /\ req'[r].overwrite = req[r].overwrite
          /\ \A q \in Requests \ {r} : req'[q] = req[q]
      BY <1>1, <2>1 DEF Handler, Status
    <2>3. QED  BY <2>1, <2>2, DecisionStep
  <1>13. CASE RenameFailed(r)
    <2>1. /\ Status(r) = "open" /\ UNCHANGED <<entry, reading, placed>>
          /\ Ends(r, "conflict") \/ Ends(r, "error")
      BY <1>13 DEF RenameFailed, Status
    <2>2. CASE Ends(r, "conflict")  BY <2>1, <2>2, EndingStep
    <2>3. CASE Ends(r, "error")  BY <2>1, <2>3, EndingStep
    <2>4. QED  BY <2>1, <2>2, <2>3
  <1>14. CASE NoMoreFiles(r)
    <2>1. /\ Status(r) = "open" /\ UNCHANGED <<entry, reading, placed>>
          /\ Ends(r, IF req[r].done = 0 THEN "bad request" ELSE "ok")
      BY <1>14 DEF NoMoreFiles, Status
    <2>2. CASE req[r].done = 0
      <3>1. Ends(r, "bad request")  BY <2>1, <2>2
      <3>2. QED  BY <2>1, <3>1, EndingStep
    <2>3. CASE req[r].done # 0
      <3>1. req[r].answer = "none" /\ task[r].op = "none"
        BY <1>1, <1>14 DEF NoMoreFiles, InOrder, AnswerDecided, TaskInOrder, IInv, TypeOK,
                           BlockingTask
      <3>2. placed[r] = 1..req[r].done /\ req[r].done \in Nat
        <4>1. req[r].done \in 0..MaxFiles  BY <1>1 DEF Handler
        <4>2. placed[r] = 1..req[r].done  BY <1>1, <3>1 DEF InOrder, PlacedInOrder
        <4>3. QED  BY <4>1, <4>2, MaxFilesAssumption
      <3>3. placed[r] # {}
        <4>1. 1 \in 1..req[r].done  BY <2>3, <3>2
        <4>2. QED  BY <3>2, <4>1
      <3>4. Ends(r, "ok")  BY <2>1, <2>3
      <3>5. /\ Status(r)' = "ok" /\ req'[r].overwrite = req[r].overwrite
            /\ \A q \in Requests \ {r} : req'[q] = req[q]
        BY <3>4, MovesDecide
      <3>6. QED  BY <2>1, <3>3, <3>5, DecisionStep
    <2>4. QED  BY <2>2, <2>3
  <1>15. CASE Drained(r)
    <2>1. /\ Status(r) = "open" /\ UNCHANGED <<entry, reading, placed>>
          /\ req' = [req EXCEPT ![r].pc = "ended"] /\ req[r].answer \in Refusals
      BY <1>1, <1>15 DEF Drained, Goes, Status, InOrder, AnswerDecided
    <2>2. /\ Status(r)' = "refused" /\ req'[r].overwrite = req[r].overwrite
          /\ \A q \in Requests \ {r} : req'[q] = req[q]
      BY <1>1, <2>1 DEF Handler, Status
    <2>3. QED  BY <2>1, <2>2, DecisionStep
  <1>16. CASE Dropped(r)
    <2>1. /\ Status(r) = "open" /\ UNCHANGED <<entry, reading, placed>>
          /\ Ends(r, "dropped in create") \/ Ends(r, "dropped")
      BY <1>16 DEF Dropped, Status
    <2>2. CASE Ends(r, "dropped in create")  BY <2>1, <2>2, EndingStep
    <2>3. CASE Ends(r, "dropped")  BY <2>1, <2>3, EndingStep
    <2>4. QED  BY <2>1, <2>2, <2>3
  <1>17. CASE PerformCreate(r)
    <2>1. UNCHANGED <<req, entry, reading, placed>>  BY <1>17 DEF PerformCreate
    <2>2. Status(r)' = Status(r)  BY <2>1 DEF Status
    <2>3. QED  BY <2>1, <2>2, DecisionStep
  <1>18. QED
    BY <1>2, <1>3, <1>4, <1>5, <1>6, <1>7, <1>8, <1>9, <1>10, <1>11, <1>12, <1>13, <1>14,
       <1>15, <1>16, <1>17 DEF Handle

\* A rename puts the next file of its body in place, whole, while its request is open.
LEMMA RenamePuts ==
  ASSUME IInv, IInv', Named, NEW r \in Requests, PerformRename(r) PROVE StoreStep
  <1>1. /\ task[r].op = "rename" /\ task[r].result = "pending"
        /\ UNCHANGED <<req, reading>>
    BY DEF PerformRename
  <1>2. UNCHANGED <<Reads, Statuses, Forces>>
    <2>1. Reads' = Reads  BY <1>1, AllSeen
    <2>2. QED  BY <1>1, <2>1 DEF Statuses, Status, Forces
  <1>3. CASE UNCHANGED <<entry, placed>>
    <2>1. Contents' = Contents  BY <1>3, AllSeen
    <2>2. QED  BY <1>2, <1>3, <2>1 DEF StoreStep
  <1>4. CASE ~UNCHANGED <<entry, placed>>
    <2> DEFINE n == req[r].name
    <2>1. /\ Current(r) \in temps
          /\ req[r].overwrite \/ entry[n] = NoFile
          /\ entry' = [entry EXCEPT ![n] = Current(r)]
          /\ placed' = [placed EXCEPT ![r] = @ \union {req[r].done + 1}]
      BY <1>4 DEF PerformRename
    <2>2. /\ req[r].done \in Nat /\ req[r].done < MaxFiles
          /\ InOrder(r) /\ TypeOK
      BY <1>1, ReceivingFacts
    <2>3. req[r].done + 1 \in 1..MaxFiles  BY <2>2, MaxFilesAssumption
    <2>4. At(r, "renaming")
      BY <1>1, <2>1, <2>2, <2>3
      DEF InOrder, AnswerDecided, TaskInOrder, TempInOrder, Receiving, Refusals
    <2>5. placed[r] = 1..req[r].done
      BY <1>1, <2>2, <2>4 DEF InOrder, AnswerDecided, PlacedInOrder, Lost
    <2>6. n \in Names  BY <2>4 DEF Named, Receiving
    <2>7. entry \in [Names -> Inodes \union {NoFile}]  BY <2>2 DEF TypeOK
    <2> DEFINE k == req[r].done + 1
    <2>8. Current(r) = <<r, k>> /\ 1..(k - 1) = 1..req[r].done  BY <2>2
    <2> HIDE DEF n, k
    <2>9. Store!Put(r, n, k)
      <3>1. Statuses[r] = "open"  BY <2>4 DEF Statuses, Status
      <3>2. Contents[n] = NoFile \/ Forces[r]
        BY <2>1, <2>6, AllSeen DEF Forces, n
      <3>3. Contents' = [Contents EXCEPT ![n] = <<r, k>>]
        BY <2>1, <2>6, <2>7, <2>8, AllSeen
      <3>4. placed' = [placed EXCEPT ![r] = @ \union {k}]  BY <2>1 DEF k
      <3>5. placed[r] = 1..(k - 1)  BY <2>5, <2>8
      <3>6. QED  BY <1>2, <3>1, <3>2, <3>3, <3>4, <3>5 DEF Store!Put
    <2>10. k \in 1..MaxFiles  BY <2>3 DEF k
    <2>11. QED  BY <2>6, <2>9, <2>10 DEF StoreStep, Store!StoreNext
  <1>5. QED  BY <1>3, <1>4

\* A download opens what the name has; a crash loses the requests that are open.
LEMMA ReadersAndCrash ==
  ASSUME IInv, IInv',
         (\E d \in Readers : Download(d) \/ DownloadEnds(d)) \/ Crash \/ UNCHANGED vars
  PROVE  StoreStep
  <1>1. ASSUME NEW d \in Readers, Download(d) PROVE StoreStep
    <2>1. PICK n \in Names : reading[d] = NoFile /\ reading' = [reading EXCEPT ![d] = entry[n]]
      BY <1>1 DEF Download
    <2>2. UNCHANGED <<entry, req, placed>>  BY <1>1 DEF Download, store
    <2>3. UNCHANGED <<Contents, Statuses, Forces, placed>>
      <3>1. Contents' = Contents  BY <2>2, AllSeen
      <3>2. QED  BY <2>2, <3>1 DEF Statuses, Status, Forces
    <2>4. Reads' = [Reads EXCEPT ![d] = Contents[n]] /\ Reads[d] = NoFile
      BY <2>1, AllSeen DEF IInv, TypeOK
    <2>5. Store!Open(d, n)  BY <2>3, <2>4 DEF Store!Open
    <2>6. QED  BY <2>5 DEF StoreStep, Store!StoreNext
  <1>2. ASSUME NEW d \in Readers, DownloadEnds(d) PROVE StoreStep
    <2>1. /\ reading' = [reading EXCEPT ![d] = NoFile]
          /\ UNCHANGED <<entry, req, placed>>
      BY <1>2 DEF DownloadEnds, store
    <2>2. UNCHANGED <<Contents, Statuses, Forces, placed>>
      <3>1. Contents' = Contents  BY <2>1, AllSeen
      <3>2. QED  BY <2>1, <3>1 DEF Statuses, Status, Forces
    <2>3. Reads' = [Reads EXCEPT ![d] = NoFile]
      BY <2>1, AllSeen DEF IInv, TypeOK
    <2>4. Store!Close(d)  BY <2>2, <2>3 DEF Store!Close
    <2>5. QED  BY <2>4 DEF StoreStep, Store!StoreNext
  <1>3. CASE Crash
    <2>1. /\ reading' = [d \in Readers |-> NoFile] /\ UNCHANGED <<entry, placed>>
          /\ req' = [r \in Requests |->
                       IF req[r].pc \in {"new", "ended"} THEN req[r]
                       ELSE [req[r] EXCEPT !.pc = "ended", !.answer = "crashed"]]
      BY <1>3 DEF Crash, store
    <2>2. Contents' = Contents /\ Reads' = [d \in Readers |-> NoFile]
      BY <2>1, AllSeen
    <2>3. ASSUME NEW r \in Requests
          PROVE  /\ Status(r)' = IF Status(r) = "open" THEN "lost" ELSE Status(r)
                 /\ req'[r].overwrite = req[r].overwrite
      <3>1. req[r] \in Handler  BY DEF IInv, TypeOK
      <3>2. CASE req[r].pc \in {"new", "ended"}
        <4>1. req'[r] = req[r]  BY <2>1, <3>2
        <4>2. QED  BY <3>2, <4>1 DEF Status
      <3>3. CASE req[r].pc \notin {"new", "ended"}
        <4>1. req'[r] = [req[r] EXCEPT !.pc = "ended", !.answer = "crashed"]  BY <2>1, <3>3
        <4>2. /\ req'[r].pc = "ended" /\ req'[r].answer = "crashed"
              /\ req'[r].overwrite = req[r].overwrite
          BY <3>1, <4>1 DEF Handler
        <4>3. QED  BY <3>3, <4>2 DEF Status, Refusals
      <3>4. QED  BY <3>2, <3>3
    <2>4. /\ Statuses' = [r \in Requests |->
                            IF Statuses[r] = "open" THEN "lost" ELSE Statuses[r]]
          /\ Forces' = Forces
      BY <2>3 DEF Statuses, Forces
    <2>5. Store!Die  BY <2>1, <2>2, <2>4 DEF Store!Die
    <2>6. QED  BY <2>5 DEF StoreStep, Store!StoreNext
  <1>4. CASE UNCHANGED vars
    <2>1. UNCHANGED <<entry, reading, req, placed>>  BY <1>4 DEF vars, store
    <2>2. UNCHANGED <<Contents, Reads>>  BY <2>1, AllSeen
    <2>3. QED  BY <2>1, <2>2 DEF StoreStep, Statuses, Status, Forces
  <1>5. QED  BY <1>1, <1>2, <1>3, <1>4

\* Uploads implement the store: temporary files, a guard that may come too late,
\* renames that race and a server that dies make files appear whole, at once, for
\* requests that have no answer yet, and over others only where asked for.
THEOREM UploadsAreAStore == Spec => ImplementsStore
  <1>1. Init => Named /\ Store!StoreInit
    <2> SUFFICES ASSUME Init PROVE Named /\ Store!StoreInit  OBVIOUS
    <2>1. Named  BY DEF Init, Named, Receiving
    <2>2. /\ entry \in [Names -> {NoFile, Old}] /\ whole = {Old}
          /\ reading = [d \in Readers |-> NoFile]
      BY DEF Init
    <2>3. Contents \in [Names -> {NoFile, Old}] /\ Reads = [d \in Readers |-> NoFile]
      BY <2>2 DEF Contents, Reads, Seen
    <2>4. /\ Statuses = [r \in Requests |-> "new"] /\ Forces = [r \in Requests |-> FALSE]
          /\ placed = [r \in Requests |-> {}]
      BY DEF Init, Statuses, Status, Forces
    <2>5. QED  BY <2>1, <2>3, <2>4 DEF Store!StoreInit
  <1>2. IInv /\ Named /\ [Next]_vars
          => Named' /\ [Store!StoreNext]_(Store!storeVars)
    <2> SUFFICES ASSUME IInv, Named, [Next]_vars
                 PROVE  Named' /\ [Store!StoreNext]_(Store!storeVars)
      OBVIOUS
    <2>1. IInv' /\ Named'  BY Invariance, NamesKept
    <2>2. ASSUME NEW r \in Requests, Handle(r) \/ Perform(r) \/ Dropped(r) PROVE StoreStep
      BY <2>1, <2>2, HandleStep, RenamePuts DEF Perform
    <2>3. StoreStep  BY <2>1, <2>2, ReadersAndCrash DEF Next
    <2>4. QED  BY <2>1, <2>3 DEF StoreStep, Store!storeVars
  <1>3. QED
    BY <1>1, <1>2, InvariantHolds, PTL DEF Spec, ImplementsStore, Store!StoreSpec
=============================================================================
