--------------------------- MODULE OutputChannelProofs ---------------------------
(***************************************************************************)
(* For any number of clients, any capacity and any amount of output: what  *)
(* a client sees is an OutputStream, "Shell exited" comes after all of the *)
(* output, and the first gap is announced.                                 *)
(*                                                                         *)
(* The invariant follows one subscriber: what its client got so far is     *)
(* exactly the bursts from the first one to the one before the next, until *)
(* its receiver lags; and a receiver that lagged for the first time holds  *)
(* a notice before it takes anything else.  The rest says that whatever    *)
(* was read was sent as long as the channel is open, so that the end of    *)
(* the reader is the end of the output.                                    *)
(***************************************************************************)
EXTENDS OutputChannel, TLAPS

Items == [kind : {"output", "lagged", "exited", "ended"}, burst : Nat]

BurstsIn(g, n) == {g[i].burst : i \in 1..n} \ {0}
ToldIn(g, kind) == \E i \in 1..Len(g) : g[i].kind = kind

Reader ==
    /\ Len(sent) <= read
    /\ Open => Broadcast = read
    /\ reader = "terminated" => shell = "exited" /\ read = written
    /\ closedBy = "reader" => shell = "exited" /\ Broadcast = written

\* The client's next burst is n.
Reached(c, n) ==
    /\ n \in Nat /\ first[c] \in 1..n /\ n <= Len(sent) + 1
    /\ c \in missed => ToldIn(got[c], "lagged")
    /\ c \notin missed => BurstsIn(got[c], Len(got[c])) = first[c]..n - 1
    /\ \A i \in 1..Len(got[c]) : got[c][i].burst < n

\* The client has to be told that it will miss what comes before n.
Lagged(c, n) ==
    /\ n \in Nat /\ first[c] \in 1..n /\ n <= Len(sent) + 1
    /\ c \in missed
    /\ \A i \in 1..Len(got[c]) : got[c][i].burst < n

\* Nothing is missing and nothing will come.
Complete(c) ==
    /\ ~Open
    /\ c \notin missed => BurstsIn(got[c], Len(got[c])) = first[c]..Len(sent)

Carries(c, item) ==
    \/ /\ item.kind = "output" /\ item.burst <= Len(sent)
       /\ Reached(c, item.burst)
       /\ pc[c] = "live" => next[c] = item.burst + 1
    \/ /\ item.kind = "lagged" /\ item.burst = 0
       /\ pc[c] = "live" => Lagged(c, next[c])
    \/ /\ item.kind = "exited" /\ item.burst = 0
       /\ Complete(c)

LossTold(c) ==
    \A i \in 1..Len(got[c]) :
        LET b == got[c][i].burst
        IN  b > 0 /\ ~(first[c]..b \subseteq BurstsIn(got[c], i)) =>
                \E j \in 1..i : got[c][j].kind = "lagged"

Client(c) ==
    /\ got[c] \in Seq(Items)
    /\ pc[c] \in {"new", "attached"} =>
           sub[c].pc = "none" /\ got[c] = <<>> /\ first[c] = 0 /\ c \notin missed
    /\ cool[c] => c \in missed
    /\ sub[c].pc = "receiving" => pc[c] = "live" /\ Reached(c, next[c])
    /\ sub[c].pc = "holding" => pc[c] \in {"live", "closing"} /\ Carries(c, sub[c].item)
    /\ ToldIn(got[c], "exited") => sub[c].pc = "done" /\ (first[c] > 0 => Complete(c))
    /\ ToldIn(got[c], "ended") => pc[c] = "closed"
    /\ pc[c] = "closed" => sub[c].pc = "done"
    /\ LossTold(c)

Inv == /\ TypeOK
       /\ got \in [Clients -> Seq(Items)]
       /\ Reader
       /\ \A c \in Clients : Client(c)

--------------------------------------------------------------------------------
\* h is g and then item.
Extends(h, g, item) ==
    /\ h \in Seq(Items) /\ Len(g) \in Nat /\ Len(h) = Len(g) + 1
    /\ \A i \in 1..Len(g) : h[i] = g[i]
    /\ h[Len(h)] = item
    /\ \A i \in 0..Len(g) : BurstsIn(h, i) = BurstsIn(g, i)
    /\ BurstsIn(h, Len(h)) = BurstsIn(g, Len(g)) \union ({item.burst} \ {0})
    /\ \A kind : ToldIn(h, kind) <=> ToldIn(g, kind) \/ item.kind = kind

\* What one more item adds to what a client was sent.
LEMMA AppendAdds ==
    ASSUME NEW g \in Seq(Items), NEW item \in Items
    PROVE  Extends(Append(g, item), g, item)
<1> DEFINE h == Append(g, item)
<1>1. h \in Seq(Items) /\ Len(h) = Len(g) + 1 /\ Len(g) \in Nat
    OBVIOUS
<1>2. \A i \in 1..Len(g) : h[i] = g[i]
    OBVIOUS
<1>3. h[Len(g) + 1] = item
    OBVIOUS
<1>4. ASSUME NEW i \in 0..Len(g) PROVE BurstsIn(h, i) = BurstsIn(g, i)
    <2>1. \A j \in 1..i : h[j] = g[j]
        BY <1>1, <1>2
    <2> QED
        BY <2>1 DEF BurstsIn
<1>5. 1..Len(h) = 1..Len(g) \union {Len(h)}
    BY <1>1
<1>6. BurstsIn(h, Len(h)) = BurstsIn(g, Len(g)) \union ({item.burst} \ {0})
    BY <1>1, <1>2, <1>3, <1>5 DEF BurstsIn
<1>7. ASSUME NEW kind PROVE ToldIn(h, kind) <=> ToldIn(g, kind) \/ item.kind = kind
    BY <1>1, <1>2, <1>3, <1>5 DEF ToldIn
<1> HIDE DEF h
<1>8. Extends(h, g, item)
    BY <1>1, <1>2, <1>3, <1>4, <1>6, <1>7 DEF Extends
<1> QED
    BY <1>8 DEF h

\* An item without a burst, or the next one in turn, leaves no untold gap.
LEMMA AppendTells ==
    ASSUME NEW c \in Clients, LossTold(c), got[c] \in Seq(Items),
           NEW item \in Items, got'[c] = Append(got[c], item), first'[c] = first[c],
           item.burst > 0 => Reached(c, item.burst)
    PROVE  LossTold(c)'
<1> DEFINE g == got[c]
<1> DEFINE h == got'[c]
<1>1. /\ h \in Seq(Items) /\ Len(h) = Len(g) + 1 /\ Len(g) \in Nat
      /\ \A i \in 1..Len(g) : h[i] = g[i]
      /\ h[Len(h)] = item
      /\ \A i \in 0..Len(g) : BurstsIn(h, i) = BurstsIn(g, i)
      /\ BurstsIn(h, Len(h)) = BurstsIn(g, Len(g)) \union ({item.burst} \ {0})
    <2>1. Extends(h, g, item)
        BY AppendAdds
    <2> HIDE DEF g, h
    <2> QED
        BY <2>1 DEF Extends
<1> SUFFICES ASSUME NEW i \in 1..Len(h), h[i].burst > 0,
                    ~(first[c]..h[i].burst \subseteq BurstsIn(h, i))
             PROVE  \E j \in 1..i : h[j].kind = "lagged"
    BY DEF LossTold
<1>2. CASE i \in 1..Len(g)
    <2>1. h[i] = g[i] /\ BurstsIn(h, i) = BurstsIn(g, i)
        BY <1>1, <1>2
    <2>2. PICK j \in 1..i : g[j].kind = "lagged"
        BY <2>1, <1>2 DEF LossTold
    <2>3. j \in 1..Len(g)
        BY <1>1, <1>2
    <2> QED
        BY <1>1, <2>2, <2>3
<1>3. CASE i = Len(h)
    <2>1. h[i] = item /\ item.burst > 0 /\ item.burst \in Nat
        BY <1>1, <1>3 DEF Items
    <2>2. Reached(c, item.burst)
        BY <2>1
    <2>3. CASE c \in missed
        <3>1. PICK j \in 1..Len(g) : g[j].kind = "lagged"
            BY <2>2, <2>3 DEF Reached, ToldIn
        <3>2. j \in 1..i
            BY <1>1, <1>3
        <3> QED
            BY <1>1, <3>1, <3>2
    <2>4. CASE c \notin missed
        <3>1. BurstsIn(g, Len(g)) = first[c]..item.burst - 1 /\ first[c] \in 1..item.burst
            BY <2>2, <2>4 DEF Reached
        <3>2. first[c]..item.burst = (first[c]..item.burst - 1) \union {item.burst}
            BY <2>1, <3>1
        <3>3. first[c]..item.burst \subseteq BurstsIn(h, Len(h))
            BY <1>1, <2>1, <3>1, <3>2
        <3> QED
            BY <1>3, <2>1, <3>3
    <2> QED
        BY <2>3, <2>4
<1> QED
    BY <1>1, <1>2, <1>3

--------------------------------------------------------------------------------
\* Nothing has been sent before the first client comes.
LEMMA InitInv == Init => Inv
<1> SUFFICES ASSUME Init PROVE Inv
    OBVIOUS
<1>1. TypeOK
    <2>1. sent \in Seq(1..MaxOutput) /\ Len(sent) <= MaxOutput
        BY MaxOutputAssumption DEF Init
    <2>2. sub \in [Clients -> Subscribers]
        <3>1. Sub("none") \in Subscribers
            BY MaxOutputAssumption DEF Sub, Item, Subscribers
        <3> QED
            BY <3>1 DEF Init
    <2>3. /\ next \in [Clients -> 0..MaxOutput + 1] /\ first \in [Clients -> 0..MaxOutput + 1]
          /\ written \in 0..MaxOutput /\ read \in 0..written
        BY MaxOutputAssumption DEF Init
    <2> QED
        BY <2>1, <2>2, <2>3 DEF Init, TypeOK
<1>2. got \in [Clients -> Seq(Items)]
    BY DEF Init
<1>3. Reader
    BY DEF Init, Reader, Open, Broadcast
<1>4. ASSUME NEW c \in Clients PROVE Client(c)
    <2>1. got[c] = <<>> /\ Len(got[c]) = 0 /\ sub[c].pc = "none"
        BY DEF Init, Sub
    <2>2. ~ToldIn(got[c], "exited") /\ ~ToldIn(got[c], "ended") /\ LossTold(c)
        BY <2>1 DEF ToldIn, LossTold
    <2> QED
        BY <2>1, <2>2 DEF Init, Client
<1> QED
    BY <1>1, <1>2, <1>3, <1>4 DEF Inv

--------------------------------------------------------------------------------
\* The channel as one client sees it: nothing is sent to a closed one, and it stays
\* closed.
ChannelMoves == /\ sent' = sent \/ (Open /\ Len(sent') >= Len(sent))
                /\ Open' => Open

\* The length of a sequence is a number.
LEMMA LengthType ==
    /\ TypeOK => sent \in Seq(1..MaxOutput) /\ Len(sent) \in Nat
    /\ TypeOK' => sent' \in Seq(1..MaxOutput) /\ Len(sent') \in Nat
<1>1. TypeOK => sent \in Seq(1..MaxOutput)
    BY DEF TypeOK
<1>2. TypeOK' => sent' \in Seq(1..MaxOutput)
    BY DEF TypeOK
<1>3. \A s \in Seq(1..MaxOutput) : Len(s) \in Nat
    OBVIOUS
<1> QED
    BY <1>1, <1>2, <1>3

\* A client whose subscriber and handler do not move keeps what it has.
LEMMA ClientKept ==
    ASSUME TypeOK, Len(sent') \in Nat, NEW c \in Clients, Client(c), ChannelMoves,
           /\ pc'[c] = pc[c] /\ sub'[c] = sub[c] /\ next'[c] = next[c]
           /\ cool'[c] => cool[c]
           /\ got'[c] = got[c] /\ first'[c] = first[c] /\ (c \in missed' <=> c \in missed)
    PROVE  Client(c)'
<1>0. Len(sent) \in Nat
    BY LengthType
<1>1. ASSUME NEW n, Reached(c, n) PROVE Reached(c, n)'
    BY <1>0, <1>1 DEF Reached, ChannelMoves
<1>2. ASSUME NEW n, Lagged(c, n) PROVE Lagged(c, n)'
    BY <1>0, <1>2 DEF Lagged, ChannelMoves
<1>3. Complete(c) => Complete(c)'
    BY DEF Complete, ChannelMoves
<1>4. ASSUME NEW item, Carries(c, item) PROVE Carries(c, item)'
    <2>1. CASE item.kind = "output" /\ item.burst <= Len(sent) /\ Reached(c, item.burst)
        <3>1. Reached(c, item.burst)' /\ item.burst \in Nat
            BY <1>1, <2>1 DEF Reached
        <3>2. item.burst <= Len(sent')
            BY <1>0, <2>1, <3>1 DEF ChannelMoves
        <3> QED
            BY <1>4, <2>1, <3>1, <3>2 DEF Carries
    <2>2. CASE item.kind # "output"
        BY <1>2, <1>3, <1>4, <2>2 DEF Carries
    <2> QED
        BY <1>4, <2>1, <2>2 DEF Carries
<1>5. LossTold(c)'
    BY DEF Client, LossTold
<1> QED
    BY <1>1, <1>3, <1>4, <1>5 DEF Client

\* A step of the shell, the reader or the session keeps the invariant when it keeps
\* what concerns the reader.
LEMMA ReaderSideStep ==
    ASSUME Inv, TypeOK', Reader', ChannelMoves, UNCHANGED clientVars
    PROVE  Inv'
<1>1. UNCHANGED <<pc, sub, next, cool, got, first, missed>> /\ Len(sent') \in Nat
    BY LengthType DEF clientVars
<1>2. \A c \in Clients : Client(c)'
    BY <1>1, ClientKept DEF Inv
<1> QED
    BY <1>1, <1>2 DEF Inv

\* A step of one client keeps the invariant when it keeps what concerns it.
LEMMA ClientSideStep ==
    ASSUME Inv, NEW c \in Clients, TypeOK', Reader', ChannelMoves,
           got' \in [Clients -> Seq(Items)], Client(c)',
           \A d \in Clients \ {c} :
               /\ pc'[d] = pc[d] /\ sub'[d] = sub[d] /\ next'[d] = next[d]
               /\ cool'[d] = cool[d] /\ got'[d] = got[d] /\ first'[d] = first[d]
               /\ d \in missed' <=> d \in missed
    PROVE  Inv'
<1>1. Len(sent') \in Nat
    BY LengthType
<1>2. ASSUME NEW d \in Clients \ {c} PROVE Client(d)'
    BY <1>1, ClientKept DEF Inv
<1> QED
    BY <1>2 DEF Inv

--------------------------------------------------------------------------------
\* The shell writes and exits; the reader may find out later.
LEMMA ShellKeeps == Inv /\ (ShellWrites \/ ShellExits) => Inv'
<1> SUFFICES ASSUME Inv, ShellWrites \/ ShellExits PROVE Inv'
    OBVIOUS
<1>1. UNCHANGED <<read, reader, sent, closedBy, removed, clientVars, failed>>
    BY DEF ShellWrites, ShellExits, channelVars
<1>2. /\ written \in 0..MaxOutput /\ read \in 0..written
      /\ written' \in 0..MaxOutput /\ read' \in 0..written'
    <2>1. written \in 0..MaxOutput /\ read \in 0..written
        BY DEF Inv, TypeOK
    <2>2. CASE ShellWrites
        <3>1. written' = written + 1 /\ written < MaxOutput
            BY <2>2 DEF ShellWrites
        <3>2. written' \in 0..MaxOutput /\ read \in 0..written'
            BY <2>1, <3>1, MaxOutputAssumption
        <3> QED
            BY <1>1, <2>1, <3>2
    <2>3. CASE ShellExits
        BY <1>1, <2>1, <2>3 DEF ShellExits
    <2> QED
        BY <2>1, <2>2, <2>3
<1>3. TypeOK'
    BY <1>1, <1>2 DEF ShellWrites, ShellExits, Inv, TypeOK, clientVars
<1>4. Reader'
    BY <1>1 DEF ShellWrites, ShellExits, Inv, Reader, Open, Broadcast
<1>5. ChannelMoves
    BY <1>1 DEF ChannelMoves, Open
<1> QED
    BY <1>1, <1>3, <1>4, <1>5, ReaderSideStep

\* What the reader drains is sent, if the channel is open (broadcast_output).
LEMMA ReaderDrainsKeeps == Inv /\ ReaderDrains => Inv'
<1> SUFFICES ASSUME Inv, ReaderDrains PROVE Inv'
    OBVIOUS
<1>1. PICK n \in read + 1..written :
        /\ read' = n
        /\ \/ reader' = "reading"
           \/ AtEof(n) /\ reader' = "terminated"
        /\ sent' = IF Open THEN Append(sent, n) ELSE sent
    BY DEF ReaderDrains
<1>2. UNCHANGED <<shell, written, closedBy, removed, clientVars, failed>>
    BY DEF ReaderDrains
<1>3. /\ written \in 0..MaxOutput /\ read \in 0..written /\ n \in 1..MaxOutput
      /\ n \in 0..written /\ sent \in Seq(1..MaxOutput) /\ Len(sent) \in Nat
      /\ Len(sent) <= read /\ MaxOutput \in Nat
    <2>1. written \in 0..MaxOutput /\ read \in 0..written /\ Len(sent) <= read
        BY DEF Inv, TypeOK, Reader
    <2>2. n \in 1..MaxOutput /\ n \in 0..written
        BY <2>1, MaxOutputAssumption
    <2> QED
        BY <2>1, <2>2, LengthType, MaxOutputAssumption DEF Inv
<1>4. /\ sent' \in Seq(1..MaxOutput) /\ Len(sent') <= n /\ Len(sent') >= Len(sent)
      /\ Len(sent') \in Nat
    <2>1. CASE Open
        BY <1>1, <1>3, <2>1
    <2>2. CASE ~Open
        BY <1>1, <1>3, <2>2
    <2> QED
        BY <2>1, <2>2
<1>5. Len(sent') <= MaxOutput
    BY <1>3, <1>4
<1>6. TypeOK'
    BY <1>1, <1>2, <1>3, <1>4, <1>5 DEF Inv, TypeOK, clientVars
<1>7. Reader'
    <2>1. Len(sent') <= read'
        BY <1>1, <1>4
    <2>2. Open' => Broadcast' = read'
        <3>1. CASE Open
            <4>1. sent' = Append(sent, n) /\ Len(sent') = Len(sent) + 1
                BY <1>1, <1>3, <3>1
            <4>2. sent' # <<>> /\ sent'[Len(sent')] = n
                BY <1>3, <4>1
            <4> QED
                BY <1>1, <4>2 DEF Broadcast
        <3>2. CASE ~Open
            BY <1>2, <3>2 DEF Open
        <3> QED
            BY <3>1, <3>2
    <2>3. reader' = "terminated" => shell' = "exited" /\ read' = written'
        BY <1>1, <1>2 DEF AtEof
    <2>4. closedBy' = "reader" => shell' = "exited" /\ Broadcast' = written'
        BY <1>1, <1>2 DEF Inv, Reader, Open, Broadcast
    <2> QED
        BY <2>1, <2>2, <2>3, <2>4 DEF Reader
<1>8. ChannelMoves
    BY <1>1, <1>2, <1>4 DEF ChannelMoves, Open
<1> QED
    BY <1>2, <1>6, <1>7, <1>8, ReaderSideStep

\* The reader's other steps, and the removal: once the reader has come to the end
\* everything was sent (spawn_pty_reader, mark_pty_exited, Session::shutdown).
LEMMA ReaderEndsKeep ==
    Inv /\ (ReaderRegisters \/ ReaderGivesUp \/ ReaderEof \/ ReaderFails \/ ReaderMarks
              \/ ShutDown) => Inv'
<1> SUFFICES ASSUME Inv, ReaderRegisters \/ ReaderGivesUp \/ ReaderEof \/ ReaderFails
                           \/ ReaderMarks \/ ShutDown
             PROVE  Inv'
    OBVIOUS
<1>1. UNCHANGED <<shell, written, read, sent, clientVars, failed>>
    BY DEF ReaderRegisters, ReaderGivesUp, ReaderEof, ReaderFails, ReaderMarks, ShutDown,
           channelVars
<1>2. TypeOK'
    <2>1. closedBy' \in {"nobody", "reader", "read error", "input", "removal"}
        BY DEF ReaderRegisters, ReaderGivesUp, ReaderEof, ReaderFails, ReaderMarks, ShutDown,
               channelVars, Close, Inv, TypeOK
    <2>2. /\ reader' \in {"none", "starting", "reading", "gone", "terminated", "failed", "ended"}
          /\ removed' \in BOOLEAN
        BY DEF ReaderRegisters, ReaderGivesUp, ReaderEof, ReaderFails, ReaderMarks, ShutDown,
               channelVars, Inv, TypeOK
    <2> QED
        BY <1>1, <2>1, <2>2 DEF Inv, TypeOK, clientVars
<1>3. Reader'
    <2>1. reader' = "terminated" => shell = "exited" /\ read = written
        BY DEF ReaderRegisters, ReaderGivesUp, ReaderEof, ReaderFails, ReaderMarks, ShutDown,
               AtEof
    <2>2. closedBy' = "reader" => closedBy = "reader" \/ (Open /\ reader = "terminated")
        BY DEF ReaderRegisters, ReaderGivesUp, ReaderEof, ReaderFails, ReaderMarks, ShutDown,
               channelVars, Close
    <2>3. Open' => Open
        BY DEF ReaderRegisters, ReaderGivesUp, ReaderEof, ReaderFails, ReaderMarks, ShutDown,
               channelVars, Close, Open
    <2> QED
        BY <1>1, <2>1, <2>2, <2>3 DEF Inv, Reader, Broadcast
<1>4. ChannelMoves
    BY <1>1 DEF ReaderRegisters, ReaderGivesUp, ReaderEof, ReaderFails, ReaderMarks, ShutDown,
           channelVars, Close, Open, ChannelMoves
<1> QED
    BY <1>1, <1>2, <1>3, <1>4, ReaderSideStep

--------------------------------------------------------------------------------
\* What subscribers hold is well typed.
LEMMA SubTypes ==
    /\ \A s \in {"none", "receiving", "broken", "done"} :
           Sub(s) \in Subscribers /\ Sub(s).pc = s
    /\ \A kind \in {"output", "lagged", "exited"}, n \in 0..MaxOutput :
           /\ Holding(kind, n) \in Subscribers /\ Holding(kind, n).pc = "holding"
           /\ Holding(kind, n).item.kind = kind /\ Holding(kind, n).item.burst = n
BY MaxOutputAssumption DEF Sub, Holding, Item, Subscribers

\* Handlers and subscribers leave the reader's part alone, but to start it.
LEMMA ReaderKept ==
    ASSUME Inv, UNCHANGED <<shell, written, read, sent, closedBy>>,
           reader' \in {reader, "starting"}
    PROVE  Reader' /\ ChannelMoves
BY DEF Inv, Reader, Open, Broadcast, ChannelMoves

\* Types, when one client's handler and subscriber move.
LEMMA TypesKept ==
    ASSUME Inv, NEW c \in Clients,
           UNCHANGED <<shell, written, read, sent, closedBy, removed>>,
           reader' \in {reader, "starting"}, cool' \in [Clients -> BOOLEAN],
           NEW p \in {"new", "attached", "live", "closing", "closed"},
           pc' = [pc EXCEPT ![c] = p],
           NEW s \in Subscribers, sub' = [sub EXCEPT ![c] = s],
           NEW n \in 0..MaxOutput + 1, next' = [next EXCEPT ![c] = n],
           NEW f \in 0..MaxOutput + 1, first' = [first EXCEPT ![c] = f],
           missed' \subseteq Clients, failed' \subseteq Clients
    PROVE  TypeOK'
<1> USE DEF Inv
<1>1. reader' \in {"none", "starting", "reading", "gone", "terminated", "failed", "ended"}
    BY DEF TypeOK
<1>2. /\ pc' \in [Clients -> {"new", "attached", "live", "closing", "closed"}]
      /\ sub' \in [Clients -> Subscribers]
      /\ next' \in [Clients -> 0..MaxOutput + 1]
      /\ first' \in [Clients -> 0..MaxOutput + 1]
    BY DEF TypeOK
<1> QED
    BY <1>1, <1>2 DEF TypeOK

\* The client's variables as functions, and what a step that leaves them means.
LEMMA Functions ==
    ASSUME Inv, NEW c \in Clients
    PROVE  /\ pc = [pc EXCEPT ![c] = pc[c]] /\ sub = [sub EXCEPT ![c] = sub[c]]
           /\ next = [next EXCEPT ![c] = next[c]] /\ first = [first EXCEPT ![c] = first[c]]
           /\ pc[c] \in {"new", "attached", "live", "closing", "closed"}
           /\ sub[c] \in Subscribers
           /\ next[c] \in 0..MaxOutput + 1 /\ first[c] \in 0..MaxOutput + 1
           /\ got[c] \in Seq(Items) /\ Client(c)
BY DEF Inv, TypeOK

\* add_client and start_reader_once.
LEMMA AttachKeeps == ASSUME Inv, NEW c \in Clients, Attach(c) PROVE Inv'
<1>1. /\ pc[c] = "new" /\ pc' = [pc EXCEPT ![c] = "attached"]
      /\ reader' \in {reader, "starting"}
      /\ UNCHANGED <<shell, written, read, sent, closedBy, removed, sub, next, cool, got,
                     first, missed, failed>>
    BY DEF Attach, channelVars
<1>2. TypeOK'
    BY <1>1, TypesKept, Functions DEF Inv, TypeOK
<1>3. Reader' /\ ChannelMoves
    BY <1>1, ReaderKept
<1>4. pc'[c] = "attached" /\ \A d \in Clients \ {c} : pc'[d] = pc[d]
    BY <1>1 DEF Inv, TypeOK
<1>5. Client(c)'
    <2>1. /\ got[c] = <<>> /\ Len(got[c]) = 0 /\ first[c] = 0 /\ c \notin missed
          /\ sub[c].pc = "none" /\ ~cool[c]
        BY <1>1, Functions DEF Client
    <2>2. ~ToldIn(got[c], "exited") /\ ~ToldIn(got[c], "ended") /\ LossTold(c)'
        BY <1>1, <2>1 DEF ToldIn, LossTold
    <2>3. got[c] \in Seq(Items)
        BY Functions
    <2> QED
        BY <1>1, <1>4, <2>1, <2>2, <2>3 DEF Client
<1> QED
    BY <1>1, <1>2, <1>3, <1>4, <1>5, ClientSideStep DEF Inv

\* subscribe_output: the stream begins with the next burst, or is over.
LEMMA SubscribeKeeps == ASSUME Inv, NEW c \in Clients, Subscribe(c) PROVE Inv'
<1>1. /\ pc[c] = "attached" /\ pc' = [pc EXCEPT ![c] = "live"]
      /\ UNCHANGED <<shell, written, read, reader, sent, closedBy, removed, cool, missed,
                     failed>>
    BY DEF Subscribe, channelVars, ptyVars
<1>2. Reader' /\ ChannelMoves
    BY <1>1, ReaderKept
<1>3. pc'[c] = "live" /\ \A d \in Clients \ {c} : pc'[d] = pc[d]
    BY <1>1 DEF Inv, TypeOK
<1>4. /\ got[c] = <<>> /\ Len(got[c]) = 0 /\ first[c] = 0 /\ c \notin missed /\ ~cool[c]
      /\ got[c] \in Seq(Items)
    BY <1>1, Functions DEF Client
<1>5. /\ got \in [Clients -> Seq(Items)] /\ sub \in [Clients -> Subscribers]
      /\ next \in [Clients -> 0..MaxOutput + 1] /\ first \in [Clients -> 0..MaxOutput + 1]
      /\ cool \in [Clients -> BOOLEAN] /\ missed \subseteq Clients /\ failed \subseteq Clients
    BY DEF Inv, TypeOK
<1>6. Len(sent) \in Nat /\ Len(sent) + 1 \in 0..MaxOutput + 1
    <2>1. Len(sent) \in Nat /\ Len(sent) <= MaxOutput
        BY LengthType DEF Inv, TypeOK
    <2> QED
        BY <2>1, MaxOutputAssumption
<1>7. CASE Open
    <2>1. /\ sub' = [sub EXCEPT ![c] = Sub("receiving")]
          /\ next' = [next EXCEPT ![c] = Len(sent) + 1]
          /\ first' = [first EXCEPT ![c] = Len(sent) + 1]
          /\ UNCHANGED got
        BY <1>7 DEF Subscribe
    <2>2. TypeOK'
        BY <1>1, <1>5, <1>6, <2>1, TypesKept, SubTypes
    <2>3. /\ sub'[c].pc = "receiving" /\ next'[c] = Len(sent) + 1
          /\ first'[c] = Len(sent) + 1
          /\ \A d \in Clients \ {c} :
                 sub'[d] = sub[d] /\ next'[d] = next[d] /\ first'[d] = first[d]
        BY <1>5, <2>1, SubTypes
    <2>4. PICK m \in Nat : m = Len(sent) + 1
        BY <1>6
    <2>5. Reached(c, m)'
        <3>1. BurstsIn(got'[c], Len(got'[c])) = {} /\ Len(got'[c]) = 0 /\ c \notin missed'
            BY <1>1, <1>4, <2>1 DEF BurstsIn
        <3>2. first'[c] = m /\ m \in 1..m /\ m..m - 1 = {} /\ m <= Len(sent') + 1
            BY <1>1, <1>6, <2>3, <2>4
        <3> QED
            BY <3>1, <3>2 DEF Reached
    <2>6. Client(c)'
        <3>1. ~ToldIn(got[c], "exited") /\ ~ToldIn(got[c], "ended") /\ LossTold(c)'
            BY <1>4, <2>1 DEF ToldIn, LossTold
        <3>2. Reached(c, next[c])'
            BY <2>3, <2>4, <2>5
        <3> QED
            BY <1>1, <1>3, <1>4, <2>1, <2>3, <3>1, <3>2 DEF Client
    <2> QED
        BY <1>1, <1>2, <1>3, <1>5, <2>1, <2>2, <2>3, <2>6, ClientSideStep
<1>8. CASE ~Open
    <2>1. /\ sub' = [sub EXCEPT ![c] = Sub("done")]
          /\ got' = [got EXCEPT ![c] = Append(got[c], Item("exited", 0))]
          /\ UNCHANGED <<next, first>>
        BY <1>8 DEF Subscribe
    <2>2. TypeOK'
        <3>1. sub' \in [Clients -> Subscribers]
            BY <1>5, <2>1, SubTypes
        <3>2. pc' \in [Clients -> {"new", "attached", "live", "closing", "closed"}]
            BY <1>1 DEF Inv, TypeOK
        <3> QED
            BY <1>1, <2>1, <3>1, <3>2 DEF Inv, TypeOK
    <2>3. Item("exited", 0) \in Items /\ Item("exited", 0).kind = "exited"
            /\ Item("exited", 0).burst = 0
        BY DEF Item, Items
    <2>4. Extends(got'[c], got[c], Item("exited", 0))
        BY <1>4, <1>5, <2>1, <2>3, AppendAdds
    <2>5. /\ got' \in [Clients -> Seq(Items)] /\ sub'[c].pc = "done"
          /\ \A d \in Clients \ {c} : sub'[d] = sub[d] /\ got'[d] = got[d]
        BY <1>4, <1>5, <2>1, <2>3, SubTypes
    <2>6. LossTold(c)'
        <3>1. LossTold(c)
            BY Functions DEF Client
        <3>2. got'[c] = Append(got[c], Item("exited", 0)) /\ first'[c] = first[c]
            BY <1>5, <2>1
        <3>3. ~(Item("exited", 0).burst > 0)
            BY <2>3
        <3> QED
            BY <1>4, <2>3, <3>1, <3>2, <3>3, AppendTells
    <2>7. ~ToldIn(got'[c], "ended")
        BY <1>4, <2>3, <2>4 DEF Extends, ToldIn
    <2>8. Client(c)'
        BY <1>1, <1>3, <1>4, <2>1, <2>5, <2>6, <2>7 DEF Client
    <2> QED
        BY <1>1, <1>2, <1>3, <2>1, <2>2, <2>5, <2>8, ClientSideStep
<1> QED
    BY <1>7, <1>8

--------------------------------------------------------------------------------
\* The handler leaves; what the subscriber holds it may still send.
LEMMA LeaveLoopKeeps ==
    ASSUME Inv, NEW c \in Clients, pc[c] = "live", LeaveLoop(c), Reader', ChannelMoves,
           UNCHANGED <<shell, written, read, reader, sent, removed>>,
           closedBy' \in {closedBy, "input"}
    PROVE  Inv'
<1>1. /\ pc' = [pc EXCEPT ![c] = "closing"] /\ next' = [next EXCEPT ![c] = 0]
      /\ cool' = [cool EXCEPT ![c] = FALSE] /\ failed' = failed \ {c}
      /\ UNCHANGED <<got, first, missed>>
    BY DEF LeaveLoop
<1>2. PICK s \in {sub[c], Sub("done")} :
        s.pc \in {"holding", "done"} /\ sub' = [sub EXCEPT ![c] = s]
    BY DEF LeaveLoop
<1>3. s \in Subscribers /\ (s.pc = "holding" => s = sub[c])
    BY <1>2, SubTypes, Functions
<1>4. TypeOK'
    <2>1. /\ pc' \in [Clients -> {"new", "attached", "live", "closing", "closed"}]
          /\ sub' \in [Clients -> Subscribers]
          /\ cool' \in [Clients -> BOOLEAN]
        BY <1>1, <1>2, <1>3 DEF Inv, TypeOK
    <2>2. 0 \in 0..MaxOutput + 1
        BY MaxOutputAssumption
    <2>3. next' \in [Clients -> 0..MaxOutput + 1]
        BY <1>1, <2>2 DEF Inv, TypeOK
    <2> QED
        BY <1>1, <2>1, <2>3 DEF Inv, TypeOK
<1>5. /\ pc'[c] = "closing" /\ next'[c] = 0 /\ ~cool'[c] /\ sub'[c] = s
      /\ \A d \in Clients \ {c} : /\ pc'[d] = pc[d] /\ next'[d] = next[d]
                                  /\ cool'[d] = cool[d] /\ sub'[d] = sub[d]
    BY <1>1, <1>2 DEF Inv, TypeOK
<1>6. /\ got[c] \in Seq(Items) /\ LossTold(c) /\ ~ToldIn(got[c], "ended")
      /\ sub[c].pc = "holding" => Carries(c, sub[c].item)
      /\ ToldIn(got[c], "exited") => sub[c].pc = "done" /\ (first[c] > 0 => Complete(c))
    BY Functions DEF Client
<1>7. Complete(c) => Complete(c)'
    BY <1>1 DEF Complete, ChannelMoves
<1>8. s.pc = "holding" => Carries(c, s.item)'
    <2> SUFFICES ASSUME s.pc = "holding" PROVE Carries(c, s.item)'
        OBVIOUS
    <2>1. Carries(c, s.item)
        BY <1>3, <1>6
    <2>2. \A n : Reached(c, n) => Reached(c, n)'
        BY <1>1 DEF Reached
    <2> QED
        BY <1>5, <1>7, <2>1, <2>2 DEF Carries
<1>9. ToldIn(got[c], "exited") => s.pc = "done"
    BY <1>2, <1>3, <1>6
<1>10. LossTold(c)'
    BY <1>1, <1>6 DEF LossTold
<1>11. Client(c)'
    BY <1>1, <1>2, <1>5, <1>6, <1>7, <1>8, <1>9, <1>10 DEF Client
<1> QED
    BY <1>1, <1>4, <1>5, <1>11, ClientSideStep DEF Inv

\* InputFails, Leave and MustLeave: the channel is closed, or nothing happens to it.
LEMMA LeavingKeeps ==
    ASSUME Inv, NEW c \in Clients, InputFails(c) \/ Leave(c) \/ MustLeave(c)
    PROVE  Inv'
<1>1. /\ pc[c] = "live" /\ LeaveLoop(c)
      /\ UNCHANGED <<shell, written, read, reader, sent, removed>>
      /\ Close("input") \/ UNCHANGED closedBy
    BY DEF InputFails, Leave, MustLeave, ptyVars, channelVars
<1>2. closedBy' \in {closedBy, "input"}
    BY <1>1 DEF Close
<1>3. closedBy' = closedBy \/ (Open /\ closedBy' = "input")
    BY <1>1 DEF Close
<1>4. Reader' /\ ChannelMoves
    BY <1>1, <1>3 DEF Inv, Reader, Open, Broadcast, ChannelMoves
<1> QED
    BY <1>1, <1>2, <1>4, LeaveLoopKeeps

\* A write that fails is only remembered.
LEMMA InputKeeps == ASSUME Inv, NEW c \in Clients, Input(c) PROVE Inv'
<1>1. UNCHANGED <<shell, written, read, reader, sent, closedBy, removed, clientVars>>
    BY DEF Input, ptyVars, channelVars
<1>2. TypeOK'
    BY <1>1 DEF Input, Inv, TypeOK, clientVars
<1>3. Reader' /\ ChannelMoves
    BY <1>1, ReaderKept
<1> QED
    BY <1>1, <1>2, <1>3, ReaderSideStep

\* The farewell is the last thing sent.
LEMMA EndConnectionKeeps == ASSUME Inv, NEW c \in Clients, EndConnection(c) PROVE Inv'
<1>1. /\ pc[c] = "closing" /\ pc' = [pc EXCEPT ![c] = "closed"]
      /\ got' = [got EXCEPT ![c] = Append(got[c], Item("ended", 0))]
      /\ sub' = [sub EXCEPT ![c] = Sub("done")]
      /\ UNCHANGED <<shell, written, read, reader, sent, closedBy, removed, next, cool, first,
                     missed, failed>>
    BY DEF EndConnection, ptyVars, channelVars
<1>2. TypeOK'
    BY <1>1, TypesKept, SubTypes, Functions DEF Inv, TypeOK
<1>3. Reader' /\ ChannelMoves
    BY <1>1, ReaderKept
<1>4. /\ got \in [Clients -> Seq(Items)] /\ got[c] \in Seq(Items)
      /\ Item("ended", 0) \in Items /\ Item("ended", 0).kind = "ended"
      /\ Item("ended", 0).burst = 0
    BY DEF Inv, Item, Items
<1>5. Extends(got'[c], got[c], Item("ended", 0))
    BY <1>1, <1>4, AppendAdds
<1>6. /\ got' \in [Clients -> Seq(Items)] /\ sub'[c].pc = "done" /\ pc'[c] = "closed"
      /\ \A d \in Clients \ {c} : pc'[d] = pc[d] /\ sub'[d] = sub[d] /\ got'[d] = got[d]
    <2>1. got' \in [Clients -> Seq(Items)]
        <3>1. Append(got[c], Item("ended", 0)) \in Seq(Items)
            BY <1>4
        <3> QED
            BY <1>1, <1>4, <3>1
    <2>2. /\ sub \in [Clients -> Subscribers]
          /\ pc \in [Clients -> {"new", "attached", "live", "closing", "closed"}]
        BY DEF Inv, TypeOK
    <2>3. sub'[c].pc = "done" /\ pc'[c] = "closed"
        BY <1>1, <2>2, SubTypes
    <2> QED
        BY <1>1, <1>4, <2>1, <2>2, <2>3
<1>7. LossTold(c)'
    <2>1. LossTold(c)
        BY Functions DEF Client
    <2> QED
        BY <1>1, <1>4, <2>1, AppendTells
<1>8. ToldIn(got'[c], "exited") => (first[c] > 0 => Complete(c)')
    <2>1. ToldIn(got'[c], "exited") => ToldIn(got[c], "exited")
        BY <1>4, <1>5 DEF Extends
    <2>2. ToldIn(got[c], "exited") => (first[c] > 0 => Complete(c))
        BY Functions DEF Client
    <2>3. BurstsIn(got'[c], Len(got'[c])) = BurstsIn(got[c], Len(got[c]))
        BY <1>4, <1>5 DEF Extends
    <2> QED
        BY <1>1, <2>1, <2>2, <2>3 DEF Complete, Open
<1>9. cool[c] => c \in missed
    BY Functions DEF Client
<1>10. Client(c)'
    BY <1>1, <1>6, <1>7, <1>8, <1>9 DEF Client
<1> QED
    BY <1>1, <1>2, <1>3, <1>6, <1>10, ClientSideStep

--------------------------------------------------------------------------------
\* Another second has passed.
LEMMA CooledDownKeeps == ASSUME Inv, NEW c \in Clients, CooledDown(c) PROVE Inv'
<1>1. /\ UNCHANGED <<shell, written, read, reader, sent, closedBy, removed, pc, sub, next, got,
                     first, missed, failed>>
      /\ cool' = [cool EXCEPT ![c] = FALSE]
    BY DEF CooledDown, ptyVars, channelVars
<1>2. cool' \in [Clients -> BOOLEAN] /\ \A d \in Clients : cool'[d] => cool[d]
    BY <1>1 DEF Inv, TypeOK
<1>3. TypeOK'
    BY <1>1, <1>2 DEF Inv, TypeOK
<1>4. Reader' /\ ChannelMoves
    BY <1>1, ReaderKept
<1>5. Len(sent') \in Nat
    BY <1>3, LengthType
<1>6. \A d \in Clients : Client(d)'
    BY <1>1, <1>2, <1>4, <1>5, ClientKept DEF Inv
<1> QED
    BY <1>1, <1>3, <1>4, <1>6 DEF Inv

\* What a receiving subscriber's client has.
LEMMA Receiving ==
    ASSUME Inv, NEW c \in Clients, sub[c].pc \in {"receiving", "holding"}
    PROVE  /\ got[c] \in Seq(Items) /\ LossTold(c) /\ (cool[c] => c \in missed)
           /\ ~ToldIn(got[c], "exited") /\ ~ToldIn(got[c], "ended")
           /\ pc[c] \in {"live", "closing"}
           /\ sub[c].pc = "receiving" => Reached(c, next[c])
           /\ sub[c].pc = "holding" => Carries(c, sub[c].item)
<1>1. Client(c) /\ sub[c].pc # "done" /\ sub[c].pc # "none" /\ got[c] \in Seq(Items)
    BY Functions
<1>2. pc[c] # "closed" /\ pc[c] \notin {"new", "attached"}
    BY <1>1 DEF Client
<1> QED
    BY <1>1, <1>2 DEF Client

\* broadcast::Receiver::recv: the next burst, a lag, or the end.
LEMMA ReceiveKeeps == ASSUME Inv, NEW c \in Clients, Receive(c) PROVE Inv'
<1>1. /\ pc[c] = "live" /\ sub[c].pc = "receiving"
      /\ TakeBurst(c) \/ TakeLag(c) \/ TakeClose(c)
      /\ UNCHANGED <<shell, written, read, reader, sent, closedBy, removed, pc, got, first,
                     failed>>
    BY DEF Receive, ptyVars, channelVars
<1>2. /\ got[c] \in Seq(Items) /\ LossTold(c) /\ (cool[c] => c \in missed)
      /\ ~ToldIn(got[c], "exited") /\ ~ToldIn(got[c], "ended") /\ Reached(c, next[c])
    BY <1>1, Receiving
<1>3. Reader' /\ ChannelMoves
    BY <1>1, ReaderKept
<1>4. /\ sub \in [Clients -> Subscribers] /\ next \in [Clients -> 0..MaxOutput + 1]
      /\ cool \in [Clients -> BOOLEAN] /\ missed \subseteq Clients
      /\ got \in [Clients -> Seq(Items)]
    BY DEF Inv, TypeOK
<1>5. Len(sent) \in Nat /\ Len(sent) <= MaxOutput /\ next[c] \in Nat /\ first[c] \in 1..next[c]
    BY <1>2, LengthType DEF Inv, TypeOK, Reached
<1>6. \A i \in 1..Len(got[c]) : got[c][i].burst < next[c] /\ got[c][i].burst \in Nat
    <2>1. \A i \in 1..Len(got[c]) : got[c][i] \in Items
        BY <1>2
    <2> QED
        BY <1>2, <2>1 DEF Reached, Items
<1>7. LossTold(c)'
    BY <1>1, <1>2 DEF LossTold
<1>8. ASSUME NEW s \in Subscribers, sub' = [sub EXCEPT ![c] = s],
             NEW n \in 0..MaxOutput + 1, next' = [next EXCEPT ![c] = n],
             cool' \in [Clients -> BOOLEAN], cool'[c] => c \in missed',
             missed' \in {missed, missed \cup {c}},
             \A d \in Clients \ {c} : cool'[d] = cool[d],
             \/ s.pc = "receiving" /\ Reached(c, n)'
             \/ s.pc = "holding" /\ Carries(c, s.item)'
      PROVE  Inv'
    <2>1. TypeOK'
        <3>1. /\ sub' \in [Clients -> Subscribers] /\ next' \in [Clients -> 0..MaxOutput + 1]
              /\ missed' \subseteq Clients
            BY <1>4, <1>8
        <3> QED
            BY <1>1, <1>8, <3>1 DEF Inv, TypeOK
    <2>2. /\ sub'[c] = s /\ next'[c] = n /\ pc'[c] = "live"
          /\ \A d \in Clients \ {c} : /\ sub'[d] = sub[d] /\ next'[d] = next[d]
                                      /\ d \in missed' <=> d \in missed
        BY <1>1, <1>4, <1>8
    <2>3. Client(c)'
        BY <1>1, <1>2, <1>7, <1>8, <2>2 DEF Client
    <2> QED
        BY <1>1, <1>3, <1>4, <1>8, <2>1, <2>2, <2>3, ClientSideStep
<1>9. PICK m \in Nat : m = next[c]
    BY <1>5
<1>10. CASE TakeBurst(c)
    <2>1. /\ m <= Len(sent) /\ UNCHANGED <<cool, missed>>
          /\ sub' = [sub EXCEPT ![c] = Holding("output", m)]
          /\ next' = [next EXCEPT ![c] = m + 1]
        BY <1>9, <1>10 DEF TakeBurst
    <2>2. m \in 0..MaxOutput /\ m + 1 \in 0..MaxOutput + 1
        BY <1>5, <2>1, MaxOutputAssumption
    <2>3. Reached(c, m)'
        BY <1>1, <1>2, <1>9, <2>1 DEF Reached
    <2>4. next'[c] = m + 1
        BY <1>4, <2>1
    <2>5. PICK s \in Subscribers : s = Holding("output", m)
        BY <2>2, SubTypes
    <2>6. s.pc = "holding" /\ s.item.kind = "output" /\ s.item.burst = m
        BY <2>2, <2>5, SubTypes
    <2>7. Carries(c, s.item)'
        BY <1>1, <2>1, <2>3, <2>4, <2>6 DEF Carries
    <2> QED
        BY <1>2, <1>4, <1>8, <2>1, <2>2, <2>5, <2>6, <2>7
<1>11. CASE TakeLag(c)
    <2>1. PICK n \in 0..MaxOutput + 1 :
            n = Len(sent) - Capacity + 1 /\ m < n /\ n <= Len(sent) + 1
        <3>1. m + Capacity <= Len(sent) /\ Capacity \in Nat \ {0}
            BY <1>9, <1>11, CapacityAssumption DEF TakeLag
        <3> QED
            BY <1>5, <3>1, MaxOutputAssumption
    <2>2. /\ next' = [next EXCEPT ![c] = n] /\ missed' = missed \cup {c}
          /\ cool' = [cool EXCEPT ![c] = TRUE]
          /\ sub' = IF cool[c] THEN sub ELSE [sub EXCEPT ![c] = Holding("lagged", 0)]
        BY <1>11, <2>1 DEF TakeLag
    <2>3. /\ cool' \in [Clients -> BOOLEAN] /\ cool'[c]
          /\ \A d \in Clients \ {c} : cool'[d] = cool[d]
        BY <1>4, <2>2
    <2>4. /\ n \in Nat /\ first'[c] \in 1..n /\ n <= Len(sent') + 1 /\ c \in missed'
          /\ \A i \in 1..Len(got'[c]) : got'[c][i].burst < n
        BY <1>1, <1>5, <1>6, <1>9, <2>1, <2>2
    <2>5. CASE cool[c]
        <3>1. ToldIn(got[c], "lagged")
            BY <1>2, <2>5 DEF Reached
        <3>2. Reached(c, n)'
            BY <1>1, <2>4, <3>1 DEF Reached
        <3>3. sub' = [sub EXCEPT ![c] = sub[c]] /\ sub[c] \in Subscribers
            BY <1>4, <2>2, <2>5
        <3> QED
            BY <1>1, <1>8, <2>2, <2>3, <3>2, <3>3
    <2>6. CASE ~cool[c]
        <3>1. PICK s \in Subscribers : s = Holding("lagged", 0)
            BY MaxOutputAssumption, SubTypes
        <3>2. s.pc = "holding" /\ s.item.kind = "lagged" /\ s.item.burst = 0
            BY <3>1, MaxOutputAssumption, SubTypes
        <3>3. Lagged(c, n)'
            BY <2>4 DEF Lagged
        <3>4. next'[c] = n
            BY <1>4, <2>2
        <3>5. Carries(c, s.item)'
            BY <3>2, <3>3, <3>4 DEF Carries
        <3> QED
            BY <1>8, <2>2, <2>3, <2>6, <3>1, <3>2, <3>5
    <2> QED
        BY <2>5, <2>6
<1>12. CASE TakeClose(c)
    <2>1. /\ m = Len(sent) + 1 /\ ~Open /\ UNCHANGED <<next, cool, missed>>
          /\ sub' = [sub EXCEPT ![c] = Holding("exited", 0)]
        BY <1>9, <1>12 DEF TakeClose
    <2>2. PICK s \in Subscribers : s = Holding("exited", 0)
        BY MaxOutputAssumption, SubTypes
    <2>3. s.pc = "holding" /\ s.item.kind = "exited" /\ s.item.burst = 0
        BY <2>2, MaxOutputAssumption, SubTypes
    <2>4. m - 1 = Len(sent)
        BY <1>5, <2>1
    <2>5. Complete(c)'
        BY <1>1, <1>2, <1>9, <2>1, <2>4 DEF Complete, Reached, Open
    <2>6. Carries(c, s.item)'
        BY <2>3, <2>5 DEF Carries
    <2>7. next' = [next EXCEPT ![c] = next[c]] /\ next[c] \in 0..MaxOutput + 1
        BY <1>4, <2>1
    <2> QED
        BY <1>2, <1>4, <1>8, <2>1, <2>2, <2>3, <2>6, <2>7
<1> QED
    BY <1>1, <1>10, <1>11, <1>12

\* What a subscriber holds is the next thing its client may get.
LEMMA HeldItem ==
    ASSUME Inv, NEW c \in Clients, sub[c].pc = "holding"
    PROVE  /\ sub[c].item \in Items
           /\ sub[c].item.kind \in {"output", "lagged", "exited"}
           /\ sub[c].item.burst > 0 => Reached(c, sub[c].item.burst)
           /\ sub[c].item.burst > 0 => sub[c].item.kind = "output"
           /\ sub[c].item.kind = "output" => sub[c].item.burst > 0
<1>1. Carries(c, sub[c].item)
    BY Receiving
<1>2. sub[c].item.kind \in {"output", "lagged", "exited"}
    BY <1>1 DEF Carries
<1>3. sub[c].item \in [kind : {"none", "output", "lagged", "exited"}, burst : 0..MaxOutput]
    BY Functions DEF Subscribers
<1>4. sub[c].item \in Items
    BY <1>2, <1>3, MaxOutputAssumption DEF Items
<1>5. \A n : Reached(c, n) => n > 0
    BY DEF Reached
<1> QED
    BY <1>1, <1>2, <1>4, <1>5 DEF Carries

\* The socket's lock is granted: the item is sent, the task goes on or ends.
LEMMA DeliverKeeps == ASSUME Inv, NEW c \in Clients, Deliver(c) PROVE Inv'
<1>1. PICK item : item = sub[c].item
    OBVIOUS
<1>2. /\ sub[c].pc = "holding"
      /\ got' = [got EXCEPT ![c] = Append(got[c], item)]
      /\ sub' = [sub EXCEPT ![c] = Sub(AfterSend(c))]
      /\ UNCHANGED <<shell, written, read, reader, sent, closedBy, removed, pc, next, cool,
                     first, missed, failed>>
    BY <1>1 DEF Deliver, ptyVars, channelVars
<1>3. /\ got[c] \in Seq(Items) /\ LossTold(c) /\ (cool[c] => c \in missed)
      /\ ~ToldIn(got[c], "exited") /\ ~ToldIn(got[c], "ended")
      /\ pc[c] \in {"live", "closing"} /\ Carries(c, item)
    BY <1>1, <1>2, Receiving
<1>4. /\ item \in Items /\ item.kind \in {"output", "lagged", "exited"}
      /\ item.burst > 0 => Reached(c, item.burst)
    BY <1>1, <1>2, HeldItem
<1>5. Reader' /\ ChannelMoves
    BY <1>2, ReaderKept
<1>6. got \in [Clients -> Seq(Items)] /\ sub \in [Clients -> Subscribers]
    BY DEF Inv, TypeOK
<1>7. PICK a \in {"receiving", "done"} : a = AfterSend(c)
    BY DEF AfterSend
<1>8. a = "receiving" => pc[c] = "live" /\ item.kind # "exited"
    BY <1>1, <1>7 DEF AfterSend
<1>9. item.kind = "exited" => a = "done"
    BY <1>8
<1>10. Sub(a) \in Subscribers /\ Sub(a).pc = a
    BY SubTypes
<1>11. /\ sub'[c].pc = a /\ got'[c] = Append(got[c], item)
       /\ \A d \in Clients \ {c} : sub'[d] = sub[d] /\ got'[d] = got[d]
    BY <1>2, <1>6, <1>7, <1>10
<1>12. Extends(got'[c], got[c], item)
    BY <1>3, <1>4, <1>11, AppendAdds
<1>13. got' \in [Clients -> Seq(Items)]
    <2>1. Append(got[c], item) \in Seq(Items)
        BY <1>3, <1>4
    <2> QED
        BY <1>2, <1>6, <2>1
<1>14. TypeOK'
    <2>1. sub' \in [Clients -> Subscribers]
        BY <1>2, <1>6, <1>7, <1>10
    <2> QED
        BY <1>2, <2>1 DEF Inv, TypeOK
<1>15. LossTold(c)'
    BY <1>2, <1>3, <1>4, <1>11, AppendTells
<1>16. ~ToldIn(got'[c], "ended") /\ (ToldIn(got'[c], "exited") => item.kind = "exited")
    BY <1>3, <1>4, <1>12 DEF Extends
<1>17. item.kind = "exited" => Complete(c)'
    <2> SUFFICES ASSUME item.kind = "exited" PROVE Complete(c)'
        OBVIOUS
    <2>1. Complete(c) /\ item.burst = 0
        BY <1>3 DEF Carries
    <2>2. BurstsIn(got'[c], Len(got'[c])) = BurstsIn(got[c], Len(got[c]))
        BY <1>12, <2>1 DEF Extends
    <2> QED
        BY <1>2, <2>1, <2>2 DEF Complete, Open
<1>18. a = "receiving" => Reached(c, next[c])'
    <2> SUFFICES ASSUME a = "receiving" PROVE Reached(c, next[c])'
        OBVIOUS
    <2>0. pc[c] = "live" /\ Len(sent) \in Nat
        BY <1>8, LengthType DEF Inv
    <2>1. PICK m : m = next[c]
        OBVIOUS
    <2>2. CASE item.kind = "output"
        <3>1. PICK b : b = item.burst
            OBVIOUS
        <3>2. /\ b \in Nat /\ b <= Len(sent) /\ m = b + 1 /\ first[c] \in 1..b
              /\ c \in missed => ToldIn(got[c], "lagged")
              /\ c \notin missed => BurstsIn(got[c], Len(got[c])) = first[c]..b - 1
              /\ \A i \in 1..Len(got[c]) : got[c][i].burst < b
            BY <1>3, <2>0, <2>1, <2>2, <3>1 DEF Carries, Reached
        <3>3. m \in Nat /\ first[c] \in 1..m /\ m <= Len(sent) + 1 /\ m - 1 = b
            BY <2>0, <3>2
        <3>4. ToldIn(got[c], "lagged") => ToldIn(got'[c], "lagged")
            BY <1>12 DEF Extends
        <3>5. c \notin missed => BurstsIn(got'[c], Len(got'[c])) = first[c]..m - 1
            <4>1. BurstsIn(got'[c], Len(got'[c])) = BurstsIn(got[c], Len(got[c])) \union {b}
                BY <1>12, <3>1, <3>2 DEF Extends
            <4>2. (first[c]..b - 1) \union {b} = first[c]..b
                BY <3>2
            <4> QED
                BY <3>2, <3>3, <4>1, <4>2
        <3>6. \A i \in 1..Len(got'[c]) : got'[c][i].burst < m
            <4>1. \A i \in 1..Len(got[c]) : got'[c][i].burst \in Nat /\ got'[c][i].burst < b
                <5>1. \A i \in 1..Len(got[c]) : got[c][i] \in Items
                    BY <1>3
                <5> QED
                    BY <1>12, <3>2, <5>1 DEF Extends, Items
            <4>2. got'[c][Len(got'[c])].burst = b
                BY <1>12, <3>1 DEF Extends
            <4>3. \A i \in 1..Len(got'[c]) : i \in 1..Len(got[c]) \/ i = Len(got'[c])
                BY <1>12 DEF Extends
            <4> QED
                BY <3>2, <3>3, <4>1, <4>2, <4>3
        <3>7. Reached(c, m)'
            BY <1>2, <3>2, <3>3, <3>4, <3>5, <3>6 DEF Reached
        <3> QED
            BY <1>2, <2>1, <3>7
    <2>3. CASE item.kind = "lagged"
        <3>1. /\ item.burst = 0 /\ m \in Nat /\ first[c] \in 1..m /\ m <= Len(sent) + 1
              /\ c \in missed /\ m > 0
              /\ \A i \in 1..Len(got[c]) : got[c][i].burst < m
            BY <1>3, <2>0, <2>1, <2>3 DEF Carries, Lagged
        <3>2. ToldIn(got'[c], "lagged")
            BY <1>12, <2>3 DEF Extends
        <3>3. \A i \in 1..Len(got'[c]) : got'[c][i].burst < m
            <4>1. \A i \in 1..Len(got[c]) : got'[c][i].burst < m
                BY <1>12, <3>1 DEF Extends
            <4>2. got'[c][Len(got'[c])].burst = 0
                BY <1>12, <3>1 DEF Extends
            <4>3. \A i \in 1..Len(got'[c]) : i \in 1..Len(got[c]) \/ i = Len(got'[c])
                BY <1>12 DEF Extends
            <4> QED
                BY <3>1, <4>1, <4>2, <4>3
        <3>4. Reached(c, m)'
            BY <1>2, <3>1, <3>2, <3>3 DEF Reached
        <3> QED
            BY <1>2, <2>1, <3>4
    <2> QED
        BY <1>4, <1>8, <2>2, <2>3
<1>19. Client(c)'
    BY <1>2, <1>3, <1>7, <1>8, <1>9, <1>11, <1>13, <1>15, <1>16, <1>17, <1>18 DEF Client
<1> QED
    BY <1>2, <1>5, <1>11, <1>13, <1>14, <1>19, ClientSideStep

\* The socket is broken: the item is lost, and so is the client.
LEMMA SendFailsKeeps == ASSUME Inv, NEW c \in Clients, SendFails(c) PROVE Inv'
<1>1. /\ sub[c].pc = "holding"
      /\ UNCHANGED <<shell, written, read, reader, sent, closedBy, removed, pc, next, cool, got,
                     first, missed, failed>>
    BY DEF SendFails, ptyVars, channelVars
<1>2. PICK a \in {"broken", "done"} : sub' = [sub EXCEPT ![c] = Sub(a)]
    BY DEF SendFails
<1>3. sub \in [Clients -> Subscribers] /\ Sub(a) \in Subscribers /\ Sub(a).pc = a
    <2>1. sub \in [Clients -> Subscribers]
        BY DEF Inv, TypeOK
    <2> QED
        BY <2>1, SubTypes
<1>4. /\ sub' \in [Clients -> Subscribers] /\ sub'[c].pc = a
      /\ \A d \in Clients \ {c} : sub'[d] = sub[d]
    BY <1>2, <1>3
<1>5. TypeOK'
    BY <1>1, <1>4 DEF Inv, TypeOK
<1>6. Reader' /\ ChannelMoves
    BY <1>1, ReaderKept
<1>7. /\ got[c] \in Seq(Items) /\ LossTold(c) /\ (cool[c] => c \in missed)
      /\ ~ToldIn(got[c], "exited") /\ ~ToldIn(got[c], "ended")
      /\ pc[c] \in {"live", "closing"}
    BY <1>1, Receiving
<1>8. LossTold(c)'
    BY <1>1, <1>7 DEF LossTold
<1>9. Client(c)'
    BY <1>1, <1>4, <1>7, <1>8 DEF Client
<1> QED
    BY <1>1, <1>4, <1>5, <1>6, <1>9, ClientSideStep DEF Inv

--------------------------------------------------------------------------------
\* Every step keeps the invariant.
LEMMA NextInv == Inv /\ [Next]_vars => Inv'
<1> SUFFICES ASSUME Inv, [Next]_vars PROVE Inv'
    OBVIOUS
<1>1. CASE UNCHANGED vars
    <2>1. UNCHANGED <<shell, written, read, reader, sent, closedBy, removed, failed, clientVars>>
        BY <1>1 DEF vars, ptyVars, channelVars
    <2>2. TypeOK'
        BY <2>1 DEF Inv, TypeOK, clientVars
    <2>3. Reader' /\ ChannelMoves
        BY <2>1, ReaderKept
    <2> QED
        BY <2>1, <2>2, <2>3, ReaderSideStep
<1>2. CASE \/ ShellWrites \/ ShellExits \/ ReaderFails \/ ShutDown \/ ReaderStep
    BY <1>2, ShellKeeps, ReaderDrainsKeeps, ReaderEndsKeep DEF ReaderStep
<1>3. ASSUME NEW c \in Clients,
             \/ Attach(c) \/ Input(c) \/ InputFails(c) \/ Leave(c)
             \/ CooledDown(c) \/ SubscriberStep(c) \/ HandlerStep(c)
      PROVE  Inv'
    BY <1>3, AttachKeeps, InputKeeps, LeavingKeeps, CooledDownKeeps, ReceiveKeeps, DeliverKeeps,
       SendFailsKeeps, SubscribeKeeps, EndConnectionKeeps DEF SubscriberStep, HandlerStep
<1> QED
    BY <1>1, <1>2, <1>3 DEF Next

--------------------------------------------------------------------------------
\* The inductive invariant holds in every reachable state (spawn_pty_reader,
\* spawn_output_subscriber, Session::output_tx).
THEOREM InvariantHolds == Spec => []Inv
BY InitInv, NextInv, PTL DEF Spec

\* Every state is well typed; above all no more bursts are sent than chunks were read,
\* and a receiver is never ahead of the channel (broadcast_output, subscribe_output).
THEOREM TypesHold == Spec => []TypeOK
<1>1. Inv => TypeOK
    BY DEF Inv
<1> QED
    BY <1>1, InvariantHolds, PTL

\* "Shell exited" comes after everything the shell wrote since the client subscribed
\* (spawn_pty_reader's last drain, mark_pty_exited).
THEOREM ExitComesLast == Spec => []ExitAfterFinalOutput
<1>1. Inv => ExitAfterFinalOutput
    <2> SUFFICES ASSUME Inv, NEW c \in Clients, Told(c, "exited"), c \notin missed,
                        closedBy = "reader"
                 PROVE  /\ shell = "exited" /\ Broadcast = written
                        /\ first[c] > 0 => Bursts(c, Len(got[c])) = first[c]..Len(sent)
        BY DEF ExitAfterFinalOutput
    <2>1. shell = "exited" /\ Broadcast = written
        BY DEF Inv, Reader
    <2>2. first[c] > 0 => Complete(c)
        BY DEF Inv, Client, Told, ToldIn
    <2> QED
        BY <2>1, <2>2 DEF Complete, Bursts, BurstsIn
<1> QED
    BY <1>1, InvariantHolds, PTL

\* The first gap in a client's output is announced before it (spawn_output_subscriber,
\* RecvError::Lagged).
THEOREM FirstGapIsTold == Spec => []FirstLossIsTold
<1>1. Inv => FirstLossIsTold
    BY DEF Inv, Client, LossTold, FirstLossIsTold, Bursts, BurstsIn
<1> QED
    BY <1>1, InvariantHolds, PTL

--------------------------------------------------------------------------------
\* What one client gets, the stream allows.
LEMMA StreamAllows ==
    ASSUME Inv, NEW c \in Clients, Subscribe(c) \/ Deliver(c) \/ EndConnection(c)
    PROVE  [Stream!StreamNext]_<<Len(sent), got>>
<1>0. UNCHANGED sent
    BY DEF Subscribe, Deliver, EndConnection, channelVars
<1>1. CASE Subscribe(c) /\ Open
    <2>1. UNCHANGED got
        BY <1>1 DEF Subscribe
    <2> QED
        BY <1>0, <2>1
<1>2. CASE Subscribe(c) /\ ~Open
    <2>1. got' = [got EXCEPT ![c] = Append(got[c], Item("exited", 0))] /\ got[c] = <<>>
        BY <1>2, Functions DEF Subscribe, Client
    <2>2. Stream!Exit(c)
        BY <1>0, <2>1 DEF Stream!Exit, Stream!Has, Stream!Give, Stream!Item, Item
    <2> QED
        BY <2>2 DEF Stream!StreamNext
<1>3. CASE EndConnection(c)
    <2>1. got' = [got EXCEPT ![c] = Append(got[c], Item("ended", 0))] /\ pc[c] = "closing"
        BY <1>3 DEF EndConnection
    <2>2. ~ToldIn(got[c], "ended")
        BY <2>1, Functions DEF Client
    <2>3. Stream!End(c)
        BY <1>0, <2>1, <2>2 DEF Stream!End, Stream!Has, Stream!Give, Stream!Item, Item, ToldIn
    <2> QED
        BY <2>3 DEF Stream!StreamNext
<1>4. CASE Deliver(c)
    <2>1. PICK item : item = sub[c].item
        OBVIOUS
    <2>2. sub[c].pc = "holding" /\ got' = [got EXCEPT ![c] = Append(got[c], item)]
        BY <1>4, <2>1 DEF Deliver
    <2>3. ~ToldIn(got[c], "exited") /\ Carries(c, item)
        BY <2>1, <2>2, Receiving
    <2>4. /\ item \in Items /\ item.kind \in {"output", "lagged", "exited"}
          /\ item.burst > 0 => Reached(c, item.burst)
          /\ item.kind = "output" => item.burst > 0
        BY <2>1, <2>2, HeldItem
    <2>5. item = [kind |-> item.kind, burst |-> item.burst]
        BY <2>4 DEF Items
    <2>6. ~Stream!Has(got[c], "exited")
        BY <2>3 DEF Stream!Has, ToldIn
    <2>7. CASE item.kind = "output"
        <3>1. item.burst \in 1..Len(sent)
            BY <2>3, <2>4, <2>7, LengthType DEF Carries, Inv, Items
        <3>2. \A i \in 1..Len(got[c]) : got[c][i].burst < item.burst
            BY <2>4, <2>7 DEF Reached
        <3>3. Stream!Give(c, Stream!Item("output", item.burst))
            BY <1>0, <2>2, <2>5, <2>7 DEF Stream!Give, Stream!Item
        <3>4. Stream!Output(c)
            BY <2>6, <3>1, <3>2, <3>3 DEF Stream!Output
        <3> QED
            BY <3>4 DEF Stream!StreamNext
    <2>8. CASE item.kind = "lagged"
        <3>1. Stream!Give(c, Stream!Item("lagged", 0))
            BY <1>0, <2>2, <2>3, <2>5, <2>8 DEF Stream!Give, Stream!Item, Carries
        <3>2. Stream!Notice(c)
            BY <2>6, <3>1 DEF Stream!Notice
        <3> QED
            BY <3>2 DEF Stream!StreamNext
    <2>9. CASE item.kind = "exited"
        <3>1. Stream!Give(c, Stream!Item("exited", 0))
            BY <1>0, <2>2, <2>3, <2>5, <2>9 DEF Stream!Give, Stream!Item, Carries
        <3>2. Stream!Exit(c)
            BY <2>6, <3>1 DEF Stream!Exit
        <3> QED
            BY <3>2 DEF Stream!StreamNext
    <2> QED
        BY <2>4, <2>7, <2>8, <2>9
<1> QED
    BY <1>1, <1>2, <1>3, <1>4

\* Every step is a step of the stream or none.
LEMMA StreamStep == Inv /\ [Next]_vars => [Stream!StreamNext]_<<Len(sent), got>>
<1> SUFFICES ASSUME Inv, [Next]_vars PROVE [Stream!StreamNext]_<<Len(sent), got>>
    OBVIOUS
<1>1. CASE UNCHANGED <<sent, got>>
    BY <1>1
<1>2. CASE ReaderDrains
    <2>1. UNCHANGED got /\ (sent' = sent \/ \E n \in Nat : sent' = Append(sent, n))
        <3>1. written \in 0..MaxOutput /\ read \in 0..written
            BY DEF Inv, TypeOK
        <3>2. PICK n \in read + 1..written : sent' = IF Open THEN Append(sent, n) ELSE sent
            BY <1>2 DEF ReaderDrains
        <3>3. n \in Nat /\ UNCHANGED got
            BY <1>2, <3>1 DEF ReaderDrains, clientVars
        <3> QED
            BY <3>2, <3>3
    <2>2. CASE sent' # sent
        <3>1. PICK n \in Nat : sent' = Append(sent, n)
            BY <2>1, <2>2
        <3>2. sent \in Seq(1..MaxOutput)
            BY LengthType DEF Inv
        <3>3. Len(sent') = Len(sent) + 1
            BY <3>1, <3>2
        <3> QED
            BY <2>1, <3>3 DEF Stream!StreamNext, Stream!Produce
    <2> QED
        BY <2>1, <2>2
<1>3. ASSUME NEW c \in Clients, Subscribe(c) \/ Deliver(c) \/ EndConnection(c)
      PROVE  [Stream!StreamNext]_<<Len(sent), got>>
    BY <1>3, StreamAllows
<1>4. ASSUME NEW c \in Clients,
             \/ Attach(c) \/ Input(c) \/ InputFails(c) \/ Leave(c) \/ MustLeave(c)
             \/ CooledDown(c) \/ Receive(c) \/ SendFails(c)
      PROVE  UNCHANGED <<sent, got>>
    BY <1>4 DEF Attach, Input, InputFails, Leave, MustLeave, LeaveLoop, CooledDown, Receive,
                SendFails, channelVars, clientVars
<1>5. CASE \/ ShellWrites \/ ShellExits \/ ReaderFails \/ ShutDown \/ ReaderRegisters
           \/ ReaderGivesUp \/ ReaderEof \/ ReaderMarks
    BY <1>1, <1>5 DEF ShellWrites, ShellExits, ReaderFails, ShutDown, ReaderRegisters,
                      ReaderGivesUp, ReaderEof, ReaderMarks, channelVars, clientVars
<1>6. CASE UNCHANGED vars
    BY <1>1, <1>6 DEF vars, channelVars, clientVars
<1> QED
    BY <1>1, <1>2, <1>3, <1>4, <1>5, <1>6 DEF Next, ReaderStep, SubscriberStep, HandlerStep

\* What the clients see is an output stream, whatever lags, closes or aborts
\* (spawn_pty_reader, spawn_output_subscriber, run_session's farewell).
THEOREM OutputIsAStream == Spec => ImplementsStream
<1>1. Init => Stream!StreamInit
    BY DEF Init, Stream!StreamInit
<1> QED
    BY <1>1, StreamStep, InvariantHolds, PTL DEF Spec, ImplementsStream, Stream!StreamSpec
================================================================================
