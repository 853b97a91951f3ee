------------------------------ MODULE OutputStream ------------------------------
(***************************************************************************)
(* What a client may see of a session's terminal: bursts of one stream in  *)
(* order, each at most once, with a notice where some are missing; then at *)
(* most one "Shell exited", after which no output comes; and when the      *)
(* connection ends one "Session ended".  Module OutputChannel implements   *)
(* it.                                                                     *)
(***************************************************************************)
EXTENDS Naturals, Sequences

CONSTANT Clients

VARIABLES produced,   \* number of bursts in the stream
          got         \* what was sent to each client

Item(kind, n) == [kind |-> kind, burst |-> n]

Has(s, kind) == \E i \in 1..Len(s) : s[i].kind = kind

StreamInit == produced = 0 /\ got = [c \in Clients |-> <<>>]

Produce ==
    /\ produced' = produced + 1
    /\ UNCHANGED got

Give(c, item) ==
    /\ got' = [got EXCEPT ![c] = Append(@, item)]
    /\ UNCHANGED produced

\* A later burst than any before.
Output(c) ==
    /\ ~Has(got[c], "exited")
    /\ \E n \in 1..produced :
        /\ \A i \in 1..Len(got[c]) : got[c][i].burst < n
        /\ Give(c, Item("output", n))

Notice(c) == ~Has(got[c], "exited") /\ Give(c, Item("lagged", 0))

Exit(c) == ~Has(got[c], "exited") /\ Give(c, Item("exited", 0))

End(c) == ~Has(got[c], "ended") /\ Give(c, Item("ended", 0))

StreamNext ==
    \/ Produce
    \/ \E c \in Clients : Output(c) \/ Notice(c) \/ Exit(c) \/ End(c)

StreamSpec == StreamInit /\ [][StreamNext]_<<produced, got>>
================================================================================
