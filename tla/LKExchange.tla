----------------------------- MODULE LKExchange -----------------------------
(***************************************************************************)
(* What forwarding a request means, whatever buffers, sockets and partial   *)
(* sends are behind it: the whole request goes to the upstream, in order;   *)
(* then its response goes to the client, in order; and the exchange is a    *)
(* success only when nothing of either is missing.                          *)
(***************************************************************************)
EXTENDS Naturals, Sequences

CONSTANTS Request, Response

VARIABLES
    toUpstream,    \* what has been handed over for the upstream
    toClient,      \* what has been handed over for the client
    outcome        \* "open", "done" or "failed"

vars == <<toUpstream, toClient, outcome>>

UpTo(whole, n) == SubSeq(whole, 1, n)

Init == toUpstream = << >> /\ toClient = << >> /\ outcome = "open"

Ask ==
    /\ outcome = "open"
    /\ \E n \in 1 .. Len(Request) :
          Len(toUpstream) < n /\ toUpstream' = UpTo(Request, n)
    /\ UNCHANGED <<toClient, outcome>>

Answer ==
    /\ outcome = "open" /\ toUpstream = Request
    /\ \E n \in 1 .. Len(Response) :
          Len(toClient) < n /\ toClient' = UpTo(Response, n)
    /\ UNCHANGED <<toUpstream, outcome>>

Finish ==
    /\ outcome = "open" /\ toUpstream = Request /\ toClient = Response
    /\ outcome' = "done"
    /\ UNCHANGED <<toUpstream, toClient>>

Fail ==
    /\ outcome = "open"
    /\ outcome' = "failed"
    /\ UNCHANGED <<toUpstream, toClient>>

Next == Ask \/ Answer \/ Finish \/ Fail

Spec == Init /\ [][Next]_vars
=============================================================================
