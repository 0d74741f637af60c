--------------------------- MODULE MCLKHttpServer ---------------------------
(***************************************************************************)
(* Instances of LKHttpServer for TLC.                                       *)
(***************************************************************************)
EXTENDS LKHttpServer, TLC

CONSTANTS c1, c2, c3

AllRoutes(kinds) == [c \in Conns |-> kinds]
RoutesNoBody     == AllRoutes({"reply", "cgi", "proxy"})
RoutesBody       == AllRoutes({"cgibody"})
RoutesAfterBody  == [c \in Conns |-> IF c = c1 THEN {"reply"} ELSE {"proxy"}]

RoutesMixed      == [c \in Conns |-> IF c = c1 THEN {"cgi", "proxy"}
                                               ELSE {"reply", "cgi"}]

ClientSymmetry == Permutations(Conns)

(***************************************************************************)
(* A state reached with a CGI request with a body.  c1 (descriptor 2), c2   *)
(* (3) and a third client (4) send their requests before one pass, which    *)
(* makes the pipes 5..10 for c1, keeps 7 (output) and 9 (stderr), closes    *)
(* the others, and selects the closed 6 for the request body.  In the same  *)
(* pass the upstream of c2 refuses: 5 is a dead socket; and 6 becomes the   *)
(* upstream connection of the third client, which comes first in the list   *)
(* and clears 6 from the write set in the end.  c2 and the third client are *)
(* served and gone; the CGI program of c1 still runs; the context that was  *)
(* to feed it is left in the list, selected on 6.                           *)
(***************************************************************************)
InitAfterBody ==
    LET ctx == [create_initial_context(2, c1) EXCEPT
                  !.type = "CTX_READ_CGI_OUTPUT", !.selectfd = 7, !.cgifd = 7]
    IN
    /\ pc = "select"
    /\ ctxhead = <<ctx, cgi_input_context(6, ctx)>>
    /\ readfds = {S0, 7} /\ writefds = {} /\ maxfd = 7
    /\ cur_readfds = {} /\ cur_writefds = {}
    /\ fdtab = [f \in Fds |-> CASE f = S0 -> Object("listen", NoConn)
                                [] f = 2 -> Object("client", c1)
                                [] f = 5 -> Object("deadsock", c2)
                                [] f = 7 -> Object("cgiout", c1)
                                [] f = 9 -> Object("cgierr", c1)
                                [] OTHER -> Free]
    /\ conn = [c \in Conns |-> IF c = c1 THEN "open" ELSE "closed"]
    /\ client = [c \in Conns |-> "sent"]
    /\ cgi = [c \in Conns |-> IF c = c1 THEN "running" ELSE "none"]
    /\ upstream = [c \in Conns |-> "none"]
    /\ full = {}
    /\ sent = [c \in Conns |-> IF c = c1 THEN << >>
                               ELSE << <<c, "head">>, <<c, "body">> >>]

SpecAfterBody == InitAfterBody /\ [][Next]_vars

\* Bound: from here on contexts may be left behind for ever.
AtMostThreeContexts == Len(ctxhead) <= 3

\* Bound: as many refused upstreams as it takes to reach descriptor 6.
AtMostThreeDeadSockets == Cardinality({f \in Fds : fdtab[f].kind = "deadsock"}) <= 3

\* Bound: what peers send comes in one piece, so that only writes are partial.
PeersInOnePiece ==
    \A c \in Conns : /\ client[c] # "fragment" /\ cgi[c] # "output"
                    /\ upstream[c] \notin {"data", "fin"}
=============================================================================
