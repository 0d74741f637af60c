---------------------------- MODULE LKHttpServer ----------------------------
(***************************************************************************)
(* The event loop of lkws (lkhttpserver.c): one thread, one select(), and   *)
(* one handler per event.  The kernel's descriptor table is modelled with   *)
(* real descriptor numbers, because the code keeps numbers in its fd_sets   *)
(* and contexts and the kernel reuses a number as soon as it is closed.     *)
(*                                                                          *)
(* The clients, the CGI programs and the proxied upstream servers are the   *)
(* environment.  Each takes steps at any time, between any two handlers of  *)
(* one pass over the ready descriptors included.                            *)
(***************************************************************************)
EXTENDS FiniteSets, LKContext

CONSTANTS
    Conns,       \* clients; each has at most one connection at a time
    NoConn,      \* not a client: the owner of the listening socket
    MaxFd,       \* descriptors 1..MaxFd may be open (RLIMIT_NOFILE)
    Routes,      \* Routes[c]: how the requests of client c may be routed
    Faults       \* the faults that the environment may show

RouteKinds == {"reply",    \* answered at once: a file, POST, 404, 500, 501
               "cgi",      \* under cgidir, without a request body
               "cgibody",  \* under cgidir, with a request body
               "proxy"}    \* the host has a proxyhost

FaultKinds == {"slow",       \* requests, output and replies come and go in parts
               "abort",      \* a client closes or resets its connection
               "reconnect",  \* a client whose session is over connects again
               "refuse",     \* connect() or getaddrinfo() for a proxyhost fails
               "nofork",     \* fork() fails for a CGI program
               "cgierr",     \* read() on a CGI program's output fails
               "upreset"}    \* an upstream resets its connection

ASSUME ConnsAssumption == NoConn \notin Conns
ASSUME FdAssumption == MaxFd \in Nat \ {0}
ASSUME RoutesAssumption == Routes \in [Conns -> SUBSET RouteKinds]
ASSUME FaultsAssumption == Faults \subseteq FaultKinds

Fds == 1 .. MaxFd

\* The listening socket: the first descriptor the process opens, never closed.
S0 == 1

Object(kind, c) == [kind |-> kind, conn |-> c]
Free == Object("free", NoConn)

\* "cgierr" is the server's end of a CGI program's unused stderr pipe and
\* "deadsock" a socket whose connect() failed: nobody ever closes either.
ObjectKinds == {"free", "listen", "client", "cgiout", "cgierr", "proxy",
                "deadsock"}

VARIABLES
    pc,            \* where the one thread is
    ctxhead,       \* server->ctxhead
    readfds,       \* server->readfds
    writefds,      \* server->writefds
    maxfd,         \* server->maxfd
    cur_readfds,   \* what is left of the read set select() returned
    cur_writefds,  \* what is left of the write set select() returned
    fdtab,         \* the kernel's descriptor table of the process
    conn,          \* state of each client's connection
    client,        \* what each client has done on its connection
    cgi,           \* state of the CGI program run for each client
    upstream,      \* state of the upstream connection made for each client
    full,          \* connections whose send buffer is full, or is shut
    sent           \* history: what was written to each client

fdsets  == <<readfds, writefds, maxfd>>
cursets == <<cur_readfds, cur_writefds>>
peers   == <<client, cgi, upstream, full>>
vars == <<pc, ctxhead, fdsets, cursets, fdtab, conn, peers, sent>>

\* What full holds of a connection: that the send buffer towards that side is
\* full, or that shutdown(SHUT_WR) has ended it.
Sides == {"client", "proxy", "client shut", "proxy shut"}

FreeFds == {f \in Fds : fdtab[f] = Free}

\* The kernel hands out the lowest free descriptor.
Lowest(S) == CHOOSE f \in S : \A g \in S : f <= g

\* Mutant of Larger: maxfd is the last descriptor that was added.
LastAdded(m, n) == n

Larger(m, n) == IF m >= n THEN m ELSE n

Init ==
    /\ pc = "select"
    /\ ctxhead = << >>
    /\ readfds = {S0} /\ writefds = {} /\ maxfd = S0
    /\ cur_readfds = {} /\ cur_writefds = {}
    /\ fdtab = [f \in Fds |-> IF f = S0 THEN Object("listen", NoConn) ELSE Free]
    /\ conn = [c \in Conns |-> "new"]
    /\ client = [c \in Conns |-> "quiet"]
    /\ cgi = [c \in Conns |-> "none"]
    /\ upstream = [c \in Conns |-> "none"]
    /\ full = {}
    /\ sent = [c \in Conns |-> << >>]

-----------------------------------------------------------------------------
(***************************************************************************)
(* The environment.                                                         *)
(***************************************************************************)
server == <<pc, ctxhead, fdsets, cursets, fdtab>>

Connect(c) ==
    /\ \/ conn[c] = "new"
       \/ conn[c] = "closed" /\ "reconnect" \in Faults
    /\ conn' = [conn EXCEPT ![c] = "queued"]
    /\ client' = [client EXCEPT ![c] = "quiet"]
    /\ cgi' = [cgi EXCEPT ![c] = "none"]
    /\ upstream' = [upstream EXCEPT ![c] = "none"]
    /\ full' = full \ (Sides \X {c})
    /\ sent' = [sent EXCEPT ![c] = << >>]
    /\ UNCHANGED server

ClientMove(c, from, to) ==
    /\ conn[c] \in {"queued", "open"}
    /\ client[c] \in from
    /\ client' = [client EXCEPT ![c] = to]
    /\ UNCHANGED <<server, conn, cgi, upstream, full, sent>>

\* A part of a request arrives; its last part arrives (or the client ends its
\* side of the connection, which the server takes for the same thing).
SendFragment(c) == "slow" \in Faults /\ ClientMove(c, {"quiet"}, "fragment")
SendRest(c)     == ClientMove(c, {"quiet", "fragment"}, "sent")

\* The client goes away, politely or with a reset.
HangUp(c) ==
    /\ "abort" \in Faults
    /\ \E how \in {"gone", "reset"} :
          ClientMove(c, {"quiet", "fragment", "sent"}, how)

\* A peer reads what the server sent it.
Drain(side, c) ==
    /\ <<side, c>> \in full
    /\ full' = full \ {<<side, c>>}
    /\ UNCHANGED <<server, conn, client, cgi, upstream, sent>>

CgiMove(c, from, to) ==
    /\ cgi[c] \in from
    /\ cgi' = [cgi EXCEPT ![c] = to]
    /\ UNCHANGED <<server, conn, client, upstream, full, sent>>

CgiOutput(c) == "slow" \in Faults /\ CgiMove(c, {"running"}, "output")
CgiExit(c)   == CgiMove(c, {"running", "output"}, "exited")

UpstreamMove(c, from, to) ==
    /\ upstream[c] \in from
    /\ upstream' = [upstream EXCEPT ![c] = to]
    /\ UNCHANGED <<server, conn, client, cgi, full, sent>>

UpstreamSend(c) == "slow" \in Faults /\ UpstreamMove(c, {"open"}, "data")
UpstreamEnd(c)  == \/ "slow" \in Faults /\ UpstreamMove(c, {"open"}, "fin")
                   \/ UpstreamMove(c, {"open", "data"}, "datafin")
UpstreamReset(c) ==
    /\ "upreset" \in Faults
    /\ UpstreamMove(c, {"open", "data", "datafin", "fin"}, "reset")

Environment ==
    \E c \in Conns :
        \/ Connect(c) \/ SendFragment(c) \/ SendRest(c) \/ HangUp(c)
        \/ Drain("client", c) \/ Drain("proxy", c)
        \/ CgiOutput(c) \/ CgiExit(c)
        \/ UpstreamSend(c) \/ UpstreamEnd(c) \/ UpstreamReset(c)

-----------------------------------------------------------------------------
(***************************************************************************)
(* What system calls on a descriptor come to.                               *)
(***************************************************************************)
Side(f) == <<fdtab[f].kind, fdtab[f].conn>>
IsStream(f) == fdtab[f].kind \in {"client", "proxy"}

ShutSide(f) == <<IF fdtab[f].kind = "client" THEN "client shut"
                                             ELSE "proxy shut", fdtab[f].conn>>
IsShut(f) == IsStream(f) /\ ShutSide(f) \in full

ResetPeer(f) ==
    \/ fdtab[f].kind = "client" /\ client[fdtab[f].conn] = "reset"
    \/ fdtab[f].kind = "proxy" /\ upstream[fdtab[f].conn] = "reset"

EndedPeer(f) ==
    \/ ResetPeer(f)
    \/ fdtab[f].kind = "client" /\ client[fdtab[f].conn] = "gone"
    \/ fdtab[f].kind = "proxy" /\ upstream[fdtab[f].conn] \in {"datafin", "fin"}

Readable(f) ==
    CASE fdtab[f].kind = "listen" -> \E c \in Conns : conn[c] = "queued"
      [] fdtab[f].kind = "client" -> client[fdtab[f].conn] # "quiet"
      [] fdtab[f].kind = "cgiout" -> cgi[fdtab[f].conn] \in {"output", "exited"}
      [] fdtab[f].kind = "proxy"  -> upstream[fdtab[f].conn] # "open"
      [] OTHER -> TRUE

Writable(f) ==
    CASE IsStream(f) -> Side(f) \notin full \/ EndedPeer(f) \/ IsShut(f)
      [] fdtab[f].kind = "deadsock" -> TRUE
      [] OTHER -> FALSE

(***************************************************************************)
(* lk_write_all() on descriptor f: everything was sent (Z_EOF), the rest    *)
(* has to wait (Z_BLOCK), or the peer is gone or f is shut (Z_ERR).         *)
(***************************************************************************)
lk_write_all(f, z) ==
    \/ /\ z = "Z_EOF" /\ IsStream(f) /\ ~IsShut(f)
       /\ Side(f) \notin full /\ ~ResetPeer(f)
    \/ /\ z = "Z_BLOCK" /\ IsStream(f) /\ ~IsShut(f)
       /\ ~ResetPeer(f) /\ "slow" \in Faults
    \/ z = "Z_ERR" /\ (IsStream(f) => EndedPeer(f) \/ IsShut(f))

\* The send buffers after it: a write that stopped short filled one.
FullAfter(f, z) ==
    CASE z = "Z_EOF"   -> {full} \cup (IF "slow" \in Faults
                                       THEN {full \cup {Side(f)}} ELSE {})
      [] z = "Z_BLOCK" -> {full \cup {Side(f)}}
      [] OTHER         -> {full}

\* part of the reply made for connection c goes to the client behind f.
Deliver(f, c, part) ==
    IF fdtab[f].kind # "client" \/ <<c, part>> \in ToSet(sent[fdtab[f].conn])
    THEN sent
    ELSE [sent EXCEPT ![fdtab[f].conn] = Append(@, <<c, part>>)]

\* close() of the descriptors in F: the peers see their connections end.
ClosedConns(kind, F) == {c \in Conns : \E f \in F : fdtab[f] = Object(kind, c)}

CloseFds(F, buffers) ==
    /\ fdtab' = [f \in Fds |-> IF f \in F THEN Free ELSE fdtab[f]]
    /\ conn' = [c \in Conns |->
                   IF c \in ClosedConns("client", F) THEN "closed" ELSE conn[c]]
    /\ upstream' = [c \in Conns |->
                   IF c \in ClosedConns("proxy", F) /\ upstream[c] # "reset"
                   THEN "none" ELSE upstream[c]]
    /\ cgi' = [c \in Conns |->
                   IF c \in ClosedConns("cgiout", F) THEN "none" ELSE cgi[c]]
    /\ full' = buffers \
          (({"client", "client shut"} \X ClosedConns("client", F))
           \cup ({"proxy", "proxy shut"} \X ClosedConns("proxy", F)))

\* Mutants of ZeroIfClosed: -1 for "none"; the number is left in the context.
MinusOneIfClosed(f) == IF f \in Fds /\ fdtab[f] # Free THEN -1 ELSE f
KeepClosed(f) == f

\* What terminate_fd leaves in the context: the field is zeroed unless close()
\* failed because the descriptor was not open.
ZeroIfClosed(f) == IF f \in Fds /\ fdtab[f] # Free THEN 0 ELSE f

-----------------------------------------------------------------------------
(***************************************************************************)
(* The loop of lk_httpserver_serve: select(), then one pass over the        *)
(* descriptors it reported, in increasing order.  A descriptor that is      *)
(* reported for both is only read in this pass.                             *)
(***************************************************************************)
BadFds == {f \in readfds \cup writefds : f <= maxfd /\ fdtab[f] = Free}

SelectReturns ==
    /\ pc = "select" /\ BadFds = {}
    /\ cur_readfds'  = {f \in readfds : f <= maxfd /\ Readable(f)}
    /\ cur_writefds' = {f \in writefds : f <= maxfd /\ Writable(f)}
    /\ cur_readfds' \cup cur_writefds' # {}
    /\ pc' = "pass"
    /\ UNCHANGED <<ctxhead, fdsets, fdtab, conn, peers, sent>>

\* EBADF: lk_httpserver_serve returns and the program ends.
SelectFails ==
    /\ pc = "select" /\ BadFds # {}
    /\ pc' = "stopped"
    /\ UNCHANGED <<ctxhead, fdsets, cursets, fdtab, conn, peers, sent>>

Scan(f) ==
    /\ f \in cur_readfds \cup cur_writefds
    /\ \A g \in cur_readfds \cup cur_writefds : f <= g

Advance(f) ==
    /\ cur_readfds' = cur_readfds \ {f}
    /\ cur_writefds' = cur_writefds \ {f}
    /\ pc' = IF cur_readfds \cup cur_writefds = {f} THEN "select" ELSE "pass"

Matched(f) == match_select_ctx(ctxhead, f)

ReadEvent(f)  == pc = "pass" /\ Scan(f) /\ f \in cur_readfds /\ f # S0
WriteEvent(f) == pc = "pass" /\ Scan(f) /\ f \notin cur_readfds

ReadEventOf(f, type) ==
    ReadEvent(f) /\ Matched(f) # 0 /\ ctxhead[Matched(f)].type = type
WriteEventOf(f, type) ==
    WriteEvent(f) /\ Matched(f) # 0 /\ ctxhead[Matched(f)].type = type

Accept(c) ==
    /\ pc = "pass" /\ Scan(S0) /\ S0 \in cur_readfds
    /\ conn[c] = "queued" /\ FreeFds # {}
    /\ LET fd == Lowest(FreeFds) IN
          /\ fdtab' = [fdtab EXCEPT ![fd] = Object("client", c)]
          /\ readfds' = readfds \cup {fd}
          /\ maxfd' = Larger(maxfd, fd)
          /\ ctxhead' = add_new_client_context(ctxhead,
                                               create_initial_context(fd, c))
    /\ conn' = [conn EXCEPT ![c] = "open"]
    /\ Advance(S0)
    /\ UNCHANGED <<writefds, peers, sent>>

\* EMFILE: the connection stays in the backlog.
AcceptFails ==
    /\ pc = "pass" /\ Scan(S0) /\ S0 \in cur_readfds /\ FreeFds = {}
    /\ Advance(S0)
    /\ UNCHANGED <<ctxhead, fdsets, fdtab, conn, peers, sent>>

\* A descriptor no context is selected on.
TerminateOrphan(f) ==
    /\ ReadEvent(f) \/ WriteEvent(f)
    /\ Matched(f) = 0
    /\ readfds' = IF f \in cur_readfds THEN readfds \ {f} ELSE readfds
    /\ writefds' = IF f \in cur_readfds THEN writefds ELSE writefds \ {f}
    /\ CloseFds({f}, full)
    /\ Advance(f)
    /\ UNCHANGED <<ctxhead, maxfd, client, sent>>

\* A context whose type does not go with the event: logged and ignored.
UnknownType(f) ==
    /\ Matched(f) # 0
    /\ \/ /\ ReadEvent(f)
          /\ ctxhead[Matched(f)].type \notin
                {"CTX_READ_REQ", "CTX_READ_CGI_OUTPUT", "CTX_PROXY_PIPE_RESP"}
       \/ /\ WriteEvent(f)
          /\ ctxhead[Matched(f)].type \notin
                {"CTX_WRITE_RESP", "CTX_WRITE_CGI_INPUT", "CTX_PROXY_WRITE_REQ"}
    /\ Advance(f)
    /\ UNCHANGED <<ctxhead, fdsets, fdtab, conn, peers, sent>>

-----------------------------------------------------------------------------
(***************************************************************************)
(* The handlers.  k is the position of the context in the list, ctx its     *)
(* value when the step of the handler begins, rfds and wfds the sets as     *)
(* the earlier statements of the handler left them.                         *)
(***************************************************************************)
\* Mutant of process_response: the client is never selected for writing.
RespondUnselected(k, ctx, wfds) ==
    /\ ctxhead' = [ctxhead EXCEPT ![k] =
                     [ctx EXCEPT !.selectfd = ctx.clientfd,
                                 !.type = "CTX_WRITE_RESP", !.items_cur = 0]]
    /\ writefds' = wfds
    /\ UNCHANGED maxfd

process_response(k, ctx, wfds) ==
    /\ ctxhead' = [ctxhead EXCEPT ![k] =
                     [ctx EXCEPT !.selectfd = ctx.clientfd,
                                 !.type = "CTX_WRITE_RESP", !.items_cur = 0]]
    /\ writefds' = wfds \cup {ctx.clientfd}
    /\ maxfd' = Larger(maxfd, ctx.clientfd)

\* The descriptors lk_popen3 leaves open in the server, out of those that are
\* free: three pipes are made, in[0], out[1] and err[1] closed again.
lk_popen3(free) ==
    LET in0  == Lowest(free)       r1 == free \ {in0}
        in1  == Lowest(r1)         r2 == r1 \ {in1}
        out0 == Lowest(r2)         r3 == r2 \ {out0}
        out1 == Lowest(r3)         r4 == r3 \ {out1}
        err0 == Lowest(r4)
    IN [fd_in |-> in1, fd_out |-> out0, err |-> err0]

\* serve_cgi closes fd_in at once.  With a request body it then makes a second
\* context for it.  A failed fork() is not noticed: the pipes have no other end.
serve_cgi(k, ctx, c, body, rfds) ==
    \/ /\ Cardinality(FreeFds) < 6          \* pipe(): EMFILE
       /\ process_response(k, ctx, writefds)
       /\ readfds' = rfds
       /\ UNCHANGED <<fdtab, conn, peers, sent>>
    \/ /\ Cardinality(FreeFds) >= 6
       /\ LET fd == lk_popen3(FreeFds)
              running == [ctxhead EXCEPT ![k] =
                            [ctx EXCEPT !.selectfd = fd.fd_out,
                                        !.cgifd = fd.fd_out,
                                        !.type = "CTX_READ_CGI_OUTPUT"]]
          IN /\ fdtab' = [fdtab EXCEPT ![fd.fd_out] = Object("cgiout", c),
                                       ![fd.err] = Object("cgierr", c)]
             /\ readfds' = rfds \cup {fd.fd_out}
             /\ IF body
                THEN /\ ctxhead' = add_context(running,
                                               cgi_input_context(fd.fd_in, ctx))
                     /\ writefds' = writefds \cup {fd.fd_in}
                     /\ maxfd' = Larger(Larger(maxfd, fd.fd_out), fd.fd_in)
                ELSE /\ ctxhead' = running
                     /\ maxfd' = Larger(maxfd, fd.fd_out)
                     /\ UNCHANGED writefds
       /\ \E state \in {"running"} \cup (IF "nofork" \in Faults THEN {"exited"}
                                                               ELSE {}) :
             cgi' = [cgi EXCEPT ![c] = state]
       /\ UNCHANGED <<conn, client, upstream, full, sent>>

\* lk_open_connect_socket blocks until the connection is made or refused; on
\* an error after socket() the new descriptor is not closed.
serve_proxy(k, ctx, c, rfds) ==
    /\ readfds' = rfds
    /\ \/ /\ FreeFds = {} \/ "refuse" \in Faults
          /\ process_response(k, ctx, writefds)
          /\ \/ UNCHANGED fdtab
             \/ /\ FreeFds # {} /\ "refuse" \in Faults
                /\ fdtab' = [fdtab EXCEPT ![Lowest(FreeFds)] =
                                             Object("deadsock", c)]
          /\ UNCHANGED upstream
       \/ /\ FreeFds # {}
          /\ LET fd == Lowest(FreeFds) IN
                /\ fdtab' = [fdtab EXCEPT ![fd] = Object("proxy", c)]
                /\ ctxhead' = [ctxhead EXCEPT ![k] =
                                 [ctx EXCEPT !.proxyfd = fd, !.selectfd = fd,
                                             !.type = "CTX_PROXY_WRITE_REQ",
                                             !.items_cur = 0]]
                /\ writefds' = writefds \cup {fd}
                /\ maxfd' = Larger(maxfd, fd)
          /\ upstream' = [upstream EXCEPT ![c] = "open"]
    /\ UNCHANGED <<conn, client, cgi, full, sent>>

process_request(k, ctx, c, rfds) ==
    \E route \in Routes[c] :
       \/ /\ route = "reply"
          /\ process_response(k, ctx, writefds)
          /\ readfds' = rfds
          /\ UNCHANGED <<fdtab, conn, peers, sent>>
       \/ /\ route \in {"cgi", "cgibody"}
          /\ serve_cgi(k, ctx, c, route = "cgibody", rfds)
       \/ /\ route = "proxy"
          /\ serve_proxy(k, ctx, c, rfds)

\* read_request reads all there is.  A request that is not complete yet waits
\* for more; on a read error nothing is done at all (the next read returns
\* end of file).
ReadRequestPart(f) ==
    /\ ReadEventOf(f, "CTX_READ_REQ")
    /\ \E c \in Conns :
          /\ fdtab[f] = Object("client", c)
          /\ \/ client[c] = "fragment" /\ client' = [client EXCEPT ![c] = "quiet"]
             \/ client[c] = "reset" /\ client' = [client EXCEPT ![c] = "gone"]
    /\ Advance(f)
    /\ UNCHANGED <<ctxhead, fdsets, fdtab, conn, cgi, upstream, full, sent>>

\* Mutant of ReadRequest: the client stays selected for reading.
ReadRequestStaysSelected(f) ==
    /\ ReadEventOf(f, "CTX_READ_REQ")
    /\ \E c \in Conns :
          /\ fdtab[f] = Object("client", c)
          /\ client[c] \in {"sent", "gone"}
          /\ process_request(Matched(f), ctxhead[Matched(f)], c, readfds)
    /\ Advance(f)

ReadRequest(f) ==
    /\ ReadEventOf(f, "CTX_READ_REQ")
    /\ \E c \in Conns :
          /\ fdtab[f] = Object("client", c)
          /\ client[c] \in {"sent", "gone"}
          /\ process_request(Matched(f), ctxhead[Matched(f)], c, readfds \ {f})
    /\ Advance(f)

\* read_cgi_output reads the pipe until end of file, and the pipe is not in
\* nonblocking mode: once there is some output the thread stays in read()
\* until the CGI program (and whoever inherited its output) has closed it.
ReadCgiOutputWaits(f) ==
    /\ ReadEventOf(f, "CTX_READ_CGI_OUTPUT")
    /\ cgi[fdtab[f].conn] = "output"
    /\ pc' = "cgiread"
    /\ UNCHANGED <<ctxhead, fdsets, cursets, fdtab, conn, peers, sent>>

\* End of file or a read error: the pipe is closed and the reply, made from
\* the output or a 500, is to be sent.
ReadCgiOutput(f) ==
    /\ \/ ReadEventOf(f, "CTX_READ_CGI_OUTPUT")
       \/ pc = "cgiread" /\ Scan(f)
    /\ \/ cgi[fdtab[f].conn] = "exited"
       \/ cgi[fdtab[f].conn] = "output" /\ "cgierr" \in Faults
    /\ LET k == Matched(f)
           ctx == ctxhead[k]
       IN /\ process_response(k, [ctx EXCEPT !.cgifd = ZeroIfClosed(ctx.cgifd)],
                              writefds)
          /\ readfds' = readfds \ {ctx.cgifd}
          /\ CloseFds({ctx.cgifd}, full)
    /\ Advance(f)
    /\ UNCHANGED <<client, sent>>

\* write_cgi_input writes to whatever now has the number fd_in had, and shuts
\* it for writing when all of the request body is written.
WriteCgiInput(f) ==
    /\ WriteEventOf(f, "CTX_WRITE_CGI_INPUT")
    /\ \/ /\ lk_write_all(f, "Z_BLOCK")
          /\ full' \in FullAfter(f, "Z_BLOCK")
          /\ UNCHANGED <<ctxhead, writefds, fdtab, conn, cgi, upstream>>
       \/ \E z \in {"Z_EOF", "Z_ERR"} :
             /\ lk_write_all(f, z)
             /\ \E buffers \in FullAfter(f, z) :
                   IF z = "Z_ERR" THEN CloseFds({f}, buffers)
                   ELSE /\ full' = buffers \cup {ShutSide(f)}
                        /\ UNCHANGED <<fdtab, conn, cgi, upstream>>
             /\ writefds' = writefds \ {f}
             /\ ctxhead' = remove_selectfd_context(ctxhead, f)
    /\ Advance(f)
    /\ UNCHANGED <<readfds, maxfd, client, sent>>

\* Mutant of FdsOf: the upstream connection is forgotten.
FdsButProxyfd(ctx) == {ctx.clientfd, ctx.cgifd} \ {0}

\* The descriptors of a context that are not "none".
FdsOf(ctx) == {ctx.clientfd, ctx.cgifd, ctx.proxyfd} \ {0}

\* Mutant of terminate_client_session: what is closed stays selected.
TerminateStaysSelected(ctx, buffers) ==
    /\ CloseFds(FdsOf(ctx), buffers)
    /\ ctxhead' = remove_client_context(ctxhead, ctx.clientfd)
    /\ UNCHANGED fdsets

terminate_client_session(ctx, buffers) ==
    LET F == FdsOf(ctx) IN
    /\ CloseFds(F, buffers)
    /\ readfds' = readfds \ F
    /\ writefds' = writefds \ F
    /\ ctxhead' = remove_client_context(ctxhead, ctx.clientfd)
    /\ UNCHANGED maxfd

\* One call of lk_buflist_write_all sends (the rest of) one buffer of the list.
Part(ctx) == IF ctx.items_cur = 0 THEN "head" ELSE "body"

\* Mutant of NextItem: the body is skipped.
SkipItem(k, z) ==
    IF z = "Z_EOF"
    THEN [ctxhead EXCEPT ![k] = [ctxhead[k] EXCEPT !.items_cur = 2]]
    ELSE ctxhead

NextItem(k, z) ==
    IF z = "Z_EOF"
    THEN [ctxhead EXCEPT ![k] = [ctxhead[k] EXCEPT !.items_cur = @ + 1]]
    ELSE ctxhead

WriteResponse(f) ==
    /\ WriteEventOf(f, "CTX_WRITE_RESP")
    /\ LET k == Matched(f)
           ctx == ctxhead[k]
       IN \/ /\ ctx.items_cur < 2
             /\ \E z \in {"Z_EOF", "Z_BLOCK"} :
                   /\ lk_write_all(f, z)
                   /\ full' \in FullAfter(f, z)
                   /\ ctxhead' = NextItem(k, z)
                   /\ sent' = IF z = "Z_EOF" THEN Deliver(f, ctx.conn, Part(ctx))
                                             ELSE sent
             /\ UNCHANGED <<fdsets, fdtab, conn, cgi, upstream>>
          \/ /\ ctx.items_cur < 2
             /\ lk_write_all(f, "Z_ERR")
             /\ terminate_client_session(ctx, full)
             /\ UNCHANGED sent
          \/ /\ ctx.items_cur = 2
             /\ terminate_client_session(ctx, full)
             /\ UNCHANGED sent
    /\ Advance(f)
    /\ UNCHANGED client

WriteProxyRequest(f) ==
    /\ WriteEventOf(f, "CTX_PROXY_WRITE_REQ")
    /\ LET k == Matched(f)
           ctx == ctxhead[k]
       IN \/ /\ ctx.items_cur < 2
             /\ \E z \in {"Z_EOF", "Z_BLOCK"} :
                   /\ lk_write_all(f, z)
                   /\ full' \in FullAfter(f, z)
                   /\ ctxhead' = NextItem(k, z)
             /\ UNCHANGED <<fdsets, fdtab, conn, cgi, upstream>>
          \/ /\ ctx.items_cur < 2
             /\ lk_write_all(f, "Z_ERR")
             /\ process_response(k,
                    [ctx EXCEPT !.proxyfd = ZeroIfClosed(ctx.proxyfd)],
                    writefds \ {ctx.proxyfd})
             /\ CloseFds({ctx.proxyfd}, full)
             /\ UNCHANGED readfds
          \/ /\ ctx.items_cur = 2
             /\ ctxhead' = [ctxhead EXCEPT ![k] =
                              [ctx EXCEPT !.type = "CTX_PROXY_PIPE_RESP",
                                          !.respbuf = FALSE]]
             /\ writefds' = writefds \ {f}
             /\ readfds' = readfds \cup {f}
             /\ maxfd' = Larger(maxfd, f)
             /\ UNCHANGED <<fdtab, conn, cgi, upstream, full>>
    /\ Advance(f)
    /\ UNCHANGED <<client, sent>>

\* pipe_proxy_response: lk_pipe_all reads what the upstream sent, then writes
\* what is buffered.  A read error comes first; a write error too drops the
\* upstream and a 500 is sent after whatever was forwarded already.
PipeProxyResponse(f) ==
    /\ ReadEventOf(f, "CTX_PROXY_PIPE_RESP")
    /\ LET k == Matched(f)
           ctx == ctxhead[k]
           u == fdtab[ctx.proxyfd].conn
           unsent == ctx.respbuf \/ upstream[u] \in {"data", "datafin"}
           eof == upstream[u] \in {"datafin", "fin"}
           failed ==
             /\ process_response(k,
                    [ctx EXCEPT !.proxyfd = ZeroIfClosed(ctx.proxyfd)], writefds)
             /\ readfds' = readfds \ {ctx.proxyfd}
             /\ CloseFds({ctx.proxyfd}, full)
             /\ UNCHANGED sent
       IN \/ upstream[u] = "reset" /\ failed
          \/ upstream[u] # "reset" /\ unsent
             /\ lk_write_all(ctx.clientfd, "Z_ERR") /\ failed
          \/ /\ upstream[u] # "reset"
             /\ \E z \in {"Z_EOF", "Z_BLOCK"} :
                   /\ IF unsent THEN lk_write_all(ctx.clientfd, z) ELSE z = "Z_EOF"
                   /\ ~(eof /\ z = "Z_EOF")
                   /\ full' \in IF unsent THEN FullAfter(ctx.clientfd, z)
                                          ELSE {full}
                   /\ ctxhead' = [ctxhead EXCEPT ![k] =
                                    [ctx EXCEPT !.respbuf = (z = "Z_BLOCK")]]
             /\ sent' = IF unsent /\ Side(ctx.clientfd) \notin full
                        THEN Deliver(ctx.clientfd, ctx.conn, "forwarded")
                        ELSE sent
             /\ upstream' = [upstream EXCEPT ![u] = IF eof THEN "fin" ELSE "open"]
             /\ UNCHANGED <<fdsets, fdtab, conn, cgi>>
          \/ /\ eof
             /\ unsent => lk_write_all(ctx.clientfd, "Z_EOF")
             /\ sent' = Deliver(ctx.clientfd, ctx.conn, "forwarded all")
             /\ terminate_client_session(ctx, full)
    /\ Advance(f)
    /\ UNCHANGED client

Server ==
    \/ SelectReturns \/ SelectFails \/ AcceptFails
    \/ \E c \in Conns : Accept(c)
    \/ \E f \in Fds :
          \/ TerminateOrphan(f) \/ UnknownType(f)
          \/ ReadRequestPart(f) \/ ReadRequest(f)
          \/ ReadCgiOutputWaits(f) \/ ReadCgiOutput(f) \/ WriteCgiInput(f)
          \/ WriteResponse(f) \/ WriteProxyRequest(f) \/ PipeProxyResponse(f)

Next == Environment \/ Server

Spec == Init /\ [][Next]_vars

(***************************************************************************)
(* Fairness.  The thread of the server runs (WF of all it can do).  Peers   *)
(* are patient but finite: a request is completed some day, a CGI program   *)
(* ends, an upstream ends its response, what was sent is read.  A buffer is *)
(* finite and each send() that select() announced takes a byte of it, so    *)
(* partial writes of it do not go on for ever.                              *)
(***************************************************************************)
WholeWrite(c) ==
    /\ \E f \in Fds :
          /\ fdtab[f].conn = c
          /\ WriteResponse(f) \/ WriteProxyRequest(f) \/ PipeProxyResponse(f)
    /\ {<<"client", c>>, <<"proxy", c>>} \cap full' = {}

Fairness ==
    /\ WF_vars(Server)
    /\ \A c \in Conns :
          /\ WF_vars(SendRest(c))
          /\ WF_vars(Drain("client", c)) /\ WF_vars(Drain("proxy", c))
          /\ WF_vars(CgiExit(c)) /\ WF_vars(UpstreamEnd(c))
          /\ SF_vars(WholeWrite(c))

FairSpec == Spec /\ Fairness

-----------------------------------------------------------------------------
(***************************************************************************)
(* Type invariant.                                                          *)
(***************************************************************************)
TypeOK ==
    /\ pc \in {"select", "pass", "cgiread", "stopped"}
    /\ ctxhead \in Seq(Context(Fds \cup {0}, Conns))
    /\ readfds \subseteq Fds /\ writefds \subseteq Fds /\ maxfd \in Fds
    /\ cur_readfds \subseteq Fds /\ cur_writefds \subseteq Fds
    /\ fdtab \in [Fds -> [kind : ObjectKinds, conn : Conns \cup {NoConn}]]
    /\ conn \in [Conns -> {"new", "queued", "open", "closed"}]
    /\ client \in [Conns -> {"quiet", "fragment", "sent", "gone", "reset"}]
    /\ cgi \in [Conns -> {"none", "running", "output", "exited"}]
    /\ upstream \in [Conns -> {"none", "open", "data", "datafin", "fin", "reset"}]
    /\ full \subseteq Sides \X Conns
    /\ sent \in [Conns -> Seq(Conns \X {"head", "body", "forwarded",
                                       "forwarded all"})]

\* select() is told about every descriptor in the sets: the code never lets one
\* in above maxfd.
MaxfdCoversSets == \A f \in readfds \cup writefds : f <= maxfd

(***************************************************************************)
(* Safety.  These hold as long as no request with a body reaches a CGI      *)
(* program (NoCgiBody): README.md says what happens otherwise.              *)
(***************************************************************************)
NoCgiBody == \A c \in Conns : "cgibody" \notin Routes[c]

Contexts == DOMAIN ctxhead

ReadTypes  == {"CTX_READ_REQ", "CTX_READ_CGI_OUTPUT", "CTX_PROXY_PIPE_RESP"}
WriteTypes == {"CTX_WRITE_RESP", "CTX_PROXY_WRITE_REQ"}

SelectedFor(types) ==
    {ctxhead[k].selectfd : k \in {j \in Contexts : ctxhead[j].type \in types}}

\* Which of its descriptors a context of each type waits for, and which of
\* them it holds.
ShapeOK(ctx) ==
    /\ ctx.clientfd # 0
    /\ \/ /\ ctx.type \in {"CTX_READ_REQ", "CTX_WRITE_RESP"}
          /\ ctx.selectfd = ctx.clientfd /\ ctx.cgifd = 0 /\ ctx.proxyfd = 0
       \/ /\ ctx.type = "CTX_READ_CGI_OUTPUT"
          /\ ctx.selectfd = ctx.cgifd /\ ctx.cgifd # 0 /\ ctx.proxyfd = 0
       \/ /\ ctx.type \in {"CTX_PROXY_WRITE_REQ", "CTX_PROXY_PIPE_RESP"}
          /\ ctx.selectfd = ctx.proxyfd /\ ctx.proxyfd # 0 /\ ctx.cgifd = 0

OwnFds(ctx) ==
    /\ ShapeOK(ctx)
    /\ fdtab[ctx.clientfd] = Object("client", ctx.conn)
    /\ ctx.cgifd # 0 => fdtab[ctx.cgifd] = Object("cgiout", ctx.conn)
    /\ ctx.proxyfd # 0 => fdtab[ctx.proxyfd] = Object("proxy", ctx.conn)

\* Every descriptor number in a context is an open descriptor of the kind the
\* field says and of the connection the context was made for, although numbers
\* are reused all the time.
ContextsHoldTheirOwnFds == \A k \in Contexts : OwnFds(ctxhead[k])

\* No descriptor is lost: what is open is the listening socket, is held by a
\* context, or is one of the two kinds the code never closes.  And a
\* connection is open exactly as long as it has its one context.
NoDescriptorLost ==
    /\ \A f \in Fds :
          \/ f = S0
          \/ fdtab[f].kind \in {"free", "cgierr", "deadsock"}
          \/ \E k \in Contexts : f \in FdsOf(ctxhead[k])
    /\ \A j, k \in Contexts : ctxhead[j].conn = ctxhead[k].conn => j = k
    /\ \A c \in Conns : conn[c] = "open" <=> \E k \in Contexts : ctxhead[k].conn = c

\* select() watches the listening socket and, for each context, exactly the
\* descriptor and the direction that the type of the context calls for.
SelectSetsMatchContexts ==
    /\ readfds = {S0} \cup SelectedFor(ReadTypes)
    /\ writefds = SelectedFor(WriteTypes)
    /\ readfds \cap writefds = {}

\* A descriptor that is still to be handled in this pass is still selected.
SnapshotIsSelected ==
    cur_readfds \subseteq readfds /\ cur_writefds \subseteq writefds

\* The server never ends because select() was given a closed descriptor.
ServerKeepsRunning == pc # "stopped"

\* While readiness reported by select() is still to be acted on, no handler of
\* the pass closes that descriptor or lets its number be used again.
ReadinessNeverStale ==
    [][\A f \in cur_readfds' \cup cur_writefds' : fdtab'[f] = fdtab[f]]_vars

\* The inductive invariant behind them.
Listening == fdtab[S0] = Object("listen", NoConn)

WaitingInCgiRead ==
    pc = "cgiread" =>
       \A f \in Fds : Scan(f) =>
          \E k \in Contexts : /\ ctxhead[k].selectfd = f
                             /\ ctxhead[k].type = "CTX_READ_CGI_OUTPUT"

IInv ==
    /\ TypeOK /\ Listening
    /\ ContextsHoldTheirOwnFds /\ NoDescriptorLost
    /\ SelectSetsMatchContexts /\ MaxfdCoversSets
    /\ SnapshotIsSelected /\ WaitingInCgiRead /\ ServerKeepsRunning

-----------------------------------------------------------------------------
(***************************************************************************)
(* The server implements LKSession: every client gets one whole reply, its  *)
(* own, and then the end of the connection.                                 *)
(***************************************************************************)
Session == INSTANCE LKSession WITH
    lost   <- {c \in Conns : client[c] \in {"gone", "reset"}},
    broken <- {c \in Conns : upstream[c] = "reset"}

ImplementsSession == Session!Spec

-----------------------------------------------------------------------------
\* Every connection in the backlog is accepted, answered and closed, as long as
\* descriptors last.
EveryClientServed == \A c \in Conns : conn[c] = "queued" ~> conn[c] = "closed"

-----------------------------------------------------------------------------
(***************************************************************************)
(* What a comment of the code says and the code does not do (README.md).     *)
(***************************************************************************)
\* lkhttpserver.c:524, "If req is POST with body, pass it to cgi process stdin":
\* the context made for that has the CGI program's open stdin.
CgiInputFdIsOpen ==
    \A k \in Contexts :
       ctxhead[k].type = "CTX_WRITE_CGI_INPUT" => fdtab[ctxhead[k].selectfd] # Free
=============================================================================
