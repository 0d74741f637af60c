------------------------------- MODULE LKProxy -------------------------------
(***************************************************************************)
(* One request that is forwarded to an upstream server, byte by byte:       *)
(* serve_proxy, write_proxy_request and pipe_proxy_response                 *)
(* (lkhttpserver.c) with lk_buflist_write_all, lk_write_all, lk_read_all    *)
(* and lk_pipe_all (lknet.c), between an upstream that reads and sends when *)
(* it likes and a client that reads when it likes.  The server selects the  *)
(* upstream socket and nothing else: for writing while it forwards the      *)
(* request, for reading while it forwards the response.                     *)
(***************************************************************************)
EXTENDS Naturals, Sequences

CONSTANTS
    RequestHead, RequestBody,    \* ctx->req->head and ctx->req->body
    Response,                    \* the bytes of the upstream's response
    UpRoom,                      \* what the socket to the upstream holds
    BackRoom,                    \* ... and the one from the upstream
    Room                         \* ... and the one to the client

ASSUME BytesAssumption ==
    RequestHead \in Seq(Nat) /\ RequestBody \in Seq(Nat) /\ Response \in Seq(Nat)
ASSUME RoomAssumption ==
    UpRoom \in Nat \ {0} /\ BackRoom \in Nat \ {0} /\ Room \in Nat \ {0}

VARIABLES
    type,             \* of the context; or "done", or "failed" (the server
                      \* goes on with an error reply, see LKHttpServer)
    pc,               \* "select", "read" or "write"
    buflist,          \* ctx->buflist: items_cur, and each item's bytes_cur
    proxy_respbuf,    \* ctx->proxy_respbuf: bytes and bytes_cur
    readz,            \* what lk_read_all returned in lk_pipe_all
    upsock, shut,     \* the socket to the upstream: bytes, and shut down
    heard, sent,      \* the bytes the upstream has read; how many it has sent
    upstream,         \* "open", "fin" or "reset"
    sock, received,   \* the client's socket, and the bytes the client has read
    client            \* "open" or "reset"

server == <<type, pc, buflist, proxy_respbuf, readz, shut>>
upstreamVars == <<heard, sent, upstream>>
clientVars == <<received, client>>
vars == <<server, upsock, upstreamVars, sock, clientVars>>

Items == <<RequestHead, RequestBody>>
Request == RequestHead \o RequestBody

NoBytes == << >>

Rest(bytes, cur) == SubSeq(bytes, cur + 1, Len(bytes))

\* What lk_write_all still has to send of the item at hand.
Pending == Rest(Items[buflist.items_cur], buflist.bytes_cur[buflist.items_cur])

bytes_len == Len(proxy_respbuf.bytes)
Unsent == Rest(proxy_respbuf.bytes, proxy_respbuf.bytes_cur)

\* serve_proxy, once it is connected.
Init ==
    /\ type = "CTX_PROXY_WRITE_REQ" /\ pc = "select"
    /\ buflist = [items_cur |-> 1, bytes_cur |-> <<0, 0>>]
    /\ proxy_respbuf = [bytes |-> NoBytes, bytes_cur |-> 0]
    /\ readz = "Z_BLOCK"
    /\ upsock = NoBytes /\ shut = FALSE
    /\ heard = NoBytes /\ sent = 0 /\ upstream = "open"
    /\ sock = NoBytes /\ received = NoBytes /\ client = "open"

-----------------------------------------------------------------------------
(***************************************************************************)
(* The upstream and the client.  Both may break off at any time; an         *)
(* upstream may answer, and end, before it has read the request.            *)
(***************************************************************************)
UpstreamReads ==
    /\ upstream # "reset" /\ upsock # NoBytes
    /\ heard' = heard \o upsock
    /\ upsock' = NoBytes
    /\ UNCHANGED <<server, sent, upstream, sock, clientVars>>

UpstreamSends ==
    /\ upstream = "open"
    /\ \E n \in 1 .. Len(Response) :
          /\ sent < n /\ n <= bytes_len + BackRoom
          /\ sent' = n
    /\ UNCHANGED <<server, upsock, heard, upstream, sock, clientVars>>

UpstreamEnds ==
    /\ upstream = "open" /\ sent = Len(Response)
    /\ upstream' = "fin"
    /\ UNCHANGED <<server, upsock, heard, sent, sock, clientVars>>

UpstreamBreaks ==
    /\ upstream # "reset" /\ type \notin {"done", "failed"}
    /\ upstream' = "reset"
    /\ UNCHANGED <<server, upsock, heard, sent, sock, clientVars>>

ClientReads ==
    /\ sock # NoBytes
    /\ received' = received \o sock
    /\ sock' = NoBytes
    /\ UNCHANGED <<server, upsock, upstreamVars, client>>

ClientBreaks ==
    /\ client = "open" /\ type \notin {"done", "failed"}
    /\ client' = "reset"
    /\ UNCHANGED <<server, upsock, upstreamVars, sock, received>>

-----------------------------------------------------------------------------
(***************************************************************************)
(* write_proxy_request.                                                     *)
(***************************************************************************)
SelectWritable ==
    /\ type = "CTX_PROXY_WRITE_REQ" /\ pc = "select"
    /\ Len(upsock) < UpRoom \/ upstream = "reset"
    /\ pc' = "write"
    /\ UNCHANGED <<type, buflist, proxy_respbuf, readz, shut, upsock,
                   upstreamVars, sock, clientVars>>

Writing == type = "CTX_PROXY_WRITE_REQ" /\ pc = "write"
HasItem == buflist.items_cur <= Len(Items)

\* Mutant of SendRequest: all that was offered counts as sent.
SendRequestAll ==
    /\ Writing /\ HasItem /\ Pending # NoBytes /\ upstream # "reset"
    /\ \E n \in 1 .. Len(Pending) :
          /\ Len(upsock) + n <= UpRoom
          /\ upsock' = upsock \o SubSeq(Pending, 1, n)
          /\ buflist' = [buflist EXCEPT !.bytes_cur[buflist.items_cur] =
                            Len(Items[buflist.items_cur])]
    /\ UNCHANGED <<type, pc, proxy_respbuf, readz, shut, upstreamVars, sock,
                   clientVars>>

\* One send() of lk_write_all: some of the bytes, as many as there is room for
\* at most; bytes_cur moves past them.
SendRequest ==
    /\ Writing /\ HasItem /\ Pending # NoBytes /\ upstream # "reset"
    /\ \E n \in 1 .. Len(Pending) :
          /\ Len(upsock) + n <= UpRoom
          /\ upsock' = upsock \o SubSeq(Pending, 1, n)
          /\ buflist' = [buflist EXCEPT !.bytes_cur[buflist.items_cur] = @ + n]
    /\ UNCHANGED <<type, pc, proxy_respbuf, readz, shut, upstreamVars, sock,
                   clientVars>>

\* Z_BLOCK.
RequestBlocks ==
    /\ Writing /\ HasItem /\ Pending # NoBytes
    /\ upstream # "reset" /\ Len(upsock) = UpRoom
    /\ pc' = "select"
    /\ UNCHANGED <<type, buflist, proxy_respbuf, readz, shut, upsock,
                   upstreamVars, sock, clientVars>>

\* Z_ERR.
RequestFails ==
    /\ Writing /\ HasItem /\ Pending # NoBytes /\ upstream = "reset"
    /\ type' = "failed"
    /\ UNCHANGED <<pc, buflist, proxy_respbuf, readz, shut, upsock,
                   upstreamVars, sock, clientVars>>

\* Z_OPEN: an item has been sent, the next one waits for the next event.
ItemSent ==
    /\ Writing /\ HasItem /\ Pending = NoBytes
    /\ buflist' = [buflist EXCEPT !.items_cur = @ + 1]
    /\ pc' = "select"
    /\ UNCHANGED <<type, proxy_respbuf, readz, shut, upsock, upstreamVars, sock,
                   clientVars>>

\* Mutants of RequestSent: the upstream is not told the end; the body is left
\* out.
SentWithoutShutdown ==
    /\ Writing /\ ~HasItem
    /\ type' = "CTX_PROXY_PIPE_RESP" /\ pc' = "select"
    /\ UNCHANGED <<buflist, proxy_respbuf, readz, shut, upsock, upstreamVars,
                   sock, clientVars>>

SentWithItem ==
    /\ Writing /\ buflist.items_cur >= Len(Items)
    /\ shut' = TRUE
    /\ type' = "CTX_PROXY_PIPE_RESP" /\ pc' = "select"
    /\ UNCHANGED <<buflist, proxy_respbuf, readz, upsock, upstreamVars, sock,
                   clientVars>>

\* Z_EOF: shutdown(SHUT_WR), and on to the response.
RequestSent ==
    /\ Writing /\ ~HasItem
    /\ shut' = TRUE
    /\ type' = "CTX_PROXY_PIPE_RESP" /\ pc' = "select"
    /\ UNCHANGED <<buflist, proxy_respbuf, readz, upsock, upstreamVars, sock,
                   clientVars>>

-----------------------------------------------------------------------------
(***************************************************************************)
(* pipe_proxy_response.                                                     *)
(***************************************************************************)
Piping == type = "CTX_PROXY_PIPE_RESP"

SelectReadable ==
    /\ Piping /\ pc = "select"
    /\ sent > bytes_len \/ upstream # "open"
    /\ pc' = "read"
    /\ UNCHANGED <<type, buflist, proxy_respbuf, readz, shut, upsock,
                   upstreamVars, sock, clientVars>>

\* Mutant of ReadZ: end of file is taken for "nothing to read".
EndsAsBlock == IF upstream = "reset" THEN "Z_ERR" ELSE "Z_BLOCK"

ReadZ == CASE upstream = "open"  -> "Z_BLOCK"
           [] upstream = "fin"   -> "Z_EOF"
           [] upstream = "reset" -> "Z_ERR"

\* lk_read_all takes in all there is; after a read error lk_pipe_all writes
\* nothing more.
lk_read_all ==
    /\ Piping /\ pc = "read"
    /\ proxy_respbuf' = [proxy_respbuf EXCEPT
                           !.bytes = @ \o SubSeq(Response, bytes_len + 1, sent)]
    /\ readz' = ReadZ
    /\ IF ReadZ = "Z_ERR" THEN type' = "failed" /\ pc' = pc
                          ELSE type' = type /\ pc' = "write"
    /\ UNCHANGED <<buflist, shut, upsock, upstreamVars, sock, clientVars>>

\* Mutants of SendSome: all that was offered counts as sent; one byte too many.
SendAll ==
    /\ Piping /\ pc = "write" /\ client = "open" /\ Unsent # NoBytes
    /\ \E n \in 1 .. Len(Unsent) :
          /\ Len(sock) + n <= Room
          /\ sock' = sock \o SubSeq(Unsent, 1, n)
          /\ proxy_respbuf' = [proxy_respbuf EXCEPT !.bytes_cur = bytes_len]
    /\ UNCHANGED <<type, pc, buflist, readz, shut, upsock, upstreamVars, clientVars>>

SendOneMore ==
    /\ Piping /\ pc = "write" /\ client = "open" /\ Unsent # NoBytes
    /\ \E n \in 1 .. Len(Unsent) :
          /\ Len(sock) + n <= Room
          /\ sock' = sock \o SubSeq(Unsent, 1, n)
          /\ proxy_respbuf' = [proxy_respbuf EXCEPT !.bytes_cur = @ + n + 1]
    /\ UNCHANGED <<type, pc, buflist, readz, shut, upsock, upstreamVars, clientVars>>

\* One send() of lk_write_all, towards the client.
SendSome ==
    /\ Piping /\ pc = "write" /\ client = "open" /\ Unsent # NoBytes
    /\ \E n \in 1 .. Len(Unsent) :
          /\ Len(sock) + n <= Room
          /\ sock' = sock \o SubSeq(Unsent, 1, n)
          /\ proxy_respbuf' = [proxy_respbuf EXCEPT !.bytes_cur = @ + n]
    /\ UNCHANGED <<type, pc, buflist, readz, shut, upsock, upstreamVars, clientVars>>

SendFails ==
    /\ Piping /\ pc = "write" /\ client = "reset" /\ Unsent # NoBytes
    /\ type' = "failed"
    /\ UNCHANGED <<pc, buflist, proxy_respbuf, readz, shut, upsock, upstreamVars,
                   sock, clientVars>>

WriteEnds == Unsent = NoBytes \/ (client = "open" /\ Len(sock) = Room)

\* Mutant of PipeEnds: what is still buffered is forgotten.
EndsWithRead ==
    /\ Piping /\ pc = "write" /\ WriteEnds
    /\ IF readz = "Z_EOF" THEN type' = "done" ELSE type' = type
    /\ pc' = "select"
    /\ UNCHANGED <<buflist, proxy_respbuf, readz, shut, upsock, upstreamVars,
                   sock, clientVars>>

\* lk_write_all has sent everything, or would block: what lk_pipe_all makes of
\* it and of readz.
PipeEnds ==
    /\ Piping /\ pc = "write" /\ WriteEnds
    /\ IF readz = "Z_EOF" /\ Unsent = NoBytes THEN type' = "done" ELSE type' = type
    /\ pc' = "select"
    /\ UNCHANGED <<buflist, proxy_respbuf, readz, shut, upsock, upstreamVars,
                   sock, clientVars>>

-----------------------------------------------------------------------------
Upstream == UpstreamReads \/ UpstreamSends \/ UpstreamEnds \/ UpstreamBreaks
Client   == ClientReads \/ ClientBreaks
WriteProxyRequest ==
    \/ SelectWritable \/ SendRequest \/ RequestBlocks \/ RequestFails
    \/ ItemSent \/ RequestSent
PipeProxyResponse ==
    SelectReadable \/ lk_read_all \/ SendSome \/ SendFails \/ PipeEnds
Server == WriteProxyRequest \/ PipeProxyResponse

Next == Upstream \/ Client \/ Server

Spec == Init /\ [][Next]_vars

\* The thread runs and both peers read what they were sent; the upstream need
\* not answer.
PatientSpec ==
    Spec /\ WF_vars(Server) /\ WF_vars(ClientReads) /\ WF_vars(UpstreamReads)

\* The upstream answers to the end, too, once it has seen the end of the request.
AnswersRequest == shut /\ upsock = NoBytes /\ (UpstreamSends \/ UpstreamEnds)

FairSpec == PatientSpec /\ WF_vars(AnswersRequest)

-----------------------------------------------------------------------------
\* Buffers, sockets and counters have their types, and no cursor is past the end
\* of its buffer.
TypeOK ==
    /\ type \in {"CTX_PROXY_WRITE_REQ", "CTX_PROXY_PIPE_RESP", "done", "failed"}
    /\ pc \in {"select", "read", "write"}
    /\ buflist \in [items_cur : 1 .. 3, bytes_cur : [1 .. 2 -> Nat]]
    /\ \A i \in 1 .. 2 : buflist.bytes_cur[i] <= Len(Items[i])
    /\ proxy_respbuf \in [bytes : Seq(Nat), bytes_cur : Nat]
    /\ proxy_respbuf.bytes_cur <= bytes_len
    /\ readz \in {"Z_BLOCK", "Z_EOF", "Z_ERR"}
    /\ upsock \in Seq(Nat) /\ shut \in BOOLEAN /\ heard \in Seq(Nat)
    /\ sent \in bytes_len .. Len(Response) /\ upstream \in {"open", "fin", "reset"}
    /\ sock \in Seq(Nat) /\ received \in Seq(Nat) /\ client \in {"open", "reset"}

\* What the upstream has read, what is in its socket and what is left of the
\* two buffers are, end to end, the request: nothing lost, repeated or out of
\* order, whatever each send() took; and nothing is left when the upstream is
\* told that this was all.
RequestLeft == Rest(RequestHead, buflist.bytes_cur[1]) \o Rest(RequestBody, buflist.bytes_cur[2])
RequestInOrder ==
    /\ heard \o upsock \o RequestLeft = Request
    /\ shut => RequestLeft = NoBytes

\* What the client has read, what is in its socket and what is still buffered
\* are, end to end, the bytes the upstream has sent and the server has read:
\* none lost, repeated or out of order, whatever each send() took.
ForwardedInOrder ==
    received \o sock \o Unsent = SubSeq(Response, 1, bytes_len)

\* The session ends as a success only when every byte of the response, to its
\* end, has been handed to the client's socket.
DoneMeansAll == type = "done" => received \o sock = Response

\* Forwarding is the exchange of LKExchange: first the whole request, then the
\* response, and success only with all of both.
Exchange == INSTANCE LKExchange WITH
    toUpstream <- heard \o upsock,
    toClient   <- received \o sock,
    outcome    <- IF type \in {"done", "failed"} THEN type ELSE "open"

ImplementsExchange == Exchange!Spec

\* An upstream that reads the request as it comes, and answers it when it ends
\* at the latest, gets its response forwarded to the end, however slowly the
\* client reads and however early it answers, unless one of the two breaks off.
ForwardedInTheEnd ==
    <>(type = "done" \/ upstream = "reset" \/ client = "reset")

\* lknet.c:413, "Uses buf as buffer for queued up bytes waiting to be written":
\* queued bytes are written when the client has room for them.
QueuedBytesAreWritten ==
    \A n \in 1 .. Len(Response) :
       bytes_len >= n ~> \/ proxy_respbuf.bytes_cur >= n
                         \/ upstream = "reset" \/ client = "reset"
=============================================================================
