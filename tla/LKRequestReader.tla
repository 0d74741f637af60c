--------------------------- MODULE LKRequestReader ---------------------------
(***************************************************************************)
(* How one request is read: read_request (lkhttpserver.c), the buffered     *)
(* socket reader (lknet.c) and the request parser (lkhttprequestparser.c).  *)
(* The bytes of the request arrive in any pieces and at any time, between   *)
(* two recv() calls of one handler too; select() sees the socket only,      *)
(* never the bytes that wait in the reader's own buffer.                    *)
(*                                                                          *)
(* A byte is one of a few kinds: what the parser tells apart.               *)
(***************************************************************************)
EXTENDS Integers, FiniteSets, Sequences, SequencesExt

CONSTANTS
    Streams,     \* what the client may send, each a sequence of bytes
    BufSize,     \* sr->buf->bytes_size
    Lengths,     \* Lengths[b]: the number that atoi() reads in byte b
    Ends         \* how the client may end its side: "fin", "reset"

LF == "lf"
Blanks == {LF, "cr", "sp"}        \* what is_empty_line ignores
CL == "Content-Length:"           \* a header name and its colon, as one byte

ASSUME StreamsAssumption == \A s \in Streams : s \in Seq(STRING)
ASSUME BufSizeAssumption == BufSize \in Nat \ {0}
ASSUME LengthsAssumption ==
    DOMAIN Lengths \subseteq STRING /\ \A b \in DOMAIN Lengths : Lengths[b] \in Nat
ASSUME EndsAssumption == Ends \subseteq {"fin", "reset"}

VARIABLES
    stream,     \* the bytes this client means to send
    arrived,    \* how many of them have arrived at the socket
    peer,       \* "open", or how the client ended; "failed": recv() said so
    got,        \* how many bytes recv() has returned
    pc,         \* "select", "readline", "recv" or "processed"
    buf,        \* sr->buf from bytes_cur on
    req_line,   \* ctx->req_line
    parser,     \* ctx->reqparser
    req         \* ctx->req: the lines of the head, end to end, and the body

vars == <<stream, arrived, peer, got, pc, buf, req_line, parser, req>>

Init ==
    /\ stream \in Streams
    /\ arrived = 0 /\ peer = "open" /\ got = 0
    /\ pc = "select"
    /\ buf = << >> /\ req_line = << >>
    /\ parser = [partial_line |-> << >>, nlinesread |-> 0, content_length |-> 0,
                 head_complete |-> FALSE, body_complete |-> FALSE]
    /\ req = [head |-> << >>, body |-> << >>]

-----------------------------------------------------------------------------
(***************************************************************************)
(* The client.                                                              *)
(***************************************************************************)
reader == <<got, pc, buf, req_line, parser, req>>

Send ==
    /\ peer = "open"
    /\ arrived' \in arrived + 1 .. Len(stream)
    /\ UNCHANGED <<stream, peer, reader>>

End ==
    /\ peer = "open"
    /\ peer' \in Ends
    /\ UNCHANGED <<stream, arrived, reader>>

-----------------------------------------------------------------------------
(***************************************************************************)
(* The parser.                                                              *)
(***************************************************************************)
is_empty_line(line) == ToSet(line) \subseteq Blanks
ends_with_newline(line) == line # << >> /\ Last(line) = LF

\* Mutant of parse_header_line: one byte less.
LengthLessOne(p, line) ==
    IF line[1] = CL
    THEN [p EXCEPT !.content_length = IF line[2] \in DOMAIN Lengths
                                      THEN Lengths[line[2]] - 1 ELSE 0]
    ELSE p

\* parse_header_line, for the one header that the parser itself looks at.
parse_header_line(p, line) ==
    IF line[1] = CL
    THEN [p EXCEPT !.content_length = IF line[2] \in DOMAIN Lengths
                                      THEN Lengths[line[2]] ELSE 0]
    ELSE p

\* Mutant of parse_line: the body is not waited for.
HeadIsAll(p, line) ==
    LET q == [p EXCEPT !.nlinesread = @ + 1] IN
    IF p.nlinesread = 0 \/ p.head_complete THEN q
    ELSE IF is_empty_line(line)
    THEN [q EXCEPT !.head_complete = TRUE, !.body_complete = TRUE]
    ELSE parse_header_line(q, line)

\* The first line is the request line, whatever it looks like.
parse_line(p, line) ==
    LET q == [p EXCEPT !.nlinesread = @ + 1] IN
    IF p.nlinesread = 0 \/ p.head_complete THEN q
    ELSE IF is_empty_line(line)
    THEN [q EXCEPT !.head_complete = TRUE,
                   !.body_complete = @ \/ p.content_length = 0]
    ELSE parse_header_line(q, line)

\* Mutant of ParseLine: a part of a line is taken for a line.
ParsePart(line, closed) ==
    /\ parser' = [parse_line(parser, line) EXCEPT !.body_complete = @ \/ closed]
    /\ req' = [req EXCEPT !.head = @ \o line]

\* lk_httprequestparser_parse_line: a line that has not ended is kept until
\* the rest of it comes.  closed: the client's side has ended, which completes
\* the request whatever there is of it.
ParseLine(line, closed) ==
    LET whole == parser.partial_line \o line IN
    IF ends_with_newline(whole)
    THEN /\ parser' = [parse_line(parser, whole) EXCEPT
                         !.partial_line = << >>, !.body_complete = @ \/ closed]
         /\ req' = [req EXCEPT !.head = @ \o whole]
    ELSE /\ parser' = [parser EXCEPT !.partial_line = whole,
                                    !.body_complete = @ \/ closed]
         /\ UNCHANGED req

\* Mutant of ParseBytes: waits for one byte too many.
ParseBytesPast(bytes, closed) ==
    LET body == req.body \o bytes IN
    /\ req' = [req EXCEPT !.body = body]
    /\ parser' = [parser EXCEPT
          !.body_complete = closed \/ Len(body) > parser.content_length]

\* lk_httprequestparser_parse_bytes.
ParseBytes(bytes, closed) ==
    LET body == req.body \o bytes IN
    /\ req' = [req EXCEPT !.body = body]
    /\ parser' = [parser EXCEPT
          !.body_complete = closed \/ Len(body) >= parser.content_length]

-----------------------------------------------------------------------------
(***************************************************************************)
(* The reader.  What recv() returns: bytes, as long as there are any; then  *)
(* end of file or one error, if the client has ended; EAGAIN otherwise.     *)
(***************************************************************************)
Readable == got < arrived \/ peer # "open"
Arrived == SubSeq(stream, got + 1, arrived)

Least(m, n) == IF m <= n THEN m ELSE n

\* select() reports the socket and read_request runs.
Select ==
    /\ pc = "select" /\ Readable
    /\ pc' = IF parser.head_complete THEN "recv" ELSE "readline"
    /\ req_line' = << >>
    /\ UNCHANGED <<stream, arrived, peer, got, buf, parser, req>>

\* Mutant of NextRound: one line for each event.
OneRound(z) ==
    /\ pc' = IF parser'.body_complete THEN "processed" ELSE "select"
    /\ req_line' = << >>

\* The end of one round of the loop in read_request.
NextRound(z) ==
    /\ pc' = IF parser'.body_complete THEN "processed"
             ELSE IF z # "Z_OPEN" THEN "select"
             ELSE IF parser'.head_complete THEN "recv" ELSE "readline"
    /\ req_line' = << >>

\* lk_socketreader_readline takes buffered bytes up to the end of the line.
TakeLine ==
    /\ pc = "readline"
    /\ \E n \in DOMAIN buf :
          /\ buf[n] = LF /\ \A i \in 1 .. n - 1 : buf[i] # LF
          /\ buf' = SubSeq(buf, n + 1, Len(buf))
          /\ ParseLine(req_line \o SubSeq(buf, 1, n), FALSE)
    /\ NextRound("Z_OPEN")
    /\ UNCHANGED <<stream, arrived, peer, got>>

TakeAll ==
    /\ pc = "readline"
    /\ buf # << >> /\ LF \notin ToSet(buf)
    /\ req_line' = req_line \o buf
    /\ buf' = << >>
    /\ UNCHANGED <<stream, arrived, peer, got, pc, parser, req>>

\* The buffer is empty and filled by one recv().
FillBuffer ==
    /\ pc = "readline" /\ buf = << >> /\ got < arrived
    /\ got' = Least(got + BufSize, arrived)
    /\ buf' = SubSeq(stream, got + 1, got')
    /\ UNCHANGED <<stream, arrived, peer, pc, req_line, parser, req>>

\* Nothing to read: the line so far goes to the parser.
LineBlocks ==
    /\ pc = "readline" /\ buf = << >> /\ got = arrived /\ peer = "open"
    /\ ParseLine(req_line, FALSE)
    /\ NextRound("Z_BLOCK")
    /\ UNCHANGED <<stream, arrived, peer, got, buf>>

Closed == peer \in {"fin", "failed"}

LineAtEnd ==
    /\ pc = "readline" /\ buf = << >> /\ got = arrived /\ Closed
    /\ ParseLine(req_line, TRUE)
    /\ NextRound("Z_EOF")
    /\ UNCHANGED <<stream, arrived, peer, got, buf>>

\* Mutant of Recv: the rest of the buffer is overlooked.
RecvFromSocket ==
    /\ pc = "recv" /\ peer # "reset"
    /\ ParseBytes(Arrived, Closed)
    /\ buf' = << >> /\ got' = arrived
    /\ NextRound(IF Closed THEN "Z_EOF" ELSE "Z_BLOCK")
    /\ UNCHANGED <<stream, arrived, peer>>

\* lk_socketreader_recv: the rest of the buffer and all that can be read.
Recv ==
    /\ pc = "recv" /\ peer # "reset"
    /\ ParseBytes(buf \o Arrived, Closed)
    /\ buf' = << >> /\ got' = arrived
    /\ NextRound(IF Closed THEN "Z_EOF" ELSE "Z_BLOCK")
    /\ UNCHANGED <<stream, arrived, peer>>

\* Z_ERR: what this call has read so far is dropped.
ReadFails ==
    /\ peer = "reset"
    /\ pc = "recv" \/ (pc = "readline" /\ buf = << >> /\ got = arrived)
    /\ peer' = "failed"
    /\ got' = arrived /\ buf' = << >> /\ req_line' = << >>
    /\ pc' = "select"
    /\ UNCHANGED <<stream, arrived, parser, req>>

Client == Send \/ End
Reader == \/ Select \/ TakeLine \/ TakeAll \/ FillBuffer \/ LineBlocks
          \/ LineAtEnd \/ Recv \/ ReadFails

Next == Client \/ Reader

Spec == Init /\ [][Next]_vars

\* The thread runs; the client sends what it has, in whatever pieces.
FairSpec == Spec /\ WF_vars(Reader) /\ WF_vars(Send)

-----------------------------------------------------------------------------
(***************************************************************************)
(* The reference: what a request is in a whole stream of bytes, with no     *)
(* regard to how it arrives.                                                *)
(***************************************************************************)
LineEnds(s) == {i \in DOMAIN s : s[i] = LF}

\* The end of the head: an empty line that is not the first line.
HeadEnds(s) ==
    {e \in LineEnds(s) : \E b \in LineEnds(s) :
        b < e /\ is_empty_line(SubSeq(s, b + 1, e))}
HasHead(s) == HeadEnds(s) # {}
HeadEnd(s) == CHOOSE e \in HeadEnds(s) : \A d \in HeadEnds(s) : e <= d

Head_(s) == SubSeq(s, 1, HeadEnd(s))
Body_(s) == SubSeq(s, HeadEnd(s) + 1, Len(s))

\* The last Content-Length header is the one that counts: a line, but not the
\* first, that begins with the name.
ContentLength(s) ==
    LET at == {i \in 2 .. Len(s) : s[i] = CL /\ s[i - 1] = LF}
        last == CHOOSE i \in at : \A j \in at : j <= i
    IN IF at = {} THEN 0
       ELSE IF s[last + 1] \in DOMAIN Lengths THEN Lengths[s[last + 1]] ELSE 0

Complete(s) == HasHead(s) /\ Len(Body_(s)) >= ContentLength(Head_(s))

Received == SubSeq(stream, 1, got)

-----------------------------------------------------------------------------
TypeOK ==
    /\ stream \in Streams
    /\ arrived \in 0 .. Len(stream) /\ got \in 0 .. arrived
    /\ peer \in {"open", "fin", "reset", "failed"}
    /\ pc \in {"select", "readline", "recv", "processed"}
    /\ buf \in Seq(STRING) /\ req_line \in Seq(STRING)
    /\ parser \in [partial_line : Seq(STRING), nlinesread : Nat,
                   content_length : Nat,
                   head_complete : BOOLEAN, body_complete : BOOLEAN]
    /\ req \in [head : Seq(STRING), body : Seq(STRING)]

\* No byte is lost, duplicated or moved on its way from the socket through the
\* reader's buffer, the current and the partial line to the request: put end to
\* end they are what recv() returned.  (After a read error bytes are dropped;
\* and a request without a body leaves what follows it in the buffer.)
NoByteLost ==
    peer # "failed" =>
       Received = req.head \o parser.partial_line \o req_line
                  \o req.body \o buf

\* The parser's idea of the request is the reference's: the head ends where it
\* should, and Content-Length is that of the whole head, however the lines were
\* cut by recv() and by the reader's buffer.
ParsedAsReference ==
    peer # "failed" /\ pc \in {"select", "processed"} =>
       /\ parser.head_complete <=> HasHead(Received)
       /\ parser.head_complete =>
             /\ req.head = Head_(Received)
             /\ parser.content_length = ContentLength(Head_(Received))

\* A request is processed no sooner than it is complete, unless the client has
\* ended its side.
NeverTooSoon == pc = "processed" /\ peer = "open" => Complete(Received)

\* ... and no later: the thread never goes back to select() with a complete
\* request in hand, nor with bytes in the buffer that select() cannot see.
NeverStranded ==
    pc = "select" => buf = << >> /\ (peer # "failed" => ~Complete(Received))

\* A client that sends a complete request has it processed, even if it never
\* ends its side of the connection.
RequestProcessed == Complete(stream) ~> pc = "processed"
=============================================================================
