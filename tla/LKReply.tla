------------------------------- MODULE LKReply -------------------------------
(***************************************************************************)
(* What is made of a request that has been read: the parser takes its head  *)
(* apart, process_request chooses the host and the way, serve_files and     *)
(* parse_cgi_output make the response, process_response its head            *)
(* (lkhttprequestparser.c, lkhttpserver.c, lkhttpcgiparser.c, lknet.c); a   *)
(* CGI program is given an environment, an upstream a head of its own.      *)
(* LKHttpServer has when these run; here is what they compute.  Requests    *)
(* come one after the other, to a server that keeps its environment.        *)
(*                                                                          *)
(* Bodies and the output of CGI programs are sequences of bytes of a few    *)
(* kinds; a whole header name, value or message is one such byte.           *)
(***************************************************************************)
EXTENDS LKRequestHead

CONSTANTS
    Hosts,        \* what cfg->hostconfigs may be: sequences of configurations
    Requests,     \* what is sent: the lines of the head, the body, from where
    Content,      \* Content[p]: what is in the file with absolute path p
    Outputs,      \* Outputs[p]: what the CGI program p, an absolute path, may write
    LineSize,     \* sizeof(cgiline) in parse_cgi_output
    MaxLength,    \* no file, and no output of a program, is longer
    Numbers       \* Numbers[b]: what atoi() makes of byte b

ContentType == <<"Content-Type">>
PlainText == <<"text/plain">>
Html == <<"text/html">>

Programs == DOMAIN Outputs

\* What the server writes of its own.
ASSUME MessagesAssumption ==
    {"Content-Type", "text/plain", "text/html", "message", "index.html", "index.htm",
     "default.html", "default.htm"} \subseteq Pieces
\* The configurations are those that LKConfig makes.
ASSUME HostsAssumption == \A hcs \in Hosts : hcs \in Seq(HostConfig)
ASSUME LineSizeAssumption == LineSize \in Nat /\ LineSize > 2
\* The lines of a head are whole, nothing follows the empty line, and a number
\* is written with digits.
ASSUME RequestsAssumption ==
    \A r \in Requests :
       /\ r.head \in Seq(Text)
       /\ \A n \in DOMAIN r.head :
             /\ ends_with(r.head[n], Newline)
             /\ \A i \in 1 .. Len(r.head[n]) - 1 : r.head[n][i] # LF
             /\ n > 1 /\ n < Len(r.head) => ~is_empty_line(r.head[n])
       /\ r.body \in Text /\ r.from \in Text /\ Number(Len(r.body)) \in Text
       /\ ToString(Len(r.body)) \notin Blanks \cup {":"}
ASSUME OutputsAssumption ==
    /\ \A p \in Programs :
          p \in Text /\ \A o \in Outputs[p] : o \in Text /\ Len(o) <= MaxLength
    /\ \A p \in DOMAIN Content :
          p \in Text /\ Content[p] \in Text /\ Len(Content[p]) <= MaxLength
\* The length of a body is written with digits too.
ASSUME LengthAssumption ==
    /\ MaxLength \in Nat /\ MaxLength > 0
    /\ \A n \in 0 .. MaxLength :
          Number(n) \in Text /\ ToString(n) \notin Blanks \cup {":"}
ASSUME NumbersAssumption == \A b \in DOMAIN Numbers : Numbers[b] \in Nat

VARIABLES
    hosts,      \* cfg->hostconfigs, fixed
    raw,        \* the request as it was sent
    req,        \* ctx->req
    env,        \* the environment of the server, which CGI programs inherit
    pc,         \* "idle", "request", "files", "cgi" (running), "cgihead" (its
                \* output is parsed), "sent" (handed to write_response), "proxy"
    output,     \* cgi_outputbuf
    cur,        \* cgi_outputbuf->bytes_cur
    resp        \* ctx->resp

vars == <<hosts, raw, req, env, pc, output, cur, resp>>

\* The head is the sequence of its lines after the status line, for which status
\* stands.
lk_httpresponse_new ==
    [status |-> 0, headers |-> << >>, head |-> << >>, body |-> Empty]

NoRequest == [head |-> << >>, body |-> Empty, from |-> Empty]

Init ==
    /\ hosts \in Hosts
    /\ raw = NoRequest
    /\ req = lk_httprequest_new
    /\ env = set_cgi_env1
    /\ pc = "idle"
    /\ output = Empty /\ cur = 0
    /\ resp = lk_httpresponse_new

Host == lk_stringtable_get(req.headers, <<"Host">>)
HostFound == lk_config_find_hostconfig(hosts, Host) # 0
HC == hosts[lk_config_find_hostconfig(hosts, Host)]

\* A request has been read, for a new context.
ReadRequest ==
    /\ pc = "idle"
    /\ raw' \in Requests
    /\ req' = [Parsed(raw'.head) EXCEPT !.body = raw'.body]
    /\ pc' = "request"
    /\ UNCHANGED <<hosts, env, output, cur, resp>>

\* The context is freed; the environment stays.
SessionEnds ==
    /\ pc \in {"sent", "proxy"}
    /\ raw' = NoRequest
    /\ req' = lk_httprequest_new
    /\ pc' = "idle"
    /\ output' = Empty /\ cur' = 0
    /\ resp' = lk_httpresponse_new
    /\ UNCHANGED <<hosts, env>>

-----------------------------------------------------------------------------
(***************************************************************************)
(* The response.                                                            *)
(***************************************************************************)
lk_httpresponse_add_header(r, k, v) ==
    [r EXCEPT !.headers = lk_stringtable_set(@, k, v)]

\* The server's own Content-Length, then every header, one by that name from a CGI
\* program included, then the empty line.
HeadLines(headers, length) ==
    <<HeaderLine(ContentLength, Number(length))>>
    \o [n \in DOMAIN headers |-> HeaderLine(headers[n].k, headers[n].v)]
    \o << <<"cr", LF>> >>

\* Mutant of lk_httpresponse_finalize: leaves out a last NUL that is not there.
LengthWithoutNul(r) ==
    [r EXCEPT !.status = IF @ = 0 THEN 200 ELSE @,
              !.head = HeadLines(r.headers, Len(r.body) - 1)]

lk_httpresponse_finalize(r) ==
    [r EXCEPT !.status = IF @ = 0 THEN 200 ELSE @,
              !.head = HeadLines(r.headers, Len(r.body))]

\* Mutant of process_response: the body of a HEAD reply is cleared too early.
ClearThenFinalize(r) ==
    /\ pc' = "sent"
    /\ resp' = lk_httpresponse_finalize(
                  IF req.method = <<"HEAD">> THEN [r EXCEPT !.body = Empty] ELSE r)

process_response(r) ==
    /\ pc' = "sent"
    /\ resp' = IF req.method = <<"HEAD">>
               THEN [lk_httpresponse_finalize(r) EXCEPT !.body = Empty]
               ELSE lk_httpresponse_finalize(r)

\* A message of the server's own.
Message(r, status, type) ==
    [lk_httpresponse_add_header(r, ContentType, type) EXCEPT
        !.status = status, !.body = @ \o <<"message">>]

process_error_response(status) == process_response(Message(resp, status, PlainText))

-----------------------------------------------------------------------------
(***************************************************************************)
(* process_request.                                                         *)
(***************************************************************************)
Routed == pc = "request" /\ HostFound

NoHost ==
    /\ pc = "request" /\ ~HostFound
    /\ process_error_response(404)
    /\ UNCHANGED <<hosts, raw, req, env, output, cur>>

Proxy ==
    /\ Routed /\ HC.proxyhost # Empty
    /\ \/ pc' = "proxy" /\ req' = lk_httprequest_finalize(req) /\ UNCHANGED resp
       \/ process_error_response(500) /\ UNCHANGED req     \* no connection
    /\ UNCHANGED <<hosts, raw, env, output, cur>>

NoHomedir ==
    /\ Routed /\ HC.proxyhost = Empty /\ HC.homedir = Empty
    /\ process_error_response(404)
    /\ UNCHANGED <<hosts, raw, req, env, output, cur>>

Aliased ==
    LET match == lk_stringtable_get(HC.aliases, req.path) IN
    IF match # NULL THEN match ELSE req.path

UnderCgidir == HC.cgidir # Empty /\ starts_with(Aliased, HC.cgidir)

\* The request is for a file or a program of this host.
Local ==
    /\ Routed /\ HC.proxyhost = Empty /\ HC.homedir # Empty
    /\ req' = [req EXCEPT !.path = Aliased]

\* serve_cgi: the program has to exist, in cgidir, and pipes and a process to
\* be had for it.
ServeCgi ==
    /\ Local /\ UnderCgidir
    /\ IF HC.homedir_abspath \o Aliased \notin Programs
       THEN process_error_response(404) /\ UNCHANGED env
       ELSE /\ env' = set_cgi_env2(env, req', HC.homedir_abspath, raw.from)
            /\ \/ pc' = "cgi" /\ UNCHANGED resp
               \/ process_error_response(500)
    /\ UNCHANGED <<hosts, raw, output, cur>>

ToFiles ==
    /\ Local /\ ~UnderCgidir
    /\ pc' = "files"
    /\ UNCHANGED <<hosts, raw, env, output, cur, resp>>

-----------------------------------------------------------------------------
(***************************************************************************)
(* serve_files.                                                             *)
(***************************************************************************)
DefaultFiles == << <<"/", "index.html">>, <<"/", "index.htm">>,
                   <<"/", "default.html">>, <<"/", "default.htm">> >>

Exists(p) == HC.homedir_abspath \o p \in DOMAIN Content

\* The file that is served for path: the first of the default files for the
\* root.  Empty if there is none.
FileOf(p) ==
    IF p = Empty
    THEN LET n == SelectInSeq(DefaultFiles, Exists) IN
         IF n = 0 THEN Empty ELSE DefaultFiles[n]
    ELSE IF Exists(p) THEN p ELSE Empty

\* For the message "File not found", the path of a root without an index is the
\* last of the default files that were tried in vain.
Tried(p) ==
    LET n == SelectInSeq(DefaultFiles, Exists) IN
    CASE p # Empty \/ n = 1   -> p
      [] p = Empty /\ n = 0   -> Last(DefaultFiles)
      [] OTHER                -> DefaultFiles[n - 1]

\* Only the default files and one kind of extension are of type text/html.
mimetype(p) == IF p = Empty \/ Last(p) = "page.html" THEN Html ELSE PlainText

\* read_path_file, with the type of the reply.
WithFile(r) ==
    IF FileOf(req.path) = Empty THEN r
    ELSE [r EXCEPT !.body = @ \o Content[HC.homedir_abspath \o FileOf(req.path)]]

\* A type is set before it is known that the file cannot be read.
Typed(r) ==
    IF req.path = Empty /\ FileOf(req.path) = Empty THEN r
    ELSE lk_httpresponse_add_header(r, ContentType, mimetype(req.path))

GetFile ==
    /\ pc = "files" /\ req.method \in {<<"GET">>, <<"HEAD">>}
    /\ LET r == Typed(WithFile(resp)) IN
       process_response(IF FileOf(req.path) = Empty THEN Message(r, 404, PlainText)
                                                    ELSE r)
    /\ req' = [req EXCEPT !.path = Tried(@)]
    /\ UNCHANGED <<hosts, raw, env, output, cur>>

\* The sample page for POST, and the refusal of everything else.
OtherMethod ==
    /\ pc = "files" /\ req.method \notin {<<"GET">>, <<"HEAD">>}
    /\ process_response(Message(resp, IF req.method = <<"POST">> THEN 0 ELSE 501, Html))
    /\ UNCHANGED <<hosts, raw, req, env, output, cur>>

-----------------------------------------------------------------------------
(***************************************************************************)
(* read_cgi_output and parse_cgi_output.                                    *)
(***************************************************************************)
CgiFails ==
    /\ pc = "cgi"
    /\ process_error_response(500)
    /\ UNCHANGED <<hosts, raw, req, env, output, cur>>

CgiEnds ==
    /\ pc = "cgi"
    /\ output' \in Outputs[HC.homedir_abspath \o req.path]
    /\ pc' = "cgihead"
    /\ UNCHANGED <<hosts, raw, req, env, cur, resp>>

parse_cgi_header_line(r, s) ==
    LET h == Header(s)
        with == lk_httpresponse_add_header(r, h[1], h[2])
        number == IF h[2] # Empty /\ h[2][1] \in DOMAIN Numbers
                  THEN Numbers[h[2][1]] ELSE 0
    IN IF h = << >> THEN r
       ELSE IF h[1] = <<"Status">> THEN [with EXCEPT !.status = number]
       ELSE with

Least(m, n) == IF m <= n THEN m ELSE n

\* Where the line at cur ends for lk_buffer_readline: with the newline, with
\* the output, or where cgiline is full.
LineEnd ==
    LET ends == {i \in cur + 1 .. Len(output) : output[i] = LF}
        end  == IF ends = {} THEN Len(output)
                ELSE CHOOSE i \in ends : \A j \in ends : i <= j
    IN Least(end, cur + LineSize - 1)

cgiline == lk_chomp(SubSeq(output, cur + 1, LineEnd))

CgiHeaderLine ==
    /\ pc = "cgihead" /\ cur < Len(output)
    /\ ~is_empty_line(cgiline)
    /\ resp' = parse_cgi_header_line(resp, cgiline)
    /\ cur' = LineEnd
    /\ UNCHANGED <<hosts, raw, req, env, pc, output>>

\* Mutant of CgiEmptyLine: the body begins with the empty line.
BodyWithEmptyLine ==
    /\ pc = "cgihead" /\ cur < Len(output)
    /\ is_empty_line(cgiline)
    /\ cur' = LineEnd
    /\ process_response([resp EXCEPT !.body = SubSeq(output, cur + 1, Len(output))])
    /\ UNCHANGED <<hosts, raw, req, env, output>>

\* Mutant of CgiEmptyLine: the body is added to a finished response.
RespondThenBody ==
    /\ pc = "cgihead" /\ cur < Len(output)
    /\ is_empty_line(cgiline)
    /\ cur' = LineEnd
    /\ pc' = "sent"
    /\ resp' = [lk_httpresponse_finalize(resp) EXCEPT
                  !.body = SubSeq(output, cur' + 1, Len(output))]
    /\ UNCHANGED <<hosts, raw, req, env, output>>

\* The head ends, and what follows is the body.
CgiEmptyLine ==
    /\ pc = "cgihead" /\ cur < Len(output)
    /\ is_empty_line(cgiline)
    /\ cur' = LineEnd
    /\ process_response([resp EXCEPT !.body = SubSeq(output, cur' + 1, Len(output))])
    /\ UNCHANGED <<hosts, raw, req, env, output>>

\* Mutant of CgiNoEmptyLine: what looked like headers is dropped.
CgiErrorDropped ==
    /\ pc = "cgihead" /\ cur = Len(output)
    /\ process_response(resp)
    /\ UNCHANGED <<hosts, raw, req, env, output, cur>>

\* There was no empty line: an error message, unless there was a Content-Type.
CgiNoEmptyLine ==
    /\ pc = "cgihead" /\ cur = Len(output)
    /\ process_response(
          IF lk_stringtable_get(resp.headers, ContentType) # NULL THEN resp
          ELSE [lk_httpresponse_add_header(resp, ContentType, PlainText)
                  EXCEPT !.body = output])
    /\ UNCHANGED <<hosts, raw, req, env, output, cur>>

Next ==
    \/ ReadRequest \/ SessionEnds
    \/ NoHost \/ Proxy \/ NoHomedir \/ ServeCgi \/ ToFiles
    \/ GetFile \/ OtherMethod
    \/ CgiFails \/ CgiEnds \/ CgiHeaderLine \/ CgiEmptyLine \/ CgiNoEmptyLine

Spec == Init /\ [][Next]_vars

-----------------------------------------------------------------------------
(***************************************************************************)
(* The reference for the output of a CGI program, as a whole.               *)
(***************************************************************************)
LineEnds(o) == {i \in DOMAIN o : o[i] = LF} \cup {Len(o)}
LineOf(o, e) ==
    LET b == {i \in LineEnds(o) : i < e} \cup {0} IN
    SubSeq(o, (CHOOSE i \in b : \A j \in b : j <= i) + 1, e)

HeadEnds(o) == {e \in LineEnds(o) \ {0} : is_empty_line(LineOf(o, e))}
HeadEnd(o) == CHOOSE e \in HeadEnds(o) : \A d \in HeadEnds(o) : e <= d

\* Every line of the head has room in cgiline, its end included.
Fits(o) ==
    \A e \in LineEnds(o) :
       (\A d \in HeadEnds(o) : e <= d) => Len(LineOf(o, e)) < LineSize

FromCgi == pc = "sent" /\ output # Empty

-----------------------------------------------------------------------------
(***************************************************************************)
(* The reference for the head of a request: which lines it may have been.   *)
(***************************************************************************)
HeaderLines == {n \in DOMAIN raw.head \ {1} : ~is_empty_line(raw.head[n])}

NameOf(line) == UpTo(lk_chomp(line), ":")

\* The line is about k and has value v, after blanks, which a colon ends.
Says(line, k, v) ==
    /\ ":" \notin ToSet(v) /\ ~starts_with(v, Sp)
    /\ \E blanks \in 0 .. Len(line) :
          LET said == k \o <<":">> \o [n \in 1 .. blanks |-> "sp"] \o v IN
          lk_chomp(line) = said \/ starts_with(line, said \o <<":">>)

\* v is what the last of the lines about k says.
Carries(k, v) ==
    LET about == {n \in HeaderLines : NameOf(raw.head[n]) = k} IN
    IF about = {} THEN v = Empty
    ELSE LET line == raw.head[CHOOSE n \in about : \A m \in about : m <= n] IN
         Says(line, k, v) \/ (v = Empty /\ lk_chomp(line) = k)

\* b is not the first of s, and never comes twice in a row.
Single(s, b) ==
    ~starts_with(s, <<b>>) /\ \A n \in 1 .. Len(s) - 1 : s[n] = b => s[n + 1] # b

\* A head whose words and names have one blank or colon between them.
WellFormed(head) ==
    /\ head # << >>
    /\ Single(lk_chomp(head[1]), "sp") /\ "sp" \in ToSet(lk_chomp(head[1]))
    /\ \A n \in DOMAIN head \ {1} :
          LET line == lk_chomp(head[n]) IN
          Single(line, ":") \/ ToSet(line) \subseteq {":"}

\* A first line of a method and a URI, and perhaps a version.
IsRequestLine(line) ==
    LET blanks == {n \in DOMAIN lk_chomp(line) : lk_chomp(line)[n] = "sp"} IN
    Cardinality(blanks) \in {1, 2} /\ ~ends_with(lk_chomp(line), Sp)

\* What the client said of the length of the body is true.
TrueLength ==
    LET about == {n \in HeaderLines : NameOf(raw.head[n]) = ContentLength} IN
    /\ about = {} => raw.body = Empty
    /\ \A n \in about : Says(raw.head[n], ContentLength, Number(Len(raw.body)))

-----------------------------------------------------------------------------
\* The bodies that may be sent.
Bodies == {b \in Text : Len(b) <= MaxLength}

TypeOK ==
    /\ hosts \in Hosts /\ raw \in Requests \cup {NoRequest}
    /\ req \in [method : Text, uri : Text, path : Text, filename : Text,
                querystring : Text, version : Text, head : Text, body : Text,
                headers : Seq([k : Text, v : Text])]
    /\ env \in [EnvNames -> Text]
    /\ pc \in {"idle", "request", "files", "cgi", "cgihead", "sent", "proxy"}
    /\ output \in Bodies
    /\ cur \in 0 .. Len(output)
    /\ resp \in [status : Nat, headers : Seq([k : Text, v : Text]), head : Seq(Text),
                 body : Bodies]

\* The path that was asked for, with the alias for it.
AliasFor(aliases, path) ==
    LET match == lk_stringtable_get(aliases, path) IN
    IF match # NULL THEN match ELSE path

Asked == AliasFor(HC.aliases, Parsed(raw.head).path)

ServesFiles ==
    /\ pc = "sent" /\ req.method \in {<<"GET">>, <<"HEAD">>}
    /\ HostFound
    /\ HC.proxyhost = Empty /\ HC.homedir # Empty
    /\ HC.cgidir = Empty \/ ~starts_with(Asked, HC.cgidir)

Candidates == IF Asked = Empty THEN DefaultFiles ELSE <<Asked>>

\* The first of the files a path stands for is served as it is, or a 404 that
\* says text/plain; and the head of a reply to HEAD is that of the reply to
\* GET, its length included, without a body.
FilesAsReference ==
    ServesFiles =>
       \/ \E n \in DOMAIN Candidates :
             /\ Exists(Candidates[n]) /\ \A m \in 1 .. n - 1 : ~Exists(Candidates[m])
             /\ LET content == Content[HC.homedir_abspath \o Candidates[n]] IN
                /\ resp.status = 200
                /\ resp.head[1] = HeaderLine(ContentLength, Number(Len(content)))
                /\ resp.body = IF req.method = <<"HEAD">> THEN Empty ELSE content
       \/ /\ \A n \in DOMAIN Candidates : ~Exists(Candidates[n])
          /\ resp.status = 404
          /\ HeaderLine(ContentType, PlainText) \in ToSet(resp.head)

\* The header lines of a reply that are about k.
Named(k) == {n \in 1 .. Len(resp.head) - 1 : NameOf(resp.head[n]) = k}

\* The first header of a reply is the length of its body, whoever made it, and no
\* other one is about the length, unless it may be from a CGI program that wrote
\* one of its own, which nobody compares with the body (see README.md).  A reply
\* to HEAD has no body.
LengthIsBody ==
    pc = "sent" =>
       /\ IF req.method = <<"HEAD">> THEN resp.body = Empty
          ELSE resp.head[1] = HeaderLine(ContentLength, Number(Len(resp.body)))
       /\ "Content-Length" \notin ToSet(output) => Named(ContentLength) = {1}

\* As a client reads the head of a reply, line by line, each name comes once, but
\* for the Content-Length of the server that another one may follow, although the
\* handlers set some headers again and CGI programs repeat theirs; and nothing a
\* program writes makes two lines of one, or ends the head early.
OneOfEachHeader ==
    pc = "sent" =>
       LET head == resp.head IN
       /\ \A n \in DOMAIN head :
             /\ is_empty_line(head[n]) <=> n = Len(head)
             /\ \A i \in DOMAIN head[n] : head[n][i] = LF <=> i = Len(head[n])
       /\ \A m, n \in 1 .. Len(head) - 1 :
             m < n /\ NameOf(head[m]) = NameOf(head[n]) =>
                m = 1 /\ NameOf(head[m]) = ContentLength

\* The body of a CGI reply is what follows the first empty line of the output,
\* byte by byte.  (Lines of the head that do not fit cgiline are cut and parsed
\* as two, see README.md.)
CgiBodyAsReference ==
    FromCgi /\ Fits(output) /\ HeadEnds(output) # {} /\ req.method # <<"HEAD">> =>
       resp.body = SubSeq(output, HeadEnd(output) + 1, Len(output))

\* lkhttpcgiparser.c:40, "If cgi error copy cgi output as is": output without
\* an empty line and a Content-Type reaches the client whole.
CgiErrorAsIs ==
    /\ FromCgi /\ Fits(output) /\ HeadEnds(output) = {}
    /\ "Content-Type" \notin ToSet(output) /\ req.method # <<"HEAD">>
    => /\ resp.body = output
       /\ HeaderLine(ContentType, PlainText) \in ToSet(resp.head)

\* lkhttprequestparser.c:132, "Parse uri into its components": path and query
\* make up the URI again, but for one slash at the end of the path, and the
\* filename is what follows the last slash of the path.  (For a URI with one
\* "?": what follows a second one is dropped, see README.md.)
UriAsReference ==
    pc = "request" /\ Cardinality({n \in DOMAIN req.uri : req.uri[n] = "?"}) <= 1 =>
       LET asked == "?" \in ToSet(req.uri)
           query == IF asked THEN <<"?">> \o req.querystring ELSE Empty
       IN /\ "?" \notin ToSet(req.path) /\ (req.querystring # Empty => asked)
          /\ \/ req.uri = req.path \o query /\ ~ends_with(req.path, Slash)
             \/ req.uri = req.path \o Slash \o query
          /\ "/" \notin ToSet(req.filename)
          /\ req.path = req.filename \/ ends_with(req.path, Slash \o req.filename)

\* An upstream gets the request the client made: its first line, with a version
\* if it had none; the last value of every header, once; one empty line, at the
\* end; and, of a client that told the truth, the length of the body.
ForwardedAsRead ==
    pc = "proxy" /\ WellFormed(raw.head) /\ IsRequestLine(raw.head[1]) =>
       LET asked == lk_chomp(raw.head[1])
           two   == Cardinality({n \in DOMAIN asked : asked[n] = "sp"}) = 1
           first == (IF two THEN asked \o Sp \o <<"HTTP/1.0">> ELSE asked) \o Newline
           line(e) == LineOf(req.head, e)
           lines == {e \in LineEnds(req.head) : Len(first) < e /\ e < Len(req.head)}
           named(k) == {e \in lines : NameOf(line(e)) = k}
           names == {NameOf(raw.head[n]) : n \in HeaderLines} \ {Empty}
       IN /\ starts_with(req.head, first)
          /\ ends_with(req.head, <<LF, "cr", LF>>)
          /\ \A e \in lines :
                ~is_empty_line(line(e)) /\ NameOf(line(e)) \in names \cup {ContentLength}
          /\ \A k \in names \ {ContentLength} :
                /\ Cardinality(named(k)) = 1
                /\ \A e \in named(k) :
                      Carries(k, SubSeq(line(e), Len(k) + 3, Len(line(e)) - 1))
          /\ raw.body # Empty => named(ContentLength) # {}
          /\ TrueLength => \A e \in named(ContentLength) :
                              Says(line(e), ContentLength, Number(Len(raw.body)))

\* A CGI program is told of the request it runs for and of no earlier one, and
\* is the program that SCRIPT_FILENAME names.
EnvironmentOfRequest ==
    pc = "cgi" =>
       /\ WellFormed(raw.head) =>
             /\ starts_with(raw.head[1], env.REQUEST_METHOD \o Sp \o env.REQUEST_URI)
             /\ Carries(<<"Content-Type">>, env.CONTENT_TYPE)
             /\ Carries(<<"Host">>, env.HTTP_HOST)
             /\ Carries(<<"User-Agent">>, env.HTTP_USER_AGENT)
       /\ env.REQUEST_URI = req.uri /\ env.QUERY_STRING = req.querystring
       /\ env.CONTENT_LENGTH = Number(Len(raw.body))
       /\ env.REMOTE_ADDR = raw.from
       /\ env.SCRIPT_FILENAME = env.DOCUMENT_ROOT \o env.SCRIPT_NAME
       /\ env.SCRIPT_FILENAME \in Programs /\ env.SCRIPT_NAME = Asked
=============================================================================
