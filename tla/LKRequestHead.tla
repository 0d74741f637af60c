---------------------------- MODULE LKRequestHead ----------------------------
(***************************************************************************)
(* The head of a request: what the parser makes of its lines                *)
(* (lkhttprequestparser.c), what is made of it for an upstream server       *)
(* (lk_httprequest_finalize) and for a CGI program (set_cgi_env1 and        *)
(* set_cgi_env2).  No state: LKReply keeps the request and the environment. *)
(***************************************************************************)
EXTENDS LKHosts

LF == "lf"

\* What the server writes of its own.
ASSUME WordsAssumption ==
    {LF, "cr", "sp", ":", "HTTP/1.0", "Content-Length", "hostname",
     "littlekitten/0.1", "port"} \subseteq Pieces

Blanks == {LF, "cr", "sp"}        \* what is_empty_line ignores

is_empty_line(s) == ToSet(s) \subseteq Blanks

lk_chomp(s) == SubSeq(s, 1, SelectLastInSeq(s, LAMBDA b : b \notin {LF, "cr"}))

From(s, n) == SubSeq(s, n, Len(s))

Skip(s, bytes) ==
    LET n == SelectInSeq(s, LAMBDA b : b \notin bytes) IN
    IF n = 0 THEN Empty ELSE From(s, n)

UpTo(s, b) ==
    IF b \in ToSet(s) THEN SubSeq(s, 1, SelectInSeq(s, LAMBDA x : x = b) - 1) ELSE s

\* lk_string_split: the parts between the delimiters, empty ones too.  The nth
\* part ends before the nth delimiter, or at the end of s.
Split(s, d) ==
    LET cuts   == {i \in DOMAIN s : s[i] = d} \cup {Len(s) + 1}
        cut(n) == IF n = 0 THEN 0
                  ELSE CHOOSE i \in cuts : Cardinality({j \in cuts : j <= i}) = n
    IN [n \in 1 .. Cardinality(cuts) |-> SubSeq(s, cut(n - 1) + 1, cut(n) - 1)]

Nth(parts, n) == IF n \in DOMAIN parts THEN parts[n] ELSE Empty

\* strtok_r(): the next token of s, after delimiters b, Empty if there is none;
\* and what is left of s then.
Token(s, b) == UpTo(Skip(s, {b}), b)
AfterToken(s, b) == From(Skip(s, {b}), Len(Token(s, b)) + 1)

lk_string_chop_end(s, t) ==
    IF ends_with(s, t) THEN SubSeq(s, 1, Len(s) - Len(t)) ELSE s

-----------------------------------------------------------------------------
(***************************************************************************)
(* The parser.                                                              *)
(***************************************************************************)
lk_httprequest_new ==
    [method |-> Empty, uri |-> Empty, path |-> Empty, filename |-> Empty,
     querystring |-> Empty, version |-> Empty, headers |-> << >>,
     head |-> Empty, body |-> Empty]

\* Mutant of parse_uri: the slash is taken off before the query is.
ChopThenSplit(r) ==
    LET parts == Split(lk_string_chop_end(r.uri, Slash), "?") IN
    [r EXCEPT !.path = parts[1], !.querystring = Nth(parts, 2),
              !.filename = Last(Split(parts[1], "/"))]

parse_uri(r) ==
    LET parts == Split(r.uri, "?")
        path  == lk_string_chop_end(parts[1], Slash)
    IN [r EXCEPT !.path = path, !.querystring = Nth(parts, 2),
                 !.filename = Last(Split(path, "/"))]

parse_request_line(r, line) ==
    LET words == lk_chomp(line)
        rest  == AfterToken(words, "sp")
    IN parse_uri([r EXCEPT !.method = Token(words, "sp"), !.uri = Token(rest, "sp"),
                           !.version = Token(AfterToken(rest, "sp"), "sp")])

\* A header line of a request or of a CGI program as <<name, value>>: the value
\* ends at a second colon.  << >> if there is no name.
Header(line) ==
    LET s == lk_chomp(line) IN
    IF Token(s, ":") = Empty THEN << >>
    ELSE <<Token(s, ":"), Skip(Token(AfterToken(s, ":"), ":"), {"sp"})>>

parse_header_line(headers, line) ==
    LET h == Header(line) IN
    IF h = << >> THEN headers ELSE lk_stringtable_set(headers, h[1], h[2])

\* What the lines after the first one say, one after the other.
Headers(lines) ==
    LET headers[n \in 1 .. Len(lines)] ==
           IF n = 1 THEN << >>
           ELSE IF is_empty_line(lines[n]) THEN headers[n - 1]
           ELSE parse_header_line(headers[n - 1], lines[n])
    IN headers[Len(lines)]

\* A request from the lines of its head, which may have been cut off anywhere.
Parsed(lines) ==
    IF lines = << >> THEN lk_httprequest_new
    ELSE [parse_request_line(lk_httprequest_new, lines[1]) EXCEPT
             !.headers = Headers(lines)]

-----------------------------------------------------------------------------
(***************************************************************************)
(* The head for an upstream server.                                         *)
(***************************************************************************)
Sp == <<"sp">>
Newline == <<LF>>
HeaderLine(k, v) == k \o <<":", "sp">> \o v \o Newline
ContentLength == <<"Content-Length">>
Number(n) == <<ToString(n)>>

HeadOf(r, where) ==
    LET version == IF r.version = Empty THEN <<"HTTP/1.0">> ELSE r.version
        own == IF r.body = Empty THEN Empty
               ELSE HeaderLine(ContentLength, Number(Len(r.body)))
        headers == FlattenSeq([n \in DOMAIN r.headers |->
                                  HeaderLine(r.headers[n].k, r.headers[n].v)])
    IN [r EXCEPT !.version = version,
                 !.head = r.method \o Sp \o where \o Sp \o version \o Newline
                          \o own \o headers \o <<"cr", LF>>]

\* Mutant of lk_httprequest_finalize: the query is left out.
FinalizeWithPath(r) == HeadOf(r, r.path)

lk_httprequest_finalize(r) == HeadOf(r, r.uri)

-----------------------------------------------------------------------------
(***************************************************************************)
(* The environment of the CGI programs, which is that of the server.        *)
(***************************************************************************)
EnvNames ==
    {"SERVER_NAME", "SERVER_SOFTWARE", "SERVER_PROTOCOL", "SERVER_PORT",
     "DOCUMENT_ROOT", "HTTP_USER_AGENT", "HTTP_HOST", "SCRIPT_FILENAME",
     "REQUEST_METHOD", "SCRIPT_NAME", "REQUEST_URI", "QUERY_STRING",
     "CONTENT_TYPE", "CONTENT_LENGTH", "REMOTE_ADDR"}

\* What is the same for all requests; the rest is unset.
set_cgi_env1 ==
    [name \in EnvNames |->
        CASE name = "SERVER_NAME"     -> <<"hostname">>
          [] name = "SERVER_SOFTWARE" -> <<"littlekitten/0.1">>
          [] name = "SERVER_PROTOCOL" -> <<"HTTP/1.0">>
          [] name = "SERVER_PORT"     -> <<"port">>
          [] OTHER                    -> Empty]

OrEmpty(value) == IF value = NULL THEN Empty ELSE value

Environment(env, r, homedir, from, content_type) ==
    LET header(k) == OrEmpty(lk_stringtable_get(r.headers, <<k>>)) IN
    [env EXCEPT
        !.DOCUMENT_ROOT = homedir,
        !.HTTP_USER_AGENT = header("User-Agent"),
        !.HTTP_HOST = header("Host"),
        !.SCRIPT_FILENAME = homedir \o r.path,
        !.REQUEST_METHOD = r.method,
        !.SCRIPT_NAME = r.path,
        !.REQUEST_URI = r.uri,
        !.QUERY_STRING = r.querystring,
        !.CONTENT_TYPE = content_type,
        !.CONTENT_LENGTH = Number(Len(r.body)),
        !.REMOTE_ADDR = from]

ContentTypeOf(r) == lk_stringtable_get(r.headers, <<"Content-Type">>)

\* Mutant of set_cgi_env2: a Content-Type is set only if there is one.
KeepContentType(env, r, homedir, from) ==
    Environment(env, r, homedir, from,
        IF ContentTypeOf(r) = NULL THEN env.CONTENT_TYPE ELSE ContentTypeOf(r))

\* setenv() of what depends on the request: homedir is that of its host, from
\* the address and port of the client.
set_cgi_env2(env, r, homedir, from) ==
    Environment(env, r, homedir, from, OrEmpty(ContentTypeOf(r)))
=============================================================================
