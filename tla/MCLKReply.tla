------------------------------ MODULE MCLKReply ------------------------------
(***************************************************************************)
(* Instances of LKReply for TLC: sites of every kind, every output of up to *)
(* MaxOutput bytes for one program, outputs with a Content-Length among     *)
(* other lines, and requests of many forms for the rest.                    *)
(***************************************************************************)
EXTENDS LKReply

CONSTANT MaxOutput

MCPieces ==
    {"/", "*", "?", ":", "sp", "cr", LF, "A", "B", "a", "b", "up", "run", "old", "cgi", "p",
     "q", "none", "page.html", "data", "x", "y", "80", "me", "you", "junk", "host", "t", "u",
     "GET", "HEAD", "POST", "PUT", "HTTP/1.0", "HTTP/1.1", "Host", "Content-Type",
     "content-length", "Content-Length", "User-Agent", "Status", "404", "0", "1", "2", "3",
     "4", "5", "6", "7", "8", "9",
     "index.html", "index.htm", "default.html", "default.htm", "text/plain", "text/html",
     "message", "hostname", "littlekitten/0.1", "port"}

Site(hostname, homedir, cgidir, proxyhost) ==
    [lk_hostconfig_new(hostname) EXCEPT
        !.homedir = homedir, !.homedir_abspath = homedir, !.cgidir = cgidir,
        !.cgidir_abspath = homedir \o cgidir, !.proxyhost = proxyhost,
        !.aliases = << [k |-> <<"/", "run">>, v |-> <<"/", "cgi", "/", "p">>],
                       [k |-> <<"/", "old">>, v |-> <<"/", "page.html">>] >>]

Cgi == <<"/", "cgi", "/">>
MCHosts ==
    {<< >>,
     <<Site(<<"a">>, <<"A">>, Cgi, Empty), Site(<<"*">>, <<"B">>, Empty, Empty)>>,
     <<Site(<<"*">>, Empty, Cgi, Empty), Site(<<"a">>, Empty, Empty, <<"up">>)>>,
     <<Site(<<"a">>, <<"B">>, Empty, Empty)>>}

-----------------------------------------------------------------------------
(***************************************************************************)
(* Requests: a first line, some header lines, a body.                       *)
(***************************************************************************)
Crlf == <<"cr", LF>>
First(method, uri) == <<method>> \o Sp \o uri \o Sp \o <<"HTTP/1.1">> \o Crlf
HostA == <<"Host", ":", "sp", "a">> \o Crlf
Type(type) == <<"Content-Type", ":", "sp", type>> \o Crlf
Length(name, n) == <<name, ":", "sp", n>> \o Newline

Request(first, headers, body, from) ==
    [head |-> <<first>> \o headers \o <<Crlf>>, body |-> body, from |-> <<from>>]

Slashed == {Slash, <<"/", "page.html">>, <<"/", "old">>, <<"/", "data", "/">>,
            <<"/", "data", "/", "/">>, <<"/", "cgi", "/", "none">>}
Queries == {Empty, <<"?">>, <<"?", "x">>, <<"?", "x", "/">>, <<"?", "x", "?", "y">>}

\* Files: every form of URI, and every method and host for some of them.
FileRequests ==
    {Request(First(method, path \o query), <<HostA>>, Empty, "me") :
        method \in {"GET", "HEAD"}, path \in Slashed, query \in Queries}
    \cup {Request(First(method, path), host, Empty, "me") :
             method \in {"GET", "HEAD", "POST", "PUT"}, path \in {Slash, <<"/", "data">>},
             host \in {<< >>, << <<"Host", ":", "b", LF>> >>,
                       << <<"host", ":", "sp", "a", LF>> >>}}

\* What a client may send that is no request, or only a part of one.
OddRequests ==
    {[head |-> head, body |-> Empty, from |-> <<"me">>] :
        head \in {<< >>, <<Crlf, HostA>>, << <<"GET">> \o Crlf, HostA, Crlf>>,
                  <<First("GET", Slash)>>,
                  << <<"GET", "sp", "sp", "/", "sp", "HTTP/1.1", LF>>, HostA, Crlf>>,
                  << <<"GET", "sp", "/", "sp", "HTTP/1.1", "sp", "x", LF>>, HostA, Crlf>>,
                  << <<"GET", "sp", "/", "page.html", LF>>, HostA, Crlf>>,
                  << <<"GET", "sp", "/", "?", "x", LF>>, HostA>>,
                  << <<"GET", "sp", "/", "data", "/", LF>>, HostA, HostA, <<LF>> >>}}

\* Header lines of all kinds, with bodies that are cut off or too long.
HeaderSets ==
    {<<HostA>>,
     << <<"Host", ":", "sp", "a", ":", "80", LF>>, <<"junk", LF>>, <<":", LF>> >>,
     <<Type("t"), HostA, Type("u"), <<"User-Agent", ":", "sp", "sp", "x", "sp", "y", LF>> >>,
     <<HostA, Type("t"), <<"Content-Type", ":", LF>> >>,
     <<HostA, Length("Content-Length", "2")>>,
     <<Length("content-length", "2"), HostA, <<"User-Agent", ":", "x", LF>> >>}
HeaderRequests ==
    {Request(First(IF body = Empty THEN "GET" ELSE "POST", path), headers, body,
             IF Len(body) = 1 THEN "me" ELSE "you") :
        path \in {Cgi \o <<"q">>, Cgi \o <<"q", "/", "?", "x">>},
        headers \in HeaderSets, body \in {Empty, <<"b">>, <<"b", "b">>, <<"b", "b", "b">>}}
    \cup {Request(First("HEAD", Cgi \o <<"q">>), <<HostA>>, Empty, "me")}

MCRequests ==
    FileRequests \cup OddRequests \cup HeaderRequests
    \cup {Request(First("GET", <<"/", "run">>), <<HostA>>, Empty, "me")}

-----------------------------------------------------------------------------
MCContent ==
    [p \in {<<"A", "/", "index.htm">>, <<"A", "/", "default.htm">>,
            <<"A", "/", "page.html">>, <<"B", "/", "data">>}
        |-> IF p[1] = "A" THEN <<"x">> \o p ELSE Empty]

Bytes == {LF, "cr", "sp", ":", "Content-Type", "Status", "404"}
P == <<"A", "/", "cgi", "/", "p">>
Q == <<"A", "/", "cgi", "/", "q">>
Upto(n) == UNION {[1 .. m -> Bytes] : m \in 0 .. n}
OwnLength == <<"Content-Length", ":", "1", LF>>
MCOutputs ==
    [p \in {P, Q} |->
        IF p = P THEN Upto(MaxOutput)
                      \cup {before \o OwnLength \o after : before, after \in Upto(2)}
        ELSE {Empty, <<"Status", ":", "404", LF, LF, "x">>}]
MCNumbers == [b \in {"404"} |-> 404]
=============================================================================
