----------------------------- MODULE MCLKConfig -----------------------------
(***************************************************************************)
(* Instances of LKConfig for TLC: every file of up to MaxLines lines out of *)
(* eleven, with command lines that name it and command lines that do not.   *)
(***************************************************************************)
EXTENDS LKConfig

CONSTANT MaxLines

MCPieces ==
    {"/", "*", "cgi-bin", "localhost", "8000", "h", "81", "d", "nowhere", "cgi", "bin", "p",
     "x", "y", "z", "conf", "82", "host", "more", "cwd"}

L(key, value) == [key |-> key, value |-> <<value>>, to |-> Empty]
A(from, to) == [key |-> "alias", value |-> from, to |-> to]

SomeLines ==
    {L("hostname", "*"), L("hostname", "h"), L("port", "81"),
     L("homedir", "d"), L("homedir", "nowhere"), L("cgidir", "cgi"),
     L("cgidir", "bin"), L("proxyhost", "p"), A(<<"x">>, <<"y">>), A(<<"/", "x">>, <<"/", "z">>),
     [key |-> "other", value |-> Empty, to |-> Empty]}

MCContents == UNION {[1 .. n -> SomeLines] : n \in 0 .. MaxLines}

Opt(opt) == [opt |-> opt, value |-> Empty]
Arg(value) == [opt |-> "text", value |-> <<value>>]
Cgidir(value) == [opt |-> "--cgidir=", value |-> value]

WithFile ==
    {<<Opt("-f"), Arg("conf")>>,
     <<Arg("d"), Arg("82"), Opt("-f"), Arg("conf"), Arg("host"), Arg("more")>>,
     <<Cgidir(<<"cgi", "/">>), Opt("-f"), Arg("conf"), Arg("d")>>}

WithoutFile ==
    {<< >>, <<Opt("-h")>>, <<Arg("d"), Arg("82"), Arg("host")>>,
     <<Opt("-f"), Opt("-h"), Arg("d")>>, <<Opt("-f")>>,
     <<Arg("d"), Cgidir(<<"/", "cgi">>)>>}

OnlyCgidir == {<<Cgidir(<<"cgi">>)>>} \cup WithoutFile

FilelessSetups == OnlyCgidir \X {<< >>}
AllSetups == (WithFile \X MCContents) \cup FilelessSetups

Conf == <<"conf">>
Cwd == <<"cwd">>
MCRealPath == [d \in {<<"d">>, <<"cwd">>} |-> <<"/">> \o d]
=============================================================================
