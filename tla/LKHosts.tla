------------------------------- MODULE LKHosts -------------------------------
(***************************************************************************)
(* What the configuration leaves for the handlers: the host configurations  *)
(* (lkconfig.c) and the string tables (lkstringtable.c) of their aliases    *)
(* and of the headers.  No state: LKConfig builds these, LKReply reads them.*)
(*                                                                          *)
(* A text is a sequence of pieces; "/" is a piece of its own.               *)
(***************************************************************************)
EXTENDS Naturals, Sequences, SequencesExt

CONSTANT Pieces     \* what texts are made of

ASSUME PiecesAssumption == {"/", "*"} \subseteq Pieces /\ "(null)" \notin Pieces

Text == Seq(Pieces)
Empty == << >>
NULL == <<"(null)">>              \* the pointer; no text has this piece

Slash == <<"/">>

starts_with(s, t) == IsPrefix(t, s)
ends_with(s, t) == IsSuffix(t, s)

LeadingSlash(s)  == IF starts_with(s, Slash) THEN s ELSE Slash \o s
TrailingSlash(s) == IF ends_with(s, Slash) THEN s ELSE s \o Slash

(***************************************************************************)
(* String tables: keys in the order of their first lk_stringtable_set.      *)
(***************************************************************************)
Position(st, k) == SelectInSeq(st, LAMBDA item : item.k = k)

\* Mutant of lk_stringtable_set: an item that exists is not looked for.
AlwaysAppend(st, k, v) == Append(st, [k |-> k, v |-> v])

lk_stringtable_set(st, k, v) ==
    IF Position(st, k) = 0 THEN Append(st, [k |-> k, v |-> v])
                           ELSE [st EXCEPT ![Position(st, k)].v = v]

lk_stringtable_get(st, k) ==
    IF Position(st, k) = 0 THEN NULL ELSE st[Position(st, k)].v

(***************************************************************************)
(* Host configurations.                                                     *)
(***************************************************************************)
lk_hostconfig_new(hostname) ==
    [hostname |-> hostname, homedir |-> Empty, homedir_abspath |-> Empty,
     cgidir |-> Empty, cgidir_abspath |-> Empty, proxyhost |-> Empty,
     aliases |-> << >>]

HostConfig ==
    [hostname : Text, homedir : Text, homedir_abspath : Text, cgidir : Text,
     cgidir_abspath : Text, proxyhost : Text, aliases : Seq([k : Text, v : Text])]

AnyHost == <<"*">>

\* 0 stands for "not found".
get_hostconfig(hcs, hostname) ==
    SelectInSeq(hcs, LAMBDA hc : hc.hostname = hostname)

\* Mutant of lk_config_create_get_hostconfig: never gets.
AlwaysCreate(hcs, hostname) == Append(hcs, lk_hostconfig_new(hostname))

\* The list with that host in it; get_hostconfig says where.
lk_config_create_get_hostconfig(hcs, hostname) ==
    IF get_hostconfig(hcs, hostname) # 0 THEN hcs
    ELSE Append(hcs, lk_hostconfig_new(hostname))

\* The host of a request, "*" if there is no such host or no Host header.
lk_config_find_hostconfig(hcs, hostname) ==
    IF hostname # NULL /\ get_hostconfig(hcs, hostname) # 0
    THEN get_hostconfig(hcs, hostname)
    ELSE get_hostconfig(hcs, AnyHost)
=============================================================================
