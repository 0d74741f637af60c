------------------------------- MODULE LKConfig -------------------------------
(***************************************************************************)
(* How the server comes to its configuration: parse_args (lkws.c), one      *)
(* argument after the other, lk_config_read_configfile line by line, and    *)
(* lk_config_finalize (lkconfig.c).  Arguments and files may come in any    *)
(* order and set the same things.                                           *)
(*                                                                          *)
(* A line is read as the key and the value that lk_string_split_assign      *)
(* makes of it; "other" is the key of comments, blank lines and everything  *)
(* else that is skipped.                                                    *)
(***************************************************************************)
EXTENDS LKHosts

CONSTANTS
    Setups,       \* command lines and what the configuration file holds, both
                  \* sequences
    ConfigFile,   \* its name
    RealPath,     \* RealPath[d] of the directories that exist
    CurrentDir    \* what get_current_dir_name() returns

HostKeys == {"homedir", "cgidir", "proxyhost"}
LineKeys == {"serverhost", "port", "hostname", "alias", "other"} \cup HostKeys
Lines == [key : LineKeys, value : Text, to : Text]  \* to: the target of an alias

Options == {"-f", "-h", "--cgidir=", "text"}
Arguments == [opt : Options, value : Text]

ASSUME DefaultsAssumption == {"cgi-bin", "localhost", "8000"} \subseteq Pieces
ASSUME SetupsAssumption == Setups \subseteq Seq(Arguments) \X Seq(Lines)
ASSUME ConfigFileAssumption == ConfigFile \in Text /\ CurrentDir \in Text
ASSUME RealPathAssumption == \A d \in DOMAIN RealPath : RealPath[d] \in Text

VARIABLES
    command,    \* argv, fixed
    conf,       \* the lines of the configuration file, fixed
    pc,         \* "args", "lines", "ready" or "help"
    arg,        \* index of the next argument
    line,       \* index of the next line; 0 before the file is opened
    state,      \* parse_args: "PA_NONE" or "PA_FILE"
    set,        \* which of homedir, port and host an argument has set
    hc,         \* position of the current host; 0 in state CFG_ROOT
    cfg         \* the configuration

vars == <<command, conf, pc, arg, line, state, set, hc, cfg>>

Init ==
    /\ \E s \in Setups : command = s[1] /\ conf = s[2]
    /\ pc = "args" /\ arg = 1 /\ line = 0
    /\ state = "PA_NONE" /\ set = {} /\ hc = 0
    /\ cfg = [serverhost |-> Empty, port |-> Empty, hostconfigs |-> << >>]

-----------------------------------------------------------------------------
(***************************************************************************)
(* The arguments.                                                           *)
(***************************************************************************)
Argument == command[arg]

NextArg(opts, in) ==
    /\ pc = "args" /\ arg <= Len(command)
    /\ state = in /\ Argument.opt \in opts
    /\ arg' = arg + 1
    /\ UNCHANGED <<command, conf, hc>>

\* The "*" host with field set to value.
SetAnyHost(c, field, value) ==
    LET hcs == lk_config_create_get_hostconfig(c.hostconfigs, AnyHost) IN
    [c EXCEPT !.hostconfigs =
        [hcs EXCEPT ![get_hostconfig(hcs, AnyHost)][field] = value]]

\* Mutant of AwaitFile: takes -f and the name together, whether or not there
\* is one.
AwaitFileAndName ==
    /\ pc = "args" /\ arg <= Len(command)
    /\ state = "PA_NONE" /\ Argument.opt = "-f"
    /\ arg' = arg + 2
    /\ UNCHANGED <<command, conf, pc, line, state, set, hc, cfg>>

AwaitFile ==
    /\ NextArg({"-f"}, "PA_NONE")
    /\ state' = "PA_FILE"
    /\ UNCHANGED <<pc, line, set, cfg>>

Help ==
    /\ NextArg({"-h"}, "PA_NONE")
    /\ pc' = "help"
    /\ UNCHANGED <<line, state, set, cfg>>

CgidirArg ==
    /\ NextArg({"--cgidir="}, "PA_NONE")
    /\ cfg' = SetAnyHost(cfg, "cgidir", Argument.value)
    /\ UNCHANGED <<pc, line, state, set>>

\* Whatever follows -f is the name of a file.  That it cannot be opened is
\* reported and ignored.
FileArg ==
    /\ NextArg(Options, "PA_FILE")
    /\ state' = "PA_NONE"
    /\ IF Argument.opt = "text" /\ Argument.value = ConfigFile
       THEN pc' = "lines" /\ line' = 1
       ELSE UNCHANGED <<pc, line>>
    /\ UNCHANGED <<set, cfg>>

HomedirArg ==
    /\ "homedir" \notin set
    /\ NextArg({"text"}, "PA_NONE")
    /\ set' = set \cup {"homedir"}
    /\ LET c == SetAnyHost(cfg, "homedir", Argument.value)
           any == c.hostconfigs[get_hostconfig(c.hostconfigs, AnyHost)]
       IN cfg' = IF any.cgidir = Empty
                 THEN SetAnyHost(c, "cgidir", <<"/", "cgi-bin", "/">>) ELSE c
    /\ UNCHANGED <<pc, line, state>>

PortArg ==
    /\ "homedir" \in set /\ "port" \notin set
    /\ NextArg({"text"}, "PA_NONE")
    /\ set' = set \cup {"port"}
    /\ cfg' = [cfg EXCEPT !.port = Argument.value]
    /\ UNCHANGED <<pc, line, state>>

HostArg ==
    /\ {"homedir", "port"} \subseteq set /\ "host" \notin set
    /\ NextArg({"text"}, "PA_NONE")
    /\ set' = set \cup {"host"}
    /\ cfg' = [cfg EXCEPT !.serverhost = Argument.value]
    /\ UNCHANGED <<pc, line, state>>

ExtraArg ==
    /\ {"homedir", "port", "host"} \subseteq set
    /\ NextArg({"text"}, "PA_NONE")
    /\ UNCHANGED <<pc, line, state, set, cfg>>

-----------------------------------------------------------------------------
(***************************************************************************)
(* The lines of the configuration file.                                     *)
(***************************************************************************)
Line == conf[line]

NextLine(keys) ==
    /\ pc = "lines" /\ line <= Len(conf) /\ Line.key \in keys
    /\ line' = line + 1
    /\ UNCHANGED <<command, conf, pc, arg, state, set>>

\* A section begins, or a section of the same host goes on.
HostnameLine ==
    /\ NextLine({"hostname"})
    /\ cfg' = [cfg EXCEPT !.hostconfigs =
                 lk_config_create_get_hostconfig(@, Line.value)]
    /\ hc' = get_hostconfig(cfg'.hostconfigs, Line.value)

\* Mutant of RootLine: in any section.
RootLineAnywhere ==
    /\ NextLine({"serverhost", "port"})
    /\ cfg' = [cfg EXCEPT ![Line.key] = Line.value]
    /\ UNCHANGED hc

RootLine ==
    /\ hc = 0
    /\ NextLine({"serverhost", "port"})
    /\ cfg' = [cfg EXCEPT ![Line.key] = Line.value]
    /\ UNCHANGED hc

\* Mutant of HostLine: a cgidir that is set is kept, as parse_args does.
CgidirLineOnce ==
    /\ hc # 0
    /\ NextLine(HostKeys)
    /\ cfg' = IF Line.key = "cgidir" /\ cfg.hostconfigs[hc].cgidir # Empty THEN cfg
              ELSE [cfg EXCEPT !.hostconfigs[hc][Line.key] = Line.value]
    /\ UNCHANGED hc

HostLine ==
    /\ hc # 0
    /\ NextLine(HostKeys)
    /\ cfg' = [cfg EXCEPT !.hostconfigs[hc][Line.key] = Line.value]
    /\ UNCHANGED hc

AliasLine ==
    /\ hc # 0
    /\ NextLine({"alias"})
    /\ cfg' = [cfg EXCEPT !.hostconfigs[hc].aliases =
                 lk_stringtable_set(@, LeadingSlash(Line.value),
                                       LeadingSlash(Line.to))]
    /\ UNCHANGED hc

\* Comments, and lines that belong in the other kind of section.
SkippedLine ==
    /\ NextLine(IF hc = 0 THEN {"alias", "other"} \cup HostKeys
                          ELSE {"serverhost", "port", "other"})
    /\ UNCHANGED <<hc, cfg>>

\* hc and the state of the parser are local: another file begins at the root.
FileEnds ==
    /\ pc = "lines" /\ line > Len(conf)
    /\ pc' = "args" /\ hc' = 0
    /\ UNCHANGED <<command, conf, arg, line, state, set, cfg>>

-----------------------------------------------------------------------------
(***************************************************************************)
(* lk_config_finalize, when the server starts.                              *)
(***************************************************************************)
Default(value, default) == IF value = Empty THEN default ELSE value

realpath(d) == IF d \in DOMAIN RealPath THEN RealPath[d] ELSE Empty

\* Mutant of Slashes: only the beginning is adjusted.
SlashBefore(cgidir) == LeadingSlash(cgidir)

Slashes(cgidir) == TrailingSlash(LeadingSlash(cgidir))

Absolute(h) ==
    IF h.homedir = Empty THEN h
    ELSE LET abs == realpath(h.homedir) IN
         IF h.cgidir = Empty THEN [h EXCEPT !.homedir_abspath = abs]
         ELSE [h EXCEPT !.homedir_abspath = abs,
                        !.cgidir = Slashes(@),
                        !.cgidir_abspath = abs \o Slashes(h.cgidir)]

DefaultHosts(c) ==
    IF c.hostconfigs # << >> THEN c
    ELSE SetAnyHost(SetAnyHost(c, "homedir", CurrentDir),
                    "cgidir", <<"/", "cgi-bin", "/">>)

lk_config_finalize ==
    /\ pc = "args" /\ arg > Len(command)
    /\ pc' = "ready"
    /\ LET hcs == DefaultHosts(cfg).hostconfigs IN
       cfg' = [serverhost  |-> Default(cfg.serverhost, <<"localhost">>),
               port        |-> Default(cfg.port, <<"8000">>),
               hostconfigs |-> [k \in DOMAIN hcs |-> Absolute(hcs[k])]]
    /\ UNCHANGED <<command, conf, arg, line, state, set, hc>>

Next ==
    \/ AwaitFile \/ Help \/ CgidirArg \/ FileArg
    \/ HomedirArg \/ PortArg \/ HostArg \/ ExtraArg
    \/ HostnameLine \/ RootLine \/ HostLine \/ AliasLine \/ SkippedLine
    \/ FileEnds \/ lk_config_finalize

Spec == Init /\ [][Next]_vars

-----------------------------------------------------------------------------
(***************************************************************************)
(* The reference: what a configuration file says, as a whole.               *)
(***************************************************************************)
Latest(S) == CHOOSE j \in S : \A i \in S : i <= j

\* The host whose section line j is in; NULL before the first section.
Section(j) ==
    LET begun == {i \in 1 .. j : conf[i].key = "hostname"} IN
    IF begun = {} THEN NULL ELSE conf[Latest(begun)].value

LinesOf(h, key) == {j \in DOMAIN conf : conf[j].key = key /\ Section(j) = h}

Written(h, key) ==
    IF LinesOf(h, key) = {} THEN Empty ELSE conf[Latest(LinesOf(h, key))].value

\* The cgidir of a host, a whole directory if there is a homedir that it is in.
CgidirWritten(h) ==
    LET dir == Written(h, "cgidir") IN
    IF dir = Empty \/ Written(h, "homedir") = Empty THEN dir ELSE Slashes(dir)

AliasesOf(h, from) ==
    {j \in LinesOf(h, "alias") : LeadingSlash(conf[j].value) = from}

HostsWritten == {conf[j].value : j \in {i \in DOMAIN conf : conf[i].key = "hostname"}}

FileOnly == Len(command) = 2 /\ line > 0

-----------------------------------------------------------------------------
TypeOK ==
    /\ <<command, conf>> \in Setups
    /\ pc \in {"args", "lines", "ready", "help"}
    /\ arg \in 1 .. Len(command) + 1 /\ line \in 0 .. Len(conf) + 1
    /\ state \in {"PA_NONE", "PA_FILE"} /\ set \subseteq {"homedir", "port", "host"}
    /\ cfg \in [serverhost : Text, port : Text, hostconfigs : Seq(HostConfig)]
    /\ hc \in 0 .. Len(cfg.hostconfigs)

\* No two configurations of one host: a request finds the first one only, and
\* what the other says would never count.
OneConfigPerHost ==
    \A i, j \in DOMAIN cfg.hostconfigs :
        cfg.hostconfigs[i].hostname = cfg.hostconfigs[j].hostname => i = j

\* The comment before lk_config_read_configfile: a section lasts until the next
\* one begins, wherever its host was mentioned before.  Each setting of a host
\* is that of the last line for it in the host's sections, however these are
\* scattered, and no line of another section counts; the cgidir is that of the
\* line too, with the slashes of a directory if the host has a homedir.
SectionsAsWritten ==
    pc = "ready" /\ line > 0 =>
       \A h \in (IF FileOnly THEN HostsWritten ELSE HostsWritten \ {AnyHost}) :
          \E k \in DOMAIN cfg.hostconfigs :
             LET c == cfg.hostconfigs[k] IN
             /\ c.hostname = h
             /\ c.homedir = Written(h, "homedir")
             /\ c.proxyhost = Written(h, "proxyhost")
             /\ c.cgidir = CgidirWritten(h)
             /\ \A from \in {LeadingSlash(conf[j].value) : j \in DOMAIN conf} :
                   lk_stringtable_get(c.aliases, from) =
                      IF AliasesOf(h, from) = {} THEN NULL
                      ELSE LeadingSlash(conf[Latest(AliasesOf(h, from))].to)

\* The address of the server comes from the lines before the first section, or
\* is the default.
RootAsWritten ==
    pc = "ready" /\ FileOnly =>
       /\ cfg.serverhost = Default(Written(NULL, "serverhost"), <<"localhost">>)
       /\ cfg.port = Default(Written(NULL, "port"), <<"8000">>)

\* A host that serves files runs the programs of whole directories: "cgi-bin"
\* never stands for "cgi-bin-old" too, whatever wrote it.
CgidirIsDirectory ==
    pc = "ready" =>
       \A k \in DOMAIN cfg.hostconfigs :
          LET c == cfg.hostconfigs[k] IN
          c.homedir # Empty /\ c.cgidir # Empty =>
             starts_with(c.cgidir, Slash) /\ ends_with(c.cgidir, Slash)

\* README.md:25, "homedir [...] defaults to current working directory if not
\* specified": without a homedir and without a configuration file.
HomedirDefaults ==
    pc = "ready" /\ line = 0 /\ "homedir" \notin set =>
       LET k == lk_config_find_hostconfig(cfg.hostconfigs, NULL) IN
       k # 0 /\ cfg.hostconfigs[k].homedir = CurrentDir
=============================================================================
