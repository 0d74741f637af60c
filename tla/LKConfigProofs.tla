--------------------------- MODULE LKConfigProofs ---------------------------
(***************************************************************************)
(* Proofs about LKConfig, for any command lines, configuration files and    *)
(* directories: types, one configuration for each host, cgi directories     *)
(* that end where a directory ends, and settings that are those of the      *)
(* file's sections.                                                         *)
(***************************************************************************)
EXTENDS LKConfig, LKHostsProofs

Config == [serverhost : Text, port : Text, hostconfigs : Seq(HostConfig)]

\* The invariant: types, with the line at hand one of the file's, and unique
\* hosts.
IInv ==
    /\ TypeOK
    /\ pc = "lines" => line # 0
    /\ OneConfigPerHost
    /\ CgidirIsDirectory

-----------------------------------------------------------------------------
(***************************************************************************)
(* Texts.                                                                   *)
(***************************************************************************)

\* The texts of the model are texts, and joining two makes one.
LEMMA TextsAre ==
    /\ Empty \in Text /\ Slash \in Text /\ AnyHost \in Text
    /\ <<"/", "cgi-bin", "/">> \in Text
    /\ <<"localhost">> \in Text /\ <<"8000">> \in Text
    /\ \A s, t \in Text : s \o t \in Text
<1>1. \A x, y, z \in Pieces : <<x>> \in Seq(Pieces) /\ <<x, y, z>> \in Seq(Pieces)
  OBVIOUS
<1>2. \A s, t \in Text : s \o t \in Text
  BY DEF Text
<1>3. QED
  BY <1>1, <1>2, PiecesAssumption, DefaultsAssumption
     DEF Text, Empty, Slash, AnyHost

\* Slash as a sequence.
LEMMA SlashIs ==
    /\ Slash \in Seq(Pieces) /\ Len(Slash) = 1 /\ Slash[1] = "/"
    /\ SubSeq(Slash, 1, 1) = <<"/">>
<1>1. Slash \in Seq(Pieces) /\ Len(Slash) = 1 /\ Slash[1] = "/"
  BY TextsAre DEF Text, Slash
<1>2. QED
  BY <1>1, FirstOf

\* The two ends of two texts joined.
LEMMA JoinIs ==
    ASSUME NEW a \in Seq(Pieces), NEW b \in Seq(Pieces), Len(a) >= 1, Len(b) >= 1
    PROVE  /\ a \o b \in Seq(Pieces) /\ Len(a \o b) = Len(a) + Len(b)
           /\ (a \o b)[1] = a[1] /\ (a \o b)[Len(a \o b)] = b[Len(b)]
<1>1. Len(a) \in Nat /\ Len(b) \in Nat
  OBVIOUS
<1>2. /\ a \o b \in Seq(Pieces) /\ Len(a \o b) = Len(a) + Len(b)
      /\ \A i \in 1 .. Len(a) + Len(b) :
            (a \o b)[i] = IF i <= Len(a) THEN a[i] ELSE b[i - Len(a)]
  BY ConcatProperties
<1>3. Len(a) + Len(b) \in 1 .. Len(a) + Len(b) /\ 1 \in 1 .. Len(a) + Len(b)
  BY <1>1
<1>4. ~(Len(a) + Len(b) <= Len(a)) /\ (Len(a) + Len(b)) - Len(a) = Len(b)
  BY <1>1
<1>5. QED
  BY <1>2, <1>3, <1>4

\* What begins, or ends, with "/".
LEMMA StartsWithSlash ==
    ASSUME NEW s \in Text
    PROVE  starts_with(s, Slash) <=> Len(s) >= 1 /\ s[1] = "/"
<1>1. Len(s) \in Nat /\ s \in Seq(Pieces)
  BY DEF Text
<1>2. Len(s) >= 1 => SubSeq(s, 1, 1) = <<s[1]>>
  BY <1>1, FirstOf
<1>3. QED
  BY <1>1, <1>2, SlashIs DEF starts_with, IsPrefix

LEMMA EndsWithSlash ==
    ASSUME NEW s \in Text, Len(s) >= 1, s[Len(s)] = "/"
    PROVE  ends_with(s, Slash)
<1> DEFINE r == Reverse(s)
<1>1. Len(s) \in Nat /\ s \in Seq(Pieces)
  BY DEF Text
<1>2. r = [i \in 1 .. Len(s) |-> s[(Len(s) - i) + 1]]
  BY DEF Reverse
<1>3. \A i \in 1 .. Len(s) : s[(Len(s) - i) + 1] \in Pieces
  <2>1. \A i \in 1 .. Len(s) : (Len(s) - i) + 1 \in 1 .. Len(s)
    BY <1>1
  <2>2. QED
    BY <1>1, <2>1
<1> HIDE DEF r
<1>4. r \in Seq(Pieces) /\ Len(r) = Len(s) /\ r[1] = "/"
  BY <1>1, <1>2, <1>3
<1>5. SubSeq(r, 1, 1) = <<"/">>
  BY <1>4, FirstOf
<1>6. Reverse(Slash) = Slash
  <2>1. Reverse(Slash) = [i \in 1 .. 1 |-> Slash[(1 - i) + 1]]
    BY SlashIs DEF Reverse
  <2>2. Reverse(Slash) \in Seq(Pieces) /\ Len(Reverse(Slash)) = 1
    BY <2>1, SlashIs
  <2>3. \A i \in 1 .. 1 : Reverse(Slash)[i] = Slash[i]
    BY <2>1
  <2>4. QED
    BY <2>2, <2>3, SlashIs, SeqEqual
<1>7. QED
  BY <1>1, <1>4, <1>5, <1>6, SlashIs DEF ends_with, IsSuffix, IsPrefix, r

\* A text that LeadingSlash or TrailingSlash has been applied to is one.
LEMMA SlashesAre ==
    ASSUME NEW t \in Text
    PROVE  /\ LeadingSlash(t) \in Text
           /\ Slashes(t) \in Text
           /\ starts_with(Slashes(t), Slash)
           /\ ends_with(Slashes(t), Slash)
<1> DEFINE l == LeadingSlash(t)
           s == TrailingSlash(l)
<1>1. t \in Seq(Pieces) /\ Len(t) \in Nat
  BY DEF Text
<1>2. l \in Text /\ Len(l) \in Nat /\ Len(l) >= 1 /\ l[1] = "/"
  <2>1. CASE starts_with(t, Slash)
    BY <1>1, <2>1, StartsWithSlash DEF LeadingSlash
  <2>2. CASE ~starts_with(t, Slash)
    <3>1. l = Slash \o t
      BY <2>2 DEF LeadingSlash
    <3>2. CASE Len(t) = 0
      BY <1>1, <3>1, <3>2, TextsAre, SlashIs, EmptySeq, ConcatEmptySeq
    <3>3. CASE Len(t) >= 1
      <4>1. Len(Slash) >= 1
        BY SlashIs
      <4>2. /\ Slash \o t \in Seq(Pieces) /\ Len(Slash \o t) = Len(Slash) + Len(t)
            /\ (Slash \o t)[1] = Slash[1]
        BY <1>1, <3>3, <4>1, SlashIs, JoinIs
      <4>3. QED
        BY <1>1, <3>1, <3>3, <4>2, SlashIs DEF Text
    <3>4. QED
      BY <1>1, <3>2, <3>3
  <2>3. QED
    BY <2>1, <2>2
<1> HIDE DEF l
<1>3. s \in Text /\ Len(s) >= 1 /\ s[1] = "/" /\ ends_with(s, Slash)
  <2>1. CASE ends_with(l, Slash)
    BY <1>2, <2>1 DEF TrailingSlash
  <2>2. CASE ~ends_with(l, Slash)
    <3>1. s = l \o Slash /\ l \in Seq(Pieces)
      BY <1>2, <2>2 DEF TrailingSlash, Text
    <3> HIDE DEF s
    <3>2. Len(Slash) >= 1
      BY SlashIs
    <3>3. /\ l \o Slash \in Seq(Pieces) /\ Len(l \o Slash) = Len(l) + Len(Slash)
          /\ (l \o Slash)[1] = l[1]
          /\ (l \o Slash)[Len(l \o Slash)] = Slash[Len(Slash)]
      BY <1>2, <3>1, <3>2, SlashIs, JoinIs
    <3>4. s \in Text /\ Len(s) >= 1 /\ s[1] = "/" /\ s[Len(s)] = "/"
      BY <1>2, <3>1, <3>3, SlashIs DEF Text
    <3>5. QED
      BY <3>4, EndsWithSlash
  <2>3. QED
    BY <2>1, <2>2
<1>4. s = Slashes(t)
  BY DEF Slashes, l
<1> HIDE DEF s
<1>5. QED
  BY <1>2, <1>3, <1>4, StartsWithSlash DEF l

-----------------------------------------------------------------------------
(***************************************************************************)
(* Host configurations.                                                     *)
(***************************************************************************)

\* A new host configuration is one.
LEMMA NewHost ==
    ASSUME NEW h \in Text
    PROVE  lk_hostconfig_new(h) \in HostConfig
BY TextsAre DEF lk_hostconfig_new, HostConfig, Empty

\* Setting one of the three texts of a host configuration keeps its name.
LEMMA HostSet ==
    ASSUME NEW h \in HostConfig, NEW f \in HostKeys, NEW v \in Text
    PROVE  /\ [h EXCEPT ![f] = v] \in HostConfig
           /\ [h EXCEPT ![f] = v].hostname = h.hostname
           /\ [h EXCEPT ![f] = v].homedir = IF f = "homedir" THEN v ELSE h.homedir
<1>1. CASE f = "homedir"
  BY <1>1 DEF HostConfig
<1>2. CASE f = "cgidir"
  BY <1>2 DEF HostConfig
<1>3. CASE f = "proxyhost"
  BY <1>3 DEF HostConfig
<1>4. QED
  BY <1>1, <1>2, <1>3 DEF HostKeys

\* Replacing one host configuration of a list by one of the same name keeps a
\* list without duplicates.
LEMMA ReplaceHost ==
    ASSUME NEW hcs \in Seq(HostConfig), NEW p \in 1 .. Len(hcs), NEW new \in HostConfig,
           new.hostname = hcs[p].hostname
    PROVE  /\ [hcs EXCEPT ![p] = new] \in Seq(HostConfig)
           /\ Len([hcs EXCEPT ![p] = new]) = Len(hcs)
           /\ UniqueHosts(hcs) => UniqueHosts([hcs EXCEPT ![p] = new])
<1>1. /\ [hcs EXCEPT ![p] = new] \in Seq(HostConfig)
      /\ Len([hcs EXCEPT ![p] = new]) = Len(hcs)
  OBVIOUS
<1>2. \A i \in 1 .. Len(hcs) : [hcs EXCEPT ![p] = new][i].hostname = hcs[i].hostname
  OBVIOUS
<1>3. QED
  BY <1>1, <1>2 DEF UniqueHosts

\* SetAnyHost, in steps: the list with "*" in it, and "*" changed.
LEMMA SetAnyHostIs ==
    ASSUME NEW c \in Config, NEW f \in HostKeys, NEW v \in Text
    PROVE  LET new == SetAnyHost(c, f, v) IN
           /\ new \in Config
           /\ Len(new.hostconfigs) >= Len(c.hostconfigs)
           /\ get_hostconfig(new.hostconfigs, AnyHost) \in DOMAIN new.hostconfigs
           /\ UniqueHosts(c.hostconfigs) => UniqueHosts(new.hostconfigs)
<1> DEFINE hcs == lk_config_create_get_hostconfig(c.hostconfigs, AnyHost)
           p   == get_hostconfig(hcs, AnyHost)
           any == [hcs[p] EXCEPT ![f] = v]
           new == SetAnyHost(c, f, v)
<1>1. c.hostconfigs \in Seq(HostConfig) /\ AnyHost \in Text
  BY TextsAre DEF Config
<1>2. /\ hcs \in Seq(HostConfig) /\ Len(hcs) >= Len(c.hostconfigs)
      /\ p \in 1 .. Len(hcs) /\ Len(hcs) \in Nat
      /\ UniqueHosts(c.hostconfigs) => UniqueHosts(hcs)
  <2>1. lk_hostconfig_new(AnyHost) \in HostConfig
    BY <1>1, NewHost
  <2>2. /\ hcs \in Seq(HostConfig) /\ Len(hcs) >= Len(c.hostconfigs)
        /\ p \in 1 .. Len(hcs)
        /\ UniqueHosts(c.hostconfigs) => UniqueHosts(hcs)
    BY <1>1, <2>1, CreateGetKeepsUnique
  <2>3. QED
    BY <2>2
<1>3. hcs[p].hostname = AnyHost
  BY <1>2, HostPositionIs
<1>4. new = [c EXCEPT !.hostconfigs = [hcs EXCEPT ![p] = any]]
  BY DEF SetAnyHost
<1> HIDE DEF hcs, p, new
<1>5. any \in HostConfig /\ any.hostname = AnyHost
  <2>1. hcs[p] \in HostConfig
    BY <1>2
  <2>2. QED
    BY <1>3, <2>1, HostSet
<1> HIDE DEF any
<1> DEFINE list == [hcs EXCEPT ![p] = any]
<1>6. /\ list \in Seq(HostConfig) /\ Len(list) = Len(hcs)
      /\ UniqueHosts(hcs) => UniqueHosts(list)
  BY <1>2, <1>3, <1>5, ReplaceHost
<1>7. list[p].hostname = AnyHost
  BY <1>2, <1>5
<1> HIDE DEF list
<1>8. new \in Config /\ new.hostconfigs = list
  BY <1>4, <1>6 DEF Config, list
<1>9. get_hostconfig(list, AnyHost) \in 1 .. Len(list)
  BY <1>2, <1>6, <1>7, HostPositionIs
<1>10. QED
  BY <1>2, <1>6, <1>8, <1>9 DEF new

-----------------------------------------------------------------------------
(***************************************************************************)
(* The invariant.                                                           *)
(***************************************************************************)

\* What the steps need of the constants and of the state.
LEMMA ArgumentIs ==
    ASSUME IInv, arg <= Len(command)
    PROVE  Argument \in Arguments /\ arg + 1 \in 1 .. Len(command) + 1
<1>1. command \in Seq(Arguments) /\ arg \in 1 .. Len(command) + 1
  BY SetupsAssumption DEF IInv, TypeOK
<1>2. arg \in 1 .. Len(command) /\ Len(command) \in Nat
  BY <1>1
<1>3. QED
  BY <1>1, <1>2, ElementOfSeq DEF Argument

LEMMA LineIs ==
    ASSUME IInv, pc = "lines", line <= Len(conf)
    PROVE  Line \in Lines /\ line + 1 \in 1 .. Len(conf) + 1
<1>1. conf \in Seq(Lines) /\ line \in 0 .. Len(conf) + 1 /\ line # 0
  BY SetupsAssumption DEF IInv, TypeOK
<1>2. line \in 1 .. Len(conf) /\ Len(conf) \in Nat
  BY <1>1
<1>3. QED
  BY <1>1, <1>2, ElementOfSeq DEF Line

\* A step that goes on with the arguments or lines, to a configuration that is
\* one, keeps the invariant.
LEMMA Kept ==
    ASSUME IInv, UNCHANGED <<command, conf>>,
           pc' \in {"args", "lines", "help"},
           arg' \in 1 .. Len(command) + 1, line' \in 0 .. Len(conf) + 1,
           pc' = "lines" => line' # 0,
           state' \in {"PA_NONE", "PA_FILE"}, set' \subseteq {"homedir", "port", "host"},
           cfg' \in Config, hc' \in 0 .. Len(cfg'.hostconfigs),
           UniqueHosts(cfg'.hostconfigs)
    PROVE  IInv'
BY DEF IInv, TypeOK, Config, OneConfigPerHost, UniqueHosts, CgidirIsDirectory

\* An argument leaves the file, and the lines that were read, alone.
LEMMA ArgStep ==
    ASSUME IInv, NEW opts, NEW in, NextArg(opts, in),
           pc' = pc \/ pc' = "help" \/ (pc' = "lines" /\ line' = 1),
           line' = line \/ line' = 1,
           state' \in {"PA_NONE", "PA_FILE"}, set' \subseteq {"homedir", "port", "host"},
           cfg' \in Config, Len(cfg'.hostconfigs) >= Len(cfg.hostconfigs),
           UniqueHosts(cfg'.hostconfigs)
    PROVE  IInv'
<1>1. pc = "args" /\ arg <= Len(command) /\ arg' = arg + 1
  BY DEF NextArg
<1>2. arg' \in 1 .. Len(command) + 1
  BY <1>1, ArgumentIs
<1>3. UNCHANGED <<command, conf, hc>>
  BY DEF NextArg
<1>4. hc' \in 0 .. Len(cfg'.hostconfigs)
  <2>1. hc \in 0 .. Len(cfg.hostconfigs) /\ cfg.hostconfigs \in Seq(HostConfig)
    BY DEF IInv, TypeOK
  <2>2. cfg'.hostconfigs \in Seq(HostConfig)
    BY DEF Config
  <2>3. QED
    BY <1>3, <2>1, <2>2
<1>5. line' \in 0 .. Len(conf) + 1
  <2>1. conf \in Seq(Lines) /\ line \in 0 .. Len(conf) + 1
    BY SetupsAssumption DEF IInv, TypeOK
  <2>2. QED
    BY <2>1
<1>6. QED
  BY <1>1, <1>2, <1>3, <1>4, <1>5, Kept

\* A line leaves the arguments alone.
LEMMA LineStep ==
    ASSUME IInv, NEW keys, NextLine(keys),
           cfg' \in Config, hc' \in 0 .. Len(cfg'.hostconfigs),
           UniqueHosts(cfg'.hostconfigs)
    PROVE  IInv'
<1>1. /\ pc = "lines" /\ line <= Len(conf) /\ line' = line + 1
      /\ UNCHANGED <<command, conf, pc, arg, state, set>>
  BY DEF NextLine
<1>2. line' \in 1 .. Len(conf) + 1
  BY <1>1, LineIs
<1>3. conf \in Seq(Lines)
  BY SetupsAssumption DEF IInv, TypeOK
<1>4. line' \in 0 .. Len(conf) + 1 /\ line' # 0
  BY <1>2, <1>3
<1>5. /\ arg \in 1 .. Len(command) + 1 /\ state \in {"PA_NONE", "PA_FILE"}
      /\ set \subseteq {"homedir", "port", "host"}
  BY DEF IInv, TypeOK
<1>6. QED
  BY <1>1, <1>4, <1>5, Kept

\* What IInv says of the configuration.
LEMMA ConfigIs ==
    ASSUME IInv
    PROVE  /\ cfg \in Config /\ UniqueHosts(cfg.hostconfigs)
           /\ cfg.hostconfigs \in Seq(HostConfig)
           /\ Len(cfg.hostconfigs) \in Nat /\ hc \in 0 .. Len(cfg.hostconfigs)
           /\ pc \in {"args", "lines", "ready", "help"}
           /\ line \in 0 .. Len(conf) + 1
           /\ state \in {"PA_NONE", "PA_FILE"}
           /\ set \subseteq {"homedir", "port", "host"}
<1>1. cfg \in Config /\ cfg.hostconfigs \in Seq(HostConfig)
  BY DEF IInv, TypeOK, Config
<1>2. UniqueHosts(cfg.hostconfigs)
  BY DEF IInv, OneConfigPerHost, UniqueHosts
<1>3. QED
  BY <1>1, <1>2 DEF IInv, TypeOK

\* The arguments.
LEMMA ArgsStep ==
    ASSUME IInv,
           \/ AwaitFile \/ Help \/ CgidirArg \/ FileArg
           \/ HomedirArg \/ PortArg \/ HostArg \/ ExtraArg
    PROVE  IInv'
<1>1. CASE AwaitFile
  BY <1>1, ConfigIs, ArgStep DEF AwaitFile
<1>2. CASE Help
  BY <1>2, ConfigIs, ArgStep DEF Help
<1>3. CASE CgidirArg
  <2>1. Argument.value \in Text
    BY <1>3, ArgumentIs DEF CgidirArg, NextArg, Arguments
  <2>2. "cgidir" \in HostKeys
    BY DEF HostKeys
  <2>3. /\ cfg' \in Config /\ Len(cfg'.hostconfigs) >= Len(cfg.hostconfigs)
        /\ UniqueHosts(cfg'.hostconfigs)
    BY <1>3, <2>1, <2>2, ConfigIs, SetAnyHostIs DEF CgidirArg
  <2>4. QED
    BY <1>3, <2>3, ConfigIs, ArgStep DEF CgidirArg
<1>4. CASE FileArg
  BY <1>4, ConfigIs, ArgStep DEF FileArg
<1>5. CASE HomedirArg
  <2> DEFINE c   == SetAnyHost(cfg, "homedir", Argument.value)
             any == c.hostconfigs[get_hostconfig(c.hostconfigs, AnyHost)]
             d   == SetAnyHost(c, "cgidir", <<"/", "cgi-bin", "/">>)
  <2>1. Argument.value \in Text
    BY <1>5, ArgumentIs DEF HomedirArg, NextArg, Arguments
  <2>2. "homedir" \in HostKeys /\ "cgidir" \in HostKeys
    BY DEF HostKeys
  <2>3. /\ c \in Config /\ Len(c.hostconfigs) >= Len(cfg.hostconfigs)
        /\ UniqueHosts(c.hostconfigs)
    BY <2>1, <2>2, ConfigIs, SetAnyHostIs
  <2>4. cfg' = IF any.cgidir = Empty THEN d ELSE c
    BY <1>5 DEF HomedirArg
  <2> HIDE DEF c, any
  <2>5. /\ d \in Config /\ Len(d.hostconfigs) >= Len(c.hostconfigs)
        /\ UniqueHosts(d.hostconfigs)
    BY <2>2, <2>3, TextsAre, SetAnyHostIs
  <2>6. /\ Len(c.hostconfigs) \in Nat /\ Len(d.hostconfigs) \in Nat
        /\ Len(cfg.hostconfigs) \in Nat
    BY <2>3, <2>5, ConfigIs DEF Config
  <2> HIDE DEF d
  <2>7. /\ cfg' \in Config /\ Len(cfg'.hostconfigs) >= Len(cfg.hostconfigs)
        /\ UniqueHosts(cfg'.hostconfigs)
    BY <2>3, <2>4, <2>5, <2>6
  <2>8. set' \subseteq {"homedir", "port", "host"}
    BY <1>5, ConfigIs DEF HomedirArg
  <2>9. NextArg({"text"}, "PA_NONE") /\ UNCHANGED <<pc, line, state>>
    BY <1>5 DEF HomedirArg
  <2>10. QED
    BY <2>7, <2>8, <2>9, ConfigIs, ArgStep
<1>6. CASE PortArg
  <2>1. Argument.value \in Text
    BY <1>6, ArgumentIs DEF PortArg, NextArg, Arguments
  <2>2. cfg' \in Config /\ cfg'.hostconfigs = cfg.hostconfigs
    BY <1>6, <2>1, ConfigIs DEF PortArg, Config
  <2>3. set' \subseteq {"homedir", "port", "host"}
    BY <1>6, ConfigIs DEF PortArg
  <2>4. QED
    BY <1>6, <2>2, <2>3, ConfigIs, ArgStep DEF PortArg
<1>7. CASE HostArg
  <2>1. Argument.value \in Text
    BY <1>7, ArgumentIs DEF HostArg, NextArg, Arguments
  <2>2. cfg' \in Config /\ cfg'.hostconfigs = cfg.hostconfigs
    BY <1>7, <2>1, ConfigIs DEF HostArg, Config
  <2>3. set' \subseteq {"homedir", "port", "host"}
    BY <1>7, ConfigIs DEF HostArg
  <2>4. QED
    BY <1>7, <2>2, <2>3, ConfigIs, ArgStep DEF HostArg
<1>8. CASE ExtraArg
  BY <1>8, ConfigIs, ArgStep DEF ExtraArg
<1>9. QED
  BY <1>1, <1>2, <1>3, <1>4, <1>5, <1>6, <1>7, <1>8

\* The lines of the file.
LEMMA LinesStep ==
    ASSUME IInv,
           HostnameLine \/ RootLine \/ HostLine \/ AliasLine \/ SkippedLine
    PROVE  IInv'
<1>1. \A keys : NextLine(keys) =>
         /\ Line.value \in Text /\ Line.to \in Text
         /\ Line.key \in keys
  BY LineIs DEF NextLine, Lines
<1>2. CASE HostnameLine
  <2> DEFINE new == lk_config_create_get_hostconfig(cfg.hostconfigs, Line.value)
  <2>1. NextLine({"hostname"})
    BY <1>2 DEF HostnameLine
  <2>2. lk_hostconfig_new(Line.value) \in HostConfig
    BY <1>1, <2>1, NewHost
  <2>3. /\ new \in Seq(HostConfig) /\ UniqueHosts(new)
        /\ get_hostconfig(new, Line.value) \in 1 .. Len(new)
    BY <2>2, ConfigIs, CreateGetKeepsUnique
  <2>4. cfg' = [cfg EXCEPT !.hostconfigs = new]
    BY <1>2 DEF HostnameLine
  <2>5. hc' = get_hostconfig(cfg'.hostconfigs, Line.value)
    BY <1>2 DEF HostnameLine
  <2> HIDE DEF new
  <2>6. cfg' \in Config /\ cfg'.hostconfigs = new
    BY <2>3, <2>4, ConfigIs DEF Config
  <2>7. hc' \in 0 .. Len(cfg'.hostconfigs)
    BY <2>3, <2>5, <2>6
  <2>8. QED
    BY <2>1, <2>3, <2>6, <2>7, LineStep
<1>3. CASE RootLine
  <2>1. NextLine({"serverhost", "port"}) /\ hc' = hc
    BY <1>3 DEF RootLine
  <2>2. cfg' = [cfg EXCEPT ![Line.key] = Line.value]
    BY <1>3 DEF RootLine
  <2>3. Line.key \in {"serverhost", "port"} /\ Line.value \in Text
    BY <1>1, <2>1
  <2>4. cfg' \in Config /\ cfg'.hostconfigs = cfg.hostconfigs
    <3>1. CASE Line.key = "serverhost"
      BY <2>2, <2>3, <3>1, ConfigIs DEF Config
    <3>2. CASE Line.key = "port"
      BY <2>2, <2>3, <3>2, ConfigIs DEF Config
    <3>3. QED
      BY <2>3, <3>1, <3>2
  <2>5. QED
    BY <2>1, <2>4, ConfigIs, LineStep
<1>4. CASE HostLine
  <2> DEFINE h == [cfg.hostconfigs[hc] EXCEPT ![Line.key] = Line.value]
             new == [cfg.hostconfigs EXCEPT ![hc] = h]
  <2>1. NextLine(HostKeys) /\ hc' = hc /\ hc # 0
    BY <1>4 DEF HostLine
  <2>2. Line.key \in HostKeys /\ Line.value \in Text
    BY <1>1, <2>1
  <2>3. hc \in 1 .. Len(cfg.hostconfigs)
    BY <2>1, ConfigIs
  <2>4. cfg.hostconfigs[hc] \in HostConfig
    BY <2>3, ConfigIs, ElementOfSeq
  <2>5. h \in HostConfig /\ h.hostname = cfg.hostconfigs[hc].hostname
    BY <2>2, <2>4, HostSet
  <2>6. cfg' = [cfg EXCEPT !.hostconfigs = new]
    BY <1>4 DEF HostLine
  <2> HIDE DEF h
  <2>7. /\ new \in Seq(HostConfig) /\ Len(new) = Len(cfg.hostconfigs)
        /\ UniqueHosts(new)
    BY <2>3, <2>5, ConfigIs, ReplaceHost
  <2> HIDE DEF new
  <2>8. cfg' \in Config /\ cfg'.hostconfigs = new
    BY <2>6, <2>7, ConfigIs DEF Config
  <2>9. QED
    BY <2>1, <2>7, <2>8, ConfigIs, LineStep
<1>5. CASE AliasLine
  <2> DEFINE old == cfg.hostconfigs[hc]
             st  == lk_stringtable_set(old.aliases, LeadingSlash(Line.value),
                                       LeadingSlash(Line.to))
             h   == [old EXCEPT !.aliases = st]
             new == [cfg.hostconfigs EXCEPT ![hc] = h]
  <2>1. NextLine({"alias"}) /\ hc' = hc /\ hc # 0
    BY <1>5 DEF AliasLine
  <2>2. LeadingSlash(Line.value) \in Text /\ LeadingSlash(Line.to) \in Text
    BY <1>1, <2>1, SlashesAre
  <2>3. hc \in 1 .. Len(cfg.hostconfigs)
    BY <2>1, ConfigIs
  <2>4. old \in HostConfig
    BY <2>3, ConfigIs, ElementOfSeq
  <2>5. old.aliases \in Seq([k : Text, v : Text])
    BY <2>4 DEF HostConfig
  <2>6. st \in Seq([k : Text, v : Text])
    BY <2>2, <2>5, SetKeepsUnique
  <2>7. cfg' = [cfg EXCEPT !.hostconfigs = new]
    BY <1>5 DEF AliasLine
  <2> HIDE DEF st
  <2>8. h \in HostConfig /\ h.hostname = old.hostname
    BY <2>4, <2>6 DEF HostConfig
  <2> HIDE DEF h
  <2>9. /\ new \in Seq(HostConfig) /\ Len(new) = Len(cfg.hostconfigs)
        /\ UniqueHosts(new)
    BY <2>3, <2>8, ConfigIs, ReplaceHost
  <2> HIDE DEF new
  <2>10. cfg' \in Config /\ cfg'.hostconfigs = new
    BY <2>7, <2>9, ConfigIs DEF Config
  <2>11. QED
    BY <2>1, <2>9, <2>10, ConfigIs, LineStep
<1>6. CASE SkippedLine
  <2>1. \E keys : NextLine(keys)
    BY <1>6 DEF SkippedLine
  <2>2. UNCHANGED <<hc, cfg>>
    BY <1>6 DEF SkippedLine
  <2>3. QED
    BY <2>1, <2>2, ConfigIs, LineStep
<1>7. QED
  BY <1>2, <1>3, <1>4, <1>5, <1>6

LEMMA FileEndsStep ==
    ASSUME IInv, FileEnds
    PROVE  IInv'
<1>1. /\ pc' = "args" /\ hc' = 0
      /\ UNCHANGED <<command, conf, arg, line, state, set, cfg>>
  BY DEF FileEnds
<1>2. arg \in 1 .. Len(command) + 1
  BY DEF IInv, TypeOK
<1>3. hc' \in 0 .. Len(cfg'.hostconfigs)
  BY <1>1, ConfigIs
<1>4. QED
  BY <1>1, <1>2, <1>3, ConfigIs, Kept

\* What realpath() says is a text, and so is what Absolute makes of a host; a
\* directory for programs has its slashes, and the name is the same.
LEMMA AbsoluteIs ==
    ASSUME NEW h \in HostConfig
    PROVE  /\ Absolute(h) \in HostConfig
           /\ Absolute(h).hostname = h.hostname
           /\ Absolute(h).homedir # Empty /\ Absolute(h).cgidir # Empty =>
                 /\ starts_with(Absolute(h).cgidir, Slash)
                 /\ ends_with(Absolute(h).cgidir, Slash)
<1> DEFINE abs == realpath(h.homedir)
           dir == Slashes(h.cgidir)
<1>1. abs \in Text
  BY RealPathAssumption, TextsAre DEF realpath
<1>2. h.cgidir \in Text
  BY DEF HostConfig
<1>3. /\ dir \in Text /\ abs \o dir \in Text
      /\ starts_with(dir, Slash) /\ ends_with(dir, Slash)
  BY <1>1, <1>2, SlashesAre, TextsAre
<1>4. Absolute(h) =
         IF h.homedir = Empty THEN h
         ELSE IF h.cgidir = Empty THEN [h EXCEPT !.homedir_abspath = abs]
         ELSE [h EXCEPT !.homedir_abspath = abs, !.cgidir = dir,
                        !.cgidir_abspath = abs \o dir]
  BY <1>2 DEF Absolute, HostConfig
<1> DEFINE joined == abs \o dir
<1> HIDE DEF abs, dir, joined
<1>5. joined \in Text
  BY <1>3 DEF joined
<1>6. CASE h.homedir = Empty
  BY <1>4, <1>6
<1>7. CASE h.homedir # Empty /\ h.cgidir = Empty
  <2>1. Absolute(h) = [h EXCEPT !.homedir_abspath = abs]
    BY <1>4, <1>7
  <2>2. QED
    BY <1>1, <1>7, <2>1 DEF HostConfig
<1>8. CASE h.homedir # Empty /\ h.cgidir # Empty
  <2>1. Absolute(h) = [h EXCEPT !.homedir_abspath = abs, !.cgidir = dir,
                                !.cgidir_abspath = joined]
    BY <1>4, <1>8 DEF joined
  <2>2. /\ Absolute(h) \in HostConfig /\ Absolute(h).hostname = h.hostname
        /\ Absolute(h).cgidir = dir
    BY <1>1, <1>3, <1>5, <2>1 DEF HostConfig
  <2>3. QED
    BY <1>3, <2>2
<1>9. QED
  BY <1>6, <1>7, <1>8

\* The configuration the server starts with: what there is, or the default.
LEMMA DefaultHostsAre ==
    ASSUME IInv
    PROVE  LET hcs == DefaultHosts(cfg).hostconfigs IN
           /\ hcs \in Seq(HostConfig) /\ UniqueHosts(hcs)
           /\ Len(hcs) >= Len(cfg.hostconfigs)
<1> DEFINE c == SetAnyHost(cfg, "homedir", CurrentDir)
           d == SetAnyHost(c, "cgidir", <<"/", "cgi-bin", "/">>)
<1>1. "homedir" \in HostKeys /\ "cgidir" \in HostKeys
  BY DEF HostKeys
<1>2. /\ c \in Config /\ UniqueHosts(c.hostconfigs)
      /\ Len(c.hostconfigs) >= Len(cfg.hostconfigs)
  BY <1>1, ConfigFileAssumption, ConfigIs, SetAnyHostIs
<1> HIDE DEF c
<1>3. /\ d \in Config /\ UniqueHosts(d.hostconfigs)
      /\ Len(d.hostconfigs) >= Len(c.hostconfigs)
  BY <1>1, <1>2, TextsAre, SetAnyHostIs
<1>4. /\ Len(c.hostconfigs) \in Nat /\ d.hostconfigs \in Seq(HostConfig)
      /\ Len(d.hostconfigs) \in Nat
  BY <1>2, <1>3 DEF Config
<1>5. DefaultHosts(cfg) = IF cfg.hostconfigs # << >> THEN cfg ELSE d
  BY DEF DefaultHosts, c
<1> HIDE DEF d
<1>6. QED
  BY <1>2, <1>3, <1>4, <1>5, ConfigIs

LEMMA FinalizeStep ==
    ASSUME IInv, lk_config_finalize
    PROVE  IInv'
<1> DEFINE hcs == DefaultHosts(cfg).hostconfigs
           new == [k \in DOMAIN hcs |-> Absolute(hcs[k])]
<1>1. /\ pc' = "ready"
      /\ UNCHANGED <<command, conf, arg, line, state, set, hc>>
  BY DEF lk_config_finalize
<1>2. cfg' = [serverhost  |-> Default(cfg.serverhost, <<"localhost">>),
              port        |-> Default(cfg.port, <<"8000">>),
              hostconfigs |-> new]
  BY DEF lk_config_finalize
<1>3. /\ hcs \in Seq(HostConfig) /\ UniqueHosts(hcs)
      /\ Len(hcs) >= Len(cfg.hostconfigs)
  BY DefaultHostsAre
<1> HIDE DEF hcs
<1>4. DOMAIN hcs = 1 .. Len(hcs) /\ Len(hcs) \in Nat
  BY <1>3
<1>5. \A k \in 1 .. Len(hcs) :
         /\ hcs[k] \in HostConfig
         /\ new[k] = Absolute(hcs[k])
  BY <1>3, <1>4, ElementOfSeq
<1>6. \A k \in 1 .. Len(hcs) :
         /\ new[k] \in HostConfig /\ new[k].hostname = hcs[k].hostname
         /\ new[k].homedir # Empty /\ new[k].cgidir # Empty =>
               starts_with(new[k].cgidir, Slash) /\ ends_with(new[k].cgidir, Slash)
  BY <1>5, AbsoluteIs
<1>7. new = [k \in 1 .. Len(hcs) |-> new[k]] /\ DOMAIN new = 1 .. Len(hcs)
  BY <1>4
<1> HIDE DEF new
<1>8. new \in Seq(HostConfig) /\ Len(new) = Len(hcs)
  BY <1>4, <1>6, <1>7
<1>9. UniqueHosts(new)
  BY <1>3, <1>4, <1>6, <1>7 DEF UniqueHosts
<1>10. cfg' \in Config /\ cfg'.hostconfigs = new
  <2>1. cfg.serverhost \in Text /\ cfg.port \in Text
    BY ConfigIs DEF Config
  <2>2. /\ Default(cfg.serverhost, <<"localhost">>) \in Text
        /\ Default(cfg.port, <<"8000">>) \in Text
    BY <2>1, TextsAre DEF Default
  <2>3. QED
    BY <1>2, <1>8, <2>2 DEF Config
<1>11. hc' \in 0 .. Len(cfg'.hostconfigs)
  BY <1>1, <1>3, <1>4, <1>8, <1>10, ConfigIs
<1>12. TypeOK'
  BY <1>1, <1>10, <1>11 DEF IInv, TypeOK, Config
<1>13. OneConfigPerHost'
  BY <1>9, <1>10 DEF OneConfigPerHost, UniqueHosts
<1>14. CgidirIsDirectory'
  BY <1>6, <1>7, <1>10 DEF CgidirIsDirectory
<1>15. QED
  BY <1>1, <1>12, <1>13, <1>14 DEF IInv

LEMMA InitIInv ==
    ASSUME Init
    PROVE  IInv
<1>1. PICK s \in Setups : command = s[1] /\ conf = s[2]
  BY DEF Init
<1>2. <<command, conf>> \in Setups /\ command \in Seq(Arguments) /\ conf \in Seq(Lines)
  BY <1>1, SetupsAssumption
<1>3. Len(command) \in Nat /\ Len(conf) \in Nat
  BY <1>2
<1>4. /\ cfg = [serverhost |-> Empty, port |-> Empty, hostconfigs |-> << >>]
      /\ pc = "args" /\ arg = 1 /\ line = 0
      /\ state = "PA_NONE" /\ set = {} /\ hc = 0
  BY DEF Init
<1>5. << >> \in Seq(HostConfig) /\ Len(<< >>) = 0 /\ DOMAIN << >> = {}
  OBVIOUS
<1>6. cfg \in Config /\ cfg.hostconfigs = << >>
  BY <1>4, <1>5, TextsAre DEF Config
<1>7. TypeOK
  BY <1>2, <1>3, <1>4, <1>5, <1>6 DEF TypeOK, Config
<1>8. QED
  BY <1>4, <1>5, <1>6, <1>7 DEF IInv, OneConfigPerHost, CgidirIsDirectory

LEMMA NextIInv ==
    ASSUME IInv, [Next]_vars
    PROVE  IInv'
<1>1. CASE \/ AwaitFile \/ Help \/ CgidirArg \/ FileArg
           \/ HomedirArg \/ PortArg \/ HostArg \/ ExtraArg
  BY <1>1, ArgsStep
<1>2. CASE HostnameLine \/ RootLine \/ HostLine \/ AliasLine \/ SkippedLine
  BY <1>2, LinesStep
<1>3. CASE FileEnds
  BY <1>3, FileEndsStep
<1>4. CASE lk_config_finalize
  BY <1>4, FinalizeStep
<1>5. CASE UNCHANGED vars
  BY <1>5 DEF vars, IInv, TypeOK, OneConfigPerHost, CgidirIsDirectory
<1>6. QED
  BY <1>1, <1>2, <1>3, <1>4, <1>5 DEF Next

-----------------------------------------------------------------------------
\* The invariant holds however the server is started.
THEOREM Invariant == Spec => []IInv
BY InitIInv, NextIInv, PTL DEF Spec

\* Arguments, lines and the configuration have their types all the way: a
\* current host is one of the list, and indices stay in range.
THEOREM TypeCorrect == Spec => []TypeOK
<1>1. IInv => TypeOK
  BY DEF IInv
<1>2. QED
  BY <1>1, Invariant, PTL

\* However a host is mentioned, by arguments and in sections, in whatever
\* order, it has one configuration, which lk_config_find_hostconfig finds.
THEOREM OneConfig == Spec => []OneConfigPerHost
<1>1. IInv => OneConfigPerHost
  BY DEF IInv
<1>2. QED
  BY <1>1, Invariant, PTL

\* Whatever wrote a cgidir, the server starts with one that begins and ends
\* with a slash.
THEOREM CgidirIsOne == Spec => []CgidirIsDirectory
<1>1. IInv => CgidirIsDirectory
  BY DEF IInv
<1>2. QED
  BY <1>1, Invariant, PTL

-----------------------------------------------------------------------------
(***************************************************************************)
(* What the file says.  Until line n has been read, each setting is that of *)
(* the last line for it up to n; before there is one it is as it was, which *)
(* is none, or what an earlier reading of the same file left.               *)
(***************************************************************************)
Froms == {LeadingSlash(conf[j].value) : j \in DOMAIN conf}
Values == [j \in DOMAIN conf |-> conf[j].value]
Targets == [j \in DOMAIN conf |-> LeadingSlash(conf[j].to)]

LastIn(L, none, f) == IF L = {} THEN none ELSE f[Latest(L)]

Matches(v, none, L, f, n) ==
    LET S == {j \in L : j <= n} IN
    IF S = {} THEN v \in {none, LastIn(L, none, f)} ELSE v = f[Latest(S)]

\* A host configuration after n lines.
Conforms(c, n) ==
    /\ \A key \in HostKeys :
          Matches(c[key], Empty, LinesOf(c.hostname, key), Values, n)
    /\ \A from \in Froms :
          Matches(lk_stringtable_get(c.aliases, from), NULL,
                  AliasesOf(c.hostname, from), Targets, n)

\* No argument sets anything of this host.
Fixed(h) == Len(command) = 2 \/ h # AnyHost

\* The configuration after n lines.
Sections(c, n) ==
    /\ \A j \in 1 .. n : conf[j].key = "hostname" =>
          \E k \in DOMAIN c.hostconfigs : c.hostconfigs[k].hostname = conf[j].value
    /\ \A k \in DOMAIN c.hostconfigs :
          Fixed(c.hostconfigs[k].hostname) => Conforms(c.hostconfigs[k], n)
    /\ Len(command) = 2 => \A f \in {"serverhost", "port"} :
          Matches(c[f], Empty, LinesOf(NULL, f), Values, n)

Blank == cfg = [serverhost |-> Empty, port |-> Empty, hostconfigs |-> << >>]

\* hc is the host of the section.
Current ==
    IF hc = 0 THEN Section(line - 1) = NULL
    ELSE cfg.hostconfigs[hc].hostname = Section(line - 1)

LinesRead == IF pc = "lines" THEN line - 1 ELSE Len(conf)

\* The invariant until the server is ready.  With two arguments the file is
\* read first and once, if at all.
ReadInv ==
    pc # "ready" =>
       /\ line = 0 =>
             \A k \in DOMAIN cfg.hostconfigs : cfg.hostconfigs[k].hostname = AnyHost
       /\ arg = 1 => line = 0 /\ state = "PA_NONE" /\ Blank
       /\ arg = 2 => line = 0 /\ (state = "PA_FILE" => Blank)
       /\ Len(command) = 2 /\ line > 0 => arg = 3
       /\ line > 0 => Sections(cfg, LinesRead)
       /\ IF pc = "lines" THEN Current ELSE hc = 0

SectionInv == IInv /\ ReadInv /\ SectionsAsWritten /\ RootAsWritten

-----------------------------------------------------------------------------
LEMMA LatestIs ==
    ASSUME NEW S, S \subseteq Nat, NEW m \in S, \A i \in S : i <= m
    PROVE  Latest(S) = m
<1> DEFINE c == Latest(S)
<1>1. c \in S /\ \A i \in S : i <= c
  BY DEF Latest
<1> HIDE DEF c
<1>2. c \in Nat /\ m \in Nat /\ c <= m /\ m <= c
  BY <1>1
<1>3. c = m
  BY <1>2
<1>4. QED
  BY <1>3 DEF c

\* One more line, for the setting or not.
LEMMA MatchesPassed ==
    ASSUME NEW L, L \subseteq Nat, NEW n \in Nat, n + 1 \notin L,
           NEW v, NEW none, NEW f, Matches(v, none, L, f, n)
    PROVE  Matches(v, none, L, f, n + 1)
<1>1. {j \in L : j <= n} = {j \in L : j <= n + 1}
  <2>1. \A j \in L : j <= n + 1 <=> j <= n
    OBVIOUS
  <2>2. QED
    BY <2>1
<1>2. QED
  BY <1>1 DEF Matches

LEMMA MatchesSet ==
    ASSUME NEW L, L \subseteq Nat, NEW n \in Nat, n + 1 \in L, NEW none, NEW f
    PROVE  Matches(f[n + 1], none, L, f, n + 1)
<1> DEFINE S == {j \in L : j <= n + 1}
<1>1. n + 1 \in S /\ S \subseteq Nat /\ \A i \in S : i <= n + 1
  <2>1. n + 1 <= n + 1
    OBVIOUS
  <2>2. QED
    BY <2>1
<1>2. Latest(S) = n + 1
  <2> HIDE DEF S
  <2>1. QED
    BY <1>1, LatestIs
<1>3. S # {}
  BY <1>1
<1>4. QED
  BY <1>2, <1>3 DEF Matches

LEMMA MatchesAll ==
    ASSUME NEW L, NEW n \in Nat, L \subseteq 1 .. n,
           NEW v, NEW none, NEW f, Matches(v, none, L, f, n)
    PROVE  v = LastIn(L, none, f) /\ Matches(v, none, L, f, 0)
<1>1. {j \in L : j <= n} = L /\ {j \in L : j <= 0} = {}
  <2>1. \A j \in L : j <= n /\ ~(j <= 0)
    OBVIOUS
  <2>2. QED
    BY <2>1
<1>2. v = LastIn(L, none, f)
  BY <1>1 DEF Matches, LastIn
<1>3. QED
  BY <1>1, <1>2 DEF Matches

LEMMA MatchesStart ==
    ASSUME NEW L, L \subseteq Nat, NEW n \in Nat, \A j \in L : j > n,
           NEW none, NEW f
    PROVE  Matches(none, none, L, f, n)
<1>1. {j \in L : j <= n} = {}
  <2>1. \A j \in L : ~(j <= n)
    OBVIOUS
  <2>2. QED
    BY <2>1
<1>2. QED
  BY <1>1 DEF Matches

\* The section of a line, and of the next.
LEMMA SectionNext ==
    ASSUME conf \in Seq(Lines), NEW n \in Nat, n + 1 \in 1 .. Len(conf)
    PROVE  Section(n + 1) = IF conf[n + 1].key = "hostname" THEN conf[n + 1].value
                                                            ELSE Section(n)
<1> DEFINE begun(m) == {i \in 1 .. m : conf[i].key = "hostname"}
<1>1. \A m : Section(m) = IF begun(m) = {} THEN NULL ELSE conf[Latest(begun(m))].value
  BY DEF Section
<1>2. CASE conf[n + 1].key = "hostname"
  <2>1. /\ n + 1 \in begun(n + 1) /\ begun(n + 1) \subseteq Nat
        /\ \A i \in begun(n + 1) : i <= n + 1
    BY <1>2
  <2> HIDE DEF begun
  <2>2. Latest(begun(n + 1)) = n + 1
    BY <2>1, LatestIs
  <2>3. QED
    BY <1>1, <1>2, <2>1, <2>2
<1>3. CASE conf[n + 1].key # "hostname"
  <2>1. \A i : i \in begun(n + 1) <=> i \in begun(n)
    BY <1>3
  <2>2. begun(n + 1) = begun(n)
    BY <2>1
  <2> HIDE DEF begun
  <2>3. QED
    BY <1>1, <1>3, <2>2
<1>4. QED
  BY <1>2, <1>3

\* A section of h began with a line that names h.
LEMMA SectionBegan ==
    ASSUME conf \in Seq(Lines), NEW n \in 0 .. Len(conf)
    PROVE  \/ Section(n) = NULL
           \/ \E i \in 1 .. n : conf[i].key = "hostname" /\ conf[i].value = Section(n)
<1> DEFINE B == {i \in 1 .. n : conf[i].key = "hostname"}
<1>1. Section(n) = IF B = {} THEN NULL ELSE conf[Latest(B)].value
  BY DEF Section
<1>2. CASE B # {}
  <2>1. B \subseteq Nat /\ n \in Nat /\ \A i \in B : i <= n
    OBVIOUS
  <2> HIDE DEF B
  <2>2. PICK m \in B : \A i \in B : i <= m
    BY <1>2, <2>1, GreatestOf
  <2>3. Latest(B) = m
    BY <2>1, <2>2, LatestIs
  <2>4. QED
    BY <1>1, <1>2, <2>2, <2>3 DEF B
<1>3. QED
  BY <1>1, <1>2

\* Lines are numbers.
LEMMA LinesAre ==
    ASSUME conf \in Seq(Lines), NEW h, NEW key
    PROVE  LinesOf(h, key) \subseteq 1 .. Len(conf) /\ LinesOf(h, key) \subseteq Nat
<1>1. DOMAIN conf = 1 .. Len(conf) /\ Len(conf) \in Nat
  OBVIOUS
<1>2. QED
  BY <1>1 DEF LinesOf

LEMMA AliasesAre ==
    ASSUME conf \in Seq(Lines), NEW h, NEW from
    PROVE  /\ AliasesOf(h, from) \subseteq 1 .. Len(conf)
           /\ AliasesOf(h, from) \subseteq Nat
           /\ AliasesOf(h, from) \subseteq LinesOf(h, "alias")
BY LinesAre DEF AliasesOf

LEMMA LineOfIs ==
    ASSUME conf \in Seq(Lines), NEW n \in 1 .. Len(conf), NEW h, NEW key
    PROVE  n \in LinesOf(h, key) <=> conf[n].key = key /\ Section(n) = h
<1>1. n \in DOMAIN conf
  OBVIOUS
<1>2. QED
  BY <1>1 DEF LinesOf

-----------------------------------------------------------------------------
(***************************************************************************)
(* One line.                                                                *)
(***************************************************************************)
\* No host has the name NULL.
LEMMA NullIsNoText == NULL \notin Text
<1>1. SUFFICES ASSUME NULL \in Text PROVE FALSE
  OBVIOUS
<1>2. NULL \in Seq(Pieces)
  BY <1>1 DEF Text
<1>3. Len(NULL) = 1 /\ NULL[1] = "(null)"
  BY DEF NULL
<1>4. NULL[1] \in Pieces
  BY <1>2, <1>3
<1>5. QED
  BY <1>3, <1>4, PiecesAssumption

LEMMA SameLines ==
    ASSUME UNCHANGED conf, NEW h, NEW key, NEW from
    PROVE  /\ LinesOf(h, key)' = LinesOf(h, key)
           /\ AliasesOf(h, from)' = AliasesOf(h, from)
<1>1. \A j : Section(j)' = Section(j)
  BY DEF Section
<1>2. \A k : LinesOf(h, k)' = LinesOf(h, k)
  BY <1>1 DEF LinesOf
<1>3. AliasesOf(h, from)' = AliasesOf(h, from)
  BY <1>2 DEF AliasesOf
<1>4. QED
  BY <1>2, <1>3

LEMMA SameSections ==
    ASSUME UNCHANGED <<command, conf>>, NEW c, NEW n, Sections(c, n)
    PROVE  Sections(c, n)'
<1>1. Values' = Values /\ Targets' = Targets /\ Froms' = Froms
  BY DEF Values, Targets, Froms
<1>2. \A h, key, from : /\ LinesOf(h, key)' = LinesOf(h, key)
                        /\ AliasesOf(h, from)' = AliasesOf(h, from)
  BY SameLines
<1>3. \A h : Conforms(h, n)' <=> Conforms(h, n)
  BY <1>1, <1>2 DEF Conforms
<1>4. QED
  BY <1>1, <1>2, <1>3 DEF Sections, Fixed

LEMMA SectionsGoOn ==
    ASSUME UNCHANGED <<command, conf>>, Sections(cfg', LinesRead')
    PROVE  Sections(cfg, LinesRead)'
BY SameSections

\* What a line finds.
LEMMA LineRead ==
    ASSUME IInv, ReadInv, NEW keys, NextLine(keys)
    PROVE  /\ conf \in Seq(Lines) /\ line \in 1 .. Len(conf)
           /\ line - 1 \in Nat /\ (line - 1) + 1 = line
           /\ Line.value \in Text /\ Line.to \in Text
           /\ Line.key \in keys /\ Line.key = conf[line].key
           /\ Line.value = Values[line] /\ LeadingSlash(Line.to) = Targets[line]
           /\ Sections(cfg, line - 1) /\ Current
           /\ Section(line) = IF Line.key = "hostname" THEN Line.value
                                                       ELSE Section(line - 1)
<1>1. /\ pc = "lines" /\ line <= Len(conf) /\ Line.key \in keys
  BY DEF NextLine
<1>2. conf \in Seq(Lines) /\ line \in 0 .. Len(conf) + 1 /\ line # 0
  BY <1>1, SetupsAssumption DEF IInv, TypeOK
<1>3. line \in 1 .. Len(conf) /\ line - 1 \in Nat /\ (line - 1) + 1 = line
  BY <1>1, <1>2
<1>4. Line \in Lines /\ DOMAIN conf = 1 .. Len(conf)
  BY <1>1, <1>2, LineIs
<1>5. Line.value = Values[line] /\ LeadingSlash(Line.to) = Targets[line]
  BY <1>3, <1>4 DEF Line, Values, Targets
<1>6. Sections(cfg, line - 1) /\ Current
  <2>1. line > 0
    BY <1>3
  <2>2. QED
    BY <1>1, <2>1 DEF ReadInv, LinesRead
<1> DEFINE n == line - 1
<1>7. Section(line) = IF Line.key = "hostname" THEN Line.value ELSE Section(line - 1)
  <2>1. n \in Nat /\ n + 1 \in 1 .. Len(conf) /\ n + 1 = line
    BY <1>3
  <2> HIDE DEF n
  <2>2. Section(n + 1) = IF conf[n + 1].key = "hostname" THEN conf[n + 1].value
                                                         ELSE Section(n)
    BY <1>2, <2>1, SectionNext
  <2>3. QED
    BY <2>1, <2>2 DEF n, Line
<1>8. QED
  BY <1>1, <1>2, <1>3, <1>4, <1>5, <1>6, <1>7 DEF Lines, Line

\* The next line is read with a configuration that has what this one says.
LEMMA LineKeeps ==
    ASSUME IInv, ReadInv, NEW keys, NextLine(keys), Sections(cfg', line),
           IF hc' = 0 THEN Section(line) = NULL
                      ELSE cfg'.hostconfigs[hc'].hostname = Section(line)
    PROVE  ReadInv'
<1>1. /\ pc = "lines" /\ line' = line + 1
      /\ UNCHANGED <<command, conf, pc, arg, state, set>>
  BY DEF NextLine
<1>2. line \in 1 .. Len(conf) /\ conf \in Seq(Lines)
  BY LineRead
<1>3. line > 0 /\ line' > 0 /\ line' # 0 /\ line' - 1 = line
  BY <1>1, <1>2
<1>4. arg # 1 /\ arg # 2 /\ (Len(command) = 2 => arg = 3)
  BY <1>1, <1>3 DEF ReadInv
<1>5. LinesRead' = line
  BY <1>1, <1>3 DEF LinesRead
<1>6. Sections(cfg, LinesRead)'
  BY <1>1, <1>5, SectionsGoOn
<1>7. Current'
  <2>1. \A j : Section(j)' = Section(j)
    BY <1>1 DEF Section
  <2>2. Section(line - 1)' = Section(line)
    BY <1>3, <2>1
  <2>3. QED
    BY <2>2 DEF Current
<1>8. QED
  BY <1>1, <1>3, <1>4, <1>6, <1>7 DEF ReadInv

\* A configuration that the line is not about.
LEMMA ConformsPassed ==
    ASSUME conf \in Seq(Lines), NEW n \in Nat, n + 1 \in 1 .. Len(conf),
           NEW c, Conforms(c, n),
           \A key \in HostKeys \cup {"alias"} : n + 1 \notin LinesOf(c.hostname, key)
    PROVE  Conforms(c, n + 1)
<1>1. ASSUME NEW key \in HostKeys
      PROVE  Matches(c[key], Empty, LinesOf(c.hostname, key), Values, n + 1)
  <2>1. Matches(c[key], Empty, LinesOf(c.hostname, key), Values, n)
    BY DEF Conforms
  <2>2. QED
    BY <2>1, LinesAre, MatchesPassed
<1>2. ASSUME NEW from \in Froms
      PROVE  Matches(lk_stringtable_get(c.aliases, from), NULL,
                     AliasesOf(c.hostname, from), Targets, n + 1)
  <2> DEFINE A == AliasesOf(c.hostname, from)
  <2>1. Matches(lk_stringtable_get(c.aliases, from), NULL, A, Targets, n)
    BY DEF Conforms
  <2>2. n + 1 \notin A /\ A \subseteq Nat
    BY AliasesAre
  <2> HIDE DEF A
  <2>3. Matches(lk_stringtable_get(c.aliases, from), NULL, A, Targets, n + 1)
    BY <2>1, <2>2, MatchesPassed
  <2>4. QED
    BY <2>3 DEF A
<1>3. QED
  BY <1>1, <1>2 DEF Conforms

\* A configuration that the line begins.
LEMMA ConformsNew ==
    ASSUME conf \in Seq(Lines), NEW n \in Nat, n <= Len(conf), NEW h,
           \A j \in 1 .. n : Section(j) # h
    PROVE  Conforms(lk_hostconfig_new(h), n)
<1> DEFINE c == lk_hostconfig_new(h)
<1>1. /\ c.hostname = h /\ c.aliases = << >>
      /\ \A key \in HostKeys : c[key] = Empty
  BY DEF lk_hostconfig_new, HostKeys
<1>2. ASSUME NEW key
      PROVE  /\ LinesOf(h, key) \subseteq Nat
             /\ \A j \in LinesOf(h, key) : j > n
  <2>1. LinesOf(h, key) \subseteq 1 .. Len(conf) /\ LinesOf(h, key) \subseteq Nat
    BY LinesAre
  <2>2. \A j \in LinesOf(h, key) : Section(j) = h
    BY DEF LinesOf
  <2>3. \A j \in LinesOf(h, key) : j \in Nat /\ j >= 1 /\ ~(j \in 1 .. n)
    BY <2>1, <2>2
  <2>4. QED
    BY <2>1, <2>3
<1>3. \A key \in HostKeys : Matches(Empty, Empty, LinesOf(h, key), Values, n)
  BY <1>2, MatchesStart
<1>4. \A from : lk_stringtable_get(<< >>, from) = NULL
  <2>1. Len(<< >>) = 0
    OBVIOUS
  <2>2. \A from : Position(<< >>, from) \in 0 .. 0
    BY <2>1, PositionIs
  <2>3. QED
    BY <2>2 DEF lk_stringtable_get
<1>5. ASSUME NEW from
      PROVE  Matches(NULL, NULL, AliasesOf(h, from), Targets, n)
  <2>1. /\ AliasesOf(h, from) \subseteq Nat
        /\ \A j \in AliasesOf(h, from) : j > n
    BY <1>2, AliasesAre
  <2>2. QED
    BY <2>1, MatchesStart
<1> HIDE DEF c
<1>6. Conforms(c, n)
  BY <1>1, <1>3, <1>4, <1>5 DEF Conforms
<1>7. QED
  BY <1>6 DEF c

\* The settings of the root that the line is not about.
LEMMA RootPassed ==
    ASSUME conf \in Seq(Lines), NEW n \in Nat, n + 1 \in 1 .. Len(conf),
           NEW c, NEW f, n + 1 \notin LinesOf(NULL, f),
           Matches(c, Empty, LinesOf(NULL, f), Values, n)
    PROVE  Matches(c, Empty, LinesOf(NULL, f), Values, n + 1)
BY LinesAre, MatchesPassed

LEMMA ReadHostname ==
    ASSUME IInv, ReadInv, HostnameLine
    PROVE  ReadInv'
<1> DEFINE hcs == cfg.hostconfigs
           v   == Line.value
           new == lk_config_create_get_hostconfig(hcs, v)
           n   == line - 1
<1>1. NextLine({"hostname"})
  BY DEF HostnameLine
<1>2. /\ conf \in Seq(Lines) /\ line \in 1 .. Len(conf) /\ n \in Nat /\ n + 1 = line
      /\ v \in Text /\ Line.key = "hostname" /\ conf[line].key = "hostname"
      /\ conf[line].value = v /\ Sections(cfg, n) /\ Section(line) = v
  BY <1>1, LineRead DEF Line
<1>3. lk_hostconfig_new(v) \in HostConfig /\ lk_hostconfig_new(v).hostname = v
  BY <1>2, NewHost DEF lk_hostconfig_new
<1>4. /\ new \in Seq(HostConfig) /\ Len(new) \in Nat
      /\ get_hostconfig(new, v) \in 1 .. Len(new)
      /\ \A i \in DOMAIN hcs : i \in DOMAIN new /\ new[i] = hcs[i]
      /\ \A i \in DOMAIN new :
            \/ i \in DOMAIN hcs /\ new[i] = hcs[i]
            \/ /\ new[i] = lk_hostconfig_new(v)
               /\ \A j \in DOMAIN hcs : hcs[j].hostname # v
  <2>1. hcs \in Seq(HostConfig)
    BY ConfigIs
  <2> HIDE DEF hcs, v
  <2>2. /\ new \in Seq(HostConfig)
        /\ get_hostconfig(new, v) \in 1 .. Len(new)
        /\ \A i \in DOMAIN hcs : i \in DOMAIN new /\ new[i] = hcs[i]
        /\ \A i \in DOMAIN new :
              \/ i \in DOMAIN hcs /\ new[i] = hcs[i]
              \/ /\ new[i] = lk_hostconfig_new(v)
                 /\ \A j \in DOMAIN hcs : hcs[j].hostname # v
    BY <1>3, <2>1, CreateGetKeepsUnique
  <2>3. QED
    BY <2>2
<1>5. cfg' = [cfg EXCEPT !.hostconfigs = new] /\ hc' = get_hostconfig(cfg'.hostconfigs, v)
  BY DEF HostnameLine
<1>6. /\ cfg'.hostconfigs = new
      /\ cfg'["serverhost"] = cfg["serverhost"] /\ cfg'["port"] = cfg["port"]
  BY <1>5, ConfigIs DEF Config
<1> HIDE DEF v, new
<1>7. hc' \in DOMAIN new /\ hc' # 0 /\ new[hc'].hostname = v
  <2>1. hc' \in 1 .. Len(new) /\ hc' # 0 /\ DOMAIN new = 1 .. Len(new)
    BY <1>4, <1>5, <1>6
  <2>2. new[hc'].hostname = v
    BY <1>4, <1>5, <1>6, <2>1, HostPositionIs
  <2>3. QED
    BY <2>1, <2>2
<1>8. \A h, key : key # "hostname" => line \notin LinesOf(h, key)
  BY <1>2, LineOfIs
<1>9. ASSUME NEW j \in 1 .. line, conf[j].key = "hostname"
      PROVE  \E k \in DOMAIN new : new[k].hostname = conf[j].value
  <2>1. CASE j = line
    BY <1>2, <1>7, <2>1
  <2>2. CASE j # line
    <3>1. j \in 1 .. n
      BY <1>2, <2>2
    <3>2. PICK k \in DOMAIN hcs : hcs[k].hostname = conf[j].value
      BY <1>2, <1>9, <3>1 DEF Sections
    <3>3. QED
      BY <1>4, <3>2
  <2>3. QED
    BY <2>1, <2>2
<1>10. ASSUME NEW k \in DOMAIN new, Fixed(new[k].hostname)
       PROVE  Conforms(new[k], line)
  <2>1. Conforms(new[k], n)
    <3>1. CASE k \in DOMAIN hcs /\ new[k] = hcs[k]
      BY <1>2, <1>10, <3>1 DEF Sections
    <3>2. CASE /\ new[k] = lk_hostconfig_new(v)
               /\ \A j \in DOMAIN hcs : hcs[j].hostname # v
      <4>1. ASSUME NEW j \in 1 .. n
            PROVE  Section(j) # v
        <5>1. j \in 0 .. Len(conf)
          BY <1>2
        <5>2. \/ Section(j) = NULL
              \/ \E i \in 1 .. j : conf[i].key = "hostname" /\ conf[i].value = Section(j)
          BY <1>2, <5>1, SectionBegan
        <5>3. \A i \in 1 .. j : i \in 1 .. n
          BY <1>2
        <5>4. \A i \in 1 .. j : conf[i].key = "hostname" => conf[i].value # v
          BY <1>2, <3>2, <5>3 DEF Sections
        <5>5. QED
          BY <1>2, <5>2, <5>4, NullIsNoText
      <4>2. n <= Len(conf)
        BY <1>2
      <4>3. Conforms(lk_hostconfig_new(v), n)
        BY <1>2, <4>1, <4>2, ConformsNew
      <4>4. QED
        BY <3>2, <4>3
    <3>3. QED
      BY <1>4, <3>1, <3>2
  <2>2. \A key \in HostKeys \cup {"alias"} : n + 1 \notin LinesOf(new[k].hostname, key)
    BY <1>2, <1>8 DEF HostKeys
  <2>3. Conforms(new[k], n + 1)
    BY <1>2, <2>1, <2>2, ConformsPassed
  <2>4. QED
    BY <1>2, <2>3
<1>11. ASSUME Len(command) = 2, NEW f \in {"serverhost", "port"}
       PROVE  Matches(cfg'[f], Empty, LinesOf(NULL, f), Values, line)
  <2>1. Matches(cfg[f], Empty, LinesOf(NULL, f), Values, n) /\ cfg'[f] = cfg[f]
    BY <1>2, <1>6, <1>11 DEF Sections
  <2>2. n + 1 \notin LinesOf(NULL, f)
    BY <1>2, <1>8
  <2> HIDE DEF n
  <2>3. Matches(cfg[f], Empty, LinesOf(NULL, f), Values, n + 1)
    BY <1>2, <2>1, <2>2, RootPassed
  <2>4. QED
    BY <1>2, <2>1, <2>3
<1>12. Sections(cfg', line)
  BY <1>6, <1>9, <1>10, <1>11 DEF Sections
<1>13. QED
  BY <1>1, <1>2, <1>6, <1>7, <1>12, LineKeeps

LEMMA ReadRoot ==
    ASSUME IInv, ReadInv, RootLine
    PROVE  ReadInv'
<1> DEFINE n == line - 1
<1>1. NextLine({"serverhost", "port"}) /\ hc = 0 /\ hc' = hc
  BY DEF RootLine
<1>2. /\ conf \in Seq(Lines) /\ line \in 1 .. Len(conf) /\ n \in Nat /\ n + 1 = line
      /\ Line.key \in {"serverhost", "port"} /\ conf[line].key = Line.key
      /\ Line.value = Values[line] /\ Sections(cfg, n) /\ Section(line) = NULL
  BY <1>1, LineRead DEF Current
<1>3. cfg' = [cfg EXCEPT ![Line.key] = Line.value]
  BY DEF RootLine
<1>4. /\ cfg'.hostconfigs = cfg.hostconfigs
      /\ \A f \in {"serverhost", "port"} :
            cfg'[f] = IF f = Line.key THEN Values[line] ELSE cfg[f]
  <2>1. DOMAIN cfg = {"serverhost", "port", "hostconfigs"}
    BY ConfigIs DEF Config
  <2>2. QED
    BY <1>2, <1>3, <2>1
<1>5. \A h, key : line \in LinesOf(h, key) <=> key = Line.key /\ h = NULL
  BY <1>2, LineOfIs
<1>6. ASSUME NEW j \in 1 .. line, conf[j].key = "hostname"
      PROVE  \E k \in DOMAIN cfg.hostconfigs : cfg.hostconfigs[k].hostname = conf[j].value
  <2>1. j # line
    BY <1>2, <1>6
  <2>2. j \in 1 .. n
    BY <1>2, <2>1
  <2>3. QED
    BY <1>2, <1>6, <2>2 DEF Sections
<1>7. ASSUME NEW k \in DOMAIN cfg.hostconfigs, Fixed(cfg.hostconfigs[k].hostname)
      PROVE  Conforms(cfg.hostconfigs[k], line)
  <2> DEFINE c == cfg.hostconfigs[k]
  <2>1. Conforms(c, n)
    BY <1>2, <1>7 DEF Sections
  <2>2. \A key \in HostKeys \cup {"alias"} : n + 1 \notin LinesOf(c.hostname, key)
    BY <1>2, <1>5 DEF HostKeys
  <2> HIDE DEF c
  <2>3. Conforms(c, n + 1)
    BY <1>2, <2>1, <2>2, ConformsPassed
  <2>4. QED
    BY <1>2, <2>3 DEF c
<1>8. ASSUME Len(command) = 2, NEW f \in {"serverhost", "port"}
      PROVE  Matches(cfg'[f], Empty, LinesOf(NULL, f), Values, line)
  <2>1. Matches(cfg[f], Empty, LinesOf(NULL, f), Values, n)
    BY <1>2, <1>8 DEF Sections
  <2>2. n + 1 \in LinesOf(NULL, f) <=> f = Line.key
    BY <1>2, <1>5
  <2>3. LinesOf(NULL, f) \subseteq Nat
    BY <1>2, LinesAre
  <2> HIDE DEF n
  <2>4. CASE f = Line.key
    <3>1. Matches(Values[n + 1], Empty, LinesOf(NULL, f), Values, n + 1)
      BY <1>2, <2>2, <2>3, <2>4, MatchesSet
    <3>2. QED
      BY <1>2, <1>4, <2>4, <3>1
  <2>5. CASE f # Line.key
    <3>1. Matches(cfg[f], Empty, LinesOf(NULL, f), Values, n + 1)
      BY <1>2, <2>1, <2>2, <2>5, RootPassed
    <3>2. QED
      BY <1>2, <1>4, <2>5, <3>1
  <2>6. QED
    BY <2>4, <2>5
<1>9. Sections(cfg', line)
  BY <1>4, <1>6, <1>7, <1>8 DEF Sections
<1>10. QED
  BY <1>1, <1>2, <1>9, LineKeeps

\* A line about the current host, which h is afterwards.
LEMMA ReadOfHost ==
    ASSUME IInv, ReadInv, NEW keys, keys \subseteq HostKeys \cup {"alias"},
           NextLine(keys), hc # 0, hc' = hc,
           NEW h, h.hostname = cfg.hostconfigs[hc].hostname,
           cfg' = [cfg EXCEPT !.hostconfigs = [cfg.hostconfigs EXCEPT ![hc] = h]],
           Conforms(cfg.hostconfigs[hc], line - 1) => Conforms(h, line)
    PROVE  ReadInv'
<1> DEFINE hcs == cfg.hostconfigs
           new == [hcs EXCEPT ![hc] = h]
           n   == line - 1
<1>1. /\ conf \in Seq(Lines) /\ line \in 1 .. Len(conf) /\ n \in Nat /\ n + 1 = line
      /\ Line.key \in keys /\ conf[line].key = Line.key
      /\ Sections(cfg, n) /\ Section(line) = hcs[hc].hostname
  <2>1. Line.key # "hostname"
    BY LineRead DEF HostKeys
  <2>2. QED
    BY <2>1, LineRead DEF Current
<1>2. /\ hcs \in Seq(HostConfig) /\ hc \in DOMAIN hcs /\ UniqueHosts(hcs)
      /\ DOMAIN new = DOMAIN hcs /\ new[hc] = h
      /\ \A k \in DOMAIN hcs \ {hc} : new[k] = hcs[k]
  BY ConfigIs
<1>3. /\ cfg'.hostconfigs = new
      /\ cfg'["serverhost"] = cfg["serverhost"] /\ cfg'["port"] = cfg["port"]
  BY ConfigIs DEF Config
<1>4. \A k \in DOMAIN hcs : new[k].hostname = hcs[k].hostname
  BY <1>2
<1>5. hcs[hc].hostname \in Text
  <2>1. hcs[hc] \in HostConfig
    BY <1>2
  <2>2. QED
    BY <2>1 DEF HostConfig
<1>6. \A x, key : line \in LinesOf(x, key) <=> key = Line.key /\ x = hcs[hc].hostname
  BY <1>1, LineOfIs
<1> HIDE DEF new
<1>7. ASSUME NEW j \in 1 .. line, conf[j].key = "hostname"
      PROVE  \E k \in DOMAIN new : new[k].hostname = conf[j].value
  <2>1. j # line
    BY <1>1, <1>7 DEF HostKeys
  <2>2. j \in 1 .. n
    BY <1>1, <2>1
  <2>3. PICK k \in DOMAIN hcs : hcs[k].hostname = conf[j].value
    BY <1>1, <1>7, <2>2 DEF Sections
  <2>4. QED
    BY <1>2, <1>4, <2>3
<1>8. ASSUME NEW k \in DOMAIN new, Fixed(new[k].hostname)
      PROVE  Conforms(new[k], line)
  <2>1. Conforms(hcs[k], n)
    BY <1>1, <1>2, <1>4, <1>8 DEF Sections
  <2>2. CASE k = hc
    BY <1>2, <2>1, <2>2
  <2>3. CASE k # hc
    <3> DEFINE c == hcs[k]
    <3>1. c.hostname # hcs[hc].hostname
      BY <1>2, <2>3 DEF UniqueHosts
    <3>2. \A key \in HostKeys \cup {"alias"} : n + 1 \notin LinesOf(c.hostname, key)
      BY <1>1, <1>6, <3>1
    <3>3. new[k] = c
      BY <1>2, <2>3
    <3> HIDE DEF c
    <3>4. Conforms(c, n)
      BY <2>1 DEF c
    <3>5. Conforms(c, n + 1)
      BY <1>1, <3>2, <3>4, ConformsPassed
    <3>6. QED
      BY <1>1, <3>3, <3>5
  <2>4. QED
    BY <2>2, <2>3
<1>9. ASSUME Len(command) = 2, NEW f \in {"serverhost", "port"}
      PROVE  Matches(cfg'[f], Empty, LinesOf(NULL, f), Values, line)
  <2>1. Matches(cfg[f], Empty, LinesOf(NULL, f), Values, n) /\ cfg'[f] = cfg[f]
    BY <1>1, <1>3, <1>9 DEF Sections
  <2>2. n + 1 \notin LinesOf(NULL, f)
    BY <1>1, <1>5, <1>6, NullIsNoText
  <2> HIDE DEF n
  <2>3. Matches(cfg[f], Empty, LinesOf(NULL, f), Values, n + 1)
    BY <1>1, <2>1, <2>2, RootPassed
  <2>4. QED
    BY <1>1, <2>1, <2>3
<1>10. Sections(cfg', line)
  BY <1>3, <1>7, <1>8, <1>9 DEF Sections
<1>11. cfg'.hostconfigs[hc'].hostname = Section(line)
  BY <1>1, <1>2, <1>3, <1>4
<1>12. QED
  BY <1>10, <1>11, LineKeeps

LEMMA ReadHost ==
    ASSUME IInv, ReadInv, HostLine
    PROVE  ReadInv'
<1> DEFINE c == cfg.hostconfigs[hc]
           h == [c EXCEPT ![Line.key] = Line.value]
           n == line - 1
<1>1. NextLine(HostKeys) /\ hc' = hc /\ hc # 0
  BY DEF HostLine
<1>2. /\ conf \in Seq(Lines) /\ line \in 1 .. Len(conf) /\ n \in Nat /\ n + 1 = line
      /\ Line.key \in HostKeys /\ conf[line].key = Line.key /\ Line.value \in Text
      /\ Line.value = Values[line] /\ Section(line) = c.hostname
  <2>1. NextLine(HostKeys) => Line.key # "hostname"
    BY LineRead DEF HostKeys
  <2>2. QED
    BY <1>1, <2>1, LineRead DEF Current
<1>3. hc \in 1 .. Len(cfg.hostconfigs)
  BY <1>1, ConfigIs
<1>4. c \in HostConfig
  BY <1>3, ConfigIs, ElementOfSeq
<1>5. /\ h.hostname = c.hostname /\ h.aliases = c.aliases
      /\ \A key \in HostKeys : h[key] = IF key = Line.key THEN Values[line] ELSE c[key]
  <2> HIDE DEF c
  <2>1. QED
    BY <1>2, <1>4 DEF HostConfig, HostKeys
<1>6. cfg' = [cfg EXCEPT !.hostconfigs = [cfg.hostconfigs EXCEPT ![hc] = h]]
  BY DEF HostLine
<1>7. \A key : line \in LinesOf(c.hostname, key) <=> key = Line.key
  BY <1>2, LineOfIs
<1> HIDE DEF h
<1>8. ASSUME Conforms(c, n)
      PROVE  Conforms(h, line)
  <2> HIDE DEF c
  <2>1. ASSUME NEW key \in HostKeys
        PROVE  Matches(h[key], Empty, LinesOf(h.hostname, key), Values, line)
    <3> DEFINE L == LinesOf(c.hostname, key)
    <3>1. Matches(c[key], Empty, L, Values, n) /\ L \subseteq Nat
      BY <1>2, <1>8, LinesAre DEF Conforms
    <3>2. n + 1 \in L <=> key = Line.key
      BY <1>2, <1>7
    <3> HIDE DEF L, n
    <3>3. CASE key = Line.key
      <4>1. Matches(Values[n + 1], Empty, L, Values, n + 1)
        BY <1>2, <3>1, <3>2, <3>3, MatchesSet
      <4>2. QED
        BY <1>2, <1>5, <3>3, <4>1 DEF L
    <3>4. CASE key # Line.key
      <4>1. Matches(c[key], Empty, L, Values, n + 1)
        BY <1>2, <3>1, <3>2, <3>4, MatchesPassed
      <4>2. QED
        BY <1>2, <1>5, <3>4, <4>1 DEF L
    <3>5. QED
      BY <3>3, <3>4
  <2>2. ASSUME NEW from \in Froms
        PROVE  Matches(lk_stringtable_get(h.aliases, from), NULL,
                       AliasesOf(h.hostname, from), Targets, line)
    <3> DEFINE A == AliasesOf(c.hostname, from)
               v == lk_stringtable_get(c.aliases, from)
    <3>1. Matches(v, NULL, A, Targets, n)
      BY <1>8 DEF Conforms
    <3>2. n + 1 \notin A /\ A \subseteq Nat
      <4>1. n + 1 \notin LinesOf(c.hostname, "alias")
        BY <1>2, <1>7 DEF HostKeys
      <4>2. QED
        BY <1>2, <4>1, AliasesAre
    <3> HIDE DEF A, v, n
    <3>3. Matches(v, NULL, A, Targets, n + 1)
      BY <1>2, <3>1, <3>2, MatchesPassed
    <3>4. QED
      BY <1>2, <1>5, <3>3 DEF A, v
  <2>3. QED
    BY <2>1, <2>2 DEF Conforms
<1>9. QED
  BY <1>1, <1>5, <1>6, <1>8, ReadOfHost

LEMMA ReadAlias ==
    ASSUME IInv, ReadInv, AliasLine
    PROVE  ReadInv'
<1> DEFINE c  == cfg.hostconfigs[hc]
           st == lk_stringtable_set(c.aliases, LeadingSlash(Line.value),
                                    LeadingSlash(Line.to))
           h  == [c EXCEPT !.aliases = st]
           n  == line - 1
<1>1. NextLine({"alias"}) /\ hc' = hc /\ hc # 0
  BY DEF AliasLine
<1>2. /\ conf \in Seq(Lines) /\ line \in 1 .. Len(conf) /\ n \in Nat /\ n + 1 = line
      /\ Line.key = "alias" /\ conf[line].key = "alias" /\ conf[line].value = Line.value
      /\ Line.value \in Text /\ Line.to \in Text
      /\ LeadingSlash(Line.to) = Targets[line] /\ Section(line) = c.hostname
  <2>1. Line.key # "hostname"
    BY <1>1, LineRead
  <2>2. QED
    BY <1>1, <2>1, LineRead DEF Current, Line
<1>3. hc \in 1 .. Len(cfg.hostconfigs)
  BY <1>1, ConfigIs
<1>4. c \in HostConfig /\ c.aliases \in Seq([k : Text, v : Text])
  <2>1. c \in HostConfig
    BY <1>3, ConfigIs, ElementOfSeq
  <2>2. QED
    BY <2>1 DEF HostConfig
<1>5. LeadingSlash(Line.value) \in Text /\ LeadingSlash(Line.to) \in Text
  BY <1>2, SlashesAre
<1>6. \A from : lk_stringtable_get(st, from) =
         IF from = LeadingSlash(Line.value) THEN Targets[line]
                                            ELSE lk_stringtable_get(c.aliases, from)
  BY <1>2, <1>4, <1>5, GetAfterSet
<1>7. cfg' = [cfg EXCEPT !.hostconfigs = [cfg.hostconfigs EXCEPT ![hc] = h]]
  BY DEF AliasLine
<1> HIDE DEF st
<1>8. /\ h.hostname = c.hostname /\ h.aliases = st
      /\ \A key \in HostKeys : h[key] = c[key]
  <2> HIDE DEF c
  <2>1. QED
    BY <1>4 DEF HostConfig, HostKeys
<1>9. \A key : line \in LinesOf(c.hostname, key) <=> key = "alias"
  BY <1>2, LineOfIs
<1>10. \A from : line \in AliasesOf(c.hostname, from) <=> from = LeadingSlash(Line.value)
  BY <1>2, <1>9 DEF AliasesOf
<1> HIDE DEF h
<1>11. ASSUME Conforms(c, n)
       PROVE  Conforms(h, line)
  <2> HIDE DEF c
  <2>1. ASSUME NEW key \in HostKeys
        PROVE  Matches(h[key], Empty, LinesOf(h.hostname, key), Values, line)
    <3> DEFINE L == LinesOf(c.hostname, key)
    <3>1. Matches(c[key], Empty, L, Values, n) /\ L \subseteq Nat
      BY <1>2, <1>11, LinesAre DEF Conforms
    <3>2. n + 1 \notin L
      BY <1>2, <1>9 DEF HostKeys
    <3> HIDE DEF L, n
    <3>3. Matches(c[key], Empty, L, Values, n + 1)
      BY <1>2, <3>1, <3>2, MatchesPassed
    <3>4. QED
      BY <1>2, <1>8, <3>3 DEF L
  <2>2. ASSUME NEW from \in Froms
        PROVE  Matches(lk_stringtable_get(h.aliases, from), NULL,
                       AliasesOf(h.hostname, from), Targets, line)
    <3> DEFINE A == AliasesOf(c.hostname, from)
               v == lk_stringtable_get(c.aliases, from)
    <3>1. Matches(v, NULL, A, Targets, n) /\ A \subseteq Nat
      BY <1>2, <1>11, AliasesAre DEF Conforms
    <3>2. n + 1 \in A <=> from = LeadingSlash(Line.value)
      BY <1>2, <1>10
    <3>3. lk_stringtable_get(h.aliases, from) =
             IF from = LeadingSlash(Line.value) THEN Targets[line] ELSE v
      BY <1>6, <1>8
    <3>4. AliasesOf(h.hostname, from) = A
      BY <1>8
    <3> HIDE DEF A, v, n
    <3>5. CASE from = LeadingSlash(Line.value)
      <4>1. Matches(Targets[n + 1], NULL, A, Targets, n + 1)
        BY <1>2, <3>1, <3>2, <3>5, MatchesSet
      <4>2. QED
        BY <1>2, <3>3, <3>4, <3>5, <4>1
    <3>6. CASE from # LeadingSlash(Line.value)
      <4>1. Matches(v, NULL, A, Targets, n + 1)
        BY <1>2, <3>1, <3>2, <3>6, MatchesPassed
      <4>2. QED
        BY <1>2, <3>3, <3>4, <3>6, <4>1
    <3>7. QED
      BY <3>5, <3>6
  <2>3. QED
    BY <2>1, <2>2 DEF Conforms
<1>12. QED
  BY <1>1, <1>7, <1>8, <1>11, ReadOfHost

LEMMA ReadSkipped ==
    ASSUME IInv, ReadInv, SkippedLine
    PROVE  ReadInv'
<1> DEFINE n == line - 1
           keys == IF hc = 0 THEN {"alias", "other"} \cup HostKeys
                             ELSE {"serverhost", "port", "other"}
<1>1. NextLine(keys) /\ hc' = hc /\ cfg' = cfg
  BY DEF SkippedLine
<1>2. /\ conf \in Seq(Lines) /\ line \in 1 .. Len(conf) /\ n \in Nat /\ n + 1 = line
      /\ Line.key \in keys /\ conf[line].key = Line.key
      /\ Sections(cfg, n) /\ Current
      /\ Section(line) = Section(n)
  <2>1. Line.key \in keys /\ Line.key # "hostname"
    BY <1>1, LineRead DEF HostKeys
  <2>2. QED
    BY <1>1, <2>1, LineRead
<1>3. \A h \in Text : \A key \in HostKeys \cup {"alias"} : line \notin LinesOf(h, key)
  <2>1. CASE hc = 0
    BY <1>2, <2>1, LineOfIs, NullIsNoText DEF Current
  <2>2. CASE hc # 0
    BY <1>2, <2>2, LineOfIs DEF HostKeys
  <2>3. QED
    BY <2>1, <2>2
<1>4. hc # 0 => cfg.hostconfigs[hc].hostname \in Text
  <2>1. hc # 0 => cfg.hostconfigs[hc] \in HostConfig
    BY ConfigIs
  <2>2. QED
    BY <2>1 DEF HostConfig
<1>5. \A f \in {"serverhost", "port"} : line \notin LinesOf(NULL, f)
  <2>1. CASE hc = 0
    BY <1>2, <2>1, LineOfIs DEF HostKeys
  <2>2. CASE hc # 0
    BY <1>2, <1>4, <2>2, LineOfIs, NullIsNoText DEF Current
  <2>3. QED
    BY <2>1, <2>2
<1>6. ASSUME NEW j \in 1 .. line, conf[j].key = "hostname"
      PROVE  \E k \in DOMAIN cfg.hostconfigs : cfg.hostconfigs[k].hostname = conf[j].value
  <2>1. j # line
    BY <1>2, <1>6 DEF HostKeys
  <2>2. j \in 1 .. n
    BY <1>2, <2>1
  <2>3. QED
    BY <1>2, <1>6, <2>2 DEF Sections
<1>7. ASSUME NEW k \in DOMAIN cfg.hostconfigs, Fixed(cfg.hostconfigs[k].hostname)
      PROVE  Conforms(cfg.hostconfigs[k], line)
  <2> DEFINE c == cfg.hostconfigs[k]
  <2>1. Conforms(c, n)
    BY <1>2, <1>7 DEF Sections
  <2>2. c.hostname \in Text
    <3>1. c \in HostConfig
      BY ConfigIs
    <3>2. QED
      BY <3>1 DEF HostConfig
  <2> HIDE DEF c
  <2>3. \A key \in HostKeys \cup {"alias"} : n + 1 \notin LinesOf(c.hostname, key)
    BY <1>2, <1>3, <2>2
  <2>4. Conforms(c, n + 1)
    BY <1>2, <2>1, <2>3, ConformsPassed
  <2>5. QED
    BY <1>2, <2>4 DEF c
<1>8. ASSUME Len(command) = 2, NEW f \in {"serverhost", "port"}
      PROVE  Matches(cfg[f], Empty, LinesOf(NULL, f), Values, line)
  <2>1. Matches(cfg[f], Empty, LinesOf(NULL, f), Values, n)
    BY <1>2, <1>8 DEF Sections
  <2>2. n + 1 \notin LinesOf(NULL, f)
    BY <1>2, <1>5
  <2> HIDE DEF n
  <2>3. Matches(cfg[f], Empty, LinesOf(NULL, f), Values, n + 1)
    BY <1>2, <2>1, <2>2, RootPassed
  <2>4. QED
    BY <1>2, <2>3
<1>9. Sections(cfg', line)
  BY <1>1, <1>6, <1>7, <1>8 DEF Sections
<1>10. IF hc' = 0 THEN Section(line) = NULL
                  ELSE cfg'.hostconfigs[hc'].hostname = Section(line)
  BY <1>1, <1>2 DEF Current
<1>11. QED
  BY <1>1, <1>9, <1>10, LineKeeps

LEMMA ReadFileEnds ==
    ASSUME IInv, ReadInv, FileEnds
    PROVE  ReadInv'
<1>1. /\ pc = "lines" /\ line > Len(conf) /\ pc' = "args" /\ hc' = 0
      /\ UNCHANGED <<command, conf, arg, line, state, set, cfg>>
  BY DEF FileEnds
<1>2. conf \in Seq(Lines) /\ line \in 0 .. Len(conf) + 1
  BY SetupsAssumption DEF IInv, TypeOK
<1>3. line > 0 /\ line # 0 /\ line - 1 = Len(conf)
  BY <1>1, <1>2
<1>4. LinesRead' = LinesRead
  BY <1>1, <1>3 DEF LinesRead
<1>5. Sections(cfg', LinesRead')
  BY <1>1, <1>3, <1>4 DEF ReadInv
<1>6. Sections(cfg, LinesRead)'
  BY <1>1, <1>5, SectionsGoOn
<1>7. arg # 1 /\ arg # 2 /\ (Len(command) = 2 => arg = 3)
  BY <1>1, <1>3 DEF ReadInv
<1>8. QED
  BY <1>1, <1>3, <1>6, <1>7 DEF ReadInv

-----------------------------------------------------------------------------
(***************************************************************************)
(* The arguments, and the start of the server.                              *)
(***************************************************************************)
\* d has what c has, but for the host "*".
OnlyAny(c, d) ==
    /\ \A k \in DOMAIN c.hostconfigs :
          /\ k \in DOMAIN d.hostconfigs
          /\ d.hostconfigs[k].hostname = c.hostconfigs[k].hostname
    /\ \A k \in DOMAIN d.hostconfigs :
          \/ d.hostconfigs[k].hostname = AnyHost
          \/ k \in DOMAIN c.hostconfigs /\ d.hostconfigs[k] = c.hostconfigs[k]

LEMMA SetAnyHostOnly ==
    ASSUME NEW c \in Config, NEW f \in HostKeys, NEW v \in Text
    PROVE  OnlyAny(c, SetAnyHost(c, f, v))
<1> DEFINE old == c.hostconfigs
           hcs == lk_config_create_get_hostconfig(old, AnyHost)
           p   == get_hostconfig(hcs, AnyHost)
           any == [hcs[p] EXCEPT ![f] = v]
           new == SetAnyHost(c, f, v)
<1>1. old \in Seq(HostConfig) /\ lk_hostconfig_new(AnyHost) \in HostConfig
  BY TextsAre, NewHost DEF Config
<1>2. lk_hostconfig_new(AnyHost).hostname = AnyHost
  BY DEF lk_hostconfig_new
<1>3. /\ hcs \in Seq(HostConfig) /\ Len(hcs) \in Nat
      /\ p \in 1 .. Len(hcs)
      /\ \A k \in DOMAIN old : k \in DOMAIN hcs /\ hcs[k] = old[k]
      /\ \A k \in DOMAIN hcs :
            \/ k \in DOMAIN old /\ hcs[k] = old[k]
            \/ hcs[k] = lk_hostconfig_new(AnyHost)
  <2> HIDE DEF old
  <2>1. /\ hcs \in Seq(HostConfig)
        /\ p \in 1 .. Len(hcs)
        /\ \A k \in DOMAIN old : k \in DOMAIN hcs /\ hcs[k] = old[k]
        /\ \A k \in DOMAIN hcs :
              \/ k \in DOMAIN old /\ hcs[k] = old[k]
              \/ hcs[k] = lk_hostconfig_new(AnyHost)
    BY <1>1, CreateGetKeepsUnique
  <2>2. QED
    BY <2>1
<1>4. new.hostconfigs = [hcs EXCEPT ![p] = any]
  BY DEF SetAnyHost, Config
<1> HIDE DEF old, hcs, new
<1>5. hcs[p].hostname = AnyHost
  BY <1>3, HostPositionIs
<1> HIDE DEF p
<1>6. any.hostname = AnyHost
  <2>1. hcs[p] \in HostConfig
    BY <1>3
  <2>2. QED
    BY <1>5, <2>1, HostSet
<1> HIDE DEF any
<1>7. /\ DOMAIN new.hostconfigs = DOMAIN hcs
      /\ \A k \in DOMAIN hcs : new.hostconfigs[k] = IF k = p THEN any ELSE hcs[k]
  BY <1>3, <1>4
<1>8. \A k \in DOMAIN hcs : new.hostconfigs[k].hostname = hcs[k].hostname
  BY <1>5, <1>6, <1>7
<1>9. QED
  BY <1>2, <1>3, <1>6, <1>7, <1>8 DEF OnlyAny, old, new

LEMMA OnlyAnyTwice ==
    ASSUME NEW b, NEW c, NEW d, OnlyAny(b, c), OnlyAny(c, d)
    PROVE  OnlyAny(b, d)
BY DEF OnlyAny

\* The sections of other hosts stay as they were read.
LEMMA SectionsStay ==
    ASSUME NEW c, NEW d, OnlyAny(c, d), Len(command) # 2, NEW n, Sections(c, n)
    PROVE  Sections(d, n)
<1>1. ASSUME NEW k \in DOMAIN d.hostconfigs, Fixed(d.hostconfigs[k].hostname)
      PROVE  Conforms(d.hostconfigs[k], n)
  <2>1. k \in DOMAIN c.hostconfigs /\ d.hostconfigs[k] = c.hostconfigs[k]
    BY <1>1 DEF Fixed, OnlyAny
  <2>2. QED
    BY <1>1, <2>1 DEF Sections
<1>2. ASSUME NEW j \in 1 .. n, conf[j].key = "hostname"
      PROVE  \E k \in DOMAIN d.hostconfigs : d.hostconfigs[k].hostname = conf[j].value
  <2>1. PICK k \in DOMAIN c.hostconfigs : c.hostconfigs[k].hostname = conf[j].value
    BY <1>2 DEF Sections
  <2>2. QED
    BY <2>1 DEF OnlyAny
<1>3. QED
  BY <1>1, <1>2 DEF Sections

LEMMA ArgKeeps ==
    ASSUME IInv, ReadInv, NEW opts, NEW in, NextArg(opts, in),
           pc' \in {pc, "help"}, line' = line, OnlyAny(cfg, cfg'),
           state' = "PA_FILE" => cfg' = cfg
    PROVE  ReadInv'
<1>1. /\ pc = "args" /\ arg <= Len(command) /\ arg' = arg + 1
      /\ UNCHANGED <<command, conf, hc>>
  BY DEF NextArg
<1>2. command \in Seq(Arguments) /\ arg \in 1 .. Len(command) + 1 /\ Len(command) \in Nat
  BY SetupsAssumption DEF IInv, TypeOK
<1>3. arg' # 1 /\ (arg' = 2 => arg = 1) /\ ~(Len(command) = 2 /\ arg = 3)
  <2> DEFINE len == Len(command)
  <2>1. arg \in Nat /\ arg >= 1 /\ arg <= len /\ arg' = arg + 1 /\ len \in Nat
    BY <1>1, <1>2
  <2> HIDE DEF len
  <2>2. arg' # 1 /\ (arg' = 2 => arg = 1) /\ ~(len = 2 /\ arg = 3)
    BY <2>1
  <2>3. QED
    BY <2>2 DEF len
<1>4. line > 0 => Len(command) # 2
  BY <1>1, <1>3 DEF ReadInv
<1>5. LinesRead' = LinesRead
  BY <1>1 DEF LinesRead
<1>6. line > 0 => Sections(cfg, LinesRead)'
  <2>1. ASSUME line > 0 PROVE Sections(cfg', LinesRead')
    BY <1>1, <1>4, <1>5, <2>1, SectionsStay DEF ReadInv
  <2>2. QED
    BY <1>1, <2>1, SectionsGoOn
<1>7. line = 0 =>
         \A k \in DOMAIN cfg'.hostconfigs : cfg'.hostconfigs[k].hostname = AnyHost
  BY <1>1 DEF ReadInv, OnlyAny
<1>8. arg' = 2 => line = 0 /\ (state' = "PA_FILE" => Blank')
  BY <1>1, <1>3 DEF ReadInv, Blank
<1>9. hc' = 0 /\ pc' # "lines"
  BY <1>1 DEF ReadInv
<1>10. QED
  BY <1>1, <1>3, <1>4, <1>6, <1>7, <1>8, <1>9 DEF ReadInv

\* The file is opened, for the first time or again.
LEMMA FileOpens ==
    ASSUME IInv, ReadInv, FileArg, pc' = "lines", line' = 1
    PROVE  ReadInv'
<1>1. /\ pc = "args" /\ arg <= Len(command) /\ arg' = arg + 1 /\ state = "PA_FILE"
      /\ UNCHANGED <<command, conf, hc, cfg>>
  BY DEF FileArg, NextArg
<1>2. /\ command \in Seq(Arguments) /\ arg \in 1 .. Len(command) + 1
      /\ Len(command) \in Nat /\ line \in 0 .. Len(conf) + 1
      /\ conf \in Seq(Lines) /\ Len(conf) \in Nat
  BY SetupsAssumption DEF IInv, TypeOK
<1>3. /\ arg # 1 /\ arg' # 1 /\ arg' # 2 /\ (Len(command) = 2 => arg = 2 /\ arg' = 3)
      /\ hc = 0
  <2>1. arg # 1 /\ hc = 0
    BY <1>1 DEF ReadInv
  <2> DEFINE len == Len(command)
  <2>2. arg \in Nat /\ arg >= 1 /\ arg <= len /\ arg' = arg + 1 /\ len \in Nat
    BY <1>1, <1>2
  <2> HIDE DEF len
  <2>3. arg' # 1 /\ arg' # 2 /\ (len = 2 => arg = 2 /\ arg' = 3)
    BY <2>1, <2>2
  <2>4. QED
    BY <2>1, <2>3 DEF len
<1>4. Sections(cfg, 0)
  <2>1. CASE line = 0
    <3>1. /\ \A k \in DOMAIN cfg.hostconfigs : cfg.hostconfigs[k].hostname = AnyHost
          /\ Len(command) = 2 => Blank
      BY <1>1, <1>3, <2>1 DEF ReadInv
    <3>2. ASSUME NEW k \in DOMAIN cfg.hostconfigs
          PROVE  ~Fixed(cfg.hostconfigs[k].hostname)
      <4>1. Len(command) # 2
        <5>1. Blank => DOMAIN cfg.hostconfigs = {}
          BY DEF Blank
        <5>2. QED
          BY <3>1, <3>2, <5>1
      <4>2. QED
        BY <3>1, <4>1 DEF Fixed
    <3>3. ASSUME Len(command) = 2, NEW f \in {"serverhost", "port"}
          PROVE  Matches(cfg[f], Empty, LinesOf(NULL, f), Values, 0)
      <4>1. cfg[f] = Empty
        BY <3>1, <3>3 DEF Blank
      <4>2. /\ LinesOf(NULL, f) \subseteq Nat
            /\ \A j \in LinesOf(NULL, f) : j > 0
        <5>1. LinesOf(NULL, f) \subseteq 1 .. Len(conf) /\ LinesOf(NULL, f) \subseteq Nat
          BY <1>2, LinesAre
        <5>2. \A j \in LinesOf(NULL, f) : j \in 1 .. Len(conf)
          BY <5>1
        <5>3. QED
          BY <1>2, <5>1, <5>2
      <4>3. Matches(Empty, Empty, LinesOf(NULL, f), Values, 0)
        BY <4>2, MatchesStart
      <4>4. QED
        BY <4>1, <4>3
    <3>4. QED
      BY <3>2, <3>3 DEF Sections
  <2>2. CASE line # 0
    <3>1. Sections(cfg, Len(conf)) /\ Len(command) # 2
      <4>1. line > 0
        BY <1>2, <2>2
      <4>2. QED
        BY <1>1, <1>3, <4>1 DEF ReadInv, LinesRead
    <3>2. ASSUME NEW c, Conforms(c, Len(conf))
          PROVE  Conforms(c, 0)
      <4>1. ASSUME NEW key \in HostKeys
            PROVE  Matches(c[key], Empty, LinesOf(c.hostname, key), Values, 0)
        <5>1. Matches(c[key], Empty, LinesOf(c.hostname, key), Values, Len(conf))
          BY <3>2 DEF Conforms
        <5>2. LinesOf(c.hostname, key) \subseteq 1 .. Len(conf)
          BY <1>2, LinesAre
        <5>3. QED
          BY <1>2, <5>1, <5>2, MatchesAll
      <4>2. ASSUME NEW from \in Froms
            PROVE  Matches(lk_stringtable_get(c.aliases, from), NULL,
                           AliasesOf(c.hostname, from), Targets, 0)
        <5> DEFINE A == AliasesOf(c.hostname, from)
                   v == lk_stringtable_get(c.aliases, from)
        <5>1. Matches(v, NULL, A, Targets, Len(conf))
          BY <3>2 DEF Conforms
        <5>2. A \subseteq 1 .. Len(conf)
          BY <1>2, AliasesAre
        <5> HIDE DEF A, v
        <5>3. Matches(v, NULL, A, Targets, 0)
          BY <1>2, <5>1, <5>2, MatchesAll
        <5>4. QED
          BY <5>3 DEF A, v
      <4>3. QED
        BY <4>1, <4>2 DEF Conforms
    <3>3. QED
      BY <3>1, <3>2 DEF Sections
  <2>3. QED
    BY <2>1, <2>2
<1>5. LinesRead' = 0
  BY DEF LinesRead
<1>6. Sections(cfg, LinesRead)'
  BY <1>1, <1>4, <1>5, SectionsGoOn
<1>7. Current'
  <2>1. \A j : Section(j)' = IF {i \in 1 .. j : conf'[i].key = "hostname"} = {} THEN NULL
                             ELSE conf'[Latest({i \in 1 .. j : conf'[i].key = "hostname"})].value
    BY DEF Section
  <2>2. {i \in 1 .. 0 : conf'[i].key = "hostname"} = {}
    OBVIOUS
  <2>3. Section(0)' = NULL
    BY <2>1, <2>2
  <2>4. line' - 1 = 0 /\ hc' = 0
    BY <1>1, <1>3
  <2>5. QED
    BY <2>3, <2>4 DEF Current
<1>8. QED
  BY <1>3, <1>6, <1>7, <1>1 DEF ReadInv

LEMMA ReadArgs ==
    ASSUME IInv, ReadInv,
           \/ AwaitFile \/ Help \/ CgidirArg \/ FileArg
           \/ HomedirArg \/ PortArg \/ HostArg \/ ExtraArg
    PROVE  ReadInv'
<1>1. "homedir" \in HostKeys /\ "cgidir" \in HostKeys
  BY DEF HostKeys
<1>2. OnlyAny(cfg, cfg)
  BY DEF OnlyAny
<1>3. CASE AwaitFile
  BY <1>2, <1>3, ArgKeeps DEF AwaitFile
<1>4. CASE Help
  BY <1>2, <1>4, ArgKeeps DEF Help, NextArg
<1>5. CASE CgidirArg
  <2>1. Argument.value \in Text
    BY <1>5, ArgumentIs DEF CgidirArg, NextArg, Arguments
  <2>2. OnlyAny(cfg, cfg')
    BY <1>1, <1>5, <2>1, ConfigIs, SetAnyHostOnly DEF CgidirArg
  <2>3. NextArg({"--cgidir="}, "PA_NONE") /\ state' # "PA_FILE" /\ UNCHANGED <<pc, line>>
    BY <1>5 DEF CgidirArg, NextArg
  <2>4. QED
    BY <2>2, <2>3, ArgKeeps
<1>6. CASE FileArg
  <2>1. CASE pc' = "lines" /\ line' = 1
    BY <1>6, <2>1, FileOpens
  <2>2. CASE UNCHANGED <<pc, line>>
    <3>1. NextArg(Options, "PA_FILE") /\ cfg' = cfg /\ pc' \in {pc, "help"}
      BY <1>6, <2>2 DEF FileArg
    <3>2. QED
      BY <1>2, <2>2, <3>1, ArgKeeps
  <2>3. QED
    BY <1>6, <2>1, <2>2 DEF FileArg
<1>7. CASE HomedirArg
  <2> DEFINE c   == SetAnyHost(cfg, "homedir", Argument.value)
             any == c.hostconfigs[get_hostconfig(c.hostconfigs, AnyHost)]
             d   == SetAnyHost(c, "cgidir", <<"/", "cgi-bin", "/">>)
  <2>1. Argument.value \in Text
    BY <1>7, ArgumentIs DEF HomedirArg, NextArg, Arguments
  <2>2. c \in Config /\ OnlyAny(cfg, c)
    BY <1>1, <2>1, ConfigIs, SetAnyHostIs, SetAnyHostOnly
  <2>3. cfg' = IF any.cgidir = Empty THEN d ELSE c
    BY <1>7 DEF HomedirArg
  <2> HIDE DEF c, any
  <2>4. OnlyAny(c, d)
    BY <1>1, <2>2, TextsAre, SetAnyHostOnly
  <2> HIDE DEF d
  <2>5. OnlyAny(cfg, cfg')
    BY <2>2, <2>3, <2>4, OnlyAnyTwice
  <2>6. NextArg({"text"}, "PA_NONE") /\ state' # "PA_FILE" /\ UNCHANGED <<pc, line>>
    BY <1>7 DEF HomedirArg, NextArg
  <2>7. QED
    BY <2>5, <2>6, ArgKeeps
<1>8. CASE PortArg
  <2>1. NextArg({"text"}, "PA_NONE") /\ state' # "PA_FILE" /\ UNCHANGED <<pc, line>>
    BY <1>8 DEF PortArg, NextArg
  <2>2. cfg'.hostconfigs = cfg.hostconfigs
    BY <1>8, ConfigIs DEF PortArg, Config
  <2>3. OnlyAny(cfg, cfg')
    BY <2>2 DEF OnlyAny
  <2>4. QED
    BY <2>1, <2>3, ArgKeeps
<1>9. CASE HostArg
  <2>1. NextArg({"text"}, "PA_NONE") /\ state' # "PA_FILE" /\ UNCHANGED <<pc, line>>
    BY <1>9 DEF HostArg, NextArg
  <2>2. cfg'.hostconfigs = cfg.hostconfigs
    BY <1>9, ConfigIs DEF HostArg, Config
  <2>3. OnlyAny(cfg, cfg')
    BY <2>2 DEF OnlyAny
  <2>4. QED
    BY <2>1, <2>3, ArgKeeps
<1>10. CASE ExtraArg
  BY <1>2, <1>10, ArgKeeps DEF ExtraArg
<1>11. QED
  BY <1>3, <1>4, <1>5, <1>6, <1>7, <1>8, <1>9, <1>10

\* The last of some lines is one of them.
LEMMA LastIs ==
    ASSUME conf \in Seq(Lines), NEW L, L \subseteq 1 .. Len(conf), NEW none
    PROVE  /\ LastIn(L, none, Values) =
                 IF L = {} THEN none ELSE conf[Latest(L)].value
           /\ LastIn(L, none, Targets) =
                 IF L = {} THEN none ELSE LeadingSlash(conf[Latest(L)].to)
<1>1. CASE L = {}
  BY <1>1 DEF LastIn
<1>2. CASE L # {}
  <2>1. L \subseteq Nat /\ Len(conf) \in Nat /\ \A i \in L : i <= Len(conf)
    <3>1. \A i \in L : i \in 1 .. Len(conf)
      OBVIOUS
    <3>2. Len(conf) \in Nat
      OBVIOUS
    <3>3. QED
      BY <3>1, <3>2
  <2>2. PICK m \in L : \A i \in L : i <= m
    BY <1>2, <2>1, GreatestOf
  <2>3. Latest(L) = m /\ m \in DOMAIN conf
    <3>1. Latest(L) = m
      BY <2>1, <2>2, LatestIs
    <3>2. DOMAIN conf = 1 .. Len(conf)
      OBVIOUS
    <3>3. QED
      BY <2>2, <3>1, <3>2
  <2>4. QED
    BY <1>2, <2>3 DEF LastIn, Values, Targets
<1>3. QED
  BY <1>1, <1>2

\* What Absolute leaves as it is.
LEMMA AbsoluteKeeps ==
    ASSUME NEW h \in HostConfig
    PROVE  /\ Absolute(h).hostname = h.hostname
           /\ Absolute(h).homedir = h.homedir
           /\ Absolute(h).proxyhost = h.proxyhost
           /\ Absolute(h).aliases = h.aliases
           /\ Absolute(h).cgidir =
                 IF h.cgidir = Empty \/ h.homedir = Empty THEN h.cgidir
                 ELSE Slashes(h.cgidir)
<1> DEFINE abs == realpath(h.homedir)
           dir == Slashes(h.cgidir)
           joined == abs \o dir
<1>1. h.cgidir \in Text
  BY DEF HostConfig
<1>2. dir \in Text
  BY <1>1, SlashesAre
<1>3. Absolute(h) =
         IF h.homedir = Empty THEN h
         ELSE IF h.cgidir = Empty THEN [h EXCEPT !.homedir_abspath = abs]
         ELSE [h EXCEPT !.homedir_abspath = abs, !.cgidir = dir,
                        !.cgidir_abspath = joined]
  BY <1>1 DEF Absolute, HostConfig
<1> HIDE DEF abs, joined
<1>4. /\ Absolute(h).hostname = h.hostname /\ Absolute(h).homedir = h.homedir
      /\ Absolute(h).proxyhost = h.proxyhost /\ Absolute(h).aliases = h.aliases
      /\ Absolute(h).cgidir = IF h.cgidir = Empty \/ h.homedir = Empty THEN h.cgidir
                              ELSE dir
  <2> HIDE DEF dir
  <2>1. QED
    BY <1>3 DEF HostConfig
<1>5. QED
  BY <1>4

\* The configuration the server starts with, host by host.
LEMMA Finalized ==
    ASSUME IInv, lk_config_finalize, cfg.hostconfigs # << >>
    PROVE  /\ DOMAIN cfg'.hostconfigs = DOMAIN cfg.hostconfigs
           /\ \A k \in DOMAIN cfg.hostconfigs :
                 LET c == cfg.hostconfigs[k]
                     d == cfg'.hostconfigs[k]
                 IN /\ d.hostname = c.hostname /\ d.homedir = c.homedir
                    /\ d.proxyhost = c.proxyhost /\ d.aliases = c.aliases
                    /\ d.cgidir = IF c.cgidir = Empty \/ c.homedir = Empty
                                  THEN c.cgidir ELSE Slashes(c.cgidir)
<1> DEFINE new == [k \in DOMAIN cfg.hostconfigs |-> Absolute(cfg.hostconfigs[k])]
<1>1. DefaultHosts(cfg).hostconfigs = cfg.hostconfigs
  BY DEF DefaultHosts
<1>2. cfg'.hostconfigs = new
  BY <1>1 DEF lk_config_finalize
<1>3. \A k \in DOMAIN cfg.hostconfigs : cfg.hostconfigs[k] \in HostConfig
  BY ConfigIs
<1>4. QED
  BY <1>2, <1>3, AbsoluteKeeps

\* SectionsAsWritten for one host.
HostAsWritten(h) ==
    \E k \in DOMAIN cfg.hostconfigs :
       LET c == cfg.hostconfigs[k] IN
       /\ c.hostname = h
       /\ c.homedir = Written(h, "homedir")
       /\ c.proxyhost = Written(h, "proxyhost")
       /\ c.cgidir = CgidirWritten(h)
       /\ \A from \in Froms :
             lk_stringtable_get(c.aliases, from) =
                IF AliasesOf(h, from) = {} THEN NULL
                ELSE LeadingSlash(conf[Latest(AliasesOf(h, from))].to)

LEMMA ReadFinalize ==
    ASSUME IInv, ReadInv, lk_config_finalize
    PROVE  ReadInv' /\ SectionsAsWritten' /\ RootAsWritten'
<1>1. /\ pc = "args" /\ pc' = "ready" /\ UNCHANGED <<command, conf, line>>
      /\ cfg'.serverhost = Default(cfg.serverhost, <<"localhost">>)
      /\ cfg'.port = Default(cfg.port, <<"8000">>)
  BY DEF lk_config_finalize
<1>2. /\ conf \in Seq(Lines) /\ Len(conf) \in Nat /\ line \in Nat
      /\ DOMAIN conf = 1 .. Len(conf)
  <2>1. conf \in Seq(Lines) /\ line \in 0 .. Len(conf) + 1
    BY SetupsAssumption DEF IInv, TypeOK
  <2>2. QED
    BY <2>1
<1>3. ReadInv'
  BY <1>1 DEF ReadInv
<1>4. line > 0 => Sections(cfg, Len(conf))
  BY <1>1 DEF ReadInv, LinesRead
<1>5. \A h, key, from : /\ LinesOf(h, key)' = LinesOf(h, key)
                        /\ AliasesOf(h, from)' = AliasesOf(h, from)
  BY <1>1, SameLines
<1>6. \A h, key : Written(h, key)' = LastIn(LinesOf(h, key), Empty, Values)
  <2>1. \A h, key : Written(h, key)' = IF LinesOf(h, key) = {} THEN Empty
                                       ELSE conf[Latest(LinesOf(h, key))].value
    BY <1>1, <1>5 DEF Written
  <2>2. QED
    BY <1>2, <2>1, LinesAre, LastIs
<1>7. RootAsWritten'
  <2>1. ASSUME FileOnly', NEW f \in {"serverhost", "port"}
        PROVE  cfg[f] = Written(NULL, f)'
    <3>1. Matches(cfg[f], Empty, LinesOf(NULL, f), Values, Len(conf))
      BY <1>1, <1>2, <1>4, <2>1 DEF FileOnly, Sections
    <3>2. LinesOf(NULL, f) \subseteq 1 .. Len(conf)
      BY <1>2, LinesAre
    <3>3. QED
      BY <1>2, <1>6, <3>1, <3>2, MatchesAll
  <2>2. QED
    BY <1>1, <2>1 DEF RootAsWritten
<1>8. ASSUME line' > 0,
             NEW h \in (IF FileOnly THEN HostsWritten ELSE HostsWritten \ {AnyHost})'
      PROVE  HostAsWritten(h)'
  <2>1. Sections(cfg, Len(conf))
    BY <1>1, <1>4, <1>8
  <2>2. Fixed(h) /\ \E j \in 1 .. Len(conf) : conf[j].key = "hostname" /\ conf[j].value = h
    BY <1>1, <1>2, <1>8 DEF FileOnly, HostsWritten, Fixed
  <2>3. PICK k \in DOMAIN cfg.hostconfigs : cfg.hostconfigs[k].hostname = h
    BY <2>1, <2>2 DEF Sections
  <2> DEFINE c == cfg.hostconfigs[k]
             d == cfg'.hostconfigs[k]
  <2>4. Conforms(c, Len(conf))
    BY <2>1, <2>2, <2>3 DEF Sections
  <2>5. cfg.hostconfigs # << >>
    BY <2>3
  <2>6. /\ k \in DOMAIN cfg'.hostconfigs
        /\ d.hostname = h /\ d.homedir = c.homedir
        /\ d.proxyhost = c.proxyhost /\ d.aliases = c.aliases
        /\ d.cgidir = IF c.cgidir = Empty \/ c.homedir = Empty THEN c.cgidir
                      ELSE Slashes(c.cgidir)
    BY <2>3, <2>5, Finalized
  <2>7. c.hostname = h
    BY <2>3
  <2> HIDE DEF c, d
  <2>8. ASSUME NEW key \in HostKeys
        PROVE  c[key] = Written(h, key)'
    <3>1. Matches(c[key], Empty, LinesOf(h, key), Values, Len(conf))
      BY <2>4, <2>7 DEF Conforms
    <3>2. LinesOf(h, key) \subseteq 1 .. Len(conf)
      BY <1>2, LinesAre
    <3>3. QED
      BY <1>2, <1>6, <3>1, <3>2, MatchesAll
  <2>9. /\ c.homedir = Written(h, "homedir")' /\ c.proxyhost = Written(h, "proxyhost")'
        /\ c.cgidir = Written(h, "cgidir")'
    BY <2>8 DEF HostKeys
  <2>10. ASSUME NEW from \in Froms
         PROVE  lk_stringtable_get(c.aliases, from) =
                   IF AliasesOf(h, from) = {} THEN NULL
                   ELSE LeadingSlash(conf[Latest(AliasesOf(h, from))].to)
    <3> DEFINE A == AliasesOf(h, from)
               v == lk_stringtable_get(c.aliases, from)
    <3>1. Matches(v, NULL, A, Targets, Len(conf))
      BY <2>4, <2>7 DEF Conforms
    <3>2. A \subseteq 1 .. Len(conf)
      BY <1>2, AliasesAre
    <3> HIDE DEF A, v
    <3>3. v = LastIn(A, NULL, Targets)
      <4> DEFINE N == Len(conf)
                 f == Targets
      <4>1. N \in Nat /\ A \subseteq 1 .. N /\ Matches(v, NULL, A, f, N)
        BY <1>2, <3>1, <3>2
      <4> HIDE DEF N, f
      <4>2. {j \in A : j <= N} = A
        <5>1. \A j \in A : j <= N
          BY <4>1
        <5>2. QED
          BY <5>1
      <4>3. v = LastIn(A, NULL, f)
        BY <4>1, <4>2 DEF Matches, LastIn
      <4>4. QED
        BY <4>3 DEF f
    <3>4. v = IF A = {} THEN NULL ELSE LeadingSlash(conf[Latest(A)].to)
      BY <1>2, <3>2, <3>3, LastIs
    <3>5. QED
      BY <3>4 DEF A, v
  <2>11. ASSUME NEW from \in Froms'
         PROVE  lk_stringtable_get(d.aliases, from) =
                   IF AliasesOf(h, from)' = {} THEN NULL
                   ELSE LeadingSlash(conf'[Latest(AliasesOf(h, from)')].to)
    <3>1. from \in Froms
      BY <1>1, <2>11 DEF Froms
    <3>2. QED
      BY <1>1, <1>5, <2>6, <2>10, <3>1
  <2>12. d.cgidir = CgidirWritten(h)'
    <3>1. CgidirWritten(h)' =
             IF Written(h, "cgidir")' = Empty \/ Written(h, "homedir")' = Empty
             THEN Written(h, "cgidir")' ELSE Slashes(Written(h, "cgidir")')
      BY DEF CgidirWritten
    <3>2. QED
      BY <2>6, <2>9, <3>1
  <2>13. QED
    BY <2>6, <2>9, <2>11, <2>12 DEF HostAsWritten, d
<1>9. SectionsAsWritten'
  BY <1>1, <1>8 DEF SectionsAsWritten, HostAsWritten, Froms
<1>10. QED
  BY <1>3, <1>7, <1>9

-----------------------------------------------------------------------------
LEMMA InitSections ==
    ASSUME Init
    PROVE  SectionInv
<1>1. /\ cfg = [serverhost |-> Empty, port |-> Empty, hostconfigs |-> << >>]
      /\ pc = "args" /\ arg = 1 /\ line = 0 /\ state = "PA_NONE" /\ hc = 0
  BY DEF Init
<1>2. cfg.hostconfigs = << >> /\ DOMAIN << >> = {}
  BY <1>1
<1>3. ReadInv
  BY <1>1, <1>2 DEF ReadInv, Blank
<1>4. SectionsAsWritten /\ RootAsWritten
  BY <1>1 DEF SectionsAsWritten, RootAsWritten
<1>5. QED
  BY <1>3, <1>4, InitIInv DEF SectionInv

LEMMA NextSections ==
    ASSUME SectionInv, [Next]_vars
    PROVE  SectionInv'
<1>1. IInv'
  BY NextIInv DEF SectionInv
<1>2. CASE lk_config_finalize
  BY <1>1, <1>2, ReadFinalize DEF SectionInv
<1>3. CASE UNCHANGED vars
  <2>1. \A h, key, from : /\ LinesOf(h, key)' = LinesOf(h, key)
                          /\ AliasesOf(h, from)' = AliasesOf(h, from)
    BY <1>3, SameLines DEF vars
  <2>2. \A h, key : Written(h, key)' = Written(h, key)
    BY <1>3, <2>1 DEF vars, Written
  <2>3. \A h : CgidirWritten(h)' = CgidirWritten(h)
    BY <2>2 DEF CgidirWritten
  <2>4. SectionsAsWritten' /\ RootAsWritten'
    BY <1>3, <2>1, <2>2, <2>3 DEF SectionInv, SectionsAsWritten, RootAsWritten, FileOnly,
                            HostsWritten, vars
  <2>5. \A j : Section(j)' = Section(j)
    BY <1>3 DEF Section, vars
  <2>6. Current' <=> Current
    BY <1>3, <2>5 DEF Current, vars
  <2>7. pc # "ready" /\ line > 0 => Sections(cfg, LinesRead)'
    <3>1. LinesRead' = LinesRead /\ cfg' = cfg
      BY <1>3 DEF LinesRead, vars
    <3>2. ASSUME Sections(cfg, LinesRead) PROVE Sections(cfg, LinesRead)'
      BY <1>3, <3>1, <3>2, SectionsGoOn DEF vars
    <3>3. QED
      BY <3>2 DEF SectionInv, ReadInv
  <2>8. ReadInv'
    BY <1>3, <2>6, <2>7 DEF SectionInv, ReadInv, Blank, vars
  <2>9. QED
    BY <1>1, <2>4, <2>8 DEF SectionInv
<1>4. CASE Next /\ ~lk_config_finalize
  <2>1. ReadInv'
    BY <1>4, ReadArgs, ReadHostname, ReadRoot, ReadHost, ReadAlias, ReadSkipped,
       ReadFileEnds DEF Next, SectionInv
  <2>2. pc' # "ready"
    BY <1>4 DEF Next, AwaitFile, Help, CgidirArg, FileArg, HomedirArg, PortArg, HostArg,
                ExtraArg, NextArg, HostnameLine, RootLine, HostLine, AliasLine,
                SkippedLine, NextLine, FileEnds
  <2>3. QED
    BY <1>1, <2>1, <2>2 DEF SectionInv, SectionsAsWritten, RootAsWritten
<1>5. QED
  BY <1>2, <1>3, <1>4

\* The invariant with what has been read of the file.
THEOREM Reading == Spec => []SectionInv
BY InitSections, NextSections, PTL DEF Spec

\* The server starts with what the sections of the file say: for each host and
\* setting the last line in any of the host's sections, and no line of another.
THEOREM SectionsRight == Spec => []SectionsAsWritten
<1>1. SectionInv => SectionsAsWritten
  BY DEF SectionInv
<1>2. QED
  BY <1>1, Reading, PTL

\* The server's own address and port are those of the lines before the first
\* section, or the defaults.
THEOREM RootRight == Spec => []RootAsWritten
<1>1. SectionInv => RootAsWritten
  BY DEF SectionInv
<1>2. QED
  BY <1>1, Reading, PTL
=============================================================================
