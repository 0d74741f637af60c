# lkwebserver in TLA+

TLA+ models of `lkws`, the web server of this repository: a single-threaded,
`select()`-driven HTTP/1.0 server in C that serves files, runs CGI programs and
forwards requests to upstream servers. The modules are translated from the
source; TLC checks them on small instances, and TLAPS proves the central
invariants for any number of clients and descriptors, any request and response,
and any sequence of calls. File names below are relative to `src/`.

Run a check with `tlc -config MCSession.cfg MCLKHttpServer` (each `.cfg`
belongs to the `MC*` module named in the table of runs) and the proofs with
`tlapm LKServerProofs.tla`, and likewise for the other modules of section 4.

## 1. The system

One process, one thread. `lk_httpserver_serve` (lkhttpserver.c:102-211) waits in
`select()`, then goes once over the descriptors that are ready, in increasing
order, and calls one handler for each. All sessions share two `fd_set`s, the
highest descriptor number and one linked list of contexts.

| component | source | state it keeps | operations |
|---|---|---|---|
| event loop and session handlers | lkhttpserver.c | `readfds`, `writefds`, `maxfd`, the ready sets of the current pass | accept, `read_request`, `process_request`, `serve_cgi`, `serve_proxy`, `read_cgi_output`, `write_cgi_input`, `write_response`, `write_proxy_request`, `pipe_proxy_response`, `terminate_fd`, `terminate_client_session` |
| session contexts | lkcontext.c, lknet.h | the list `ctxhead`; in each context `type`, `selectfd`, `clientfd`, `cgifd`, `proxyfd` and buffers | add (two ways), find by `selectfd`, remove by `clientfd` or by `selectfd` |
| request reading | lknet.c (`LKSocketReader`), lkhttprequestparser.c | the reader's 1024-byte buffer, the current line, the partial line, the parser's flags and lengths | read a line, receive, parse a line, parse bytes |
| request objects | lkhttprequestparser.c, lknet.c (`LKHttpRequest`) | method, URI, path, query, headers, head and body of the request | parse the request line, the URI, a header line; make the head for an upstream |
| routing and replies | lkhttpserver.c, lknet.c (`LKHttpResponse`) | status, headers, head and body of the response; the environment of CGI programs | host, alias, cgidir, file, `setenv`, error replies, finalize |
| CGI output parser | lkhttpcgiparser.c | position in the collected output | header line, empty line, end |
| child processes | lklib.c | six pipe ends, two pids | `lk_popen3` |
| proxy forwarding | lkhttpserver.c, lknet.c | request buffers and queued response bytes, and how many of each are sent | `lk_buflist_write_all`, `lk_pipe_all`, `lk_read_all`, `lk_write_all` |
| configuration | lkconfig.c, lkws.c | server address, list of host configurations | arguments, file, finalize, find a host |
| strings | lkstring.c | a block that grows, the length of the text in it | assign, append, prepend, trim, chop, split |
| other containers, allocation table | lkbuffer.c, lkreflist.c, lkstringlist.c, lkstringtable.c, lkalloc.c | data | data |

How they interact: the kernel hands out the lowest free descriptor number and
the server knows its sessions by these numbers only, so everything depends on
`fd_set`s, contexts and the descriptor table agreeing at every step. The peers
(clients, CGI programs, upstreams) act at any time, between two handlers of one
pass as well. Request parser, CGI parser and replies work on the buffers of one
context and meet the rest only through "which handler comes next".

What is hard here, and hard to reach with a test:

* **descriptor reuse**: a handler closes 7, the next one of the same pass gets 7
  from `accept()`, `pipe()` or `socket()`, while 7 is still marked ready, still
  selected, or still in a context;
* **sessions that change what they wait for**: up to five states, each with its own
  descriptor and direction; a bit that is not cleared ends the server (EBADF),
  one that is not set hangs the client;
* **partial reads and writes**: head and body, request and forwarded response all
  go out in pieces; input is cut by the network and by two buffers;
* **failures in the middle**: no descriptors, no process, upstream refused or broken
  off, client gone;
* **state that outlives a request**: the environment that CGI programs inherit;
* **text without a terminator of its own**: `lk_string_append` relies on the zeros that
  some earlier call left behind the text;
* **configuration order**: hosts mentioned twice, arguments before and after the
  file.

What makes each component correct: *event loop*, the agreement above, and that
every client gets its own reply whole and then the end of the connection;
*request reading*, no byte lost and the request processed exactly when it is
complete; *request objects*, nothing of the request lost or invented on its way to an
upstream or a program; *forwarding*, bytes in order and an end that means all, both ways;
*replies*, the right file, the right length, a head with each header once; *strings*, text in, the same text
out; *configuration*, what the file says as a whole.

## 2. Modules

| module | models | uses |
|---|---|---|
| `LKContext` | lkcontext.c: the list and its operations, no variables | |
| `LKHttpServer` | the event loop, all handlers, the kernel's descriptor table, the peers | `LKContext`, `LKSession` (refinement) |
| `LKSession` | abstract: what a client is promised | |
| `LKRequestReader` | reading and parsing one request, byte by byte | |
| `LKProxy` | forwarding one request and its response, byte by byte | `LKExchange` (refinement) |
| `LKExchange` | abstract: first the request, then the response, success means all of both | |
| `LKString` | lkstring.c: the block of one string under any sequence of calls | `LKText` (refinement) |
| `LKText` | abstract: what these calls mean for a text | |
| `LKHosts` | string tables and host configurations, no variables | |
| `LKConfig` | arguments, configuration file, defaults | `LKHosts` |
| `LKRequestHead` | the parsed request, the head for an upstream, the environment for a program, no variables | `LKHosts` |
| `LKReply` | one request after the other: parsing, routing, the reply or the parsed CGI output | `LKRequestHead` |
| `LKServerTypes`, `LKServerProofs` | theorems about `LKHttpServer`, and lemmas about the lists of `LKContext` | |
| `LKRequestReaderProofs` | theorems about `LKRequestReader` | |
| `LKProxyProofs`, `LKStringProofs` | theorems about `LKProxy` and `LKString` | |
| `LKHostsProofs` | lemmas about tables and the list of host configurations | |
| `LKConfigProofs`, `LKReplyProofs` | theorems about `LKConfig` and `LKReply` | `LKHostsProofs` |
| `MC...` | instances for TLC | |

### LKHttpServer

A handler is one action; the loop's position is `pc` with what is left of the
ready sets (`cur_readfds`, `cur_writefds`). `Scan(f)` is the loop variable at the
next ready descriptor, `Advance(f)` goes on. `fdtab` is the kernel's descriptor
table with real numbers, `CloseFds` and `Lowest` what `close()` and the
allocating calls do to it. A descriptor number 0 in a context means "none", as
in the code. `Routes` says what `process_request` may make of a client's request
(that decision itself is `LKReply`), `Faults` which faults the environment shows.
The outcome of a write is one of the three the code tells apart (`Z_EOF`,
`Z_BLOCK`, `Z_ERR`), with `full` for the peers' full socket buffers and for connections that
`write_cgi_input` has shut for writing, taking them for a program's input. `conn` in
a context and `sent` are history: they change nothing.

Two choices need a word. `pc = "cgiread"`: `lk_read_all` reads the pipe of a CGI
program with a blocking `read()` (lknet.c:259; only the comments call it
nonblocking), so after the program's first output the only thread waits there for
the program's end. The model does too: no other handler runs, and liveness
depends on the program ending. And `add_new_client_context` compares with
every node but the last (lkcontext.c:143), although the comment says "Skip if ctx
clientfd already in list"; the model compares what the code compares.

### LKSession

One reply per connection: head and body of the server's own, or a forwarded
response; after an upstream broke off, an error reply behind a part of a
forwarded one. Then the connection ends. Each part carries the client it was made
for, so a reply delivered to the wrong client is not a behaviour of `LKSession`.
`LKHttpServer!ImplementsSession` states the refinement; most server actions are
stutters.

### LKRequestReader

Bytes are of a few kinds: newline, carriage return, blank, the name
`Content-Length:`, digits, others. An action is one turn of the loop in
`lk_socketreader_readline`, one `recv()`, or one error path, so bytes arrive
between two `recv()` calls of one handler. `req.head` is the lines read so far, end to end as
in the code; `nlinesread` counts them. The reference (`HeadEnd`,
`ContentLength`, `Complete`) looks at a whole stream at once. What the lines
mean is `LKRequestHead`'s.

### LKProxy, LKExchange

One request on its way: `write_proxy_request` sends the buffers of `buflist` (head and
body), one item for each event, some bytes for each `send()`, then shuts down its side;
`pipe_proxy_response` is `lk_pipe_all` in steps: read all there is, some `send()`s, end.
Three sockets of `UpRoom`, `BackRoom` and `Room` bytes lie between the server and its
peers. The upstream may answer, end or break off before it has read the request, the
client may break off at any time. `type = "failed"` is where the server goes on with an
error reply (`LKHttpServer`). `LKExchange` is the same seen from both ends; the
refinement mapping takes a byte as delivered when the socket has it.

### LKString, LKText

`s` is the block, a function from `0 .. s_size`; `memset`, `strncpy` and `memmove` are
`Zero`, `Write` and `Move`, which would write past the block if told to, so that `TypeOK`
sees it. `Realloc` returns the old contents and arbitrary junk. `call` is what a caller has asked
for. `lk_string_trim` is `TrimSpaces`, `TrimText` and a case of `NothingToDo`. A NUL can get
into a text by `append_char`; `LKText` counts it as a character.

### LKHosts, LKConfig

Text is a sequence of pieces with `/` a piece of its own, because slashes are what
the code looks at. `Pieces` is what texts are made of, any set with the few pieces the code itself
writes; `(null)`, the code's NULL, is none of them. A configuration line is the key and the value that
`lk_string_split_assign` makes of it; lines over 254 characters, which `fgets`
cuts in two, are left out.

### LKRequestHead, LKReply

A request comes as the lines of its head, whole or cut off anywhere, and a body.
`Split` is `lk_string_split`, `Token` and `AfterToken` are `strtok_r`; `Headers` takes the
header lines of a head one after the other and `Parsed` the whole head,
`lk_httprequest_finalize` makes the head for an upstream and
`set_cgi_env2` the environment for a program, which `LKReply` keeps in `env` from request
to request. The references (`Carries`, `Says`, `UriAsReference`, ...) are about the lines as
they were sent, without splitting or tables. A host, an alias, cgidir or file is chosen action by action as in
`process_request`. A CGI line ends where
`lk_buffer_readline` ends it, the full buffer included (`LineSize` for 1024). The
piece `Status` stands for the name in any case. The head of a reply is kept as it is sent, one
text for each line after the status line (`HeadLines`): the server's own `Content-Length`,
then the headers of the table, then the empty line. A NUL byte in CGI output, which
would end a line early for `strlen`, is not a byte of the model. The file system is a
function from paths to contents, and paths that lead out of the home directory are
outside its domain.

## 3. What the runs show

Every run of the table finishes in at most about three minutes with two workers.

| run | cfg, module | instance | shows |
|---|---|---|---|
| `session` | MCSession, MCLKHttpServer | 2 clients (one CGI or proxy, one CGI or answered at once), 10 descriptors, all faults but `reconnect`: clients go away at any moment, peers are slow, upstreams break off, `fork` and reads fail; 0.36 M states | the inductive invariant `IInv` with its parts, and the refinement of `LKSession` |
| `server_three` | MCServerThree, MCLKHttpServer | 3 clients that come again, 5 descriptors, refused upstreams; 0.53 M states | nothing lost and no stale readiness when `accept`, `pipe` and `socket` run out of descriptors |
| `server_after_body` | MCServerAfterBody, MCLKHttpServer | from the state a CGI request with a body leaves, writes blocking; 0.84 M states | `maxfd` holds even then, whatever the left-over context writes to, shuts or closes |
| `server_live` | MCServerLive, MCLKHttpServer | 2 clients, slow peers, fairness | every queued client is served and closed |
| `cgi_input` | MCServerCgiInput, MCLKHttpServer | 1 client with a body for a CGI program | *violated*, see 6 |
| `request` | MCRequest, MCLKRequestReader | 10 requests, reader's buffer of 3 bytes | reader and parser agree with the reference; processed exactly when complete, and always |
| `proxy` | MCProxy, MCLKProxy | head and body of 2 bytes, response of 5, sockets of 2 or 3; 3,224 states | order and completeness both ways, the end, the refinement of `LKExchange`, and that it ends |
| `proxy_queued` | MCProxyQueued, MCLKProxy | the same, silent upstream | *violated*, see 6 |
| `config` | MCConfig, MCLKConfig | all files of up to 4 lines out of 11, with 3 command lines, and 7 command lines without a file; 0.53 M states | the result is what the file's sections say as a whole, each value that of the last line for it |
| `config_homedir` | MCConfigHomedir, MCLKConfig | command lines without a file | *violated*, see 6 |
| `reply` | MCReply, MCLKReply | 4 sites, some 160 requests in any order, every CGI output of up to 6 bytes of 7 kinds, and a `Content-Length` line with up to 2 bytes before and after it; 0.49 M states | URI, forwarded head and environment are those of the request; file, head line by line, length and CGI body of the reply are right |
| `string` | MCString, MCLKString | a letter, a blank and NUL, texts of up to 4; 7,603 states | every sequence of calls keeps the block in bounds, zero behind the text, and computes what `LKText` says |

Why the bounds are enough. Two clients give every pair of handlers in one pass
and every hand-over of a number from one session to another; a CGI request needs
six descriptors for its pipes beside its client, so with 10 descriptors it succeeds while the other
session is open and `pipe()` fails half way for the second of two.
Three clients at 5 descriptors reach the exhaustion of `accept()` and chains of reuse
over three sessions; CGI always fails there, which is the case `session` does
not lack. Beyond these sizes the proofs take over. Symmetry over
clients is used only where routes are equal and no liveness is checked. A reader's
buffer of three bytes cuts each of the requests (up to eleven bytes) everywhere, and
requests hold each kind of boundary: no header, several `Content-Length`s, a body too short,
exact and too long, a pipelined second request, an end in the middle. Sockets
smaller than each buffer make every `send()` partial in every way. Six
output bytes hold a header with a value, an empty line and a body, in CR LF or LF,
and lines longer than `LineSize` 5; URIs hold slashes and question marks before and
after each other; two requests in a row are enough for one to leave something to the next,
and `reply` has every pair. A `Content-Length` of a program's own comes first, behind another
header or behind the empty line, and is true or not; `MaxLength` 9 is no bound on what is explored, it only says that
no body is longer, so that lengths can be told apart as words. Four lines hold a host mentioned twice with
another between, and two settings of one key with different values. Strings of four characters grow twice and
shrink from both sides. `AtMostThreeContexts` and
`AtMostThreeDeadSockets` bound the one run whose contexts may be left behind for ever;
three dead sockets are enough for the left-over context to act on a descriptor
that is not its own. There `PeersInOnePiece` keeps what peers send whole (requests,
output and responses in parts are in `session`), so that partial writes fit in.

Deadlock is checked in `reply` and `string`, whose models go on for ever. Elsewhere
`CHECK_DEADLOCK FALSE`: the server waits in `select()` when all
clients have been served and none comes again, and `LKRequestReader`, `LKProxy` and
`LKConfig` end with their one request, exchange or start.

### Fairness

* The server's thread runs: weak fairness of `Server` as a whole; nothing in the
  code lets it be anywhere but in a handler or in `select()`.
* Peers are patient but finite: a started request is completed (or the client ends its
  side), a CGI program exits, an upstream ends its response, a peer reads what it was
  sent. The code has no timeouts, so nothing is guaranteed with peers that do not.
* `SF(WholeWrite)`: each `send()` that `select()` announced takes at least one byte
  of a finite buffer, so infinitely many writes cannot all be partial.
* `LKProxy!PatientSpec`: the thread runs and both peers read what they were sent.
  `FairSpec` adds that the upstream answers to the end once it has seen the end of the
  request; before that it may answer early or not at all.

`EveryClientServed` is checked where descriptors suffice; when they do not, `accept()`
fails and the loop tries again for as long as none is freed.

## 4. What is proved

TLAPS checks the following, about the event loop for every set of clients, every `MaxFd`,
routing and set of faults, about reading for any requests, ends and size of the reader's
buffer, about forwarding for any bytes and socket sizes, about strings for any characters, arguments and lengths, about configuration and replies for any command lines,
files, sites, requests and CGI output ("nothing" assumed means nothing but the constant
assumptions of the module):

| theorem | statement | assumes |
|---|---|---|
| `TypeCorrect`, `MaxfdCorrect` (LKServerTypes) | `TypeOK`, `MaxfdCoversSets` | nothing |
| `Invariance` | `IInv` | `NoCgiBody` |
| `OwnershipHolds` | `ContextsHoldTheirOwnFds` | `NoCgiBody` |
| `NothingLost` | `NoDescriptorLost` | `NoCgiBody` |
| `SelectionMatches` | `SelectSetsMatchContexts` | `NoCgiBody` |
| `NeverStops` | `ServerKeepsRunning` | `NoCgiBody` |
| `ReadinessStaysTrue` | `ReadinessNeverStale` | `NoCgiBody` |
| `Implementation` | `ImplementsSession` | `NoCgiBody` |
| `Invariant`, `TypeCorrect` (LKRequestReaderProofs) | `IInv`, `TypeOK` | nothing |
| `NothingLost`, `ParsedRight` | `NoByteLost`, `ParsedAsReference` | nothing |
| `NotTooSoon`, `NotStranded` | `NeverTooSoon`, `NeverStranded` | nothing |
| `TypeCorrect` (LKProxyProofs) | `TypeOK` | nothing |
| `RequestForwardedInOrder`, `ResponseForwardedInOrder` | `RequestInOrder`, `ForwardedInOrder` | nothing |
| `SuccessMeansAll` | `DoneMeansAll` | nothing |
| `ForwardingImplementsExchange` | `ImplementsExchange` | nothing |
| `TypeCorrect`, `TailStaysZero` (LKStringProofs) | `TypeOK`, `TailIsZero` | nothing |
| `CallsImplementText` | `ImplementsText` | nothing |
| `TypeCorrect`, `OneConfig` (LKConfigProofs) | `TypeOK`, `OneConfigPerHost` | nothing |
| `CgidirIsOne` | `CgidirIsDirectory` | nothing |
| `Reading` | `SectionInv` | nothing |
| `SectionsRight`, `RootRight` | `SectionsAsWritten`, `RootAsWritten` | nothing |
| `TypeCorrect` (LKReplyProofs) | `TypeOK` | nothing |
| `LengthCorrect`, `HeadersOnce` | `LengthIsBody`, `OneOfEachHeader` | nothing |
| `UriCorrect`, `FilesCorrect` | `UriAsReference`, `FilesAsReference` | nothing |
| `CgiBodyCorrect`, `CgiErrorCorrect` | `CgiBodyAsReference`, `CgiErrorAsIs` | nothing |
| `EnvironmentCorrect` | `EnvironmentOfRequest` | nothing |
| `ForwardedCorrect` | `ForwardedAsRead` | nothing |

Besides `NoCgiBody` the theorems about the event loop rest on the four constant assumptions of `LKHttpServer`,
which say what the constants are. `NoCgiBody` says that no request with a body is routed to a CGI
program; it is necessary, as the run `cgi_input` shows: such a request makes a
context for a closed descriptor.

`TypeOK` is not inductive. `TypeInv` adds that contexts have a client descriptor, that open
descriptors of a session have an owner, that nothing is selected above `maxfd`, and that a
thread waiting in `read()` still finds its context. These hold without assumption.

For the rest the invariant is `FullInv`: `TypeInv`, `LiveInv` and `PassInv`. The
list of contexts is a detail the argument wants to be rid of, so
`LKServerTypes` first shows what its operations do to the *set* of contexts, `Live`,
when each connection has at most one. `LiveInv` says of that set that each
context owns the open descriptors it names, that every open descriptor has an owner,
that open connections and contexts correspond, and that the select sets are exactly
what the contexts wait for. `PassInv` says that what is left of the ready sets is still
selected and that the server has not stopped. Every server step is then one shape,
`Handled`: one event's context leaves the set and a changed one, or none, comes back,
with descriptors closed and opened accordingly. `HandledLive` and `HandledPass` prove
once that such a step keeps the invariant; each handler has a lemma that it is such a
step. The ready descriptors of other sessions stay selected because two
contexts never share a descriptor, which is `OwnDisjoint`. `FullInv` implies `IInv`,
and `ReadinessNeverStale` follows from it step by step: a step closes only the handled
session's descriptors, and what is still to be handled belongs to others.

The refinement of `LKSession` needs one invariant more, `SessionInv`: what has been sent to a
client, and how its upstream ended, go with the type of its context and with `items_cur`
(`Progress`). It is inductive together with `FullInv`, because a step that touches one
session touches one context (`Moved`). `NoneShut`, that no connection has been shut for
writing, is needed besides: a write that fails then means that the client is lost. Each handler is then one step of the abstract session
(a part sent, a connection accepted, closed or lost) or a stutter.

Reading: the invariant says at every position of the loop where the bytes of the stream are: taken
by the parser, in the line at hand, in the reader's buffer, or still in the socket
(`NoByteLost`), that the parser has been given whole lines only (`AtLines`, `Pieces`) and still
waits for bytes of the body that the reference waits for (`BodyAwaited`). Most of the proof is
about the reference alone: what one more line, or a part of one, does to `HeadEnd`,
`ContentLength` and `Complete`. `NeverTooSoon` and `NeverStranded` follow.

Forwarding: the invariant is `TypeOK` with the three order properties and `Phases`, which says
where each buffer stands in each phase (items before `items_cur` are sent and later ones
untouched; nothing is read before the request is out; the end of file was seen with all bytes
read). The steps of the refinement follow from it.

Strings: the invariant is `TypeOK /\ TailIsZero`. `TypeOK` alone does not give the refinement:
`lk_string_append` without growth writes no terminator, so the step is right only because the
tail was zero before it. Each call has one lemma that gives its block, its zeros and its text.

Configuration: `OneConfigPerHost` rests on one lemma, that `lk_config_create_get_hostconfig` adds
a configuration only for a host that has none and otherwise leaves the list as it is. For that, "the first
position that holds" (`FirstOf`) must be shown to exist and to be least, which
`LKHostsProofs` does. The invariant is `TypeOK`, by which the current host is always one of the list, with
the two properties and the fact that the file is read from its first line. `CgidirIsDirectory` is
established by the last step, `lk_config_finalize`, for every host at once.

Settings: `SectionsAsWritten` speaks of a whole file, so `SectionInv` says the same after any
number of lines: each setting of each host has the value of the last line for it so far in a
section of that host, or what an earlier reading left, and the current host is that of the
section at hand. One more line of the file changes "the last line for it" in one
place, which is what the lemmas of this part say. With two arguments the file is
read first and once; with one there is nothing to lose.

Replies: the first invariant says that no header is in the response twice, which
`lk_stringtable_set` keeps (a lemma of `LKHostsProofs`), and of one that is finished
that the first line of its head gives the length of its body. It needs no types. The rest needs lemmas about lines, words,
headers and URIs (what `lk_chomp`, `Split`, `Token` and the two URI functions return), from
which types follow. `Headers` recurs over the lines of a head; `Along` carries a fact
from each line to the next, as an induction over positions that the provers can do. Two
invariants finish it: `RouteInv`, how a request got to where it is (which host, what its path stands
for, that nothing has been put into the response before a handler does), and `HeadInv`, that
the reading of CGI output stands behind a line, that no empty line has been passed, and that a
`Content-Type` in the response came from the output.

The head of a reply: `LengthIsBody` and `OneOfEachHeader` are about the lines as a client reads
them, so a line must be shown to have the name it was made with and to be one line. `ReplyInv` has
that from the first header on: no name in the table is empty or holds a colon or a newline, no
value holds a newline, and a `Content-Length` is in the table only if it comes from CGI output. Each way a header gets there
(`OwnHeaders`, `TypeAdded`, `CgiHeaderAdded`) and each kind of reply has a lemma; `HeadLinesRead` turns
the table into the lines of the head and their names.

Requests passed on: `EnvironmentOfRequest` and `ForwardedAsRead` compare the end of a
chain, from lines to words, to a table, and to text or an environment again, with the lines
that were sent. `At(s, i, t)`, "`t` is in `s` behind `i`", carries a place through the chain.
`HeaderSays` finds name and value of one line where `Says` wants them; `LastSays` goes over
the lines and finds what the last line about a name says in the table. With `EnvInv`, that a
program's environment was made of the request as it was read, the first property follows. For
the second, `WordsOf` puts the first line together again from what `strtok_r()` took out
of it, `TableIs` says that no name or value holds a newline and no name a colon, so that
each header becomes one line (`HeaderLineIs`), and `LinesFollow` that a text made of whole
lines has those lines and no others. A line says only one thing of a name (`SaysOnce`),
so a client that told the truth about the length and the server's own header agree.
`ForwardInv` connects this to the steps. Both properties are about heads that are
`WellFormed`: a blank or colon at the start, or two in a row, is skipped by `strtok_r()`, so
that for `:a:b` the name is what stands behind the first colon. What does not depend on
the lines is stated without this condition.

Only model-checked is liveness (`EveryClientServed`, `RequestProcessed`,
`ForwardedInTheEnd`), which is out of this prover's reach. Every other property of a passing
run is a theorem.

## 5. Left out

* Memory other than that of strings: allocation, buffer capacity, the 8192-entry allocation table.
* Signals: SIGCHLD only reaps; SIGINT frees everything and exits.
* The child between `fork()` and `exec()`.
* Paths with `..`, and `REMOTE_PORT`, which is set with `REMOTE_ADDR` from the same address.
* NUL bytes in request lines and CGI output: in a request line they end the text for `strtok_r` and
  not for the reader. `LKString` has them, and shows that the block stays whole.
* Logging, printing, the unit tests and scratch programs, `backup/`.
* `lk_read`, `lk_write`, `remove_client_contexts` and everything else without a caller in the server.
  So `lk_string_append_sprintf`, which *assigns* a text of 1024 characters or more instead
  of appending it (lkstring.c:118): only lktest.c:80 calls it, with a short text.
* What `atoi()` and the conversion to an unsigned length make of a `Content-Length` is given
  (`Lengths`), a huge length for a negative number among it; that such a request waits for the end of its client follows.
* What an upstream does with the request; peers that never read. An upstream that
  answers before it has read the whole request and then waits would deadlock with the
  server, which does not read it meanwhile (lkhttpserver.c:693).
* Two kinds of descriptors that the code never closes are in the model (`deadsock`, a
  socket whose `connect()` failed, and `cgierr`, the read end of a CGI program's stderr
  pipe) and exempt from `NoDescriptorLost`: they are leaks that no text of the repository denies.

Behaviour of the code worth knowing and in the models without a run of its own: a
request that ends early is processed as far as it came (lkhttpserver.c:296); a CGI
header line over 1023 bytes is parsed as two; a header value ends at a second colon, so
that `Host: a:8080` is the host `a`, and is forwarded and put into the environment like
that; what follows a second `?` of a URI is dropped from the query; header names are told
apart by case, so that a client's `content-length` is forwarded beside the server's own
(lknet.c:617), and its `Content-Length` is forwarded as it is, true or not; a `Content-Length` that a CGI
program prints is sent as a second line behind the server's own, and never compared with it
(lknet.c:700-703), which is the exception in `LengthIsBody` and `OneOfEachHeader`; a program whose `fork()`
failed gives an empty reply (lklib.c:69); a failed upstream in the middle of a
response adds a whole error reply to it (`Broken` in `LKSession`); a client's
`reset` is noticed only when something is read from or written to it.

## 6. Where code and comments part

* `cgi_input`: `serve_cgi` closes `fd_in` (lkhttpserver.c:515) and then selects it to write
  the request body (line 537), although the comment at 524 says that the body is passed to the program.
  The next `select()` fails with EBADF and the server ends, or the number is reused first
  and the context belongs to another session's descriptor.
* `proxy_queued`: the comment at lknet.c:413 speaks of "queued up bytes waiting to be
  written"; they are written when the upstream does something, not when the
  client has room, because the client is not selected for writing (lkhttpserver.c:718).
* `config_homedir`: README.md:25 has the home directory default to the current one;
  with only `--cgidir=` on the command line it stays empty, because that argument has
  already made a host configuration and the default is for none at all (lkconfig.c:283).

## 7. Plan

Done, in this order: `LKContext`, `LKHttpServer` with its runs and proofs (the core),
`LKSession` (refinement), `LKRequestReader`, `LKHosts`, `LKConfig`, `LKReply`, `LKExchange` and
`LKProxy` with proofs, `LKRequestHead`, `LKText` and `LKString` with proofs, the proofs about
`LKConfig` and `LKReply`, the refinement of `LKSession`, the proofs about `LKRequestReader` and about the requests
that `LKReply` passes on.

Next, modules: `LKReply` composed with `LKConfig`, from command line to reply, so that hosts
are those a configuration produces and not a constant; an abstract specification of
`LKRequestReader`, "take the first complete request of a stream", and the refinement.

Next, proofs: that refinement, from the invariant of `LKRequestReaderProofs`; and what the composed module
promises, from the theorems about `LKConfig` and `LKReply`.
