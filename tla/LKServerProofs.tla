--------------------------- MODULE LKServerProofs ----------------------------
(***************************************************************************)
(* The structural safety of the server, for every set of clients, every     *)
(* limit on descriptors and every set of faults, as long as no request with *)
(* a body is routed to a CGI program: its contexts hold their own           *)
(* descriptors, none is lost, select() watches what the contexts wait for,  *)
(* and the server never stops.                                              *)
(*                                                                          *)
(* The argument works with the SET of live contexts: an event takes the     *)
(* context it is for out of the set and puts a changed one, or none, in     *)
(* (Handled), and every such change keeps the invariant (HandledLive).      *)
(*                                                                          *)
(* The second half proves that the server implements LKSession.             *)
(***************************************************************************)
EXTENDS LKServerTypes

Live == ToSet(ctxhead)

WaitsFor(C, types) == {x.selectfd : x \in {y \in C : y.type \in types}}

\* Descriptors that nobody has to close.
Unowned == {"free", "cgierr", "deadsock"}

LiveInv ==
    /\ OnePerConn(ctxhead)
    /\ \A x \in Live : OwnFds(x)
    /\ \A f \in Fds : \/ f = S0 \/ fdtab[f].kind \in Unowned
                      \/ \E x \in Live : f \in FdsOf(x)
    /\ \A c \in Conns : conn[c] = "open" <=> \E x \in Live : x.conn = c
    /\ readfds = {S0} \cup WaitsFor(Live, ReadTypes)
    /\ writefds = WaitsFor(Live, WriteTypes)
    /\ Listening

PassInv ==
    /\ SnapshotIsSelected
    /\ pc # "stopped"
    /\ pc = "cgiread" =>
          \A f \in Fds : Scan(f) =>
             \E x \in Live : x.selectfd = f /\ x.type = "CTX_READ_CGI_OUTPUT"

FullInv == TypeInv /\ LiveInv /\ PassInv

-----------------------------------------------------------------------------
(***************************************************************************)
(* What the invariant says about descriptors.                               *)
(***************************************************************************)
\* The contexts of the list are the live ones.
LEMMA LiveContexts ==
    ASSUME TypeInv
    PROVE  /\ Contexts = 1 .. Len(ctxhead) /\ ctxhead \in Seq(Ctxs)
           /\ Live = {ctxhead[k] : k \in Contexts}
           /\ Live \subseteq Ctxs
<1>1. Contexts = 1 .. Len(ctxhead) /\ ctxhead \in Seq(Ctxs)
  BY LenProperties DEF TypeInv, ContextsTyped, Contexts
<1>2. Live = {ctxhead[k] : k \in Contexts}
  BY DEF Live, ToSet, Contexts
<1>3. \A k \in Contexts : ctxhead[k] \in Ctxs
  BY <1>1, ElementOfSeq
<1> QED BY <1>1, <1>2, <1>3

\* A context that holds its own descriptors holds open ones; one of them is the
\* one it is selected on.
LEMMA OwnOpen ==
    ASSUME NEW x \in Ctxs, OwnFds(x), Listening, NEW f \in FdsOf(x)
    PROVE  /\ f \in Fds /\ f # S0
           /\ fdtab[f].kind \in {"client", "cgiout", "proxy"}
           /\ fdtab[f].conn = x.conn
BY CtxFields DEF OwnFds, Listening, FdsOf, Object

LEMMA OwnSelected ==
    ASSUME NEW x \in Ctxs, OwnFds(x)
    PROVE  /\ x.selectfd \in FdsOf(x) /\ x.clientfd \in FdsOf(x)
           /\ x.type \in ReadTypes \cup WriteTypes
BY DEF OwnFds, ShapeOK, FdsOf, ReadTypes, WriteTypes

\* Two contexts share no descriptor.
LEMMA OwnDisjoint ==
    ASSUME TypeInv, LiveInv, NEW x \in Live, NEW y \in Live,
           NEW f \in FdsOf(x), f \in FdsOf(y)
    PROVE  x = y
<1>1. x \in Ctxs /\ y \in Ctxs /\ OwnFds(x) /\ OwnFds(y) /\ Listening
  BY LiveContexts DEF LiveInv
<1>2. x.conn = y.conn
  BY <1>1, OwnOpen
<1>3. PICK i \in 1 .. Len(ctxhead), j \in 1 .. Len(ctxhead) :
        x = ctxhead[i] /\ y = ctxhead[j]
  BY LiveContexts
<1> QED BY <1>2, <1>3 DEF LiveInv, OnePerConn

\* What is selected is open.
LEMMA SelectedOpen ==
    ASSUME TypeInv, LiveInv, NEW f \in readfds \cup writefds
    PROVE  /\ f \in Fds /\ fdtab[f] # Free
           /\ f # S0 => \E x \in Live :
                           /\ x.selectfd = f
                           /\ f \in readfds => x.type \in ReadTypes
                           /\ f \in writefds => x.type \in WriteTypes
<1>1. CASE f = S0
  BY <1>1, FdsAreNat DEF LiveInv, Listening, Free, Object
<1>2. CASE f # S0
  <2>1. PICK x \in Live : x.selectfd = f
    BY <1>2 DEF LiveInv, WaitsFor
  <2>2. x \in Ctxs /\ OwnFds(x) /\ Listening
    BY <2>1, LiveContexts DEF LiveInv
  <2>3. f \in FdsOf(x)
    BY <2>1, <2>2, OwnSelected
  <2>4. f \in Fds /\ fdtab[f] # Free
    BY <2>2, <2>3, OwnOpen DEF Free, Object
  <2>5. ASSUME NEW y \in Live, y.selectfd = f PROVE y = x
    <3>1. y \in Ctxs /\ OwnFds(y)
      BY LiveContexts DEF LiveInv
    <3>2. f \in FdsOf(y)
      BY <2>5, <3>1, OwnSelected
    <3> QED BY <2>3, <3>2, OwnDisjoint
  <2>6. f \in readfds => x.type \in ReadTypes
    BY <1>2, <2>5 DEF LiveInv, WaitsFor
  <2>7. f \in writefds => x.type \in WriteTypes
    BY <1>2, <2>5 DEF LiveInv, WaitsFor
  <2> QED BY <2>1, <2>4, <2>6, <2>7
<1> QED BY <1>1, <1>2

\* The search of the list finds the one context that is selected on f.
LEMMA MatchedLive ==
    ASSUME TypeInv, LiveInv, NEW x \in Live
    PROVE  /\ Matched(x.selectfd) \in Contexts
           /\ ctxhead[Matched(x.selectfd)] = x
<1> DEFINE f == x.selectfd  k == Matched(f)
<1>1. \E i \in 1 .. Len(ctxhead) : ctxhead[i].selectfd = f
  BY LiveContexts
<1>2. k \in 1 .. Len(ctxhead) /\ ctxhead[k].selectfd = f
  BY <1>1, MatchSelect, LiveContexts DEF Matched
<1> HIDE DEF k
<1>3. ctxhead[k] \in Live /\ k \in Contexts
  BY <1>2, LiveContexts
<1>4. \A y \in Live : OwnFds(y) /\ y \in Ctxs
  BY LiveContexts DEF LiveInv
<1>5. f \in FdsOf(x) /\ f \in FdsOf(ctxhead[k])
  BY <1>2, <1>3, <1>4, OwnSelected
<1>6. ctxhead[k] = x
  BY <1>3, <1>5, OwnDisjoint
<1> QED BY <1>3, <1>6 DEF k

-----------------------------------------------------------------------------
(***************************************************************************)
(* One event: the contexts in O, all selected on f, give way to those in N. *)
(***************************************************************************)
Taken(O, g) == g \in FreeFds \/ \E x \in O : g \in FdsOf(x)

Handled(f, O, N) ==
    /\ O \subseteq Live /\ N \subseteq Ctxs
    /\ \A x \in O : x.selectfd = f
    /\ OnePerConn(ctxhead)' /\ Live' = (Live \ O) \cup N
    /\ \A x \in N : OwnFds(x)'
    /\ \A g \in Fds : fdtab'[g] # fdtab[g] => Taken(O, g)
    /\ \A g \in Fds : Taken(O, g) => \/ fdtab'[g].kind \in Unowned
                                     \/ \E x \in N : g \in FdsOf(x)
    /\ \A c \in Conns : conn'[c] = "open" <=>
          \/ conn[c] = "open" /\ ~ \E x \in O : x.conn = c
          \/ \E x \in N : x.conn = c
    /\ readfds' = (readfds \ WaitsFor(O, ReadTypes)) \cup WaitsFor(N, ReadTypes)
    /\ writefds' = (writefds \ WaitsFor(O, WriteTypes))
                     \cup WaitsFor(N, WriteTypes)

\* A descriptor that the event does not take keeps its object.
LEMMA HandledOthers ==
    ASSUME TypeInv, LiveInv, NEW f, NEW O, NEW N, Handled(f, O, N),
           NEW x \in Live \ O, NEW g \in FdsOf(x)
    PROVE  g \in Fds /\ fdtab'[g] = fdtab[g]
<1>1. x \in Ctxs /\ OwnFds(x) /\ Listening
  BY LiveContexts DEF LiveInv
<1>2. g \in Fds /\ g \notin FreeFds
  BY <1>1, OwnOpen DEF FreeFds, Free, Object
<1>3. \A y \in O : g \notin FdsOf(y)
  BY OwnDisjoint DEF Handled
<1> QED BY <1>2, <1>3 DEF Handled, Taken

\* The listening socket is not among those it takes.
LEMMA HandledListening ==
    ASSUME TypeInv, LiveInv, NEW f, NEW O, NEW N, Handled(f, O, N)
    PROVE  fdtab'[S0] = fdtab[S0]
<1>1. \A x \in Live : x \in Ctxs /\ OwnFds(x)
  BY LiveContexts DEF LiveInv
<1>2. S0 \in Fds /\ S0 \notin FreeFds
  BY FdsAreNat DEF LiveInv, Listening, FreeFds, Free, Object
<1>3. \A y \in O : S0 \notin FdsOf(y)
  BY <1>1, OwnOpen DEF Handled, LiveInv
<1> QED BY <1>2, <1>3 DEF Handled, Taken

\* The invariant is kept.
LEMMA HandledLive ==
    ASSUME TypeInv, LiveInv, NEW f, NEW O, NEW N, Handled(f, O, N)
    PROVE  LiveInv'
<1>0. \A x \in Live : x \in Ctxs /\ OwnFds(x)
  BY LiveContexts DEF LiveInv
<1>1. fdtab'[S0] = fdtab[S0]
  BY HandledListening
<1>2. ASSUME NEW x \in Live' PROVE OwnFds(x)'
  <2>1. CASE x \in N
    BY <2>1 DEF Handled
  <2>2. CASE x \in Live \ O
    <3>1. \A g \in FdsOf(x) : fdtab'[g] = fdtab[g]
      BY <2>2, HandledOthers
    <3>2. OwnFds(x)
      BY <1>0, <2>2
    <3>3. x.clientfd # 0
      BY <3>2 DEF OwnFds, ShapeOK
    <3> QED BY <3>1, <3>2, <3>3 DEF OwnFds, FdsOf
  <2> QED BY <1>2, <2>1, <2>2 DEF Handled
<1>3. ASSUME NEW g \in Fds
      PROVE  \/ g = S0 \/ fdtab'[g].kind \in Unowned
             \/ \E x \in Live' : g \in FdsOf(x)
  <2>1. CASE Taken(O, g)
    BY <2>1 DEF Handled
  <2>2. CASE ~Taken(O, g)
    <3>1. fdtab'[g] = fdtab[g]
      BY <2>2 DEF Handled
    <3>2. \A x \in Live : g \in FdsOf(x) => x \in Live'
      BY <2>2 DEF Taken, Handled
    <3> QED BY <3>1, <3>2 DEF LiveInv
  <2> QED BY <2>1, <2>2
<1>4. ASSUME NEW c \in Conns
      PROVE  conn'[c] = "open" <=> \E x \in Live' : x.conn = c
  <2>1. \A x \in Live, y \in Live : x.conn = y.conn => x = y
    BY LiveContexts DEF LiveInv, OnePerConn
  <2>2. conn[c] = "open" <=> \E x \in Live : x.conn = c
    BY DEF LiveInv
  <2>3. (\E x \in Live \ O : x.conn = c) <=>
           (conn[c] = "open" /\ ~ \E x \in O : x.conn = c)
    BY <2>1, <2>2 DEF Handled
  <2> QED BY <2>3 DEF Handled
<1>5. ASSUME NEW x \in Live \ O, NEW y \in O PROVE x.selectfd # y.selectfd
  BY <1>0, OwnSelected, OwnDisjoint DEF Handled
<1>6. readfds' = {S0} \cup WaitsFor(Live', ReadTypes)
  <2>1. S0 \notin WaitsFor(O, ReadTypes)
    BY <1>0, OwnSelected, OwnOpen DEF Handled, WaitsFor, LiveInv
  <2>2. WaitsFor(Live, ReadTypes) \ WaitsFor(O, ReadTypes)
          = WaitsFor(Live \ O, ReadTypes)
    BY <1>5 DEF WaitsFor
  <2>3. WaitsFor(Live', ReadTypes)
          = WaitsFor(Live \ O, ReadTypes) \cup WaitsFor(N, ReadTypes)
    BY DEF Handled, WaitsFor
  <2> QED BY <2>1, <2>2, <2>3 DEF Handled, LiveInv
<1>7. writefds' = WaitsFor(Live', WriteTypes)
  <2>1. WaitsFor(Live, WriteTypes) \ WaitsFor(O, WriteTypes)
          = WaitsFor(Live \ O, WriteTypes)
    BY <1>5 DEF WaitsFor
  <2>2. WaitsFor(Live', WriteTypes)
          = WaitsFor(Live \ O, WriteTypes) \cup WaitsFor(N, WriteTypes)
    BY DEF Handled, WaitsFor
  <2> QED BY <2>1, <2>2 DEF Handled, LiveInv
<1>8. OnePerConn(ctxhead)' /\ Listening'
  BY <1>1 DEF Handled, LiveInv, Listening, Object
<1> QED BY <1>2, <1>3, <1>4, <1>6, <1>7, <1>8 DEF LiveInv

\* So is the part about the pass; and what the pass has still to look at is
\* what it was when select() reported it.
LEMMA HandledPass ==
    ASSUME FullInv, NEW f, NEW O, NEW N, Handled(f, O, N), Advance(f)
    PROVE  /\ PassInv'
           /\ \A g \in cur_readfds' \cup cur_writefds' : fdtab'[g] = fdtab[g]
<1> USE DEF FullInv
<1>1. /\ cur_readfds' = cur_readfds \ {f} /\ cur_writefds' = cur_writefds \ {f}
      /\ pc' \in {"select", "pass"}
  BY DEF Advance
<1>2. \A types : WaitsFor(O, types) \subseteq {f}
  BY DEF Handled, WaitsFor
<1>3. SnapshotIsSelected'
  <2>1. cur_readfds \subseteq readfds /\ cur_writefds \subseteq writefds
    BY DEF PassInv, SnapshotIsSelected
  <2>2. readfds \ {f} \subseteq readfds' /\ writefds \ {f} \subseteq writefds'
    BY <1>2 DEF Handled
  <2> QED BY <1>1, <2>1, <2>2 DEF SnapshotIsSelected
<1>4. PassInv'
  BY <1>1, <1>3 DEF PassInv
<1>5. ASSUME NEW g \in cur_readfds' \cup cur_writefds'
      PROVE  fdtab'[g] = fdtab[g]
  <2>1. g # f /\ g \in readfds \cup writefds
    BY <1>1 DEF PassInv, SnapshotIsSelected
  <2>2. CASE g = S0
    BY <2>2, HandledListening
  <2>3. CASE g # S0
    <3>1. PICK x \in Live : x.selectfd = g
      BY <2>1, <2>3, SelectedOpen
    <3>2. x \in Live \ O
      BY <2>1, <3>1 DEF Handled
    <3>3. g \in FdsOf(x)
      BY <3>1, OwnSelected, LiveContexts DEF LiveInv
    <3> QED BY <3>2, <3>3, HandledOthers
  <2> QED BY <2>2, <2>3
<1> QED BY <1>4, <1>5

-----------------------------------------------------------------------------
(***************************************************************************)
(* What the statements of the handlers do to the live contexts.             *)
(***************************************************************************)
\* A changed context takes the place of the old one.
LEMMA Replaced ==
    ASSUME TypeInv, LiveInv, NEW x \in Live, NEW e \in Ctxs, e.conn = x.conn,
           ctxhead' = [ctxhead EXCEPT ![Matched(x.selectfd)] = e]
    PROVE  OnePerConn(ctxhead)' /\ Live' = (Live \ {x}) \cup {e}
<1> DEFINE k == Matched(x.selectfd)
<1>1. k \in 1 .. Len(ctxhead) /\ ctxhead[k] = x /\ ctxhead \in Seq(Ctxs)
  BY MatchedLive, LiveContexts
<1>0. OnePerConn(ctxhead)
  BY DEF LiveInv
<1> HIDE DEF k
<1>2. /\ ToSet([ctxhead EXCEPT ![k] = e])
           = (ToSet(ctxhead) \ {ctxhead[k]}) \cup {e}
      /\ OnePerConn([ctxhead EXCEPT ![k] = e])
  <2>1. e.conn = ctxhead[k].conn /\ e \in Ctxs
    BY <1>1
  <2>2. k \in 1 .. Len(ctxhead) /\ ctxhead \in Seq(Ctxs)
    BY <1>1
  <2> QED BY ONLY <1>0, <2>1, <2>2, ReplaceSet
<1>3. ctxhead' = [ctxhead EXCEPT ![k] = e]
  BY DEF k
<1> QED BY <1>1, <1>2, <1>3 DEF Live

\* The context of a session that ends is the one that is removed.
LEMMA Removed ==
    ASSUME TypeInv, LiveInv, NEW x \in Live,
           ctxhead' = remove_client_context(ctxhead, x.clientfd)
    PROVE  OnePerConn(ctxhead)' /\ Live' = Live \ {x}
<1>1. PICK k \in 1 .. Len(ctxhead) : ctxhead[k] = x
  BY LiveContexts
<1>2. ASSUME NEW i \in 1 .. Len(ctxhead), ctxhead[i].clientfd = x.clientfd
      PROVE  i = k
  <2>1. ctxhead[i] \in Live
    BY LiveContexts
  <2>2. \A y \in Live : y.clientfd \in FdsOf(y)
    BY OwnSelected, LiveContexts DEF LiveInv
  <2>3. ctxhead[i] = x
    BY <1>2, <2>1, <2>2, OwnDisjoint
  <2> QED BY <1>1, <2>3 DEF LiveInv, OnePerConn
<1>3. ctxhead \in Seq(Ctxs)
  BY LiveContexts
<1>4. ctxhead' = RemoveAt(ctxhead, k)
  BY <1>1, <1>2, <1>3, RemoveClient
<1> QED BY <1>1, <1>3, <1>4, RemoveAtSet DEF Live, LiveInv

\* A session is answered: its client descriptor is kept, what else it held is
\* closed, and nothing is opened that has an owner.
LEMMA AnswerHandled ==
    ASSUME TypeInv, LiveInv, NEW x \in Live, NEW ctx \in Ctxs,
           ctx.clientfd = x.clientfd, ctx.conn = x.conn,
           ctx.cgifd = 0, ctx.proxyfd = 0,
           process_response(Matched(x.selectfd), ctx,
                            writefds \ WaitsFor({x}, WriteTypes)),
           readfds' = readfds \ WaitsFor({x}, ReadTypes),
           \A g \in Fds : fdtab'[g] # fdtab[g] =>
              g \in FreeFds \/ g \in FdsOf(x) \ {x.clientfd},
           \A g \in Fds : g \in FreeFds \/ g \in FdsOf(x) \ {x.clientfd} =>
              fdtab'[g].kind \in Unowned,
           \A c \in Conns : conn'[c] = "open" <=> conn[c] = "open"
    PROVE  \E e \in Ctxs : Handled(x.selectfd, {x}, {e})
<1> DEFINE e == [ctx EXCEPT !.selectfd = ctx.clientfd,
                            !.type = "CTX_WRITE_RESP", !.items_cur = 0]
<1>1. e = Rec("CTX_WRITE_RESP", x.clientfd, x.clientfd, 0, 0, 0,
              ctx.respbuf, x.conn)
  BY AnswerFields
<1>2. /\ ctxhead' = [ctxhead EXCEPT ![Matched(x.selectfd)] = e]
      /\ writefds' = (writefds \ WaitsFor({x}, WriteTypes)) \cup {x.clientfd}
  BY DEF process_response
<1> HIDE DEF e
<1>3. /\ e.type = "CTX_WRITE_RESP" /\ e.selectfd = x.clientfd
      /\ e.clientfd = x.clientfd /\ e.cgifd = 0 /\ e.proxyfd = 0
      /\ e.conn = x.conn
  BY <1>1 DEF Rec
<1>4. e \in Ctxs
  <2>1. "CTX_WRITE_RESP" \in CtxType /\ 0 \in 0 .. 2
    BY DEF CtxType
  <2>2. x \in Ctxs
    BY LiveContexts
  <2> QED BY <1>1, <2>1, <2>2, CtxFields, RecTyped
<1>5. OnePerConn(ctxhead)' /\ Live' = (Live \ {x}) \cup {e}
  BY <1>2, <1>3, <1>4, Replaced
<1>6. x \in Ctxs /\ OwnFds(x) /\ x.clientfd \in FdsOf(x) /\ x.clientfd \in Fds
      /\ fdtab[x.clientfd] # Free
  BY OwnSelected, OwnOpen, LiveContexts DEF LiveInv, Free, Object
<1>7. fdtab'[x.clientfd] = fdtab[x.clientfd]
  BY <1>6 DEF FreeFds
<1>8. OwnFds(e)'
  BY <1>3, <1>6, <1>7 DEF OwnFds, ShapeOK
<1>9. FdsOf(e) = {x.clientfd}
  <2>1. x.clientfd # 0
    BY <1>6 DEF OwnFds, ShapeOK
  <2> QED BY <1>3, <2>1 DEF FdsOf
<1>10. WaitsFor({e}, ReadTypes) = {} /\ WaitsFor({e}, WriteTypes) = {x.clientfd}
  BY <1>3 DEF WaitsFor, ReadTypes, WriteTypes
<1>11. conn[x.conn] = "open"
  BY LiveContexts, CtxFields DEF LiveInv
<1>12. ASSUME NEW c \in Conns
       PROVE  conn'[c] = "open" <=>
                \/ conn[c] = "open" /\ ~ \E y \in {x} : y.conn = c
                \/ \E y \in {e} : y.conn = c
  BY <1>3, <1>11
<1>13. /\ \A g \in Fds : fdtab'[g] # fdtab[g] => Taken({x}, g)
       /\ \A g \in Fds : Taken({x}, g) => \/ fdtab'[g].kind \in Unowned
                                          \/ \E y \in {e} : g \in FdsOf(y)
  BY <1>9 DEF Taken
<1>14. Handled(x.selectfd, {x}, {e})
  BY <1>2, <1>4, <1>5, <1>8, <1>10, <1>12, <1>13 DEF Handled
<1> QED BY <1>4, <1>14

\* A session ends: all its descriptors are closed.
LEMMA TerminateHandled ==
    ASSUME TypeInv, LiveInv, NEW x \in Live, NEW buffers,
           terminate_client_session(x, buffers)
    PROVE  Handled(x.selectfd, {x}, {})
<1>1. x \in Ctxs /\ OwnFds(x) /\ Listening /\ x.clientfd \in FdsOf(x)
  BY LiveContexts, OwnSelected DEF LiveInv
<1>2. OnePerConn(ctxhead)' /\ Live' = Live \ {x}
  BY Removed DEF terminate_client_session
<1>3. \A g \in Fds : fdtab'[g] = IF g \in FdsOf(x) THEN Free ELSE fdtab[g]
  BY DEF terminate_client_session, CloseFds
<1>4. ClosedConns("client", FdsOf(x)) = {x.conn}
  <2>1. fdtab[x.clientfd] = Object("client", x.conn) /\ x.conn \in Conns
    BY <1>1, CtxFields DEF OwnFds
  <2>2. \A g \in FdsOf(x) : fdtab[g].conn = x.conn
    BY <1>1, OwnOpen
  <2> QED BY <1>1, <2>1, <2>2 DEF ClosedConns, Object
<1>5. \A c \in Conns : conn'[c] = IF c = x.conn THEN "closed" ELSE conn[c]
  BY <1>4 DEF terminate_client_session, CloseFds
<1>6. ASSUME NEW types, NEW set, WaitsFor({x}, types) \subseteq set,
             set \subseteq readfds \/ set \subseteq writefds,
             x.type \in types \/ x.selectfd \notin set
      PROVE  set \ FdsOf(x) = set \ WaitsFor({x}, types)
  <2>1. ASSUME NEW g \in set, g \in FdsOf(x) PROVE g = x.selectfd
    <3>1. g # S0 /\ g \in readfds \cup writefds
      BY <1>1, <1>6, <2>1, OwnOpen
    <3>2. PICK y \in Live : y.selectfd = g
      BY <3>1, SelectedOpen
    <3>3. g \in FdsOf(y)
      BY <3>2, OwnSelected, LiveContexts DEF LiveInv
    <3> QED BY <2>1, <3>2, <3>3, OwnDisjoint
  <2>2. x.selectfd \in FdsOf(x)
    BY <1>1, OwnSelected
  <2> QED BY <1>6, <2>1, <2>2 DEF WaitsFor
<1>7. /\ WaitsFor({x}, ReadTypes) \subseteq readfds
      /\ WaitsFor({x}, WriteTypes) \subseteq writefds
  BY DEF LiveInv, WaitsFor
<1>8. /\ x.type \in ReadTypes \/ x.selectfd \notin readfds
      /\ x.type \in WriteTypes \/ x.selectfd \notin writefds
  <2>1. x.selectfd # S0 /\ x.selectfd \in FdsOf(x)
    BY <1>1, OwnSelected, OwnOpen
  <2>2. \A y \in Live : y.selectfd = x.selectfd => y = x
    BY <2>1, OwnSelected, OwnDisjoint, LiveContexts DEF LiveInv
  <2> QED BY <2>1, <2>2, SelectedOpen
<1>9. /\ readfds' = readfds \ WaitsFor({x}, ReadTypes)
      /\ writefds' = writefds \ WaitsFor({x}, WriteTypes)
  BY <1>6, <1>7, <1>8 DEF terminate_client_session
<1>10. \A types : WaitsFor({}, types) = {}
  BY DEF WaitsFor
<1>11. /\ \A g \in Fds : fdtab'[g] # fdtab[g] => Taken({x}, g)
       /\ \A g \in Fds : Taken({x}, g) => fdtab'[g].kind \in Unowned
  BY <1>3 DEF Taken, FreeFds, Unowned, Free, Object
<1>12. ASSUME NEW c \in Conns
       PROVE  conn'[c] = "open" <=>
                \/ conn[c] = "open" /\ ~ \E y \in {x} : y.conn = c
                \/ \E y \in {} : y.conn = c
  BY <1>5
<1> QED BY <1>2, <1>9, <1>10, <1>11, <1>12 DEF Handled

\* A session goes on: it keeps what it holds and may get a free descriptor.
LEMMA SwitchHandled ==
    ASSUME TypeInv, LiveInv, NEW x \in Live, NEW e \in Ctxs,
           e.conn = x.conn, FdsOf(x) \subseteq FdsOf(e), OwnFds(e)',
           ctxhead' = [ctxhead EXCEPT ![Matched(x.selectfd)] = e],
           readfds' = (readfds \ WaitsFor({x}, ReadTypes))
                        \cup WaitsFor({e}, ReadTypes),
           writefds' = (writefds \ WaitsFor({x}, WriteTypes))
                         \cup WaitsFor({e}, WriteTypes),
           \A g \in Fds : fdtab'[g] # fdtab[g] => g \in FreeFds,
           \A g \in FreeFds : fdtab'[g].kind \in Unowned \/ g \in FdsOf(e),
           \A c \in Conns : conn'[c] = conn[c]
    PROVE  Handled(x.selectfd, {x}, {e})
<1>1. OnePerConn(ctxhead)' /\ Live' = (Live \ {x}) \cup {e}
  BY Replaced
<1>2. conn[x.conn] = "open"
  BY LiveContexts, CtxFields DEF LiveInv
<1>3. ASSUME NEW c \in Conns
       PROVE  conn'[c] = "open" <=>
                \/ conn[c] = "open" /\ ~ \E y \in {x} : y.conn = c
                \/ \E y \in {e} : y.conn = c
  BY <1>2
<1>4. /\ \A g \in Fds : fdtab'[g] # fdtab[g] => Taken({x}, g)
      /\ \A g \in Fds : Taken({x}, g) => \/ fdtab'[g].kind \in Unowned
                                         \/ \E y \in {e} : g \in FdsOf(y)
  BY DEF Taken
<1> QED BY <1>1, <1>3, <1>4 DEF Handled

\* Nothing happens.
LEMMA NothingHandled ==
    ASSUME TypeInv, LiveInv, UNCHANGED <<ctxhead, readfds, writefds, fdtab, conn>>,
           NEW f
    PROVE  Handled(f, {}, {})
<1>1. OnePerConn(ctxhead)' /\ Live' = (Live \ {}) \cup {}
  BY DEF LiveInv, OnePerConn, Live
<1>2. \A types : WaitsFor({}, types) = {}
  BY DEF WaitsFor
<1>3. \A g \in Fds : Taken({}, g) => fdtab'[g].kind \in Unowned
  BY DEF Taken, FreeFds, Free, Object, Unowned
<1> QED BY <1>1, <1>2, <1>3 DEF Handled

-----------------------------------------------------------------------------
(***************************************************************************)
(* The events.                                                              *)
(***************************************************************************)
\* What an event on f does to the contexts is of the form that keeps the
\* invariant.
Step(f) == \E O \in SUBSET Live, N \in SUBSET Ctxs : Handled(f, O, N)

\* The handler of an event is called for the live context selected on it.
LEMMA EventContext ==
    ASSUME FullInv, NEW f, ReadEvent(f) \/ WriteEvent(f)
    PROVE  \E x \in Live :
              /\ x.selectfd = f /\ f # S0 /\ Matched(f) # 0
              /\ ctxhead[Matched(f)] = x
              /\ x \in Ctxs /\ OwnFds(x)
              /\ ReadEvent(f)  => x.type \in ReadTypes
              /\ WriteEvent(f) => x.type \in WriteTypes
<1> USE DEF FullInv
<1>1. f \in readfds \cup writefds /\ (ReadEvent(f) => f \in readfds)
      /\ (WriteEvent(f) => f \in writefds)
  BY DEF ReadEvent, WriteEvent, Scan, PassInv, SnapshotIsSelected
<1>2. f # S0
  <2>1. CASE ReadEvent(f)
    BY <2>1 DEF ReadEvent
  <2>2. CASE WriteEvent(f)
    <3>1. f \in WaitsFor(Live, WriteTypes)
      BY <1>1, <2>2 DEF LiveInv
    <3>2. PICK y \in Live : y.selectfd = f
      BY <3>1 DEF WaitsFor
    <3> QED BY <3>2, OwnSelected, OwnOpen, LiveContexts DEF LiveInv
  <2> QED BY <2>1, <2>2
<1>3. PICK x \in Live : /\ x.selectfd = f
                        /\ f \in readfds => x.type \in ReadTypes
                        /\ f \in writefds => x.type \in WriteTypes
  BY <1>1, <1>2, SelectedOpen
<1>4. Matched(f) \in Contexts /\ ctxhead[Matched(f)] = x
  BY <1>3, MatchedLive
<1>5. Matched(f) # 0
  BY <1>4, LiveContexts
<1>6. x \in Ctxs /\ OwnFds(x)
  BY LiveContexts DEF LiveInv
<1> QED BY <1>1, <1>2, <1>3, <1>4, <1>5, <1>6

\* No event is for a descriptor without a context, of a context of the wrong
\* type, or of one that feeds a CGI program.
LEMMA ImpossibleEvents ==
    ASSUME FullInv, NEW f
    PROVE  ~TerminateOrphan(f) /\ ~UnknownType(f) /\ ~WriteCgiInput(f)
<1>1. ~TerminateOrphan(f)
  BY EventContext DEF TerminateOrphan
<1>2. ~UnknownType(f)
  BY EventContext DEF UnknownType, ReadTypes, WriteTypes
<1>3. ~WriteCgiInput(f)
  BY EventContext DEF WriteCgiInput, WriteEventOf, WriteTypes
<1> QED BY <1>1, <1>2, <1>3

\* accept().
LEMMA StepAccept ==
    ASSUME FullInv, NEW c \in Conns, Accept(c) PROVE Step(S0)
<1> USE DEF FullInv
<1>1. PICK fd \in Fds : fd = Lowest(FreeFds) /\ fd \in FreeFds
  BY LowestIn DEF Accept, FreeFds
<1> DEFINE e == create_initial_context(fd, c)
<1>2. /\ fdtab' = [fdtab EXCEPT ![fd] = Object("client", c)]
      /\ readfds' = readfds \cup {fd}
      /\ ctxhead' = add_new_client_context(ctxhead, e)
      /\ conn' = [conn EXCEPT ![c] = "open"] /\ conn[c] = "queued"
      /\ writefds' = writefds
  BY <1>1 DEF Accept
<1>3. e \in Ctxs
  <2>1. e = Rec("CTX_READ_REQ", fd, fd, 0, 0, 0, FALSE, c)
    BY DEF create_initial_context, Rec
  <2>2. "CTX_READ_REQ" \in CtxType /\ 0 \in 0 .. 2
    BY DEF CtxType
  <2> HIDE DEF e
  <2> QED BY <1>1, <2>1, <2>2, RecTyped
<1>4. /\ e.type = "CTX_READ_REQ" /\ e.selectfd = fd /\ e.clientfd = fd
      /\ e.cgifd = 0 /\ e.proxyfd = 0 /\ e.conn = c
  BY DEF create_initial_context
<1> HIDE DEF e
<1>5. ASSUME NEW x \in Live PROVE x.conn # c /\ x.clientfd # fd
  <2>1. x.conn # c
    BY <1>2 DEF LiveInv
  <2>2. x \in Ctxs /\ OwnFds(x) /\ Listening
    BY LiveContexts DEF LiveInv
  <2>3. fdtab[x.clientfd].kind # "free"
    BY <2>2, OwnSelected, OwnOpen
  <2> QED BY <1>1, <2>1, <2>3 DEF FreeFds, Free, Object
<1>6. OnePerConn(ctxhead)' /\ Live' = (Live \ {}) \cup {e}
  <2>1. \A i \in 1 .. Len(ctxhead) : ctxhead[i] \in Live
    BY LiveContexts
  <2>2. /\ \A i \in 1 .. Len(ctxhead) : ctxhead[i].conn # e.conn
        /\ \A i \in 1 .. Len(ctxhead) : ctxhead[i].clientfd # e.clientfd
    BY <1>4, <1>5, <2>1
  <2>3. ctxhead \in Seq(Ctxs) /\ OnePerConn(ctxhead)
    BY LiveContexts DEF LiveInv
  <2>4. /\ ToSet(add_new_client_context(ctxhead, e)) = ToSet(ctxhead) \cup {e}
        /\ OnePerConn(add_new_client_context(ctxhead, e))
    BY ONLY <1>3, <2>2, <2>3, AddNewSet
  <2> QED BY <1>2, <2>4 DEF Live
<1>8. \A g \in Fds : fdtab'[g] = IF g = fd THEN Object("client", c) ELSE fdtab[g]
  BY <1>1, <1>2 DEF TypeInv, TableTyped
<1>9. OwnFds(e)'
  BY <1>1, <1>4, <1>8, FdsAreNat DEF OwnFds, ShapeOK
<1>10. fd \in FdsOf(e)
  BY <1>1, <1>4, FdsAreNat DEF FdsOf
<1>11. /\ \A g \in Fds : fdtab'[g] # fdtab[g] => Taken({}, g)
       /\ \A g \in Fds : Taken({}, g) => \/ fdtab'[g].kind \in Unowned
                                         \/ \E y \in {e} : g \in FdsOf(y)
  BY <1>1, <1>8, <1>10 DEF Taken, FreeFds, Free, Object, Unowned
<1>12. /\ WaitsFor({e}, ReadTypes) = {fd} /\ WaitsFor({e}, WriteTypes) = {}
       /\ \A types : WaitsFor({}, types) = {}
  BY <1>4 DEF WaitsFor, ReadTypes, WriteTypes
<1>13. \A d \in Conns : conn'[d] = "open" <=>
          \/ conn[d] = "open" /\ ~ \E y \in {} : y.conn = d
          \/ \E y \in {e} : y.conn = d
  BY <1>2, <1>4 DEF TypeInv, PeersTyped
<1>14. Handled(S0, {}, {e})
  BY <1>2, <1>3, <1>6, <1>9, <1>11, <1>12, <1>13 DEF Handled
<1> QED BY <1>3, <1>14 DEF Step

\* What is not waited for any more, by the type of the context.
LEMMA WaitsForOne ==
    ASSUME NEW x
    PROVE  /\ x.type \in ReadTypes =>
                /\ WaitsFor({x}, ReadTypes) = {x.selectfd}
                /\ WaitsFor({x}, WriteTypes) = {}
           /\ x.type \in WriteTypes =>
                /\ WaitsFor({x}, ReadTypes) = {}
                /\ WaitsFor({x}, WriteTypes) = {x.selectfd}
BY DEF WaitsFor, ReadTypes, WriteTypes

\* A request is answered at once.
LEMMA StepReply ==
    ASSUME FullInv, NEW x \in Live, x.type = "CTX_READ_REQ",
           process_response(Matched(x.selectfd), x, writefds),
           readfds' = readfds \ {x.selectfd}, conn' = conn,
           \A g \in Fds : fdtab'[g] # fdtab[g] => g \in FreeFds,
           \A g \in FreeFds : fdtab'[g].kind \in Unowned
    PROVE  Step(x.selectfd)
<1> USE DEF FullInv
<1>1. /\ x \in Ctxs /\ OwnFds(x) /\ x.cgifd = 0 /\ x.proxyfd = 0
  BY LiveContexts DEF LiveInv, OwnFds, ShapeOK
<1>2. /\ WaitsFor({x}, ReadTypes) = {x.selectfd}
      /\ writefds \ WaitsFor({x}, WriteTypes) = writefds
  BY WaitsForOne DEF ReadTypes
<1>3. FdsOf(x) \ {x.clientfd} = {}
  BY <1>1 DEF FdsOf
<1> QED BY <1>1, <1>2, <1>3, AnswerHandled DEF Step

\* serve_cgi, for a request without a body.
LEMMA StepServeCgi ==
    ASSUME FullInv, NEW x \in Live, x.type = "CTX_READ_REQ",
           serve_cgi(Matched(x.selectfd), x, x.conn, FALSE,
                     readfds \ {x.selectfd})
    PROVE  Step(x.selectfd)
<1> USE DEF FullInv
<1>1. /\ x \in Ctxs /\ OwnFds(x) /\ x.cgifd = 0 /\ x.proxyfd = 0
      /\ x.selectfd = x.clientfd /\ x.clientfd # 0 /\ x.conn \in Conns
  BY LiveContexts, CtxFields DEF LiveInv, OwnFds, ShapeOK
<1>2. /\ WaitsFor({x}, ReadTypes) = {x.selectfd}
      /\ WaitsFor({x}, WriteTypes) = {}
  BY WaitsForOne DEF ReadTypes
<1>3. CASE /\ process_response(Matched(x.selectfd), x, writefds)
           /\ readfds' = readfds \ {x.selectfd}
           /\ UNCHANGED <<fdtab, conn, peers, sent>>
  <2>1. \A g \in FreeFds : fdtab'[g].kind \in Unowned
    BY <1>3 DEF FreeFds, Free, Object, Unowned
  <2> QED BY <1>3, <2>1, StepReply
<1>4. CASE ~ (/\ process_response(Matched(x.selectfd), x, writefds)
              /\ readfds' = readfds \ {x.selectfd}
              /\ UNCHANGED <<fdtab, conn, peers, sent>>)
  <2>1. PICK fd : fd = lk_popen3(FreeFds)
    OBVIOUS
  <2>2. Cardinality(FreeFds) >= 6
    BY <1>4 DEF serve_cgi
  <2>3. /\ fd.fd_out \in FreeFds /\ fd.err \in FreeFds /\ fd.fd_out # fd.err
        /\ fd.fd_out \in Fds /\ fd.err \in Fds
    BY <2>1, <2>2, PopenFds DEF FreeFds
  <2> DEFINE e == [x EXCEPT !.selectfd = fd.fd_out, !.cgifd = fd.fd_out,
                            !.type = "CTX_READ_CGI_OUTPUT"]
  <2>4. /\ fdtab' = [fdtab EXCEPT ![fd.fd_out] = Object("cgiout", x.conn),
                                  ![fd.err] = Object("cgierr", x.conn)]
        /\ readfds' = (readfds \ {x.selectfd}) \cup {fd.fd_out}
        /\ ctxhead' = [ctxhead EXCEPT ![Matched(x.selectfd)] = e]
        /\ writefds' = writefds /\ conn' = conn
    BY <1>4, <2>1 DEF serve_cgi
  <2>5. e = Rec("CTX_READ_CGI_OUTPUT", fd.fd_out, x.clientfd, fd.fd_out,
                x.proxyfd, x.items_cur, x.respbuf, x.conn)
    BY <1>1, CgiFields
  <2> HIDE DEF e
  <2>6. e \in Ctxs
    <3>1. "CTX_READ_CGI_OUTPUT" \in CtxType
      BY DEF CtxType
    <3> QED BY <1>1, <2>3, <2>5, <3>1, CtxFields, RecTyped
  <2>7. /\ e.type = "CTX_READ_CGI_OUTPUT" /\ e.selectfd = fd.fd_out
        /\ e.clientfd = x.clientfd /\ e.cgifd = fd.fd_out /\ e.proxyfd = 0
        /\ e.conn = x.conn
    BY <1>1, <2>5 DEF Rec
  <2>8. /\ WaitsFor({e}, ReadTypes) = {fd.fd_out}
        /\ WaitsFor({e}, WriteTypes) = {}
    BY <2>7, WaitsForOne DEF ReadTypes
  <2>9. \A g \in Fds : fdtab'[g] = IF g = fd.fd_out THEN Object("cgiout", x.conn)
                                   ELSE IF g = fd.err THEN Object("cgierr", x.conn)
                                   ELSE fdtab[g]
    BY <2>3, <2>4 DEF TypeInv, TableTyped
  <2>10. x.clientfd \in Fds /\ x.clientfd \notin FreeFds
    BY <1>1, OwnSelected, OwnOpen DEF LiveInv, FreeFds, Free, Object
  <2>11. OwnFds(e)'
    <3>1. fd.fd_out # 0
      BY <2>3, FdsAreNat
    <3>2. fdtab'[x.clientfd] = Object("client", x.conn)
      BY <1>1, <2>3, <2>9, <2>10 DEF OwnFds
    <3>3. fdtab'[fd.fd_out] = Object("cgiout", x.conn)
      BY <2>3, <2>9
    <3> QED BY <1>1, <2>7, <3>1, <3>2, <3>3 DEF OwnFds, ShapeOK
  <2>12. FdsOf(x) \subseteq FdsOf(e) /\ fd.fd_out \in FdsOf(e)
    BY <1>1, <2>3, <2>7, FdsAreNat DEF FdsOf
  <2>13. /\ \A g \in Fds : fdtab'[g] # fdtab[g] => g \in FreeFds
         /\ \A g \in FreeFds : fdtab'[g].kind \in Unowned \/ g \in FdsOf(e)
    BY <2>3, <2>9, <2>12 DEF FreeFds, Free, Object, Unowned
  <2>14. /\ readfds' = (readfds \ WaitsFor({x}, ReadTypes))
                        \cup WaitsFor({e}, ReadTypes)
         /\ writefds' = (writefds \ WaitsFor({x}, WriteTypes))
                         \cup WaitsFor({e}, WriteTypes)
    BY <1>2, <2>4, <2>8
  <2>15. Handled(x.selectfd, {x}, {e})
    BY <2>4, <2>6, <2>7, <2>11, <2>12, <2>13, <2>14, SwitchHandled
  <2> QED BY <2>6, <2>15 DEF Step
<1> QED BY <1>3, <1>4

\* serve_proxy.
LEMMA StepServeProxy ==
    ASSUME FullInv, NEW x \in Live, x.type = "CTX_READ_REQ",
           serve_proxy(Matched(x.selectfd), x, x.conn, readfds \ {x.selectfd})
    PROVE  Step(x.selectfd)
<1> USE DEF FullInv
<1>1. /\ x \in Ctxs /\ OwnFds(x) /\ x.cgifd = 0 /\ x.proxyfd = 0
      /\ x.selectfd = x.clientfd /\ x.clientfd # 0 /\ x.conn \in Conns
  BY LiveContexts, CtxFields DEF LiveInv, OwnFds, ShapeOK
<1>2. /\ WaitsFor({x}, ReadTypes) = {x.selectfd}
      /\ WaitsFor({x}, WriteTypes) = {}
  BY WaitsForOne DEF ReadTypes
<1>3. /\ readfds' = readfds \ {x.selectfd} /\ conn' = conn
  BY DEF serve_proxy
<1>4. PICK fd : fd = Lowest(FreeFds)
  OBVIOUS
<1>5. FreeFds # {} => fd \in FreeFds /\ fd \in Fds
  BY <1>4, LowestIn DEF FreeFds
<1>6. CASE /\ process_response(Matched(x.selectfd), x, writefds)
           /\ \/ UNCHANGED fdtab
              \/ /\ FreeFds # {}
                 /\ fdtab' = [fdtab EXCEPT ![fd] = Object("deadsock", x.conn)]
  <2>1. /\ \A g \in Fds : fdtab'[g] # fdtab[g] => g \in FreeFds
        /\ \A g \in FreeFds : fdtab'[g].kind \in Unowned
    BY <1>5, <1>6 DEF TypeInv, TableTyped, FreeFds, Free, Object, Unowned
  <2> QED BY <1>3, <1>6, <2>1, StepReply
<1>7. CASE /\ FreeFds # {}
           /\ fdtab' = [fdtab EXCEPT ![fd] = Object("proxy", x.conn)]
           /\ ctxhead' = [ctxhead EXCEPT ![Matched(x.selectfd)] =
                            [x EXCEPT !.proxyfd = fd, !.selectfd = fd,
                                      !.type = "CTX_PROXY_WRITE_REQ",
                                      !.items_cur = 0]]
           /\ writefds' = writefds \cup {fd}
  <2> DEFINE e == [x EXCEPT !.proxyfd = fd, !.selectfd = fd,
                            !.type = "CTX_PROXY_WRITE_REQ", !.items_cur = 0]
  <2>1. e = Rec("CTX_PROXY_WRITE_REQ", fd, x.clientfd, x.cgifd, fd,
                0, x.respbuf, x.conn)
    BY <1>1, ProxyFields
  <2>2. ctxhead' = [ctxhead EXCEPT ![Matched(x.selectfd)] = e]
    BY <1>7
  <2> HIDE DEF e
  <2>3. e \in Ctxs
    <3>1. "CTX_PROXY_WRITE_REQ" \in CtxType /\ 0 \in 0 .. 2
      BY DEF CtxType
    <3> QED BY <1>1, <1>5, <1>7, <2>1, <3>1, CtxFields, RecTyped
  <2>4. /\ e.type = "CTX_PROXY_WRITE_REQ" /\ e.selectfd = fd
        /\ e.clientfd = x.clientfd /\ e.cgifd = 0 /\ e.proxyfd = fd
        /\ e.conn = x.conn
    BY <1>1, <2>1 DEF Rec
  <2>5. WaitsFor({e}, ReadTypes) = {} /\ WaitsFor({e}, WriteTypes) = {fd}
    BY <2>4, WaitsForOne DEF WriteTypes
  <2>6. \A g \in Fds : fdtab'[g] = IF g = fd THEN Object("proxy", x.conn)
                                   ELSE fdtab[g]
    BY <1>5, <1>7 DEF TypeInv, TableTyped
  <2>7. x.clientfd \in Fds /\ x.clientfd \notin FreeFds
    BY <1>1, OwnSelected, OwnOpen DEF LiveInv, FreeFds, Free, Object
  <2>8. OwnFds(e)'
    <3>1. fd # 0
      BY <1>5, <1>7, FdsAreNat
    <3>2. fdtab'[x.clientfd] = Object("client", x.conn)
      BY <1>1, <1>5, <1>7, <2>6, <2>7 DEF OwnFds
    <3>3. fdtab'[fd] = Object("proxy", x.conn)
      BY <1>5, <1>7, <2>6
    <3> QED BY <1>1, <2>4, <3>1, <3>2, <3>3 DEF OwnFds, ShapeOK
  <2>9. FdsOf(x) \subseteq FdsOf(e) /\ fd \in FdsOf(e)
    BY <1>1, <1>5, <1>7, <2>4, FdsAreNat DEF FdsOf
  <2>10. /\ \A g \in Fds : fdtab'[g] # fdtab[g] => g \in FreeFds
         /\ \A g \in FreeFds : fdtab'[g].kind \in Unowned \/ g \in FdsOf(e)
    BY <1>5, <1>7, <2>6, <2>9 DEF FreeFds, Free, Object, Unowned
  <2>11. /\ readfds' = (readfds \ WaitsFor({x}, ReadTypes))
                        \cup WaitsFor({e}, ReadTypes)
         /\ writefds' = (writefds \ WaitsFor({x}, WriteTypes))
                         \cup WaitsFor({e}, WriteTypes)
    BY <1>2, <1>3, <1>7, <2>5
  <2>12. Handled(x.selectfd, {x}, {e})
    BY <1>3, <2>2, <2>3, <2>4, <2>8, <2>9, <2>10, <2>11, SwitchHandled
  <2> QED BY <2>3, <2>12 DEF Step
<1> QED BY <1>4, <1>6, <1>7 DEF serve_proxy

\* A request is read in part or as a whole.
LEMMA StepReadRequest ==
    ASSUME FullInv, NoCgiBody, NEW f, ReadRequestPart(f) \/ ReadRequest(f)
    PROVE  Step(f)
<1> USE DEF FullInv
<1>1. CASE ReadRequestPart(f)
  <2>1. Handled(f, {}, {})
    BY <1>1, NothingHandled DEF ReadRequestPart, fdsets
  <2> QED BY <2>1 DEF Step
<1>2. CASE ReadRequest(f)
  <2>1. ReadEvent(f) /\ ctxhead[Matched(f)].type = "CTX_READ_REQ"
    BY <1>2 DEF ReadRequest, ReadEventOf
  <2>2. PICK x \in Live : /\ x.selectfd = f /\ ctxhead[Matched(f)] = x
                          /\ x \in Ctxs /\ OwnFds(x)
    BY <2>1, EventContext
  <2>3. PICK c \in Conns :
          /\ fdtab[f] = Object("client", c)
          /\ process_request(Matched(f), ctxhead[Matched(f)], c, readfds \ {f})
    BY <1>2 DEF ReadRequest
  <2>4. /\ x.type = "CTX_READ_REQ" /\ x.clientfd = f /\ c = x.conn
        /\ x.cgifd = 0 /\ x.proxyfd = 0
    BY <2>1, <2>2, <2>3 DEF OwnFds, ShapeOK, Object
  <2>5. process_request(Matched(f), x, c, readfds \ {f})
    BY <2>2, <2>3
  <2>6. \/ /\ process_response(Matched(f), x, writefds)
           /\ readfds' = readfds \ {f}
           /\ UNCHANGED <<fdtab, conn>>
        \/ serve_cgi(Matched(f), x, c, FALSE, readfds \ {f})
        \/ serve_proxy(Matched(f), x, c, readfds \ {f})
    <3>1. PICK route \in Routes[c] :
            \/ /\ route = "reply"
               /\ process_response(Matched(f), x, writefds)
               /\ readfds' = readfds \ {f}
               /\ UNCHANGED <<fdtab, conn, peers, sent>>
            \/ /\ route \in {"cgi", "cgibody"}
               /\ serve_cgi(Matched(f), x, c, route = "cgibody", readfds \ {f})
            \/ /\ route = "proxy"
               /\ serve_proxy(Matched(f), x, c, readfds \ {f})
      BY <2>5 DEF process_request
    <3>2. route # "cgibody"
      BY DEF NoCgiBody
    <3>3. (route = "cgibody") = FALSE
      BY <3>2
    <3> QED BY <3>1, <3>2, <3>3
  <2>7. CASE /\ process_response(Matched(f), x, writefds)
             /\ readfds' = readfds \ {f}
             /\ UNCHANGED <<fdtab, conn>>
    <3>1. \A g \in FreeFds : fdtab'[g].kind \in Unowned
      BY <2>7 DEF FreeFds, Free, Object, Unowned
    <3> QED BY <2>2, <2>4, <2>7, <3>1, StepReply
  <2>8. CASE serve_cgi(Matched(f), x, c, FALSE, readfds \ {f})
    BY <2>2, <2>4, <2>8, StepServeCgi
  <2>9. CASE serve_proxy(Matched(f), x, c, readfds \ {f})
    BY <2>2, <2>4, <2>9, StepServeProxy
  <2> QED BY <2>6, <2>7, <2>8, <2>9
<1> QED BY <1>1, <1>2

\* The pipe or the upstream connection of a session is closed and the client is
\* answered instead.
LEMMA StepDrop ==
    ASSUME FullInv, NEW x \in Live, NEW ctx \in Ctxs,
           x.selectfd # x.clientfd,
           ctx.clientfd = x.clientfd, ctx.conn = x.conn,
           ctx.cgifd = 0, ctx.proxyfd = 0,
           process_response(Matched(x.selectfd), ctx,
                            writefds \ WaitsFor({x}, WriteTypes)),
           readfds' = readfds \ WaitsFor({x}, ReadTypes),
           CloseFds({x.selectfd}, full)
    PROVE  Step(x.selectfd)
<1> USE DEF FullInv
<1>1. x \in Ctxs /\ OwnFds(x) /\ Listening
  BY LiveContexts DEF LiveInv
<1>2. FdsOf(x) \ {x.clientfd} = {x.selectfd}
  BY <1>1, OwnSelected DEF OwnFds, ShapeOK, FdsOf
<1>3. \A g \in Fds : fdtab'[g] = IF g = x.selectfd THEN Free ELSE fdtab[g]
  BY DEF CloseFds
<1>4. fdtab[x.selectfd].kind # "client"
  BY <1>1 DEF OwnFds, ShapeOK, Object
<1>5. \A c \in Conns : conn'[c] = conn[c]
  <2>1. ClosedConns("client", {x.selectfd}) = {}
    BY <1>4 DEF ClosedConns, Object
  <2> QED BY <2>1 DEF CloseFds
<1>6. /\ \A g \in Fds : fdtab'[g] # fdtab[g] =>
            g \in FreeFds \/ g \in FdsOf(x) \ {x.clientfd}
      /\ \A g \in Fds : g \in FreeFds \/ g \in FdsOf(x) \ {x.clientfd} =>
            fdtab'[g].kind \in Unowned
  BY <1>2, <1>3 DEF FreeFds, Free, Object, Unowned
<1> QED BY <1>5, <1>6, AnswerHandled DEF Step

\* A context whose field for an open descriptor is zeroed.
LEMMA ZeroedFields ==
    ASSUME FullInv, NEW x \in Live
    PROVE  /\ x.cgifd # 0 =>
                LET e == [x EXCEPT !.cgifd = ZeroIfClosed(x.cgifd)] IN
                /\ e \in Ctxs /\ e.clientfd = x.clientfd /\ e.conn = x.conn
                /\ e.cgifd = 0 /\ e.proxyfd = 0
           /\ x.proxyfd # 0 =>
                LET e == [x EXCEPT !.proxyfd = ZeroIfClosed(x.proxyfd)] IN
                /\ e \in Ctxs /\ e.clientfd = x.clientfd /\ e.conn = x.conn
                /\ e.cgifd = 0 /\ e.proxyfd = 0
<1> USE DEF FullInv
<1>1. x \in Ctxs /\ OwnFds(x) /\ Listening /\ x.clientfd # 0
  BY LiveContexts DEF LiveInv, OwnFds, ShapeOK
<1>2. CASE x.cgifd # 0
  <2>1. x.cgifd \in FdsOf(x) /\ x.proxyfd = 0
    BY <1>1, <1>2 DEF FdsOf, OwnFds, ShapeOK
  <2>2. ZeroIfClosed(x.cgifd) = 0
    BY <1>1, <2>1, OwnOpen DEF ZeroIfClosed, Free, Object
  <2>3. [x EXCEPT !.cgifd = ZeroIfClosed(x.cgifd)]
          = Rec(x.type, x.selectfd, x.clientfd, 0, x.proxyfd, x.items_cur,
                x.respbuf, x.conn)
    BY <1>1, <2>2, OneField
  <2>4. [x EXCEPT !.cgifd = ZeroIfClosed(x.cgifd)] \in Ctxs
    BY <1>1, ZeroedTyped
  <2> QED BY <1>2, <2>1, <2>3, <2>4 DEF Rec
<1>3. CASE x.proxyfd # 0
  <2>1. x.proxyfd \in FdsOf(x) /\ x.cgifd = 0
    BY <1>1, <1>3 DEF FdsOf, OwnFds, ShapeOK
  <2>2. ZeroIfClosed(x.proxyfd) = 0
    BY <1>1, <2>1, OwnOpen DEF ZeroIfClosed, Free, Object
  <2>3. [x EXCEPT !.proxyfd = ZeroIfClosed(x.proxyfd)]
          = Rec(x.type, x.selectfd, x.clientfd, x.cgifd, 0, x.items_cur,
                x.respbuf, x.conn)
    BY <1>1, <2>2, OneField
  <2>4. [x EXCEPT !.proxyfd = ZeroIfClosed(x.proxyfd)] \in Ctxs
    BY <1>1, ZeroedTyped
  <2> QED BY <1>3, <2>1, <2>3, <2>4 DEF Rec
<1> QED BY <1>1, <1>2, <1>3 DEF OwnFds, ShapeOK

\* The output of a CGI program has ended.
LEMMA StepReadCgiOutput ==
    ASSUME FullInv, NEW f \in Fds, ReadCgiOutput(f) PROVE Step(f)
<1> USE DEF FullInv
<1>1. PICK x \in Live : /\ x.selectfd = f /\ x.type = "CTX_READ_CGI_OUTPUT"
                        /\ ctxhead[Matched(f)] = x
  <2>1. CASE ReadEventOf(f, "CTX_READ_CGI_OUTPUT")
    BY <2>1, EventContext DEF ReadEventOf
  <2>2. CASE pc = "cgiread" /\ Scan(f)
    <3>1. PICK x \in Live : x.selectfd = f /\ x.type = "CTX_READ_CGI_OUTPUT"
      BY <2>2 DEF PassInv
    <3> QED BY <3>1, MatchedLive
  <2> QED BY <2>1, <2>2 DEF ReadCgiOutput
<1>2. x.cgifd = f /\ x.cgifd # 0 /\ x.selectfd # x.clientfd
  <2>1. OwnFds(x)
    BY DEF LiveInv
  <2>2. x.cgifd = f /\ x.cgifd # 0
    BY <1>1, <2>1 DEF OwnFds, ShapeOK
  <2>3. fdtab[f].kind = "cgiout" /\ fdtab[x.clientfd].kind = "client"
    BY <2>1, <2>2 DEF OwnFds, Object
  <2> QED BY <1>1, <2>2, <2>3
<1> DEFINE e == [x EXCEPT !.cgifd = ZeroIfClosed(x.cgifd)]
<1>3. /\ process_response(Matched(f), e, writefds)
      /\ readfds' = readfds \ {f} /\ CloseFds({f}, full)
  BY <1>1, <1>2 DEF ReadCgiOutput
<1>4. PICK z \in Fds \cup {0} : z = ZeroIfClosed(x.cgifd)
  BY <1>2 DEF ZeroIfClosed
<1> DEFINE ctx == [x EXCEPT !.cgifd = z]
<1>5. /\ ctx \in Ctxs /\ ctx.clientfd = x.clientfd /\ ctx.conn = x.conn
      /\ ctx.cgifd = 0 /\ ctx.proxyfd = 0
      /\ process_response(Matched(f), ctx, writefds)
  BY <1>2, <1>3, <1>4, ZeroedFields
<1>6. /\ WaitsFor({x}, ReadTypes) = {f}
      /\ writefds \ WaitsFor({x}, WriteTypes) = writefds
  BY <1>1, WaitsForOne DEF ReadTypes
<1> HIDE DEF ctx
<1> QED BY <1>1, <1>2, <1>3, <1>5, <1>6, StepDrop

\* A session goes on as it was: the same descriptors, the same direction.
LEMMA StepSame ==
    ASSUME FullInv, NEW x \in Live, NEW e \in Ctxs,
           e.type = x.type, e.selectfd = x.selectfd, e.clientfd = x.clientfd,
           e.cgifd = x.cgifd, e.proxyfd = x.proxyfd, e.conn = x.conn,
           ctxhead' = [ctxhead EXCEPT ![Matched(x.selectfd)] = e],
           UNCHANGED <<readfds, writefds, fdtab, conn>>
    PROVE  Step(x.selectfd)
<1> USE DEF FullInv
<1>1. FdsOf(e) = FdsOf(x)
  BY DEF FdsOf
<1>2. OwnFds(e)'
  BY DEF LiveInv, OwnFds, ShapeOK
<1>3. \A types : WaitsFor({x}, types) = WaitsFor({e}, types)
  BY DEF WaitsFor
<1>4. /\ WaitsFor({x}, ReadTypes) \subseteq readfds
      /\ WaitsFor({x}, WriteTypes) \subseteq writefds
  BY DEF LiveInv, WaitsFor
<1>5. /\ readfds' = (readfds \ WaitsFor({x}, ReadTypes))
                      \cup WaitsFor({e}, ReadTypes)
      /\ writefds' = (writefds \ WaitsFor({x}, WriteTypes))
                       \cup WaitsFor({e}, WriteTypes)
  BY <1>3, <1>4
<1>6. /\ \A g \in Fds : fdtab'[g] # fdtab[g] => g \in FreeFds
      /\ \A g \in FreeFds : fdtab'[g].kind \in Unowned \/ g \in FdsOf(e)
      /\ \A c \in Conns : conn'[c] = conn[c]
  BY DEF FreeFds, Free, Object, Unowned
<1>7. Handled(x.selectfd, {x}, {e})
  BY <1>1, <1>2, <1>5, <1>6, SwitchHandled
<1> QED BY <1>7 DEF Step

\* One more buffer is sent, or none.
LEMMA StepNextItem ==
    ASSUME FullInv, NEW x \in Live, x.items_cur < 2,
           ctxhead[Matched(x.selectfd)] = x, NEW z,
           ctxhead' = NextItem(Matched(x.selectfd), z),
           UNCHANGED <<readfds, writefds, fdtab, conn>>
    PROVE  Step(x.selectfd)
<1> DEFINE e == [x EXCEPT !.items_cur = @ + 1]
<1>1. CASE z = "Z_EOF"
  <2>1. x \in Ctxs
    BY LiveContexts DEF FullInv
  <2>2. e = Rec(x.type, x.selectfd, x.clientfd, x.cgifd, x.proxyfd,
                x.items_cur + 1, x.respbuf, x.conn)
    BY <2>1, OneField
  <2>3. ctxhead' = [ctxhead EXCEPT ![Matched(x.selectfd)] = e]
    BY <1>1 DEF NextItem
  <2> HIDE DEF e
  <2>4. x.items_cur + 1 \in 0 .. 2
    BY <2>1, CtxFields
  <2>5. e \in Ctxs
    BY <2>1, <2>2, <2>4, CtxFields, RecTyped
  <2>6. /\ e.type = x.type /\ e.selectfd = x.selectfd
        /\ e.clientfd = x.clientfd /\ e.cgifd = x.cgifd
        /\ e.proxyfd = x.proxyfd /\ e.conn = x.conn
    BY <2>2 DEF Rec
  <2> QED BY <2>3, <2>5, <2>6, StepSame
<1>2. CASE z # "Z_EOF"
  <2>1. Handled(x.selectfd, {}, {})
    BY <1>2, NothingHandled DEF NextItem, FullInv
  <2> QED BY <2>1 DEF Step
<1> QED BY <1>1, <1>2

\* A session ends.
LEMMA StepTerminate ==
    ASSUME FullInv, NEW x \in Live, terminate_client_session(x, full)
    PROVE  Step(x.selectfd)
<1>1. Handled(x.selectfd, {x}, {})
  BY TerminateHandled DEF FullInv
<1> QED BY <1>1 DEF Step

\* A reply is sent, or its session ends.
LEMMA StepWriteResponse ==
    ASSUME FullInv, NEW f \in Fds, WriteResponse(f) PROVE Step(f)
<1>1. PICK x \in Live : x.selectfd = f /\ ctxhead[Matched(f)] = x
  BY EventContext DEF WriteResponse, WriteEventOf
<1>2. \/ terminate_client_session(x, full)
      \/ \E z \in {"Z_EOF", "Z_BLOCK"} :
            /\ x.items_cur < 2 /\ ctxhead' = NextItem(Matched(f), z)
            /\ UNCHANGED <<readfds, writefds, fdtab, conn>>
  BY <1>1 DEF WriteResponse, fdsets
<1> QED BY <1>1, <1>2, StepTerminate, StepNextItem

\* The request is sent upstream, or the upstream is given up.
LEMMA StepWriteProxyRequest ==
    ASSUME FullInv, NEW f \in Fds, WriteProxyRequest(f) PROVE Step(f)
<1> USE DEF FullInv
<1>1. PICK x \in Live : /\ x.selectfd = f /\ ctxhead[Matched(f)] = x
                        /\ x.type = "CTX_PROXY_WRITE_REQ"
                        /\ x \in Ctxs /\ OwnFds(x)
  BY EventContext DEF WriteProxyRequest, WriteEventOf
<1>2. x.proxyfd = f /\ x.proxyfd # 0 /\ x.cgifd = 0 /\ x.clientfd # 0
  BY <1>1 DEF OwnFds, ShapeOK
<1>3. x.selectfd # x.clientfd
  <2>1. fdtab[f].kind = "proxy" /\ fdtab[x.clientfd].kind = "client"
    BY <1>1, <1>2 DEF OwnFds, Object
  <2> QED BY <1>1, <2>1
<1>4. /\ WaitsFor({x}, ReadTypes) = {} /\ WaitsFor({x}, WriteTypes) = {f}
  BY <1>1, WaitsForOne DEF WriteTypes
<1>5. CASE \E z \in {"Z_EOF", "Z_BLOCK"} :
              /\ x.items_cur < 2 /\ ctxhead' = NextItem(Matched(f), z)
              /\ UNCHANGED <<readfds, writefds, fdtab, conn>>
  BY <1>1, <1>5, StepNextItem
<1>6. CASE /\ process_response(Matched(f),
                  [x EXCEPT !.proxyfd = ZeroIfClosed(x.proxyfd)],
                  writefds \ {f})
           /\ CloseFds({f}, full) /\ UNCHANGED readfds
  <2>1. PICK z \in Fds \cup {0} : z = ZeroIfClosed(x.proxyfd)
    BY <1>2 DEF ZeroIfClosed
  <2> DEFINE ctx == [x EXCEPT !.proxyfd = z]
  <2>2. /\ ctx \in Ctxs /\ ctx.clientfd = x.clientfd /\ ctx.conn = x.conn
        /\ ctx.cgifd = 0 /\ ctx.proxyfd = 0
        /\ process_response(Matched(f), ctx, writefds \ {f})
    BY <1>2, <1>6, <2>1, ZeroedFields
  <2> HIDE DEF ctx
  <2>3. readfds' = readfds \ WaitsFor({x}, ReadTypes)
    BY <1>4, <1>6
  <2> QED BY <1>1, <1>3, <1>4, <1>6, <2>2, <2>3, StepDrop
<1>7. CASE /\ ctxhead' = [ctxhead EXCEPT ![Matched(f)] =
                            [x EXCEPT !.type = "CTX_PROXY_PIPE_RESP",
                                      !.respbuf = FALSE]]
           /\ writefds' = writefds \ {f} /\ readfds' = readfds \cup {f}
           /\ UNCHANGED <<fdtab, conn>>
  <2>1. PICK empty \in BOOLEAN : empty = FALSE
    OBVIOUS
  <2> DEFINE e == [x EXCEPT !.type = "CTX_PROXY_PIPE_RESP", !.respbuf = empty]
  <2>2. ctxhead' = [ctxhead EXCEPT ![Matched(f)] = e]
    BY <1>7, <2>1
  <2>3. e = Rec("CTX_PROXY_PIPE_RESP", x.selectfd, x.clientfd, x.cgifd,
                x.proxyfd, x.items_cur, empty, x.conn)
    BY <1>1, PipeFields
  <2> HIDE DEF e
  <2>4. e \in Ctxs
    <3>1. "CTX_PROXY_PIPE_RESP" \in CtxType
      BY DEF CtxType
    <3> QED BY <1>1, <2>1, <2>3, <3>1, CtxFields, RecTyped
  <2>5. /\ e.type = "CTX_PROXY_PIPE_RESP" /\ e.selectfd = f
        /\ e.clientfd = x.clientfd /\ e.cgifd = x.cgifd
        /\ e.proxyfd = x.proxyfd /\ e.conn = x.conn
    BY <1>1, <2>3 DEF Rec
  <2>6. FdsOf(e) = FdsOf(x)
    BY <2>5 DEF FdsOf
  <2>7. OwnFds(e)'
    BY <1>1, <1>2, <1>7, <2>5 DEF OwnFds, ShapeOK
  <2>8. WaitsFor({e}, ReadTypes) = {f} /\ WaitsFor({e}, WriteTypes) = {}
    BY <2>5, WaitsForOne DEF ReadTypes
  <2>9. /\ readfds' = (readfds \ WaitsFor({x}, ReadTypes))
                        \cup WaitsFor({e}, ReadTypes)
        /\ writefds' = (writefds \ WaitsFor({x}, WriteTypes))
                         \cup WaitsFor({e}, WriteTypes)
    BY <1>4, <1>7, <2>8
  <2>10. /\ \A g \in Fds : fdtab'[g] # fdtab[g] => g \in FreeFds
         /\ \A g \in FreeFds : fdtab'[g].kind \in Unowned \/ g \in FdsOf(e)
         /\ \A c \in Conns : conn'[c] = conn[c]
    BY <1>7 DEF FreeFds, Free, Object, Unowned
  <2>11. Handled(x.selectfd, {x}, {e})
    BY <1>1, <2>2, <2>4, <2>5, <2>6, <2>7, <2>9, <2>10, SwitchHandled
  <2> QED BY <1>1, <2>4, <2>11 DEF Step
<1>8. \/ \E z \in {"Z_EOF", "Z_BLOCK"} :
            /\ x.items_cur < 2 /\ ctxhead' = NextItem(Matched(f), z)
            /\ UNCHANGED <<readfds, writefds, fdtab, conn>>
      \/ /\ process_response(Matched(f),
                [x EXCEPT !.proxyfd = ZeroIfClosed(x.proxyfd)],
                writefds \ {f})
         /\ CloseFds({f}, full) /\ UNCHANGED readfds
      \/ /\ ctxhead' = [ctxhead EXCEPT ![Matched(f)] =
                          [x EXCEPT !.type = "CTX_PROXY_PIPE_RESP",
                                    !.respbuf = FALSE]]
         /\ writefds' = writefds \ {f} /\ readfds' = readfds \cup {f}
         /\ UNCHANGED <<fdtab, conn>>
  BY <1>1, <1>2 DEF WriteProxyRequest, fdsets
<1> QED BY <1>5, <1>6, <1>7, <1>8

\* A response is forwarded, ends, or fails.
LEMMA StepPipeProxyResponse ==
    ASSUME FullInv, NEW f \in Fds, PipeProxyResponse(f) PROVE Step(f)
<1> USE DEF FullInv
<1>1. PICK x \in Live : /\ x.selectfd = f /\ ctxhead[Matched(f)] = x
                        /\ x.type = "CTX_PROXY_PIPE_RESP"
                        /\ x \in Ctxs /\ OwnFds(x)
  BY EventContext DEF PipeProxyResponse, ReadEventOf
<1>2. x.proxyfd = f /\ x.proxyfd # 0 /\ x.cgifd = 0 /\ x.clientfd # 0
  BY <1>1 DEF OwnFds, ShapeOK
<1>3. x.selectfd # x.clientfd
  <2>1. fdtab[f].kind = "proxy" /\ fdtab[x.clientfd].kind = "client"
    BY <1>1, <1>2 DEF OwnFds, Object
  <2> QED BY <1>1, <2>1
<1>4. /\ WaitsFor({x}, ReadTypes) = {f}
      /\ writefds \ WaitsFor({x}, WriteTypes) = writefds
  BY <1>1, WaitsForOne DEF ReadTypes
<1>5. CASE /\ process_response(Matched(f),
                  [x EXCEPT !.proxyfd = ZeroIfClosed(x.proxyfd)], writefds)
           /\ readfds' = readfds \ {f} /\ CloseFds({f}, full)
  <2>1. PICK z \in Fds \cup {0} : z = ZeroIfClosed(x.proxyfd)
    BY <1>2 DEF ZeroIfClosed
  <2> DEFINE ctx == [x EXCEPT !.proxyfd = z]
  <2>2. /\ ctx \in Ctxs /\ ctx.clientfd = x.clientfd /\ ctx.conn = x.conn
        /\ ctx.cgifd = 0 /\ ctx.proxyfd = 0
        /\ process_response(Matched(f), ctx, writefds)
    BY <1>2, <1>5, <2>1, ZeroedFields
  <2> HIDE DEF ctx
  <2> QED BY <1>1, <1>3, <1>4, <1>5, <2>2, StepDrop
<1>6. ASSUME NEW z \in {"Z_EOF", "Z_BLOCK"},
             ctxhead' = [ctxhead EXCEPT ![Matched(f)] =
                           [x EXCEPT !.respbuf = (z = "Z_BLOCK")]],
             UNCHANGED <<readfds, writefds, fdtab, conn>>
      PROVE  Step(f)
  <2>1. PICK blocked \in BOOLEAN : blocked = (z = "Z_BLOCK")
    OBVIOUS
  <2> DEFINE e == [x EXCEPT !.respbuf = blocked]
  <2>2. ctxhead' = [ctxhead EXCEPT ![Matched(f)] = e]
    BY <1>6, <2>1
  <2>3. e = Rec(x.type, x.selectfd, x.clientfd, x.cgifd, x.proxyfd,
                x.items_cur, blocked, x.conn)
    BY <1>1, OneField
  <2> HIDE DEF e
  <2>4. e \in Ctxs
    BY <1>1, <2>1, <2>3, CtxFields, RecTyped
  <2>5. /\ e.type = x.type /\ e.selectfd = x.selectfd
        /\ e.clientfd = x.clientfd /\ e.cgifd = x.cgifd
        /\ e.proxyfd = x.proxyfd /\ e.conn = x.conn
    BY <2>3 DEF Rec
  <2> QED BY <1>1, <1>6, <2>2, <2>4, <2>5, StepSame
<1>7. CASE terminate_client_session(x, full)
  BY <1>1, <1>7, StepTerminate
<1>8. \/ /\ process_response(Matched(f),
                [x EXCEPT !.proxyfd = ZeroIfClosed(x.proxyfd)], writefds)
         /\ readfds' = readfds \ {f} /\ CloseFds({f}, full)
      \/ \E z \in {"Z_EOF", "Z_BLOCK"} :
            /\ ctxhead' = [ctxhead EXCEPT ![Matched(f)] =
                             [x EXCEPT !.respbuf = (z = "Z_BLOCK")]]
            /\ UNCHANGED <<readfds, writefds, fdtab, conn>>
      \/ terminate_client_session(x, full)
  BY <1>1, <1>2 DEF PipeProxyResponse, fdsets
<1> QED BY <1>5, <1>6, <1>7, <1>8

-----------------------------------------------------------------------------
(***************************************************************************)
(* The theorems.                                                            *)
(***************************************************************************)
\* A reading of the descriptors that the pass has still to look at.
NotStale == \A f \in cur_readfds' \cup cur_writefds' : fdtab'[f] = fdtab[f]

\* Initially there is the listening socket and no context.
LEMMA FullInit == Init => FullInv
<1> SUFFICES ASSUME Init PROVE FullInv
  OBVIOUS
<1>1. TypeInv
  BY TypeInit
<1>2. Live = {} /\ OnePerConn(ctxhead)
  BY DEF Init, Live, ToSet, OnePerConn
<1>3. LiveInv
  BY <1>2, FdsAreNat DEF Init, LiveInv, WaitsFor, Listening, Free, Object, Unowned
<1>4. PassInv
  BY DEF Init, PassInv, SnapshotIsSelected
<1> QED BY <1>1, <1>3, <1>4 DEF FullInv

\* Whatever the event does is of the form Step.
LEMMA ServerSteps ==
    ASSUME FullInv, NoCgiBody, Server
    PROVE  \/ \E f : Step(f) /\ Advance(f)
           \/ SelectReturns
           \/ \E f \in Fds : ReadCgiOutputWaits(f)
<1>1. ~SelectFails
  BY SelectedOpen DEF SelectFails, BadFds, FullInv
<1>2. CASE AcceptFails
  <2>1. Handled(S0, {}, {})
    BY <1>2, NothingHandled DEF AcceptFails, fdsets, FullInv
  <2> QED BY <1>2, <2>1 DEF AcceptFails, Step
<1>3. CASE \E c \in Conns : Accept(c)
  BY <1>3, StepAccept DEF Accept
<1>4. ASSUME NEW f \in Fds, ReadRequestPart(f) \/ ReadRequest(f)
      PROVE  Step(f) /\ Advance(f)
  BY <1>4, StepReadRequest DEF ReadRequestPart, ReadRequest
<1>5. ASSUME NEW f \in Fds, ReadCgiOutput(f) PROVE Step(f) /\ Advance(f)
  BY <1>5, StepReadCgiOutput DEF ReadCgiOutput
<1>6. ASSUME NEW f \in Fds, WriteResponse(f) PROVE Step(f) /\ Advance(f)
  BY <1>6, StepWriteResponse DEF WriteResponse
<1>7. ASSUME NEW f \in Fds, WriteProxyRequest(f) PROVE Step(f) /\ Advance(f)
  BY <1>7, StepWriteProxyRequest DEF WriteProxyRequest
<1>8. ASSUME NEW f \in Fds, PipeProxyResponse(f) PROVE Step(f) /\ Advance(f)
  BY <1>8, StepPipeProxyResponse DEF PipeProxyResponse
<1> QED BY <1>1, <1>2, <1>3, <1>4, <1>5, <1>6, <1>7, <1>8, ImpossibleEvents
        DEF Server

\* The invariant is inductive, and no step makes readiness stale.
LEMMA FullStep ==
    ASSUME FullInv, NoCgiBody, [Next]_vars
    PROVE  FullInv' /\ NotStale
<1> USE DEF FullInv
<1>0. TypeInv'
  BY TypeStep
<1>1. ASSUME NEW f, Step(f), Advance(f) PROVE FullInv' /\ NotStale
  <2>1. PICK O \in SUBSET Live, N \in SUBSET Ctxs : Handled(f, O, N)
    BY <1>1 DEF Step
  <2>2. LiveInv'
    BY <2>1, HandledLive
  <2>3. PassInv' /\ NotStale
    BY <1>1, <2>1, HandledPass DEF NotStale
  <2> QED BY <1>0, <2>2, <2>3
<1>2. ASSUME UNCHANGED <<ctxhead, readfds, writefds, fdtab>>,
             \A c \in Conns : conn'[c] = "open" <=> conn[c] = "open"
      PROVE  LiveInv'
  BY <1>2 DEF LiveInv, OnePerConn, Live, OwnFds, Listening
<1>3. CASE SelectReturns
  <2>1. LiveInv' /\ fdtab' = fdtab
    BY <1>2, <1>3 DEF SelectReturns, fdsets
  <2>2. PassInv'
    BY <1>3 DEF SelectReturns, fdsets, PassInv, SnapshotIsSelected
  <2> QED BY <1>0, <2>1, <2>2 DEF NotStale
<1>4. ASSUME NEW f \in Fds, ReadCgiOutputWaits(f) PROVE FullInv' /\ NotStale
  <2>1. LiveInv' /\ fdtab' = fdtab
    BY <1>2, <1>4 DEF ReadCgiOutputWaits, fdsets
  <2>2. /\ ReadEvent(f) /\ ctxhead[Matched(f)].type = "CTX_READ_CGI_OUTPUT"
        /\ pc' = "cgiread"
        /\ UNCHANGED <<ctxhead, readfds, writefds, cur_readfds, cur_writefds>>
    BY <1>4 DEF ReadCgiOutputWaits, ReadEventOf, fdsets, cursets
  <2>3. PICK x \in Live : x.selectfd = f /\ x.type = "CTX_READ_CGI_OUTPUT"
    BY <2>2, EventContext
  <2>4. ASSUME NEW g \in Fds, Scan(g)' PROVE g = f
    BY <2>2, <2>4, FdsAreNat DEF ReadEvent, Scan
  <2>5. Live' = Live
    BY <2>2 DEF Live
  <2>6. PassInv'
    BY <2>2, <2>3, <2>4, <2>5 DEF PassInv, SnapshotIsSelected
  <2> QED BY <1>0, <2>1, <2>6 DEF NotStale
<1>5. CASE UNCHANGED <<server, conn>>
  <2>1. UNCHANGED <<pc, ctxhead, readfds, writefds, cur_readfds, cur_writefds,
                    fdtab, conn>>
    BY <1>5 DEF server, fdsets, cursets
  <2>2. LiveInv'
    BY <1>2, <2>1
  <2>3. PassInv'
    BY <2>1 DEF PassInv, SnapshotIsSelected, Scan, Live
  <2> QED BY <1>0, <2>1, <2>2, <2>3 DEF NotStale
<1>6. CASE UNCHANGED server /\ \E c \in Conns : Connect(c)
  <2>1. UNCHANGED <<pc, ctxhead, readfds, writefds, cur_readfds, cur_writefds,
                    fdtab>>
    BY <1>6 DEF server, fdsets, cursets
  <2>2. \A c \in Conns : conn'[c] = "open" <=> conn[c] = "open"
    BY <1>6 DEF Connect, TypeInv, PeersTyped
  <2>3. LiveInv'
    BY <1>2, <2>1, <2>2
  <2>4. PassInv'
    BY <2>1 DEF PassInv, SnapshotIsSelected, Scan, Live
  <2> QED BY <1>0, <2>1, <2>3, <2>4 DEF NotStale
<1>7. CASE Environment
  <2>1. UNCHANGED server
    BY <1>7 DEF Environment, Connect, SendFragment, SendRest, HangUp,
                ClientMove, Drain, CgiOutput, CgiExit, CgiMove, UpstreamSend,
                UpstreamEnd, UpstreamReset, UpstreamMove
  <2>2. (\E c \in Conns : Connect(c)) \/ UNCHANGED conn
    BY <1>7 DEF Environment, SendFragment, SendRest, HangUp,
                ClientMove, Drain, CgiOutput, CgiExit, CgiMove, UpstreamSend,
                UpstreamEnd, UpstreamReset, UpstreamMove
  <2> QED BY <1>5, <1>6, <2>1, <2>2
<1>8. CASE Server
  BY <1>1, <1>3, <1>4, <1>8, ServerSteps
<1>9. CASE UNCHANGED vars
  BY <1>5, <1>9 DEF vars, server
<1> QED BY <1>7, <1>8, <1>9 DEF Next

\* The invariant implies every property that is stated over the list.
LEMMA FullImplies == FullInv => IInv
<1> SUFFICES ASSUME FullInv PROVE IInv
  OBVIOUS
<1> USE DEF FullInv
<1>1. /\ Contexts = 1 .. Len(ctxhead)
      /\ Live = {ctxhead[k] : k \in Contexts}
  BY LiveContexts
<1>2. TypeOK /\ MaxfdCoversSets
  BY DEF TypeInv, TypeOK, ContextsTyped, SetsTyped, TableTyped, PassTyped,
         PeersTyped, SentTyped, Ctxs
<1>3. ContextsHoldTheirOwnFds
  BY <1>1 DEF LiveInv, ContextsHoldTheirOwnFds
<1>4. NoDescriptorLost
  BY <1>1 DEF LiveInv, NoDescriptorLost, OnePerConn, Unowned
<1>5. SelectSetsMatchContexts
  <2>1. ASSUME NEW types PROVE WaitsFor(Live, types) = SelectedFor(types)
    BY <1>1 DEF WaitsFor, SelectedFor
  <2>2. readfds \cap writefds = {}
    <3>1. SUFFICES ASSUME NEW f \in readfds \cap writefds PROVE FALSE
      OBVIOUS
    <3>2. f # S0
      <4>1. PICK x \in Live : x.selectfd = f
        BY DEF LiveInv, WaitsFor
      <4> QED BY <4>1, OwnSelected, OwnOpen, LiveContexts DEF LiveInv
    <3> QED BY <3>2, SelectedOpen DEF ReadTypes, WriteTypes
  <2> QED BY <2>1, <2>2 DEF LiveInv, SelectSetsMatchContexts
<1>6. SnapshotIsSelected /\ ServerKeepsRunning /\ Listening
  BY DEF PassInv, ServerKeepsRunning, LiveInv
<1>7. WaitingInCgiRead
  BY <1>1 DEF PassInv, WaitingInCgiRead
<1> QED BY <1>2, <1>3, <1>4, <1>5, <1>6, <1>7 DEF IInv

\* The inductive invariant, in the form that the runs check.
THEOREM Invariance == NoCgiBody => (Spec => []IInv)
<1>1. NoCgiBody /\ FullInv /\ [Next]_vars => FullInv'
  BY FullStep
<1>2. NoCgiBody => NoCgiBody'
  BY DEF NoCgiBody
<1> QED BY <1>1, <1>2, FullInit, FullImplies, PTL DEF Spec

\* Every descriptor number in a context is an open descriptor of its own
\* session, however often the kernel reuses the numbers.
THEOREM OwnershipHolds == NoCgiBody => (Spec => []ContextsHoldTheirOwnFds)
<1>1. IInv => ContextsHoldTheirOwnFds
  BY DEF IInv
<1> QED BY <1>1, Invariance, PTL

\* No descriptor is lost, and a connection is open exactly as long as it has
\* its one context.
THEOREM NothingLost == NoCgiBody => (Spec => []NoDescriptorLost)
<1>1. IInv => NoDescriptorLost
  BY DEF IInv
<1> QED BY <1>1, Invariance, PTL

\* select() watches exactly what the contexts wait for.
THEOREM SelectionMatches == NoCgiBody => (Spec => []SelectSetsMatchContexts)
<1>1. IInv => SelectSetsMatchContexts
  BY DEF IInv
<1> QED BY <1>1, Invariance, PTL

\* The server never leaves its loop.
THEOREM NeverStops == NoCgiBody => (Spec => []ServerKeepsRunning)
<1>1. IInv => ServerKeepsRunning
  BY DEF IInv
<1> QED BY <1>1, Invariance, PTL

\* While readiness is still to be acted on, its descriptor is not closed and
\* its number not reused.
THEOREM ReadinessStaysTrue == NoCgiBody => (Spec => ReadinessNeverStale)
<1>1. NoCgiBody /\ FullInv /\ [Next]_vars => FullInv' /\ [NotStale]_vars
  BY FullStep
<1>2. NoCgiBody => NoCgiBody'
  BY DEF NoCgiBody
<1> QED BY <1>1, <1>2, FullInit, PTL DEF Spec, ReadinessNeverStale, NotStale

-----------------------------------------------------------------------------
(***************************************************************************)
(* The implementation of LKSession.                                         *)
(*                                                                          *)
(* What ties the parts sent to a client to its session is the type of the   *)
(* context and the number of buffers written (Progress); with the invariant *)
(* above that is inductive, and every step is then a step of LKSession or   *)
(* changes nothing of it.                                                   *)
(***************************************************************************)
-----------------------------------------------------------------------------
(***************************************************************************)
(* Replies as sequences of parts.                                           *)
(***************************************************************************)
Parts == Conns \X {"head", "body", "forwarded", "forwarded all"}

\* What appending a part to at most two parts comes to.
LEMMA Appended ==
    ASSUME NEW a \in Parts, NEW b \in Parts, NEW d \in Parts
    PROVE  /\ Append(<< >>, a) = <<a>>
           /\ Append(<<a>>, b) = <<a, b>>
           /\ Append(<<a, b>>, d) = <<a, b, d>>
<1>1. /\ << >> \in Seq(Parts) /\ <<a>> \in Seq(Parts)
      /\ <<a, b>> \in Seq(Parts) /\ <<a, b, d>> \in Seq(Parts)
  OBVIOUS
<1>2. Append(<< >>, a) = <<a>>
  <2>1. /\ Append(<< >>, a) \in Seq(Parts) /\ Len(Append(<< >>, a)) = 1
        /\ Append(<< >>, a)[1] = a
    BY <1>1, AppendProperties
  <2>2. \A i \in 1 .. 1 : Append(<< >>, a)[i] = <<a>>[i]
    BY <2>1
  <2>3. Len(<<a>>) = 1
    OBVIOUS
  <2> QED BY <1>1, <2>1, <2>2, <2>3, SeqEqual
<1>3. Append(<<a>>, b) = <<a, b>>
  <2>1. /\ Append(<<a>>, b) \in Seq(Parts) /\ Len(Append(<<a>>, b)) = 2
        /\ Append(<<a>>, b)[1] = a /\ Append(<<a>>, b)[2] = b
    BY <1>1, AppendProperties
  <2>2. \A i \in 1 .. 2 : Append(<<a>>, b)[i] = <<a, b>>[i]
    BY <2>1
  <2>3. Len(<<a, b>>) = 2
    OBVIOUS
  <2> QED BY <1>1, <2>1, <2>2, <2>3, SeqEqual
<1>4. Append(<<a, b>>, d) = <<a, b, d>>
  <2>1. /\ Append(<<a, b>>, d) \in Seq(Parts) /\ Len(Append(<<a, b>>, d)) = 3
        /\ Append(<<a, b>>, d)[1] = a /\ Append(<<a, b>>, d)[2] = b
        /\ Append(<<a, b>>, d)[3] = d
    BY <1>1, AppendProperties
  <2>2. \A i \in 1 .. 3 : Append(<<a, b>>, d)[i] = <<a, b, d>>[i]
    BY <2>1
  <2>3. Len(<<a, b, d>>) = 3
    OBVIOUS
  <2> QED BY <1>1, <2>1, <2>2, <2>3, SeqEqual
<1> QED BY <1>2, <1>3, <1>4

\* The first Len(s) elements of a sequence that goes on from s.
LEMMA Beginning ==
    ASSUME NEW S, NEW s \in Seq(S), NEW t \in Seq(S), Len(s) <= Len(t),
           \A i \in 1 .. Len(s) : s[i] = t[i]
    PROVE  SubSeq(t, 1, Len(s)) = s
<1>1. Len(s) \in Nat /\ Len(t) \in Nat
  BY LenProperties
<1>2. \A i \in 1 .. Len(s) : t[i] \in S
  BY <1>1
<1> DEFINE n == Len(s)
<1>3. /\ SubSeq(t, 1, n) \in Seq(S) /\ Len(SubSeq(t, 1, n)) = n
      /\ \A i \in 1 .. n : SubSeq(t, 1, n)[i] = t[i]
  <2>1. /\ SubSeq(t, 1, n) \in Seq(S)
        /\ Len(SubSeq(t, 1, n)) = IF 1 <= n THEN n - 1 + 1 ELSE 0
        /\ \A i \in 1 .. n - 1 + 1 : SubSeq(t, 1, n)[i] = t[1 + i - 1]
    BY <1>1, <1>2, SubSeqProperties
  <2>2. n - 1 + 1 = n /\ \A i \in 1 .. n : 1 + i - 1 = i
    BY <1>1
  <2> QED BY <1>1, <2>1, <2>2
<1>4. \A i \in 1 .. n : SubSeq(t, 1, n)[i] = s[i]
  BY <1>3
<1> HIDE DEF n
<1> QED BY <1>3, <1>4, SeqEqual DEF n

\* The error reply after a part of a forwarded one.
LEMMA BrokenIs ==
    ASSUME NEW c \in Conns
    PROVE  Session!Broken(c) =
             << <<c, "forwarded">>, <<c, "head">>, <<c, "body">> >>
<1> DEFINE a == <<c, "forwarded">>  b == <<c, "head">>  d == <<c, "body">>
<1>1. a \in Parts /\ b \in Parts /\ d \in Parts
  BY DEF Parts
<1>2. Session!Broken(c) = <<a>> \o <<b, d>>
  BY DEF Session!Broken, Session!Own
<1> HIDE DEF a, b, d
<1>3. <<a>> \o <<b, d>> = <<a, b, d>>
  <2>1. <<a>> \in Seq(Parts) /\ <<b, d>> \in Seq(Parts)
        /\ <<a, b, d>> \in Seq(Parts)
    BY <1>1
  <2>2. /\ <<a>> \o <<b, d>> \in Seq(Parts)
        /\ Len(<<a>> \o <<b, d>>) = Len(<<a>>) + Len(<<b, d>>)
        /\ \A i \in 1 .. Len(<<a>>) + Len(<<b, d>>) :
              (<<a>> \o <<b, d>>)[i] =
                 IF i <= Len(<<a>>) THEN <<a>>[i] ELSE <<b, d>>[i - Len(<<a>>)]
    BY <2>1, ConcatProperties
  <2>3. Len(<<a>>) = 1 /\ Len(<<b, d>>) = 2 /\ Len(<<a, b, d>>) = 3
    OBVIOUS
  <2>4. /\ Len(<<a>> \o <<b, d>>) = 3
        /\ \A i \in 1 .. 3 : (<<a>> \o <<b, d>>)[i] = <<a, b, d>>[i]
    BY <2>2, <2>3
  <2> QED BY <2>1, <2>2, <2>3, <2>4, SeqEqual
<1> QED BY <1>2, <1>3 DEF a, b, d

-----------------------------------------------------------------------------
(***************************************************************************)
(* The steps of LKSession.                                                  *)
(***************************************************************************)
Lost == {c \in Conns : client[c] \in {"gone", "reset"}}
Cut  == {c \in Conns : upstream[c] = "reset"}

\* What a step of the server must look like to a client of LKSession.
SessionStep == [Session!Next]_(Session!vars)

\* Nothing of LKSession changes.
LEMMA StepStutters ==
    ASSUME sent' = sent, conn' = conn, Lost' = Lost, Cut' = Cut
    PROVE  SessionStep
BY DEF SessionStep, Session!vars, Lost, Cut

\* The parts sent to c grow towards a reply.
LEMMA StepSends ==
    ASSUME NEW c \in Conns, conn[c] = "open", SentTyped,
           NEW reply \in Session!Replies(c), reply \in Seq(Parts),
           NEW s \in Seq(Parts), s # << >>,
           Len(sent[c]) < Len(s), Len(s) <= Len(reply),
           \A i \in 1 .. Len(s) : s[i] = reply[i],
           \A i \in 1 .. Len(sent[c]) : sent[c][i] = s[i],
           sent' = [sent EXCEPT ![c] = s],
           conn' = conn, Lost' = Lost, Cut' = Cut
    PROVE  SessionStep
<1>1. sent[c] \in Seq(Parts) /\ sent'[c] = s
  BY DEF SentTyped, Parts
<1>2. Len(s) \in Nat /\ Len(reply) \in Nat /\ Len(sent[c]) \in Nat
  BY <1>1, LenProperties
<1>3. SubSeq(reply, 1, Len(s)) = s
  BY Beginning
<1>4. Len(s) \in 1 .. Len(reply)
  BY <1>2
<1>5. \E n \in 1 .. Len(reply) : sent' = [sent EXCEPT ![c] = SubSeq(reply, 1, n)]
  BY <1>3, <1>4
<1>6. SubSeq(sent[c], 1, Len(sent[c])) = SubSeq(sent'[c], 1, Len(sent[c]))
  <2>1. SubSeq(s, 1, Len(sent[c])) = sent[c]
    BY <1>1, <1>2, Beginning
  <2>2. SubSeq(sent[c], 1, Len(sent[c])) = sent[c]
    BY <1>1, <1>2, Beginning
  <2> QED BY <1>1, <2>1, <2>2
<1>7. sent[c] # sent'[c] /\ Len(sent[c]) <= Len(sent'[c])
  BY <1>1, <1>2
<1>8. Session!IsStrictPrefix(sent[c], sent'[c])
  BY <1>6, <1>7 DEF Session!IsStrictPrefix, Session!IsPrefix
<1>9. Session!Send(c)
  BY <1>5, <1>8 DEF Session!Send, Lost, Cut
<1> QED BY <1>9 DEF SessionStep, Session!Next

\* The session of c ends with its reply complete, or its client lost.
LEMMA StepCloses ==
    ASSUME NEW c \in Conns, conn[c] = "open", SentTyped,
           \/ \E reply \in Session!Replies(c) :
                 /\ reply \in Seq(Parts) /\ Len(sent[c]) <= Len(reply)
                 /\ \A i \in 1 .. Len(sent[c]) : sent[c][i] = reply[i]
                 /\ sent' = [sent EXCEPT ![c] = reply]
           \/ c \in Lost /\ sent' = sent,
           conn' = [conn EXCEPT ![c] = "closed"], Lost' = Lost, Cut' = Cut
    PROVE  SessionStep
<1>1. ASSUME NEW reply \in Session!Replies(c), reply \in Seq(Parts),
             Len(sent[c]) <= Len(reply),
             \A i \in 1 .. Len(sent[c]) : sent[c][i] = reply[i],
             sent' = [sent EXCEPT ![c] = reply]
      PROVE  Session!Close(c)
  <2>1. sent[c] \in Seq(Parts) /\ sent'[c] = reply
    BY <1>1 DEF SentTyped, Parts
  <2>2. SubSeq(sent[c], 1, Len(sent[c])) = SubSeq(sent'[c], 1, Len(sent[c]))
    <3>1. SubSeq(reply, 1, Len(sent[c])) = sent[c]
      BY <1>1, <2>1, Beginning
    <3>2. SubSeq(sent[c], 1, Len(sent[c])) = sent[c]
      BY <2>1, LenProperties, Beginning
    <3> QED BY <2>1, <3>1, <3>2
  <2>3. Session!IsPrefix(sent[c], sent'[c])
    BY <1>1, <2>1, <2>2 DEF Session!IsPrefix
  <2> QED BY <1>1, <2>3 DEF Session!Close, Lost, Cut
<1>2. ASSUME c \in Lost, sent' = sent PROVE Session!Close(c)
  BY <1>2 DEF Session!Close, Lost, Cut
<1>3. Session!Close(c)
  BY <1>1, <1>2
<1> QED BY <1>3 DEF SessionStep, Session!Next

-----------------------------------------------------------------------------
(***************************************************************************)
(* How far each session is: what was sent to the client of a context, by    *)
(* the type of the context and the number of buffers written.               *)
(***************************************************************************)
\* n buffers of the server's own reply, from the beginning or after a part of
\* a forwarded one.
Replied(c, n) ==
    IF n = 0 THEN << >>
    ELSE IF n = 1 THEN << <<c, "head">> >>
    ELSE << <<c, "head">>, <<c, "body">> >>

Begun(c) == << <<c, "forwarded">> >>

Resumed(c, n) ==
    IF n = 0 THEN Begun(c)
    ELSE IF n = 1 THEN << <<c, "forwarded">>, <<c, "head">> >>
    ELSE << <<c, "forwarded">>, <<c, "head">>, <<c, "body">> >>

Progress(x) ==
    LET c == x.conn IN
    \/ /\ x.type \in {"CTX_READ_REQ", "CTX_READ_CGI_OUTPUT"}
       /\ sent[c] = << >> /\ upstream[c] = "none"
    \/ x.type = "CTX_PROXY_WRITE_REQ" /\ sent[c] = << >>
    \/ x.type = "CTX_PROXY_PIPE_RESP" /\ sent[c] \in {<< >>, Begun(c)}
    \/ /\ x.type = "CTX_WRITE_RESP"
       /\ upstream[c] \in {"none", "reset"}
       /\ \/ sent[c] = Replied(c, x.items_cur)
          \/ c \in Cut \cup Lost /\ sent[c] = Resumed(c, x.items_cur)

SessionInv ==
    /\ \A c \in Conns :
          /\ conn[c] \in {"new", "queued"} =>
                sent[c] = << >> /\ upstream[c] = "none"
          /\ conn[c] # "open" => upstream[c] \in {"none", "reset"}
    /\ \A x \in Live : Progress(x)

\* What an event does to the session of context x, which goes on with those in
\* N or is closed.
Moved(x, N) ==
    /\ Live' = (Live \ {x}) \cup N
    /\ \A y \in N : y.conn = x.conn /\ Progress(y)'
    /\ \A c \in Conns \ {x.conn} :
          sent'[c] = sent[c] /\ upstream'[c] = upstream[c] /\ conn'[c] = conn[c]
    /\ Lost' = Lost
    /\ \/ conn'[x.conn] = "open"
       \/ conn'[x.conn] = "closed" /\ upstream'[x.conn] \in {"none", "reset"}

\* The session of another connection is where it was.
LEMMA ProgressElsewhere ==
    ASSUME NEW y, y.conn \in Conns, Progress(y), sent'[y.conn] = sent[y.conn],
           upstream'[y.conn] = upstream[y.conn], Lost \subseteq Lost'
    PROVE  Progress(y)'
<1>1. y.conn \in Cut => y.conn \in Cut'
  BY DEF Cut
<1> QED BY <1>1 DEF Progress

\* What happens to one session keeps the invariant.
LEMMA MovedKeeps ==
    ASSUME FullInv, SessionInv, NEW x \in Live, NEW N, Moved(x, N)
    PROVE  SessionInv'
<1>1. \A y \in Live : y \in Ctxs /\ y.conn \in Conns
  BY LiveContexts, CtxFields DEF FullInv
<1>2. \A y \in Live \ {x} : y.conn # x.conn
  BY LiveContexts DEF FullInv, LiveInv, OnePerConn
<1>3. ASSUME NEW y \in Live' PROVE Progress(y)'
  <2>1. CASE y \in N
    BY <2>1 DEF Moved
  <2>2. CASE y \in Live \ {x}
    <3>1. Progress(y) /\ y.conn \in Conns \ {x.conn}
      BY <1>1, <1>2, <2>2 DEF SessionInv
    <3> QED BY <3>1, ProgressElsewhere DEF Moved
  <2> QED BY <1>3, <2>1, <2>2 DEF Moved
<1>4. ASSUME NEW c \in Conns
      PROVE  /\ conn'[c] \in {"new", "queued"} =>
                   sent'[c] = << >> /\ upstream'[c] = "none"
             /\ conn'[c] # "open" => upstream'[c] \in {"none", "reset"}
  <2>1. CASE c = x.conn
    BY <2>1 DEF Moved
  <2>2. CASE c # x.conn
    BY <2>2 DEF Moved, SessionInv
  <2> QED BY <2>1, <2>2
<1> QED BY <1>3, <1>4 DEF SessionInv

\* A step that sends nothing and changes no context and no upstream.
LEMMA QuietKeeps ==
    ASSUME FullInv, SessionInv, Live' = Live, sent' = sent, conn' = conn,
           upstream' = upstream, Lost \subseteq Lost'
    PROVE  SessionInv'
<1>1. \A y \in Live : y.conn \in Conns
  BY LiveContexts, CtxFields DEF FullInv
<1>2. \A y \in Live' : Progress(y)'
  BY <1>1, ProgressElsewhere DEF SessionInv
<1> QED BY <1>2 DEF SessionInv

\* A connection with a context is open.
LEMMA LiveOpen ==
    ASSUME FullInv, NEW x \in Live
    PROVE  x.conn \in Conns /\ conn[x.conn] = "open"
<1>1. x.conn \in Conns
  BY LiveContexts, CtxFields DEF FullInv
<1> QED BY <1>1 DEF FullInv, LiveInv

-----------------------------------------------------------------------------
(***************************************************************************)
(* What the statements of the handlers do to a session.                     *)
(***************************************************************************)
\* A changed context takes the place of the old one.
LEMMA Replacing ==
    ASSUME FullInv, TypeInv', NEW x \in Live, NEW e, e.conn = x.conn,
           ctxhead' = [ctxhead EXCEPT ![Matched(x.selectfd)] = e]
    PROVE  e \in Ctxs /\ Live' = (Live \ {x}) \cup {e}
<1> DEFINE k == Matched(x.selectfd)
<1>1. k \in 1 .. Len(ctxhead) /\ ctxhead \in Seq(Ctxs)
  BY MatchedLive, LiveContexts DEF FullInv
<1> HIDE DEF k
<1>2. ctxhead' = [ctxhead EXCEPT ![k] = e]
  BY DEF k
<1>3. /\ ctxhead' \in Seq(Ctxs)
      /\ DOMAIN ctxhead = 1 .. Len(ctxhead)
      /\ DOMAIN ctxhead' = 1 .. Len(ctxhead')
  BY <1>1, LenProperties DEF TypeInv, ContextsTyped
<1>4. k \in 1 .. Len(ctxhead') /\ ctxhead'[k] = e
  BY <1>1, <1>2, <1>3
<1>5. e \in Ctxs
  BY <1>3, <1>4, ElementOfSeq
<1> QED BY <1>5, Replaced DEF FullInv

\* The session is to be answered from the first buffer on.
LEMMA Answering ==
    ASSUME FullInv, TypeInv', NEW x \in Live, NEW ctx \in Ctxs,
           ctx.conn = x.conn, NEW wfds,
           process_response(Matched(x.selectfd), ctx, wfds)
    PROVE  \E e \in Ctxs : /\ e.type = "CTX_WRITE_RESP" /\ e.items_cur = 0
                           /\ e.conn = x.conn /\ Live' = (Live \ {x}) \cup {e}
<1> DEFINE e == [ctx EXCEPT !.selectfd = ctx.clientfd,
                            !.type = "CTX_WRITE_RESP", !.items_cur = 0]
<1>1. e = Rec("CTX_WRITE_RESP", ctx.clientfd, ctx.clientfd, ctx.cgifd,
              ctx.proxyfd, 0, ctx.respbuf, ctx.conn)
  BY AnswerFields
<1>2. ctxhead' = [ctxhead EXCEPT ![Matched(x.selectfd)] = e]
  BY DEF process_response
<1> HIDE DEF e
<1>3. e.type = "CTX_WRITE_RESP" /\ e.items_cur = 0 /\ e.conn = x.conn
  BY <1>1 DEF Rec
<1> QED BY <1>2, <1>3, Replacing

\* Closing descriptors of a session ends its connection if the client's is among
\* them and its upstream connection if that is, and no other.
LEMMA Closing ==
    ASSUME FullInv, TypeInv', NEW x \in Live, NEW F \in SUBSET FdsOf(x),
           NEW buffers, CloseFds(F, buffers)
    PROVE  /\ conn' = IF x.clientfd \in F THEN [conn EXCEPT ![x.conn] = "closed"]
                       ELSE conn
           /\ \A c \in Conns \ {x.conn} : upstream'[c] = upstream[c]
           /\ upstream'[x.conn] =
                IF x.proxyfd \in F /\ upstream[x.conn] # "reset" THEN "none"
                ELSE upstream[x.conn]
           /\ Cut' = Cut
<1>1. /\ x \in Ctxs /\ OwnFds(x) /\ Listening /\ x.conn \in Conns
  BY LiveContexts, CtxFields DEF FullInv, LiveInv
<1>2. \A f \in F : fdtab[f].conn = x.conn
  BY <1>1, OwnOpen
<1>3. ClosedConns("client", F) = IF x.clientfd \in F THEN {x.conn} ELSE {}
  BY <1>1, <1>2 DEF ClosedConns, OwnFds, FdsOf, Object
<1>4. ClosedConns("proxy", F) = IF x.proxyfd \in F THEN {x.conn} ELSE {}
  BY <1>1, <1>2 DEF ClosedConns, OwnFds, FdsOf, Object
<1>5. /\ conn' = [c \in Conns |-> IF c \in ClosedConns("client", F)
                                 THEN "closed" ELSE conn[c]]
      /\ upstream' = [c \in Conns |->
                        IF c \in ClosedConns("proxy", F) /\ upstream[c] # "reset"
                        THEN "none" ELSE upstream[c]]
  BY DEF CloseFds
<1>6. conn \in [Conns -> {"new", "queued", "open", "closed"}]
  BY DEF FullInv, TypeInv, PeersTyped
<1>7. conn' = IF x.clientfd \in F THEN [conn EXCEPT ![x.conn] = "closed"]
              ELSE conn
  BY <1>1, <1>3, <1>5, <1>6
<1>8. \A c \in Conns : upstream'[c] =
         IF c = x.conn /\ x.proxyfd \in F /\ upstream[c] # "reset" THEN "none"
         ELSE upstream[c]
  BY <1>4, <1>5
<1>9. Cut' = Cut
  BY <1>8 DEF Cut
<1> QED BY <1>1, <1>7, <1>8, <1>9

\* A session that goes on with context e.
LEMMA GoesOn ==
    ASSUME FullInv, SessionInv, TypeInv', NEW x \in Live, NEW e,
           e.conn = x.conn, Live' = (Live \ {x}) \cup {e}, Progress(e)',
           \A c \in Conns \ {x.conn} :
              sent'[c] = sent[c] /\ upstream'[c] = upstream[c],
           conn' = conn, Lost' = Lost
    PROVE  SessionInv'
<1>1. conn'[x.conn] = "open"
  BY LiveOpen
<1>2. Moved(x, {e})
  BY <1>1 DEF Moved
<1> QED BY <1>2, MovedKeeps

\* A session that is to be answered.
LEMMA Answers ==
    ASSUME FullInv, SessionInv, TypeInv', NEW x \in Live, NEW ctx \in Ctxs,
           ctx.conn = x.conn, NEW wfds,
           process_response(Matched(x.selectfd), ctx, wfds),
           conn' = conn, sent' = sent, Lost' = Lost,
           \A c \in Conns \ {x.conn} : upstream'[c] = upstream[c],
           upstream'[x.conn] \in {"none", "reset"},
           \/ sent[x.conn] = << >>
           \/ x.conn \in Cut' \cup Lost /\ sent[x.conn] = Begun(x.conn)
    PROVE  SessionInv'
<1>1. PICK e \in Ctxs : /\ e.type = "CTX_WRITE_RESP" /\ e.items_cur = 0
                        /\ e.conn = x.conn
                        /\ Live' = (Live \ {x}) \cup {e}
  BY Answering
<1>2. Progress(e)'
  BY <1>1 DEF Progress, Replied, Resumed, Begun
<1> QED BY <1>1, <1>2, GoesOn

\* A session that ends.
LEMMA Ends ==
    ASSUME FullInv, SessionInv, TypeInv', NEW x \in Live,
           terminate_client_session(x, full), client' = client,
           \A c \in Conns \ {x.conn} : sent'[c] = sent[c]
    PROVE  /\ SessionInv' /\ conn' = [conn EXCEPT ![x.conn] = "closed"]
           /\ Lost' = Lost /\ Cut' = Cut
<1>1. x \in Ctxs /\ OwnFds(x) /\ x.conn \in Conns /\ conn[x.conn] = "open"
  BY LiveContexts, LiveOpen DEF FullInv, LiveInv
<1>2. CloseFds(FdsOf(x), full)
  BY DEF terminate_client_session
<1>3. Live' = Live \ {x}
  BY Removed DEF terminate_client_session, FullInv
<1>4. /\ conn' = [conn EXCEPT ![x.conn] = "closed"] /\ Cut' = Cut
      /\ \A c \in Conns \ {x.conn} : upstream'[c] = upstream[c]
      /\ upstream'[x.conn] =
           IF x.proxyfd \in FdsOf(x) /\ upstream[x.conn] # "reset" THEN "none"
           ELSE upstream[x.conn]
  <2>1. x.clientfd \in FdsOf(x)
    BY <1>1, OwnSelected
  <2> QED BY <1>2, <2>1, Closing
<1>5. upstream'[x.conn] \in {"none", "reset"}
  <2>1. CASE x.proxyfd = 0
    <3>1. Progress(x)
      BY DEF SessionInv
    <3>2. upstream[x.conn] \in {"none", "reset"}
      BY <1>1, <2>1, <3>1 DEF Progress, OwnFds, ShapeOK
    <3> QED BY <1>4, <3>2
  <2>2. CASE x.proxyfd # 0
    <3>1. x.proxyfd \in FdsOf(x)
      BY <2>2 DEF FdsOf
    <3> QED BY <1>4, <3>1
  <2> QED BY <2>1, <2>2
<1>6. conn \in [Conns -> {"new", "queued", "open", "closed"}]
  BY DEF FullInv, TypeInv, PeersTyped
<1>7. Lost' = Lost
  BY DEF Lost
<1>8. Moved(x, {})
  BY <1>1, <1>3, <1>4, <1>5, <1>6, <1>7 DEF Moved
<1> QED BY <1>4, <1>7, <1>8, MovedKeeps

\* A connection is shut for writing only where it is taken for the input of a
\* CGI program.
NoneShut == full \subseteq {"client", "proxy"} \X Conns

\* A write fills a buffer at the most.
LEMMA WriteShutsNothing ==
    ASSUME FullInv, NoneShut, NEW f \in Fds, NEW z \in {"Z_EOF", "Z_BLOCK"},
           lk_write_all(f, z), full' \in FullAfter(f, z)
    PROVE  NoneShut'
<1>1. IsStream(f)
  BY DEF lk_write_all
<1>2. Side(f) \in {"client", "proxy"} \X Conns
  BY <1>1 DEF Side, IsStream, FullInv, TypeInv, TableTyped
<1>3. full' \in {full, full \cup {Side(f)}}
  BY DEF FullAfter
<1> QED BY <1>2, <1>3 DEF NoneShut

\* Nobody shuts a connection as long as no CGI program is fed.
LEMMA NothingShut ==
    ASSUME FullInv, NoneShut, [Next]_vars PROVE NoneShut'
<1>1. ASSUME full' \subseteq full PROVE NoneShut'
  BY <1>1 DEF NoneShut
<1>2. CASE Environment
  <2>1. full' \subseteq full
    BY <1>2 DEF Environment, Connect, SendFragment, SendRest, HangUp,
                ClientMove, Drain, CgiOutput, CgiExit, CgiMove, UpstreamSend,
                UpstreamEnd, UpstreamReset, UpstreamMove
  <2> QED BY <1>1, <2>1
<1>3. CASE \/ SelectReturns \/ SelectFails \/ AcceptFails
           \/ \E c \in Conns : Accept(c)
           \/ \E f \in Fds : ReadCgiOutputWaits(f)
           \/ UNCHANGED vars
  BY <1>1, <1>3 DEF SelectReturns, SelectFails, AcceptFails, Accept,
                    ReadCgiOutputWaits, peers, vars
<1>4. ASSUME NEW f \in Fds, ReadRequestPart(f) PROVE NoneShut'
  BY <1>1, <1>4 DEF ReadRequestPart
<1>5. ASSUME NEW f \in Fds, ReadRequest(f) PROVE NoneShut'
  <2>1. full' = full
    BY <1>5 DEF ReadRequest, process_request, serve_cgi, serve_proxy, peers
  <2> QED BY <1>1, <2>1
<1>6. ASSUME NEW f \in Fds, ReadCgiOutput(f) PROVE NoneShut'
  BY <1>1, <1>6 DEF ReadCgiOutput, CloseFds
<1>7. ASSUME NEW f \in Fds, WriteResponse(f) PROVE NoneShut'
  <2>1. \/ full' \subseteq full
        \/ \E z \in {"Z_EOF", "Z_BLOCK"} :
              lk_write_all(f, z) /\ full' \in FullAfter(f, z)
    BY <1>7 DEF WriteResponse, terminate_client_session, CloseFds
  <2> QED BY <1>1, <2>1, WriteShutsNothing
<1>8. ASSUME NEW f \in Fds, WriteProxyRequest(f) PROVE NoneShut'
  <2>1. \/ full' \subseteq full
        \/ \E z \in {"Z_EOF", "Z_BLOCK"} :
              lk_write_all(f, z) /\ full' \in FullAfter(f, z)
    BY <1>8 DEF WriteProxyRequest, CloseFds
  <2> QED BY <1>1, <2>1, WriteShutsNothing
<1>9. ASSUME NEW f \in Fds, PipeProxyResponse(f) PROVE NoneShut'
  <2> DEFINE g == ctxhead[Matched(f)].clientfd
  <2>1. g \in Fds
    <3>1. ReadEvent(f)
      BY <1>9 DEF PipeProxyResponse, ReadEventOf
    <3>2. PICK x \in Live : ctxhead[Matched(f)] = x /\ x \in Ctxs /\ OwnFds(x)
      BY <3>1, EventContext
    <3> QED BY <3>2, CtxFields DEF OwnFds, ShapeOK
  <2>2. \/ full' \subseteq full
        \/ \E z \in {"Z_EOF", "Z_BLOCK"} :
              lk_write_all(g, z) /\ full' \in FullAfter(g, z)
    BY <1>9 DEF PipeProxyResponse, terminate_client_session, CloseFds
  <2> HIDE DEF g
  <2> QED BY <1>1, <2>1, <2>2, WriteShutsNothing
<1> QED BY <1>2, <1>3, <1>4, <1>5, <1>6, <1>7, <1>8, <1>9, ImpossibleEvents
        DEF Next, Server

\* A write to the client that fails: the client is lost.
LEMMA FailedWrite ==
    ASSUME FullInv, NoneShut, NEW x \in Live, lk_write_all(x.clientfd, "Z_ERR")
    PROVE  x.conn \in Lost
<1>1. OwnFds(x) /\ x.conn \in Conns
  BY LiveOpen DEF FullInv, LiveInv
<1>2. /\ fdtab[x.clientfd].kind = "client"
      /\ fdtab[x.clientfd].conn = x.conn
  BY <1>1 DEF OwnFds, Object
<1>3. EndedPeer(x.clientfd)
  <2>1. ShutSide(x.clientfd) \notin full
    BY <1>2 DEF ShutSide, NoneShut
  <2> QED BY <1>2, <2>1 DEF lk_write_all, IsStream, IsShut
<1> QED BY <1>1, <1>2, <1>3 DEF EndedPeer, ResetPeer, Lost

\* What is delivered to the client of a session.
LEMMA Delivered ==
    ASSUME FullInv, NEW x \in Live, NEW part
    PROVE  Deliver(x.clientfd, x.conn, part) =
             IF <<x.conn, part>> \in ToSet(sent[x.conn]) THEN sent
             ELSE [sent EXCEPT ![x.conn] = Append(sent[x.conn], <<x.conn, part>>)]
<1>1. OwnFds(x)
  BY DEF FullInv, LiveInv
<1>2. fdtab[x.clientfd].kind = "client" /\ fdtab[x.clientfd].conn = x.conn
  BY <1>1 DEF OwnFds, Object
<1> QED BY <1>2 DEF Deliver

-----------------------------------------------------------------------------
(***************************************************************************)
(* The environment.                                                         *)
(***************************************************************************)
\* Clients, CGI programs and upstreams act.
LEMMA SessionEnvironment ==
    ASSUME FullInv, SessionInv, Environment
    PROVE  SessionInv' /\ SessionStep
<1>0. /\ conn \in [Conns -> {"new", "queued", "open", "closed"}]
      /\ client \in [Conns -> {"quiet", "fragment", "sent", "gone", "reset"}]
      /\ upstream \in [Conns -> {"none", "open", "data", "datafin", "fin", "reset"}]
      /\ sent \in [Conns -> Seq(Parts)]
  BY DEF FullInv, TypeInv, PeersTyped, SentTyped, Parts
<1>1. UNCHANGED server /\ Live' = Live
  <2>1. UNCHANGED server
    BY DEF Environment, Connect, SendFragment, SendRest, HangUp,
           ClientMove, Drain, CgiOutput, CgiExit, CgiMove, UpstreamSend,
           UpstreamEnd, UpstreamReset, UpstreamMove
  <2> QED BY <2>1 DEF server, Live
<1>2. ASSUME NEW c \in Conns, Connect(c) PROVE SessionInv' /\ SessionStep
  <2>1. \A x \in Live : x.conn \in Conns \ {c}
    <3>1. conn[c] # "open"
      BY <1>2 DEF Connect
    <3> QED BY <3>1, LiveOpen
  <2>2. \A d \in Conns \ {c} : /\ sent'[d] = sent[d] /\ conn'[d] = conn[d]
                               /\ upstream'[d] = upstream[d]
                               /\ client'[d] = client[d]
    BY <1>0, <1>2 DEF Connect
  <2>3. /\ sent'[c] = << >> /\ conn'[c] = "queued" /\ upstream'[c] = "none"
        /\ client'[c] = "quiet"
    BY <1>0, <1>2 DEF Connect
  <2>4. ASSUME NEW x \in Live PROVE Progress(x)'
    <3>1. Progress(x) /\ x.conn \in Conns \ {c}
      BY <2>1 DEF SessionInv
    <3>2. x.conn \in Cut => x.conn \in Cut'
      BY <2>2, <3>1 DEF Cut
    <3>3. x.conn \in Lost => x.conn \in Lost'
      BY <2>2, <3>1 DEF Lost
    <3> QED BY <2>2, <3>1, <3>2, <3>3 DEF Progress
  <2>5. SessionInv'
    BY <1>1, <2>2, <2>3, <2>4 DEF SessionInv
  <2>6. Lost' = Lost \ {c} /\ Cut' = Cut \ {c}
    BY <2>2, <2>3 DEF Lost, Cut
  <2>7. Session!Connect(c)
    BY <1>2, <2>6 DEF Connect, Session!Connect, Lost, Cut
  <2> QED BY <2>5, <2>7 DEF SessionStep, Session!Next
<1>3. ASSUME NEW c \in Conns, HangUp(c) PROVE SessionInv' /\ SessionStep
  <2>1. /\ conn[c] \in {"queued", "open"} /\ Lost' = Lost \cup {c}
        /\ UNCHANGED <<conn, upstream, sent>>
    BY <1>0, <1>3 DEF HangUp, ClientMove, Lost
  <2>2. SessionInv'
    BY <1>1, <2>1, QuietKeeps
  <2>3. Session!Lose(c)
    BY <2>1 DEF Session!Lose, Lost, Cut
  <2> QED BY <2>2, <2>3 DEF SessionStep, Session!Next
<1>4. ASSUME NEW c \in Conns, SendFragment(c) \/ SendRest(c)
      PROVE  SessionInv' /\ SessionStep
  <2>1. Lost' = Lost /\ UNCHANGED <<conn, upstream, sent>>
    BY <1>0, <1>4 DEF SendFragment, SendRest, ClientMove, Lost
  <2>2. Cut' = Cut
    BY <2>1 DEF Cut
  <2> QED BY <1>1, <2>1, <2>2, QuietKeeps, StepStutters
<1>5. ASSUME NEW c \in Conns, Drain("client", c) \/ Drain("proxy", c)
                              \/ CgiOutput(c) \/ CgiExit(c)
      PROVE  SessionInv' /\ SessionStep
  <2>1. UNCHANGED <<conn, client, upstream, sent>>
    BY <1>5 DEF Drain, CgiOutput, CgiExit, CgiMove
  <2>2. Lost' = Lost /\ Cut' = Cut
    BY <2>1 DEF Lost, Cut
  <2> QED BY <1>1, <2>1, <2>2, QuietKeeps, StepStutters
<1>6. ASSUME NEW c \in Conns, NEW to \in {"open", "data", "datafin", "fin", "reset"},
             upstream[c] \in {"open", "data", "datafin", "fin"},
             upstream' = [upstream EXCEPT ![c] = to],
             UNCHANGED <<conn, client, sent>>
      PROVE  SessionInv' /\ conn[c] = "open"
  <2>1. conn[c] = "open"
    BY <1>6 DEF SessionInv
  <2>2. Lost' = Lost /\ Cut \subseteq Cut'
    BY <1>0, <1>6 DEF Lost, Cut
  <2>3. ASSUME NEW x \in Live PROVE Progress(x)'
    <3>1. Progress(x) /\ x.conn \in Conns
      BY LiveOpen DEF SessionInv
    <3>2. CASE x.conn = c
      BY <1>6, <2>2, <3>1, <3>2 DEF Progress
    <3>3. CASE x.conn # c
      <4>1. upstream'[x.conn] = upstream[x.conn] /\ sent' = sent
        BY <1>0, <1>6, <3>1, <3>3
      <4> QED BY <2>2, <3>1, <4>1, ProgressElsewhere
    <3> QED BY <3>2, <3>3
  <2>4. SessionInv'
    BY <1>0, <1>1, <1>6, <2>1, <2>3 DEF SessionInv
  <2> QED BY <2>1, <2>4
<1>7. ASSUME NEW c \in Conns, UpstreamSend(c) \/ UpstreamEnd(c)
      PROVE  SessionInv' /\ SessionStep
  <2>1. PICK to \in {"open", "data", "datafin", "fin"} :
             /\ upstream[c] \in {"open", "data", "datafin", "fin"}
             /\ upstream' = [upstream EXCEPT ![c] = to]
             /\ UNCHANGED <<conn, client, sent>>
    BY <1>7 DEF UpstreamSend, UpstreamEnd, UpstreamMove
  <2>2. Lost' = Lost /\ Cut' = Cut
    BY <1>0, <2>1 DEF Lost, Cut
  <2> QED BY <1>6, <2>1, <2>2, StepStutters
<1>8. ASSUME NEW c \in Conns, UpstreamReset(c) PROVE SessionInv' /\ SessionStep
  <2>1. /\ upstream[c] \in {"open", "data", "datafin", "fin"}
        /\ upstream' = [upstream EXCEPT ![c] = "reset"]
        /\ UNCHANGED <<conn, client, sent>>
    BY <1>8 DEF UpstreamReset, UpstreamMove
  <2>2. SessionInv' /\ conn[c] = "open"
    BY <1>6, <2>1
  <2>3. Lost' = Lost /\ Cut' = Cut \cup {c}
    BY <1>0, <2>1 DEF Lost, Cut
  <2>4. Session!Break(c)
    BY <2>1, <2>2, <2>3 DEF Session!Break, Lost, Cut
  <2> QED BY <2>2, <2>4 DEF SessionStep, Session!Next
<1> QED BY <1>2, <1>3, <1>4, <1>5, <1>7, <1>8 DEF Environment

-----------------------------------------------------------------------------
(***************************************************************************)
(* The events.                                                              *)
(***************************************************************************)
\* accept().
LEMMA SessionAccept ==
    ASSUME FullInv, SessionInv, NEW c \in Conns, Accept(c)
    PROVE  SessionInv' /\ SessionStep
<1>1. PICK fd \in Fds : fd = Lowest(FreeFds) /\ fd \in FreeFds
  BY LowestIn DEF Accept, FreeFds
<1> DEFINE e == create_initial_context(fd, c)
<1>2. /\ ctxhead' = add_new_client_context(ctxhead, e)
      /\ conn[c] = "queued" /\ conn' = [conn EXCEPT ![c] = "open"]
      /\ UNCHANGED <<client, upstream, sent>>
  BY <1>1 DEF Accept, peers
<1>3. conn \in [Conns -> {"new", "queued", "open", "closed"}]
  BY DEF FullInv, TypeInv, PeersTyped
<1>4. e \in Ctxs
  <2>1. e = Rec("CTX_READ_REQ", fd, fd, 0, 0, 0, FALSE, c)
    BY DEF create_initial_context, Rec
  <2>2. "CTX_READ_REQ" \in CtxType /\ 0 \in 0 .. 2
    BY DEF CtxType
  <2> HIDE DEF e
  <2> QED BY <1>1, <2>1, <2>2, RecTyped
<1>5. e.type = "CTX_READ_REQ" /\ e.clientfd = fd /\ e.conn = c
  BY DEF create_initial_context
<1> HIDE DEF e
<1>6. ASSUME NEW x \in Live PROVE x.conn \in Conns \ {c} /\ x.clientfd # fd
  <2>1. x.conn \in Conns \ {c}
    BY <1>2, LiveOpen
  <2>2. x \in Ctxs /\ OwnFds(x) /\ Listening
    BY LiveContexts DEF FullInv, LiveInv
  <2>3. fdtab[x.clientfd].kind # "free"
    BY <2>2, OwnSelected, OwnOpen
  <2> QED BY <1>1, <2>1, <2>3 DEF FreeFds, Free, Object
<1>7. Live' = Live \cup {e}
  <2>1. \A i \in 1 .. Len(ctxhead) : ctxhead[i] \in Live
    BY LiveContexts DEF FullInv
  <2>2. /\ \A i \in 1 .. Len(ctxhead) : ctxhead[i].conn # e.conn
        /\ \A i \in 1 .. Len(ctxhead) : ctxhead[i].clientfd # e.clientfd
    BY <1>5, <1>6, <2>1
  <2>3. ctxhead \in Seq(Ctxs) /\ OnePerConn(ctxhead)
    BY LiveContexts DEF FullInv, LiveInv
  <2>4. ToSet(add_new_client_context(ctxhead, e)) = ToSet(ctxhead) \cup {e}
    BY ONLY <1>4, <2>2, <2>3, AddNewSet
  <2> QED BY <1>2, <2>4 DEF Live
<1>8. sent[c] = << >> /\ upstream[c] = "none"
  BY <1>2 DEF SessionInv
<1>9. Lost' = Lost /\ Cut' = Cut
  BY <1>2 DEF Lost, Cut
<1>10. Progress(e)'
  BY <1>2, <1>5, <1>8 DEF Progress
<1>11. ASSUME NEW x \in Live PROVE Progress(x)'
  <2>1. Progress(x) /\ x.conn \in Conns
    BY <1>6 DEF SessionInv
  <2> QED BY <1>2, <1>9, <2>1, ProgressElsewhere
<1>12. SessionInv'
  <2>1. \A d \in Conns : conn'[d] = IF d = c THEN "open" ELSE conn[d]
    BY <1>2, <1>3
  <2>2. \A d \in Conns :
           /\ conn'[d] \in {"new", "queued"} =>
                 sent'[d] = << >> /\ upstream'[d] = "none"
           /\ conn'[d] # "open" => upstream'[d] \in {"none", "reset"}
    BY <1>2, <2>1 DEF SessionInv
  <2>3. \A x \in Live' : Progress(x)'
    BY <1>7, <1>10, <1>11
  <2> QED BY <2>2, <2>3 DEF SessionInv
<1>13. Session!Accept(c)
  BY <1>2, <1>9 DEF Session!Accept, Lost, Cut
<1> QED BY <1>12, <1>13 DEF SessionStep, Session!Next

\* A request is read in part.
LEMMA SessionReadPart ==
    ASSUME FullInv, SessionInv, NEW f, ReadRequestPart(f)
    PROVE  SessionInv' /\ SessionStep
<1>1. client \in [Conns -> {"quiet", "fragment", "sent", "gone", "reset"}]
  BY DEF FullInv, TypeInv, PeersTyped
<1>2. UNCHANGED <<ctxhead, conn, upstream, sent>>
  BY DEF ReadRequestPart
<1>3. Lost' = Lost
  BY <1>1 DEF ReadRequestPart, Lost
<1>4. Live' = Live /\ Cut' = Cut
  BY <1>2 DEF Live, Cut
<1> QED BY <1>2, <1>3, <1>4, QuietKeeps, StepStutters

\* serve_cgi, for a request without a body.
LEMMA SessionServeCgi ==
    ASSUME FullInv, SessionInv, TypeInv', NEW x \in Live,
           x.type = "CTX_READ_REQ", NEW rfds,
           serve_cgi(Matched(x.selectfd), x, x.conn, FALSE, rfds)
    PROVE  SessionInv' /\ SessionStep
<1>1. x \in Ctxs /\ x.conn \in Conns /\ Progress(x)
  BY LiveContexts, LiveOpen DEF FullInv, SessionInv
<1>2. sent[x.conn] = << >> /\ upstream[x.conn] = "none"
  BY <1>1 DEF Progress
<1>3. UNCHANGED <<conn, client, upstream, sent>>
  BY DEF serve_cgi, peers
<1>4. Lost' = Lost /\ Cut' = Cut
  BY <1>3 DEF Lost, Cut
<1>5. SessionStep
  BY <1>3, <1>4, StepStutters
<1>6. CASE process_response(Matched(x.selectfd), x, writefds)
  BY <1>1, <1>2, <1>3, <1>4, <1>5, <1>6, Answers
<1>7. CASE ~process_response(Matched(x.selectfd), x, writefds)
  <2>1. PICK fd : fd = lk_popen3(FreeFds)
    OBVIOUS
  <2> DEFINE e == [x EXCEPT !.selectfd = fd.fd_out, !.cgifd = fd.fd_out,
                            !.type = "CTX_READ_CGI_OUTPUT"]
  <2>2. ctxhead' = [ctxhead EXCEPT ![Matched(x.selectfd)] = e]
    BY <1>7, <2>1 DEF serve_cgi
  <2>3. e = Rec("CTX_READ_CGI_OUTPUT", fd.fd_out, x.clientfd, fd.fd_out,
                x.proxyfd, x.items_cur, x.respbuf, x.conn)
    BY <1>1, CgiFields
  <2> HIDE DEF e
  <2>4. e.type = "CTX_READ_CGI_OUTPUT" /\ e.conn = x.conn
    BY <2>3 DEF Rec
  <2>5. Live' = (Live \ {x}) \cup {e}
    BY <2>2, <2>4, Replacing
  <2>6. Progress(e)'
    BY <1>2, <1>3, <2>4 DEF Progress
  <2>7. SessionInv'
    BY <1>3, <1>4, <2>4, <2>5, <2>6, GoesOn
  <2> QED BY <1>5, <2>7
<1> QED BY <1>6, <1>7

\* serve_proxy.
LEMMA SessionServeProxy ==
    ASSUME FullInv, SessionInv, TypeInv', NEW x \in Live,
           x.type = "CTX_READ_REQ", NEW rfds,
           serve_proxy(Matched(x.selectfd), x, x.conn, rfds)
    PROVE  SessionInv' /\ SessionStep
<1>1. x \in Ctxs /\ x.conn \in Conns /\ Progress(x)
  BY LiveContexts, LiveOpen DEF FullInv, SessionInv
<1>2. sent[x.conn] = << >> /\ upstream[x.conn] = "none"
  BY <1>1 DEF Progress
<1>3. UNCHANGED <<conn, client, sent>> /\ Lost' = Lost
  BY DEF serve_proxy, Lost
<1>4. CASE /\ process_response(Matched(x.selectfd), x, writefds)
           /\ UNCHANGED upstream
  <2>1. Cut' = Cut
    BY <1>4 DEF Cut
  <2>2. SessionInv'
    BY <1>1, <1>2, <1>3, <1>4, Answers
  <2> QED BY <1>3, <2>1, <2>2, StepStutters
<1>5. CASE ~ (/\ process_response(Matched(x.selectfd), x, writefds)
              /\ UNCHANGED upstream)
  <2>1. PICK fd : fd = Lowest(FreeFds)
    OBVIOUS
  <2> DEFINE e == [x EXCEPT !.proxyfd = fd, !.selectfd = fd,
                            !.type = "CTX_PROXY_WRITE_REQ", !.items_cur = 0]
  <2>2. /\ ctxhead' = [ctxhead EXCEPT ![Matched(x.selectfd)] = e]
        /\ upstream' = [upstream EXCEPT ![x.conn] = "open"]
    BY <1>5, <2>1 DEF serve_proxy
  <2>3. e = Rec("CTX_PROXY_WRITE_REQ", fd, x.clientfd, x.cgifd, fd,
                0, x.respbuf, x.conn)
    BY <1>1, ProxyFields
  <2> HIDE DEF e
  <2>4. e.type = "CTX_PROXY_WRITE_REQ" /\ e.conn = x.conn
    BY <2>3 DEF Rec
  <2>5. Live' = (Live \ {x}) \cup {e}
    BY <2>2, <2>4, Replacing
  <2>6. Progress(e)'
    BY <1>2, <1>3, <2>4 DEF Progress
  <2>7. /\ \A c \in Conns \ {x.conn} : upstream'[c] = upstream[c]
        /\ upstream'[x.conn] = "open"
    <3>1. upstream \in [Conns -> {"none", "open", "data", "datafin", "fin", "reset"}]
      BY DEF FullInv, TypeInv, PeersTyped
    <3> QED BY <1>1, <2>2, <3>1
  <2>8. Cut' = Cut
    BY <1>2, <2>7 DEF Cut
  <2>9. SessionInv'
    BY <1>3, <2>4, <2>5, <2>6, <2>7, GoesOn
  <2> QED BY <1>3, <2>8, <2>9, StepStutters
<1> QED BY <1>4, <1>5

\* A request is complete.
LEMMA SessionReadRequest ==
    ASSUME FullInv, SessionInv, TypeInv', NoCgiBody, NEW f, ReadRequest(f)
    PROVE  SessionInv' /\ SessionStep
<1>1. ReadEvent(f) /\ ctxhead[Matched(f)].type = "CTX_READ_REQ"
  BY DEF ReadRequest, ReadEventOf
<1>2. PICK x \in Live : /\ x.selectfd = f /\ ctxhead[Matched(f)] = x
                        /\ x \in Ctxs /\ OwnFds(x)
  BY <1>1, EventContext
<1>3. PICK c \in Conns :
        /\ fdtab[f] = Object("client", c)
        /\ process_request(Matched(f), ctxhead[Matched(f)], c, readfds \ {f})
  BY DEF ReadRequest
<1>4. x.type = "CTX_READ_REQ" /\ x.clientfd = f /\ c = x.conn
  BY <1>1, <1>2, <1>3 DEF OwnFds, ShapeOK, Object
<1>5. process_request(Matched(f), x, c, readfds \ {f})
  BY <1>2, <1>3
<1>6. PICK route \in Routes[c] :
         \/ /\ route = "reply"
            /\ process_response(Matched(f), x, writefds)
            /\ readfds' = readfds \ {f}
            /\ UNCHANGED <<fdtab, conn, peers, sent>>
         \/ /\ route \in {"cgi", "cgibody"}
            /\ serve_cgi(Matched(f), x, c, route = "cgibody", readfds \ {f})
         \/ /\ route = "proxy"
            /\ serve_proxy(Matched(f), x, c, readfds \ {f})
  BY <1>5 DEF process_request
<1>7. (route = "cgibody") = FALSE
  BY DEF NoCgiBody
<1>8. CASE /\ process_response(Matched(f), x, writefds)
           /\ UNCHANGED <<conn, client, upstream, sent>>
  <2>1. Lost' = Lost /\ Cut' = Cut
    BY <1>8 DEF Lost, Cut
  <2>2. sent[x.conn] = << >> /\ upstream[x.conn] = "none"
    BY <1>4 DEF SessionInv, Progress
  <2>3. SessionInv'
    BY <1>2, <1>8, <2>1, <2>2, Answers
  <2> QED BY <1>8, <2>1, <2>3, StepStutters
<1>9. CASE serve_cgi(Matched(f), x, c, FALSE, readfds \ {f})
  BY <1>2, <1>4, <1>9, SessionServeCgi
<1>10. CASE serve_proxy(Matched(f), x, c, readfds \ {f})
  BY <1>2, <1>4, <1>10, SessionServeProxy
<1> QED BY <1>6, <1>7, <1>8, <1>9, <1>10 DEF peers

\* The output of a CGI program has ended.
LEMMA SessionReadCgiOutput ==
    ASSUME FullInv, SessionInv, TypeInv', NEW f \in Fds, ReadCgiOutput(f)
    PROVE  SessionInv' /\ SessionStep
<1>1. PICK x \in Live : /\ x.selectfd = f /\ x.type = "CTX_READ_CGI_OUTPUT"
                        /\ ctxhead[Matched(f)] = x
  <2>1. CASE ReadEventOf(f, "CTX_READ_CGI_OUTPUT")
    BY <2>1, EventContext DEF ReadEventOf
  <2>2. CASE pc = "cgiread" /\ Scan(f)
    <3>1. PICK x \in Live : x.selectfd = f /\ x.type = "CTX_READ_CGI_OUTPUT"
      BY <2>2 DEF FullInv, PassInv
    <3> QED BY <3>1, MatchedLive DEF FullInv
  <2> QED BY <2>1, <2>2 DEF ReadCgiOutput
<1>2. x \in Ctxs /\ OwnFds(x)
  BY LiveContexts DEF FullInv, LiveInv
<1>3. x.cgifd = f /\ x.cgifd # 0 /\ x.proxyfd = 0 /\ x.clientfd # f
  <2>1. x.cgifd = f /\ x.cgifd # 0 /\ x.proxyfd = 0
    BY <1>1, <1>2 DEF OwnFds, ShapeOK
  <2>2. fdtab[f].kind = "cgiout" /\ fdtab[x.clientfd].kind = "client"
    BY <1>2, <2>1 DEF OwnFds, Object
  <2> QED BY <2>1, <2>2
<1> DEFINE ctx == [x EXCEPT !.cgifd = ZeroIfClosed(x.cgifd)]
<1>4. /\ process_response(Matched(f), ctx, writefds)
      /\ CloseFds({f}, full) /\ UNCHANGED <<client, sent>>
  BY <1>1, <1>3 DEF ReadCgiOutput
<1>5. ctx \in Ctxs /\ ctx.conn = x.conn
  BY <1>3, ZeroedFields
<1> HIDE DEF ctx
<1>6. {f} \in SUBSET FdsOf(x)
  BY <1>3 DEF FdsOf
<1>7. /\ conn' = conn /\ upstream'[x.conn] = upstream[x.conn] /\ Cut' = Cut
      /\ \A c \in Conns \ {x.conn} : upstream'[c] = upstream[c]
  <2>1. x.clientfd \notin {f} /\ x.proxyfd \notin {f}
    BY <1>3
  <2> QED BY <1>4, <1>6, <2>1, Closing
<1>8. sent[x.conn] = << >> /\ upstream[x.conn] = "none"
  BY <1>1 DEF SessionInv, Progress
<1>9. Lost' = Lost
  BY <1>4 DEF Lost
<1>10. SessionInv'
  BY <1>1, <1>4, <1>5, <1>7, <1>8, <1>9, Answers
<1> QED BY <1>4, <1>7, <1>9, <1>10, StepStutters

\* One more buffer of a reply.
LEMMA NextPart ==
    ASSUME NEW c \in Conns, NEW n \in {0, 1}, NEW part,
           part = IF n = 0 THEN "head" ELSE "body"
    PROVE  /\ <<c, part>> \notin ToSet(Replied(c, n))
           /\ <<c, part>> \notin ToSet(Resumed(c, n))
           /\ Append(Replied(c, n), <<c, part>>) = Replied(c, n + 1)
           /\ Append(Resumed(c, n), <<c, part>>) = Resumed(c, n + 1)
<1> DEFINE g == <<c, "forwarded">>  h == <<c, "head">>  b == <<c, "body">>
<1>1. /\ g \in Parts /\ h \in Parts /\ b \in Parts
      /\ g # h /\ g # b /\ h # b
  BY DEF Parts
<1>2. /\ Replied(c, 0) = << >> /\ Replied(c, 1) = <<h>>
      /\ Replied(c, 2) = <<h, b>>
      /\ Resumed(c, 0) = <<g>> /\ Resumed(c, 1) = <<g, h>>
      /\ Resumed(c, 2) = <<g, h, b>>
  BY DEF Replied, Resumed, Begun
<1>3. <<c, part>> = IF n = 0 THEN h ELSE b
  OBVIOUS
<1> HIDE DEF g, h, b
<1>4. /\ ToSet(<< >>) = {} /\ ToSet(<<h>>) = {h} /\ ToSet(<<g>>) = {g}
      /\ ToSet(<<g, h>>) = {g, h}
  BY DEF ToSet
<1>5. /\ Append(<< >>, h) = <<h>> /\ Append(<<h>>, b) = <<h, b>>
      /\ Append(<<g>>, h) = <<g, h>> /\ Append(<<g, h>>, b) = <<g, h, b>>
  BY <1>1, Appended
<1>6. CASE n = 0
  <2>1. n + 1 = 1 /\ <<c, part>> = h
    BY <1>3, <1>6
  <2> QED BY <1>1, <1>2, <1>4, <1>5, <1>6, <2>1
<1>7. CASE n = 1
  <2>1. n + 1 = 2 /\ <<c, part>> = b
    BY <1>3, <1>7
  <2> QED BY <1>1, <1>2, <1>4, <1>5, <1>7, <2>1
<1> QED BY <1>6, <1>7

\* The replies of LKSession, and what of the server's own reply is on the way to
\* each.
LEMMA RepliesAre ==
    ASSUME NEW c \in Conns
    PROVE  /\ Replied(c, 2) \in Session!Replies(c)
           /\ c \in Cut \cup Lost => Resumed(c, 2) \in Session!Replies(c)
           /\ << <<c, "forwarded">>, <<c, "forwarded all">> >>
                 \in Session!Replies(c)
           /\ << <<c, "forwarded all">> >> \in Session!Replies(c)
<1>1. Replied(c, 2) = Session!Own(c)
  BY DEF Replied, Session!Own
<1>2. Resumed(c, 2) = Session!Broken(c)
  BY BrokenIs DEF Resumed
<1>3. /\ << <<c, "forwarded">>, <<c, "forwarded all">> >> = Session!Forwarded(c)
      /\ <<c, "forwarded all">> = Session!Last(Session!Forwarded(c))
  BY DEF Session!Forwarded, Session!Last
<1> QED BY <1>1, <1>2, <1>3 DEF Session!Replies, Cut, Lost

\* The beginnings of the server's own reply, by the number of buffers.
LEMMA RepliesTyped ==
    ASSUME NEW c \in Conns, NEW n \in {0, 1, 2}
    PROVE  /\ Replied(c, n) \in Seq(Parts) /\ Len(Replied(c, n)) = n
           /\ \A i \in 1 .. n : Replied(c, n)[i] = Replied(c, 2)[i]
           /\ Resumed(c, n) \in Seq(Parts) /\ Len(Resumed(c, n)) = n + 1
           /\ \A i \in 1 .. n + 1 : Resumed(c, n)[i] = Resumed(c, 2)[i]
<1>1. /\ <<c, "forwarded">> \in Parts /\ <<c, "head">> \in Parts
      /\ <<c, "body">> \in Parts
  BY DEF Parts
<1>2. CASE n = 0
  BY <1>1, <1>2 DEF Replied, Resumed, Begun
<1>3. CASE n = 1
  BY <1>1, <1>3 DEF Replied, Resumed, Begun
<1>4. CASE n = 2
  BY <1>1, <1>4 DEF Replied, Resumed, Begun
<1> QED BY <1>2, <1>3, <1>4

\* To send the next buffer is a step of LKSession.
LEMMA SendsNext ==
    ASSUME NEW c \in Conns, conn[c] = "open", SentTyped, NEW n \in {0, 1},
           NEW s,
           \/ sent[c] = Replied(c, n) /\ s = Replied(c, n + 1)
           \/ /\ c \in Cut \cup Lost
              /\ sent[c] = Resumed(c, n) /\ s = Resumed(c, n + 1),
           sent' = [sent EXCEPT ![c] = s],
           conn' = conn, Lost' = Lost, Cut' = Cut
    PROVE  SessionStep
<1>1. n + 1 \in {0, 1, 2} /\ n \in {0, 1, 2} /\ 2 \in {0, 1, 2} /\ n \in Nat
  OBVIOUS
<1> DEFINE m == n + 1
<1>2. m \in {0, 1, 2} /\ m \in Nat /\ n < m /\ m <= 2 /\ m > 0
  BY <1>1
<1> HIDE DEF m
<1>3. /\ Replied(c, n) \in Seq(Parts) /\ Len(Replied(c, n)) = n
      /\ \A i \in 1 .. n : Replied(c, n)[i] = Replied(c, 2)[i]
      /\ Resumed(c, n) \in Seq(Parts) /\ Len(Resumed(c, n)) = n + 1
      /\ \A i \in 1 .. n + 1 : Resumed(c, n)[i] = Resumed(c, 2)[i]
  BY <1>1, RepliesTyped
<1>4. /\ Replied(c, m) \in Seq(Parts) /\ Len(Replied(c, m)) = m
      /\ \A i \in 1 .. m : Replied(c, m)[i] = Replied(c, 2)[i]
      /\ Resumed(c, m) \in Seq(Parts) /\ Len(Resumed(c, m)) = m + 1
      /\ \A i \in 1 .. m + 1 : Resumed(c, m)[i] = Resumed(c, 2)[i]
  BY <1>2, RepliesTyped
<1>5. /\ Replied(c, 2) \in Seq(Parts) /\ Len(Replied(c, 2)) = 2
      /\ Resumed(c, 2) \in Seq(Parts) /\ Len(Resumed(c, 2)) = 2 + 1
  BY <1>1, RepliesTyped
<1>6. CASE sent[c] = Replied(c, n) /\ s = Replied(c, m)
  <2>1. PICK reply \in Session!Replies(c) : reply = Replied(c, 2)
    BY RepliesAre
  <2>2. /\ reply \in Seq(Parts) /\ s \in Seq(Parts)
        /\ Len(reply) = 2 /\ Len(s) = m /\ Len(sent[c]) = n
    BY <1>3, <1>4, <1>5, <1>6, <2>1
  <2>3. \A i \in 1 .. Len(s) : s[i] = reply[i]
    BY <1>4, <1>6, <2>1
  <2>4. \A i \in 1 .. n : i \in 1 .. m
    BY <1>1, <1>2
  <2>5. \A i \in 1 .. Len(sent[c]) : sent[c][i] = s[i]
    BY <1>3, <1>6, <2>1, <2>2, <2>3, <2>4
  <2>6. Len(sent[c]) < Len(s) /\ Len(s) <= Len(reply) /\ s # << >>
    BY <1>2, <2>2
  <2> QED BY <2>2, <2>3, <2>5, <2>6, StepSends
<1>7. CASE /\ c \in Cut \cup Lost
           /\ sent[c] = Resumed(c, n) /\ s = Resumed(c, m)
  <2>1. PICK reply \in Session!Replies(c) : reply = Resumed(c, 2)
    BY <1>7, RepliesAre
  <2>2. /\ reply \in Seq(Parts) /\ s \in Seq(Parts)
        /\ Len(reply) = 2 + 1 /\ Len(s) = m + 1 /\ Len(sent[c]) = n + 1
    BY <1>3, <1>4, <1>5, <1>7, <2>1
  <2>3. \A i \in 1 .. Len(s) : s[i] = reply[i]
    BY <1>4, <1>7, <2>1
  <2>4. \A i \in 1 .. n + 1 : i \in 1 .. m + 1
    BY <1>1, <1>2
  <2>5. \A i \in 1 .. Len(sent[c]) : sent[c][i] = s[i]
    BY <1>3, <1>7, <2>1, <2>2, <2>3, <2>4
  <2>6. Len(sent[c]) < Len(s) /\ Len(s) <= Len(reply) /\ s # << >>
    BY <1>2, <2>2
  <2> QED BY <2>2, <2>3, <2>5, <2>6, StepSends
<1> QED BY <1>6, <1>7 DEF m

\* A buffer of the reply is sent, or none.
LEMMA SessionNextItem ==
    ASSUME FullInv, SessionInv, TypeInv', NEW x \in Live,
           x.type = "CTX_WRITE_RESP", x.items_cur < 2,
           ctxhead[Matched(x.selectfd)] = x, NEW z,
           ctxhead' = NextItem(Matched(x.selectfd), z),
           sent' = IF z = "Z_EOF" THEN Deliver(x.clientfd, x.conn, Part(x))
                   ELSE sent,
           UNCHANGED <<conn, upstream, client>>
    PROVE  SessionInv' /\ SessionStep
<1>1. /\ x \in Ctxs /\ x.conn \in Conns /\ conn[x.conn] = "open"
      /\ Progress(x)
  BY LiveContexts, LiveOpen DEF FullInv, SessionInv
<1>2. Lost' = Lost /\ Cut' = Cut
  BY DEF Lost, Cut
<1>3. x.items_cur \in {0, 1}
  BY <1>1, CtxFields
<1>4. CASE z # "Z_EOF"
  <2>1. ctxhead' = ctxhead /\ sent' = sent
    BY <1>4 DEF NextItem
  <2>2. Live' = Live
    BY <2>1 DEF Live
  <2> QED BY <1>2, <2>1, <2>2, QuietKeeps, StepStutters
<1>5. CASE z = "Z_EOF"
  <2> DEFINE c == x.conn  n == x.items_cur
             e == [x EXCEPT !.items_cur = @ + 1]
             part == Part(x)
             s == Append(sent[c], <<c, part>>)
  <2>1. e = Rec(x.type, x.selectfd, x.clientfd, x.cgifd, x.proxyfd,
                x.items_cur + 1, x.respbuf, x.conn)
    BY <1>1, OneField
  <2>2. ctxhead' = [ctxhead EXCEPT ![Matched(x.selectfd)] = e]
    BY <1>5 DEF NextItem
  <2> HIDE DEF e
  <2>3. e.type = "CTX_WRITE_RESP" /\ e.conn = c /\ e.items_cur = n + 1
    BY <2>1 DEF Rec
  <2>4. Live' = (Live \ {x}) \cup {e}
    BY <2>2, <2>3, Replacing
  <2>5. part = IF n = 0 THEN "head" ELSE "body"
    BY DEF Part
  <2> HIDE DEF part
  <2>6. \/ sent[c] = Replied(c, n)
        \/ c \in Cut \cup Lost /\ sent[c] = Resumed(c, n)
    BY <1>1 DEF Progress
  <2>7. upstream[c] \in {"none", "reset"}
    BY <1>1 DEF Progress
  <2>8. sent' = Deliver(x.clientfd, c, part)
    BY <1>5 DEF part
  <2>9. sent' = [sent EXCEPT ![c] = s]
    <3>1. <<c, part>> \notin ToSet(sent[c])
      BY <1>1, <1>3, <2>5, <2>6, NextPart
    <3> QED BY <2>8, <3>1, Delivered
  <2>10. \/ s = Replied(c, n + 1)
         \/ c \in Cut \cup Lost /\ s = Resumed(c, n + 1)
    BY <1>1, <1>3, <2>5, <2>6, NextPart
  <2> HIDE DEF s
  <2>11. SentTyped
    BY DEF FullInv, TypeInv
  <2>12. sent'[c] = s /\ \A d \in Conns \ {c} : sent'[d] = sent[d]
    BY <1>1, <2>9, <2>11 DEF SentTyped
  <2>13. Progress(e)'
    BY <1>2, <2>3, <2>7, <2>10, <2>12 DEF Progress
  <2>14. SessionInv'
    BY <1>2, <2>3, <2>4, <2>12, <2>13, GoesOn
  <2>15. n + 1 \in {1, 2} /\ n \in {0, 1, 2} /\ n + 1 \in {0, 1, 2}
    BY <1>3
  <2>16. CASE sent[c] = Replied(c, n) /\ s = Replied(c, n + 1)
    BY <1>1, <1>2, <1>3, <2>9, <2>11, <2>14, <2>16, SendsNext
  <2>17. CASE /\ c \in Cut \cup Lost
              /\ sent[c] = Resumed(c, n) /\ s = Resumed(c, n + 1)
    BY <1>1, <1>2, <1>3, <2>9, <2>11, <2>14, <2>17, SendsNext
  <2>18. \/ sent[c] = Replied(c, n) /\ s = Replied(c, n + 1)
         \/ /\ c \in Cut \cup Lost
            /\ sent[c] = Resumed(c, n) /\ s = Resumed(c, n + 1)
    BY <1>1, <1>3, <2>5, <2>6, NextPart DEF s
  <2> QED BY <2>16, <2>17, <2>18
<1> QED BY <1>4, <1>5

\* A reply is sent, or its session ends.
LEMMA SessionWriteResponse ==
    ASSUME FullInv, NoneShut, SessionInv, TypeInv', NEW f, WriteResponse(f)
    PROVE  SessionInv' /\ SessionStep
<1>1. PICK x \in Live : /\ x.selectfd = f /\ ctxhead[Matched(f)] = x
                        /\ x.type = "CTX_WRITE_RESP" /\ x \in Ctxs /\ OwnFds(x)
  BY EventContext DEF WriteResponse, WriteEventOf
<1>2. x.clientfd = f /\ x.conn \in Conns /\ conn[x.conn] = "open"
  BY <1>1, LiveOpen DEF OwnFds, ShapeOK
<1>3. SentTyped
  BY DEF FullInv, TypeInv
<1>4. CASE \E z \in {"Z_EOF", "Z_BLOCK"} :
              /\ x.items_cur < 2 /\ ctxhead' = NextItem(Matched(f), z)
              /\ sent' = IF z = "Z_EOF" THEN Deliver(f, x.conn, Part(x)) ELSE sent
              /\ UNCHANGED <<conn, upstream, client>>
  BY <1>1, <1>2, <1>4, SessionNextItem
<1>5. CASE /\ lk_write_all(f, "Z_ERR") /\ terminate_client_session(x, full)
           /\ UNCHANGED <<client, sent>>
  <2>1. x.conn \in Lost
    BY <1>1, <1>2, <1>5, FailedWrite
  <2>2. /\ SessionInv' /\ conn' = [conn EXCEPT ![x.conn] = "closed"]
        /\ Lost' = Lost /\ Cut' = Cut
    BY <1>5, Ends
  <2> QED BY <1>2, <1>3, <1>5, <2>1, <2>2, StepCloses
<1>6. CASE /\ x.items_cur = 2 /\ terminate_client_session(x, full)
           /\ UNCHANGED <<client, sent>>
  <2>1. /\ SessionInv' /\ conn' = [conn EXCEPT ![x.conn] = "closed"]
        /\ Lost' = Lost /\ Cut' = Cut
    BY <1>6, Ends
  <2>2. \/ sent[x.conn] = Replied(x.conn, 2)
        \/ x.conn \in Cut \cup Lost /\ sent[x.conn] = Resumed(x.conn, 2)
    BY <1>1, <1>6 DEF SessionInv, Progress
  <2>3. PICK reply \in Session!Replies(x.conn) : reply = sent[x.conn]
    BY <1>2, <2>2, RepliesAre
  <2>4. reply \in Seq(Parts) /\ Len(reply) \in Nat
    BY <1>2, <1>3, <2>3, LenProperties DEF SentTyped, Parts
  <2>5. sent' = [sent EXCEPT ![x.conn] = reply]
    BY <1>2, <1>3, <1>6, <2>3 DEF SentTyped
  <2>6. /\ Len(sent[x.conn]) <= Len(reply)
        /\ \A i \in 1 .. Len(sent[x.conn]) : sent[x.conn][i] = reply[i]
    BY <2>3, <2>4
  <2> QED BY <1>2, <1>3, <2>1, <2>4, <2>5, <2>6, StepCloses
<1> QED BY <1>1, <1>2, <1>4, <1>5, <1>6 DEF WriteResponse

\* The upstream connection of a session is given up and the client is answered.
LEMMA GivesUp ==
    ASSUME FullInv, SessionInv, TypeInv', NEW x \in Live, x.proxyfd # 0,
           NEW wfds,
           process_response(Matched(x.selectfd),
              [x EXCEPT !.proxyfd = ZeroIfClosed(x.proxyfd)], wfds),
           CloseFds({x.proxyfd}, full), client' = client, sent' = sent,
           \/ sent[x.conn] = << >>
           \/ x.conn \in Cut \cup Lost /\ sent[x.conn] = Begun(x.conn)
    PROVE  SessionInv' /\ SessionStep
<1>1. OwnFds(x)
  BY DEF FullInv, LiveInv
<1> DEFINE ctx == [x EXCEPT !.proxyfd = ZeroIfClosed(x.proxyfd)]
<1>2. ctx \in Ctxs /\ ctx.conn = x.conn
  BY ZeroedFields
<1>3. process_response(Matched(x.selectfd), ctx, wfds)
  OBVIOUS
<1> HIDE DEF ctx
<1>4. {x.proxyfd} \in SUBSET FdsOf(x) /\ x.clientfd # x.proxyfd
  <2>1. fdtab[x.proxyfd].kind = "proxy" /\ fdtab[x.clientfd].kind = "client"
    BY <1>1 DEF OwnFds, Object
  <2> QED BY <2>1 DEF FdsOf
<1>5. /\ conn' = conn /\ Cut' = Cut
      /\ \A c \in Conns \ {x.conn} : upstream'[c] = upstream[c]
      /\ upstream'[x.conn] \in {"none", "reset"}
  BY <1>4, Closing
<1>6. Lost' = Lost
  BY DEF Lost
<1>7. SessionInv'
  BY <1>2, <1>3, <1>5, <1>6, Answers
<1> QED BY <1>5, <1>6, <1>7, StepStutters

\* The request is sent upstream, or the upstream is given up.
LEMMA SessionWriteProxyRequest ==
    ASSUME FullInv, SessionInv, TypeInv', NEW f, WriteProxyRequest(f)
    PROVE  SessionInv' /\ SessionStep
<1>1. PICK x \in Live : /\ x.selectfd = f /\ ctxhead[Matched(f)] = x
                        /\ x.type = "CTX_PROXY_WRITE_REQ"
                        /\ x \in Ctxs /\ OwnFds(x)
  BY EventContext DEF WriteProxyRequest, WriteEventOf
<1>2. x.proxyfd = f /\ x.proxyfd # 0
  BY <1>1 DEF OwnFds, ShapeOK
<1>3. sent[x.conn] = << >>
  BY <1>1 DEF SessionInv, Progress
<1>4. client' = client /\ sent' = sent /\ Lost' = Lost
  BY DEF WriteProxyRequest, Lost
<1>5. ASSUME NEW e \in Ctxs, e.conn = x.conn,
             \/ e.type = "CTX_PROXY_WRITE_REQ"
             \/ e.type = "CTX_PROXY_PIPE_RESP",
             ctxhead' = [ctxhead EXCEPT ![Matched(f)] = e],
             UNCHANGED <<conn, upstream>>
      PROVE  SessionInv' /\ SessionStep
  <2>1. Live' = (Live \ {x}) \cup {e}
    BY <1>1, <1>5, Replacing
  <2>2. Progress(e)'
    BY <1>3, <1>4, <1>5 DEF Progress
  <2>3. Cut' = Cut
    BY <1>5 DEF Cut
  <2>4. SessionInv'
    BY <1>4, <1>5, <2>1, <2>2, GoesOn
  <2> QED BY <1>4, <1>5, <2>3, <2>4, StepStutters
<1>6. CASE \E z \in {"Z_EOF", "Z_BLOCK"} :
              /\ ctxhead' = NextItem(Matched(f), z)
              /\ UNCHANGED <<conn, upstream>>
  <2>1. PICK z \in {"Z_EOF", "Z_BLOCK"} : ctxhead' = NextItem(Matched(f), z)
    BY <1>6
  <2>2. CASE z = "Z_EOF"
    <3> DEFINE e == [x EXCEPT !.items_cur = @ + 1]
    <3>1. e = Rec(x.type, x.selectfd, x.clientfd, x.cgifd, x.proxyfd,
                  x.items_cur + 1, x.respbuf, x.conn)
      BY <1>1, OneField
    <3>2. ctxhead' = [ctxhead EXCEPT ![Matched(f)] = e]
      BY <1>1, <2>1, <2>2 DEF NextItem
    <3> HIDE DEF e
    <3>3. e.type = "CTX_PROXY_WRITE_REQ" /\ e.conn = x.conn
      BY <1>1, <3>1 DEF Rec
    <3>4. e \in Ctxs
      BY <1>1, <3>2, <3>3, Replacing
    <3> QED BY <1>5, <1>6, <3>2, <3>3, <3>4
  <2>3. CASE z # "Z_EOF"
    <3>1. Live' = Live /\ Cut' = Cut
      BY <1>6, <2>1, <2>3 DEF NextItem, Live, Cut
    <3> QED BY <1>4, <1>6, <3>1, QuietKeeps, StepStutters
  <2> QED BY <2>2, <2>3
<1>7. CASE /\ process_response(Matched(f),
                  [x EXCEPT !.proxyfd = ZeroIfClosed(x.proxyfd)],
                  writefds \ {x.proxyfd})
           /\ CloseFds({x.proxyfd}, full)
  BY <1>1, <1>2, <1>3, <1>4, <1>7, GivesUp
<1>8. CASE /\ ctxhead' = [ctxhead EXCEPT ![Matched(f)] =
                            [x EXCEPT !.type = "CTX_PROXY_PIPE_RESP",
                                      !.respbuf = FALSE]]
           /\ UNCHANGED <<conn, upstream>>
  <2>1. PICK empty \in BOOLEAN : empty = FALSE
    OBVIOUS
  <2> DEFINE e == [x EXCEPT !.type = "CTX_PROXY_PIPE_RESP", !.respbuf = empty]
  <2>2. ctxhead' = [ctxhead EXCEPT ![Matched(f)] = e]
    BY <1>8, <2>1
  <2>3. e = Rec("CTX_PROXY_PIPE_RESP", x.selectfd, x.clientfd, x.cgifd,
                x.proxyfd, x.items_cur, empty, x.conn)
    BY <1>1, PipeFields
  <2> HIDE DEF e
  <2>4. e.type = "CTX_PROXY_PIPE_RESP" /\ e.conn = x.conn
    BY <2>3 DEF Rec
  <2>5. e \in Ctxs
    BY <1>1, <2>2, <2>4, Replacing
  <2> QED BY <1>5, <1>8, <2>2, <2>4, <2>5
<1>9. \/ \E z \in {"Z_EOF", "Z_BLOCK"} :
            /\ ctxhead' = NextItem(Matched(f), z)
            /\ UNCHANGED <<conn, upstream>>
      \/ /\ process_response(Matched(f),
                [x EXCEPT !.proxyfd = ZeroIfClosed(x.proxyfd)],
                writefds \ {x.proxyfd})
         /\ CloseFds({x.proxyfd}, full)
      \/ /\ ctxhead' = [ctxhead EXCEPT ![Matched(f)] =
                          [x EXCEPT !.type = "CTX_PROXY_PIPE_RESP",
                                    !.respbuf = FALSE]]
         /\ UNCHANGED <<conn, upstream>>
  BY <1>1 DEF WriteProxyRequest
<1> QED BY <1>6, <1>7, <1>8, <1>9

\* A forwarded reply, begun, complete, or complete at once.
LEMMA ForwardingTyped ==
    ASSUME NEW c \in Conns
    PROVE  /\ << >> \in Seq(Parts) /\ Begun(c) \in Seq(Parts)
           /\ << <<c, "forwarded">>, <<c, "forwarded all">> >> \in Seq(Parts)
           /\ << <<c, "forwarded all">> >> \in Seq(Parts)
           /\ Len(Begun(c)) = 1 /\ Begun(c)[1] = <<c, "forwarded">>
           /\ Len(<< <<c, "forwarded">>, <<c, "forwarded all">> >>) = 2
           /\ << <<c, "forwarded">>, <<c, "forwarded all">> >>[1]
                 = <<c, "forwarded">>
           /\ Len(<< <<c, "forwarded all">> >>) = 1
           /\ Begun(c) # << >> /\ Len(<< >>) = 0
<1> DEFINE g == <<c, "forwarded">>  h == <<c, "forwarded all">>
<1>1. g \in Parts /\ h \in Parts
  BY DEF Parts
<1>2. Begun(c) = <<g>>
  BY DEF Begun
<1> HIDE DEF g, h
<1>3. << >> \in Seq(Parts) /\ <<g>> \in Seq(Parts)
      /\ <<g, h>> \in Seq(Parts) /\ <<h>> \in Seq(Parts)
  BY <1>1
<1>4. /\ Len(<<g>>) = 1 /\ Len(<<h>>) = 1 /\ Len(<<g, h>>) = 2 /\ Len(<< >>) = 0
      /\ <<g>>[1] = g /\ <<g, h>>[1] = g
  OBVIOUS
<1>5. <<g>> # << >>
  BY <1>4
<1> QED BY <1>2, <1>3, <1>4, <1>5 DEF g, h

\* What the next part of a forwarded reply makes of it.
LEMMA Forwarding ==
    ASSUME NEW c \in Conns
    PROVE  /\ ToSet(<< >>) = {} /\ ToSet(Begun(c)) = {<<c, "forwarded">>}
           /\ <<c, "forwarded all">> \notin ToSet(Begun(c))
           /\ Append(<< >>, <<c, "forwarded">>) = Begun(c)
           /\ Append(<< >>, <<c, "forwarded all">>) = << <<c, "forwarded all">> >>
           /\ Append(Begun(c), <<c, "forwarded all">>)
                = << <<c, "forwarded">>, <<c, "forwarded all">> >>
<1> DEFINE g == <<c, "forwarded">>  h == <<c, "forwarded all">>
<1>1. g \in Parts /\ h \in Parts /\ g # h
  BY DEF Parts
<1>2. Begun(c) = <<g>>
  BY DEF Begun
<1> HIDE DEF g, h
<1>3. ToSet(<< >>) = {} /\ ToSet(<<g>>) = {g}
  BY DEF ToSet
<1>4. /\ Append(<< >>, g) = <<g>> /\ Append(<< >>, h) = <<h>>
      /\ Append(<<g>>, h) = <<g, h>>
  BY <1>1, Appended
<1>5. /\ ToSet(Begun(c)) = {g} /\ Append(<< >>, g) = Begun(c)
      /\ Append(Begun(c), h) = <<g, h>> /\ h \notin ToSet(Begun(c))
  BY <1>1, <1>2, <1>3, <1>4
<1> QED BY <1>3, <1>4, <1>5 DEF g, h

\* A forwarded reply that is complete goes on from what was sent.
LEMMA ForwardedAll ==
    ASSUME NEW c \in Conns, NEW t \in {<< >>, Begun(c)}, NEW s,
           t = << >> => s = << <<c, "forwarded all">> >>,
           t = Begun(c) => s = << <<c, "forwarded">>, <<c, "forwarded all">> >>
    PROVE  /\ s \in Session!Replies(c) /\ s \in Seq(Parts)
           /\ Len(t) <= Len(s) /\ \A i \in 1 .. Len(t) : t[i] = s[i]
<1>1. CASE t = << >>
  <2>1. s = << <<c, "forwarded all">> >>
    BY <1>1
  <2>2. s \in Seq(Parts) /\ Len(s) = 1 /\ Len(t) = 0
    BY <1>1, <2>1, ForwardingTyped
  <2>3. s \in Session!Replies(c)
    BY <2>1, RepliesAre
  <2> QED BY ONLY <2>2, <2>3
<1>2. CASE t = Begun(c)
  <2>1. s = << <<c, "forwarded">>, <<c, "forwarded all">> >>
    BY <1>2
  <2>2. /\ s \in Seq(Parts) /\ Len(s) = 2 /\ s[1] = <<c, "forwarded">>
        /\ Len(t) = 1 /\ t[1] = <<c, "forwarded">>
    BY <1>2, <2>1, ForwardingTyped
  <2>3. s \in Session!Replies(c)
    BY <2>1, RepliesAre
  <2> QED BY ONLY <2>2, <2>3
<1> QED BY <1>1, <1>2

\* A part of a response is forwarded, or none.
LEMMA SessionForwards ==
    ASSUME FullInv, SessionInv, TypeInv', NEW x \in Live,
           x.type = "CTX_PROXY_PIPE_RESP", upstream[x.conn] # "reset",
           NEW blocked \in BOOLEAN,
           ctxhead' = [ctxhead EXCEPT ![Matched(x.selectfd)] =
                         [x EXCEPT !.respbuf = blocked]],
           sent' \in {sent, Deliver(x.clientfd, x.conn, "forwarded")},
           NEW to \in {"fin", "open"},
           upstream' = [upstream EXCEPT ![x.conn] = to],
           UNCHANGED <<conn, client>>
    PROVE  SessionInv' /\ SessionStep
<1> DEFINE c == x.conn  e == [x EXCEPT !.respbuf = blocked]
<1>1. x \in Ctxs /\ c \in Conns /\ conn[c] = "open" /\ SentTyped
  BY LiveContexts, LiveOpen DEF FullInv, TypeInv
<1>2. sent[c] \in {<< >>, Begun(c)}
  BY DEF SessionInv, Progress
<1>3. upstream \in [Conns -> {"none", "open", "data", "datafin", "fin", "reset"}]
  BY DEF FullInv, TypeInv, PeersTyped
<1>4. /\ \A d \in Conns \ {c} : upstream'[d] = upstream[d]
      /\ Cut' = Cut /\ Lost' = Lost
  BY <1>1, <1>3 DEF Cut, Lost
<1>5. e = Rec(x.type, x.selectfd, x.clientfd, x.cgifd, x.proxyfd,
              x.items_cur, blocked, x.conn)
  BY <1>1, OneField
<1>6. ctxhead' = [ctxhead EXCEPT ![Matched(x.selectfd)] = e]
  OBVIOUS
<1> HIDE DEF e
<1>7. e.type = "CTX_PROXY_PIPE_RESP" /\ e.conn = c
  BY <1>5 DEF Rec
<1>8. Live' = (Live \ {x}) \cup {e}
  BY <1>6, <1>7, Replacing
<1>9. ASSUME sent'[c] \in {<< >>, Begun(c)},
             \A d \in Conns \ {c} : sent'[d] = sent[d]
      PROVE  SessionInv'
  <2>1. Progress(e)'
    BY <1>7, <1>9 DEF Progress
  <2> QED BY <1>4, <1>7, <1>8, <1>9, <2>1, GoesOn
<1>10. CASE sent' = sent
  BY <1>2, <1>4, <1>9, <1>10, StepStutters
<1>11. CASE sent' # sent
  <2>1. /\ <<c, "forwarded">> \notin ToSet(sent[c])
        /\ sent' = [sent EXCEPT ![c] = Append(sent[c], <<c, "forwarded">>)]
    BY <1>11, Delivered
  <2>2. sent[c] = << >> \/ sent[c] = Begun(c)
    BY <1>2
  <2>3. sent[c] = << >>
    BY <1>1, <2>1, <2>2, Forwarding
  <2>4. sent' = [sent EXCEPT ![c] = Begun(c)]
    BY <1>1, <2>1, <2>3, Forwarding
  <2>5. sent'[c] = Begun(c) /\ \A d \in Conns \ {c} : sent'[d] = sent[d]
    BY <1>1, <2>4 DEF SentTyped
  <2>6. SessionInv'
    BY <1>9, <2>5
  <2>7. PICK reply \in Session!Replies(c) :
           reply = << <<c, "forwarded">>, <<c, "forwarded all">> >>
    BY <1>1, RepliesAre
  <2>8. /\ reply \in Seq(Parts) /\ Len(reply) = 2
        /\ reply[1] = <<c, "forwarded">>
    BY <1>1, <2>7, ForwardingTyped
  <2>9. /\ Begun(c) \in Seq(Parts) /\ Len(Begun(c)) = 1 /\ Begun(c) # << >>
        /\ Begun(c)[1] = <<c, "forwarded">>
    BY <1>1, ForwardingTyped
  <2>10. /\ Len(sent[c]) < Len(Begun(c)) /\ Len(Begun(c)) <= Len(reply)
         /\ \A i \in 1 .. Len(Begun(c)) : Begun(c)[i] = reply[i]
         /\ \A i \in 1 .. Len(sent[c]) : sent[c][i] = Begun(c)[i]
    <3>1. Len(sent[c]) = 0
      BY <1>1, <2>3, ForwardingTyped
    <3>2. \A i \in 1 .. 1 : i = 1
      OBVIOUS
    <3>3. \A i \in 1 .. Len(Begun(c)) : Begun(c)[i] = reply[i]
      BY <2>8, <2>9, <3>2
    <3> QED BY <2>8, <2>9, <3>1, <3>3
  <2> QED BY <1>1, <1>4, <2>4, <2>6, <2>8, <2>9, <2>10, StepSends
<1> QED BY <1>10, <1>11

\* A response has been forwarded to its end.
LEMMA SessionForwarded ==
    ASSUME FullInv, SessionInv, TypeInv', NEW x \in Live,
           x.type = "CTX_PROXY_PIPE_RESP",
           sent' = Deliver(x.clientfd, x.conn, "forwarded all"),
           terminate_client_session(x, full), client' = client
    PROVE  SessionInv' /\ SessionStep
<1> DEFINE c == x.conn  s == Append(sent[c], <<c, "forwarded all">>)
<1>1. c \in Conns /\ conn[c] = "open" /\ SentTyped
  BY LiveOpen DEF FullInv, TypeInv
<1>2. sent[c] \in {<< >>, Begun(c)}
  BY DEF SessionInv, Progress
<1>3. sent' = [sent EXCEPT ![c] = s]
  <2>1. <<c, "forwarded all">> \notin ToSet(sent[c])
    <3>1. CASE sent[c] = << >>
      BY <1>1, <3>1, Forwarding
    <3>2. CASE sent[c] = Begun(c)
      BY <1>1, <3>2, Forwarding
    <3> QED BY <1>2, <3>1, <3>2
  <2> QED BY <2>1, Delivered
<1>4. /\ sent[c] = << >> => s = << <<c, "forwarded all">> >>
      /\ sent[c] = Begun(c) =>
           s = << <<c, "forwarded">>, <<c, "forwarded all">> >>
  BY <1>1, <1>2, Forwarding
<1> HIDE DEF s
<1>5. \A d \in Conns \ {c} : sent'[d] = sent[d]
  BY <1>1, <1>3 DEF SentTyped
<1>6. /\ SessionInv' /\ conn' = [conn EXCEPT ![c] = "closed"]
      /\ Lost' = Lost /\ Cut' = Cut
  BY <1>5, Ends
<1>7. /\ s \in Session!Replies(c) /\ s \in Seq(Parts)
      /\ Len(sent[c]) <= Len(s)
      /\ \A i \in 1 .. Len(sent[c]) : sent[c][i] = s[i]
  BY <1>1, <1>2, <1>4, ForwardedAll
<1> QED BY <1>1, <1>3, <1>6, <1>7, StepCloses

\* A response is forwarded, ends, or fails.
LEMMA SessionPipe ==
    ASSUME FullInv, NoneShut, SessionInv, TypeInv', NEW f,
           PipeProxyResponse(f)
    PROVE  SessionInv' /\ SessionStep
<1>1. PICK x \in Live : /\ x.selectfd = f /\ ctxhead[Matched(f)] = x
                        /\ x.type = "CTX_PROXY_PIPE_RESP"
                        /\ x \in Ctxs /\ OwnFds(x)
  BY EventContext DEF PipeProxyResponse, ReadEventOf
<1>2. /\ x.proxyfd = f /\ x.proxyfd # 0
      /\ fdtab[x.proxyfd].conn = x.conn /\ x.conn \in Conns
  BY <1>1, LiveOpen DEF OwnFds, ShapeOK, Object
<1>3. client' = client
  BY DEF PipeProxyResponse
<1>4. sent[x.conn] \in {<< >>, Begun(x.conn)}
  BY <1>1 DEF SessionInv, Progress
<1>5. CASE /\ upstream[x.conn] = "reset" \/ lk_write_all(x.clientfd, "Z_ERR")
           /\ process_response(Matched(f),
                  [x EXCEPT !.proxyfd = ZeroIfClosed(x.proxyfd)], writefds)
           /\ CloseFds({x.proxyfd}, full) /\ UNCHANGED sent
  <2>1. x.conn \in Cut \cup Lost
    BY <1>2, <1>5, FailedWrite DEF Cut
  <2> QED BY <1>1, <1>2, <1>3, <1>4, <1>5, <2>1, GivesUp
<1>6. ASSUME NEW z \in {"Z_EOF", "Z_BLOCK"}, upstream[x.conn] # "reset",
             ctxhead' = [ctxhead EXCEPT ![Matched(f)] =
                           [x EXCEPT !.respbuf = (z = "Z_BLOCK")]],
             sent' \in {sent, Deliver(x.clientfd, x.conn, "forwarded")},
             NEW to \in {"fin", "open"},
             upstream' = [upstream EXCEPT ![x.conn] = to],
             UNCHANGED conn
      PROVE  SessionInv' /\ SessionStep
  <2>1. PICK blocked \in BOOLEAN : blocked = (z = "Z_BLOCK")
    OBVIOUS
  <2> QED BY <1>1, <1>3, <1>6, <2>1, SessionForwards
<1>7. CASE /\ sent' = Deliver(x.clientfd, x.conn, "forwarded all")
           /\ terminate_client_session(x, full)
  BY <1>1, <1>3, <1>7, SessionForwarded
<1> DEFINE u == x.conn
           unsent == x.respbuf \/ upstream[u] \in {"data", "datafin"}
           eof == upstream[u] \in {"datafin", "fin"}
<1>8. \/ /\ upstream[x.conn] = "reset" \/ lk_write_all(x.clientfd, "Z_ERR")
         /\ process_response(Matched(f),
                [x EXCEPT !.proxyfd = ZeroIfClosed(x.proxyfd)], writefds)
         /\ CloseFds({x.proxyfd}, full) /\ UNCHANGED sent
      \/ /\ upstream[x.conn] # "reset"
         /\ \E z \in {"Z_EOF", "Z_BLOCK"} :
               ctxhead' = [ctxhead EXCEPT ![Matched(f)] =
                             [x EXCEPT !.respbuf = (z = "Z_BLOCK")]]
         /\ sent' = IF unsent /\ Side(x.clientfd) \notin full
                    THEN Deliver(x.clientfd, x.conn, "forwarded")
                    ELSE sent
         /\ upstream' = [upstream EXCEPT ![x.conn] = IF eof THEN "fin" ELSE "open"]
         /\ UNCHANGED conn
      \/ /\ sent' = Deliver(x.clientfd, x.conn, "forwarded all")
         /\ terminate_client_session(x, full)
  BY <1>1, <1>2 DEF PipeProxyResponse
<1>9. CASE /\ upstream[x.conn] # "reset"
           /\ \E z \in {"Z_EOF", "Z_BLOCK"} :
                 ctxhead' = [ctxhead EXCEPT ![Matched(f)] =
                               [x EXCEPT !.respbuf = (z = "Z_BLOCK")]]
           /\ sent' = IF unsent /\ Side(x.clientfd) \notin full
                      THEN Deliver(x.clientfd, x.conn, "forwarded")
                      ELSE sent
           /\ upstream' = [upstream EXCEPT ![x.conn] = IF eof THEN "fin" ELSE "open"]
           /\ UNCHANGED conn
  <2>1. PICK to \in {"fin", "open"} : to = IF eof THEN "fin" ELSE "open"
    OBVIOUS
  <2>2. sent' \in {sent, Deliver(x.clientfd, x.conn, "forwarded")}
    BY <1>9
  <2> HIDE DEF eof
  <2>3. upstream' = [upstream EXCEPT ![x.conn] = to]
    BY <1>9, <2>1
  <2>4. PICK z \in {"Z_EOF", "Z_BLOCK"} :
           ctxhead' = [ctxhead EXCEPT ![Matched(f)] =
                         [x EXCEPT !.respbuf = (z = "Z_BLOCK")]]
    BY <1>9
  <2> QED BY <1>6, <1>9, <2>2, <2>3, <2>4
<1> QED BY <1>5, <1>7, <1>8, <1>9

-----------------------------------------------------------------------------
(***************************************************************************)
(* The refinement.                                                          *)
(***************************************************************************)
\* Initially nothing was sent to anybody.
LEMMA SessionInit == Init => SessionInv /\ Session!Init
<1> SUFFICES ASSUME Init PROVE SessionInv /\ Session!Init
  OBVIOUS
<1>1. Live = {}
  BY DEF Init, Live, ToSet
<1> QED BY <1>1 DEF Init, SessionInv, Session!Init

\* Every step of the server is a step of LKSession or changes nothing of it.
LEMMA SessionNext ==
    ASSUME FullInv, NoneShut, SessionInv, NoCgiBody, [Next]_vars
    PROVE  SessionInv' /\ SessionStep
<1>0. TypeInv'
  BY TypeStep DEF FullInv
<1>1. ASSUME UNCHANGED <<ctxhead, conn, client, upstream, sent>>
      PROVE  SessionInv' /\ SessionStep
  <2>1. Live' = Live /\ Lost' = Lost /\ Cut' = Cut
    BY <1>1 DEF Live, Lost, Cut
  <2> QED BY <1>1, <2>1, QuietKeeps, StepStutters
<1>2. CASE SelectReturns \/ SelectFails \/ AcceptFails
             \/ \E f \in Fds : ReadCgiOutputWaits(f)
  BY <1>1, <1>2 DEF SelectReturns, SelectFails, AcceptFails, ReadCgiOutputWaits,
                    peers
<1>3. CASE \E f \in Fds : \/ ReadRequestPart(f) \/ ReadRequest(f)
                          \/ ReadCgiOutput(f) \/ WriteResponse(f)
                          \/ WriteProxyRequest(f) \/ PipeProxyResponse(f)
  BY <1>0, <1>3, SessionReadPart, SessionReadRequest, SessionReadCgiOutput,
     SessionWriteResponse, SessionWriteProxyRequest, SessionPipe
<1>4. CASE \E c \in Conns : Accept(c)
  BY <1>4, SessionAccept
<1>5. CASE Server
  BY <1>2, <1>3, <1>4, <1>5, ImpossibleEvents DEF Server
<1>6. CASE Environment
  BY <1>6, SessionEnvironment
<1>7. CASE UNCHANGED vars
  BY <1>1, <1>7 DEF vars, peers
<1> QED BY <1>5, <1>6, <1>7 DEF Next

\* The server implements LKSession: each client gets one whole reply, its own,
\* and then the end of the connection, unless it went away first.
THEOREM Implementation == NoCgiBody => (Spec => ImplementsSession)
<1>1. Init => FullInv /\ NoneShut /\ SessionInv /\ Session!Init
  BY FullInit, SessionInit DEF NoneShut, Init
<1>2. NoCgiBody /\ FullInv /\ NoneShut /\ SessionInv /\ [Next]_vars
        => FullInv' /\ NoneShut' /\ SessionInv' /\ [Session!Next]_(Session!vars)
  BY FullStep, NothingShut, SessionNext DEF SessionStep
<1>3. NoCgiBody => NoCgiBody'
  BY DEF NoCgiBody
<1> QED BY <1>1, <1>2, <1>3, PTL DEF Spec, ImplementsSession, Session!Spec
=============================================================================
