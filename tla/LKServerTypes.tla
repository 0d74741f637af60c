---------------------------- MODULE LKServerTypes ----------------------------
(***************************************************************************)
(* Type correctness of the server, for every set of clients, every limit on *)
(* descriptors, every routing and every set of faults, requests with a body *)
(* for a CGI program included.  TypeOK is not inductive: a descriptor that  *)
(* a handler writes to must be known to belong to a client, a context that  *)
(* is answered must have a client descriptor, and the thread that waits in  *)
(* read() must still find its context afterwards.  TypeInv adds these.      *)
(***************************************************************************)
EXTENDS LKHttpServer, SequenceTheorems, FiniteSetTheorems, TLAPS

\* No two contexts of the list were made for the same connection.
OnePerConn(s) ==
    \A i, j \in 1 .. Len(s) : s[i].conn = s[j].conn => i = j

-----------------------------------------------------------------------------
(***************************************************************************)
(* The operators of LKContext: what the search of the list finds, and what  *)
(* each change of the list does to the set of its contexts.                 *)
(***************************************************************************)
\* A set of natural numbers that is not empty has a least element.
LEMMA LeastNat ==
    ASSUME NEW S \in SUBSET Nat, S # {}
    PROVE  \E x \in S : \A y \in S : x <= y
<1>1. PICK x \in S : \A y \in S : ~ (<<y, x>> \in OpToRel(<, Nat))
  BY WFMin, NatLessThanWellFounded
<1>2. ASSUME NEW y \in S PROVE x <= y
  <2>1. <<y, x>> \in Nat \X Nat
    OBVIOUS
  <2>2. <<y, x>>[1] = y /\ <<y, x>>[2] = x
    OBVIOUS
  <2>3. ~(y < x)
    <3>1. SUFFICES ASSUME y < x PROVE FALSE
      OBVIOUS
    <3>2. <<y, x>> \in {ss \in Nat \X Nat : ss[1] < ss[2]}
      BY <2>1, <2>2, <3>1
    <3> QED BY <3>2, <1>1 DEF OpToRel
  <2> QED BY <2>3
<1> QED BY <1>2

\* match_select_ctx returns the position of a context selected on the
\* descriptor, and 0 only if there is none.
LEMMA MatchSelect ==
    ASSUME NEW S, NEW s \in Seq(S), NEW fd
    PROVE  \/ /\ match_select_ctx(s, fd) = 0
              /\ \A i \in 1 .. Len(s) : s[i].selectfd # fd
           \/ /\ match_select_ctx(s, fd) \in 1 .. Len(s)
              /\ s[match_select_ctx(s, fd)].selectfd = fd
<1> DEFINE I == {i \in 1 .. Len(s) : s[i].selectfd = fd}
<1>1. match_select_ctx(s, fd) = IF I # {} THEN Min(I) ELSE 0
  BY DEF match_select_ctx, SelectInSeq
<1>2. CASE I = {}
  BY <1>1, <1>2
<1>3. CASE I # {}
  <2>1. I \in SUBSET Nat
    BY LenProperties
  <2>2. \E x \in I : \A y \in I : x <= y
    BY <1>3, <2>1, LeastNat
  <2>3. Min(I) \in I
    BY <2>2 DEF Min
  <2> QED BY <1>1, <1>3, <2>3
<1> QED BY <1>2, <1>3

\* remove_client_context takes out the context found by its clientfd, if that
\* is the only one with this clientfd.
LEMMA RemoveClient ==
    ASSUME NEW S, NEW s \in Seq(S), NEW k \in 1 .. Len(s),
           \A i \in 1 .. Len(s) : s[i].clientfd = s[k].clientfd => i = k
    PROVE  remove_client_context(s, s[k].clientfd) = RemoveAt(s, k)
<1> DEFINE fd == s[k].clientfd
           I == {i \in 1 .. Len(s) : s[i].clientfd = fd}
<1>1. I = {k}
  OBVIOUS
<1>2. Min({k}) = k
  BY LenProperties DEF Min
<1>3. remove_client_context(s, fd) =
        RemoveAt(s, IF I # {} THEN Min(I) ELSE 0)
  BY DEF remove_client_context, RemoveFirstMatch, SelectInSeq
<1> QED BY <1>1, <1>2, <1>3

-----------------------------------------------------------------------------
\* What a removal leaves: a list of contexts.
LEMMA RemoveAtType ==
    ASSUME NEW S, NEW s \in Seq(S), NEW k \in 1 .. Len(s)
    PROVE  /\ RemoveAt(s, k) \in Seq(S)
           /\ Len(RemoveAt(s, k)) = Len(s) - 1
           /\ \A i \in 1 .. Len(s) - 1 :
                 RemoveAt(s, k)[i] = IF i < k THEN s[i] ELSE s[i + 1]
<1> DEFINE a == SubSeq(s, 1, k - 1)
           b == SubSeq(s, k + 1, Len(s))
<1>1. Len(s) \in Nat /\ k \in Nat
  BY LenProperties
<1>2. /\ a \in Seq(S) /\ Len(a) = k - 1
      /\ \A i \in 1 .. k - 1 : a[i] = s[i]
  <2>1. \A i \in 1 .. k - 1 : s[i] \in S
    BY <1>1, ElementOfSeq
  <2> QED BY <1>1, <2>1, SubSeqProperties
<1>3. /\ b \in Seq(S) /\ Len(b) = Len(s) - k
      /\ \A i \in 1 .. Len(s) - k : b[i] = s[k + i]
  <2>1. \A i \in k + 1 .. Len(s) : s[i] \in S
    BY <1>1, ElementOfSeq
  <2>2. /\ b \in Seq(S)
        /\ Len(b) = IF k + 1 <= Len(s) THEN Len(s) - (k + 1) + 1 ELSE 0
        /\ \A i \in 1 .. Len(s) - (k + 1) + 1 : b[i] = s[(k + 1) + i - 1]
    BY <1>1, <2>1, SubSeqProperties
  <2> QED BY <1>1, <2>2
<1>4. RemoveAt(s, k) = a \o b
  BY DEF RemoveAt
<1>5. /\ a \o b \in Seq(S)
      /\ Len(a \o b) = Len(a) + Len(b)
      /\ \A i \in 1 .. Len(a) + Len(b) :
            (a \o b)[i] = IF i <= Len(a) THEN a[i] ELSE b[i - Len(a)]
  BY <1>2, <1>3, ConcatProperties
<1> HIDE DEF a, b
<1>6. ASSUME NEW i \in 1 .. Len(s) - 1
      PROVE  (a \o b)[i] = IF i < k THEN s[i] ELSE s[i + 1]
  <2>0. i \in 1 .. Len(a) + Len(b)
    BY <1>1, <1>2, <1>3
  <2>1. CASE i < k
    <3>1. i <= Len(a) /\ i \in 1 .. k - 1
      BY <1>1, <1>2, <2>1
    <3> QED BY <1>2, <1>5, <2>0, <2>1, <3>1
  <2>2. CASE ~(i < k)
    <3>1. i - (k - 1) \in 1 .. Len(s) - k /\ k + (i - (k - 1)) = i + 1
      BY <1>1, <2>2
    <3>2. ~(i <= Len(a)) /\ i - Len(a) = i - (k - 1)
      BY <1>1, <1>2, <2>2
    <3> QED BY <1>3, <1>5, <2>0, <2>2, <3>1, <3>2
  <2> QED BY <2>1, <2>2
<1> QED BY <1>1, <1>2, <1>3, <1>4, <1>5, <1>6

\* Removing a context takes it out of the set and keeps the others.
LEMMA RemoveAtSet ==
    ASSUME NEW S, NEW s \in Seq(S), NEW k \in 1 .. Len(s), OnePerConn(s)
    PROVE  /\ ToSet(RemoveAt(s, k)) = ToSet(s) \ {s[k]}
           /\ OnePerConn(RemoveAt(s, k))
<1> DEFINE t == RemoveAt(s, k)
<1>1. /\ t \in Seq(S) /\ Len(t) = Len(s) - 1
      /\ \A i \in 1 .. Len(s) - 1 : t[i] = IF i < k THEN s[i] ELSE s[i + 1]
  BY RemoveAtType
<1> HIDE DEF t
<1>2. Len(s) \in Nat /\ DOMAIN s = 1 .. Len(s) /\ DOMAIN t = 1 .. Len(s) - 1
  BY <1>1, LenProperties
<1>3. ASSUME NEW i \in 1 .. Len(s) - 1
      PROVE  \E j \in 1 .. Len(s) : j # k /\ t[i] = s[j]
  <2>1. CASE i < k
    BY <1>1, <1>2, <2>1
  <2>2. CASE ~(i < k)
    BY <1>1, <1>2, <2>2
  <2> QED BY <2>1, <2>2
<1>4. ASSUME NEW j \in 1 .. Len(s), j # k
      PROVE  \E i \in 1 .. Len(s) - 1 : t[i] = s[j]
  <2>1. CASE j < k
    BY <1>1, <1>2, <2>1
  <2>2. CASE j > k
    <3>1. j - 1 \in 1 .. Len(s) - 1 /\ ~(j - 1 < k) /\ (j - 1) + 1 = j
      BY <1>2, <2>2
    <3> QED BY <1>1, <3>1
  <2> QED BY <1>2, <1>4, <2>1, <2>2
<1>5. \A j \in 1 .. Len(s) : j # k => s[j] # s[k]
  BY DEF OnePerConn
<1>6. ToSet(t) = ToSet(s) \ {s[k]}
  <2>1. ToSet(t) = {t[i] : i \in 1 .. Len(s) - 1}
    BY <1>2 DEF ToSet
  <2>2. ToSet(s) = {s[i] : i \in 1 .. Len(s)}
    BY <1>2 DEF ToSet
  <2>3. \A x \in ToSet(t) : x \in ToSet(s) \ {s[k]}
    BY <1>3, <1>5, <2>1, <2>2
  <2>4. \A x \in ToSet(s) \ {s[k]} : x \in ToSet(t)
    BY <1>4, <2>1, <2>2
  <2> QED BY <2>3, <2>4
<1>7. ASSUME NEW i \in 1 .. Len(t), NEW j \in 1 .. Len(t),
             t[i].conn = t[j].conn
      PROVE  i = j
  <2> DEFINE old(n) == IF n < k THEN n ELSE n + 1
  <2>1. /\ t[i] = s[old(i)] /\ old(i) \in 1 .. Len(s)
        /\ t[j] = s[old(j)] /\ old(j) \in 1 .. Len(s)
    BY <1>1, <1>2
  <2>2. old(i) = old(j)
    BY <1>7, <2>1 DEF OnePerConn
  <2> QED BY <1>1, <1>2, <2>2
<1>8. OnePerConn(t)
  BY <1>7 DEF OnePerConn
<1> QED BY <1>6, <1>8 DEF t

\* A handler replaces the context it was called for.
LEMMA ReplaceSet ==
    ASSUME NEW S, NEW s \in Seq(S), NEW k \in 1 .. Len(s), NEW e \in S,
           OnePerConn(s), e.conn = s[k].conn
    PROVE  /\ ToSet([s EXCEPT ![k] = e]) = (ToSet(s) \ {s[k]}) \cup {e}
           /\ OnePerConn([s EXCEPT ![k] = e])
<1> DEFINE t == [s EXCEPT ![k] = e]
<1>1. /\ t \in Seq(S) /\ Len(t) = Len(s)
      /\ \A j \in 1 .. Len(s) : t[j] = IF j = k THEN e ELSE s[j]
  BY ExceptSeq
<1> HIDE DEF t
<1>2. DOMAIN s = 1 .. Len(s) /\ DOMAIN t = 1 .. Len(s)
  BY <1>1, LenProperties
<1>3. \A j \in 1 .. Len(s) : j # k => s[j] # s[k]
  BY DEF OnePerConn
<1>4. ToSet(t) = (ToSet(s) \ {s[k]}) \cup {e}
  BY <1>1, <1>2, <1>3 DEF ToSet
<1>5. OnePerConn(t)
  BY <1>1 DEF OnePerConn
<1> QED BY <1>4, <1>5 DEF t

\* add_new_client_context adds the context, at the end, when no other has its
\* clientfd.
LEMMA AddNewSet ==
    ASSUME NEW S, NEW s \in Seq(S), NEW e \in S, OnePerConn(s),
           \A i \in 1 .. Len(s) : s[i].conn # e.conn,
           \A i \in 1 .. Len(s) : s[i].clientfd # e.clientfd
    PROVE  /\ ToSet(add_new_client_context(s, e)) = ToSet(s) \cup {e}
           /\ OnePerConn(add_new_client_context(s, e))
<1> DEFINE t == add_new_client_context(s, e)
<1>1. Len(s) \in Nat /\ DOMAIN s = 1 .. Len(s)
  BY LenProperties
<1>2. t = Append(s, e)
  <2>1. \A i \in 1 .. Len(s) - 1 : s[i].clientfd # e.clientfd
    BY <1>1
  <2> QED BY <2>1 DEF add_new_client_context
<1>3. /\ t \in Seq(S) /\ Len(t) = Len(s) + 1
      /\ \A i \in 1 .. Len(s) : t[i] = s[i]
      /\ t[Len(s) + 1] = e
  BY <1>2, AppendProperties
<1> HIDE DEF t
<1>4. DOMAIN t = 1 .. Len(s) + 1
  BY <1>3, LenProperties
<1>5. ToSet(t) = ToSet(s) \cup {e}
  <2>1. \A i \in 1 .. Len(s) + 1 : i \in 1 .. Len(s) \/ i = Len(s) + 1
    BY <1>1
  <2>2. \A i \in 1 .. Len(s) : i \in 1 .. Len(s) + 1
    BY <1>1
  <2>3. Len(s) + 1 \in 1 .. Len(s) + 1
    BY <1>1
  <2> QED BY <1>1, <1>3, <1>4, <2>1, <2>2, <2>3 DEF ToSet
<1>6. OnePerConn(t)
  BY <1>1, <1>3 DEF OnePerConn
<1> QED BY <1>5, <1>6 DEF t

-----------------------------------------------------------------------------
(***************************************************************************)
(* The type invariant.                                                      *)
(***************************************************************************)
Ctxs == Context(Fds \cup {0}, Conns)

\* TypeInv, by the variables its parts are about.
ContextsTyped ==
    /\ ctxhead \in Seq(Ctxs)
    /\ \A k \in Contexts : ctxhead[k].clientfd # 0

SetsTyped ==
    /\ readfds \subseteq Fds /\ writefds \subseteq Fds /\ maxfd \in Fds
    /\ MaxfdCoversSets

TableTyped ==
    /\ fdtab \in [Fds -> [kind : ObjectKinds, conn : Conns \cup {NoConn}]]
    /\ \A f \in Fds : fdtab[f].kind \in {"client", "cgiout", "proxy"}
                         => fdtab[f].conn \in Conns

PassTyped ==
    /\ pc \in {"select", "pass", "cgiread", "stopped"}
    /\ cur_readfds \subseteq Fds /\ cur_writefds \subseteq Fds
    /\ pc = "cgiread" => \A f \in Fds : Scan(f) => Matched(f) # 0

PeersTyped ==
    /\ conn \in [Conns -> {"new", "queued", "open", "closed"}]
    /\ client \in [Conns -> {"quiet", "fragment", "sent", "gone", "reset"}]
    /\ cgi \in [Conns -> {"none", "running", "output", "exited"}]
    /\ upstream \in [Conns -> {"none", "open", "data", "datafin", "fin", "reset"}]
    /\ full \subseteq Sides \X Conns

SentTyped ==
    sent \in [Conns -> Seq(Conns \X {"head", "body", "forwarded",
                                     "forwarded all"})]

TypeInv == /\ ContextsTyped /\ SetsTyped /\ TableTyped
           /\ PassTyped /\ PeersTyped /\ SentTyped

-----------------------------------------------------------------------------
(***************************************************************************)
(* Descriptors.                                                             *)
(***************************************************************************)
\* Descriptor numbers are positive, and 0 is not one.
LEMMA FdsAreNat == Fds \in SUBSET Nat /\ S0 \in Fds /\ 0 \notin Fds
BY FdAssumption DEF Fds, S0

\* The kernel finds the lowest of a set of free descriptors.
LEMMA LowestIn ==
    ASSUME NEW S \in SUBSET Fds, S # {}
    PROVE  Lowest(S) \in S /\ \A g \in S : Lowest(S) <= g
<1>1. S \in SUBSET Nat
  BY FdsAreNat
<1>2. \E x \in S : \A y \in S : x <= y
  BY <1>1, LeastNat
<1> QED BY <1>2 DEF Lowest

\* The larger of two descriptors is a descriptor, and not below either.
LEMMA LargerFd ==
    ASSUME NEW m \in Fds, NEW n \in Fds
    PROVE  Larger(m, n) \in Fds /\ m <= Larger(m, n) /\ n <= Larger(m, n)
BY FdsAreNat DEF Larger

\* lk_popen3 leaves two different descriptors open, both free before, when six
\* were free.
LEMMA PopenFds ==
    ASSUME NEW S \in SUBSET Fds, Cardinality(S) >= 6
    PROVE  /\ lk_popen3(S).fd_in \in S
           /\ lk_popen3(S).fd_out \in S /\ lk_popen3(S).err \in S
           /\ lk_popen3(S).fd_out # lk_popen3(S).err
<1> DEFINE in0  == Lowest(S)        r1 == S \ {in0}
           in1  == Lowest(r1)       r2 == r1 \ {in1}
           out0 == Lowest(r2)       r3 == r2 \ {out0}
           out1 == Lowest(r3)       r4 == r3 \ {out1}
           err0 == Lowest(r4)
<1>1. IsFiniteSet(S) /\ Cardinality(S) \in Nat
  <2>1. IsFiniteSet(Fds)
    BY FdAssumption, FS_Interval DEF Fds
  <2> QED BY <2>1, FS_Subset, FS_CardinalityType
<1>2. ASSUME NEW T \in SUBSET S, Cardinality(T) >= 2
      PROVE  /\ Lowest(T) \in T
             /\ Cardinality(T \ {Lowest(T)}) = Cardinality(T) - 1
  <2>1. IsFiniteSet(T)
    BY <1>1, FS_Subset
  <2>2. T # {}
    <3>1. SUFFICES ASSUME T = {} PROVE FALSE
      OBVIOUS
    <3> QED BY <1>2, <3>1, FS_EmptySet
  <2>3. Lowest(T) \in T
    BY <2>2, LowestIn
  <2> QED BY <2>1, <2>3, FS_RemoveElement
<1>3. in0 \in S /\ r1 \in SUBSET S /\ Cardinality(r1) = Cardinality(S) - 1
  BY <1>1, <1>2
<1>4. in1 \in r1 /\ r2 \in SUBSET S /\ Cardinality(r2) = Cardinality(S) - 2
  <2>1. Cardinality(r1) >= 2
    BY <1>1, <1>3
  <2> HIDE DEF r1
  <2> QED BY <1>1, <1>2, <1>3, <2>1
<1>5. out0 \in r2 /\ r3 \in SUBSET S /\ Cardinality(r3) = Cardinality(S) - 3
  <2>1. Cardinality(r2) >= 2
    BY <1>1, <1>4
  <2> HIDE DEF r2
  <2> QED BY <1>1, <1>2, <1>4, <2>1
<1>6. out1 \in r3 /\ r4 \in SUBSET S /\ Cardinality(r4) = Cardinality(S) - 4
  <2>1. Cardinality(r3) >= 2
    BY <1>1, <1>5
  <2> HIDE DEF r3
  <2> QED BY <1>1, <1>2, <1>5, <2>1
<1>7. err0 \in r4
  <2>1. Cardinality(r4) >= 2
    BY <1>1, <1>6
  <2> HIDE DEF r4
  <2> QED BY <1>1, <1>2, <1>6, <2>1
<1>8. lk_popen3(S) = [fd_in |-> in1, fd_out |-> out0, err |-> err0]
  BY DEF lk_popen3
<1>9. in1 \in S /\ out0 \in S /\ err0 \in S /\ out0 # err0
  BY <1>3, <1>4, <1>5, <1>6, <1>7
<1> HIDE DEF in1, out0, err0
<1> QED BY <1>8, <1>9
-----------------------------------------------------------------------------
(***************************************************************************)
(* Records: a context is the record of its fields, and each change that a   *)
(* handler makes to several of them gives the record one expects.           *)
(***************************************************************************)
Rec(type, selectfd, clientfd, cgifd, proxyfd, items_cur, respbuf, c) ==
    [type |-> type, selectfd |-> selectfd, clientfd |-> clientfd,
     cgifd |-> cgifd, proxyfd |-> proxyfd, items_cur |-> items_cur,
     respbuf |-> respbuf, conn |-> c]

\* A record of well-typed fields is a context.
LEMMA RecTyped ==
    ASSUME NEW type \in CtxType, NEW selectfd \in Fds \cup {0},
           NEW clientfd \in Fds \cup {0}, NEW cgifd \in Fds \cup {0},
           NEW proxyfd \in Fds \cup {0}, NEW items_cur \in 0 .. 2,
           NEW respbuf \in BOOLEAN, NEW c \in Conns
    PROVE  Rec(type, selectfd, clientfd, cgifd, proxyfd, items_cur, respbuf, c)
             \in Ctxs
BY DEF Rec, Ctxs, Context

\* A context has well-typed fields.
LEMMA CtxFields ==
    ASSUME NEW ctx \in Ctxs
    PROVE  /\ ctx.type \in CtxType /\ ctx.selectfd \in Fds \cup {0}
           /\ ctx.clientfd \in Fds \cup {0} /\ ctx.cgifd \in Fds \cup {0}
           /\ ctx.proxyfd \in Fds \cup {0} /\ ctx.items_cur \in 0 .. 2
           /\ ctx.respbuf \in BOOLEAN /\ ctx.conn \in Conns
           /\ ctx = Rec(ctx.type, ctx.selectfd, ctx.clientfd, ctx.cgifd,
                        ctx.proxyfd, ctx.items_cur, ctx.respbuf, ctx.conn)
BY DEF Ctxs, Context, Rec

\* One changed field.
LEMMA OneField ==
    ASSUME NEW ctx \in Ctxs, NEW v
    PROVE  /\ [ctx EXCEPT !.type = v] =
                Rec(v, ctx.selectfd, ctx.clientfd, ctx.cgifd, ctx.proxyfd,
                    ctx.items_cur, ctx.respbuf, ctx.conn)
           /\ [ctx EXCEPT !.selectfd = v] =
                Rec(ctx.type, v, ctx.clientfd, ctx.cgifd, ctx.proxyfd,
                    ctx.items_cur, ctx.respbuf, ctx.conn)
           /\ [ctx EXCEPT !.cgifd = v] =
                Rec(ctx.type, ctx.selectfd, ctx.clientfd, v, ctx.proxyfd,
                    ctx.items_cur, ctx.respbuf, ctx.conn)
           /\ [ctx EXCEPT !.proxyfd = v] =
                Rec(ctx.type, ctx.selectfd, ctx.clientfd, ctx.cgifd, v,
                    ctx.items_cur, ctx.respbuf, ctx.conn)
           /\ [ctx EXCEPT !.items_cur = v] =
                Rec(ctx.type, ctx.selectfd, ctx.clientfd, ctx.cgifd,
                    ctx.proxyfd, v, ctx.respbuf, ctx.conn)
           /\ [ctx EXCEPT !.respbuf = v] =
                Rec(ctx.type, ctx.selectfd, ctx.clientfd, ctx.cgifd,
                    ctx.proxyfd, ctx.items_cur, v, ctx.conn)
BY DEF Ctxs, Context, Rec

\* process_response: the context is to be answered on its client descriptor.
LEMMA AnswerFields ==
    ASSUME NEW ctx \in Ctxs
    PROVE  /\ [ctx EXCEPT !.selectfd = ctx.clientfd,
                          !.type = "CTX_WRITE_RESP", !.items_cur = 0] =
                Rec("CTX_WRITE_RESP", ctx.clientfd, ctx.clientfd, ctx.cgifd,
                    ctx.proxyfd, 0, ctx.respbuf, ctx.conn)
<1> DEFINE e1 == [ctx EXCEPT !.selectfd = ctx.clientfd]
           e2 == [e1 EXCEPT !.type = "CTX_WRITE_RESP"]
           e3 == [e2 EXCEPT !.items_cur = 0]
<1>1. e1 = Rec(ctx.type, ctx.clientfd, ctx.clientfd, ctx.cgifd, ctx.proxyfd,
               ctx.items_cur, ctx.respbuf, ctx.conn)
  BY OneField
<1> HIDE DEF e1
<1>2. e2 = Rec("CTX_WRITE_RESP", ctx.clientfd, ctx.clientfd, ctx.cgifd,
               ctx.proxyfd, ctx.items_cur, ctx.respbuf, ctx.conn)
  BY <1>1 DEF Rec
<1> HIDE DEF e2
<1>3. e3 = Rec("CTX_WRITE_RESP", ctx.clientfd, ctx.clientfd, ctx.cgifd,
               ctx.proxyfd, 0, ctx.respbuf, ctx.conn)
  BY <1>2 DEF Rec
<1> QED BY <1>3 DEF e1, e2

\* serve_cgi: it waits for the output of a CGI program.
LEMMA CgiFields ==
    ASSUME NEW ctx \in Ctxs, NEW fd
    PROVE  [ctx EXCEPT !.selectfd = fd, !.cgifd = fd,
                       !.type = "CTX_READ_CGI_OUTPUT"] =
             Rec("CTX_READ_CGI_OUTPUT", fd, ctx.clientfd, fd, ctx.proxyfd,
                 ctx.items_cur, ctx.respbuf, ctx.conn)
<1> DEFINE e1 == [ctx EXCEPT !.selectfd = fd]
           e2 == [e1 EXCEPT !.cgifd = fd]
           e3 == [e2 EXCEPT !.type = "CTX_READ_CGI_OUTPUT"]
<1>1. e1 = Rec(ctx.type, fd, ctx.clientfd, ctx.cgifd, ctx.proxyfd,
               ctx.items_cur, ctx.respbuf, ctx.conn)
  BY OneField
<1> HIDE DEF e1
<1>2. e2 = Rec(ctx.type, fd, ctx.clientfd, fd, ctx.proxyfd,
               ctx.items_cur, ctx.respbuf, ctx.conn)
  BY <1>1 DEF Rec
<1> HIDE DEF e2
<1>3. e3 = Rec("CTX_READ_CGI_OUTPUT", fd, ctx.clientfd, fd, ctx.proxyfd,
               ctx.items_cur, ctx.respbuf, ctx.conn)
  BY <1>2 DEF Rec
<1> QED BY <1>3 DEF e1, e2

\* serve_proxy: it waits to send the request upstream.
LEMMA ProxyFields ==
    ASSUME NEW ctx \in Ctxs, NEW fd
    PROVE  [ctx EXCEPT !.proxyfd = fd, !.selectfd = fd,
                       !.type = "CTX_PROXY_WRITE_REQ", !.items_cur = 0] =
             Rec("CTX_PROXY_WRITE_REQ", fd, ctx.clientfd, ctx.cgifd, fd,
                 0, ctx.respbuf, ctx.conn)
<1> DEFINE e1 == [ctx EXCEPT !.proxyfd = fd]
           e2 == [e1 EXCEPT !.selectfd = fd]
           e3 == [e2 EXCEPT !.type = "CTX_PROXY_WRITE_REQ"]
           e4 == [e3 EXCEPT !.items_cur = 0]
<1>1. e1 = Rec(ctx.type, ctx.selectfd, ctx.clientfd, ctx.cgifd, fd,
               ctx.items_cur, ctx.respbuf, ctx.conn)
  BY OneField
<1> HIDE DEF e1
<1>2. e2 = Rec(ctx.type, fd, ctx.clientfd, ctx.cgifd, fd,
               ctx.items_cur, ctx.respbuf, ctx.conn)
  BY <1>1 DEF Rec
<1> HIDE DEF e2
<1>3. e3 = Rec("CTX_PROXY_WRITE_REQ", fd, ctx.clientfd, ctx.cgifd, fd,
               ctx.items_cur, ctx.respbuf, ctx.conn)
  BY <1>2 DEF Rec
<1> HIDE DEF e3
<1>4. e4 = Rec("CTX_PROXY_WRITE_REQ", fd, ctx.clientfd, ctx.cgifd, fd,
               0, ctx.respbuf, ctx.conn)
  BY <1>3 DEF Rec
<1> QED BY <1>4 DEF e1, e2, e3

\* write_proxy_request, when all is sent: it waits for the response.
LEMMA PipeFields ==
    ASSUME NEW ctx \in Ctxs, NEW empty
    PROVE  [ctx EXCEPT !.type = "CTX_PROXY_PIPE_RESP", !.respbuf = empty] =
             Rec("CTX_PROXY_PIPE_RESP", ctx.selectfd, ctx.clientfd, ctx.cgifd,
                 ctx.proxyfd, ctx.items_cur, empty, ctx.conn)
<1> DEFINE e1 == [ctx EXCEPT !.type = "CTX_PROXY_PIPE_RESP"]
           e2 == [e1 EXCEPT !.respbuf = empty]
<1>1. e1 = Rec("CTX_PROXY_PIPE_RESP", ctx.selectfd, ctx.clientfd, ctx.cgifd,
               ctx.proxyfd, ctx.items_cur, ctx.respbuf, ctx.conn)
  BY OneField
<1> HIDE DEF e1
<1>2. e2 = Rec("CTX_PROXY_PIPE_RESP", ctx.selectfd, ctx.clientfd, ctx.cgifd,
               ctx.proxyfd, ctx.items_cur, empty, ctx.conn)
  BY <1>1 DEF Rec
<1> QED BY <1>2 DEF e1

-----------------------------------------------------------------------------
(***************************************************************************)
(* The statements that several handlers share.                              *)
(***************************************************************************)
\* A matched context is in the list.
LEMMA MatchedIn ==
    ASSUME ContextsTyped, NEW f, Matched(f) # 0
    PROVE  /\ Matched(f) \in Contexts /\ Matched(f) \in 1 .. Len(ctxhead)
           /\ ctxhead[Matched(f)] \in Ctxs
           /\ ctxhead[Matched(f)].clientfd \in Fds
           /\ ctxhead[Matched(f)].selectfd = f
<1>1. Matched(f) \in 1 .. Len(ctxhead) /\ ctxhead[Matched(f)].selectfd = f
  BY MatchSelect DEF Matched, ContextsTyped
<1>2. DOMAIN ctxhead = 1 .. Len(ctxhead) /\ ctxhead[Matched(f)] \in Ctxs
  BY <1>1, ElementOfSeq, LenProperties DEF ContextsTyped
<1>3. ctxhead[Matched(f)].clientfd \in Fds \cup {0}
  BY <1>2 DEF Ctxs, Context
<1> QED BY <1>1, <1>2, <1>3 DEF ContextsTyped, Contexts

\* The end of an event: the pass goes on or is over.
LEMMA AdvanceTyped ==
    ASSUME PassTyped, NEW f, Advance(f)
    PROVE  PassTyped'
BY DEF PassTyped, Advance

\* Replacing a context by one that has a client descriptor.
LEMMA ReplaceTyped ==
    ASSUME ContextsTyped, NEW k \in Contexts, NEW e \in Ctxs, e.clientfd # 0,
           ctxhead' = [ctxhead EXCEPT ![k] = e]
    PROVE  ContextsTyped'
<1>1. DOMAIN ctxhead = 1 .. Len(ctxhead)
  BY LenProperties DEF ContextsTyped
<1>2. /\ ctxhead' \in Seq(Ctxs) /\ Len(ctxhead') = Len(ctxhead)
      /\ \A j \in 1 .. Len(ctxhead) :
            ctxhead'[j] = IF j = k THEN e ELSE ctxhead[j]
  BY <1>1, ExceptSeq DEF ContextsTyped, Contexts
<1>3. DOMAIN ctxhead' = 1 .. Len(ctxhead)
  BY <1>2, LenProperties
<1> QED BY <1>1, <1>2, <1>3 DEF ContextsTyped, Contexts

\* Adding one.
LEMMA AppendTyped ==
    ASSUME NEW s \in Seq(Ctxs), \A k \in DOMAIN s : s[k].clientfd # 0,
           NEW e \in Ctxs, e.clientfd # 0
    PROVE  /\ Append(s, e) \in Seq(Ctxs)
           /\ \A k \in DOMAIN Append(s, e) : Append(s, e)[k].clientfd # 0
<1>1. /\ Append(s, e) \in Seq(Ctxs) /\ Len(Append(s, e)) = Len(s) + 1
      /\ \A i \in 1 .. Len(s) : Append(s, e)[i] = s[i]
      /\ Append(s, e)[Len(s) + 1] = e
  BY AppendProperties
<1>2. /\ DOMAIN s = 1 .. Len(s) /\ Len(s) \in Nat
      /\ DOMAIN Append(s, e) = 1 .. Len(s) + 1
  BY <1>1, LenProperties
<1> QED BY <1>1, <1>2

\* Removing the one found first by any test.
LEMMA RemoveTyped ==
    ASSUME ContextsTyped, NEW fd,
           \/ ctxhead' = remove_client_context(ctxhead, fd)
           \/ ctxhead' = remove_selectfd_context(ctxhead, fd)
    PROVE  ContextsTyped'
<1> DEFINE C == {i \in 1 .. Len(ctxhead) : ctxhead[i].clientfd = fd}
           D == {i \in 1 .. Len(ctxhead) : ctxhead[i].selectfd = fd}
<1>1. ASSUME NEW I \in SUBSET (1 .. Len(ctxhead)), I # {}
      PROVE  Min(I) \in 1 .. Len(ctxhead)
  <2>1. I \in SUBSET Nat
    BY LenProperties DEF ContextsTyped
  <2>2. \E x \in I : \A y \in I : x <= y
    BY <1>1, <2>1, LeastNat
  <2> QED BY <2>2 DEF Min
<1>2. \/ ctxhead' = ctxhead
      \/ \E k \in 1 .. Len(ctxhead) : ctxhead' = RemoveAt(ctxhead, k)
  <2>1. CASE ctxhead' = remove_client_context(ctxhead, fd)
    <3>1. ctxhead' = IF C # {} THEN RemoveAt(ctxhead, Min(C)) ELSE ctxhead
      BY <2>1 DEF remove_client_context, RemoveFirstMatch, SelectInSeq
    <3> HIDE DEF C
    <3>2. C \in SUBSET (1 .. Len(ctxhead))
      BY DEF C
    <3> QED BY <1>1, <3>1, <3>2
  <2>2. CASE ctxhead' = remove_selectfd_context(ctxhead, fd)
    <3>1. ctxhead' = IF D # {} THEN RemoveAt(ctxhead, Min(D)) ELSE ctxhead
      BY <2>2 DEF remove_selectfd_context, RemoveFirstMatch, SelectInSeq
    <3> HIDE DEF D
    <3>2. D \in SUBSET (1 .. Len(ctxhead))
      BY DEF D
    <3> QED BY <1>1, <3>1, <3>2
  <2> QED BY <2>1, <2>2
<1>3. CASE ctxhead' = ctxhead
  BY <1>3 DEF ContextsTyped, Contexts
<1>4. ASSUME NEW k \in 1 .. Len(ctxhead), ctxhead' = RemoveAt(ctxhead, k)
      PROVE  ContextsTyped'
  <2>1. /\ ctxhead' \in Seq(Ctxs) /\ Len(ctxhead') = Len(ctxhead) - 1
        /\ \A i \in 1 .. Len(ctxhead) - 1 :
              ctxhead'[i] = IF i < k THEN ctxhead[i] ELSE ctxhead[i + 1]
    BY <1>4, RemoveAtType DEF ContextsTyped
  <2>2. /\ DOMAIN ctxhead = 1 .. Len(ctxhead) /\ Len(ctxhead) \in Nat
        /\ DOMAIN ctxhead' = 1 .. Len(ctxhead) - 1
    BY <2>1, LenProperties DEF ContextsTyped
  <2>3. ASSUME NEW i \in 1 .. Len(ctxhead) - 1
        PROVE  ctxhead'[i].clientfd # 0
    <3>1. i \in 1 .. Len(ctxhead) /\ i + 1 \in 1 .. Len(ctxhead)
      BY <2>2
    <3> QED BY <2>1, <2>2, <3>1 DEF ContextsTyped, Contexts
  <2> QED BY <2>1, <2>2, <2>3 DEF ContextsTyped, Contexts
<1> QED BY <1>2, <1>3, <1>4

\* process_response answers a context that has a client descriptor.
LEMMA ProcessResponseTyped ==
    ASSUME ContextsTyped, SetsTyped, NEW k \in Contexts, NEW ctx \in Ctxs,
           ctx.clientfd # 0, NEW wfds \in SUBSET writefds,
           process_response(k, ctx, wfds), readfds' \subseteq readfds
    PROVE  ContextsTyped' /\ SetsTyped'
<1> DEFINE e == [ctx EXCEPT !.selectfd = ctx.clientfd,
                            !.type = "CTX_WRITE_RESP", !.items_cur = 0]
<1>1. ctx.clientfd \in Fds
  BY DEF Ctxs, Context
<1>2. e \in Ctxs /\ e.clientfd # 0
  <2>1. e = Rec("CTX_WRITE_RESP", ctx.clientfd, ctx.clientfd, ctx.cgifd,
                ctx.proxyfd, 0, ctx.respbuf, ctx.conn)
    BY AnswerFields
  <2> HIDE DEF e
  <2>2. "CTX_WRITE_RESP" \in CtxType /\ 0 \in 0 .. 2
    BY DEF CtxType
  <2>3. e \in Ctxs
    BY <2>1, <2>2, CtxFields, RecTyped
  <2>4. e.clientfd = ctx.clientfd
    BY <2>1 DEF Rec
  <2> QED BY <2>3, <2>4
<1>3. ctxhead' = [ctxhead EXCEPT ![k] = e]
  BY DEF process_response
<1>4. ContextsTyped'
  <2> HIDE DEF e
  <2> QED BY <1>2, <1>3, ReplaceTyped
<1>5. maxfd' \in Fds /\ maxfd <= maxfd' /\ ctx.clientfd <= maxfd'
  BY <1>1, LargerFd DEF process_response, SetsTyped
<1>6. writefds' \subseteq writefds \cup {ctx.clientfd}
  BY DEF process_response
<1>7. SetsTyped'
  BY <1>1, <1>5, <1>6, FdsAreNat DEF SetsTyped, MaxfdCoversSets
<1> QED BY <1>4, <1>7

\* close().
LEMMA CloseFdsTyped ==
    ASSUME TableTyped, PeersTyped, NEW F, NEW buffers,
           buffers \subseteq Sides \X Conns,
           CloseFds(F, buffers), UNCHANGED client
    PROVE  TableTyped' /\ PeersTyped'
<1>1. TableTyped'
  BY DEF TableTyped, CloseFds, Free, Object, ObjectKinds
<1>2. PeersTyped'
  BY DEF PeersTyped, CloseFds
<1> QED BY <1>1, <1>2

\* What a write leaves in the send buffers.
LEMMA FullAfterTyped ==
    ASSUME TableTyped, PeersTyped, NEW f \in Fds,
           NEW z, lk_write_all(f, z), NEW buffers \in FullAfter(f, z)
    PROVE  buffers \subseteq Sides \X Conns
<1>1. CASE IsStream(f)
  <2>1. Side(f) \in Sides \X Conns
    BY <1>1 DEF Side, Sides, IsStream, TableTyped
  <2> QED BY <2>1 DEF FullAfter, PeersTyped
<1>2. CASE ~IsStream(f)
  <2>1. z \notin {"Z_EOF", "Z_BLOCK"}
    BY <1>2 DEF lk_write_all
  <2> QED BY <2>1 DEF FullAfter, PeersTyped
<1> QED BY <1>1, <1>2

\* What a client received.
LEMMA DeliverTyped ==
    ASSUME SentTyped, NEW f, NEW c \in Conns,
           NEW part \in {"head", "body", "forwarded", "forwarded all"}
    PROVE  Deliver(f, c, part) \in [Conns -> Seq(Conns \X
                {"head", "body", "forwarded", "forwarded all"})]
<1> DEFINE P == Conns \X {"head", "body", "forwarded", "forwarded all"}
           d == fdtab[f].conn
<1>1. <<c, part>> \in P
  OBVIOUS
<1>2. d \in Conns => Append(sent[d], <<c, part>>) \in Seq(P)
  BY <1>1, AppendProperties DEF SentTyped
<1> QED BY <1>2 DEF Deliver, SentTyped

\* What a step leaves alone stays well typed.
LEMMA Untouched ==
    /\ ContextsTyped /\ UNCHANGED ctxhead => ContextsTyped'
    /\ SetsTyped /\ UNCHANGED fdsets => SetsTyped'
    /\ TableTyped /\ UNCHANGED fdtab => TableTyped'
    /\ PeersTyped /\ UNCHANGED <<conn, peers>> => PeersTyped'
    /\ SentTyped /\ UNCHANGED sent => SentTyped'
<1>1. ContextsTyped /\ UNCHANGED ctxhead => ContextsTyped'
  BY DEF ContextsTyped, Contexts
<1>2. SetsTyped /\ UNCHANGED fdsets => SetsTyped'
  BY DEF SetsTyped, MaxfdCoversSets, fdsets
<1>3. TableTyped /\ UNCHANGED fdtab => TableTyped'
  BY DEF TableTyped
<1>4. PeersTyped /\ UNCHANGED <<conn, peers>> => PeersTyped'
  BY DEF PeersTyped, peers
<1>5. SentTyped /\ UNCHANGED sent => SentTyped'
  BY DEF SentTyped
<1> QED BY <1>1, <1>2, <1>3, <1>4, <1>5

\* The end of a session.
LEMMA TerminateTyped ==
    ASSUME ContextsTyped, SetsTyped, TableTyped, PeersTyped, NEW ctx, NEW buffers,
           buffers \subseteq Sides \X Conns,
           terminate_client_session(ctx, buffers), UNCHANGED client
    PROVE  ContextsTyped' /\ SetsTyped' /\ TableTyped' /\ PeersTyped'
<1>1. ContextsTyped'
  BY RemoveTyped DEF terminate_client_session
<1>2. SetsTyped'
  BY DEF terminate_client_session, SetsTyped, MaxfdCoversSets
<1>3. TableTyped' /\ PeersTyped'
  BY CloseFdsTyped DEF terminate_client_session
<1> QED BY <1>1, <1>2, <1>3

\* A handler adds the descriptors of R and W to the sets and raises maxfd.
LEMMA SetsGrow ==
    ASSUME SetsTyped, NEW fd \in Fds,
           readfds' \subseteq readfds \cup {fd},
           writefds' \subseteq writefds \cup {fd},
           maxfd' = Larger(maxfd, fd)
    PROVE  SetsTyped'
<1>1. maxfd' \in Fds /\ maxfd <= maxfd' /\ fd <= maxfd'
  BY LargerFd DEF SetsTyped
<1> QED BY <1>1, FdsAreNat DEF SetsTyped, MaxfdCoversSets

-----------------------------------------------------------------------------
(***************************************************************************)
(* The steps.                                                               *)
(***************************************************************************)
\* The initial state.
LEMMA TypeInit == Init => TypeInv
<1> SUFFICES ASSUME Init PROVE TypeInv
  OBVIOUS
<1> USE FdsAreNat
<1>1. ContextsTyped
  BY EmptySeq DEF Init, ContextsTyped, Contexts
<1>2. SetsTyped
  BY DEF Init, SetsTyped, MaxfdCoversSets
<1>3. TableTyped
  BY DEF Init, TableTyped, Object, Free, ObjectKinds
<1>4. PassTyped
  BY DEF Init, PassTyped
<1>5. PeersTyped
  BY DEF Init, PeersTyped
<1>6. SentTyped
  BY EmptySeq DEF Init, SentTyped
<1> QED BY <1>1, <1>2, <1>3, <1>4, <1>5, <1>6 DEF TypeInv

\* A step of a client, a CGI program or an upstream.
LEMMA TypeEnvironment == TypeInv /\ Environment => TypeInv'
<1> SUFFICES ASSUME TypeInv, Environment PROVE TypeInv'
  OBVIOUS
<1>1. UNCHANGED server /\ PeersTyped' /\ SentTyped'
  <2>1. PICK c \in Conns :
          \/ Connect(c) \/ SendFragment(c) \/ SendRest(c) \/ HangUp(c)
          \/ Drain("client", c) \/ Drain("proxy", c)
          \/ CgiOutput(c) \/ CgiExit(c)
          \/ UpstreamSend(c) \/ UpstreamEnd(c) \/ UpstreamReset(c)
    BY DEF Environment
  <2>2. CASE Connect(c)
    BY <2>2, EmptySeq DEF Connect, TypeInv, PeersTyped, SentTyped
  <2>3. CASE SendFragment(c) \/ SendRest(c) \/ HangUp(c)
    BY <2>3 DEF SendFragment, SendRest, HangUp, ClientMove, TypeInv,
                PeersTyped, SentTyped
  <2>4. CASE Drain("client", c) \/ Drain("proxy", c)
    BY <2>4 DEF Drain, TypeInv, PeersTyped, SentTyped
  <2>5. CASE CgiOutput(c) \/ CgiExit(c)
    BY <2>5 DEF CgiOutput, CgiExit, CgiMove, TypeInv, PeersTyped, SentTyped
  <2>6. CASE UpstreamSend(c) \/ UpstreamEnd(c) \/ UpstreamReset(c)
    BY <2>6 DEF UpstreamSend, UpstreamEnd, UpstreamReset, UpstreamMove, TypeInv,
                PeersTyped, SentTyped
  <2> QED BY <2>1, <2>2, <2>3, <2>4, <2>5, <2>6
<1>2. ContextsTyped' /\ SetsTyped' /\ TableTyped'
  BY <1>1, Untouched DEF TypeInv, server
<1>3. PassTyped'
  BY <1>1 DEF TypeInv, PassTyped, server, cursets, Scan, Matched
<1> QED BY <1>1, <1>2, <1>3 DEF TypeInv

\* select() returns, and the events that change nothing but the pass.
LEMMA TypeSelect ==
    TypeInv /\ (SelectReturns \/ SelectFails \/ AcceptFails
                \/ \E f \in Fds : UnknownType(f) \/ ReadCgiOutputWaits(f))
      => TypeInv'
<1> SUFFICES ASSUME TypeInv,
                    SelectReturns \/ SelectFails \/ AcceptFails
                    \/ \E f \in Fds : UnknownType(f) \/ ReadCgiOutputWaits(f)
             PROVE  TypeInv'
  OBVIOUS
<1>1. UNCHANGED <<ctxhead, fdsets, fdtab, conn, peers, sent>>
  BY DEF SelectReturns, SelectFails, AcceptFails, UnknownType,
         ReadCgiOutputWaits
<1>2. PassTyped'
  <2>1. CASE SelectReturns
    BY <2>1 DEF SelectReturns, TypeInv, PassTyped, SetsTyped
  <2>2. CASE SelectFails
    BY <2>2 DEF SelectFails, TypeInv, PassTyped, cursets
  <2>3. CASE AcceptFails
    BY <2>3, AdvanceTyped DEF AcceptFails, TypeInv
  <2>4. CASE \E f \in Fds : UnknownType(f)
    BY <2>4, AdvanceTyped DEF UnknownType, TypeInv
  <2>5. ASSUME NEW f \in Fds, ReadCgiOutputWaits(f) PROVE PassTyped'
    <3>1. /\ pc' = "cgiread" /\ UNCHANGED <<cur_readfds, cur_writefds, ctxhead>>
          /\ Scan(f) /\ Matched(f) # 0
      BY <2>5 DEF ReadCgiOutputWaits, ReadEventOf, ReadEvent, cursets
    <3>2. \A g \in Fds : Scan(g)' => g = f
      BY <3>1, FdsAreNat DEF Scan
    <3>3. Matched(f)' # 0
      BY <3>1 DEF Matched
    <3> QED BY <3>1, <3>2, <3>3 DEF PassTyped, TypeInv
  <2> QED BY <2>1, <2>2, <2>3, <2>4, <2>5
<1> QED BY <1>1, <1>2, Untouched DEF TypeInv

\* accept().
LEMMA TypeAccept == ASSUME TypeInv, NEW c \in Conns, Accept(c) PROVE TypeInv'
<1> DEFINE fd == Lowest(FreeFds)
           e == create_initial_context(fd, c)
<1>1. fd \in Fds
  BY LowestIn DEF Accept, FreeFds
<1>2. /\ fdtab' = [fdtab EXCEPT ![fd] = Object("client", c)]
      /\ readfds' = readfds \cup {fd} /\ maxfd' = Larger(maxfd, fd)
      /\ ctxhead' = add_new_client_context(ctxhead, e)
      /\ conn' = [conn EXCEPT ![c] = "open"]
      /\ Advance(S0) /\ UNCHANGED <<writefds, peers, sent>>
  BY DEF Accept
<1> HIDE DEF fd
<1>3. ContextsTyped'
  <2>1. e = Rec("CTX_READ_REQ", fd, fd, 0, 0, 0, FALSE, c)
    BY DEF create_initial_context, Rec
  <2>2. e \in Ctxs /\ e.clientfd # 0
    <3>1. "CTX_READ_REQ" \in CtxType /\ 0 \in 0 .. 2
      BY DEF CtxType
    <3>2. e \in Ctxs
      BY <1>1, <2>1, <3>1, RecTyped
    <3> QED BY <1>1, <3>2, FdsAreNat DEF create_initial_context
  <2>3. ctxhead' = ctxhead \/ ctxhead' = Append(ctxhead, e)
    BY <1>2 DEF add_new_client_context
  <2> HIDE DEF e
  <2> QED BY <2>2, <2>3, AppendTyped DEF TypeInv, ContextsTyped, Contexts
<1>4. SetsTyped'
  BY <1>1, <1>2, SetsGrow DEF TypeInv
<1>5. TableTyped'
  BY <1>1, <1>2 DEF TypeInv, TableTyped, Object, ObjectKinds
<1>6. PassTyped'
  BY <1>2, AdvanceTyped DEF TypeInv
<1>7. PeersTyped' /\ SentTyped'
  BY <1>2 DEF TypeInv, PeersTyped, SentTyped, peers
<1> QED BY <1>3, <1>4, <1>5, <1>6, <1>7 DEF TypeInv

\* A descriptor that belongs to no context.
LEMMA TypeTerminateOrphan ==
    ASSUME TypeInv, NEW f \in Fds, TerminateOrphan(f) PROVE TypeInv'
<1>1. ContextsTyped' /\ SentTyped'
  BY Untouched DEF TerminateOrphan, TypeInv
<1>2. SetsTyped'
  BY DEF TerminateOrphan, TypeInv, SetsTyped, MaxfdCoversSets
<1>3. TableTyped' /\ PeersTyped'
  <2>1. full \subseteq Sides \X Conns
    BY DEF TypeInv, PeersTyped
  <2> QED BY <2>1, CloseFdsTyped DEF TerminateOrphan, TypeInv
<1>4. PassTyped'
  BY AdvanceTyped DEF TerminateOrphan, TypeInv
<1> QED BY <1>1, <1>2, <1>3, <1>4 DEF TypeInv

\* serve_cgi.
LEMMA ServeCgiTyped ==
    ASSUME TypeInv, NEW k \in Contexts, NEW ctx \in Ctxs, ctx.clientfd # 0,
           NEW c \in Conns, NEW body \in BOOLEAN, NEW rfds \in SUBSET readfds,
           serve_cgi(k, ctx, c, body, rfds)
    PROVE  ContextsTyped' /\ SetsTyped' /\ TableTyped' /\ PeersTyped' /\ SentTyped'
<1>1. CASE /\ process_response(k, ctx, writefds) /\ readfds' = rfds
           /\ UNCHANGED <<fdtab, conn, peers, sent>>
  <2>1. ContextsTyped' /\ SetsTyped'
    BY <1>1, ProcessResponseTyped DEF TypeInv
  <2> QED BY <1>1, <2>1, Untouched DEF TypeInv
<1>2. CASE ~ (/\ process_response(k, ctx, writefds) /\ readfds' = rfds
             /\ UNCHANGED <<fdtab, conn, peers, sent>>)
  <2> DEFINE fd == lk_popen3(FreeFds)
             e == [ctx EXCEPT !.selectfd = fd.fd_out, !.cgifd = fd.fd_out,
                              !.type = "CTX_READ_CGI_OUTPUT"]
             i == cgi_input_context(fd.fd_in, ctx)
             running == [ctxhead EXCEPT ![k] = e]
  <2>0. Cardinality(FreeFds) >= 6
    BY <1>2 DEF serve_cgi
  <2>1. fd.fd_in \in Fds /\ fd.fd_out \in Fds /\ fd.err \in Fds
    BY <2>0, PopenFds DEF FreeFds
  <2>2. /\ fdtab' = [fdtab EXCEPT ![fd.fd_out] = Object("cgiout", c),
                                  ![fd.err] = Object("cgierr", c)]
        /\ readfds' = rfds \cup {fd.fd_out}
        /\ IF body
           THEN /\ ctxhead' = add_context(running, i)
                /\ writefds' = writefds \cup {fd.fd_in}
                /\ maxfd' = Larger(Larger(maxfd, fd.fd_out), fd.fd_in)
           ELSE /\ ctxhead' = running
                /\ maxfd' = Larger(maxfd, fd.fd_out)
                /\ UNCHANGED writefds
        /\ \E state \in {"running", "exited"} : cgi' = [cgi EXCEPT ![c] = state]
        /\ UNCHANGED <<conn, client, upstream, full, sent>>
    BY <1>2 DEF serve_cgi
  <2> HIDE DEF fd
  <2>3. e \in Ctxs /\ e.clientfd # 0
    <3>1. e = Rec("CTX_READ_CGI_OUTPUT", fd.fd_out, ctx.clientfd, fd.fd_out,
                  ctx.proxyfd, ctx.items_cur, ctx.respbuf, ctx.conn)
      BY CgiFields
    <3> HIDE DEF e
    <3>2. "CTX_READ_CGI_OUTPUT" \in CtxType
      BY DEF CtxType
    <3>3. e \in Ctxs
      BY <2>1, <3>1, <3>2, CtxFields, RecTyped
    <3>4. e.clientfd = ctx.clientfd
      BY <3>1 DEF Rec
    <3> QED BY <3>3, <3>4
  <2>4. i \in Ctxs /\ i.clientfd # 0
    <3>1. i = Rec("CTX_WRITE_CGI_INPUT", fd.fd_in, ctx.clientfd, fd.fd_in,
                  0, 0, FALSE, ctx.conn)
      BY DEF cgi_input_context, Rec
    <3>2. "CTX_WRITE_CGI_INPUT" \in CtxType /\ 0 \in 0 .. 2
      BY DEF CtxType
    <3>3. ctx.clientfd \in Fds \cup {0} /\ ctx.conn \in Conns
      BY CtxFields
    <3>4. i.clientfd = ctx.clientfd
      BY DEF cgi_input_context
    <3> HIDE DEF i
    <3>5. i \in Ctxs
      BY <2>1, <3>1, <3>2, <3>3, RecTyped
    <3> QED BY <3>4, <3>5
  <2> HIDE DEF e, i
  <2>5. ContextsTyped'
    <3>1. DOMAIN ctxhead = 1 .. Len(ctxhead)
      BY LenProperties DEF TypeInv, ContextsTyped
    <3>2. /\ running \in Seq(Ctxs) /\ Len(running) = Len(ctxhead)
          /\ \A j \in 1 .. Len(ctxhead) :
                running[j] = IF j = k THEN e ELSE ctxhead[j]
      BY <2>3, <3>1, ExceptSeq DEF TypeInv, ContextsTyped, Contexts
    <3> HIDE DEF running
    <3>3. \A j \in DOMAIN running : running[j].clientfd # 0
      BY <2>3, <3>1, <3>2, LenProperties DEF TypeInv, ContextsTyped, Contexts
    <3>4. ctxhead' = running \/ ctxhead' = Append(running, i)
      BY <2>2 DEF add_context
    <3> QED BY <2>4, <3>2, <3>3, <3>4, AppendTyped DEF ContextsTyped, Contexts
  <2>6. SetsTyped'
    <3>1. CASE body
      <4> DEFINE m == Larger(maxfd, fd.fd_out)
      <4>1. m \in Fds /\ maxfd <= m /\ fd.fd_out <= m
        BY <2>1, LargerFd DEF TypeInv, SetsTyped
      <4>2. maxfd' = Larger(m, fd.fd_in)
        BY <2>2, <3>1
      <4> HIDE DEF m
      <4>3. maxfd' \in Fds /\ m <= maxfd' /\ fd.fd_in <= maxfd'
        BY <2>1, <4>1, <4>2, LargerFd
      <4>4. /\ readfds' \subseteq readfds \cup {fd.fd_out}
            /\ writefds' = writefds \cup {fd.fd_in}
        BY <2>2, <3>1
      <4>5. readfds' \subseteq Fds /\ writefds' \subseteq Fds
        BY <2>1, <4>4 DEF TypeInv, SetsTyped
      <4> HIDE DEF running
      <4>6. ASSUME NEW g \in readfds' \cup writefds' PROVE g <= maxfd'
        <5>1. g <= maxfd \/ g = fd.fd_out \/ g = fd.fd_in
          BY <4>4 DEF TypeInv, SetsTyped, MaxfdCoversSets
        <5>2. g \in Nat /\ maxfd \in Nat /\ m \in Nat /\ maxfd' \in Nat
          BY <4>1, <4>3, <4>5, FdsAreNat DEF TypeInv, SetsTyped
        <5> QED BY <4>1, <4>3, <5>1, <5>2
      <4> QED BY <4>3, <4>5, <4>6 DEF SetsTyped, MaxfdCoversSets
    <3>2. CASE ~body
      BY <2>1, <2>2, <3>2, SetsGrow DEF TypeInv
    <3> QED BY <3>1, <3>2
  <2>7. TableTyped'
    BY <2>1, <2>2 DEF TypeInv, TableTyped, Object, ObjectKinds
  <2> HIDE DEF running
  <2>8. PeersTyped'
    <3>1. PICK state \in {"running", "exited"} :
            cgi' = [cgi EXCEPT ![c] = state]
      BY <2>2
    <3>2. UNCHANGED <<conn, client, upstream, full>>
      BY <2>2
    <3> QED BY <3>1, <3>2 DEF TypeInv, PeersTyped
  <2>9. SentTyped'
    BY <2>2, Untouched DEF TypeInv
  <2> QED BY <2>5, <2>6, <2>7, <2>8, <2>9
<1> QED BY <1>1, <1>2 DEF serve_cgi

\* serve_proxy.
LEMMA ServeProxyTyped ==
    ASSUME TypeInv, NEW k \in Contexts, NEW ctx \in Ctxs, ctx.clientfd # 0,
           NEW c \in Conns, NEW rfds \in SUBSET readfds,
           serve_proxy(k, ctx, c, rfds)
    PROVE  ContextsTyped' /\ SetsTyped' /\ TableTyped' /\ PeersTyped' /\ SentTyped'
<1> DEFINE fd == Lowest(FreeFds)
           e == [ctx EXCEPT !.proxyfd = fd, !.selectfd = fd,
                            !.type = "CTX_PROXY_WRITE_REQ", !.items_cur = 0]
<1>1. readfds' = rfds /\ UNCHANGED <<conn, client, cgi, full, sent>>
  BY DEF serve_proxy
<1>2. FreeFds # {} => fd \in Fds
  BY LowestIn DEF FreeFds
<1> HIDE DEF fd
<1>3. CASE /\ process_response(k, ctx, writefds) /\ UNCHANGED upstream
           /\ \/ UNCHANGED fdtab
              \/ /\ FreeFds # {}
                 /\ fdtab' = [fdtab EXCEPT ![fd] = Object("deadsock", c)]
  <2>1. ContextsTyped' /\ SetsTyped'
    BY <1>1, <1>3, ProcessResponseTyped DEF TypeInv
  <2>2. TableTyped'
    BY <1>2, <1>3 DEF TypeInv, TableTyped, Object, ObjectKinds
  <2> QED BY <1>1, <1>3, <2>1, <2>2, Untouched DEF TypeInv, peers
<1>4. CASE /\ FreeFds # {}
           /\ fdtab' = [fdtab EXCEPT ![fd] = Object("proxy", c)]
           /\ ctxhead' = [ctxhead EXCEPT ![k] = e]
           /\ writefds' = writefds \cup {fd} /\ maxfd' = Larger(maxfd, fd)
           /\ upstream' = [upstream EXCEPT ![c] = "open"]
  <2>1. e \in Ctxs /\ e.clientfd # 0
    <3>1. e = Rec("CTX_PROXY_WRITE_REQ", fd, ctx.clientfd, ctx.cgifd, fd,
                  0, ctx.respbuf, ctx.conn)
      BY ProxyFields
    <3> HIDE DEF e
    <3>2. "CTX_PROXY_WRITE_REQ" \in CtxType /\ 0 \in 0 .. 2
      BY DEF CtxType
    <3>3. e \in Ctxs
      BY <1>2, <1>4, <3>1, <3>2, CtxFields, RecTyped
    <3>4. e.clientfd = ctx.clientfd
      BY <3>1 DEF Rec
    <3> QED BY <3>3, <3>4
  <2> HIDE DEF e
  <2>2. ContextsTyped'
    BY <1>4, <2>1, ReplaceTyped DEF TypeInv
  <2>3. SetsTyped'
    BY <1>1, <1>2, <1>4, SetsGrow DEF TypeInv
  <2>4. TableTyped'
    BY <1>2, <1>4 DEF TypeInv, TableTyped, Object, ObjectKinds
  <2>5. PeersTyped' /\ SentTyped'
    BY <1>1, <1>4 DEF TypeInv, PeersTyped, SentTyped
  <2> QED BY <2>2, <2>3, <2>4, <2>5
<1> QED BY <1>3, <1>4 DEF serve_proxy, fd

\* A part of a request, or the whole of it, is read.
LEMMA TypeReadRequest ==
    ASSUME TypeInv, NEW f \in Fds, ReadRequestPart(f) \/ ReadRequest(f)
    PROVE  TypeInv'
<1>1. PassTyped'
  BY AdvanceTyped DEF ReadRequestPart, ReadRequest, TypeInv
<1>2. CASE ReadRequestPart(f)
  <2>1. ContextsTyped' /\ SetsTyped' /\ TableTyped' /\ SentTyped'
    BY <1>2, Untouched DEF ReadRequestPart, TypeInv
  <2>2. PeersTyped'
    BY <1>2 DEF ReadRequestPart, TypeInv, PeersTyped
  <2> QED BY <1>1, <2>1, <2>2 DEF TypeInv
<1>3. CASE ReadRequest(f)
  <2> DEFINE k == Matched(f)  ctx == ctxhead[k]  rfds == readfds \ {f}
  <2>1. k # 0
    BY <1>3 DEF ReadRequest, ReadEventOf
  <2>2. k \in Contexts /\ ctx \in Ctxs /\ ctx.clientfd # 0
    BY <2>1, MatchedIn, FdsAreNat DEF TypeInv
  <2>3. rfds \in SUBSET readfds
    OBVIOUS
  <2>4. PICK c \in Conns : process_request(k, ctx, c, rfds)
    BY <1>3 DEF ReadRequest
  <2> HIDE DEF k, ctx, rfds
  <2>5. \/ /\ process_response(k, ctx, writefds) /\ readfds' = rfds
           /\ UNCHANGED <<fdtab, conn, peers, sent>>
        \/ \E body \in BOOLEAN : serve_cgi(k, ctx, c, body, rfds)
        \/ serve_proxy(k, ctx, c, rfds)
    BY <2>4 DEF process_request
  <2>6. CASE /\ process_response(k, ctx, writefds) /\ readfds' = rfds
             /\ UNCHANGED <<fdtab, conn, peers, sent>>
    <3>1. ContextsTyped' /\ SetsTyped'
      BY <2>2, <2>3, <2>6, ProcessResponseTyped DEF TypeInv
    <3> QED BY <1>1, <2>6, <3>1, Untouched DEF TypeInv
  <2>7. CASE \E body \in BOOLEAN : serve_cgi(k, ctx, c, body, rfds)
    BY <1>1, <2>2, <2>3, <2>7, ServeCgiTyped DEF TypeInv
  <2>8. CASE serve_proxy(k, ctx, c, rfds)
    BY <1>1, <2>2, <2>3, <2>8, ServeProxyTyped DEF TypeInv
  <2> QED BY <2>5, <2>6, <2>7, <2>8
<1> QED BY <1>2, <1>3

\* A descriptor is closed and its session answered instead.
LEMMA AnswerInsteadTyped ==
    ASSUME TypeInv, NEW k \in Contexts, NEW ctx \in Ctxs, ctx.clientfd # 0,
           NEW fd, NEW wfds \in SUBSET writefds,
           process_response(k, ctx, wfds), readfds' \subseteq readfds,
           CloseFds({fd}, full), UNCHANGED <<client, sent>>
    PROVE  ContextsTyped' /\ SetsTyped' /\ TableTyped' /\ PeersTyped' /\ SentTyped'
<1>1. ContextsTyped' /\ SetsTyped'
  BY ProcessResponseTyped DEF TypeInv
<1>2. TableTyped' /\ PeersTyped'
  <2>1. full \subseteq Sides \X Conns
    BY DEF TypeInv, PeersTyped
  <2> QED BY <2>1, CloseFdsTyped DEF TypeInv
<1>3. SentTyped'
  BY Untouched DEF TypeInv
<1> QED BY <1>1, <1>2, <1>3

\* The field that terminate_fd zeroed.
LEMMA ZeroedTyped ==
    ASSUME NEW ctx \in Ctxs, ctx.clientfd # 0
    PROVE  /\ [ctx EXCEPT !.cgifd = ZeroIfClosed(ctx.cgifd)] \in Ctxs
           /\ [ctx EXCEPT !.cgifd = ZeroIfClosed(ctx.cgifd)].clientfd # 0
           /\ [ctx EXCEPT !.proxyfd = ZeroIfClosed(ctx.proxyfd)] \in Ctxs
           /\ [ctx EXCEPT !.proxyfd = ZeroIfClosed(ctx.proxyfd)].clientfd # 0
<1> DEFINE cgifd == ZeroIfClosed(ctx.cgifd)
           proxyfd == ZeroIfClosed(ctx.proxyfd)
           e1 == [ctx EXCEPT !.cgifd = cgifd]
           e2 == [ctx EXCEPT !.proxyfd = proxyfd]
<1>1. cgifd \in Fds \cup {0} /\ proxyfd \in Fds \cup {0}
  BY CtxFields DEF ZeroIfClosed
<1> HIDE DEF cgifd, proxyfd
<1>2. /\ e1 = Rec(ctx.type, ctx.selectfd, ctx.clientfd, cgifd, ctx.proxyfd,
                  ctx.items_cur, ctx.respbuf, ctx.conn)
      /\ e2 = Rec(ctx.type, ctx.selectfd, ctx.clientfd, ctx.cgifd, proxyfd,
                  ctx.items_cur, ctx.respbuf, ctx.conn)
  BY OneField
<1> HIDE DEF e1, e2
<1>3. e1 \in Ctxs /\ e2 \in Ctxs
  BY <1>1, <1>2, CtxFields, RecTyped
<1>4. e1.clientfd = ctx.clientfd /\ e2.clientfd = ctx.clientfd
  BY <1>2 DEF Rec
<1> QED BY <1>3, <1>4 DEF e1, e2, cgifd, proxyfd

\* The output of a CGI program has ended.
LEMMA TypeReadCgiOutput ==
    ASSUME TypeInv, NEW f \in Fds, ReadCgiOutput(f) PROVE TypeInv'
<1> DEFINE k == Matched(f)  ctx == ctxhead[k]
           e == [ctx EXCEPT !.cgifd = ZeroIfClosed(ctx.cgifd)]
<1>1. k # 0
  BY DEF ReadCgiOutput, ReadEventOf, TypeInv, PassTyped
<1>2. k \in Contexts /\ ctx \in Ctxs /\ ctx.clientfd # 0
  BY <1>1, MatchedIn, FdsAreNat DEF TypeInv
<1>3. /\ process_response(k, e, writefds) /\ readfds' \subseteq readfds
      /\ CloseFds({ctx.cgifd}, full) /\ UNCHANGED <<client, sent>>
      /\ Advance(f)
  BY DEF ReadCgiOutput
<1> HIDE DEF k, ctx
<1>4. e \in Ctxs /\ e.clientfd # 0
  BY <1>2, ZeroedTyped
<1> HIDE DEF e
<1>5. PassTyped'
  BY <1>3, AdvanceTyped DEF TypeInv
<1> QED BY <1>2, <1>3, <1>4, <1>5, AnswerInsteadTyped DEF TypeInv

\* The request body is written to whatever has the number of the CGI input.
LEMMA TypeWriteCgiInput ==
    ASSUME TypeInv, NEW f \in Fds, WriteCgiInput(f) PROVE TypeInv'
<1>1. CASE /\ lk_write_all(f, "Z_BLOCK")
           /\ full' \in FullAfter(f, "Z_BLOCK")
           /\ UNCHANGED <<ctxhead, writefds, fdtab, conn, cgi, upstream>>
  <2>1. UNCHANGED <<readfds, maxfd, client, sent>>
    BY DEF WriteCgiInput
  <2>2. full' \subseteq Sides \X Conns
    BY <1>1, FullAfterTyped DEF TypeInv
  <2>3. PeersTyped'
    BY <1>1, <2>1, <2>2 DEF TypeInv, PeersTyped
  <2>4. ContextsTyped' /\ SetsTyped' /\ TableTyped' /\ SentTyped'
    BY <1>1, <2>1, Untouched DEF TypeInv, fdsets
  <2>5. PassTyped'
    BY AdvanceTyped DEF WriteCgiInput, TypeInv
  <2> QED BY <2>3, <2>4, <2>5 DEF TypeInv
<1>2. ASSUME NEW z \in {"Z_EOF", "Z_ERR"}, lk_write_all(f, z),
             NEW buffers \in FullAfter(f, z),
             IF z = "Z_ERR" THEN CloseFds({f}, buffers)
             ELSE /\ full' = buffers \cup {ShutSide(f)}
                  /\ UNCHANGED <<fdtab, conn, cgi, upstream>>,
             writefds' = writefds \ {f},
             ctxhead' = remove_selectfd_context(ctxhead, f)
      PROVE  TypeInv'
  <2>1. UNCHANGED <<readfds, maxfd, client, sent>>
    BY DEF WriteCgiInput
  <2>2. ContextsTyped'
    BY <1>2, RemoveTyped DEF TypeInv
  <2>3. SetsTyped'
    BY <1>2, <2>1 DEF TypeInv, SetsTyped, MaxfdCoversSets
  <2>4. buffers \subseteq Sides \X Conns
    BY <1>2, FullAfterTyped DEF TypeInv
  <2>5. CASE z = "Z_ERR"
    BY <1>2, <2>1, <2>2, <2>3, <2>4, <2>5, CloseFdsTyped, Untouched, AdvanceTyped
       DEF TypeInv, WriteCgiInput
  <2>6. CASE z = "Z_EOF"
    <3>1. IsStream(f)
      BY <1>2, <2>6 DEF lk_write_all
    <3>2. ShutSide(f) \in Sides \X Conns
      BY <3>1 DEF ShutSide, IsStream, TypeInv, TableTyped, Sides
    <3>3. full' \subseteq Sides \X Conns /\ UNCHANGED <<fdtab, conn, cgi, upstream>>
      BY <1>2, <2>4, <2>6, <3>2
    <3>4. TableTyped' /\ PeersTyped'
      BY <2>1, <3>3 DEF TypeInv, PeersTyped, TableTyped
    <3>5. PassTyped' /\ SentTyped'
      BY AdvanceTyped, Untouched DEF WriteCgiInput, TypeInv
    <3> QED BY <2>2, <2>3, <3>4, <3>5 DEF TypeInv
  <2> QED BY <1>2, <2>5, <2>6
<1> QED BY <1>1, <1>2 DEF WriteCgiInput

\* One more buffer of the list is sent, or the list is left as it is.
LEMMA NextItemTyped ==
    ASSUME ContextsTyped, NEW k \in Contexts, ctxhead[k] \in Ctxs,
           ctxhead[k].clientfd # 0, ctxhead[k].items_cur < 2, NEW z,
           ctxhead' = NextItem(k, z)
    PROVE  ContextsTyped'
<1> DEFINE ctx == ctxhead[k]
           e == [ctx EXCEPT !.items_cur = @ + 1]
<1>1. CASE z = "Z_EOF"
  <2>1. e = Rec(ctx.type, ctx.selectfd, ctx.clientfd, ctx.cgifd, ctx.proxyfd,
                ctx.items_cur + 1, ctx.respbuf, ctx.conn)
    BY OneField
  <2>2. ctxhead' = [ctxhead EXCEPT ![k] = e]
    BY <1>1 DEF NextItem
  <2> HIDE DEF e
  <2>3. ctx.items_cur + 1 \in 0 .. 2
    BY CtxFields
  <2>4. e \in Ctxs
    BY <2>1, <2>3, CtxFields, RecTyped
  <2>5. e.clientfd # 0
    BY <2>1 DEF Rec
  <2> QED BY <2>2, <2>4, <2>5, ReplaceTyped
<1>2. CASE z # "Z_EOF"
  BY <1>2, Untouched DEF NextItem
<1> QED BY <1>1, <1>2

\* A reply is sent to the client, or its session ends.
LEMMA TypeWriteResponse ==
    ASSUME TypeInv, NEW f \in Fds, WriteResponse(f) PROVE TypeInv'
<1> DEFINE k == Matched(f)  ctx == ctxhead[k]
<1>1. k # 0
  BY DEF WriteResponse, WriteEventOf
<1>2. k \in Contexts /\ ctx \in Ctxs /\ ctx.clientfd # 0
  BY <1>1, MatchedIn, FdsAreNat DEF TypeInv
<1>3. PassTyped' /\ UNCHANGED client
  BY AdvanceTyped DEF WriteResponse, TypeInv
<1>4. CASE terminate_client_session(ctx, full) /\ UNCHANGED sent
  <2>1. full \subseteq Sides \X Conns
    BY DEF TypeInv, PeersTyped
  <2>2. ContextsTyped' /\ SetsTyped' /\ TableTyped' /\ PeersTyped'
    <3> HIDE DEF ctx
    <3> QED BY <1>3, <1>4, <2>1, TerminateTyped DEF TypeInv
  <2>3. SentTyped'
    BY <1>4, Untouched DEF TypeInv
  <2> QED BY <1>3, <2>2, <2>3 DEF TypeInv
<1>5. ASSUME NEW z \in {"Z_EOF", "Z_BLOCK"}, ctx.items_cur < 2,
             lk_write_all(f, z), full' \in FullAfter(f, z),
             ctxhead' = NextItem(k, z),
             sent' = IF z = "Z_EOF" THEN Deliver(f, ctx.conn, Part(ctx)) ELSE sent,
             UNCHANGED <<fdsets, fdtab, conn, cgi, upstream>>
      PROVE  TypeInv'
  <2>1. ContextsTyped'
    BY <1>2, <1>5, NextItemTyped DEF TypeInv
  <2>2. SetsTyped' /\ TableTyped'
    BY <1>5, Untouched DEF TypeInv
  <2>3. full' \subseteq Sides \X Conns
    BY <1>5, FullAfterTyped DEF TypeInv
  <2>4. PeersTyped'
    BY <1>3, <1>5, <2>3 DEF TypeInv, PeersTyped
  <2>5. SentTyped'
    <3>1. ctx.conn \in Conns /\ Part(ctx) \in {"head", "body"}
      BY <1>2, CtxFields DEF Part
    <3> HIDE DEF ctx
    <3>2. Deliver(f, ctx.conn, Part(ctx)) \in [Conns -> Seq(Conns \X
                {"head", "body", "forwarded", "forwarded all"})]
      BY <3>1, DeliverTyped DEF TypeInv
    <3> QED BY <1>5, <3>2 DEF TypeInv, SentTyped
  <2> QED BY <1>3, <2>1, <2>2, <2>4, <2>5 DEF TypeInv
<1> QED BY <1>4, <1>5 DEF WriteResponse

\* The request is sent upstream.
LEMMA TypeWriteProxyRequest ==
    ASSUME TypeInv, NEW f \in Fds, WriteProxyRequest(f) PROVE TypeInv'
<1> DEFINE k == Matched(f)  ctx == ctxhead[k]
           e == [ctx EXCEPT !.proxyfd = ZeroIfClosed(ctx.proxyfd)]
           piped == [ctx EXCEPT !.type = "CTX_PROXY_PIPE_RESP",
                                !.respbuf = FALSE]
<1>1. k # 0
  BY DEF WriteProxyRequest, WriteEventOf
<1>2. k \in Contexts /\ ctx \in Ctxs /\ ctx.clientfd # 0
  BY <1>1, MatchedIn, FdsAreNat DEF TypeInv
<1>3. PassTyped' /\ UNCHANGED <<client, sent>>
  BY AdvanceTyped DEF WriteProxyRequest, TypeInv
<1>4. SentTyped'
  BY <1>3, Untouched DEF TypeInv
<1>5. ASSUME NEW z \in {"Z_EOF", "Z_BLOCK"}, ctx.items_cur < 2,
             lk_write_all(f, z), full' \in FullAfter(f, z),
             ctxhead' = NextItem(k, z),
             UNCHANGED <<fdsets, fdtab, conn, cgi, upstream>>
      PROVE  TypeInv'
  <2>1. ContextsTyped'
    BY <1>2, <1>5, NextItemTyped DEF TypeInv
  <2>2. SetsTyped' /\ TableTyped'
    BY <1>5, Untouched DEF TypeInv
  <2>3. full' \subseteq Sides \X Conns
    BY <1>5, FullAfterTyped DEF TypeInv
  <2>4. PeersTyped'
    BY <1>3, <1>5, <2>3 DEF TypeInv, PeersTyped
  <2> QED BY <1>3, <1>4, <2>1, <2>2, <2>4 DEF TypeInv
<1>6. CASE /\ process_response(k, e, writefds \ {ctx.proxyfd})
           /\ CloseFds({ctx.proxyfd}, full) /\ UNCHANGED readfds
  <2>1. e \in Ctxs /\ e.clientfd # 0
    <3> HIDE DEF ctx
    <3> QED BY <1>2, ZeroedTyped
  <2> HIDE DEF k, ctx, e
  <2>2. ContextsTyped' /\ SetsTyped' /\ TableTyped' /\ PeersTyped' /\ SentTyped'
    BY <1>2, <1>3, <1>6, <2>1, AnswerInsteadTyped
  <2> QED BY <1>3, <2>2 DEF TypeInv
<1>7. CASE /\ ctxhead' = [ctxhead EXCEPT ![k] = piped]
           /\ writefds' = writefds \ {f} /\ readfds' = readfds \cup {f}
           /\ maxfd' = Larger(maxfd, f)
           /\ UNCHANGED <<fdtab, conn, cgi, upstream, full>>
  <2>1. piped \in Ctxs /\ piped.clientfd # 0
    <3>0. FALSE \in BOOLEAN /\ "CTX_PROXY_PIPE_RESP" \in CtxType
      BY DEF CtxType
    <3> HIDE DEF ctx
    <3>1. PICK empty \in BOOLEAN : piped =
            [ctx EXCEPT !.type = "CTX_PROXY_PIPE_RESP", !.respbuf = empty]
      BY <3>0
    <3> HIDE DEF piped
    <3>2. piped = Rec("CTX_PROXY_PIPE_RESP", ctx.selectfd, ctx.clientfd,
                      ctx.cgifd, ctx.proxyfd, ctx.items_cur, empty, ctx.conn)
      BY <1>2, <3>1, PipeFields
    <3>3. piped \in Ctxs
      BY <1>2, <3>0, <3>2, CtxFields, RecTyped
    <3>4. piped.clientfd = ctx.clientfd
      BY <3>2 DEF Rec
    <3> QED BY <1>2, <3>3, <3>4
  <2> HIDE DEF piped
  <2>2. ContextsTyped'
    BY <1>2, <1>7, <2>1, ReplaceTyped DEF TypeInv
  <2>3. SetsTyped'
    BY <1>7, SetsGrow DEF TypeInv
  <2>4. TableTyped' /\ PeersTyped'
    BY <1>3, <1>7, Untouched DEF TypeInv, peers
  <2> QED BY <1>3, <1>4, <2>2, <2>3, <2>4 DEF TypeInv
<1> QED BY <1>5, <1>6, <1>7 DEF WriteProxyRequest

\* A part or the end of an upstream's response is forwarded.
LEMMA TypePipeProxyResponse ==
    ASSUME TypeInv, NEW f \in Fds, PipeProxyResponse(f) PROVE TypeInv'
<1> DEFINE k == Matched(f)  ctx == ctxhead[k]
           u == fdtab[ctx.proxyfd].conn
           e == [ctx EXCEPT !.proxyfd = ZeroIfClosed(ctx.proxyfd)]
           waiting(z) == [ctx EXCEPT !.respbuf = (z = "Z_BLOCK")]
<1>1. k # 0
  BY DEF PipeProxyResponse, ReadEventOf
<1>2. k \in Contexts /\ ctx \in Ctxs /\ ctx.clientfd # 0 /\ ctx.clientfd \in Fds
  BY <1>1, MatchedIn, FdsAreNat DEF TypeInv
<1>3. PassTyped' /\ UNCHANGED client
  BY AdvanceTyped DEF PipeProxyResponse, TypeInv
<1>4. CASE /\ process_response(k, e, writefds)
           /\ readfds' = readfds \ {ctx.proxyfd}
           /\ CloseFds({ctx.proxyfd}, full) /\ UNCHANGED sent
  <2>1. e \in Ctxs /\ e.clientfd # 0
    <3> HIDE DEF ctx
    <3> QED BY <1>2, ZeroedTyped
  <2>2. readfds' \subseteq readfds
    BY <1>4
  <2> HIDE DEF k, ctx, e
  <2>3. ContextsTyped' /\ SetsTyped' /\ TableTyped' /\ PeersTyped' /\ SentTyped'
    BY <1>2, <1>3, <1>4, <2>1, <2>2, AnswerInsteadTyped
  <2> QED BY <1>3, <2>3 DEF TypeInv
<1>5. ASSUME NEW z \in {"Z_EOF", "Z_BLOCK"}, NEW unsent \in BOOLEAN,
             NEW state \in {"fin", "open"},
             unsent => lk_write_all(ctx.clientfd, z),
             full' \in IF unsent THEN FullAfter(ctx.clientfd, z) ELSE {full},
             ctxhead' = [ctxhead EXCEPT ![k] = waiting(z)],
             \/ sent' = sent
             \/ sent' = Deliver(ctx.clientfd, ctx.conn, "forwarded"),
             upstream' = [upstream EXCEPT ![u] = state],
             UNCHANGED <<fdsets, fdtab, conn, cgi>>
      PROVE  TypeInv'
  <2>1. ContextsTyped'
    <3> DEFINE w == waiting(z)
    <3>1. w = Rec(ctx.type, ctx.selectfd, ctx.clientfd, ctx.cgifd, ctx.proxyfd,
                  ctx.items_cur, (z = "Z_BLOCK"), ctx.conn)
      <4> HIDE DEF ctx
      <4> QED BY <1>2, OneField
    <3>2. ctxhead' = [ctxhead EXCEPT ![k] = w]
      BY <1>5
    <3>3. (z = "Z_BLOCK") \in BOOLEAN
      OBVIOUS
    <3> HIDE DEF k, ctx, w
    <3>4. w \in Ctxs
      BY <1>2, <3>1, <3>3, CtxFields, RecTyped
    <3>5. w.clientfd = ctx.clientfd
      BY <3>1 DEF Rec
    <3> QED BY <1>2, <3>2, <3>4, <3>5, ReplaceTyped DEF TypeInv
  <2> HIDE DEF k, ctx, u
  <2>2. SetsTyped' /\ TableTyped'
    BY <1>5, Untouched DEF TypeInv
  <2>3. full' \subseteq Sides \X Conns
    <3>1. CASE unsent
      BY <1>2, <1>5, <3>1, FullAfterTyped DEF TypeInv
    <3>2. CASE ~unsent
      BY <1>5, <3>2 DEF TypeInv, PeersTyped
    <3> QED BY <3>1, <3>2
  <2>4. PeersTyped'
    BY <1>3, <1>5, <2>3 DEF TypeInv, PeersTyped
  <2>5. SentTyped'
    <3>1. Deliver(ctx.clientfd, ctx.conn, "forwarded") \in [Conns -> Seq(Conns \X
                {"head", "body", "forwarded", "forwarded all"})]
      BY <1>2, CtxFields, DeliverTyped DEF TypeInv
    <3> QED BY <1>5, <3>1 DEF TypeInv, SentTyped
  <2> QED BY <1>3, <2>1, <2>2, <2>4, <2>5 DEF TypeInv
<1>6. CASE /\ sent' = Deliver(ctx.clientfd, ctx.conn, "forwarded all")
           /\ terminate_client_session(ctx, full)
  <2> HIDE DEF ctx
  <2>1. full \subseteq Sides \X Conns
    BY DEF TypeInv, PeersTyped
  <2>2. ContextsTyped' /\ SetsTyped' /\ TableTyped' /\ PeersTyped'
    BY <1>3, <1>6, <2>1, TerminateTyped DEF TypeInv
  <2>3. SentTyped'
    <3>1. Deliver(ctx.clientfd, ctx.conn, "forwarded all") \in
            [Conns -> Seq(Conns \X
                {"head", "body", "forwarded", "forwarded all"})]
      BY <1>2, CtxFields, DeliverTyped DEF TypeInv
    <3> QED BY <1>6, <3>1 DEF SentTyped
  <2> QED BY <1>3, <2>2, <2>3 DEF TypeInv
<1> QED BY <1>4, <1>5, <1>6 DEF PipeProxyResponse

-----------------------------------------------------------------------------
(***************************************************************************)
(* Type correctness.                                                        *)
(***************************************************************************)
\* TypeInv is inductive.
LEMMA TypeStep == TypeInv /\ [Next]_vars => TypeInv'
<1> SUFFICES ASSUME TypeInv, [Next]_vars PROVE TypeInv'
  OBVIOUS
<1>1. CASE Environment
  BY <1>1, TypeEnvironment
<1>2. CASE SelectReturns \/ SelectFails \/ AcceptFails
           \/ \E f \in Fds : UnknownType(f) \/ ReadCgiOutputWaits(f)
  BY <1>2, TypeSelect
<1>3. CASE \E c \in Conns : Accept(c)
  BY <1>3, TypeAccept
<1>4. ASSUME NEW f \in Fds, TerminateOrphan(f) PROVE TypeInv'
  BY <1>4, TypeTerminateOrphan
<1>5. ASSUME NEW f \in Fds, ReadRequestPart(f) \/ ReadRequest(f) PROVE TypeInv'
  BY <1>5, TypeReadRequest
<1>6. ASSUME NEW f \in Fds, ReadCgiOutput(f) PROVE TypeInv'
  BY <1>6, TypeReadCgiOutput
<1>7. ASSUME NEW f \in Fds, WriteCgiInput(f) PROVE TypeInv'
  BY <1>7, TypeWriteCgiInput
<1>8. ASSUME NEW f \in Fds, WriteResponse(f) PROVE TypeInv'
  BY <1>8, TypeWriteResponse
<1>9. ASSUME NEW f \in Fds, WriteProxyRequest(f) PROVE TypeInv'
  BY <1>9, TypeWriteProxyRequest
<1>10. ASSUME NEW f \in Fds, PipeProxyResponse(f) PROVE TypeInv'
  BY <1>10, TypePipeProxyResponse
<1>11. CASE UNCHANGED vars
  <2>1. UNCHANGED <<ctxhead, fdsets, fdtab, conn, peers, sent, cursets, pc>>
    BY <1>11 DEF vars
  <2>2. PassTyped'
    BY <2>1 DEF TypeInv, PassTyped, cursets, Scan, Matched
  <2> QED BY <2>1, <2>2, Untouched DEF TypeInv
<1> QED BY <1>1, <1>2, <1>3, <1>4, <1>5, <1>6, <1>7, <1>8, <1>9, <1>10, <1>11
        DEF Next, Server

\* Every state the server can reach is well typed: no handler ever computes a
\* descriptor, a context or a state of a peer outside of its type, whatever
\* the order of the events and the faults.
THEOREM TypeCorrect == Spec => []TypeOK
<1>1. TypeInv => TypeOK
  BY DEF TypeInv, TypeOK, ContextsTyped, SetsTyped, TableTyped, PassTyped,
         PeersTyped, SentTyped, Ctxs
<1> QED BY <1>1, TypeInit, TypeStep, PTL DEF Spec

\* select() is told about every descriptor that is selected: whatever handler
\* puts one in a set raises maxfd with it.
THEOREM MaxfdCorrect == Spec => []MaxfdCoversSets
<1>1. TypeInv => MaxfdCoversSets
  BY DEF TypeInv, SetsTyped
<1> QED BY <1>1, TypeInit, TypeStep, PTL DEF Spec
=============================================================================
