---------------------------- MODULE LKReplyProofs ----------------------------
(***************************************************************************)
(* Proofs about LKReply, for any sites, requests, files and programs.       *)
(* First, that the table of a response has each header once (IInv).  Then   *)
(* what the parser makes of lines, words and URIs, from which types follow; *)
(* and, from how a request got where it is (RouteInv) and how far the       *)
(* output of a program has been read (HeadInv), that the right file is      *)
(* served and the right body taken from the output.  Then what the lines of *)
(* a head say, where the words and names of a text are (At): a CGI program  *)
(* is told that of its request (EnvInv), and an upstream gets it            *)
(* (ForwardInv).  Last, the head of a reply, line by line (ReplyInv).       *)
(***************************************************************************)
EXTENDS LKReply, LKHostsProofs, FiniteSetTheorems

\* A table of headers, without duplicates.
IsTable(st) ==
    /\ \E K, V : st \in Seq([k : K, v : V])
    /\ Unique(st)

Fields == {"status", "headers", "head", "body"}

IsResponse(r) == DOMAIN r = Fields /\ IsTable(r.headers)

\* What the server itself says of the length of a body it sends.
OwnLength ==
    pc = "sent" =>
       IF req.method = <<"HEAD">> THEN resp.body = Empty
       ELSE resp.head[1] = HeaderLine(ContentLength, Number(Len(resp.body)))

\* The invariant: a response with a table of headers, and a length that is
\* right from when the head has been made.
IInv ==
    /\ IsResponse(resp)
    /\ "method" \in DOMAIN req
    /\ OwnLength

-----------------------------------------------------------------------------
(***************************************************************************)
(* What the handlers do to a response.                                      *)
(***************************************************************************)

\* Setting a key keeps a table.
LEMMA TableSet ==
    ASSUME NEW st, IsTable(st), NEW k, NEW v
    PROVE  IsTable(lk_stringtable_set(st, k, v))
<1>1. PICK K, V : st \in Seq([k : K, v : V])
  BY DEF IsTable
<1> DEFINE KK == K \cup {k}
           VV == V \cup {v}
           Items == [k : KK, v : VV]
<1>2. st \in Seq(Items)
  <2>1. \A i \in 1 .. Len(st) : st[i] \in [k : K, v : V]
    BY <1>1, ElementOfSeq
  <2>2. [k : K, v : V] \subseteq Items
    OBVIOUS
  <2> HIDE DEF Items
  <2>3. \A i \in 1 .. Len(st) : st[i] \in Items
    BY <2>1, <2>2
  <2>4. st = [i \in 1 .. Len(st) |-> st[i]] /\ Len(st) \in Nat
    BY <1>1
  <2>5. QED
    BY <2>3, <2>4
<1>3. k \in KK /\ v \in VV
  OBVIOUS
<1> HIDE DEF KK, VV
<1>4. /\ lk_stringtable_set(st, k, v) \in Seq([k : KK, v : VV])
      /\ Unique(lk_stringtable_set(st, k, v))
  BY <1>2, <1>3, SetKeepsUnique DEF IsTable
<1>5. QED
  BY <1>4 DEF IsTable

\* A header more, or a new value for one, is still a response.
LEMMA AddHeader ==
    ASSUME NEW r, IsResponse(r), NEW k, NEW v
    PROVE  IsResponse(lk_httpresponse_add_header(r, k, v))
<1> DEFINE st == lk_stringtable_set(r.headers, k, v)
<1>1. IsTable(st)
  BY TableSet DEF IsResponse
<1>2. lk_httpresponse_add_header(r, k, v) = [r EXCEPT !.headers = st]
  BY DEF lk_httpresponse_add_header
<1> HIDE DEF st
<1>3. QED
  BY <1>1, <1>2 DEF IsResponse, Fields

\* Only headers has to do with the headers.
LEMMA OtherField ==
    ASSUME NEW r, IsResponse(r), NEW f \in Fields \ {"headers"}, NEW v
    PROVE  IsResponse([r EXCEPT ![f] = v])
BY DEF IsResponse, Fields

LEMMA MessageIs ==
    ASSUME NEW r, IsResponse(r), NEW status, NEW type
    PROVE  IsResponse(Message(r, status, type))
<1> DEFINE with == lk_httpresponse_add_header(r, ContentType, type)
<1>1. IsResponse(with)
  BY AddHeader
<1>2. Message(r, status, type) =
         [with EXCEPT !.status = status, !.body = @ \o <<"message">>]
  BY DEF Message
<1> HIDE DEF with
<1>3. QED
  BY <1>1, <1>2 DEF IsResponse, Fields

LEMMA FileIs ==
    ASSUME NEW r, IsResponse(r)
    PROVE  IsResponse(WithFile(r)) /\ IsResponse(Typed(r))
<1>1. "body" \in Fields \ {"headers"}
  BY DEF Fields
<1>2. IsResponse(WithFile(r))
  BY <1>1, OtherField DEF WithFile
<1>3. IsResponse(Typed(r))
  BY AddHeader DEF Typed
<1>4. QED
  BY <1>2, <1>3

LEMMA CgiHeaderIs ==
    ASSUME NEW r, IsResponse(r), NEW s
    PROVE  IsResponse(parse_cgi_header_line(r, s))
<1> DEFINE h == Header(s)
           with == lk_httpresponse_add_header(r, h[1], h[2])
           n == IF h[2] # Empty /\ h[2][1] \in DOMAIN Numbers
                THEN Numbers[h[2][1]] ELSE 0
<1>1. IsResponse(with)
  BY AddHeader
<1>2. \/ parse_cgi_header_line(r, s) = r
      \/ parse_cgi_header_line(r, s) = with
      \/ parse_cgi_header_line(r, s) = [with EXCEPT !.status = n]
  BY DEF parse_cgi_header_line
<1>3. "status" \in Fields \ {"headers"}
  BY DEF Fields
<1> HIDE DEF with, n
<1>4. QED
  BY <1>1, <1>2, <1>3, OtherField

\* The lines of a head: the server's own length, each header, the empty line.
LEMMA HeadLinesAre ==
    ASSUME NEW X, NEW t \in Seq(X), NEW n
    PROVE  /\ DOMAIN HeadLines(t, n) = 1 .. Len(t) + 2 /\ Len(HeadLines(t, n)) = Len(t) + 2
           /\ HeadLines(t, n)[1] = HeaderLine(ContentLength, Number(n))
           /\ \A i \in 1 .. Len(t) :
                 HeadLines(t, n)[i + 1] = HeaderLine(t[i].k, t[i].v)
           /\ HeadLines(t, n)[Len(t) + 2] = <<"cr", LF>>
<1> DEFINE line(i) == HeaderLine(t[i].k, t[i].v)
           own == HeaderLine(ContentLength, Number(n))
           end == <<"cr", LF>>
           S == {line(i) : i \in 1 .. Len(t)} \cup {own, end}
           f == [i \in DOMAIN t |-> line(i)]
<1>1. DOMAIN t = 1 .. Len(t) /\ Len(t) \in Nat
  OBVIOUS
<1>2. own \in S /\ end \in S /\ \A i \in 1 .. Len(t) : line(i) \in S
  OBVIOUS
<1>3. HeadLines(t, n) = <<own>> \o f \o <<end>>
  BY DEF HeadLines
<1> HIDE DEF line, own, end, S
<1>4. f \in Seq(S) /\ Len(f) = Len(t) /\ \A i \in 1 .. Len(t) : f[i] = line(i)
  BY <1>1, <1>2
<1> HIDE DEF f
<1>5. <<own>> \in Seq(S) /\ <<end>> \in Seq(S)
  BY <1>2
<1> DEFINE g == <<own>> \o f
<1>6. /\ g \in Seq(S) /\ Len(g) = Len(t) + 1 /\ g[1] = own
      /\ \A i \in 1 .. Len(t) : g[i + 1] = line(i)
  BY <1>1, <1>4, <1>5
<1> HIDE DEF g
<1> DEFINE h == g \o <<end>>
<1>7. /\ h \in Seq(S) /\ Len(h) = Len(t) + 2 /\ h[1] = own /\ h[Len(t) + 2] = end
      /\ \A i \in 1 .. Len(t) : h[i + 1] = line(i)
  BY <1>1, <1>5, <1>6
<1>8. HeadLines(t, n) = h
  BY <1>3 DEF g
<1> HIDE DEF h
<1>9. QED
  BY <1>1, <1>7, <1>8 DEF line, own, end

\* process_response makes the head for the body the response has, and takes the
\* body off for HEAD only afterwards.
LEMMA Responds ==
    ASSUME NEW r, IsResponse(r), process_response(r), "method" \in DOMAIN req,
           "method" \in DOMAIN req', req'.method = req.method
    PROVE  IInv'
<1> DEFINE status == IF r.status = 0 THEN 200 ELSE r.status
           head == HeadLines(r.headers, Len(r.body))
           fin == [r EXCEPT !.status = status, !.head = head]
<1>1. fin = lk_httpresponse_finalize(r)
  BY DEF lk_httpresponse_finalize
<1>5. head[1] = HeaderLine(ContentLength, Number(Len(r.body)))
  <2>1. PICK K, V : r.headers \in Seq([k : K, v : V])
    BY DEF IsResponse, IsTable
  <2>2. QED
    BY <2>1, HeadLinesAre
<1> HIDE DEF status, head
<1>2. IsResponse(fin) /\ fin.head[1] = HeaderLine(ContentLength, Number(Len(fin.body)))
  BY <1>5 DEF IsResponse, Fields
<1> HIDE DEF fin
<1>3. CASE req.method = <<"HEAD">>
  <2>1. pc' = "sent" /\ resp' = [fin EXCEPT !.body = Empty]
    BY <1>1, <1>3 DEF process_response
  <2>2. IsResponse(resp') /\ resp'.body = Empty
    BY <1>2, <2>1 DEF IsResponse, Fields
  <2>3. QED
    BY <1>3, <2>1, <2>2 DEF IInv, OwnLength
<1>4. CASE req.method # <<"HEAD">>
  <2>1. pc' = "sent" /\ resp' = fin
    BY <1>1, <1>4 DEF process_response
  <2>2. QED
    BY <1>2, <1>4, <2>1 DEF IInv, OwnLength
<1>6. QED
  BY <1>3, <1>4

LEMMA ErrorResponds ==
    ASSUME IInv, NEW status, process_error_response(status),
           "method" \in DOMAIN req', req'.method = req.method
    PROVE  IInv'
<1>1. IsResponse(Message(resp, status, PlainText))
  BY MessageIs DEF IInv
<1>2. process_response(Message(resp, status, PlainText))
  BY DEF process_error_response
<1>3. QED
  BY <1>1, <1>2, Responds DEF IInv

\* A step before the reply is ready.
LEMMA NotYet ==
    ASSUME pc' # "sent", IsResponse(resp'), "method" \in DOMAIN req'
    PROVE  IInv'
BY DEF IInv, OwnLength

-----------------------------------------------------------------------------
(***************************************************************************)
(* The actions.                                                             *)
(***************************************************************************)

\* The parser makes a request with a method, if only an empty one.
LEMMA ParsedHasMethod ==
    ASSUME NEW lines
    PROVE  "method" \in DOMAIN Parsed(lines)
<1>1. "method" \in DOMAIN lk_httprequest_new
  BY DEF lk_httprequest_new
<1>2. \A r : DOMAIN parse_uri(r) = DOMAIN r
  BY DEF parse_uri
<1>3. \A r, line : DOMAIN parse_request_line(r, line) = DOMAIN r
  BY <1>2 DEF parse_request_line
<1>4. QED
  BY <1>1, <1>3 DEF Parsed

LEMMA NewResponse == IsResponse(lk_httpresponse_new)
<1>1. << >> \in Seq([k : {}, v : {}]) /\ DOMAIN << >> = {}
  OBVIOUS
<1>2. IsTable(<< >>)
  BY <1>1 DEF IsTable, Unique
<1>3. QED
  BY <1>2 DEF IsResponse, Fields, lk_httpresponse_new

LEMMA RequestStep ==
    ASSUME IInv, ReadRequest \/ SessionEnds
    PROVE  IInv'
<1>1. CASE ReadRequest
  <2>1. pc' # "sent" /\ resp' = resp
    BY <1>1 DEF ReadRequest
  <2>2. "method" \in DOMAIN req'
    BY <1>1, ParsedHasMethod DEF ReadRequest
  <2>3. QED
    BY <2>1, <2>2, NotYet DEF IInv
<1>2. CASE SessionEnds
  <2>1. pc' # "sent" /\ resp' = lk_httpresponse_new /\ req' = lk_httprequest_new
    BY <1>2 DEF SessionEnds
  <2>2. "method" \in DOMAIN req'
    BY <2>1 DEF lk_httprequest_new
  <2>3. QED
    BY <2>1, <2>2, NewResponse, NotYet
<1>3. QED
  BY <1>1, <1>2

LEMMA RouteStep ==
    ASSUME IInv, NoHost \/ Proxy \/ NoHomedir \/ ServeCgi \/ ToFiles
    PROVE  IInv'
<1>1. CASE NoHost
  BY <1>1, ErrorResponds DEF NoHost, IInv
<1>2. CASE Proxy
  <2>1. CASE process_error_response(500) /\ UNCHANGED req
    BY <2>1, ErrorResponds DEF IInv
  <2>2. CASE pc' = "proxy" /\ req' = lk_httprequest_finalize(req) /\ UNCHANGED resp
    <3>1. "method" \in DOMAIN req'
      BY <2>2 DEF lk_httprequest_finalize, HeadOf, IInv
    <3>2. QED
      BY <2>2, <3>1, NotYet DEF IInv
  <2>3. QED
    BY <1>2, <2>1, <2>2 DEF Proxy
<1>3. CASE NoHomedir
  BY <1>3, ErrorResponds DEF NoHomedir, IInv
<1>4. Local => "method" \in DOMAIN req' /\ req'.method = req.method
  BY DEF Local, IInv
<1>5. CASE ServeCgi
  <2>1. Local
    BY <1>5 DEF ServeCgi
  <2>2. CASE process_error_response(404) \/ process_error_response(500)
    BY <1>4, <2>1, <2>2, ErrorResponds
  <2>3. CASE pc' = "cgi" /\ UNCHANGED resp
    BY <1>4, <2>1, <2>3, NotYet DEF IInv
  <2>4. QED
    BY <1>5, <2>2, <2>3 DEF ServeCgi
<1>6. CASE ToFiles
  BY <1>4, <1>6, NotYet DEF ToFiles, IInv
<1>7. QED
  BY <1>1, <1>2, <1>3, <1>5, <1>6

LEMMA FilesStep ==
    ASSUME IInv, GetFile \/ OtherMethod
    PROVE  IInv'
<1>1. CASE GetFile
  <2> DEFINE r == Typed(WithFile(resp))
             answer == IF FileOf(req.path) = Empty THEN Message(r, 404, PlainText) ELSE r
  <2>1. IsResponse(r)
    BY FileIs DEF IInv
  <2>2. process_response(answer) /\ req' = [req EXCEPT !.path = Tried(@)]
    BY <1>1 DEF GetFile
  <2> HIDE DEF r
  <2>3. IsResponse(answer)
    BY <2>1, MessageIs
  <2>4. "method" \in DOMAIN req' /\ req'.method = req.method
    BY <2>2 DEF IInv
  <2> HIDE DEF answer
  <2>5. QED
    BY <2>2, <2>3, <2>4, Responds DEF IInv
<1>2. CASE OtherMethod
  <2> DEFINE status == IF req.method = <<"POST">> THEN 0 ELSE 501
  <2>1. process_response(Message(resp, status, Html)) /\ UNCHANGED req
    BY <1>2 DEF OtherMethod
  <2>2. IsResponse(Message(resp, status, Html))
    BY MessageIs DEF IInv
  <2>3. QED
    BY <2>1, <2>2, Responds DEF IInv
<1>3. QED
  BY <1>1, <1>2

LEMMA CgiStep ==
    ASSUME IInv, CgiFails \/ CgiEnds \/ CgiHeaderLine \/ CgiEmptyLine \/ CgiNoEmptyLine
    PROVE  IInv'
<1>1. "body" \in Fields \ {"headers"}
  BY DEF Fields
<1>2. CASE CgiFails
  BY <1>2, ErrorResponds DEF CgiFails, IInv
<1>3. CASE CgiEnds
  BY <1>3, NotYet DEF CgiEnds, IInv
<1>4. CASE CgiHeaderLine
  <2>1. pc = "cgihead" /\ UNCHANGED <<req, pc>>
    BY <1>4 DEF CgiHeaderLine
  <2>2. IsResponse(resp')
    BY <1>4, CgiHeaderIs DEF CgiHeaderLine, IInv
  <2>3. QED
    BY <2>1, <2>2, NotYet DEF IInv
<1>5. CASE CgiEmptyLine
  <2> DEFINE body == SubSeq(output, cur' + 1, Len(output))
  <2>1. process_response([resp EXCEPT !.body = body]) /\ UNCHANGED req
    BY <1>5 DEF CgiEmptyLine
  <2> HIDE DEF body
  <2>2. IsResponse([resp EXCEPT !.body = body])
    BY <1>1, OtherField DEF IInv
  <2>3. QED
    BY <2>1, <2>2, Responds DEF IInv
<1>6. CASE CgiNoEmptyLine
  <2> DEFINE with == lk_httpresponse_add_header(resp, ContentType, PlainText)
             r == IF lk_stringtable_get(resp.headers, ContentType) # NULL THEN resp
                  ELSE [with EXCEPT !.body = output]
  <2>1. process_response(r) /\ UNCHANGED req
    BY <1>6 DEF CgiNoEmptyLine
  <2>2. IsResponse(with)
    BY AddHeader DEF IInv
  <2> HIDE DEF with
  <2>3. IsResponse(r)
    BY <1>1, <2>2, OtherField DEF IInv
  <2> HIDE DEF r
  <2>4. QED
    BY <2>1, <2>3, Responds DEF IInv
<1>7. QED
  BY <1>2, <1>3, <1>4, <1>5, <1>6

LEMMA InitIInv ==
    ASSUME Init
    PROVE  IInv
<1>1. req = lk_httprequest_new /\ pc = "idle" /\ resp = lk_httpresponse_new
  BY DEF Init
<1>2. "method" \in DOMAIN req
  BY <1>1 DEF lk_httprequest_new
<1>3. QED
  BY <1>1, <1>2, NewResponse DEF IInv, OwnLength

LEMMA NextIInv ==
    ASSUME IInv, [Next]_vars
    PROVE  IInv'
<1>1. CASE Next
  BY <1>1, RequestStep, RouteStep, FilesStep, CgiStep DEF Next
<1>2. CASE UNCHANGED vars
  BY <1>2 DEF vars, IInv, OwnLength
<1>3. QED
  BY <1>1, <1>2

-----------------------------------------------------------------------------
\* The invariant holds for every sequence of requests.
THEOREM Invariant == Spec => []IInv
BY InitIInv, NextIInv, PTL DEF Spec

-----------------------------------------------------------------------------
(***************************************************************************)
(* Lines and words, over any set of bytes: what is cut out of a line is     *)
(* made of its bytes.                                                       *)
(***************************************************************************)

\* Only line ends are chomped off.
LEMMA ChompIs ==
    ASSUME NEW S, NEW s \in Seq(S)
    PROVE  \E n \in 0 .. Len(s) :
              /\ lk_chomp(s) = SubSeq(s, 1, n)
              /\ \A i \in 1 .. Len(s) : i > n => s[i] \in {LF, "cr"}
              /\ n # 0 => s[n] \notin {LF, "cr"}
<1> DEFINE I == {i \in 1 .. Len(s) : s[i] \notin {LF, "cr"}}
           n == IF I # {} THEN Max(I) ELSE 0
<1>1. lk_chomp(s) = SubSeq(s, 1, n)
  BY DEF lk_chomp, SelectLastInSeq
<1>2. Len(s) \in Nat /\ I \subseteq Nat /\ \A i \in I : i <= Len(s) /\ i \in 1 .. Len(s)
  OBVIOUS
<1>3. I # {} => n \in I /\ \A i \in I : i <= n
  <2> HIDE DEF I
  <2>1. SUFFICES ASSUME I # {}
                 PROVE  n \in I /\ \A i \in I : i <= n
    OBVIOUS
  <2>2. PICK m \in I : \A i \in I : i <= m
    BY <1>2, <2>1, GreatestOf
  <2>3. \A i \in I : m >= i
    BY <1>2, <2>2
  <2>4. n \in I /\ \A i \in I : n >= i
    BY <2>1, <2>3 DEF Max
  <2>5. QED
    BY <1>2, <2>4
<1>4. n \in 0 .. Len(s) /\ \A i \in 1 .. Len(s) : i > n => i \notin I
  <2>1. CASE I = {}
    BY <1>2, <2>1
  <2>2. CASE I # {}
    <3>1. n \in I /\ n \in 1 .. Len(s) /\ \A i \in I : i <= n /\ i \in Nat
      BY <1>2, <1>3, <2>2
    <3> HIDE DEF I, n
    <3>2. ASSUME NEW i \in 1 .. Len(s), i > n
          PROVE  i \notin I
      <4>1. i \in Nat /\ n \in Nat
        BY <3>1
      <4>2. QED
        BY <3>1, <3>2, <4>1
    <3>3. QED
      BY <1>2, <3>1, <3>2
  <2>3. QED
    BY <2>1, <2>2
<1>5. n # 0 => s[n] \notin {LF, "cr"}
  <2>1. \A i \in I : s[i] \notin {LF, "cr"}
    OBVIOUS
  <2> HIDE DEF I
  <2>2. QED
    BY <1>3, <2>1
<1>6. QED
  BY <1>1, <1>4, <1>5

LEMMA ChompOf ==
    ASSUME NEW S, NEW s \in Seq(S)
    PROVE  lk_chomp(s) \in Seq(S)
<1>1. PICK n \in 0 .. Len(s) : lk_chomp(s) = SubSeq(s, 1, n)
  BY ChompIs
<1>2. 1 \in Nat \ {0}
  OBVIOUS
<1>3. QED
  BY <1>1, <1>2, PartIs

\* A line is empty before and after.
LEMMA ChompedEmpty ==
    ASSUME NEW S, NEW s \in Seq(S)
    PROVE  is_empty_line(lk_chomp(s)) <=> is_empty_line(s)
<1>1. PICK n \in 0 .. Len(s) :
         /\ lk_chomp(s) = SubSeq(s, 1, n)
         /\ \A i \in 1 .. Len(s) : i > n => s[i] \in {LF, "cr"}
  BY ChompIs
<1> DEFINE c == lk_chomp(s)
<1>2. Len(s) \in Nat /\ n \in Nat /\ DOMAIN s = 1 .. Len(s)
  OBVIOUS
<1>3. c \in Seq(S) /\ Len(c) = n /\ \A i \in 1 .. n : c[i] = s[i]
  <2>1. 1 \in Nat \ {0}
    OBVIOUS
  <2>2. /\ c \in Seq(S) /\ Len(c) = IF 1 <= n THEN n - 1 + 1 ELSE 0
        /\ \A i \in 1 .. n - 1 + 1 : c[i] = s[1 + i - 1]
    BY <1>1, <2>1, PartIs
  <2> HIDE DEF c
  <2>3. QED
    BY <1>2, <2>2
<1>4. is_empty_line(c) <=> \A i \in 1 .. n : c[i] \in Blanks
  BY <1>3 DEF is_empty_line, ToSet
<1>5. is_empty_line(s) <=> \A i \in 1 .. Len(s) : s[i] \in Blanks
  BY <1>2 DEF is_empty_line, ToSet
<1>6. \A i \in 1 .. Len(s) : i > n => s[i] \in Blanks
  BY <1>1 DEF Blanks
<1> HIDE DEF c
<1>7. QED
  BY <1>2, <1>3, <1>4, <1>5, <1>6 DEF c

LEMMA SkipOf ==
    ASSUME NEW S, NEW s \in Seq(S), NEW bytes
    PROVE  Skip(s, bytes) \in Seq(S)
<1> DEFINE I == {i \in 1 .. Len(s) : s[i] \notin bytes}
<1>1. Skip(s, bytes) = LET n == IF I # {} THEN Min(I) ELSE 0 IN
                       IF n = 0 THEN Empty ELSE SubSeq(s, n, Len(s))
  BY DEF Skip, SelectInSeq, From
<1>2. Len(s) \in Nat /\ I \subseteq Nat \ {0}
  OBVIOUS
<1>3. CASE I = {}
  BY <1>1, <1>3 DEF Empty
<1>4. CASE I # {}
  <2> HIDE DEF I
  <2>1. Min(I) \in Nat \ {0}
    BY <1>2, <1>4, LeastOf
  <2>2. SubSeq(s, Min(I), Len(s)) \in Seq(S)
    BY <1>2, <2>1, PartIs
  <2>3. QED
    BY <1>1, <1>4, <2>1, <2>2
<1>5. QED
  BY <1>3, <1>4

LEMMA UpToOf ==
    ASSUME NEW S, NEW s \in Seq(S), NEW b
    PROVE  UpTo(s, b) \in Seq(S)
<1> DEFINE I == {i \in 1 .. Len(s) : s[i] = b}
<1>1. Len(s) \in Nat /\ I \subseteq Nat /\ DOMAIN s = 1 .. Len(s)
      /\ \A i \in I : i \in 1 .. Len(s)
  OBVIOUS
<1>2. CASE b \in ToSet(s)
  <2>1. UpTo(s, b) = SubSeq(s, 1, (IF I # {} THEN Min(I) ELSE 0) - 1)
    BY <1>2 DEF UpTo, SelectInSeq
  <2>2. I # {}
    BY <1>1, <1>2 DEF ToSet
  <2> HIDE DEF I
  <2>3. Min(I) \in I
    BY <1>1, <2>2, LeastOf
  <2>4. Min(I) - 1 \in 0 .. Len(s) /\ 1 \in Nat \ {0}
    <3>1. Min(I) \in 1 .. Len(s)
      BY <1>1, <2>3
    <3>2. QED
      BY <1>1, <3>1
  <2>5. SubSeq(s, 1, Min(I) - 1) \in Seq(S)
    BY <2>4, PartIs
  <2>6. QED
    BY <2>1, <2>2, <2>5
<1>3. CASE b \notin ToSet(s)
  BY <1>3 DEF UpTo
<1>4. QED
  BY <1>2, <1>3

LEMMA TokenOf ==
    ASSUME NEW S, NEW s \in Seq(S), NEW b
    PROVE  Token(s, b) \in Seq(S) /\ AfterToken(s, b) \in Seq(S)
<1> DEFINE from == Skip(s, {b})
           n == Len(Token(s, b)) + 1
<1>1. from \in Seq(S)
  BY SkipOf
<1>2. Token(s, b) \in Seq(S)
  BY <1>1, UpToOf DEF Token
<1>3. n \in Nat \ {0} /\ Len(from) \in 0 .. Len(from)
  BY <1>1, <1>2
<1>4. AfterToken(s, b) = SubSeq(from, n, Len(from))
  BY DEF AfterToken, From
<1> HIDE DEF from, n
<1>5. SubSeq(from, n, Len(from)) \in Seq(S)
  BY <1>1, <1>3, PartIs
<1>6. QED
  BY <1>2, <1>4, <1>5

\* A header line gives no header, or one with a name and a value out of it.
LEMMA HeaderIn ==
    ASSUME NEW S, NEW s, lk_chomp(s) \in Seq(S)
    PROVE  \/ Header(s) = << >>
           \/ /\ Header(s) # << >>
              /\ Header(s)[1] \in Seq(S) /\ Header(s)[2] \in Seq(S)
<1> DEFINE c == lk_chomp(s)
           k == Token(c, ":")
           v == Skip(Token(AfterToken(c, ":"), ":"), {"sp"})
<1>1. c \in Seq(S)
  OBVIOUS
<1> HIDE DEF c
<1>2. k \in Seq(S) /\ AfterToken(c, ":") \in Seq(S)
  BY <1>1, TokenOf
<1>3. v \in Seq(S)
  BY <1>2, TokenOf, SkipOf
<1>4. Header(s) = IF k = Empty THEN << >> ELSE <<k, v>>
  BY DEF Header, c
<1> HIDE DEF k, v
<1>5. <<k, v>> # << >> /\ <<k, v>>[1] = k /\ <<k, v>>[2] = v
  OBVIOUS
<1>6. QED
  BY <1>2, <1>3, <1>4, <1>5

LEMMA HeaderOf ==
    ASSUME NEW S, NEW s \in Seq(S)
    PROVE  \/ Header(s) = << >>
           \/ /\ Header(s) # << >>
              /\ Header(s)[1] \in Seq(S) /\ Header(s)[2] \in Seq(S)
BY ChompOf, HeaderIn

-----------------------------------------------------------------------------
(***************************************************************************)
(* The headers of a request, line by line.                                  *)
(***************************************************************************)

\* What holds of 1 and, with i - 1, of i, holds up to any n.
LEMMA Along ==
    ASSUME NEW n \in Nat, NEW G, 1 \in G, \A i \in 2 .. n : i - 1 \in G => i \in G
    PROVE  \A i \in 1 .. n : i \in G
<1> DEFINE D == {i \in 1 .. n : i \notin G}
<1>1. SUFFICES ASSUME D # {} PROVE FALSE
  OBVIOUS
<1>2. D \subseteq Nat /\ \A i \in D : i \in 1 .. n /\ i \notin G
  OBVIOUS
<1>3. \A i \in 1 .. n : i \in G \/ i \in D
  OBVIOUS
<1> DEFINE m == Min(D)
<1> HIDE DEF D
<1>4. m \in D /\ \A i \in D : m <= i
  BY <1>1, <1>2, LeastOf
<1> HIDE DEF m
<1>5. m \in 2 .. n
  BY <1>2, <1>4
<1>6. m - 1 \in 1 .. n /\ ~(m <= m - 1)
  BY <1>5
<1>7. m - 1 \in G
  BY <1>3, <1>4, <1>6
<1>8. QED
  BY <1>2, <1>4, <1>5, <1>7

HeaderTables == Seq([k : Text, v : Text])

LEMMA HeaderAdded ==
    ASSUME NEW t \in HeaderTables, NEW l \in Text
    PROVE  parse_header_line(t, l) \in HeaderTables
<1>1. l \in Seq(Pieces)
  BY DEF Text
<1>2. CASE Header(l) = << >>
  BY <1>2 DEF parse_header_line
<1>3. CASE Header(l) # << >>
  <2>1. Header(l)[1] \in Text /\ Header(l)[2] \in Text
    BY <1>1, <1>3, HeaderOf DEF Text
  <2>2. lk_stringtable_set(t, Header(l)[1], Header(l)[2]) \in HeaderTables
    BY <2>1, SetKeepsUnique DEF HeaderTables
  <2>3. QED
    BY <1>3, <2>2 DEF parse_header_line
<1>4. QED
  BY <1>2, <1>3

\* There are such tables: that of a line is made from that of the line before.
LEMMA HeadersBy ==
    ASSUME NEW lines \in Seq(Text), lines # << >>
    PROVE  \E f :
              /\ Headers(lines) = f[Len(lines)] /\ f[1] = << >>
              /\ \A n \in 2 .. Len(lines) :
                    f[n] = IF is_empty_line(lines[n]) THEN f[n - 1]
                           ELSE parse_header_line(f[n - 1], lines[n])
<1> DEFINE N == Len(lines)
           Step(g, n) == IF n = 1 THEN << >>
                         ELSE IF is_empty_line(lines[n]) THEN g[n - 1]
                         ELSE parse_header_line(g[n - 1], lines[n])
           f == CHOOSE f : f = [n \in 1 .. N |-> Step(f, n)]
           OK(g, m) == DOMAIN g = 1 .. m /\ \A n \in 1 .. m : g[n] = Step(g, n)
           G == {m \in 1 .. N : \E g : OK(g, m)}
<1>1. Headers(lines) = f[N]
  BY DEF Headers
<1>2. N \in Nat /\ N >= 1 /\ \A n \in 1 .. N : lines[n] \in Text
  <2>1. N \in Nat \ {0}
    BY EmptySeq
  <2>2. QED
    BY <2>1, ElementOfSeq
<1> HIDE DEF f
<1>3. \A g : Step(g, 1) = << >>
  OBVIOUS
<1>4. \A g, h, n : n # 1 /\ g[n - 1] = h[n - 1] => Step(g, n) = Step(h, n)
  OBVIOUS
<1>5. \A g, n : n # 1 => Step(g, n) = IF is_empty_line(lines[n]) THEN g[n - 1]
                                      ELSE parse_header_line(g[n - 1], lines[n])
  OBVIOUS
<1> HIDE DEF Step, N
<1>6. 1 \in G
  <2> DEFINE g == [n \in 1 .. 1 |-> << >>]
  <2>1. OK(g, 1)
    BY <1>3
  <2>2. QED
    BY <1>2, <2>1
<1>7. ASSUME NEW m \in 2 .. N, m - 1 \in G
      PROVE  m \in G
  <2>1. PICK g : OK(g, m - 1)
    BY <1>7
  <2> DEFINE h == [n \in 1 .. m |-> IF n = m THEN Step(g, m) ELSE g[n]]
  <2>2. m \in Nat /\ m # 1 /\ m - 1 \in 1 .. m - 1 /\ m - 1 # m
    BY <1>2
  <2>3. DOMAIN h = 1 .. m /\ h[m] = Step(g, m) /\ \A n \in 1 .. m - 1 : h[n] = g[n]
    BY <1>2, <2>2
  <2> HIDE DEF h
  <2>4. h[m] = Step(h, m)
    BY <1>4, <2>2, <2>3
  <2>5. ASSUME NEW n \in 1 .. m - 1
        PROVE  h[n] = Step(h, n)
    <3>1. CASE n = 1
      BY <1>3, <2>1, <2>3, <3>1
    <3>2. CASE n # 1
      <4>1. n - 1 \in 1 .. m - 1
        BY <2>2, <3>2
      <4>2. QED
        BY <1>4, <2>1, <2>3, <3>2, <4>1
    <3>3. QED
      BY <3>1, <3>2
  <2>6. \A n \in 1 .. m : n = m \/ n \in 1 .. m - 1
    BY <2>2
  <2>7. OK(h, m)
    BY <2>3, <2>4, <2>5, <2>6
  <2>8. m \in 1 .. N
    BY <1>2
  <2>9. QED
    BY <2>7, <2>8
<1>8. N \in G
  <2> HIDE DEF G
  <2>1. \A i \in 1 .. N : i \in G
    BY <1>2, <1>6, <1>7, Along
  <2>2. QED
    BY <1>2, <2>1
<1>9. \E g : g = [n \in 1 .. N |-> Step(g, n)]
  <2>1. PICK g : OK(g, N)
    BY <1>8
  <2>2. PICK h : h = [n \in 1 .. N |-> Step(g, n)]
    OBVIOUS
  <2>3. \A n \in 1 .. N : h[n] = g[n]
    BY <2>1, <2>2
  <2>4. \A n \in 1 .. N : Step(h, n) = Step(g, n)
    <3>1. ASSUME NEW n \in 1 .. N
          PROVE  Step(h, n) = Step(g, n)
      <4>1. CASE n = 1
        BY <1>3, <4>1
      <4>2. CASE n # 1
        <5>1. n - 1 \in 1 .. N
          BY <1>2, <4>2
        <5>2. QED
          BY <1>4, <2>3, <4>2, <5>1
      <4>3. QED
        BY <4>1, <4>2
    <3>2. QED
      BY <3>1
  <2>5. h = [n \in 1 .. N |-> Step(h, n)]
    BY <2>2, <2>4
  <2>6. QED
    BY <2>5
<1>10. f = [n \in 1 .. N |-> Step(f, n)]
  BY <1>9 DEF f
<1>11. \A n \in 1 .. N : f[n] = Step(f, n)
  BY <1>10
<1>12. f[1] = << >>
  BY <1>2, <1>3, <1>11
<1>13. \A n \in 2 .. N : n \in 1 .. N /\ n # 1
  BY <1>2
<1>14. \A n \in 2 .. N : f[n] = IF is_empty_line(lines[n]) THEN f[n - 1]
                                ELSE parse_header_line(f[n - 1], lines[n])
  BY <1>5, <1>11, <1>13
<1>15. QED
  BY <1>1, <1>12, <1>14 DEF N

LEMMA HeadersTyped ==
    ASSUME NEW lines \in Seq(Text), lines # << >>, NEW f, f[1] = << >>,
           \A n \in 2 .. Len(lines) :
              f[n] = IF is_empty_line(lines[n]) THEN f[n - 1]
                     ELSE parse_header_line(f[n - 1], lines[n])
    PROVE  \A n \in 1 .. Len(lines) : f[n] \in HeaderTables
<1> DEFINE N == Len(lines)
           T == {n \in 1 .. N : f[n] \in HeaderTables}
<1>1. N \in Nat /\ N >= 1 /\ \A n \in 1 .. N : lines[n] \in Text
  <2>1. N \in Nat \ {0}
    BY EmptySeq
  <2>2. QED
    BY <2>1, ElementOfSeq
<1> HIDE DEF N
<1>2. 1 \in T
  <2>1. 1 \in 1 .. N
    BY <1>1
  <2>2. f[1] \in HeaderTables
    BY EmptySeq DEF HeaderTables
  <2>3. QED
    BY <2>1, <2>2
<1>3. ASSUME NEW n \in 2 .. N, n - 1 \in T
      PROVE  n \in T
  <2>1. n \in 1 .. N /\ n # 1
    BY <1>1
  <2>2. f[n - 1] \in HeaderTables
    BY <1>3
  <2>3. parse_header_line(f[n - 1], lines[n]) \in HeaderTables
    BY <1>1, <2>1, <2>2, HeaderAdded
  <2>4. f[n] \in HeaderTables
    BY <1>3, <2>2, <2>3 DEF N
  <2>5. QED
    BY <2>1, <2>4
<1>4. \A n \in 1 .. N : n \in T
  <2> HIDE DEF T
  <2>1. QED
    BY <1>1, <1>2, <1>3, Along
<1>5. QED
  BY <1>4 DEF N

LEMMA HeadersAre ==
    ASSUME NEW lines \in Seq(Text), lines # << >>
    PROVE  Headers(lines) \in HeaderTables
<1>1. PICK f :
         /\ Headers(lines) = f[Len(lines)] /\ f[1] = << >>
         /\ \A n \in 2 .. Len(lines) :
               f[n] = IF is_empty_line(lines[n]) THEN f[n - 1]
                      ELSE parse_header_line(f[n - 1], lines[n])
  BY HeadersBy
<1>2. Len(lines) \in 1 .. Len(lines)
  <2>1. Len(lines) \in Nat \ {0}
    BY EmptySeq
  <2>2. QED
    BY <2>1
<1>3. \A n \in 1 .. Len(lines) : f[n] \in HeaderTables
  BY <1>1, HeadersTyped
<1>4. QED
  BY <1>1, <1>2, <1>3

-----------------------------------------------------------------------------
(***************************************************************************)
(* Where lk_string_split cuts a text, and what it makes of a URI.           *)
(***************************************************************************)

Cuts(s, d) == {i \in DOMAIN s : s[i] = d} \cup {Len(s) + 1}
UpToCut(s, d, i) == {j \in Cuts(s, d) : j <= i}
CutOf(s, d, n) == CHOOSE i \in Cuts(s, d) : Cardinality(UpToCut(s, d, i)) = n

LEMMA CutsAre ==
    ASSUME NEW S, NEW s \in Seq(S), NEW d
    PROVE  /\ IsFiniteSet(Cuts(s, d)) /\ Cardinality(Cuts(s, d)) \in Nat \ {0}
           /\ Len(s) \in Nat /\ Len(s) + 1 \in Cuts(s, d)
           /\ \A i \in Cuts(s, d) :
                 /\ i \in 1 .. Len(s) + 1
                 /\ i # Len(s) + 1 => i \in 1 .. Len(s) /\ s[i] = d
           /\ \A i \in 1 .. Len(s) : s[i] = d => i \in Cuts(s, d)
<1> DEFINE C == Cuts(s, d)
<1>1. Len(s) \in Nat /\ DOMAIN s = 1 .. Len(s)
  OBVIOUS
<1>2. /\ Len(s) + 1 \in C /\ C \subseteq 1 .. Len(s) + 1
      /\ \A i \in C : i # Len(s) + 1 => i \in 1 .. Len(s) /\ s[i] = d
      /\ \A i \in 1 .. Len(s) : s[i] = d => i \in C
  BY <1>1 DEF Cuts
<1> HIDE DEF C
<1>3. IsFiniteSet(1 .. Len(s) + 1)
  <2>1. 1 \in Int /\ Len(s) + 1 \in Int
    BY <1>1
  <2>2. QED
    BY <2>1, FS_Interval
<1>4. IsFiniteSet(C)
  BY <1>2, <1>3, FS_Subset
<1>5. Cardinality(C) \in Nat /\ Cardinality(C) # 0
  BY <1>2, <1>4, FS_CardinalityType, FS_EmptySet
<1>6. QED
  BY <1>1, <1>2, <1>4, <1>5 DEF C

LEMMA UpToCutIs ==
    ASSUME NEW S, NEW s \in Seq(S), NEW d, NEW i \in Cuts(s, d)
    PROVE  /\ IsFiniteSet(UpToCut(s, d, i)) /\ i \in UpToCut(s, d, i)
           /\ \A j \in Cuts(s, d) : j \in UpToCut(s, d, i) <=> j <= i
           /\ UpToCut(s, d, i) \subseteq Cuts(s, d)
<1>1. IsFiniteSet(Cuts(s, d)) /\ i \in Nat
  BY CutsAre
<1>2. UpToCut(s, d, i) \subseteq Cuts(s, d)
  BY DEF UpToCut
<1>3. IsFiniteSet(UpToCut(s, d, i))
  BY <1>1, <1>2, FS_Subset
<1>4. QED
  BY <1>1, <1>2, <1>3 DEF UpToCut

\* The first cut is where d is found first.
LEMMA FirstCut ==
    ASSUME NEW S, NEW s \in Seq(S), NEW d
    PROVE  /\ CutOf(s, d, 1) \in Cuts(s, d)
           /\ Cardinality(UpToCut(s, d, CutOf(s, d, 1))) = 1
           /\ \A i \in Cuts(s, d) : CutOf(s, d, 1) <= i
<1> DEFINE C == Cuts(s, d)
           U(i) == UpToCut(s, d, i)
           m == Min(C)
           c == CutOf(s, d, 1)
<1>1. C \subseteq Nat /\ C # {}
  BY CutsAre
<1>2. /\ \A i \in C : IsFiniteSet(U(i)) /\ i \in U(i) /\ U(i) \subseteq C
      /\ \A i, j \in C : j \in U(i) <=> j <= i
  BY UpToCutIs
<1>3. c = CHOOSE i \in C : Cardinality(U(i)) = 1
  BY DEF CutOf
<1> HIDE DEF C, U, c
<1>4. m \in C /\ \A i \in C : m <= i
  BY <1>1, LeastOf
<1> HIDE DEF m
<1>5. U(m) = {m}
  <2>1. \A j \in U(m) : j \in C /\ j <= m /\ m <= j /\ j \in Nat
    BY <1>1, <1>2, <1>4
  <2>2. \A j \in U(m) : j = m
    BY <1>1, <1>4, <2>1
  <2>3. QED
    BY <1>2, <1>4, <2>2
<1>6. Cardinality(U(m)) = 1
  BY <1>5, FS_Singleton
<1>7. c \in C /\ Cardinality(U(c)) = 1
  BY <1>3, <1>4, <1>6
<1>8. PICK x : U(c) = {x}
  BY <1>2, <1>7, FS_Singleton
<1>9. c = x /\ m = x
  BY <1>2, <1>4, <1>7, <1>8
<1>10. QED
  BY <1>4, <1>7, <1>9 DEF C, U, c

\* There is a second cut if there are two.
LEMMA SecondCut ==
    ASSUME NEW S, NEW s \in Seq(S), NEW d, Cardinality(Cuts(s, d)) >= 2
    PROVE  /\ CutOf(s, d, 2) \in Cuts(s, d)
           /\ CutOf(s, d, 2) # CutOf(s, d, 1)
<1> DEFINE C == Cuts(s, d)
           U(i) == UpToCut(s, d, i)
           a == CutOf(s, d, 1)
           D == C \ {a}
           m == Min(D)
           c == CutOf(s, d, 2)
<1>1. C \subseteq Nat /\ IsFiniteSet(C) /\ Cardinality(C) >= 2 /\ Cardinality(C) \in Nat
  BY CutsAre
<1>2. /\ \A i \in C : IsFiniteSet(U(i)) /\ i \in U(i) /\ U(i) \subseteq C
      /\ \A i, j \in C : j \in U(i) <=> j <= i
  BY UpToCutIs
<1>3. c = CHOOSE i \in C : Cardinality(U(i)) = 2
  BY DEF CutOf
<1>4. a \in C /\ Cardinality(U(a)) = 1 /\ \A i \in C : a <= i
  BY FirstCut
<1> HIDE DEF C, U, c, a
<1>5. IsFiniteSet(D) /\ Cardinality(D) # 0
  <2>1. IsFiniteSet(D) /\ Cardinality(D) = Cardinality(C) - 1
    BY <1>1, <1>4, FS_RemoveElement
  <2>2. QED
    BY <1>1, <2>1
<1>6. D # {} /\ D \subseteq Nat
  BY <1>1, <1>5, FS_EmptySet
<1>7. m \in D /\ \A i \in D : m <= i
  <2> HIDE DEF D
  <2>1. QED
    BY <1>6, LeastOf
<1> HIDE DEF m
<1>8. U(m) = {a} \cup {m}
  <2>1. \A j \in C : j = a \/ m <= j
    BY <1>7
  <2>2. \A j \in U(m) : j = a \/ j = m
    <3>1. ASSUME NEW j \in U(m), j # a
          PROVE  j = m
      <4>1. j \in C /\ j \in Nat /\ m \in Nat /\ j <= m /\ m <= j
        BY <1>1, <1>2, <1>7, <2>1, <3>1
      <4>2. QED
        BY <4>1
    <3>2. QED
      BY <3>1
  <2>3. a \in U(m) /\ m \in U(m)
    BY <1>2, <1>4, <1>7
  <2>4. QED
    BY <2>2, <2>3
<1>9. Cardinality(U(m)) = 2
  <2>1. IsFiniteSet({a}) /\ Cardinality({a}) = 1
    BY FS_Singleton
  <2>2. m \notin {a}
    BY <1>7
  <2>3. Cardinality({a} \cup {m}) = 1 + 1
    BY <2>1, <2>2, FS_AddElement
  <2>4. Cardinality(U(m)) = 1 + 1
    BY <1>8, <2>3, Zenon
  <2>5. QED
    BY <2>4
<1>10. c \in C /\ Cardinality(U(c)) = 2
  BY <1>3, <1>7, <1>9
<1>11. c # a
  BY <1>4, <1>10
<1>12. QED
  BY <1>10, <1>11 DEF C, c, a

\* The last cut is behind the text, and none lies between it and the last but
\* one.
LEMMA LastCuts ==
    ASSUME NEW S, NEW s \in Seq(S), NEW d, NEW N, N = Cardinality(Cuts(s, d))
    PROVE  /\ CutOf(s, d, N) = Len(s) + 1
           /\ N # 1 => /\ CutOf(s, d, N - 1) \in Cuts(s, d)
                       /\ CutOf(s, d, N - 1) # Len(s) + 1
                       /\ \A i \in Cuts(s, d) :
                             i # Len(s) + 1 => i <= CutOf(s, d, N - 1)
<1> DEFINE C == Cuts(s, d)
           U(i) == UpToCut(s, d, i)
           t == Len(s) + 1
           c == CutOf(s, d, N)
           b == CutOf(s, d, N - 1)
<1>1. /\ C \subseteq Nat /\ IsFiniteSet(C) /\ N = Cardinality(C) /\ N \in Nat \ {0}
      /\ t \in C /\ t \in Nat /\ \A i \in C : i <= t
  <2>1. IsFiniteSet(C) /\ N = Cardinality(C) /\ N \in Nat \ {0}
    BY CutsAre
  <2>2. t \in C /\ \A i \in C : i \in 1 .. t
    BY CutsAre
  <2>3. Len(s) \in Nat
    BY CutsAre
  <2>4. QED
    BY <2>1, <2>2, <2>3
<1>2. /\ \A i \in C : IsFiniteSet(U(i)) /\ i \in U(i) /\ U(i) \subseteq C
      /\ \A i, j \in C : j \in U(i) <=> j <= i
  BY UpToCutIs
<1>3. /\ c = CHOOSE i \in C : Cardinality(U(i)) = N
      /\ b = CHOOSE i \in C : Cardinality(U(i)) = N - 1
  BY DEF CutOf
<1> HIDE DEF C, U, t, c, b
<1>4. U(t) = C
  BY <1>1, <1>2
<1>5. c \in C /\ Cardinality(U(c)) = N
  BY <1>1, <1>3, <1>4
<1>6. U(c) = C
  BY <1>1, <1>2, <1>5, FS_Subset
<1>7. c = t
  <2>1. t <= c /\ c <= t /\ c \in Nat
    BY <1>1, <1>2, <1>5, <1>6
  <2>2. QED
    BY <1>1, <2>1
<1>8. ASSUME N # 1
      PROVE  b \in C /\ b # t /\ \A i \in C : i # t => i <= b
  <2> DEFINE D == C \ {t}
  <2>1. IsFiniteSet(D) /\ Cardinality(D) = N - 1
    BY <1>1, FS_RemoveElement
  <2>2. Cardinality(D) # 0
    BY <1>1, <1>8, <2>1
  <2>3. D # {} /\ D \subseteq Nat /\ \A i \in D : i <= t
    BY <1>1, <2>1, <2>2, FS_EmptySet
  <2>4. PICK m \in D : \A i \in D : i <= m
    <3> HIDE DEF D
    <3>1. QED
      BY <1>1, <2>3, GreatestOf
  <2>5. m \in C /\ m # t /\ m \in Nat /\ m <= t
    BY <1>1, <2>3
  <2>6. U(m) = D
    <3>1. ~(t <= m)
      BY <1>1, <2>5
    <3>2. \A j \in C : j \in U(m) <=> j # t
      BY <1>2, <2>4, <2>5, <3>1
    <3>3. QED
      BY <1>2, <2>5, <3>2
  <2>7. b \in C /\ Cardinality(U(b)) = N - 1
    BY <1>3, <2>1, <2>5, <2>6
  <2>8. b # t
    <3>1. Cardinality(U(t)) # N - 1
      BY <1>1, <1>4
    <3>2. QED
      BY <2>7, <3>1
  <2>9. U(b) \subseteq D
    <3>1. b <= t /\ b \in Nat
      BY <1>1, <2>7
    <3>2. ~(t <= b)
      BY <1>1, <2>8, <3>1
    <3>3. QED
      BY <1>1, <1>2, <2>7, <3>2
  <2>10. U(b) = D
    <3> HIDE DEF D
    <3>1. QED
      BY <2>1, <2>7, <2>9, FS_Subset
  <2>11. QED
    BY <1>2, <2>7, <2>8, <2>10
<1>9. QED
  BY <1>7, <1>8 DEF C, c, b, t

\* What lk_string_split gives: its parts lie between cuts.
LEMMA SplitIs ==
    ASSUME NEW S, NEW s \in Seq(S), NEW d, NEW N, N = Cardinality(Cuts(s, d))
    PROVE  /\ Len(Split(s, d)) = N /\ DOMAIN Split(s, d) = 1 .. N
           /\ Split(s, d)[1] = SubSeq(s, 1, CutOf(s, d, 1) - 1)
           /\ N >= 2 => Split(s, d)[2] = SubSeq(s, CutOf(s, d, 1) + 1, CutOf(s, d, 2) - 1)
           /\ N >= 2 => Last(Split(s, d)) = SubSeq(s, CutOf(s, d, N - 1) + 1, Len(s))
           /\ N = 1 => Last(Split(s, d)) = s
<1> DEFINE parts == Split(s, d)
           Part(n) == SubSeq(s, (IF n - 1 = 0 THEN 0 ELSE CutOf(s, d, n - 1)) + 1,
                             (IF n = 0 THEN 0 ELSE CutOf(s, d, n)) - 1)
<1>1. N \in Nat \ {0} /\ Len(s) \in Nat
  BY CutsAre
<1>2. parts = [n \in 1 .. N |-> Part(n)]
  BY DEF Split, CutOf, UpToCut, Cuts
<1>3. \A n : n # 0 => Part(n) = SubSeq(s, (IF n - 1 = 0 THEN 0 ELSE CutOf(s, d, n - 1)) + 1,
                                       CutOf(s, d, n) - 1)
  OBVIOUS
<1> HIDE DEF parts, Part
<1>4. Len(parts) = N /\ DOMAIN parts = 1 .. N /\ \A n \in 1 .. N : parts[n] = Part(n)
  BY <1>1, <1>2
<1>5. parts[1] = SubSeq(s, 1, CutOf(s, d, 1) - 1)
  <2>1. Part(1) = SubSeq(s, 0 + 1, CutOf(s, d, 1) - 1)
    BY <1>3
  <2>2. QED
    BY <1>1, <1>4, <2>1
<1>6. ASSUME NEW n \in 2 .. N
      PROVE  parts[n] = SubSeq(s, CutOf(s, d, n - 1) + 1, CutOf(s, d, n) - 1)
  <2>1. n # 0 /\ n - 1 # 0 /\ n \in 1 .. N
    BY <1>1
  <2>2. QED
    BY <1>3, <1>4, <2>1
<1>7. N >= 2 => parts[2] = SubSeq(s, CutOf(s, d, 1) + 1, CutOf(s, d, 2) - 1)
  <2>1. SUFFICES ASSUME N >= 2
                 PROVE  parts[2] = SubSeq(s, CutOf(s, d, 1) + 1, CutOf(s, d, 2) - 1)
    OBVIOUS
  <2>2. 2 \in 2 .. N /\ 2 - 1 = 1
    BY <1>1, <2>1
  <2>3. parts[2] = SubSeq(s, CutOf(s, d, 2 - 1) + 1, CutOf(s, d, 2) - 1)
    BY <1>6, <2>2
  <2>4. QED
    BY <2>2, <2>3
<1>8. CutOf(s, d, N) - 1 = Len(s)
  BY <1>1, LastCuts
<1>9. Last(parts) = parts[N]
  BY <1>4 DEF Last
<1>10. N >= 2 => Last(parts) = SubSeq(s, CutOf(s, d, N - 1) + 1, Len(s))
  <2>1. N >= 2 => N \in 2 .. N
    BY <1>1
  <2>2. QED
    BY <1>6, <1>8, <1>9, <2>1
<1>11. N = 1 => Last(parts) = s
  BY <1>5, <1>8, <1>9, SubSeqFull
<1>12. QED
  BY <1>4, <1>5, <1>7, <1>10, <1>11 DEF parts

\* Parts of a text are texts.
LEMMA PartsOf ==
    ASSUME NEW S, NEW s \in Seq(S), NEW d
    PROVE  /\ Split(s, d)[1] \in Seq(S)
           /\ Nth(Split(s, d), 2) \in Seq(S)
           /\ Last(Split(s, d)) \in Seq(S)
<1> DEFINE N == Cardinality(Cuts(s, d))
           parts == Split(s, d)
<1>1. N \in Nat \ {0} /\ Len(s) \in Nat
  BY CutsAre
<1>2. \A i \in Cuts(s, d) : i - 1 \in 0 .. Len(s) /\ i + 1 \in Nat \ {0}
  <2>1. \A i \in Cuts(s, d) : i \in 1 .. Len(s) + 1
    BY CutsAre
  <2>2. QED
    BY <1>1, <2>1
<1>3. 1 \in Nat \ {0} /\ Len(s) \in 0 .. Len(s)
  BY <1>1
<1>4. parts[1] \in Seq(S)
  <2>1. CutOf(s, d, 1) - 1 \in 0 .. Len(s)
    BY <1>2, FirstCut
  <2>2. SubSeq(s, 1, CutOf(s, d, 1) - 1) \in Seq(S)
    BY <1>3, <2>1, PartIs
  <2>3. QED
    BY <2>2, SplitIs
<1>5. N >= 2 => parts[2] \in Seq(S)
  <2>1. SUFFICES ASSUME N >= 2 PROVE parts[2] \in Seq(S)
    OBVIOUS
  <2>2. CutOf(s, d, 1) + 1 \in Nat \ {0} /\ CutOf(s, d, 2) - 1 \in 0 .. Len(s)
    BY <1>2, <2>1, FirstCut, SecondCut
  <2>3. SubSeq(s, CutOf(s, d, 1) + 1, CutOf(s, d, 2) - 1) \in Seq(S)
    BY <2>2, PartIs
  <2>4. QED
    BY <2>1, <2>3, SplitIs
<1>6. Nth(parts, 2) \in Seq(S)
  <2>1. DOMAIN parts = 1 .. N
    BY SplitIs
  <2> HIDE DEF N, parts
  <2>2. CASE N >= 2
    <3>1. 2 \in DOMAIN parts
      BY <1>1, <2>1, <2>2
    <3>2. QED
      BY <1>5, <2>2, <3>1 DEF Nth
  <2>3. CASE ~(N >= 2)
    <3>1. 2 \notin DOMAIN parts
      BY <1>1, <2>1, <2>3
    <3>2. QED
      BY <3>1 DEF Nth, Empty
  <2>4. QED
    BY <2>2, <2>3
<1>7. Last(parts) \in Seq(S)
  <2>1. N = 1 => Last(parts) = s
    BY SplitIs
  <2>2. ASSUME N # 1
        PROVE  Last(parts) \in Seq(S)
    <3>1. CutOf(s, d, N - 1) + 1 \in Nat \ {0}
      BY <1>2, <2>2, LastCuts
    <3>2. SubSeq(s, CutOf(s, d, N - 1) + 1, Len(s)) \in Seq(S)
      BY <1>3, <3>1, PartIs
    <3>3. N >= 2
      BY <1>1, <2>2
    <3>4. QED
      BY <3>2, <3>3, SplitIs
  <2>3. QED
    BY <2>1, <2>2
<1>8. QED
  BY <1>4, <1>6, <1>7

\* The last part has none of the delimiters.
LEMMA FileNameIs ==
    ASSUME NEW path \in Text, NEW f, f = Last(Split(path, "/"))
    PROVE  /\ f \in Text /\ "/" \notin ToSet(f)
           /\ path = f \/ ends_with(path, Slash \o f)
<1> DEFINE C == Cuts(path, "/")
           N == Cardinality(C)
           n == Len(path)
<1>1. path \in Seq(Pieces) /\ n \in Nat /\ DOMAIN path = 1 .. n
  BY DEF Text
<1>2. /\ N \in Nat \ {0}
      /\ \A i \in C : i \in 1 .. n + 1 /\ (i # n + 1 => i \in 1 .. n /\ path[i] = "/")
      /\ \A i \in 1 .. n : path[i] = "/" => i \in C
  BY <1>1, CutsAre
<1>3. f \in Seq(Pieces)
  BY <1>1, PartsOf
<1>4. CASE N = 1
  <2>1. f = path
    BY <1>1, <1>4, SplitIs
  <2>2. C = {n + 1}
    <3>1. IsFiniteSet(C) /\ n + 1 \in C
      BY <1>1, CutsAre
    <3>2. PICK x : C = {x}
      BY <1>4, <3>1, FS_Singleton
    <3>3. QED
      BY <3>1, <3>2
  <2>3. \A i \in 1 .. n : path[i] # "/"
    BY <1>1, <1>2, <2>2
  <2>4. QED
    BY <1>1, <2>1, <2>3 DEF ToSet, Text
<1>5. CASE N # 1
  <2> DEFINE b == CutOf(path, "/", N - 1)
  <2>1. b \in C /\ b # n + 1 /\ \A i \in C : i # n + 1 => i <= b
    BY <1>1, <1>5, LastCuts
  <2>2. f = SubSeq(path, b + 1, n)
    <3>1. N >= 2
      BY <1>2, <1>5
    <3>2. QED
      BY <1>1, <3>1, SplitIs
  <2> HIDE DEF C, N, n, b
  <2>3. b \in 1 .. n /\ path[b] = "/"
    BY <1>2, <2>1
  <2>4. /\ Len(f) = n - b
        /\ \A i \in 1 .. n - b : f[i] = path[b + i]
    <3>1. b + 1 \in Nat \ {0} /\ n \in 0 .. n /\ n = Len(path)
      BY <1>1, <2>3 DEF n
    <3>2. /\ Len(f) = IF b + 1 <= n THEN n - (b + 1) + 1 ELSE 0
          /\ \A i \in 1 .. n - (b + 1) + 1 : f[i] = path[(b + 1) + i - 1]
      BY <1>1, <2>2, <3>1, PartIs
    <3>3. QED
      BY <1>1, <2>3, <3>2
  <2>5. \A i \in 1 .. n - b : f[i] # "/"
    <3>1. ASSUME NEW i \in 1 .. n - b, path[b + i] = "/"
          PROVE  FALSE
      <4>1. b + i \in 1 .. n /\ b + i # n + 1 /\ ~(b + i <= b)
        BY <1>1, <2>3
      <4>2. b + i \in C
        BY <1>2, <3>1, <4>1
      <4>3. QED
        BY <2>1, <4>1, <4>2
    <3>2. QED
      BY <2>4, <3>1
  <2>6. "/" \notin ToSet(f)
    BY <1>3, <2>4, <2>5 DEF ToSet
  <2> DEFINE t == Slash \o f
  <2>7. /\ t \in Seq(Pieces) /\ Len(t) = n - b + 1
        /\ t[1] = "/" /\ \A i \in 2 .. n - b + 1 : t[i] = f[i - 1]
    <3>1. Slash \in Seq(Pieces) /\ Len(Slash) = 1 /\ Slash[1] = "/"
      BY PiecesAssumption DEF Slash
    <3>2. /\ t \in Seq(Pieces) /\ Len(t) = Len(Slash) + Len(f)
          /\ \A i \in 1 .. Len(Slash) + Len(f) :
                t[i] = IF i <= Len(Slash) THEN Slash[i] ELSE f[i - Len(Slash)]
      BY <1>3, <3>1, ConcatProperties
    <3> HIDE DEF t
    <3>3. QED
      BY <1>1, <2>3, <2>4, <3>1, <3>2
  <2> HIDE DEF t
  <2>8. \A i \in 1 .. n - b + 1 : path[n - (n - b + 1) + i] = t[i]
    <3>1. ASSUME NEW i \in 1 .. n - b + 1
          PROVE  path[n - (n - b + 1) + i] = t[i]
      <4>1. n - (n - b + 1) + i = b + (i - 1)
        BY <1>1, <2>3
      <4>2. CASE i = 1
        BY <1>1, <2>3, <2>7, <4>1, <4>2
      <4>3. CASE i # 1
        <5>1. i \in 2 .. n - b + 1 /\ i - 1 \in 1 .. n - b
          BY <1>1, <2>3, <4>3
        <5>2. QED
          BY <2>4, <2>7, <4>1, <5>1
      <4>4. QED
        BY <4>2, <4>3
    <3>2. QED
      BY <3>1
  <2>9. ends_with(path, t)
    <3>1. ends_with(path, t) <=>
             Len(t) <= Len(path) /\ \A i \in 1 .. Len(t) : path[Len(path) - Len(t) + i] = t[i]
      <4>1. path \in Seq(Pieces) /\ t \in Seq(Pieces)
        BY <1>1, <2>7
      <4>2. QED
        BY <4>1, SuffixIs
    <3>2. Len(path) = n /\ Len(t) = n - b + 1 /\ n - b + 1 <= n
      BY <1>1, <2>3, <2>7 DEF n
    <3>3. QED
      BY <2>8, <3>1, <3>2
  <2>10. QED
    BY <1>3, <2>6, <2>9 DEF Text, t
<1>6. QED
  BY <1>4, <1>5

\* One slash is taken off, if there is one.
LEMMA ChopEndIs ==
    ASSUME NEW S, "/" \in S, NEW s \in Seq(S), NEW c, c = lk_string_chop_end(s, Slash)
    PROVE  /\ c \in Seq(S)
           /\ (c = s /\ ~ends_with(s, Slash)) \/ s = c \o Slash
<1> DEFINE n == Len(s)
<1>1. n \in Nat
  OBVIOUS
<1>2. Slash \in Seq(S) /\ Len(Slash) = 1 /\ Slash[1] = "/"
  BY DEF Slash
<1>3. CASE ends_with(s, Slash)
  <2>1. n >= 1 /\ s[n] = "/"
    <3>1. Len(Slash) <= n /\ \A i \in 1 .. Len(Slash) : s[n - Len(Slash) + i] = Slash[i]
      <4>1. s \in Seq(S) /\ Slash \in Seq(S)
        BY <1>2
      <4>2. ends_with(s, Slash) <=>
               Len(Slash) <= Len(s) /\ \A i \in 1 .. Len(Slash) :
                                         s[Len(s) - Len(Slash) + i] = Slash[i]
        BY <4>1, SuffixIs
      <4>3. QED
        BY <1>3, <4>2
    <3>2. 1 \in 1 .. Len(Slash) /\ n - Len(Slash) + 1 = n
      BY <1>1, <1>2
    <3>3. QED
      BY <1>1, <1>2, <3>1, <3>2
  <2>2. c = SubSeq(s, 1, n - 1)
    BY <1>2, <1>3 DEF lk_string_chop_end
  <2>3. n - 1 \in 0 .. n /\ 1 \in Nat \ {0}
    BY <1>1, <2>1
  <2> HIDE DEF n
  <2>4. c \in Seq(S) /\ Len(c) = n - 1 /\ \A i \in 1 .. n - 1 : c[i] = s[i]
    <3>1. /\ c \in Seq(S) /\ Len(c) = IF 1 <= n - 1 THEN (n - 1) - 1 + 1 ELSE 0
          /\ \A i \in 1 .. (n - 1) - 1 + 1 : c[i] = s[1 + i - 1]
      BY <2>2, <2>3, PartIs DEF n
    <3>2. QED
      BY <1>1, <2>1, <3>1
  <2> DEFINE t == c \o Slash
  <2>5. /\ t \in Seq(S) /\ Len(t) = n
        /\ \A i \in 1 .. n : t[i] = IF i <= n - 1 THEN c[i] ELSE Slash[i - (n - 1)]
    <3>1. /\ t \in Seq(S) /\ Len(t) = Len(c) + Len(Slash)
          /\ \A i \in 1 .. Len(c) + Len(Slash) :
                t[i] = IF i <= Len(c) THEN c[i] ELSE Slash[i - Len(c)]
      BY <1>2, <2>4, ConcatProperties
    <3> HIDE DEF t
    <3>2. QED
      BY <1>1, <1>2, <2>1, <2>4, <3>1
  <2> HIDE DEF t
  <2>6. \A i \in 1 .. n : t[i] = s[i]
    <3>1. ASSUME NEW i \in 1 .. n
          PROVE  t[i] = s[i]
      <4>1. CASE i = n
        <5>1. i - (n - 1) = 1 /\ ~(i <= n - 1)
          BY <1>1, <4>1
        <5>2. QED
          BY <1>2, <2>1, <2>5, <4>1, <5>1
      <4>2. CASE i # n
        <5>1. i \in 1 .. n - 1 /\ i <= n - 1
          BY <1>1, <4>2
        <5>2. QED
          BY <2>4, <2>5, <5>1
      <4>3. QED
        BY <4>1, <4>2
    <3>2. QED
      BY <3>1
  <2>7. t = s
    BY <2>5, <2>6, SeqEqual DEF n
  <2>8. QED
    BY <2>4, <2>7 DEF t
<1>4. CASE ~ends_with(s, Slash)
  BY <1>4 DEF lk_string_chop_end
<1>5. QED
  BY <1>3, <1>4

\* A URI with one "?" at most is its first part and what follows the "?".
LEMMA QueryIs ==
    ASSUME NEW u \in Text, Cardinality({i \in DOMAIN u : u[i] = "?"}) <= 1,
           NEW p, p = Split(u, "?")[1], NEW q, q = Nth(Split(u, "?"), 2)
    PROVE  /\ p \in Seq(Pieces \ {"?"}) /\ q \in Text
           /\ q # Empty => "?" \in ToSet(u)
           /\ u = p \o (IF "?" \in ToSet(u) THEN <<"?">> \o q ELSE Empty)
<1> DEFINE n == Len(u)
           D == {i \in 1 .. n : u[i] = "?"}
           C == Cuts(u, "?")
           N == Cardinality(C)
           a == CutOf(u, "?", 1)
           parts == Split(u, "?")
<1>1. u \in Seq(Pieces) /\ n \in Nat /\ DOMAIN u = 1 .. n /\ \A i \in 1 .. n : u[i] \in Pieces
  BY DEF Text
<1>2. Cardinality(D) <= 1
  BY <1>1
<1>3. /\ IsFiniteSet(C) /\ N \in Nat \ {0} /\ n + 1 \in C
      /\ \A i \in C : i \in 1 .. n + 1 /\ (i # n + 1 => i \in 1 .. n /\ u[i] = "?")
      /\ \A i \in 1 .. n : u[i] = "?" => i \in C
  BY <1>1, CutsAre
<1>4. a \in C /\ \A i \in C : a <= i
  BY <1>1, FirstCut
<1>5. /\ parts[1] = SubSeq(u, 1, a - 1) /\ DOMAIN parts = 1 .. N
      /\ N >= 2 => parts[2] = SubSeq(u, a + 1, CutOf(u, "?", 2) - 1)
  BY <1>1, SplitIs
<1>6. C = D \cup {n + 1} /\ IsFiniteSet(D) /\ Cardinality(D) \in Nat
  <2>1. C = D \cup {n + 1}
    BY <1>1 DEF Cuts
  <2>2. D \subseteq C
    BY <2>1
  <2> HIDE DEF C, D
  <2>3. IsFiniteSet(D)
    BY <1>3, <2>2, FS_Subset
  <2>4. QED
    BY <2>1, <2>3, FS_CardinalityType
<1>7. "?" \in ToSet(u) <=> D # {}
  BY <1>1 DEF ToSet
<1>8. q \in Text
  BY <1>1, PartsOf DEF Text
<1> HIDE DEF C, N, a, parts
<1>9. p = SubSeq(u, 1, a - 1)
  BY <1>5 DEF parts
<1>10. a - 1 \in 0 .. n /\ a \in 1 .. n + 1 /\ 1 \in Nat \ {0}
  BY <1>1, <1>3, <1>4
<1>11. Len(p) = a - 1 /\ \A i \in 1 .. a - 1 : p[i] = u[i]
  <2>1. /\ p \in Seq(Pieces) /\ Len(p) = IF 1 <= a - 1 THEN (a - 1) - 1 + 1 ELSE 0
        /\ \A i \in 1 .. (a - 1) - 1 + 1 : p[i] = u[1 + i - 1]
    BY <1>1, <1>9, <1>10, PartIs
  <2>2. /\ (IF 1 <= a - 1 THEN (a - 1) - 1 + 1 ELSE 0) = a - 1
        /\ (a - 1) - 1 + 1 = a - 1 /\ \A i \in 1 .. a - 1 : 1 + i - 1 = i
    BY <1>1, <1>10
  <2>3. QED
    BY <2>1, <2>2
<1>12. p \in Seq(Pieces \ {"?"})
  <2>1. \A i \in 1 .. a - 1 : u[i] \in Pieces \ {"?"}
    <3>1. ASSUME NEW i \in 1 .. a - 1
          PROVE  u[i] \in Pieces \ {"?"}
      <4>1. i \in 1 .. n /\ ~(a <= i)
        BY <1>1, <1>10
      <4>2. i \notin C
        BY <1>4, <4>1
      <4>3. QED
        BY <1>1, <1>3, <4>1, <4>2
    <3>2. QED
      BY <3>1
  <2>2. 1 \in Int /\ a - 1 \in Int
    BY <1>10
  <2>3. QED
    BY <1>9, <2>1, <2>2, SubSeqProperties
<1>13. CASE D = {}
  <2>1. C = {n + 1} /\ N = 1
    <3>1. C = {n + 1}
      BY <1>6, <1>13
    <3>2. QED
      BY <3>1, FS_Singleton DEF N
  <2>2. a = n + 1
    BY <1>4, <2>1
  <2>3. p = u
    BY <1>1, <1>9, <2>2, SubSeqFull
  <2>4. q = Empty
    <3>1. 2 \notin DOMAIN parts
      BY <1>5, <2>1
    <3>2. QED
      BY <3>1 DEF Nth, parts
  <2>5. u = p \o Empty
    BY <1>1, <2>3, ConcatEmptySeq DEF Empty
  <2>6. QED
    BY <1>7, <1>8, <1>12, <1>13, <2>4, <2>5
<1>14. CASE D # {}
  <2>1. Cardinality(D) = 1
    <3> HIDE DEF D
    <3>1. Cardinality(D) # 0
      BY <1>6, <1>14, FS_EmptySet
    <3>2. QED
      BY <1>2, <1>6, <3>1
  <2>2. PICK x : D = {x}
    BY <1>6, <2>1, FS_Singleton
  <2>3. x \in 1 .. n /\ u[x] = "?" /\ C = {x} \cup {n + 1}
    BY <1>6, <2>2
  <2>4. N = 2
    <3>1. n + 1 \notin {x}
      BY <1>1, <2>3
    <3>2. IsFiniteSet({x}) /\ Cardinality({x}) = 1
      BY FS_Singleton
    <3>3. Cardinality({x} \cup {n + 1}) = 1 + 1
      BY <3>1, <3>2, FS_AddElement
    <3>4. Cardinality(C) = 1 + 1
      BY <2>3, <3>3, Zenon
    <3>5. QED
      BY <3>4 DEF N
  <2>5. a = x
    BY <1>1, <1>4, <2>3
  <2>6. CutOf(u, "?", 2) = n + 1
    <3>1. CutOf(u, "?", 2) \in C /\ CutOf(u, "?", 2) # a
      <4>1. Cardinality(Cuts(u, "?")) >= 2
        BY <2>4 DEF N, C
      <4>2. QED
        BY <1>1, <4>1, SecondCut DEF C, a
    <3>2. QED
      BY <2>3, <2>5, <3>1
  <2>7. q = SubSeq(u, x + 1, n)
    <3>1. 2 \in DOMAIN parts /\ N >= 2
      BY <1>5, <2>4
    <3>2. parts[2] = SubSeq(u, x + 1, (n + 1) - 1)
      BY <1>5, <2>5, <2>6, <3>1
    <3>3. (n + 1) - 1 = n
      BY <1>1
    <3>4. QED
      BY <3>1, <3>2, <3>3 DEF Nth, parts
  <2> DEFINE w == SubSeq(u, x, n)
  <2>8. w = <<"?">> \o q
    <3>1. x \in 1 .. Len(u) /\ n \in x .. Len(u) /\ u[x] = "?"
      BY <1>1, <2>3
    <3>2. SubSeq(u, x, n) = <<u[x]>> \o SubSeq(u, x + 1, n)
      BY <1>1, <3>1, SubSeqRecursiveFirst
    <3>3. QED
      BY <2>7, <3>1, <3>2
  <2>9. u = p \o w
    <3>1. 1 \in 1 .. Len(u) + 1 /\ x - 1 \in 1 - 1 .. Len(u) /\ n \in x - 1 .. Len(u)
      BY <1>1, <2>3
    <3>2. SubSeq(u, 1, x - 1) \o SubSeq(u, (x - 1) + 1, n) = SubSeq(u, 1, n)
      BY <1>1, <3>1, ConcatAdjacentSubSeq
    <3>3. (x - 1) + 1 = x
      BY <2>3
    <3>4. SubSeq(u, 1, n) = u
      BY <1>1, SubSeqFull
    <3>5. QED
      BY <1>9, <2>5, <3>2, <3>3, <3>4
  <2> HIDE DEF w
  <2>10. QED
    BY <1>7, <1>8, <1>12, <1>14, <2>8, <2>9
<1>15. QED
  BY <1>13, <1>14

-----------------------------------------------------------------------------
(***************************************************************************)
(* The request as it is read.                                               *)
(***************************************************************************)
RequestType ==
    [method : Text, uri : Text, path : Text, filename : Text, querystring : Text,
     version : Text, head : Text, body : Text, headers : HeaderTables]

\* UriAsReference for one request.
UriRight(r) ==
    Cardinality({n \in DOMAIN r.uri : r.uri[n] = "?"}) <= 1 =>
       LET asked == "?" \in ToSet(r.uri)
           query == IF asked THEN <<"?">> \o r.querystring ELSE Empty
       IN /\ "?" \notin ToSet(r.path) /\ (r.querystring # Empty => asked)
          /\ \/ r.uri = r.path \o query /\ ~ends_with(r.path, Slash)
             \/ r.uri = r.path \o Slash \o query
          /\ "/" \notin ToSet(r.filename)
          /\ r.path = r.filename \/ ends_with(r.path, Slash \o r.filename)

\* The words of the code are texts.
LEMMA WordsAre ==
    /\ Empty \in Text /\ Slash \in Text /\ Sp \in Text /\ Newline \in Text
    /\ ContentLength \in Text /\ <<"cr", LF>> \in Text /\ <<":", "sp">> \in Text
    /\ <<"HTTP/1.0">> \in Text /\ <<"hostname">> \in Text /\ <<"port">> \in Text
    /\ <<"littlekitten/0.1">> \in Text
    /\ ContentType \in Text /\ PlainText \in Text /\ Html \in Text /\ <<"message">> \in Text
<1>1. \A x, y \in Pieces : <<x>> \in Seq(Pieces) /\ <<x, y>> \in Seq(Pieces)
  OBVIOUS
<1>2. << >> \in Seq(Pieces)
  OBVIOUS
<1>3. QED
  BY <1>1, <1>2, PiecesAssumption, WordsAssumption, MessagesAssumption
     DEF Text, Empty, Slash, Sp, Newline, ContentLength, ContentType, PlainText, Html

LEMMA NewRequestIs == lk_httprequest_new \in RequestType
<1>1. << >> \in HeaderTables
  BY EmptySeq DEF HeaderTables
<1>2. QED
  BY <1>1, WordsAre DEF lk_httprequest_new, RequestType

LEMMA ParseUriIs ==
    ASSUME NEW r \in RequestType
    PROVE  parse_uri(r) \in RequestType /\ UriRight(parse_uri(r))
<1> DEFINE u == r.uri
           p == Split(u, "?")[1]
           q == Nth(Split(u, "?"), 2)
           c == lk_string_chop_end(p, Slash)
           f == Last(Split(c, "/"))
           new == [r EXCEPT !.path = c, !.querystring = q, !.filename = f]
<1>1. parse_uri(r) = new
  BY DEF parse_uri
<1>2. u \in Text
  BY DEF RequestType
<1>3. p \in Text /\ q \in Text
  BY <1>2, PartsOf DEF Text
<1>4. c \in Text /\ ((c = p /\ ~ends_with(p, Slash)) \/ p = c \o Slash)
  <2>1. p \in Seq(Pieces) /\ "/" \in Pieces
    BY <1>3, PiecesAssumption DEF Text
  <2> HIDE DEF p
  <2>2. c \in Seq(Pieces) /\ ((c = p /\ ~ends_with(p, Slash)) \/ p = c \o Slash)
    BY <2>1, ChopEndIs
  <2>3. QED
    BY <2>2 DEF Text
<1>5. /\ f \in Text /\ "/" \notin ToSet(f)
      /\ c = f \/ ends_with(c, Slash \o f)
  BY <1>4, FileNameIs
<1>6. Cardinality({i \in DOMAIN u : u[i] = "?"}) <= 1 =>
         /\ p \in Seq(Pieces \ {"?"})
         /\ q # Empty => "?" \in ToSet(u)
         /\ u = p \o (IF "?" \in ToSet(u) THEN <<"?">> \o q ELSE Empty)
  <2> HIDE DEF u
  <2>1. SUFFICES ASSUME Cardinality({i \in DOMAIN u : u[i] = "?"}) <= 1
                 PROVE  /\ p \in Seq(Pieces \ {"?"})
                        /\ q # Empty => "?" \in ToSet(u)
                        /\ u = p \o (IF "?" \in ToSet(u) THEN <<"?">> \o q ELSE Empty)
    OBVIOUS
  <2>2. QED
    BY <1>2, <2>1, QueryIs, Zenon
<1>7. p \in Seq(Pieces \ {"?"}) => "?" \notin ToSet(c)
  <2> HIDE DEF p
  <2>1. SUFFICES ASSUME p \in Seq(Pieces \ {"?"})
                 PROVE  "?" \notin ToSet(c)
    OBVIOUS
  <2>2. "/" \in Pieces \ {"?"}
    BY PiecesAssumption
  <2>3. c \in Seq(Pieces \ {"?"})
    BY <2>1, <2>2, ChopEndIs
  <2> HIDE DEF c
  <2>4. \A i \in 1 .. Len(c) : c[i] \in Pieces \ {"?"}
    BY <2>3, ElementOfSeq
  <2>5. DOMAIN c = 1 .. Len(c)
    BY <2>3
  <2>6. QED
    BY <2>4, <2>5 DEF ToSet
<1> HIDE DEF p, q, c, f
<1>8. /\ new \in RequestType /\ new.uri = u /\ new.path = c
      /\ new.querystring = q /\ new.filename = f
  BY <1>3, <1>4, <1>5 DEF RequestType
<1> HIDE DEF new, u
<1>9. UriRight(new)
  <2>1. SUFFICES ASSUME Cardinality({i \in DOMAIN u : u[i] = "?"}) <= 1
                 PROVE  LET asked == "?" \in ToSet(u)
                            query == IF asked THEN <<"?">> \o q ELSE Empty
                        IN /\ "?" \notin ToSet(c) /\ (q # Empty => asked)
                           /\ \/ u = c \o query /\ ~ends_with(c, Slash)
                              \/ u = c \o Slash \o query
                           /\ "/" \notin ToSet(f)
                           /\ c = f \/ ends_with(c, Slash \o f)
    BY <1>8 DEF UriRight
  <2>2. /\ p \in Seq(Pieces \ {"?"})
        /\ q # Empty => "?" \in ToSet(u)
        /\ u = p \o (IF "?" \in ToSet(u) THEN <<"?">> \o q ELSE Empty)
    BY <1>6, <2>1
  <2> DEFINE query == IF "?" \in ToSet(u) THEN <<"?">> \o q ELSE Empty
  <2>3. u = p \o query
    BY <2>2
  <2> HIDE DEF query
  <2>4. \/ u = c \o query /\ ~ends_with(c, Slash)
        \/ u = (c \o Slash) \o query
    BY <1>4, <2>3, Zenon
  <2>5. QED
    BY <1>5, <1>7, <2>2, <2>4, Zenon DEF query
<1>10. QED
  BY <1>1, <1>8, <1>9

\* What is sent becomes a request, whose URI is taken apart right.
LEMMA ParsedIs ==
    ASSUME NEW lines \in Seq(Text)
    PROVE  Parsed(lines) \in RequestType /\ UriRight(Parsed(lines))
<1>1. CASE lines = << >>
  <2> DEFINE new == lk_httprequest_new
  <2>1. new \in RequestType /\ Parsed(lines) = new
    BY <1>1, NewRequestIs DEF Parsed
  <2>2. /\ new.uri = Empty /\ new.path = Empty /\ new.querystring = Empty
        /\ new.filename = Empty
    BY DEF lk_httprequest_new
  <2> HIDE DEF new
  <2>3. ToSet(Empty) = {} /\ Empty = Empty \o Empty
    BY EmptySeq, ConcatEmptySeq DEF ToSet, Empty
  <2>4. ~ends_with(Empty, Slash)
    <3>1. Empty \in Seq(Pieces) /\ Slash \in Seq(Pieces) /\ Len(Empty) = 0 /\ Len(Slash) = 1
      BY WordsAre DEF Text, Empty, Slash
    <3>2. ends_with(Empty, Slash) => Len(Slash) <= Len(Empty)
      BY <3>1, SuffixIs
    <3>3. QED
      BY <3>1, <3>2
  <2>5. UriRight(new)
    BY <2>2, <2>3, <2>4, Zenon DEF UriRight
  <2>6. QED
    BY <2>1, <2>5
<1>2. CASE lines # << >>
  <2> DEFINE l == lines[1]
             w == lk_chomp(l)
             t == AfterToken(w, "sp")
             m == Token(w, "sp")
             u == Token(t, "sp")
             v == Token(AfterToken(t, "sp"), "sp")
             r == [lk_httprequest_new EXCEPT !.method = m, !.uri = u, !.version = v]
             hs == Headers(lines)
             first == parse_uri(r)
  <2>1. l \in Seq(Pieces)
    <3>1. 1 \in 1 .. Len(lines)
      BY <1>2, EmptySeq
    <3>2. QED
      BY <3>1, ElementOfSeq DEF Text
  <2> HIDE DEF l
  <2>2. w \in Seq(Pieces)
    BY <2>1, ChompOf
  <2> HIDE DEF w
  <2>3. m \in Text /\ t \in Seq(Pieces)
    BY <2>2, TokenOf DEF Text
  <2> HIDE DEF t
  <2>4. u \in Text /\ AfterToken(t, "sp") \in Seq(Pieces)
    BY <2>3, TokenOf DEF Text
  <2>5. v \in Text
    BY <2>4, TokenOf DEF Text
  <2>6. parse_request_line(lk_httprequest_new, l) = first
    BY DEF parse_request_line, t, w
  <2> HIDE DEF m, u, v
  <2>7. r \in RequestType
    BY <2>3, <2>4, <2>5, NewRequestIs DEF RequestType
  <2> HIDE DEF r
  <2>8. first \in RequestType /\ UriRight(first)
    BY <2>7, ParseUriIs
  <2>9. Parsed(lines) = [first EXCEPT !.headers = hs]
    BY <1>2, <2>6 DEF Parsed, l
  <2>10. hs \in HeaderTables
    BY <1>2, HeadersAre
  <2> HIDE DEF first, hs
  <2> DEFINE new == [first EXCEPT !.headers = hs]
  <2>11. /\ new \in RequestType /\ new.uri = first.uri /\ new.path = first.path
         /\ new.querystring = first.querystring /\ new.filename = first.filename
    BY <2>8, <2>10 DEF RequestType
  <2> HIDE DEF new
  <2>12. UriRight(new)
    BY <2>8, <2>11, Zenon DEF UriRight
  <2>13. QED
    BY <2>9, <2>11, <2>12 DEF new
<1>3. QED
  BY <1>1, <1>2

-----------------------------------------------------------------------------
(***************************************************************************)
(* Types.                                                                   *)
(***************************************************************************)
ResponseType ==
    [status : Nat, headers : HeaderTables, head : Seq(Text), body : Bodies]

\* Texts end to end, one after the other.
LEMMA FlattenBy ==
    ASSUME NEW S, NEW ss \in Seq(Seq(S)), Len(ss) # 0
    PROVE  \E f :
              /\ FlattenSeq(ss) = f[Len(ss)] /\ f[1] = ss[1]
              /\ \A n \in 2 .. Len(ss) : f[n] = f[n - 1] \o ss[n]
              /\ \A n \in 1 .. Len(ss) : f[n] \in Seq(S)
<1> DEFINE N == Len(ss)
           Step(g, n) == IF n = 1 THEN ss[n] ELSE g[n - 1] \o ss[n]
           f == CHOOSE f : f = [n \in 1 .. N |-> Step(f, n)]
           OK(g, m) == DOMAIN g = 1 .. m /\ \A n \in 1 .. m : g[n] = Step(g, n)
           G == {m \in 1 .. N : \E g : OK(g, m)}
<1>1. FlattenSeq(ss) = IF N = 0 THEN ss ELSE f[N]
  BY DEF FlattenSeq
<1>2. N \in Nat /\ \A n \in 1 .. N : ss[n] \in Seq(S)
  <2>1. N \in Nat
    OBVIOUS
  <2>2. QED
    BY <2>1, ElementOfSeq
<1>4. N # 0
  OBVIOUS
<1>5. QED
  <2> HIDE DEF f
  <2>1. \A g : Step(g, 1) = ss[1]
    OBVIOUS
  <2>2. \A g, h, n : n # 1 /\ g[n - 1] = h[n - 1] => Step(g, n) = Step(h, n)
    OBVIOUS
  <2>3. \A g, n : n # 1 => Step(g, n) = g[n - 1] \o ss[n]
    OBVIOUS
  <2>4. N >= 1
    BY <1>2, <1>4
  <2> HIDE DEF Step, N
  <2>5. 1 \in G
    <3> DEFINE g == [n \in 1 .. 1 |-> ss[1]]
    <3>1. DOMAIN g = 1 .. 1 /\ \A n \in 1 .. 1 : n = 1 /\ g[n] = ss[1]
      OBVIOUS
    <3> HIDE DEF g
    <3>2. OK(g, 1)
      BY <2>1, <3>1
    <3>3. QED
      BY <1>2, <2>4, <3>2
  <2>6. ASSUME NEW m \in 2 .. N, m - 1 \in G
        PROVE  m \in G
    <3>1. PICK g : OK(g, m - 1)
      BY <2>6
    <3> DEFINE h == [n \in 1 .. m |-> IF n = m THEN Step(g, m) ELSE g[n]]
    <3>2. m \in Nat /\ m # 1 /\ m - 1 \in 1 .. m - 1 /\ m - 1 # m
      BY <1>2
    <3>3. DOMAIN h = 1 .. m /\ h[m] = Step(g, m) /\ \A n \in 1 .. m - 1 : h[n] = g[n]
      BY <1>2, <3>2
    <3> HIDE DEF h
    <3>4. h[m] = Step(h, m)
      BY <2>2, <3>2, <3>3
    <3>5. ASSUME NEW n \in 1 .. m - 1
          PROVE  h[n] = Step(h, n)
      <4>1. CASE n = 1
        BY <2>1, <3>1, <3>3, <4>1
      <4>2. CASE n # 1
        <5>1. n - 1 \in 1 .. m - 1
          BY <3>2, <4>2
        <5>2. QED
          BY <2>2, <3>1, <3>3, <4>2, <5>1
      <4>3. QED
        BY <4>1, <4>2
    <3>6. \A n \in 1 .. m : n = m \/ n \in 1 .. m - 1
      BY <3>2
    <3>7. OK(h, m)
      BY <3>3, <3>4, <3>5, <3>6
    <3>8. m \in 1 .. N
      BY <1>2
    <3>9. QED
      BY <3>7, <3>8
  <2>7. N \in G
    <3> HIDE DEF G
    <3>1. \A i \in 1 .. N : i \in G
      BY <1>2, <2>5, <2>6, Along
    <3>2. QED
      BY <1>2, <2>4, <3>1
  <2>8. \E g : g = [n \in 1 .. N |-> Step(g, n)]
    <3>1. PICK g : OK(g, N)
      BY <2>7
    <3>2. PICK h : h = [n \in 1 .. N |-> Step(g, n)]
      OBVIOUS
    <3>3. \A n \in 1 .. N : h[n] = g[n]
      BY <3>1, <3>2
    <3>4. ASSUME NEW n \in 1 .. N
          PROVE  Step(h, n) = Step(g, n)
      <4>1. CASE n = 1
        BY <2>1, <4>1
      <4>2. CASE n # 1
        <5>1. n - 1 \in 1 .. N
          BY <1>2, <4>2
        <5>2. QED
          BY <2>2, <3>3, <4>2, <5>1
      <4>3. QED
        BY <4>1, <4>2
    <3>5. h = [n \in 1 .. N |-> Step(h, n)]
      BY <3>2, <3>4
    <3>6. QED
      BY <3>5
  <2>9. f = [n \in 1 .. N |-> Step(f, n)]
    BY <2>8 DEF f
  <2>10. \A n \in 1 .. N : f[n] = Step(f, n)
    BY <2>9
  <2> DEFINE T == {n \in 1 .. N : f[n] \in Seq(S)}
  <2>11. 1 \in T
    <3>1. 1 \in 1 .. N
      BY <1>2, <2>4
    <3>2. f[1] \in Seq(S)
      BY <1>2, <2>1, <2>10, <3>1
    <3>3. QED
      BY <3>1, <3>2
  <2>12. ASSUME NEW n \in 2 .. N, n - 1 \in T
         PROVE  n \in T
    <3>1. n \in 1 .. N /\ n # 1
      BY <1>2
    <3>2. f[n - 1] \in Seq(S) /\ ss[n] \in Seq(S)
      BY <1>2, <2>12, <3>1
    <3>3. f[n - 1] \o ss[n] \in Seq(S)
      BY <3>2, ConcatProperties
    <3>4. f[n] \in Seq(S)
      BY <2>3, <2>10, <3>1, <3>3
    <3>5. QED
      BY <3>1, <3>4
  <2>13. \A n \in 1 .. N : n \in T
    <3> HIDE DEF T
    <3>1. QED
      BY <1>2, <2>11, <2>12, Along
  <2>14. N \in 1 .. N
    BY <1>2, <2>4
  <2>15. \A n \in 2 .. N : n \in 1 .. N /\ n # 1
    BY <1>2
  <2>16. f[1] = ss[1] /\ \A n \in 2 .. N : f[n] = f[n - 1] \o ss[n]
    <3>1. 1 \in 1 .. N
      BY <1>2, <2>4
    <3>2. f[1] = ss[1]
      BY <2>1, <2>10, <3>1
    <3>3. ASSUME NEW n \in 2 .. N
          PROVE  f[n] = f[n - 1] \o ss[n]
      <4>1. n \in 1 .. N /\ n # 1
        BY <2>15
      <4>2. f[n] = Step(f, n)
        BY <2>10, <4>1
      <4>3. QED
        BY <2>3, <4>1, <4>2
    <3>4. QED
      BY <3>2, <3>3
  <2>17. FlattenSeq(ss) = f[N] /\ \A n \in 1 .. N : f[n] \in Seq(S)
    BY <1>1, <1>4, <2>13
  <2>18. QED
    BY <2>16, <2>17 DEF N

\* Texts end to end are a text.
LEMMA FlattenOf ==
    ASSUME NEW S, NEW ss \in Seq(Seq(S))
    PROVE  FlattenSeq(ss) \in Seq(S)
<1>1. Len(ss) \in Nat
  OBVIOUS
<1>2. CASE Len(ss) = 0
  <2>1. ss = << >> /\ FlattenSeq(ss) = ss
    BY <1>2 DEF FlattenSeq
  <2>2. << >> \in Seq(S)
    BY EmptySeq
  <2>3. QED
    BY <2>1, <2>2
<1>3. CASE Len(ss) # 0
  <2>1. Len(ss) \in 1 .. Len(ss)
    BY <1>1, <1>3
  <2>2. QED
    BY <1>3, <2>1, FlattenBy
<1>4. QED
  BY <1>2, <1>3

LEMMA Joined == \A s, t \in Text : s \o t \in Text
BY ConcatProperties DEF Text

LEMMA FinalizedIs ==
    ASSUME NEW r \in RequestType, Number(Len(r.body)) \in Text
    PROVE  lk_httprequest_finalize(r) \in RequestType
<1> DEFINE version == IF r.version = Empty THEN <<"HTTP/1.0">> ELSE r.version
           own == IF r.body = Empty THEN Empty
                  ELSE HeaderLine(ContentLength, Number(Len(r.body)))
           lines == [n \in DOMAIN r.headers |->
                        HeaderLine(r.headers[n].k, r.headers[n].v)]
           headers == FlattenSeq(lines)
           head == r.method \o Sp \o r.uri \o Sp \o version \o Newline
                      \o own \o headers \o <<"cr", LF>>
<1>1. lk_httprequest_finalize(r) = [r EXCEPT !.version = version, !.head = head]
  BY DEF lk_httprequest_finalize, HeadOf
<1>2. \A k, v \in Text : HeaderLine(k, v) \in Text
  BY WordsAre, Joined DEF HeaderLine
<1>3. /\ r.version \in Text /\ r.method \in Text /\ r.uri \in Text
      /\ r.headers \in Seq([k : Text, v : Text])
  BY DEF RequestType, HeaderTables
<1>4. version \in Text /\ own \in Text
  BY <1>2, <1>3, WordsAre
<1>5. headers \in Text
  <2>1. DOMAIN r.headers = 1 .. Len(r.headers) /\ Len(r.headers) \in Nat
    BY <1>3
  <2>2. \A n \in 1 .. Len(r.headers) : r.headers[n] \in [k : Text, v : Text]
    BY <1>3, ElementOfSeq
  <2>3. \A n \in 1 .. Len(r.headers) : HeaderLine(r.headers[n].k, r.headers[n].v) \in Text
    BY <1>2, <2>2
  <2>4. lines \in Seq(Text)
    BY <2>1, <2>3
  <2> HIDE DEF lines
  <2>5. QED
    BY <2>4, FlattenOf DEF Text
<1> HIDE DEF version, own, headers
<1>6. head \in Text
  BY <1>3, <1>4, <1>5, WordsAre, Joined
<1> HIDE DEF head
<1>7. QED
  BY <1>1, <1>4, <1>6 DEF RequestType

\* What is got from a table is a text or NULL.
LEMMA GetIs ==
    ASSUME NEW st \in HeaderTables, NEW k
    PROVE  lk_stringtable_get(st, k) = NULL \/ lk_stringtable_get(st, k) \in Text
<1>1. Len(st) \in Nat /\ \A i \in 1 .. Len(st) : st[i] \in [k : Text, v : Text]
  <2>1. Len(st) \in Nat
    BY DEF HeaderTables
  <2>2. QED
    BY <2>1, ElementOfSeq DEF HeaderTables
<1>2. Position(st, k) \in 0 .. Len(st)
  BY <1>1, PositionIs
<1>3. CASE Position(st, k) = 0
  BY <1>3 DEF lk_stringtable_get
<1>4. CASE Position(st, k) # 0
  <2>1. st[Position(st, k)] \in [k : Text, v : Text]
    BY <1>1, <1>2, <1>4
  <2>2. QED
    BY <1>4, <2>1 DEF lk_stringtable_get
<1>5. QED
  BY <1>3, <1>4

\* The configuration of a host that was found.
LEMMA FoundIs ==
    ASSUME hosts \in Hosts, HostFound
    PROVE  HC \in HostConfig
<1>1. hosts \in Seq(HostConfig)
  BY HostsAssumption
<1>2. Len(hosts) \in Nat /\ \A i \in 1 .. Len(hosts) : hosts[i] \in HostConfig
  <2>1. Len(hosts) \in Nat
    BY <1>1
  <2>2. QED
    BY <1>1, <2>1, ElementOfSeq
<1>3. \A h : get_hostconfig(hosts, h) \in 0 .. Len(hosts)
  BY <1>2, HostPositionIs
<1>4. lk_config_find_hostconfig(hosts, Host) \in 0 .. Len(hosts)
  BY <1>3 DEF lk_config_find_hostconfig
<1>5. lk_config_find_hostconfig(hosts, Host) \in 1 .. Len(hosts)
  BY <1>2, <1>4 DEF HostFound
<1>6. QED
  BY <1>2, <1>5 DEF HC

-----------------------------------------------------------------------------
(***************************************************************************)
(* How a request got where it is: what the handlers may rely on.            *)
(***************************************************************************)
RouteInv ==
    /\ pc \notin {"cgihead", "sent"} =>
          resp = lk_httpresponse_new /\ output = Empty /\ cur = 0
    /\ pc = "request" =>
          raw \in Requests /\ req = [Parsed(raw.head) EXCEPT !.body = raw.body]
    /\ pc \in {"files", "cgi", "cgihead"} =>
          HostFound /\ HC.proxyhost = Empty /\ HC.homedir # Empty /\ req.path = Asked
    /\ pc = "files" => HC.cgidir = Empty \/ ~starts_with(Asked, HC.cgidir)
    /\ pc \in {"cgi", "cgihead"} => HC.cgidir # Empty /\ starts_with(Asked, HC.cgidir)
    /\ pc = "cgi" => HC.homedir_abspath \o req.path \in Programs

\* The host and the path asked for stay those of the request.
LEMMA SameHost ==
    ASSUME hosts' = hosts, raw' = raw, req'.headers = req.headers
    PROVE  /\ HC' = HC /\ HostFound' = HostFound /\ Asked' = Asked
           /\ \A p : Exists(p)' = Exists(p)
<1>1. HC' = HC /\ HostFound' = HostFound
  BY DEF HC, HostFound, Host
<1>2. Asked' = Asked
  BY <1>1 DEF Asked, AliasFor
<1>3. \A p : Exists(p)' = Exists(p)
  BY <1>1 DEF Exists
<1>4. QED
  BY <1>1, <1>2, <1>3

\* The parsed request, with the body that was read.
LEMMA ReadIs ==
    ASSUME NEW r \in Requests
    PROVE  /\ [Parsed(r.head) EXCEPT !.body = r.body] \in RequestType
           /\ r.body \in Text /\ r.from \in Text /\ Number(Len(r.body)) \in Text
<1>1. r.head \in Seq(Text)
  BY RequestsAssumption
<1>2. r.body \in Text /\ r.from \in Text /\ Number(Len(r.body)) \in Text
  BY RequestsAssumption
<1>3. Parsed(r.head) \in RequestType
  BY <1>1, ParsedIs
<1>4. QED
  BY <1>2, <1>3 DEF RequestType

\* The path after a look at the aliases.
LEMMA AliasedIs ==
    ASSUME TypeOK, RouteInv, Routed
    PROVE  /\ raw \in Requests /\ req \in RequestType /\ req.body = raw.body
           /\ HC \in HostConfig /\ Aliased = Asked /\ Aliased \in Text
<1>1. /\ pc = "request" /\ HostFound /\ hosts \in Hosts
      /\ raw \in Requests /\ req = [Parsed(raw.head) EXCEPT !.body = raw.body]
  BY DEF TypeOK, RouteInv, Routed
<1>2. HC \in HostConfig
  BY <1>1, FoundIs
<1>3. raw.head \in Seq(Text)
  BY <1>1, RequestsAssumption
<1>4. Parsed(raw.head) \in RequestType
  BY <1>3, ParsedIs
<1>5. req \in RequestType /\ req.path = Parsed(raw.head).path /\ req.body = raw.body
  BY <1>1, <1>4, ReadIs DEF RequestType
<1>6. Aliased = Asked
  BY <1>5 DEF Aliased, Asked, AliasFor
<1>7. HC.aliases \in HeaderTables /\ req.path \in Text
  BY <1>2, <1>5 DEF HostConfig, RequestType, HeaderTables
<1>8. Aliased \in Text
  <2>1. \/ lk_stringtable_get(HC.aliases, req.path) = NULL
        \/ lk_stringtable_get(HC.aliases, req.path) \in Text
    BY <1>7, GetIs
  <2>2. QED
    BY <1>7, <2>1 DEF Aliased
<1>9. QED
  BY <1>1, <1>2, <1>5, <1>6, <1>8

\* ... is the only change for what is local to a host.
LEMMA LocalIs ==
    ASSUME TypeOK, RouteInv, Local
    PROVE  /\ req' \in RequestType /\ req'.path = Asked /\ req'.headers = req.headers
           /\ req'.body = raw.body
<1>1. Routed /\ req' = [req EXCEPT !.path = Aliased]
  BY DEF Local
<1>2. /\ req \in RequestType /\ req.body = raw.body
      /\ Aliased = Asked /\ Aliased \in Text
  BY <1>1, AliasedIs
<1> DEFINE a == Aliased
<1>3. req' = [req EXCEPT !.path = a] /\ a \in Text
  BY <1>1, <1>2
<1> HIDE DEF a
<1>4. req' \in RequestType /\ req'.path = a /\ req'.headers = req.headers
      /\ req'.body = req.body
  BY <1>2, <1>3 DEF RequestType
<1>5. QED
  BY <1>2, <1>4 DEF a

-----------------------------------------------------------------------------
(***************************************************************************)
(* Responses are typed, whoever makes them.                                 *)
(***************************************************************************)
LEMMA BodiesAre ==
    /\ \A b : b \in Bodies <=> b \in Text /\ Len(b) <= MaxLength
    /\ Empty \in Bodies /\ Empty \o <<"message">> \in Bodies
<1>1. \A b : b \in Bodies <=> b \in Text /\ Len(b) <= MaxLength
  BY DEF Bodies
<1>2. Len(Empty) = 0 /\ Len(<<"message">>) = 1
  BY DEF Empty
<1>3. Empty \o <<"message">> = <<"message">>
  <2>1. \A m \in Pieces : << >> \o <<m>> = <<m>>
    OBVIOUS
  <2>2. "message" \in Pieces
    BY MessagesAssumption
  <2>3. QED
    BY <2>1, <2>2 DEF Empty
<1>4. Empty \in Text /\ <<"message">> \in Text
  BY WordsAre
<1>5. 0 <= MaxLength /\ 1 <= MaxLength
  BY LengthAssumption
<1>6. Empty \in Bodies
  BY <1>1, <1>2, <1>4, <1>5
<1>7. <<"message">> \in Bodies
  BY <1>1, <1>2, <1>4, <1>5
<1>8. QED
  BY <1>1, <1>3, <1>6, <1>7

\* The lines of a head are texts.
LEMMA HeadTyped ==
    ASSUME NEW t \in HeaderTables, NEW n \in 0 .. MaxLength
    PROVE  HeadLines(t, n) \in Seq(Text)
<1>1. \A k, v \in Text : HeaderLine(k, v) \in Text
  BY Joined, WordsAre DEF HeaderLine
<1>2. HeaderLine(ContentLength, Number(n)) \in Text /\ <<"cr", LF>> \in Text
  BY <1>1, WordsAre, LengthAssumption
<1> DEFINE line(i) == HeaderLine(t[i].k, t[i].v)
           f == [i \in DOMAIN t |-> line(i)]
<1>3. t \in Seq([k : Text, v : Text])
  BY DEF HeaderTables
<1>4. DOMAIN t = 1 .. Len(t) /\ Len(t) \in Nat
  BY <1>3
<1>5. \A i \in 1 .. Len(t) : line(i) \in Text
  <2>1. \A i \in 1 .. Len(t) : t[i] \in [k : Text, v : Text]
    BY <1>3, ElementOfSeq
  <2>2. QED
    BY <1>1, <2>1
<1> HIDE DEF line
<1>6. f \in Seq(Text)
  BY <1>4, <1>5
<1>7. HeadLines(t, n) = <<HeaderLine(ContentLength, Number(n))>> \o f \o << <<"cr", LF>> >>
  BY DEF HeadLines, line
<1> HIDE DEF f
<1> DEFINE a == HeaderLine(ContentLength, Number(n))
           z == <<"cr", LF>>
<1> HIDE DEF a, z
<1>8. <<a>> \o f \o <<z>> \in Seq(Text)
  BY <1>2, <1>6 DEF a, z
<1>9. QED
  BY <1>7, <1>8 DEF a, z

\* What is in the table is in the head.
LEMMA HeaderSent ==
    ASSUME NEW t \in HeaderTables, NEW n, NEW k, NEW v,
           lk_stringtable_get(t, k) = v, v # NULL
    PROVE  HeaderLine(k, v) \in ToSet(HeadLines(t, n))
<1> DEFINE i == Position(t, k)
<1>1. t \in Seq([k : Text, v : Text]) /\ Len(t) \in Nat
  BY DEF HeaderTables
<1>2. i \in 0 .. Len(t) /\ (i # 0 => t[i].k = k)
  BY <1>1, PositionIs
<1>3. i # 0 /\ t[i].v = v
  BY DEF lk_stringtable_get
<1> HIDE DEF i
<1>4. i \in 1 .. Len(t) /\ i + 1 \in 1 .. Len(t) + 2
  BY <1>1, <1>2, <1>3
<1> DEFINE lines == HeadLines(t, n)
<1>5. lines[i + 1] = HeaderLine(t[i].k, t[i].v) /\ DOMAIN lines = 1 .. Len(t) + 2
  BY <1>1, <1>4, HeadLinesAre
<1> HIDE DEF lines
<1>6. lines[i + 1] = HeaderLine(k, v)
  BY <1>2, <1>3, <1>5
<1>7. HeaderLine(k, v) \in ToSet(lines)
  BY <1>4, <1>5, <1>6 DEF ToSet
<1>8. QED
  BY <1>7 DEF lines

LEMMA NewResponseTyped == lk_httpresponse_new \in ResponseType
<1>1. << >> \in HeaderTables /\ << >> \in Seq(Text)
  BY EmptySeq DEF HeaderTables
<1>2. QED
  BY <1>1, BodiesAre DEF lk_httpresponse_new, ResponseType

LEMMA HeaderTyped ==
    ASSUME NEW r \in ResponseType, NEW k \in Text, NEW v \in Text
    PROVE  lk_httpresponse_add_header(r, k, v) \in ResponseType
<1> DEFINE st == lk_stringtable_set(r.headers, k, v)
<1>1. r.headers \in HeaderTables
  BY DEF ResponseType
<1>2. st \in HeaderTables
  BY <1>1, SetKeepsUnique DEF HeaderTables
<1>3. lk_httpresponse_add_header(r, k, v) = [r EXCEPT !.headers = st]
  BY DEF lk_httpresponse_add_header
<1> HIDE DEF st
<1>4. QED
  BY <1>2, <1>3 DEF ResponseType

LEMMA MessageTyped ==
    ASSUME NEW r \in ResponseType, NEW status \in Nat, NEW type \in Text,
           r.body = Empty
    PROVE  /\ Message(r, status, type) \in ResponseType
           /\ Message(r, status, type).status = status
           /\ Message(r, status, type).headers =
                 lk_stringtable_set(r.headers, ContentType, type)
<1> DEFINE with == lk_httpresponse_add_header(r, ContentType, type)
           body == with.body \o <<"message">>
<1>1. with \in ResponseType
  BY HeaderTyped, WordsAre
<1>2. with.headers = lk_stringtable_set(r.headers, ContentType, type)
  <2>1. DOMAIN r = Fields
    BY DEF ResponseType, Fields
  <2>2. QED
    BY <2>1 DEF lk_httpresponse_add_header, Fields
<1>3. body \in Bodies
  <2>1. with.body = Empty
    <3>1. DOMAIN r = Fields
      BY DEF ResponseType, Fields
    <3>2. QED
      BY <3>1 DEF lk_httpresponse_add_header, Fields
  <2>2. QED
    BY <2>1, BodiesAre
<1>4. Message(r, status, type) = [with EXCEPT !.status = status, !.body = body]
  BY DEF Message
<1> HIDE DEF with, body
<1>5. QED
  BY <1>1, <1>2, <1>3, <1>4 DEF ResponseType

LEMMA RespondTyped ==
    ASSUME NEW r \in ResponseType, process_response(r)
    PROVE  /\ resp' \in ResponseType /\ pc' = "sent"
           /\ resp'.headers = r.headers
           /\ resp'.status = IF r.status = 0 THEN 200 ELSE r.status
           /\ resp'.head = HeadLines(r.headers, Len(r.body))
           /\ resp'.body = IF req.method = <<"HEAD">> THEN Empty ELSE r.body
<1> DEFINE status == IF r.status = 0 THEN 200 ELSE r.status
           head == HeadLines(r.headers, Len(r.body))
           fin == [r EXCEPT !.status = status, !.head = head]
<1>1. fin = lk_httpresponse_finalize(r)
  BY DEF lk_httpresponse_finalize
<1>2. status \in Nat /\ r.body \in Bodies /\ r.headers \in HeaderTables
  BY DEF ResponseType
<1>3. head \in Seq(Text)
  <2>1. r.body \in Text /\ Len(r.body) <= MaxLength
    BY <1>2, BodiesAre
  <2>2. Len(r.body) \in 0 .. MaxLength
    BY <2>1, LengthAssumption DEF Text
  <2>3. QED
    BY <1>2, <2>2, HeadTyped
<1> HIDE DEF status, head
<1>4. /\ fin \in ResponseType /\ fin.headers = r.headers /\ fin.status = status
      /\ fin.head = head /\ fin.body = r.body
  BY <1>2, <1>3 DEF ResponseType
<1> HIDE DEF fin
<1>5. CASE req.method = <<"HEAD">>
  <2>1. pc' = "sent" /\ resp' = [fin EXCEPT !.body = Empty]
    BY <1>1, <1>5 DEF process_response
  <2>2. QED
    BY <1>4, <1>5, <2>1, BodiesAre DEF ResponseType, status, head
<1>6. CASE req.method # <<"HEAD">>
  <2>1. pc' = "sent" /\ resp' = fin
    BY <1>1, <1>6 DEF process_response
  <2>2. QED
    BY <1>4, <1>6, <2>1 DEF status, head
<1>7. QED
  BY <1>5, <1>6

LEMMA ErrorTyped ==
    ASSUME resp \in ResponseType, resp.body = Empty, NEW status \in Nat,
           process_error_response(status)
    PROVE  resp' \in ResponseType /\ pc' = "sent"
<1>1. Message(resp, status, PlainText) \in ResponseType
  BY MessageTyped, WordsAre
<1>2. QED
  BY <1>1, RespondTyped DEF process_error_response

LEMMA CgiHeaderTyped ==
    ASSUME NEW r \in ResponseType, NEW s \in Text
    PROVE  parse_cgi_header_line(r, s) \in ResponseType
<1> DEFINE h == Header(s)
           k == h[1]
           v == h[2]
           with == lk_httpresponse_add_header(r, k, v)
           status == IF v # Empty /\ v[1] \in DOMAIN Numbers THEN Numbers[v[1]] ELSE 0
<1>1. CASE h = << >>
  BY <1>1 DEF parse_cgi_header_line
<1>2. CASE h # << >>
  <2>1. s \in Seq(Pieces)
    BY DEF Text
  <2>2. k \in Text /\ v \in Text
    BY <1>2, <2>1, HeaderOf DEF Text
  <2>3. with \in ResponseType
    BY <2>2, HeaderTyped
  <2>4. status \in Nat
    BY NumbersAssumption
  <2>5. parse_cgi_header_line(r, s) =
           IF k = <<"Status">> THEN [with EXCEPT !.status = status] ELSE with
    BY <1>2 DEF parse_cgi_header_line
  <2> HIDE DEF with, status
  <2>6. QED
    BY <2>3, <2>4, <2>5 DEF ResponseType
<1>3. QED
  BY <1>1, <1>2

-----------------------------------------------------------------------------
(***************************************************************************)
(* The files of a path.                                                     *)
(***************************************************************************)
LEMMA FilesAre ==
    /\ Len(DefaultFiles) = 4
    /\ DefaultFiles \in Seq(Text)
    /\ \A n \in 1 .. 4 : DefaultFiles[n] \in Text /\ DefaultFiles[n] # Empty
<1>1. \A x, y \in Pieces : <<x, y>> \in Seq(Pieces) /\ <<x, y>> # << >>
  OBVIOUS
<1>2. \A x \in {"index.html", "index.htm", "default.html", "default.htm"} :
         <<"/", x>> \in Text /\ <<"/", x>> # Empty
  BY <1>1, PiecesAssumption, MessagesAssumption DEF Text, Empty
<1> DEFINE a == <<"/", "index.html">>
           b == <<"/", "index.htm">>
           c == <<"/", "default.html">>
           d == <<"/", "default.htm">>
<1>3. /\ a \in Text /\ a # Empty /\ b \in Text /\ b # Empty
      /\ c \in Text /\ c # Empty /\ d \in Text /\ d # Empty
  BY <1>2
<1>4. DefaultFiles = <<a, b, c, d>>
  BY DEF DefaultFiles
<1> HIDE DEF a, b, c, d
<1>5. QED
  BY <1>3, <1>4

\* FileOf is the first of the candidates that exists, Empty if there is none.
LEMMA FileOfIs ==
    ASSUME NEW p \in Text,
           NEW candidates, candidates = IF p = Empty THEN DefaultFiles ELSE <<p>>
    PROVE  \/ \E n \in DOMAIN candidates :
                 /\ Exists(candidates[n]) /\ \A m \in 1 .. n - 1 : ~Exists(candidates[m])
                 /\ FileOf(p) = candidates[n] /\ FileOf(p) # Empty
           \/ /\ \A n \in DOMAIN candidates : ~Exists(candidates[n])
              /\ FileOf(p) = Empty
<1>1. CASE p # Empty
  <2>1. candidates = <<p>> /\ FileOf(p) = IF Exists(p) THEN p ELSE Empty
    BY <1>1 DEF FileOf
  <2>2. DOMAIN candidates = 1 .. 1 /\ candidates[1] = p /\ 1 \in DOMAIN candidates
    BY <2>1
  <2>3. \A n \in DOMAIN candidates : n = 1
    BY <2>2
  <2>4. \A m \in 1 .. 1 - 1 : FALSE
    OBVIOUS
  <2>5. QED
    BY <1>1, <2>1, <2>2, <2>3, <2>4
<1>2. CASE p = Empty
  <2> DEFINE I == {i \in 1 .. Len(DefaultFiles) : Exists(DefaultFiles[i])}
             n == SelectInSeq(DefaultFiles, Exists)
  <2>1. n = IF I # {} THEN Min(I) ELSE 0
    BY DEF SelectInSeq
  <2>2. candidates = DefaultFiles /\ FileOf(p) = IF n = 0 THEN Empty ELSE DefaultFiles[n]
    BY <1>2 DEF FileOf
  <2>3. DOMAIN DefaultFiles = 1 .. 4 /\ I = {i \in 1 .. 4 : Exists(DefaultFiles[i])}
    BY FilesAre
  <2>4. CASE I = {}
    BY <2>1, <2>2, <2>3, <2>4
  <2>5. CASE I # {}
    <3>1. I \subseteq Nat
      BY <2>3
    <3>2. \A i \in 1 .. 4 : Exists(DefaultFiles[i]) => i \in I
      BY <2>3
    <3>3. \A i \in I : i \in 1 .. 4 /\ Exists(DefaultFiles[i])
      BY <2>3
    <3> HIDE DEF I, n
    <3>4. n \in I /\ \A i \in I : n <= i
      BY <2>1, <2>5, <3>1, LeastOf
    <3>5. n \in 1 .. 4 /\ n # 0 /\ Exists(DefaultFiles[n])
      BY <3>3, <3>4
    <3>6. \A m \in 1 .. n - 1 : ~Exists(DefaultFiles[m])
      <4>1. \A m \in 1 .. n - 1 : m \in 1 .. 4 /\ ~(n <= m)
        BY <3>5
      <4>2. QED
        BY <3>2, <3>4, <4>1
    <3>7. FileOf(p) = DefaultFiles[n] /\ DefaultFiles[n] # Empty
      BY <2>2, <3>5, FilesAre
    <3>8. QED
      BY <2>2, <2>3, <3>5, <3>6, <3>7
  <2>6. QED
    BY <2>4, <2>5
<1>3. QED
  BY <1>1, <1>2

-----------------------------------------------------------------------------
(***************************************************************************)
(* Every step keeps the types.                                              *)
(***************************************************************************)
LEMMA EnvironmentTyped ==
    ASSUME NEW e \in [EnvNames -> Text], NEW r \in RequestType,
           NEW homedir \in Text, NEW from \in Text, Number(Len(r.body)) \in Text
    PROVE  set_cgi_env2(e, r, homedir, from) \in [EnvNames -> Text]
<1> DEFINE header(k) == OrEmpty(lk_stringtable_get(r.headers, <<k>>))
           type == OrEmpty(ContentTypeOf(r))
           agent == header("User-Agent")
           host == header("Host")
           script == homedir \o r.path
           length == Number(Len(r.body))
           new == [e EXCEPT !.DOCUMENT_ROOT = homedir,
                            !.HTTP_USER_AGENT = agent,
                            !.HTTP_HOST = host,
                            !.SCRIPT_FILENAME = script,
                            !.REQUEST_METHOD = r.method,
                            !.SCRIPT_NAME = r.path,
                            !.REQUEST_URI = r.uri,
                            !.QUERY_STRING = r.querystring,
                            !.CONTENT_TYPE = type,
                            !.CONTENT_LENGTH = length,
                            !.REMOTE_ADDR = from]
<1>1. set_cgi_env2(e, r, homedir, from) = new
  BY DEF set_cgi_env2, Environment
<1>2. r.headers \in HeaderTables
  BY DEF RequestType
<1>3. \A k : OrEmpty(lk_stringtable_get(r.headers, k)) \in Text
  BY <1>2, GetIs, WordsAre DEF OrEmpty
<1>4. type \in Text /\ agent \in Text /\ host \in Text
  BY <1>3 DEF ContentTypeOf
<1>5. /\ r.path \in Text /\ r.method \in Text /\ r.uri \in Text
      /\ r.querystring \in Text
  BY DEF RequestType
<1>6. script \in Text
  BY <1>5, Joined
<1> DEFINE path == r.path
           method == r.method
           uri == r.uri
           query == r.querystring
<1>7. path \in Text /\ method \in Text /\ uri \in Text /\ query \in Text
  BY <1>5
<1>8. new = [name \in EnvNames |->
               IF name = "DOCUMENT_ROOT" THEN homedir
               ELSE IF name = "HTTP_USER_AGENT" THEN agent
               ELSE IF name = "HTTP_HOST" THEN host
               ELSE IF name = "SCRIPT_FILENAME" THEN script
               ELSE IF name = "REQUEST_METHOD" THEN method
               ELSE IF name = "SCRIPT_NAME" THEN path
               ELSE IF name = "REQUEST_URI" THEN uri
               ELSE IF name = "QUERY_STRING" THEN query
               ELSE IF name = "CONTENT_TYPE" THEN type
               ELSE IF name = "CONTENT_LENGTH" THEN length
               ELSE IF name = "REMOTE_ADDR" THEN from
               ELSE e[name]]
  <2> HIDE DEF type, agent, host, script, length, path, method, uri, query
  <2>1. DOMAIN e = EnvNames
    OBVIOUS
  <2>2. QED
    BY <2>1 DEF path, method, uri, query
<1>9. length \in Text
  OBVIOUS
<1> HIDE DEF type, agent, host, script, length, path, method, uri, query, new
<1>10. new \in [EnvNames -> Text]
  BY <1>4, <1>6, <1>7, <1>8, <1>9
<1>11. QED
  BY <1>1, <1>10

LEMMA FirstEnvironment == set_cgi_env1 \in [EnvNames -> Text]
<1>1. \A name \in EnvNames : set_cgi_env1[name] \in Text
  BY WordsAre DEF set_cgi_env1
<1>2. set_cgi_env1 = [name \in EnvNames |-> set_cgi_env1[name]]
  BY DEF set_cgi_env1
<1>3. QED
  BY <1>1, <1>2

LEMMA TypesAre ==
    TypeOK =>
       /\ hosts \in Hosts /\ raw \in Requests \cup {NoRequest}
       /\ req \in RequestType /\ env \in [EnvNames -> Text]
       /\ output \in Bodies /\ output \in Text /\ cur \in 0 .. Len(output)
       /\ resp \in ResponseType
BY BodiesAre DEF TypeOK, RequestType, ResponseType, HeaderTables

\* To be shown of a step that leaves the hosts alone.
LEMMA Typed2 ==
    ASSUME TypeOK, hosts' = hosts, raw' \in Requests \cup {NoRequest},
           req' \in RequestType, env' \in [EnvNames -> Text],
           pc' \in {"idle", "request", "files", "cgi", "cgihead", "sent", "proxy"},
           output' \in Bodies, cur' \in 0 .. Len(output'), resp' \in ResponseType
    PROVE  TypeOK'
BY DEF TypeOK, RequestType, ResponseType, HeaderTables

\* Where the line ends that is read from the output, and that there is one.
LEMMA LineEndIs ==
    ASSUME NEW end, output \in Text, cur \in 0 .. Len(output), cur < Len(output),
           end \in LineEnds(output), cur < end,
           \A d \in LineEnds(output) : cur < d => end <= d
    PROVE  /\ LineEnd = Least(end, cur + LineSize - 1)
           /\ LineEnd \in cur + 1 .. Len(output)
<1> DEFINE ends == {i \in cur + 1 .. Len(output) : output[i] = LF}
           last == IF ends = {} THEN Len(output)
                   ELSE CHOOSE i \in ends : \A j \in ends : i <= j
<1>1. Len(output) \in Nat /\ DOMAIN output = 1 .. Len(output) /\ cur \in Nat
  BY DEF Text
<1>2. \A i : i \in ends <=> i \in LineEnds(output) /\ i > cur /\ output[i] = LF
             /\ i \in 1 .. Len(output)
  BY <1>1 DEF LineEnds
<1>3. end \in ends \/ end = Len(output)
  BY <1>1, <1>2 DEF LineEnds
<1>4. \A i \in ends : end <= i /\ i \in Nat
  BY <1>2
<1>5. end \in 1 .. Len(output)
  BY <1>1 DEF LineEnds
<1> HIDE DEF ends
<1>6. last = end
  <2>1. CASE ends = {}
    BY <1>3, <2>1
  <2>2. CASE ends # {}
    <3>1. end \in ends
      <4>1. PICK i \in ends : TRUE
        BY <2>2
      <4>2. end <= i /\ i \in 1 .. Len(output)
        BY <1>2, <1>4, <4>1
      <4>3. end = Len(output) => i = end
        <5> DEFINE n == Len(output)
        <5>1. n \in Nat /\ end \in 1 .. n /\ i \in 1 .. n /\ end <= i
          BY <1>1, <1>5, <4>2
        <5> HIDE DEF n
        <5>2. end = n => i = end
          BY <5>1
        <5>3. QED
          BY <5>2 DEF n
      <4>4. QED
        BY <1>3, <4>1, <4>3
    <3>2. \A i \in ends : (\A j \in ends : i <= j) => i = end
      BY <1>4, <1>5, <3>1
    <3>3. last \in ends /\ \A j \in ends : last <= j
      BY <1>4, <2>2, <3>1
    <3> HIDE DEF last
    <3>4. QED
      BY <3>2, <3>3
  <2>3. QED
    BY <2>1, <2>2
<1>7. LineEnd = Least(last, cur + LineSize - 1)
  BY DEF LineEnd, ends
<1> HIDE DEF last
<1>8. Least(end, cur + LineSize - 1) \in cur + 1 .. Len(output)
  BY <1>1, <1>5, LineSizeAssumption DEF Least
<1>9. QED
  BY <1>6, <1>7, <1>8

LEMMA NextLine ==
    ASSUME output \in Text, cur \in 0 .. Len(output), cur < Len(output)
    PROVE  \E end \in LineEnds(output) :
              /\ cur < end /\ \A d \in LineEnds(output) : cur < d => end <= d
<1> DEFINE D == {d \in LineEnds(output) : cur < d}
<1>1. Len(output) \in Nat /\ DOMAIN output = 1 .. Len(output)
  BY DEF Text
<1>2. LineEnds(output) \subseteq Nat /\ Len(output) \in D
  BY <1>1 DEF LineEnds
<1>3. \A d : d \in D <=> d \in LineEnds(output) /\ cur < d
  OBVIOUS
<1> HIDE DEF D
<1>4. D \subseteq Nat /\ D # {}
  BY <1>2, <1>3
<1>5. Min(D) \in D /\ \A d \in D : Min(D) <= d
  BY <1>4, LeastOf
<1>6. QED
  BY <1>3, <1>5

\* The line that is read is a text.
LEMMA LineIs ==
    ASSUME output \in Text, cur \in 0 .. Len(output), cur < Len(output)
    PROVE  LineEnd \in cur + 1 .. Len(output) /\ cgiline \in Text
<1>1. LineEnd \in cur + 1 .. Len(output)
  BY NextLine, LineEndIs
<1>2. output \in Seq(Pieces) /\ Len(output) \in Nat
  BY DEF Text
<1>3. cur + 1 \in Nat \ {0} /\ LineEnd \in 0 .. Len(output)
  BY <1>1, <1>2
<1>4. SubSeq(output, cur + 1, LineEnd) \in Seq(Pieces)
  BY <1>2, <1>3, PartIs
<1>5. QED
  BY <1>1, <1>4, ChompOf DEF cgiline, Text

LEMMA RequestTyped ==
    ASSUME TypeOK, RouteInv, ReadRequest \/ SessionEnds
    PROVE  TypeOK'
<1>1. CASE ReadRequest
  <2>1. /\ raw' \in Requests /\ req' = [Parsed(raw'.head) EXCEPT !.body = raw'.body]
        /\ pc' = "request" /\ UNCHANGED <<hosts, env, output, cur, resp>>
    BY <1>1 DEF ReadRequest
  <2>2. req' \in RequestType
    BY <2>1, ReadIs
  <2>3. QED
    BY <2>1, <2>2, TypesAre, Typed2
<1>2. CASE SessionEnds
  <2>1. /\ raw' = NoRequest /\ req' = lk_httprequest_new /\ pc' = "idle"
        /\ output' = Empty /\ cur' = 0 /\ resp' = lk_httpresponse_new
        /\ UNCHANGED <<hosts, env>>
    BY <1>2 DEF SessionEnds
  <2>2. cur' \in 0 .. Len(output')
    BY <2>1 DEF Empty
  <2>3. QED
    BY <2>1, <2>2, TypesAre, Typed2, NewRequestIs, NewResponseTyped, BodiesAre
<1>3. QED
  BY <1>1, <1>2

LEMMA RouteTyped ==
    ASSUME TypeOK, RouteInv, NoHost \/ Proxy \/ NoHomedir \/ ServeCgi \/ ToFiles
    PROVE  TypeOK'
<1>0. pc = "request" => resp.body = Empty
  BY DEF RouteInv, lk_httpresponse_new
<1>1. CASE NoHost
  BY <1>0, <1>1, TypesAre, Typed2, ErrorTyped DEF NoHost
<1>2. CASE Proxy
  <2>1. Routed /\ UNCHANGED <<hosts, raw, env, output, cur>>
    BY <1>2 DEF Proxy
  <2>2. CASE process_error_response(500) /\ UNCHANGED req
    BY <1>0, <2>1, <2>2, TypesAre, Typed2, ErrorTyped DEF Routed
  <2>3. CASE pc' = "proxy" /\ req' = lk_httprequest_finalize(req) /\ UNCHANGED resp
    <3>1. raw \in Requests /\ req \in RequestType /\ req.body = raw.body
      BY <2>1, AliasedIs
    <3>2. Number(Len(req.body)) \in Text
      BY <3>1, ReadIs
    <3>3. req' \in RequestType
      BY <2>3, <3>1, <3>2, FinalizedIs
    <3>4. QED
      BY <2>1, <2>3, <3>3, TypesAre, Typed2
  <2>4. QED
    BY <1>2, <2>2, <2>3 DEF Proxy
<1>3. CASE NoHomedir
  BY <1>0, <1>3, TypesAre, Typed2, ErrorTyped DEF NoHomedir, Routed
<1>4. CASE ServeCgi
  <2>1. Local /\ UNCHANGED <<hosts, raw, output, cur>>
    BY <1>4 DEF ServeCgi
  <2>2. Routed
    BY <2>1 DEF Local
  <2>3. req' \in RequestType /\ req'.body = raw.body
    BY <2>1, LocalIs
  <2>4. raw \in Requests /\ HC \in HostConfig
    BY <2>2, AliasedIs
  <2>5. HC.homedir_abspath \in Text
    BY <2>4 DEF HostConfig
  <2>6. raw.from \in Text /\ Number(Len(raw.body)) \in Text
    BY <2>4, ReadIs
  <2>7. env \in [EnvNames -> Text]
    BY TypesAre
  <2>8. Number(Len(req'.body)) \in Text
    BY <2>3, <2>6
  <2>9. set_cgi_env2(env, req', HC.homedir_abspath, raw.from) \in [EnvNames -> Text]
    BY <2>3, <2>5, <2>6, <2>7, <2>8, EnvironmentTyped
  <2>10. \/ UNCHANGED env
         \/ env' = set_cgi_env2(env, req', HC.homedir_abspath, raw.from)
    BY <1>4 DEF ServeCgi
  <2>11. env' \in [EnvNames -> Text]
    BY <2>7, <2>9, <2>10
  <2>12. \/ process_error_response(404) \/ process_error_response(500)
         \/ pc' = "cgi" /\ UNCHANGED resp
    BY <1>4 DEF ServeCgi
  <2>13. resp' \in ResponseType /\ pc' \in {"sent", "cgi"}
    BY <1>0, <2>2, <2>12, TypesAre, ErrorTyped DEF Routed
  <2>14. QED
    BY <2>1, <2>3, <2>11, <2>13, TypesAre, Typed2
<1>5. CASE ToFiles
  <2>1. Local /\ pc' = "files" /\ UNCHANGED <<hosts, raw, env, output, cur, resp>>
    BY <1>5 DEF ToFiles
  <2>2. req' \in RequestType
    BY <2>1, LocalIs
  <2>3. QED
    BY <2>1, <2>2, TypesAre, Typed2
<1>6. QED
  BY <1>1, <1>2, <1>3, <1>4, <1>5

\* The reply with a file, or without one.
LEMMA FileTyped ==
    ASSUME TypeOK, RouteInv, pc = "files"
    PROVE  /\ WithFile(resp) \in ResponseType
           /\ Typed(WithFile(resp)) \in ResponseType
           /\ WithFile(resp).headers = resp.headers
           /\ FileOf(req.path) = Empty => Typed(WithFile(resp)).body = Empty
<1>1. req.path \in Text /\ resp \in ResponseType /\ HC \in HostConfig /\ resp.body = Empty
  <2>1. hosts \in Hosts /\ HostFound
    BY TypesAre DEF RouteInv
  <2>2. HC \in HostConfig
    BY <2>1, FoundIs
  <2>3. req \in RequestType /\ resp \in ResponseType
    BY TypesAre
  <2>4. QED
    BY <2>2, <2>3 DEF RequestType, RouteInv, lk_httpresponse_new
<1> DEFINE file == FileOf(req.path)
           body == resp.body \o Content[HC.homedir_abspath \o file]
           r == WithFile(resp)
<1>2. r \in ResponseType /\ r.headers = resp.headers
  <2>1. CASE file = Empty
    BY <1>1, <2>1 DEF WithFile
  <2>2. CASE file # Empty
    <3>1. r = [resp EXCEPT !.body = body]
      BY <2>2 DEF WithFile
    <3>2. Exists(file)
      <4> DEFINE candidates == IF req.path = Empty THEN DefaultFiles ELSE <<req.path>>
      <4>1. \E n \in DOMAIN candidates : Exists(candidates[n]) /\ file = candidates[n]
        BY <1>1, <2>2, FileOfIs
      <4>2. QED
        BY <4>1
    <3>3. body \in Bodies
      <4> DEFINE content == Content[HC.homedir_abspath \o file]
      <4>1. content \in Text /\ Len(content) <= MaxLength
        BY <3>2, OutputsAssumption DEF Exists
      <4> HIDE DEF content
      <4>2. Empty \o content = content
        BY <4>1, ConcatEmptySeq DEF Empty, Text
      <4>3. body = content
        BY <1>1, <4>2 DEF content
      <4>4. QED
        BY <4>1, <4>3, BodiesAre
    <3> HIDE DEF body, r
    <3>4. QED
      BY <1>1, <3>1, <3>3 DEF ResponseType
  <2>3. QED
    BY <2>1, <2>2
<1> HIDE DEF r
<1>3. mimetype(req.path) \in Text
  BY WordsAre DEF mimetype
<1>4. lk_httpresponse_add_header(r, ContentType, mimetype(req.path)) \in ResponseType
  BY <1>2, <1>3, HeaderTyped, WordsAre
<1>5. Typed(r) \in ResponseType
  BY <1>2, <1>4 DEF Typed
<1>6. file = Empty => Typed(r).body = Empty
  <2>1. file = Empty => r = resp
    BY DEF WithFile, r
  <2>2. DOMAIN r = Fields
    BY <1>2 DEF ResponseType, Fields
  <2>3. Typed(r).body = r.body
    BY <2>2 DEF Typed, lk_httpresponse_add_header, Fields
  <2>4. QED
    BY <1>1, <2>1, <2>3
<1>7. QED
  BY <1>2, <1>5, <1>6 DEF r

LEMMA TriedTyped ==
    ASSUME NEW p \in Text
    PROVE  Tried(p) \in Text
<1> DEFINE n == SelectInSeq(DefaultFiles, Exists)
           I == {i \in 1 .. Len(DefaultFiles) : Exists(DefaultFiles[i])}
<1>1. n = IF I # {} THEN Min(I) ELSE 0
  BY DEF SelectInSeq
<1>2. I \subseteq Nat /\ \A i \in I : i \in 1 .. 4
  BY FilesAre
<1> HIDE DEF I
<1>3. n = 0 \/ n \in 1 .. 4
  BY <1>1, <1>2, LeastOf
<1>4. Last(DefaultFiles) = DefaultFiles[4]
  BY FilesAre DEF Last
<1>5. Tried(p) = CASE p # Empty \/ n = 1 -> p
                   [] p = Empty /\ n = 0 -> Last(DefaultFiles)
                   [] OTHER              -> DefaultFiles[n - 1]
  BY DEF Tried
<1> HIDE DEF n
<1>6. CASE p # Empty \/ n = 1
  BY <1>5, <1>6
<1>7. CASE p = Empty /\ n = 0
  BY <1>4, <1>5, <1>7, FilesAre
<1>8. CASE p = Empty /\ n # 0 /\ n # 1
  <2>1. n - 1 \in 1 .. 4
    BY <1>3, <1>8
  <2>2. Tried(p) = DefaultFiles[n - 1]
    BY <1>5, <1>8
  <2>3. QED
    BY <2>1, <2>2, FilesAre
<1>9. QED
  BY <1>6, <1>7, <1>8

LEMMA FilesTyped ==
    ASSUME TypeOK, RouteInv, GetFile \/ OtherMethod
    PROVE  TypeOK'
<1>1. req \in RequestType /\ resp \in ResponseType
  BY TypesAre
<1>2. CASE GetFile
  <2> DEFINE r == Typed(WithFile(resp))
             answer == IF FileOf(req.path) = Empty THEN Message(r, 404, PlainText) ELSE r
             tried == Tried(req.path)
  <2>1. /\ process_response(answer) /\ req' = [req EXCEPT !.path = tried]
        /\ UNCHANGED <<hosts, raw, env, output, cur>>
    BY <1>2 DEF GetFile
  <2>2. pc = "files"
    BY <1>2 DEF GetFile
  <2>3. r \in ResponseType /\ (FileOf(req.path) = Empty => r.body = Empty)
    BY <2>2, FileTyped
  <2> HIDE DEF r
  <2>4. answer \in ResponseType
    BY <2>3, MessageTyped, WordsAre
  <2>5. tried \in Text
    <3>1. req.path \in Text
      BY <1>1 DEF RequestType
    <3>2. QED
      BY <3>1, TriedTyped
  <2> HIDE DEF answer, tried
  <2>6. req' \in RequestType
    BY <1>1, <2>1, <2>5 DEF RequestType
  <2>7. resp' \in ResponseType /\ pc' = "sent"
    BY <2>1, <2>4, RespondTyped
  <2>8. QED
    BY <2>1, <2>6, <2>7, TypesAre, Typed2
<1>3. CASE OtherMethod
  <2> DEFINE status == IF req.method = <<"POST">> THEN 0 ELSE 501
  <2>1. /\ process_response(Message(resp, status, Html))
        /\ UNCHANGED <<hosts, raw, req, env, output, cur>>
    BY <1>3 DEF OtherMethod
  <2>2. status \in Nat
    OBVIOUS
  <2> HIDE DEF status
  <2>5. Message(resp, status, Html) \in ResponseType
    <3>1. resp.body = Empty
      BY <1>3 DEF OtherMethod, RouteInv, lk_httpresponse_new
    <3>2. QED
      BY <1>1, <2>2, <3>1, MessageTyped, WordsAre
  <2>3. resp' \in ResponseType /\ pc' = "sent"
    BY <2>1, <2>5, RespondTyped
  <2>4. QED
    BY <2>1, <2>3, TypesAre, Typed2
<1>4. QED
  BY <1>2, <1>3

\* What the parser of the output hands on.
LEMMA CgiBodyTyped ==
    ASSUME TypeOK, NEW c \in 0 .. Len(output)
    PROVE  /\ SubSeq(output, c + 1, Len(output)) \in Bodies
           /\ [resp EXCEPT !.body = SubSeq(output, c + 1, Len(output))] \in ResponseType
<1> DEFINE body == SubSeq(output, c + 1, Len(output))
<1>1. output \in Seq(Pieces) /\ resp \in ResponseType
  BY TypesAre DEF Text
<1>2. c + 1 \in Nat \ {0} /\ Len(output) \in 0 .. Len(output)
  BY <1>1
<1>3. body \in Bodies
  <2>1. body \in Text /\ Len(body) <= Len(output)
    BY <1>1, <1>2, PartIs DEF Text
  <2>2. output \in Bodies
    BY TypesAre
  <2> HIDE DEF body
  <2>3. Len(output) \in Nat /\ Len(body) \in Nat
    BY <1>1, <2>1 DEF Text
  <2>4. Len(body) <= MaxLength
    BY <2>1, <2>2, <2>3, BodiesAre, LengthAssumption
  <2>5. QED
    BY <2>1, <2>4, BodiesAre
<1> HIDE DEF body
<1>4. [resp EXCEPT !.body = body] \in ResponseType
  BY <1>1, <1>3 DEF ResponseType
<1>5. QED
  BY <1>3, <1>4 DEF body

LEMMA CgiErrorTyped ==
    ASSUME TypeOK
    PROVE  [lk_httpresponse_add_header(resp, ContentType, PlainText)
              EXCEPT !.body = output] \in ResponseType
<1> DEFINE with == lk_httpresponse_add_header(resp, ContentType, PlainText)
<1>1. with \in ResponseType
  BY TypesAre, HeaderTyped, WordsAre
<1> HIDE DEF with
<1>2. output \in Bodies
  BY TypesAre
<1>3. [with EXCEPT !.body = output] \in ResponseType
  BY <1>1, <1>2 DEF ResponseType
<1>4. QED
  BY <1>3 DEF with

LEMMA CgiTyped ==
    ASSUME TypeOK, RouteInv,
           CgiFails \/ CgiEnds \/ CgiHeaderLine \/ CgiEmptyLine \/ CgiNoEmptyLine
    PROVE  TypeOK'
<1>1. resp \in ResponseType /\ output \in Text /\ cur \in 0 .. Len(output)
  BY TypesAre
<1>2. CASE CgiFails
  BY <1>1, <1>2, TypesAre, Typed2, ErrorTyped
     DEF CgiFails, RouteInv, lk_httpresponse_new
<1>3. CASE CgiEnds
  <2>1. /\ output' \in Outputs[HC.homedir_abspath \o req.path] /\ pc' = "cgihead"
        /\ UNCHANGED <<hosts, raw, req, env, cur, resp>>
    BY <1>3 DEF CgiEnds
  <2>2. cur = 0 /\ HC.homedir_abspath \o req.path \in Programs
    BY <1>3 DEF CgiEnds, RouteInv
  <2>3. output' \in Bodies /\ output' \in Text
    BY <2>1, <2>2, OutputsAssumption, BodiesAre
  <2>4. cur' \in 0 .. Len(output')
    BY <2>1, <2>2, <2>3 DEF Text
  <2>5. QED
    BY <2>1, <2>3, <2>4, TypesAre, Typed2
<1>4. CASE CgiHeaderLine
  <2>1. /\ cur < Len(output) /\ cur' = LineEnd
        /\ resp' = parse_cgi_header_line(resp, cgiline)
        /\ UNCHANGED <<hosts, raw, req, env, pc, output>>
    BY <1>4 DEF CgiHeaderLine
  <2>2. LineEnd \in cur + 1 .. Len(output) /\ cgiline \in Text
    BY <1>1, <2>1, LineIs
  <2>3. resp' \in ResponseType
    BY <1>1, <2>1, <2>2, CgiHeaderTyped
  <2>4. cur' \in 0 .. Len(output')
    BY <1>1, <2>1, <2>2 DEF Text
  <2>5. pc' = "cgihead"
    BY <1>4 DEF CgiHeaderLine
  <2>6. QED
    BY <2>1, <2>3, <2>4, <2>5, TypesAre, Typed2
<1>5. CASE CgiEmptyLine
  <2> DEFINE c == LineEnd
             r == [resp EXCEPT !.body = SubSeq(output, c + 1, Len(output))]
  <2>1. /\ cur < Len(output) /\ cur' = c /\ process_response(r)
        /\ UNCHANGED <<hosts, raw, req, env, output>>
    BY <1>5 DEF CgiEmptyLine
  <2>2. c \in cur + 1 .. Len(output)
    BY <1>1, <2>1, LineIs
  <2>3. c \in 0 .. Len(output)
    BY <1>1, <2>2 DEF Text
  <2> HIDE DEF c
  <2>4. r \in ResponseType
    BY <2>3, CgiBodyTyped
  <2> HIDE DEF r
  <2>5. resp' \in ResponseType /\ pc' = "sent"
    BY <2>1, <2>4, RespondTyped
  <2>6. QED
    BY <2>1, <2>3, <2>5, TypesAre, Typed2
<1>6. CASE CgiNoEmptyLine
  <2> DEFINE with == [lk_httpresponse_add_header(resp, ContentType, PlainText)
                        EXCEPT !.body = output]
             r == IF lk_stringtable_get(resp.headers, ContentType) # NULL THEN resp
                  ELSE with
  <2>1. process_response(r) /\ UNCHANGED <<hosts, raw, req, env, output, cur>>
    BY <1>6 DEF CgiNoEmptyLine
  <2>2. with \in ResponseType
    BY CgiErrorTyped
  <2> HIDE DEF with
  <2>3. r \in ResponseType
    BY <1>1, <2>2
  <2> HIDE DEF r
  <2>4. resp' \in ResponseType /\ pc' = "sent"
    BY <2>1, <2>3, RespondTyped
  <2>5. QED
    BY <2>1, <2>4, TypesAre, Typed2
<1>7. QED
  BY <1>2, <1>3, <1>4, <1>5, <1>6

-----------------------------------------------------------------------------
(***************************************************************************)
(* Every step keeps RouteInv.                                               *)
(***************************************************************************)

\* A reply made before there is any output leaves nothing to show.
LEMMA RouteSent ==
    ASSUME pc' = "sent"
    PROVE  RouteInv'
BY DEF RouteInv

LEMMA RespondsSent ==
    ASSUME NEW r, process_response(r)
    PROVE  pc' = "sent"
BY DEF process_response

LEMMA ErrorSent ==
    ASSUME NEW status, process_error_response(status)
    PROVE  pc' = "sent"
BY RespondsSent DEF process_error_response

LEMMA NextRoute ==
    ASSUME TypeOK, RouteInv, Next
    PROVE  RouteInv'
<1>1. CASE ReadRequest
  BY <1>1 DEF ReadRequest, RouteInv
<1>2. CASE SessionEnds
  BY <1>2 DEF SessionEnds, RouteInv
<1>3. CASE NoHost \/ NoHomedir \/ OtherMethod \/ CgiFails
  BY <1>3, RouteSent, RespondsSent, ErrorSent DEF NoHost, NoHomedir, OtherMethod, CgiFails
<1>4. CASE GetFile \/ CgiEmptyLine \/ CgiNoEmptyLine
  BY <1>4, RouteSent, RespondsSent DEF GetFile, CgiEmptyLine, CgiNoEmptyLine
<1>5. CASE Proxy
  <2>1. CASE process_error_response(500)
    BY <2>1, RouteSent, ErrorSent
  <2>2. CASE pc' = "proxy" /\ UNCHANGED <<resp, output, cur>>
    BY <1>5, <2>2 DEF RouteInv, Proxy, Routed
  <2>3. QED
    BY <1>5, <2>1, <2>2 DEF Proxy
<1>6. CASE (ServeCgi /\ pc' # "sent") \/ ToFiles
  <2>1. Local /\ UNCHANGED <<hosts, raw, output, cur, resp>>
    <3>1. CASE ToFiles
      BY <3>1 DEF ToFiles
    <3>2. CASE ServeCgi /\ pc' # "sent"
      BY <3>2, ErrorSent DEF ServeCgi
    <3>3. QED
      BY <1>6, <3>1, <3>2
  <2>2. Routed /\ HC.proxyhost = Empty /\ HC.homedir # Empty
    BY <2>1 DEF Local
  <2>3. /\ req'.path = Asked /\ req'.headers = req.headers
    BY <2>1, LocalIs
  <2>4. Aliased = Asked
    BY <2>2, AliasedIs
  <2>5. HC' = HC /\ HostFound' = HostFound /\ Asked' = Asked
    BY <2>1, <2>3, SameHost
  <2>6. HostFound /\ resp = lk_httpresponse_new /\ output = Empty /\ cur = 0
    BY <2>2 DEF Routed, RouteInv
  <2>7. CASE ToFiles
    <3>1. pc' = "files" /\ (HC.cgidir = Empty \/ ~starts_with(Asked, HC.cgidir))
      BY <2>4, <2>7 DEF ToFiles, UnderCgidir
    <3>2. QED
      BY <2>1, <2>2, <2>3, <2>5, <2>6, <3>1 DEF RouteInv
  <2>8. CASE ServeCgi /\ pc' # "sent"
    <3>1. /\ pc' = "cgi" /\ HC.homedir_abspath \o Asked \in Programs
          /\ HC.cgidir # Empty /\ starts_with(Asked, HC.cgidir)
      BY <2>4, <2>8, ErrorSent DEF ServeCgi, UnderCgidir
    <3>2. QED
      BY <2>1, <2>2, <2>3, <2>5, <2>6, <3>1 DEF RouteInv
  <2>9. QED
    BY <1>6, <2>7, <2>8
<1>7. CASE ServeCgi /\ pc' = "sent"
  BY <1>7, RouteSent
<1>8. CASE CgiEnds \/ CgiHeaderLine
  <2>1. /\ pc \in {"cgi", "cgihead"} /\ pc' = "cgihead"
        /\ UNCHANGED <<hosts, raw, req>>
    BY <1>8 DEF CgiEnds, CgiHeaderLine
  <2>2. HC' = HC /\ HostFound' = HostFound /\ Asked' = Asked
    BY <2>1, SameHost
  <2>3. QED
    BY <2>1, <2>2 DEF RouteInv
<1>9. QED
  BY <1>1, <1>2, <1>3, <1>4, <1>5, <1>6, <1>7, <1>8 DEF Next

LEMMA InitTyped ==
    ASSUME Init
    PROVE  TypeOK /\ RouteInv
<1>1. /\ hosts \in Hosts /\ raw = NoRequest /\ req = lk_httprequest_new
      /\ env = set_cgi_env1 /\ pc = "idle" /\ output = Empty /\ cur = 0
      /\ resp = lk_httpresponse_new
  BY DEF Init
<1>2. cur \in 0 .. Len(output)
  BY <1>1 DEF Empty
<1>3. /\ req \in RequestType /\ env \in [EnvNames -> Text] /\ output \in Bodies
      /\ resp \in ResponseType
  BY <1>1, NewRequestIs, FirstEnvironment, BodiesAre, NewResponseTyped
<1>4. TypeOK
  BY <1>1, <1>2, <1>3 DEF TypeOK, RequestType, ResponseType, HeaderTables
<1>5. RouteInv
  BY <1>1 DEF RouteInv
<1>6. QED
  BY <1>4, <1>5

LEMMA SameState ==
    ASSUME UNCHANGED vars
    PROVE  /\ hosts' = hosts /\ raw' = raw /\ req' = req /\ env' = env /\ pc' = pc
           /\ output' = output /\ cur' = cur /\ resp' = resp
           /\ HC' = HC /\ HostFound' = HostFound /\ Asked' = Asked
           /\ \A p : Exists(p)' = Exists(p)
<1>1. /\ hosts' = hosts /\ raw' = raw /\ req' = req /\ env' = env /\ pc' = pc
      /\ output' = output /\ cur' = cur /\ resp' = resp
  BY DEF vars
<1>2. QED
  BY <1>1, SameHost

LEMMA NextTyped ==
    ASSUME TypeOK, RouteInv, [Next]_vars
    PROVE  TypeOK' /\ RouteInv'
<1>1. CASE Next
  BY <1>1, RequestTyped, RouteTyped, FilesTyped, CgiTyped, NextRoute DEF Next
<1>2. CASE UNCHANGED vars
  BY <1>2, SameState DEF TypeOK, RouteInv
<1>3. QED
  BY <1>1, <1>2

\* Requests, responses, the environment and what is read of a CGI program's
\* output stay well formed, whatever is sent.
THEOREM TypeCorrect == Spec => []TypeOK
<1>1. Init => TypeOK /\ RouteInv
  BY InitTyped
<1>2. TypeOK /\ RouteInv /\ [Next]_vars => (TypeOK /\ RouteInv)'
  BY NextTyped
<1>3. QED
  BY <1>1, <1>2, PTL DEF Spec

-----------------------------------------------------------------------------
(***************************************************************************)
(* The URI, and the files that are served for it.                           *)
(***************************************************************************)

\* The path, the query and the filename of every request that is processed are
\* those of its URI.
THEOREM UriCorrect == Spec => []UriAsReference
<1>1. TypeOK /\ RouteInv => UriAsReference
  <2>1. SUFFICES ASSUME TypeOK, RouteInv, pc = "request"
                 PROVE  UriAsReference
    BY DEF UriAsReference
  <2> DEFINE parsed == Parsed(raw.head)
  <2>2. raw \in Requests /\ req = [parsed EXCEPT !.body = raw.body]
    BY <2>1 DEF RouteInv
  <2>3. raw.head \in Seq(Text)
    BY <2>2, RequestsAssumption
  <2>4. parsed \in RequestType /\ UriRight(parsed)
    BY <2>3, ParsedIs
  <2> HIDE DEF parsed
  <2>5. /\ req.uri = parsed.uri /\ req.path = parsed.path
        /\ req.querystring = parsed.querystring /\ req.filename = parsed.filename
    BY <2>2, <2>4 DEF RequestType
  <2>6. QED
    BY <2>4, <2>5, Zenon DEF UriRight, UriAsReference
<1>2. Init => TypeOK /\ RouteInv
  BY InitTyped
<1>3. TypeOK /\ RouteInv /\ [Next]_vars => (TypeOK /\ RouteInv)'
  BY NextTyped
<1>4. QED
  BY <1>1, <1>2, <1>3, PTL DEF Spec

\* Other replies are not for files.
LEMMA NotFiles ==
    ASSUME pc' # "sent" \/ ~HostFound' \/ HC'.proxyhost # Empty \/ HC'.homedir = Empty
             \/ ~(HC'.cgidir = Empty \/ ~starts_with(Asked', HC'.cgidir))
             \/ req'.method \notin {<<"GET">>, <<"HEAD">>}
    PROVE  FilesAsReference'
BY DEF FilesAsReference, ServesFiles

\* The reply of serve_files.
LEMMA GetFileRight ==
    ASSUME TypeOK, RouteInv, GetFile
    PROVE  FilesAsReference'
<1> DEFINE file == FileOf(req.path)
           r == Typed(WithFile(resp))
           answer == IF file = Empty THEN Message(r, 404, PlainText) ELSE r
           content == Content[HC.homedir_abspath \o file]
<1>1. /\ pc = "files" /\ process_response(answer) /\ req' = [req EXCEPT !.path = Tried(@)]
      /\ UNCHANGED <<hosts, raw, env, output, cur>>
  BY DEF GetFile
<1>2. /\ req \in RequestType /\ hosts \in Hosts /\ HostFound /\ req.path = Asked
      /\ resp = lk_httpresponse_new /\ resp \in ResponseType
  BY <1>1, TypesAre DEF RouteInv
<1>3. req'.headers = req.headers /\ req'.method = req.method
  BY <1>1, <1>2 DEF RequestType
<1>4. HC' = HC /\ Asked' = Asked /\ \A p : Exists(p)' = Exists(p)
  BY <1>1, <1>3, SameHost
<1> DEFINE candidates == IF Asked = Empty THEN DefaultFiles ELSE <<Asked>>
<1>5. candidates = Candidates'
  BY <1>4 DEF Candidates
<1>6. \/ \E n \in DOMAIN candidates :
            /\ Exists(candidates[n]) /\ \A m \in 1 .. n - 1 : ~Exists(candidates[m])
            /\ file = candidates[n] /\ file # Empty
      \/ /\ \A n \in DOMAIN candidates : ~Exists(candidates[n])
         /\ file = Empty
  <2>1. req.path \in Text
    BY <1>2 DEF RequestType
  <2>2. QED
    BY <1>2, <2>1, FileOfIs
<1>7. r \in ResponseType /\ WithFile(resp) \in ResponseType
  BY <1>1, FileTyped
<1>8. \/ r = WithFile(resp)
      \/ r = lk_httpresponse_add_header(WithFile(resp), ContentType, mimetype(req.path))
  BY DEF Typed
<1>9. r.status = WithFile(resp).status /\ r.body = WithFile(resp).body
  <2> DEFINE w == WithFile(resp)
             st == lk_stringtable_set(w.headers, ContentType, mimetype(req.path))
  <2>1. r = w \/ r = [w EXCEPT !.headers = st]
    BY <1>8 DEF lk_httpresponse_add_header
  <2> HIDE DEF w, st, r
  <2>2. w \in ResponseType
    BY <1>7 DEF w
  <2>3. QED
    BY <2>1, <2>2 DEF ResponseType, w
<1>10. CASE file # Empty
  <2>1. PICK n \in DOMAIN candidates :
           /\ Exists(candidates[n]) /\ \A m \in 1 .. n - 1 : ~Exists(candidates[m])
           /\ file = candidates[n]
    BY <1>6, <1>10
  <2>2. content \in Text
    BY <2>1, OutputsAssumption DEF Exists
  <2>3. /\ WithFile(resp) = [resp EXCEPT !.body = @ \o content]
        /\ resp.body = Empty /\ resp.status = 0
    BY <1>2, <1>10 DEF WithFile, lk_httpresponse_new
  <2> HIDE DEF content
  <2>4. Empty \o content = content
    BY <2>2, ConcatEmptySeq DEF Empty, Text
  <2>5. WithFile(resp).body = content /\ WithFile(resp).status = 0
    BY <1>2, <2>3, <2>4 DEF ResponseType
  <2>6. r.body = content /\ r.status = 0
    BY <1>9, <2>5
  <2>7. process_response(r)
    BY <1>1, <1>10
  <2> HIDE DEF r
  <2>8. /\ resp'.status = 200
        /\ resp'.head[1] = HeaderLine(ContentLength, Number(Len(content)))
        /\ resp'.body = IF req.method = <<"HEAD">> THEN Empty ELSE content
    <3>1. /\ resp'.status = 200 /\ resp'.head = HeadLines(r.headers, Len(content))
          /\ resp'.body = IF req.method = <<"HEAD">> THEN Empty ELSE content
      BY <1>7, <2>6, <2>7, RespondTyped
    <3>2. r.headers \in Seq([k : Text, v : Text])
      BY <1>7 DEF ResponseType, HeaderTables
    <3>3. QED
      BY <3>1, <3>2, HeadLinesAre
  <2>9. content = Content[HC.homedir_abspath \o candidates[n]]
    BY <2>1 DEF content
  <2> HIDE DEF candidates, file
  <2>10. /\ HC.homedir_abspath \o candidates[n] \in DOMAIN Content
         /\ \A m \in 1 .. n - 1 : HC.homedir_abspath \o candidates[m] \notin DOMAIN Content
    BY <2>1 DEF Exists
  <2>11. \E k \in DOMAIN Candidates' :
            /\ HC'.homedir_abspath \o Candidates'[k] \in DOMAIN Content
            /\ \A m \in 1 .. k - 1 :
                  HC'.homedir_abspath \o Candidates'[m] \notin DOMAIN Content
            /\ resp'.status = 200
            /\ resp'.head[1] =
                  HeaderLine(ContentLength,
                             Number(Len(Content[HC'.homedir_abspath \o Candidates'[k]])))
            /\ resp'.body = IF req'.method = <<"HEAD">> THEN Empty
                            ELSE Content[HC'.homedir_abspath \o Candidates'[k]]
    BY <1>3, <1>4, <1>5, <2>8, <2>9, <2>10
  <2>12. QED
    BY <2>11, Zenon DEF FilesAsReference, Exists
<1>11. CASE file = Empty
  <2>1. \A n \in DOMAIN candidates : ~Exists(candidates[n])
    BY <1>6, <1>11
  <2>2. process_response(Message(r, 404, PlainText))
    BY <1>1, <1>11
  <2> HIDE DEF r, file, candidates
  <2>3. /\ Message(r, 404, PlainText) \in ResponseType
        /\ Message(r, 404, PlainText).status = 404
        /\ Message(r, 404, PlainText).headers =
              lk_stringtable_set(r.headers, ContentType, PlainText)
    <3>1. /\ r \in ResponseType /\ 404 \in Nat /\ PlainText \in Text
          /\ r.body = Empty
      BY <1>1, <1>7, <1>11, FileTyped, WordsAre DEF file, r
    <3>2. QED
      BY <3>1, MessageTyped
  <2> DEFINE message == Message(r, 404, PlainText)
  <2>4. /\ resp'.status = 404
        /\ resp'.head = HeadLines(message.headers, Len(message.body))
    BY <2>2, <2>3, RespondTyped
  <2>5. r.headers \in Seq([k : Text, v : Text])
    BY <1>7 DEF ResponseType, HeaderTables
  <2>6. HeaderLine(ContentType, PlainText) \in ToSet(resp'.head)
    <3>1. message.headers \in HeaderTables
      BY <2>3 DEF ResponseType
    <3>2. message.headers = lk_stringtable_set(r.headers, ContentType, PlainText)
      BY <2>3
    <3> HIDE DEF message
    <3>3. lk_stringtable_get(message.headers, ContentType) = PlainText
      BY <2>5, <3>2, WordsAre, GetAfterSet
    <3>4. PlainText # NULL
      BY DEF PlainText, NULL
    <3>5. QED
      BY <2>4, <3>1, <3>3, <3>4, HeaderSent
  <2> HIDE DEF message
  <2>7. \A n \in DOMAIN candidates :
           HC.homedir_abspath \o candidates[n] \notin DOMAIN Content
    BY <2>1 DEF Exists
  <2>8. \A n \in DOMAIN Candidates' :
           HC'.homedir_abspath \o Candidates'[n] \notin DOMAIN Content
    BY <1>4, <1>5, <2>7
  <2>9. QED
    BY <2>4, <2>6, <2>8, Zenon DEF FilesAsReference, Exists
<1>12. QED
  BY <1>10, <1>11

LEMMA NextFiles ==
    ASSUME TypeOK, RouteInv, FilesAsReference, [Next]_vars
    PROVE  FilesAsReference'
<1>1. CASE ReadRequest \/ SessionEnds \/ ToFiles \/ CgiEnds \/ CgiHeaderLine
  BY <1>1, NotFiles DEF ReadRequest, SessionEnds, ToFiles, CgiEnds, CgiHeaderLine
<1>2. CASE NoHost \/ Proxy \/ NoHomedir
  <2>1. SUFFICES ASSUME pc' = "sent" PROVE FilesAsReference'
    BY NotFiles
  <2>2. UNCHANGED <<hosts, raw, req>>
    BY <1>2, <2>1 DEF NoHost, Proxy, NoHomedir
  <2>3. HC' = HC /\ HostFound' = HostFound
    BY <2>2, SameHost
  <2>4. ~HostFound \/ HC.proxyhost # Empty \/ HC.homedir = Empty
    BY <1>2 DEF NoHost, Proxy, NoHomedir
  <2>5. QED
    BY <2>3, <2>4, NotFiles
<1>3. CASE ServeCgi
  <2>1. Local /\ UnderCgidir /\ UNCHANGED <<hosts, raw>>
    BY <1>3 DEF ServeCgi
  <2>2. Routed
    BY <2>1 DEF Local
  <2>3. Aliased = Asked
    BY <2>2, AliasedIs
  <2>4. req'.headers = req.headers
    BY <2>1, LocalIs
  <2>5. HC' = HC /\ Asked' = Asked
    BY <2>1, <2>4, SameHost
  <2>6. HC.cgidir # Empty /\ starts_with(Asked, HC.cgidir)
    BY <2>1, <2>3 DEF UnderCgidir
  <2>7. QED
    BY <2>5, <2>6, NotFiles
<1>4. CASE GetFile
  BY <1>4, GetFileRight
<1>5. CASE OtherMethod
  <2>1. req'.method \notin {<<"GET">>, <<"HEAD">>}
    BY <1>5 DEF OtherMethod
  <2>2. QED
    BY <2>1, NotFiles
<1>6. CASE CgiFails \/ CgiEmptyLine \/ CgiNoEmptyLine
  <2>1. pc \in {"cgi", "cgihead"} /\ UNCHANGED <<hosts, raw, req>>
    BY <1>6 DEF CgiFails, CgiEmptyLine, CgiNoEmptyLine
  <2>2. HC' = HC /\ Asked' = Asked
    BY <2>1, SameHost
  <2>3. HC.cgidir # Empty /\ starts_with(Asked, HC.cgidir)
    BY <2>1 DEF RouteInv
  <2>4. QED
    BY <2>2, <2>3, NotFiles
<1>7. CASE UNCHANGED vars
  <2>1. ServesFiles' = ServesFiles /\ Candidates' = Candidates
    BY <1>7, SameState DEF ServesFiles, Candidates
  <2>2. QED
    BY <1>7, <2>1, SameState DEF FilesAsReference
<1>8. QED
  BY <1>1, <1>2, <1>3, <1>4, <1>5, <1>6, <1>7 DEF Next

\* A GET or HEAD for a file gets the first of the files its path stands for, as
\* it is, or a 404 that says text/plain: for any site, files and requests.
THEOREM FilesCorrect == Spec => []FilesAsReference
<1>1. Init => TypeOK /\ RouteInv /\ FilesAsReference
  BY InitTyped DEF Init, FilesAsReference, ServesFiles
<1>2. TypeOK /\ RouteInv /\ FilesAsReference /\ [Next]_vars
        => (TypeOK /\ RouteInv /\ FilesAsReference)'
  BY NextTyped, NextFiles
<1>3. QED
  BY <1>1, <1>2, PTL DEF Spec

-----------------------------------------------------------------------------
(***************************************************************************)
(* The output of a CGI program, line by line and as a whole.                *)
(***************************************************************************)

\* Between two lines of the head: the reading is at the end of a line, no empty
\* line is behind it, and a Content-Type or a Content-Length came from the output.
HeadInv ==
    pc = "cgihead" =>
       /\ Fits(output) => /\ cur \in LineEnds(output) \cup {0}
                          /\ \A e \in HeadEnds(output) : cur < e
       /\ \A name \in {"Content-Type", "Content-Length"} \ ToSet(output) :
             lk_stringtable_get(resp.headers, <<name>>) = NULL

\* A line that fits is read to its end, and is empty if it ends the head.
LEMMA LineRead ==
    ASSUME output \in Text, cur \in LineEnds(output) \cup {0}, cur < Len(output),
           Fits(output), \A e \in HeadEnds(output) : cur < e
    PROVE  /\ LineEnd \in LineEnds(output)
           /\ \A e \in HeadEnds(output) : LineEnd <= e
           /\ is_empty_line(cgiline) <=> LineEnd \in HeadEnds(output)
<1>1. output \in Seq(Pieces) /\ Len(output) \in Nat /\ DOMAIN output = 1 .. Len(output)
  BY DEF Text
<1>2. /\ LineEnds(output) \subseteq 0 .. Len(output) /\ cur \in 0 .. Len(output)
      /\ HeadEnds(output) \subseteq LineEnds(output)
  BY <1>1 DEF LineEnds, HeadEnds
<1>3. PICK end \in LineEnds(output) :
         cur < end /\ \A d \in LineEnds(output) : cur < d => end <= d
  BY <1>2, NextLine
<1>4. end \in 1 .. Len(output)
  BY <1>1, <1>2, <1>3
<1>5. \A e \in HeadEnds(output) : end <= e
  BY <1>2, <1>3
<1> DEFINE line == SubSeq(output, cur + 1, end)
<1>6. LineOf(output, end) = line
  <2> DEFINE b == {i \in LineEnds(output) : i < end} \cup {0}
             c == CHOOSE i \in b : \A j \in b : j <= i
  <2>1. cur \in b /\ \A j \in b : j <= cur /\ j \in Nat
    BY <1>1, <1>2, <1>3
  <2> HIDE DEF b
  <2>2. c \in b /\ \A j \in b : j <= c
    BY <2>1
  <2> HIDE DEF c
  <2>3. c = cur
    BY <1>2, <2>1, <2>2
  <2>4. LineOf(output, end) = SubSeq(output, c + 1, end)
    BY DEF LineOf, b, c
  <2>5. QED
    BY <2>3, <2>4
<1>7. Len(line) = end - cur /\ line \in Seq(Pieces)
  <2>1. cur + 1 \in Nat \ {0} /\ end \in 0 .. Len(output) /\ cur + 1 <= end
    BY <1>1, <1>2, <1>3, <1>4
  <2>2. /\ line \in Seq(Pieces)
        /\ Len(line) = IF cur + 1 <= end THEN end - (cur + 1) + 1 ELSE 0
    BY <1>1, <2>1, PartIs
  <2> HIDE DEF line
  <2>3. QED
    BY <1>2, <1>4, <2>1, <2>2
<1>8. Len(line) < LineSize
  BY <1>3, <1>5, <1>6 DEF Fits
<1> HIDE DEF line
<1>9. LineEnd = end
  <2>1. LineEnd = Least(end, cur + LineSize - 1)
    BY <1>2, <1>3, LineEndIs
  <2>2. end <= cur + LineSize - 1
    BY <1>2, <1>4, <1>7, <1>8, LineSizeAssumption
  <2>3. QED
    BY <2>1, <2>2 DEF Least
<1>10. is_empty_line(cgiline) <=> is_empty_line(line)
  <2>1. cgiline = lk_chomp(line)
    BY <1>9 DEF cgiline, line
  <2>2. line \in Seq(Pieces)
    BY <1>7
  <2>3. is_empty_line(lk_chomp(line)) <=> is_empty_line(line)
    BY <2>2, ChompedEmpty
  <2>4. QED
    BY <2>1, <2>3
<1>11. is_empty_line(line) <=> end \in HeadEnds(output)
  BY <1>3, <1>4, <1>6 DEF HeadEnds
<1>12. QED
  BY <1>3, <1>5, <1>9, <1>10, <1>11

\* A line without a name in it makes no header of that name.
LEMMA NoSuchHeader ==
    ASSUME resp \in ResponseType, output \in Text, cur \in 0 .. Len(output),
           cur < Len(output), NEW name, name \notin ToSet(output),
           lk_stringtable_get(resp.headers, <<name>>) = NULL
    PROVE  lk_stringtable_get(parse_cgi_header_line(resp, cgiline).headers, <<name>>)
              = NULL
<1> DEFINE S == Pieces \ {name}
           h == Header(cgiline)
           with == lk_httpresponse_add_header(resp, h[1], h[2])
           r == parse_cgi_header_line(resp, cgiline)
<1>1. cgiline \in Seq(S)
  <2>1. DOMAIN output = 1 .. Len(output) /\ Len(output) \in Nat /\ output \in Seq(Pieces)
    BY DEF Text
  <2>2. \A i \in 1 .. Len(output) : output[i] \in S
    <3>1. \A i \in 1 .. Len(output) : output[i] \in Pieces
      BY <2>1, ElementOfSeq
    <3>2. QED
      BY <2>1, <3>1 DEF ToSet
  <2> HIDE DEF S
  <2>3. output \in Seq(S)
    BY <2>1, <2>2
  <2>4. LineEnd \in cur + 1 .. Len(output)
    BY LineIs
  <2>5. cur + 1 \in Nat \ {0} /\ LineEnd \in 0 .. Len(output)
    BY <2>1, <2>4
  <2>6. SubSeq(output, cur + 1, LineEnd) \in Seq(S)
    BY <2>3, <2>5, PartIs
  <2>7. QED
    BY <2>6, ChompOf DEF cgiline
<1>2. CASE h = << >>
  BY <1>2 DEF parse_cgi_header_line
<1>3. CASE h # << >>
  <2>1. h[1] \in Seq(S) /\ h[2] \in Seq(S)
    <3> HIDE DEF S
    <3>1. QED
      BY <1>1, <1>3, HeaderOf
  <2>2. h[1] # <<name>>
    <3> DEFINE w == h[1]
               c == <<name>>
    <3>1. Len(c) = 1 /\ c[1] = name
      OBVIOUS
    <3>2. w \in Seq(S) /\ name \notin S
      BY <2>1
    <3> HIDE DEF S, h, w, c
    <3>3. \A i \in 1 .. Len(w) : w[i] \in S
      BY <3>2, ElementOfSeq
    <3>4. ASSUME w = c PROVE FALSE
      <4>1. Len(w) = 1 /\ w[1] = name
        BY <3>1, <3>4
      <4>2. 1 \in 1 .. Len(w)
        BY <4>1
      <4>3. w[1] \in S
        BY <3>3, <4>2
      <4>4. QED
        BY <3>2, <4>1, <4>3
    <3>5. QED
      BY <3>4 DEF w, c
  <2> DEFINE k == h[1]
             v == h[2]
  <2>3. \A s \in Seq(S) : s \in Text
    BY DEF Text
  <2>4. k \in Text /\ v \in Text
    BY <2>1, <2>3
  <2>5. r.headers = lk_stringtable_set(resp.headers, k, v)
    <3> DEFINE st == lk_stringtable_set(resp.headers, k, v)
               status == IF v # Empty /\ v[1] \in DOMAIN Numbers THEN Numbers[v[1]] ELSE 0
    <3>1. with = [resp EXCEPT !.headers = st]
      BY DEF lk_httpresponse_add_header
    <3>2. r = IF k = <<"Status">> THEN [with EXCEPT !.status = status] ELSE with
      BY <1>3 DEF parse_cgi_header_line
    <3> HIDE DEF st, with, r, status
    <3>3. with.headers = st /\ DOMAIN with = Fields
      BY <3>1 DEF ResponseType, Fields
    <3>4. QED
      BY <3>2, <3>3 DEF Fields, st
  <2>6. resp.headers \in Seq([k : Text, v : Text])
    BY DEF ResponseType, HeaderTables
  <2> HIDE DEF k, v, r
  <2>7. lk_stringtable_get(r.headers, <<name>>) =
           IF <<name>> = k THEN v ELSE lk_stringtable_get(resp.headers, <<name>>)
    BY <2>4, <2>5, <2>6, GetAfterSet
  <2>8. k # <<name>>
    BY <2>2 DEF k
  <2>9. QED
    BY <2>7, <2>8 DEF r
<1>4. QED
  BY <1>2, <1>3

LEMMA NothingInNone ==
    ASSUME NEW k
    PROVE  lk_stringtable_get(<< >>, k) = NULL
<1>1. << >> \in Seq({}) /\ Len(<< >>) = 0
  OBVIOUS
<1>2. Position(<< >>, k) = 0
  <2>1. Position(<< >>, k) \in 0 .. Len(<< >>)
    <3> DEFINE none == << >>
    <3>1. Len(none) \in Nat
      BY <1>1
    <3> HIDE DEF none
    <3>2. Position(none, k) \in 0 .. Len(none)
      BY <3>1, PositionIs
    <3>3. QED
      BY <3>2 DEF none
  <2>2. QED
    BY <1>1, <2>1
<1>3. QED
  BY <1>2 DEF lk_stringtable_get

LEMMA NextHead ==
    ASSUME TypeOK, RouteInv, HeadInv, [Next]_vars
    PROVE  HeadInv'
<1>1. CASE CgiEnds
  <2>1. pc = "cgi" /\ UNCHANGED <<cur, resp>>
    BY <1>1 DEF CgiEnds
  <2>2. resp = lk_httpresponse_new /\ cur = 0
    BY <2>1 DEF RouteInv
  <2>3. \A k : lk_stringtable_get(<< >>, k) = NULL
    BY NothingInNone
  <2>4. resp.headers = << >>
    BY <2>2 DEF lk_httpresponse_new
  <2>5. output' \in Text
    <3>1. TypeOK'
      BY NextTyped
    <3>2. output' \in Bodies
      BY <3>1 DEF TypeOK
    <3>3. QED
      BY <3>2 DEF Bodies
  <2>6. \A e \in HeadEnds(output') : 0 < e
    <3>1. DOMAIN output' \subseteq Nat /\ Len(output') \in Nat
      BY <2>5 DEF Text
    <3>2. QED
      BY <3>1 DEF HeadEnds, LineEnds
  <2>7. QED
    BY <2>1, <2>2, <2>3, <2>4, <2>6 DEF HeadInv
<1>2. CASE CgiHeaderLine
  <2>1. /\ pc = "cgihead" /\ cur < Len(output) /\ ~is_empty_line(cgiline)
        /\ resp' = parse_cgi_header_line(resp, cgiline) /\ cur' = LineEnd
        /\ output' = output
    BY <1>2 DEF CgiHeaderLine
  <2>2. output \in Text /\ cur \in 0 .. Len(output) /\ resp \in ResponseType
    BY TypesAre
  <2>3. Fits(output) => /\ LineEnd \in LineEnds(output)
                        /\ \A e \in HeadEnds(output) : LineEnd < e
    <3>1. SUFFICES ASSUME Fits(output)
                   PROVE  /\ LineEnd \in LineEnds(output)
                          /\ \A e \in HeadEnds(output) : LineEnd < e
      OBVIOUS
    <3>2. cur \in LineEnds(output) \cup {0} /\ \A e \in HeadEnds(output) : cur < e
      BY <2>1, <3>1 DEF HeadInv
    <3>3. /\ LineEnd \in LineEnds(output) /\ LineEnd \notin HeadEnds(output)
          /\ \A e \in HeadEnds(output) : LineEnd <= e
      BY <2>1, <2>2, <3>1, <3>2, LineRead
    <3>4. LineEnds(output) \subseteq Nat /\ HeadEnds(output) \subseteq Nat
      BY <2>2 DEF LineEnds, HeadEnds, Text
    <3>5. QED
      BY <3>3, <3>4
  <2>4. ASSUME NEW name, name \in {"Content-Type", "Content-Length"} \ ToSet(output)
        PROVE  lk_stringtable_get(resp'.headers, <<name>>) = NULL
    <3>1. name \notin ToSet(output)
      BY <2>4
    <3>2. lk_stringtable_get(resp.headers, <<name>>) = NULL
      BY <2>1, <2>4 DEF HeadInv
    <3>3. lk_stringtable_get(parse_cgi_header_line(resp, cgiline).headers, <<name>>)
             = NULL
      BY <2>1, <2>2, <3>1, <3>2, NoSuchHeader
    <3>4. QED
      BY <2>1, <3>3
  <2>5. QED
    BY <2>1, <2>3, <2>4 DEF HeadInv
<1>3. CASE UNCHANGED vars
  BY <1>3, SameState DEF HeadInv
<1>4. CASE ReadRequest \/ SessionEnds \/ ToFiles
  BY <1>4 DEF ReadRequest, SessionEnds, ToFiles, HeadInv
<1>5. CASE \/ NoHost \/ Proxy \/ NoHomedir \/ ServeCgi \/ GetFile \/ OtherMethod
           \/ CgiFails \/ CgiEmptyLine \/ CgiNoEmptyLine
  <2>1. pc' # "cgihead"
    BY <1>5, RespondsSent, ErrorSent
       DEF NoHost, Proxy, NoHomedir, ServeCgi, GetFile, OtherMethod, CgiFails,
           CgiEmptyLine, CgiNoEmptyLine
  <2>2. QED
    BY <2>1 DEF HeadInv
<1>6. QED
  BY <1>1, <1>2, <1>3, <1>4, <1>5 DEF Next

\* What is right of every reply made from the output of a program.
CgiInv == CgiBodyAsReference /\ CgiErrorAsIs

LEMMA NotFromCgi ==
    ASSUME pc' # "sent" \/ output' = Empty
    PROVE  CgiInv'
BY DEF CgiInv, CgiBodyAsReference, CgiErrorAsIs, FromCgi

LEMMA CgiEmptyLineRight ==
    ASSUME TypeOK, RouteInv, HeadInv, CgiEmptyLine
    PROVE  CgiInv'
<1> DEFINE c == LineEnd
           r == [resp EXCEPT !.body = SubSeq(output, c + 1, Len(output))]
<1>1. /\ pc = "cgihead" /\ cur < Len(output) /\ is_empty_line(cgiline)
      /\ cur' = c /\ process_response(r) /\ output' = output /\ req' = req
  BY DEF CgiEmptyLine
<1>2. output \in Text /\ cur \in 0 .. Len(output) /\ resp \in ResponseType
  BY TypesAre
<1>3. c \in cur + 1 .. Len(output)
  BY <1>1, <1>2, LineIs
<1>4. c \in 0 .. Len(output)
  BY <1>2, <1>3 DEF Text
<1>5. Fits(output) => c \in HeadEnds(output) /\ \A e \in HeadEnds(output) : c <= e
  <2>1. SUFFICES ASSUME Fits(output)
                 PROVE  c \in HeadEnds(output) /\ \A e \in HeadEnds(output) : c <= e
    OBVIOUS
  <2>2. cur \in LineEnds(output) \cup {0} /\ \A e \in HeadEnds(output) : cur < e
    BY <1>1, <2>1 DEF HeadInv
  <2>3. QED
    BY <1>1, <1>2, <2>1, <2>2, LineRead
<1> HIDE DEF c
<1>6. Fits(output) => HeadEnd(output) = c
  <2>1. SUFFICES ASSUME Fits(output) PROVE HeadEnd(output) = c
    OBVIOUS
  <2>2. HeadEnds(output) \subseteq Nat
    BY <1>2 DEF LineEnds, HeadEnds, Text
  <2>3. /\ HeadEnd(output) \in HeadEnds(output)
        /\ \A d \in HeadEnds(output) : HeadEnd(output) <= d
    BY <1>5, <2>1 DEF HeadEnd
  <2>4. HeadEnd(output) \in Nat /\ c \in Nat /\ c <= HeadEnd(output) /\ HeadEnd(output) <= c
    BY <1>5, <2>1, <2>2, <2>3
  <2>5. QED
    BY <2>4
<1> DEFINE body == SubSeq(output, c + 1, Len(output))
<1>7. r \in ResponseType /\ r.body = body
  <2>1. r \in ResponseType
    BY <1>4, CgiBodyTyped
  <2> HIDE DEF body
  <2>2. r.body = body
    BY <1>2 DEF ResponseType, body
  <2>3. QED
    BY <2>1, <2>2
<1> HIDE DEF r
<1>8. resp'.body = IF req.method = <<"HEAD">> THEN Empty ELSE body
  BY <1>1, <1>7, RespondTyped
<1>9. CgiBodyAsReference'
  BY <1>1, <1>6, <1>8 DEF CgiBodyAsReference
<1>10. CgiErrorAsIs'
  BY <1>1, <1>5 DEF CgiErrorAsIs
<1>11. QED
  BY <1>9, <1>10 DEF CgiInv

LEMMA CgiNoEmptyLineRight ==
    ASSUME TypeOK, RouteInv, HeadInv, CgiNoEmptyLine
    PROVE  CgiInv'
<1> DEFINE with == [lk_httpresponse_add_header(resp, ContentType, PlainText)
                      EXCEPT !.body = output]
           r == IF lk_stringtable_get(resp.headers, ContentType) # NULL THEN resp
                ELSE with
<1>1. /\ pc = "cgihead" /\ cur = Len(output) /\ process_response(r)
      /\ output' = output /\ req' = req
  BY DEF CgiNoEmptyLine
<1>2. output \in Text /\ resp \in ResponseType
  BY TypesAre
<1>3. Fits(output) => HeadEnds(output) = {}
  <2>1. Fits(output) => \A e \in HeadEnds(output) : Len(output) < e
    BY <1>1 DEF HeadInv
  <2>2. \A e \in HeadEnds(output) : e \in 0 .. Len(output) /\ Len(output) \in Nat
    BY <1>2 DEF HeadEnds, LineEnds, Text
  <2>3. QED
    BY <2>1, <2>2
<1>4. with \in ResponseType
  BY CgiErrorTyped
<1>5. /\ with.body = output
      /\ with.headers = lk_stringtable_set(resp.headers, ContentType, PlainText)
  BY <1>2 DEF ResponseType, lk_httpresponse_add_header
<1>6. lk_stringtable_get(with.headers, ContentType) = PlainText
  <2>1. resp.headers \in Seq([k : Text, v : Text])
    BY <1>2 DEF ResponseType, HeaderTables
  <2> HIDE DEF with
  <2>2. QED
    BY <1>5, <2>1, WordsAre, GetAfterSet
<1> HIDE DEF with
<1>7. "Content-Type" \notin ToSet(output) => process_response(with)
  BY <1>1 DEF HeadInv, ContentType
<1>8. "Content-Type" \notin ToSet(output) =>
         /\ HeaderLine(ContentType, PlainText) \in ToSet(resp'.head)
         /\ resp'.body = IF req.method = <<"HEAD">> THEN Empty ELSE output
  <2>1. SUFFICES ASSUME process_response(with)
                 PROVE  /\ HeaderLine(ContentType, PlainText) \in ToSet(resp'.head)
                        /\ resp'.body = IF req.method = <<"HEAD">> THEN Empty ELSE output
    BY <1>7
  <2>2. /\ resp'.head = HeadLines(with.headers, Len(with.body))
        /\ resp'.body = IF req.method = <<"HEAD">> THEN Empty ELSE output
    BY <1>4, <1>5, <2>1, RespondTyped
  <2>3. with.headers \in HeaderTables
    BY <1>4 DEF ResponseType
  <2>4. PlainText # NULL
    BY DEF PlainText, NULL
  <2>5. QED
    BY <1>6, <2>2, <2>3, <2>4, HeaderSent
<1>9. CgiBodyAsReference'
  BY <1>1, <1>3 DEF CgiBodyAsReference
<1>10. CgiErrorAsIs'
  BY <1>1, <1>8 DEF CgiErrorAsIs
<1>11. QED
  BY <1>9, <1>10 DEF CgiInv

LEMMA NextCgi ==
    ASSUME TypeOK, RouteInv, HeadInv, CgiInv, [Next]_vars
    PROVE  CgiInv'
<1>1. CASE ReadRequest \/ SessionEnds \/ ToFiles \/ CgiEnds \/ CgiHeaderLine
  BY <1>1, NotFromCgi DEF ReadRequest, SessionEnds, ToFiles, CgiEnds, CgiHeaderLine
<1>2. CASE \/ NoHost \/ Proxy \/ NoHomedir \/ ServeCgi \/ GetFile \/ OtherMethod
           \/ CgiFails
  <2>1. pc \in {"request", "files", "cgi"} /\ output' = output
    BY <1>2 DEF NoHost, Proxy, NoHomedir, ServeCgi, GetFile, OtherMethod, CgiFails,
                Routed, Local
  <2>2. output' = Empty
    BY <2>1 DEF RouteInv
  <2>3. QED
    BY <2>2, NotFromCgi
<1>3. CASE CgiEmptyLine \/ CgiNoEmptyLine
  BY <1>3, CgiEmptyLineRight, CgiNoEmptyLineRight
<1>4. CASE UNCHANGED vars
  BY <1>4, SameState DEF CgiInv, CgiBodyAsReference, CgiErrorAsIs, FromCgi
<1>5. QED
  BY <1>1, <1>2, <1>3, <1>4 DEF Next

LEMMA CgiInvariant == Spec => [](TypeOK /\ RouteInv /\ HeadInv /\ CgiInv)
<1>1. Init => TypeOK /\ RouteInv /\ HeadInv /\ CgiInv
  BY InitTyped
     DEF Init, HeadInv, CgiInv, CgiBodyAsReference, CgiErrorAsIs, FromCgi
<1>2. TypeOK /\ RouteInv /\ HeadInv /\ CgiInv /\ [Next]_vars
        => (TypeOK /\ RouteInv /\ HeadInv /\ CgiInv)'
  BY NextTyped, NextHead, NextCgi
<1>3. QED
  BY <1>1, <1>2, PTL DEF Spec

\* What follows the first empty line of a program's output is the body of the
\* reply, byte by byte, for any output whose lines fit and any size of line.
THEOREM CgiBodyCorrect == Spec => []CgiBodyAsReference
<1>1. CgiInv => CgiBodyAsReference
  BY DEF CgiInv
<1>2. QED
  BY <1>1, CgiInvariant, PTL

\* Output without an empty line and without a Content-Type reaches the client
\* as it is, as text/plain.
THEOREM CgiErrorCorrect == Spec => []CgiErrorAsIs
<1>1. CgiInv => CgiErrorAsIs
  BY DEF CgiInv
<1>2. QED
  BY <1>1, CgiInvariant, PTL

-----------------------------------------------------------------------------
(***************************************************************************)
(* Where in a line its words are.                                           *)
(***************************************************************************)

\* t is in s, after the first i bytes.
At(s, i, t) ==
    i + Len(t) <= Len(s) /\ \A j \in 1 .. Len(t) : s[i + j] = t[j]

LEMMA AtJoin ==
    ASSUME NEW S, NEW s \in Seq(S), NEW t \in Seq(S), NEW u \in Seq(S), NEW i \in Nat,
           At(s, i, t), At(s, i + Len(t), u)
    PROVE  At(s, i, t \o u)
<1>1. /\ Len(s) \in Nat /\ Len(t) \in Nat /\ Len(u) \in Nat
  OBVIOUS
<1>2. /\ Len(t \o u) = Len(t) + Len(u)
      /\ \A j \in 1 .. Len(t) + Len(u) :
            (t \o u)[j] = IF j <= Len(t) THEN t[j] ELSE u[j - Len(t)]
  BY ConcatProperties
<1> DEFINE x == t \o u
           m == Len(t)
           n == Len(u)
<1> HIDE DEF x, m, n
<1>3. ASSUME NEW j \in 1 .. m + n
      PROVE  s[i + j] = x[j]
  <2>1. CASE j <= m
    <3>1. j \in 1 .. m
      BY <1>1, <2>1 DEF m, n
    <3>2. QED
      BY <1>2, <2>1, <3>1 DEF x, m, n, At
  <2>2. CASE ~(j <= m)
    <3>1. j - m \in 1 .. n /\ i + m + (j - m) = i + j
      BY <1>1, <2>2 DEF m, n
    <3>2. s[i + m + (j - m)] = u[j - m]
      BY <3>1 DEF m, n, At
    <3>3. QED
      BY <1>2, <2>2, <3>1, <3>2 DEF x, m, n
  <2>3. QED
    BY <2>1, <2>2
<1>4. i + (m + n) <= Len(s)
  BY <1>1 DEF At, m, n
<1>5. QED
  BY <1>2, <1>3, <1>4 DEF At, x, m, n

LEMMA AtAt ==
    ASSUME NEW S, NEW s \in Seq(S), NEW t \in Seq(S), NEW u \in Seq(S),
           NEW i \in Nat, NEW j \in Nat, At(s, i, t), At(t, j, u)
    PROVE  At(s, i + j, u)
<1>1. Len(s) \in Nat /\ Len(t) \in Nat /\ Len(u) \in Nat
  OBVIOUS
<1>2. ASSUME NEW n \in 1 .. Len(u)
      PROVE  s[i + j + n] = u[n]
  <2>1. j + n \in 1 .. Len(t) /\ i + (j + n) = i + j + n
    BY <1>1 DEF At
  <2>2. t[j + n] = u[n] /\ s[i + (j + n)] = t[j + n]
    BY <2>1 DEF At
  <2>3. QED
    BY <2>1, <2>2
<1>3. i + j + Len(u) <= Len(s)
  BY <1>1 DEF At
<1>4. QED
  BY <1>2, <1>3 DEF At

LEMMA AtStart ==
    ASSUME NEW S, NEW s \in Seq(S), NEW t \in Seq(S), At(s, 0, t)
    PROVE  starts_with(s, t) /\ (Len(t) = Len(s) => s = t)
<1>1. Len(t) <= Len(s) /\ \A j \in 1 .. Len(t) : s[j] = t[j]
  BY DEF At
<1>2. starts_with(s, t)
  BY <1>1, PrefixIs
<1>3. Len(t) = Len(s) => s = t
  BY <1>1, SeqEqual
<1>4. QED
  BY <1>2, <1>3

LEMMA FromAt ==
    ASSUME NEW S, NEW s \in Seq(S), NEW n \in 0 .. Len(s)
    PROVE  /\ From(s, n + 1) \in Seq(S) /\ At(s, n, From(s, n + 1))
           /\ Len(From(s, n + 1)) = Len(s) - n
<1>1. Len(s) \in Nat /\ n + 1 \in Nat \ {0} /\ Len(s) \in 0 .. Len(s)
  OBVIOUS
<1> DEFINE y == From(s, n + 1)
           l == Len(s)
<1>2. /\ y \in Seq(S)
      /\ Len(y) = IF n + 1 <= l THEN l - (n + 1) + 1 ELSE 0
      /\ \A i \in 1 .. l - (n + 1) + 1 : y[i] = s[n + 1 + i - 1]
  BY <1>1, PartIs DEF From
<1> HIDE DEF y, l
<1>3. Len(y) = l - n /\ n \in Nat /\ l \in Nat
  BY <1>1, <1>2 DEF l
<1>4. \A i \in 1 .. l - n : s[n + i] = y[i]
  <2>1. \A i \in 1 .. l - n : i \in 1 .. l - (n + 1) + 1 /\ n + 1 + i - 1 = n + i
    BY <1>3
  <2>2. QED
    BY <1>2, <2>1
<1>5. n + (l - n) <= l
  BY <1>3
<1>6. QED
  BY <1>2, <1>3, <1>4, <1>5 DEF At, y, l

LEMMA ChompAt ==
    ASSUME NEW S, NEW s \in Seq(S)
    PROVE  /\ lk_chomp(s) \in Seq(S) /\ At(s, 0, lk_chomp(s))
           /\ \A i \in 1 .. Len(s) : i > Len(lk_chomp(s)) => s[i] \in {LF, "cr"}
           /\ Len(lk_chomp(s)) # 0 => lk_chomp(s)[Len(lk_chomp(s))] \notin {LF, "cr"}
<1>1. PICK n \in 0 .. Len(s) :
         /\ lk_chomp(s) = SubSeq(s, 1, n)
         /\ \A i \in 1 .. Len(s) : i > n => s[i] \in {LF, "cr"}
         /\ n # 0 => s[n] \notin {LF, "cr"}
  BY ChompIs
<1>2. Len(s) \in Nat /\ 1 \in Nat \ {0} /\ n \in Nat
  OBVIOUS
<1> DEFINE c == SubSeq(s, 1, n)
<1>3. /\ c \in Seq(S) /\ Len(c) = IF 1 <= n THEN n - 1 + 1 ELSE 0
      /\ \A i \in 1 .. n - 1 + 1 : c[i] = s[1 + i - 1]
  BY <1>2, PartIs
<1> HIDE DEF c
<1>4. Len(c) = n /\ \A i \in 1 .. n : s[0 + i] = c[i]
  BY <1>2, <1>3
<1>5. n # 0 => c[n] = s[n]
  <2>1. n # 0 => n \in 1 .. n /\ 0 + n = n
    BY <1>2
  <2>2. QED
    BY <1>4, <2>1
<1>6. /\ c \in Seq(S) /\ At(s, 0, c) /\ Len(c) = n
      /\ Len(c) # 0 => c[Len(c)] \notin {LF, "cr"}
  BY <1>1, <1>2, <1>3, <1>4, <1>5 DEF At
<1>7. QED
  BY <1>1, <1>6 DEF c

\* What is up to b, and what is after some bytes.
LEMMA UpToAt ==
    ASSUME NEW S, NEW s \in Seq(S), NEW b
    PROVE  /\ UpTo(s, b) \in Seq(S) /\ At(s, 0, UpTo(s, b))
           /\ \A i \in 1 .. Len(UpTo(s, b)) : UpTo(s, b)[i] # b
           /\ Len(UpTo(s, b)) = Len(s) \/ At(s, Len(UpTo(s, b)), <<b>>)
<1> DEFINE I == {i \in 1 .. Len(s) : s[i] = b}
           x == UpTo(s, b)
<1>1. Len(s) \in Nat /\ I \subseteq Nat /\ DOMAIN s = 1 .. Len(s)
      /\ \A i \in I : i \in 1 .. Len(s) /\ s[i] = b
  OBVIOUS
<1>2. CASE b \in ToSet(s)
  <2>1. x = SubSeq(s, 1, (IF I # {} THEN Min(I) ELSE 0) - 1)
    BY <1>2 DEF UpTo, SelectInSeq
  <2>2. I # {}
    BY <1>1, <1>2 DEF ToSet
  <2>3. \A i \in 1 .. Len(s) : s[i] = b => i \in I
    OBVIOUS
  <2> DEFINE m == Min(I)
  <2> HIDE DEF I
  <2>4. m \in I /\ \A i \in I : m <= i
    BY <1>1, <2>2, LeastOf
  <2>5. x = SubSeq(s, 1, m - 1)
    BY <2>1, <2>2
  <2> HIDE DEF m, x
  <2>6. m \in 1 .. Len(s) /\ s[m] = b /\ m - 1 \in 0 .. Len(s) /\ 1 \in Nat \ {0}
    BY <1>1, <2>4
  <2>7. /\ x \in Seq(S) /\ Len(x) = IF 1 <= m - 1 THEN m - 1 - 1 + 1 ELSE 0
        /\ \A i \in 1 .. m - 1 - 1 + 1 : x[i] = s[1 + i - 1]
    BY <2>5, <2>6, PartIs
  <2>8. Len(x) = m - 1 /\ \A i \in 1 .. m - 1 : x[i] = s[0 + i]
    BY <1>1, <2>6, <2>7
  <2>9. \A i \in 1 .. m - 1 : s[i] # b
    <3>1. \A i \in 1 .. m - 1 : i \in 1 .. Len(s) /\ ~(m <= i)
      BY <1>1, <2>6
    <3>2. QED
      BY <2>3, <2>4, <3>1
  <2>10. At(s, 0, x)
    BY <1>1, <2>6, <2>8 DEF At
  <2>11. At(s, m - 1, <<b>>)
    BY <1>1, <2>6 DEF At
  <2>12. \A i \in 1 .. m - 1 : x[i] # b
    BY <2>6, <2>8, <2>9
  <2>13. QED
    BY <2>7, <2>8, <2>10, <2>11, <2>12 DEF x
<1>3. CASE b \notin ToSet(s)
  <2>1. x = s
    BY <1>3 DEF UpTo
  <2>2. \A i \in 1 .. Len(s) : s[i] # b
    BY <1>1, <1>3 DEF ToSet
  <2> HIDE DEF x
  <2>3. At(s, 0, s)
    BY <1>1 DEF At
  <2>4. QED
    BY <2>1, <2>2, <2>3 DEF x
<1>4. QED
  BY <1>2, <1>3

LEMMA SkipAt ==
    ASSUME NEW S, NEW s \in Seq(S), NEW bytes
    PROVE  \E n \in 0 .. Len(s) :
              /\ Skip(s, bytes) \in Seq(S) /\ At(s, n, Skip(s, bytes))
              /\ Len(Skip(s, bytes)) = Len(s) - n
              /\ \A i \in 1 .. n : s[i] \in bytes
              /\ n < Len(s) => s[n + 1] \notin bytes
<1> DEFINE I == {i \in 1 .. Len(s) : s[i] \notin bytes}
           m == Min(I)
<1>1. Skip(s, bytes) = LET n == IF I # {} THEN m ELSE 0 IN
                       IF n = 0 THEN Empty ELSE From(s, n)
  BY DEF Skip, SelectInSeq
<1>2. Len(s) \in Nat /\ I \subseteq Nat \ {0}
      /\ \A i \in 1 .. Len(s) : i \in I \/ s[i] \in bytes
  OBVIOUS
<1>6. \A i \in I : i \in 1 .. Len(s) /\ s[i] \notin bytes
  OBVIOUS
<1>3. CASE I = {}
  <2>1. Skip(s, bytes) = Empty /\ Empty \in Seq(S) /\ Len(Empty) = 0
    BY <1>1, <1>3 DEF Empty
  <2>2. At(s, Len(s), Empty)
    BY <1>2, <2>1 DEF At
  <2>3. \A i \in 1 .. Len(s) : s[i] \in bytes
    BY <1>2, <1>3
  <2>4. Len(s) \in 0 .. Len(s) /\ ~(Len(s) < Len(s)) /\ Len(s) - Len(s) = 0
    BY <1>2
  <2>5. QED
    BY <2>1, <2>2, <2>3, <2>4
<1>4. CASE I # {}
  <2> HIDE DEF I
  <2>1. m \in I /\ \A i \in I : m <= i
    BY <1>2, <1>4, LeastOf
  <2> HIDE DEF m
  <2>2. m \in 1 .. Len(s) /\ s[m] \notin bytes
    BY <1>6, <2>1
  <2> DEFINE n == m - 1
  <2>3. n \in 0 .. Len(s) /\ n + 1 = m /\ n \in Nat
    BY <1>2, <2>2
  <2>4. Skip(s, bytes) = From(s, m)
    BY <1>1, <1>4, <2>2
  <2> HIDE DEF n
  <2>5. Skip(s, bytes) = From(s, n + 1)
    BY <2>3, <2>4
  <2>6. /\ From(s, n + 1) \in Seq(S) /\ At(s, n, From(s, n + 1))
        /\ Len(From(s, n + 1)) = Len(s) - n
    BY <2>3, FromAt
  <2>7. \A i \in 1 .. n : s[i] \in bytes
    <3>1. \A i \in 1 .. n : i \in 1 .. Len(s) /\ ~(m <= i)
      BY <1>2, <2>2, <2>3
    <3>2. QED
      BY <1>2, <2>1, <3>1
  <2>8. s[n + 1] \notin bytes
    BY <2>2, <2>3
  <2>9. QED
    BY <2>3, <2>5, <2>6, <2>7, <2>8
<1>5. QED
  BY <1>3, <1>4

\* The first two tokens of a line with single delimiters.
LEMMA TokensAt ==
    ASSUME NEW S, NEW s \in Seq(S), NEW b, b \in S, Single(s, b),
           NEW k, k = Token(s, b), NEW v, v = Token(AfterToken(s, b), b)
    PROVE  /\ k = UpTo(s, b) /\ k \in Seq(S) /\ v \in Seq(S) /\ At(s, 0, k)
           /\ \A i \in 1 .. Len(v) : v[i] # b
           /\ \/ Len(k) = Len(s) /\ v = Empty
              \/ /\ At(s, Len(k), <<b>>) /\ At(s, Len(k) + 1, v)
                 /\ Len(k) + 1 + Len(v) = Len(s) \/ At(s, Len(k) + 1 + Len(v), <<b>>)
<1> DEFINE rest == AfterToken(s, b)
           more == Skip(rest, {b})
           l == Len(s)
           d == <<b>>
<1>1. l \in Nat /\ d \in Seq(S) /\ Len(d) = 1 /\ d[1] = b
  OBVIOUS
<1>2. l > 0 => s[1] # b
  <2>1. starts_with(s, d) <=> 1 <= l /\ \A i \in 1 .. 1 : s[i] = d[i]
    BY <1>1, PrefixIs
  <2>2. (\A i \in 1 .. 1 : s[i] = d[i]) <=> s[1] = b
    BY <1>1
  <2>3. QED
    BY <1>1, <2>1, <2>2 DEF Single
<1>3. Skip(s, {b}) = s
  <2>1. PICK n \in 0 .. Len(s) :
           /\ Skip(s, {b}) \in Seq(S) /\ At(s, n, Skip(s, {b}))
           /\ Len(Skip(s, {b})) = Len(s) - n
           /\ \A i \in 1 .. n : s[i] \in {b}
    BY SkipAt
  <2>2. n = 0
    <3>1. SUFFICES ASSUME n # 0 PROVE FALSE
      OBVIOUS
    <3>2. 1 \in 1 .. n /\ l > 0
      BY <1>1, <2>1, <3>1
    <3>3. QED
      BY <1>2, <2>1, <3>2
  <2>3. At(s, 0, Skip(s, {b})) /\ Len(Skip(s, {b})) = Len(s) /\ Skip(s, {b}) \in Seq(S)
    BY <1>1, <2>1, <2>2
  <2>4. QED
    BY <2>3, AtStart
<1>4. k = UpTo(s, b) /\ rest = From(s, Len(k) + 1)
  BY <1>3 DEF Token, AfterToken
<1>5. /\ k \in Seq(S) /\ At(s, 0, k)
      /\ Len(k) = l \/ At(s, Len(k), d)
  BY <1>4, UpToAt
<1> DEFINE p == Len(k)
<1>6. p \in 0 .. l /\ p \in Nat
  BY <1>1, <1>5 DEF At
<1>7. rest \in Seq(S) /\ At(s, p, rest) /\ Len(rest) = l - p
  BY <1>4, <1>6, FromAt
<1> HIDE DEF rest
<1>8. PICK n \in 0 .. Len(rest) :
         /\ more \in Seq(S) /\ At(rest, n, more) /\ Len(more) = Len(rest) - n
         /\ \A i \in 1 .. n : rest[i] \in {b}
         /\ n < Len(rest) => rest[n + 1] \notin {b}
  BY <1>7, SkipAt
<1>9. v = UpTo(more, b)
  BY DEF Token, rest
<1> HIDE DEF more
<1>10. /\ v \in Seq(S) /\ At(more, 0, v) /\ \A i \in 1 .. Len(v) : v[i] # b
       /\ Len(v) = Len(more) \/ At(more, Len(v), d)
  BY <1>8, <1>9, UpToAt
<1>11. CASE p = l
  <2>1. Len(rest) = 0
    BY <1>1, <1>7, <1>11
  <2>2. Len(more) = 0
    <3>1. n \in 0 .. 0
      BY <2>1
    <3>2. n = 0
      BY <3>1
    <3>3. Len(more) = 0 - 0
      BY <1>8, <2>1, <3>2
    <3>4. QED
      BY <3>3
  <2>3. Len(v) = 0
    <3>1. 0 + Len(v) <= 0 /\ Len(v) \in Nat
      BY <1>10, <2>2 DEF At
    <3>2. QED
      BY <3>1
  <2>4. v = Empty
    BY <1>10, <2>3, EmptySeq DEF Empty
  <2>5. Len(k) = Len(s)
    BY <1>11
  <2>6. QED
    BY <1>4, <1>5, <1>10, <2>4, <2>5
<1>12. CASE p # l
  <2>1. p < l /\ At(s, p, d) /\ s[p + 1] = b
    <3>1. At(s, p, d)
      BY <1>5, <1>12
    <3>2. s[p + 1] = d[1]
      BY <1>1, <3>1 DEF At
    <3>3. QED
      BY <1>1, <1>6, <1>12, <3>1, <3>2
  <2>2. Len(rest) >= 1 /\ Len(rest) \in Nat
    BY <1>1, <1>6, <1>7, <2>1
  <2>3. \A i \in 1 .. Len(rest) : rest[i] = s[p + i]
    BY <1>7 DEF At
  <2>4. n # 0
    <3>1. SUFFICES ASSUME n = 0 PROVE FALSE
      OBVIOUS
    <3>2. 0 < Len(rest) /\ 1 \in 1 .. Len(rest)
      BY <2>2
    <3>3. rest[1] # b
      BY <1>8, <3>1, <3>2
    <3>4. QED
      BY <2>1, <2>3, <3>2, <3>3
  <2>5. n = 1
    <3>1. SUFFICES ASSUME n # 1 PROVE FALSE
      OBVIOUS
    <3>2. 2 \in 1 .. n /\ 2 \in 1 .. Len(rest)
      BY <1>8, <2>2, <2>4, <3>1
    <3>3. rest[2] = b
      BY <1>8, <3>2
    <3>4. rest[2] = s[p + 2]
      BY <2>3, <3>2
    <3>5. p + 1 \in 1 .. l - 1 /\ p + 1 + 1 = p + 2
      BY <1>1, <1>6, <1>7, <3>2
    <3>6. s[p + 2] # b
      BY <2>1, <3>5 DEF Single
    <3>7. QED
      BY <3>3, <3>4, <3>6
  <2>6. At(s, p + 1, more)
    BY <1>6, <1>7, <1>8, <2>5, AtAt
  <2>7. At(s, p + 1, v)
    <3>1. p + 1 \in Nat /\ p + 1 + 0 = p + 1 /\ 0 \in Nat
      BY <1>6
    <3>2. At(s, p + 1 + 0, v)
      BY <1>8, <1>10, <2>6, <3>1, AtAt
    <3>3. QED
      BY <3>1, <3>2
  <2>8. p + 1 + Len(v) = l \/ At(s, p + 1 + Len(v), d)
    <3>1. CASE Len(v) = Len(more)
      BY <1>1, <1>6, <1>7, <1>8, <2>5, <3>1
    <3>2. CASE At(more, Len(v), d)
      <4>1. p + 1 \in Nat /\ Len(v) \in Nat
        BY <1>6, <1>10
      <4>2. QED
        BY <1>1, <1>8, <2>6, <3>2, <4>1, AtAt
    <3>3. QED
      BY <1>10, <3>1, <3>2
  <2>9. /\ At(s, Len(k), <<b>>) /\ At(s, Len(k) + 1, v)
        /\ Len(k) + 1 + Len(v) = Len(s) \/ At(s, Len(k) + 1 + Len(v), <<b>>)
    BY <2>1, <2>7, <2>8
  <2>10. QED
    BY <1>4, <1>5, <1>10, <2>9
<1>13. QED
  BY <1>11, <1>12

\* What a well formed header line says.
LEMMA HeaderSays ==
    ASSUME NEW line \in Text,
           Single(lk_chomp(line), ":") \/ ToSet(lk_chomp(line)) \subseteq {":"}
    PROVE  \/ Header(line) = << >> /\ NameOf(line) = Empty
           \/ /\ Header(line) # << >> /\ Header(line)[1] = NameOf(line)
              /\ NameOf(line) \in Text /\ Header(line)[2] \in Text
              /\ \/ Says(line, NameOf(line), Header(line)[2])
                 \/ Header(line)[2] = Empty /\ lk_chomp(line) = NameOf(line)
<1> DEFINE s == lk_chomp(line)
           k == Token(s, ":")
           x == Token(AfterToken(s, ":"), ":")
           v == Skip(x, {"sp"})
           colon == <<":">>
<1>1. /\ line \in Seq(Pieces) /\ ":" \in Pieces /\ "sp" \in Pieces
      /\ colon \in Seq(Pieces) /\ Len(colon) = 1
  BY WordsAssumption DEF Text
<1>2. s \in Seq(Pieces) /\ At(line, 0, s)
  BY <1>1, ChompAt
<1>3. Header(line) = IF k = Empty THEN << >> ELSE <<k, v>>
  BY DEF Header
<1>4. NameOf(line) = UpTo(s, ":")
  BY DEF NameOf
<1> HIDE DEF s
<1>5. CASE ToSet(s) \subseteq {":"}
  <2>1. DOMAIN s = 1 .. Len(s) /\ Len(s) \in Nat
    BY <1>2
  <2>2. \A i \in 1 .. Len(s) : s[i] = ":"
    BY <1>5, <2>1 DEF ToSet
  <2>3. Skip(s, {":"}) = Empty
    <3>1. PICK n \in 0 .. Len(s) :
             /\ Skip(s, {":"}) \in Seq(Pieces)
             /\ Len(Skip(s, {":"})) = Len(s) - n
             /\ n < Len(s) => s[n + 1] \notin {":"}
      BY <1>2, SkipAt
    <3>2. n = Len(s)
      <4>1. SUFFICES ASSUME n # Len(s) PROVE FALSE
        OBVIOUS
      <4> DEFINE l == Len(s)
      <4> HIDE DEF l
      <4>2. n < l /\ n + 1 \in 1 .. l
        <5>1. l \in Nat /\ n \in 0 .. l /\ n # l
          BY <2>1, <3>1, <4>1 DEF l
        <5>2. QED
          BY <5>1
      <4>3. QED
        BY <2>2, <3>1, <4>2 DEF l
    <3>3. Len(Skip(s, {":"})) = 0
      BY <2>1, <3>1, <3>2
    <3>4. QED
      BY <3>1, <3>3, EmptySeq DEF Empty
  <2>4. k = Empty
    <3>1. Empty \in Seq(Pieces) /\ Len(Empty) = 0
      BY DEF Empty
    <3>2. UpTo(Empty, ":") \in Seq(Pieces) /\ At(Empty, 0, UpTo(Empty, ":"))
      BY <3>1, UpToAt
    <3>3. Len(UpTo(Empty, ":")) = 0
      BY <3>1, <3>2 DEF At
    <3>4. UpTo(Empty, ":") = Empty
      BY <3>2, <3>3, EmptySeq DEF Empty
    <3>5. QED
      BY <2>3, <3>4 DEF Token
  <2>5. UpTo(s, ":") = Empty
    <3>1. /\ UpTo(s, ":") \in Seq(Pieces) /\ At(s, 0, UpTo(s, ":"))
          /\ \A i \in 1 .. Len(UpTo(s, ":")) : UpTo(s, ":")[i] # ":"
      BY <1>2, UpToAt
    <3>2. Len(UpTo(s, ":")) = 0
      <4>1. SUFFICES ASSUME Len(UpTo(s, ":")) # 0 PROVE FALSE
        OBVIOUS
      <4>2. 1 \in 1 .. Len(UpTo(s, ":")) /\ 1 \in 1 .. Len(s)
        BY <2>1, <3>1, <4>1 DEF At
      <4>3. s[0 + 1] = UpTo(s, ":")[1]
        BY <3>1, <4>2 DEF At
      <4>4. QED
        BY <2>2, <3>1, <4>2, <4>3
    <3>3. QED
      BY <3>1, <3>2, EmptySeq DEF Empty
  <2>6. QED
    BY <1>3, <1>4, <2>4, <2>5
<1>6. CASE Single(s, ":")
  <2>1. /\ k = UpTo(s, ":") /\ k \in Seq(Pieces) /\ x \in Seq(Pieces) /\ At(s, 0, k)
        /\ \A i \in 1 .. Len(x) : x[i] # ":"
        /\ \/ Len(k) = Len(s) /\ x = Empty
           \/ /\ At(s, Len(k), colon) /\ At(s, Len(k) + 1, x)
              /\ Len(k) + 1 + Len(x) = Len(s) \/ At(s, Len(k) + 1 + Len(x), colon)
    BY <1>1, <1>2, <1>6, TokensAt
  <2> HIDE DEF k, x
  <2>2. PICK n \in 0 .. Len(x) :
           /\ v \in Seq(Pieces) /\ At(x, n, v) /\ Len(v) = Len(x) - n
           /\ \A i \in 1 .. n : x[i] \in {"sp"}
           /\ n < Len(x) => x[n + 1] \notin {"sp"}
    BY <2>1, SkipAt
  <2> HIDE DEF v
  <2>3. Len(x) \in Nat /\ n \in Nat /\ Len(k) \in Nat /\ Len(s) \in Nat /\ Len(line) \in Nat
    BY <1>1, <1>2, <2>1
  <2>4. k = Empty => Header(line) = << >> /\ NameOf(line) = Empty
    BY <1>3, <1>4, <2>1
  <2>5. CASE Len(k) = Len(s) /\ x = Empty
    <3>1. s = k
      BY <1>2, <2>1, <2>5, AtStart
    <3>2. v = Empty
      <4>1. Len(v) = 0
        BY <2>2, <2>3, <2>5 DEF Empty
      <4>2. QED
        BY <2>2, <4>1, EmptySeq DEF Empty
    <3>3. k # Empty => Header(line) # << >> /\ Header(line)[1] = k /\ Header(line)[2] = v
      BY <1>3
    <3>4. QED
      BY <1>4, <2>1, <2>2, <2>4, <3>1, <3>2, <3>3 DEF Text, s
  <2>6. CASE ~(Len(k) = Len(s) /\ x = Empty)
    <3> DEFINE blanks == [i \in 1 .. n |-> "sp"]
               said == k \o colon \o blanks \o v
    <3>1. blanks \in Seq(Pieces) /\ Len(blanks) = n /\ \A i \in 1 .. n : blanks[i] = "sp"
      BY <1>1, <2>3
    <3> HIDE DEF blanks, colon
    <3>2. At(x, 0, blanks)
      BY <2>2, <2>3, <3>1 DEF At
    <3>3. At(s, Len(k) + 1, blanks) /\ At(s, Len(k) + 1 + n, v)
      <4>1. Len(k) + 1 \in Nat /\ 0 \in Nat /\ Len(k) + 1 + 0 = Len(k) + 1
        BY <2>3
      <4>2. At(s, Len(k) + 1, x)
        BY <2>1, <2>6
      <4>3. At(s, Len(k) + 1 + 0, blanks)
        BY <1>2, <2>1, <3>1, <3>2, <4>1, <4>2, AtAt
      <4>4. At(s, Len(k) + 1 + n, v)
        BY <1>2, <2>1, <2>2, <2>3, <4>1, <4>2, AtAt
      <4>5. QED
        BY <4>1, <4>3, <4>4
    <3>4. At(s, 0, said) /\ said \in Seq(Pieces) /\ Len(said) = Len(k) + 1 + n + Len(v)
      <4> DEFINE a == k \o colon
                 b == a \o blanks
      <4>1. a \in Seq(Pieces) /\ Len(a) = Len(k) + 1
        <5>1. k \in Seq(Pieces) /\ colon \in Seq(Pieces) /\ Len(colon) = 1
          BY <1>1, <2>1
        <5>2. k \o colon \in Seq(Pieces) /\ Len(k \o colon) = Len(k) + Len(colon)
          BY <5>1, ConcatProperties
        <5>3. QED
          BY <5>1, <5>2
      <4>2. At(s, 0, a)
        <5>1. At(s, 0 + Len(k), colon)
          BY <2>1, <2>3, <2>6
        <5>2. QED
          BY <1>1, <1>2, <2>1, <5>1, AtJoin
      <4> HIDE DEF a
      <4>3. b \in Seq(Pieces) /\ Len(b) = Len(k) + 1 + n
        BY <3>1, <4>1, ConcatProperties
      <4>4. At(s, 0, b)
        <5>1. At(s, 0 + Len(a), blanks)
          BY <2>3, <3>3, <4>1
        <5>2. QED
          BY <1>2, <3>1, <4>1, <4>2, <5>1, AtJoin
      <4> HIDE DEF b
      <4>5. b \o v \in Seq(Pieces) /\ Len(b \o v) = Len(k) + 1 + n + Len(v)
        <5>1. b \in Seq(Pieces) /\ v \in Seq(Pieces)
          BY <2>2, <4>3
        <5>2. b \o v \in Seq(Pieces) /\ Len(b \o v) = Len(b) + Len(v)
          BY <5>1, ConcatProperties
        <5>3. QED
          BY <4>3, <5>2
      <4>6. At(s, 0, b \o v)
        <5>1. At(s, 0 + Len(b), v)
          BY <2>3, <3>3, <4>3
        <5>2. QED
          BY <1>2, <2>2, <4>3, <4>4, <5>1, AtJoin
      <4>7. QED
        BY <4>5, <4>6 DEF a, b
    <3> HIDE DEF said
    <3>5. Len(said) = Len(k) + 1 + Len(x)
      BY <2>2, <2>3, <3>4
    <3>6. s = said \/ starts_with(line, said \o colon)
      <4>1. CASE Len(k) + 1 + Len(x) = Len(s)
        <5>1. s \in Seq(Pieces) /\ said \in Seq(Pieces) /\ At(s, 0, said)
          BY <1>2, <3>4
        <5>2. Len(said) = Len(s)
          BY <3>5, <4>1
        <5>3. QED
          BY <5>1, <5>2, AtStart
      <4>2. CASE At(s, Len(k) + 1 + Len(x), colon)
        <5>1. At(s, 0 + Len(said), colon) /\ Len(said) \in Nat
          BY <2>3, <3>5, <4>2
        <5>2. said \o colon \in Seq(Pieces)
          BY <1>1, <3>4, ConcatProperties
        <5>3. At(s, 0, said \o colon)
          BY <1>1, <1>2, <3>4, <5>1, AtJoin
        <5>4. 0 \in Nat /\ 0 + 0 = 0
          OBVIOUS
        <5>5. At(line, 0 + 0, said \o colon)
          BY <1>1, <1>2, <5>2, <5>3, <5>4, AtAt
        <5>6. line \in Seq(Pieces) /\ At(line, 0, said \o colon)
          BY <1>1, <5>4, <5>5
        <5>7. starts_with(line, said \o colon)
          BY <5>2, <5>6, AtStart
        <5>8. QED
          BY <5>7
      <4>3. QED
        BY <2>1, <2>6, <4>1, <4>2
    <3>7. n \in 0 .. Len(line)
      <4>1. Len(s) <= Len(line)
        BY <1>2 DEF At
      <4>2. Len(said) <= Len(s)
        BY <3>4 DEF At
      <4>3. QED
        BY <2>3, <3>5, <4>1, <4>2
    <3>8. ":" \notin ToSet(v)
      <4>1. \A i \in 1 .. Len(v) : v[i] = x[n + i] /\ n + i \in 1 .. Len(x)
        BY <2>2, <2>3 DEF At
      <4>2. DOMAIN v = 1 .. Len(v)
        BY <2>2
      <4>3. \A i \in 1 .. Len(v) : v[i] # ":"
        BY <2>1, <4>1
      <4>4. QED
        BY <4>2, <4>3 DEF ToSet
    <3>9. ~starts_with(v, Sp)
      <4>1. Sp \in Seq(Pieces) /\ Len(Sp) = 1 /\ Sp[1] = "sp"
        BY <1>1 DEF Sp
      <4>2. SUFFICES ASSUME starts_with(v, Sp) PROVE FALSE
        OBVIOUS
      <4>3. 1 <= Len(v) /\ v[1] = "sp"
        <5>1. Len(Sp) <= Len(v) /\ \A i \in 1 .. Len(Sp) : v[i] = Sp[i]
          BY <2>2, <4>1, <4>2, PrefixIs
        <5>2. QED
          BY <4>1, <5>1
      <4>4. n < Len(x) /\ v[1] = x[n + 1]
        BY <2>2, <2>3, <4>3 DEF At
      <4>5. QED
        BY <2>2, <4>3, <4>4
    <3>10. Says(line, k, v)
      BY <3>6, <3>7, <3>8, <3>9 DEF Says, said, blanks, colon, s
    <3>11. k # Empty => Header(line) # << >> /\ Header(line)[1] = k /\ Header(line)[2] = v
      BY <1>3
    <3>12. QED
      BY <1>4, <2>1, <2>2, <2>4, <3>10, <3>11 DEF Text
  <2>7. QED
    BY <2>5, <2>6
<1>7. QED
  BY <1>5, <1>6 DEF s

\* The last of the lines about k says v, if there is one.
About(lines, k) ==
    {n \in 2 .. Len(lines) : ~is_empty_line(lines[n]) /\ NameOf(lines[n]) = k}

LastOf(lines, k, v) ==
    \/ About(lines, k) = {} /\ v = Empty
    \/ \E n \in About(lines, k) :
          /\ \A m \in About(lines, k) : m <= n
          /\ Says(lines[n], k, v) \/ (v = Empty /\ lk_chomp(lines[n]) = k)

\* What a table gives for a name is what the last line about it says.
LEMMA LastSays ==
    ASSUME NEW lines \in Seq(Text), lines # << >>, NEW k, k # Empty,
           \A n \in 2 .. Len(lines) :
              \/ Single(lk_chomp(lines[n]), ":")
              \/ ToSet(lk_chomp(lines[n])) \subseteq {":"}
    PROVE  /\ LastOf(lines, k, OrEmpty(lk_stringtable_get(Headers(lines), k)))
           /\ lk_stringtable_get(Headers(lines), k) = NULL <=> About(lines, k) = {}
<1> DEFINE about == About(lines, k)
           v == OrEmpty(lk_stringtable_get(Headers(lines), k))
           N == Len(lines)
           A(n) == {m \in 2 .. n : ~is_empty_line(lines[m]) /\ NameOf(lines[m]) = k}
           Value(m) == Header(lines[m])[2]
           None(g, n) == A(n) = {} /\ lk_stringtable_get(g, k) = NULL
           SaidBy(g, n, m) == /\ \A j \in A(n) : j <= m
                             /\ Header(lines[m]) # << >>
                             /\ lk_stringtable_get(g, k) = Value(m)
           Holds(g, n) == None(g, n) \/ \E m \in A(n) : SaidBy(g, n, m)
<1>0. about = {n \in 2 .. N : ~is_empty_line(lines[n]) /\ NameOf(lines[n]) = k}
  BY DEF About
<1>1. PICK f :
         /\ Headers(lines) = f[N] /\ f[1] = << >>
         /\ \A n \in 2 .. N :
               f[n] = IF is_empty_line(lines[n]) THEN f[n - 1]
                      ELSE parse_header_line(f[n - 1], lines[n])
  BY HeadersBy
<1>2. N \in Nat /\ N >= 1 /\ \A n \in 1 .. N : lines[n] \in Text
  <2>1. N \in Nat \ {0}
    BY EmptySeq
  <2>2. QED
    BY <2>1, ElementOfSeq
<1>3. \A n \in 1 .. N : f[n] \in HeaderTables
  BY <1>1, HeadersTyped
<1> HIDE DEF N, about, v
<1> DEFINE G == {n \in 1 .. N : Holds(f[n], n)}
<1>5. 1 \in G
  <2>1. A(1) = {}
    OBVIOUS
  <2>2. lk_stringtable_get(f[1], k) = NULL
    <3>1. f[1] = << >> /\ Len(f[1]) = 0 /\ f[1] \in Seq({})
      BY <1>1
    <3>2. Position(f[1], k) \in 0 .. Len(f[1])
      BY <1>2, <1>3, PositionIs DEF HeaderTables
    <3>3. Position(f[1], k) = 0
      BY <3>1, <3>2
    <3>4. QED
      BY <3>3 DEF lk_stringtable_get
  <2>3. 1 \in 1 .. N
    BY <1>2
  <2>4. QED
    BY <2>1, <2>2, <2>3
<1>6. ASSUME NEW n \in 2 .. N, n - 1 \in G
      PROVE  n \in G
  <2> DEFINE line == lines[n]
             t == f[n - 1]
  <2>1. /\ n \in 1 .. N /\ n - 1 \in 1 .. N /\ n \in Nat /\ line \in Text
        /\ t \in HeaderTables
    BY <1>2, <1>3
  <2>2. f[n] = IF is_empty_line(line) THEN t ELSE parse_header_line(t, line)
    BY <1>1
  <2>3. Single(lk_chomp(line), ":") \/ ToSet(lk_chomp(line)) \subseteq {":"}
    BY DEF N
  <2>4. \A m \in A(n) : m \in 2 .. n
    OBVIOUS
  <2>5. is_empty_line(line) \/ NameOf(line) # k => A(n) = A(n - 1)
    <3>1. SUFFICES ASSUME is_empty_line(line) \/ NameOf(line) # k
                   PROVE  A(n) = A(n - 1)
      OBVIOUS
    <3>2. \A m : m \in 2 .. n /\ m # n <=> m \in 2 .. n - 1
      BY <2>1
    <3>3. QED
      BY <3>1, <3>2
  <2>6. Holds(t, n - 1)
    BY <1>6
  <2> HIDE DEF line, t
  <2>7. CASE /\ is_empty_line(line) \/ NameOf(line) # k
             /\ lk_stringtable_get(f[n], k) = lk_stringtable_get(t, k)
    <3>1. A(n) = A(n - 1)
      BY <2>5, <2>7
    <3> HIDE DEF A, Value
    <3>2. Holds(f[n], n)
      BY <2>6, <2>7, <3>1
    <3>3. QED
      BY <2>1, <3>2
  <2>8. CASE /\ ~is_empty_line(line) /\ NameOf(line) = k /\ Header(line) # << >>
             /\ lk_stringtable_get(f[n], k) = Header(line)[2]
    <3>1. n \in A(n)
      BY <2>1, <2>8 DEF line
    <3>2. \A j \in A(n) : j <= n
      BY <2>1, <2>4
    <3>3. Header(lines[n]) # << >> /\ lk_stringtable_get(f[n], k) = Value(n)
      BY <2>8 DEF line
    <3> HIDE DEF A, Value
    <3>4. QED
      BY <2>1, <3>1, <3>2, <3>3
  <2>9. CASE is_empty_line(line)
    <3>1. f[n] = t
      BY <2>2, <2>9
    <3>2. QED
      BY <2>7, <2>9, <3>1
  <2>10. CASE ~is_empty_line(line)
    <3>1. f[n] = parse_header_line(t, line)
      BY <2>2, <2>10
    <3>2. CASE Header(line) = << >> /\ NameOf(line) = Empty
      <4>1. f[n] = t
        BY <3>1, <3>2 DEF parse_header_line
      <4>2. QED
        BY <2>7, <3>2, <4>1
    <3>3. CASE /\ Header(line) # << >> /\ Header(line)[1] = NameOf(line)
               /\ NameOf(line) \in Text /\ Header(line)[2] \in Text
      <4> DEFINE name == NameOf(line)
                 value == Header(line)[2]
      <4>1. f[n] = lk_stringtable_set(t, name, value)
        BY <3>1, <3>3 DEF parse_header_line
      <4>2. name \in Text /\ value \in Text
        BY <3>3
      <4> HIDE DEF name, value
      <4>3. t \in Seq([k : Text, v : Text])
        BY <2>1 DEF HeaderTables
      <4>4. lk_stringtable_get(f[n], k) =
               IF k = name THEN value ELSE lk_stringtable_get(t, k)
        BY <4>1, <4>2, <4>3, GetAfterSet
      <4>5. CASE k = name
        BY <2>8, <2>10, <3>3, <4>4, <4>5 DEF name, value
      <4>6. CASE k # name
        BY <2>7, <4>4, <4>6 DEF name
      <4>7. QED
        BY <4>5, <4>6
    <3>4. QED
      BY <2>1, <2>3, <3>2, <3>3, HeaderSays
  <2>11. QED
    BY <2>9, <2>10
<1>7. Holds(f[N], N)
  <2> HIDE DEF G
  <2>1. \A n \in 1 .. N : n \in G
    BY <1>2, <1>5, <1>6, Along
  <2>2. N \in G
    BY <1>2, <2>1
  <2>3. QED
    BY <2>2 DEF G
<1>8. A(N) = about /\ v = OrEmpty(lk_stringtable_get(f[N], k)) /\ lk_stringtable_get(Headers(lines), k) = lk_stringtable_get(f[N], k)
  BY <1>0, <1>1 DEF N, v
<1>9. CASE None(f[N], N)
  BY <1>8, <1>9 DEF OrEmpty, LastOf, about, v, N
<1>10. CASE \E m \in A(N) : SaidBy(f[N], N, m)
  <2>1. PICK n \in about : /\ \A m \in about : m <= n
                           /\ Header(lines[n]) # << >>
                           /\ lk_stringtable_get(Headers(lines), k) = Value(n)
    <3> HIDE DEF A, Value
    <3>1. QED
      BY <1>8, <1>10
  <2>2. n \in 2 .. Len(lines) /\ NameOf(lines[n]) = k
    BY <1>0 DEF N
  <2>3. lines[n] \in Text
    BY <1>2, <2>2 DEF N
  <2>4. /\ Single(lk_chomp(lines[n]), ":") \/ ToSet(lk_chomp(lines[n])) \subseteq {":"}
    BY <2>2
  <2>5. /\ Value(n) \in Text
        /\ \/ Says(lines[n], k, Value(n))
           \/ Value(n) = Empty /\ lk_chomp(lines[n]) = k
    BY <2>1, <2>2, <2>3, <2>4, HeaderSays
  <2>6. Value(n) # NULL
    <3> HIDE DEF Value
    <3>1. NULL \notin Text
      <4>1. SUFFICES ASSUME NULL \in Text PROVE FALSE
        OBVIOUS
      <4>2. NULL \in Seq(Pieces) /\ Len(NULL) = 1 /\ NULL[1] = "(null)"
        BY <4>1 DEF Text, NULL
      <4>3. NULL[1] \in Pieces
        BY <4>2, ElementOfSeq
      <4>4. QED
        BY <4>2, <4>3, PiecesAssumption
    <3>2. QED
      BY <2>5, <3>1
  <2>7. v = Value(n)
    BY <1>8, <2>1, <2>6 DEF OrEmpty
  <2>8. QED
    BY <2>1, <2>5, <2>6, <2>7 DEF LastOf, about, v
<1>11. QED
  BY <1>7, <1>9, <1>10

-----------------------------------------------------------------------------
(***************************************************************************)
(* The environment of a program.                                            *)
(***************************************************************************)

\* The headers of a request are those of its lines.
LEMMA ParsedHeaders ==
    ASSUME NEW lines, lines # << >>
    PROVE  Parsed(lines).headers = Headers(lines)
<1> DEFINE first == parse_request_line(lk_httprequest_new, lines[1])
<1>1. Parsed(lines) = [first EXCEPT !.headers = Headers(lines)]
  BY DEF Parsed
<1>2. "headers" \in DOMAIN first
  BY DEF parse_request_line, parse_uri, lk_httprequest_new
<1> HIDE DEF first
<1>3. QED
  BY <1>1, <1>2

\* Method and URI of a request are the first two words of its first line.
LEMMA FirstLine ==
    ASSUME NEW lines \in Seq(Text), WellFormed(lines)
    PROVE  starts_with(lines[1], Parsed(lines).method \o Sp \o Parsed(lines).uri)
<1> DEFINE line == lines[1]
           s == lk_chomp(line)
           k == Token(s, "sp")
           u == Token(AfterToken(s, "sp"), "sp")
           version == Token(AfterToken(AfterToken(s, "sp"), "sp"), "sp")
           new == lk_httprequest_new
           first == [new EXCEPT !.method = k, !.uri = u, !.version = version]
           path == lk_string_chop_end(Split(first.uri, "?")[1], Slash)
           query == Nth(Split(first.uri, "?"), 2)
           filename == Last(Split(path, "/"))
           headers == Headers(lines)
           parsed == [first EXCEPT !.path = path, !.querystring = query,
                                   !.filename = filename]
<1>1. /\ lines # << >> /\ Single(s, "sp") /\ "sp" \in ToSet(s)
  BY DEF WellFormed
<1>2. line \in Seq(Pieces)
  <2>1. 1 \in 1 .. Len(lines)
    BY <1>1, EmptySeq
  <2>2. line \in Text
    BY <2>1, ElementOfSeq
  <2>3. QED
    BY <2>2 DEF Text
<1>3. Parsed(lines) = [parsed EXCEPT !.headers = headers]
  BY <1>1 DEF Parsed, parse_request_line, parse_uri
<1>4. first.method = k /\ first.uri = u /\ DOMAIN first = DOMAIN new
      /\ {"method", "uri"} \subseteq DOMAIN new
  <2> HIDE DEF k, u, version
  <2>1. {"method", "uri"} \subseteq DOMAIN new
    BY DEF lk_httprequest_new
  <2> HIDE DEF new
  <2>2. QED
    BY <2>1
<1>5. Parsed(lines).method = k /\ Parsed(lines).uri = u
  <2> HIDE DEF path, query, filename, headers, first, k, u
  <2>1. QED
    BY <1>3, <1>4
<1>6. s \in Seq(Pieces) /\ At(line, 0, s) /\ "sp" \in Pieces
  BY <1>2, ChompAt, WordsAssumption
<1> HIDE DEF s
<1>7. /\ k = UpTo(s, "sp") /\ k \in Seq(Pieces) /\ u \in Seq(Pieces) /\ At(s, 0, k)
      /\ \/ Len(k) = Len(s) /\ u = Empty
         \/ At(s, Len(k), <<"sp">>) /\ At(s, Len(k) + 1, u)
  BY <1>1, <1>6, TokensAt
<1>8. Len(k) # Len(s)
  <2>1. SUFFICES ASSUME Len(k) = Len(s) PROVE FALSE
    OBVIOUS
  <2>2. \A i \in 1 .. Len(k) : k[i] # "sp"
    BY <1>6, <1>7, UpToAt
  <2> HIDE DEF k, u
  <2>3. s = k
    BY <1>6, <1>7, <2>1, AtStart
  <2>4. DOMAIN s = 1 .. Len(s)
    BY <1>6
  <2>5. QED
    BY <1>1, <2>2, <2>3, <2>4 DEF ToSet
<1> HIDE DEF k, u
<1>9. Sp \in Seq(Pieces) /\ Len(Sp) = 1 /\ At(s, Len(k), Sp) /\ At(s, Len(k) + 1, u)
  BY <1>6, <1>7, <1>8 DEF Sp
<1>10. k \o Sp \in Seq(Pieces) /\ Len(k \o Sp) = Len(k) + 1 /\ Len(k) \in Nat
  <2>1. k \o Sp \in Seq(Pieces) /\ Len(k \o Sp) = Len(k) + Len(Sp)
    BY <1>7, <1>9, ConcatProperties
  <2>2. QED
    BY <1>7, <1>9, <2>1
<1> DEFINE a == k \o Sp
<1>11. At(s, 0, a)
  <2>1. At(s, 0 + Len(k), Sp) /\ 0 \in Nat
    BY <1>9, <1>10
  <2>2. QED
    BY <1>6, <1>7, <1>9, <2>1, AtJoin
<1> HIDE DEF a
<1>12. a \in Seq(Pieces) /\ At(s, 0 + Len(a), u) /\ 0 \in Nat
  BY <1>9, <1>10 DEF a
<1>13. At(s, 0, a \o u)
  BY <1>6, <1>7, <1>11, <1>12, AtJoin
<1>14. a \o u \in Seq(Pieces)
  BY <1>7, <1>12, ConcatProperties
<1>15. At(line, 0, a \o u)
  <2>1. 0 \in Nat /\ 0 + 0 = 0
    OBVIOUS
  <2>2. At(line, 0 + 0, a \o u)
    BY <1>2, <1>6, <1>13, <1>14, <2>1, AtAt
  <2>3. QED
    BY <2>1, <2>2
<1>16. starts_with(line, a \o u)
  BY <1>2, <1>14, <1>15, AtStart
<1>17. QED
  BY <1>5, <1>16 DEF a

\* What a program is told.
Tells(e, r, homedir, from) ==
    /\ e.DOCUMENT_ROOT = homedir /\ e.SCRIPT_FILENAME = homedir \o r.path
    /\ e.SCRIPT_NAME = r.path /\ e.REQUEST_METHOD = r.method
    /\ e.REQUEST_URI = r.uri /\ e.QUERY_STRING = r.querystring
    /\ e.CONTENT_LENGTH = Number(Len(r.body)) /\ e.REMOTE_ADDR = from
    /\ e.CONTENT_TYPE = OrEmpty(lk_stringtable_get(r.headers, <<"Content-Type">>))
    /\ e.HTTP_HOST = OrEmpty(lk_stringtable_get(r.headers, <<"Host">>))
    /\ e.HTTP_USER_AGENT = OrEmpty(lk_stringtable_get(r.headers, <<"User-Agent">>))

LEMMA EnvironmentTells ==
    ASSUME NEW e \in [EnvNames -> Text], NEW r, NEW homedir, NEW from
    PROVE  Tells(set_cgi_env2(e, r, homedir, from), r, homedir, from)
<1> DEFINE header(k) == OrEmpty(lk_stringtable_get(r.headers, <<k>>))
           type == header("Content-Type")
           agent == header("User-Agent")
           host == header("Host")
           script == homedir \o r.path
           length == Number(Len(r.body))
           path == r.path
           method == r.method
           uri == r.uri
           query == r.querystring
           new == [e EXCEPT !.DOCUMENT_ROOT = homedir,
                            !.HTTP_USER_AGENT = agent,
                            !.HTTP_HOST = host,
                            !.SCRIPT_FILENAME = script,
                            !.REQUEST_METHOD = method,
                            !.SCRIPT_NAME = path,
                            !.REQUEST_URI = uri,
                            !.QUERY_STRING = query,
                            !.CONTENT_TYPE = type,
                            !.CONTENT_LENGTH = length,
                            !.REMOTE_ADDR = from]
<1>1. set_cgi_env2(e, r, homedir, from) = new
  BY DEF set_cgi_env2, Environment, ContentTypeOf
<1> HIDE DEF type, agent, host, script, length, path, method, uri, query
<1>2. DOMAIN e = EnvNames
  OBVIOUS
<1>3. /\ new.DOCUMENT_ROOT = homedir /\ new.HTTP_USER_AGENT = agent
      /\ new.HTTP_HOST = host /\ new.SCRIPT_FILENAME = script
      /\ new.REQUEST_METHOD = method /\ new.SCRIPT_NAME = path
      /\ new.REQUEST_URI = uri /\ new.QUERY_STRING = query
      /\ new.CONTENT_TYPE = type /\ new.CONTENT_LENGTH = length
      /\ new.REMOTE_ADDR = from
  BY <1>2 DEF EnvNames
<1> HIDE DEF new
<1>4. QED
  BY <1>1, <1>3 DEF Tells, type, agent, host, script, length, path, method, uri, query

\* A program that runs has been told of its request.
EnvInv ==
    pc = "cgi" =>
       /\ raw \in Requests
       /\ req = [Parsed(raw.head) EXCEPT !.body = raw.body, !.path = Asked]
       /\ Tells(env, req, HC.homedir_abspath, raw.from)

LEMMA NextEnv ==
    ASSUME TypeOK, RouteInv, Next
    PROVE  EnvInv'
<1>1. SUFFICES ASSUME pc' = "cgi" PROVE EnvInv'
  BY DEF EnvInv
<1>2. ServeCgi
  <2>1. /\ ~ReadRequest /\ ~SessionEnds /\ ~Proxy /\ ~ToFiles
        /\ ~CgiEnds
    BY <1>1, ErrorSent DEF ReadRequest, SessionEnds, Proxy, ToFiles, CgiEnds
  <2>2. ~NoHost /\ ~NoHomedir /\ ~OtherMethod /\ ~CgiFails
    BY <1>1, ErrorSent, RespondsSent DEF NoHost, NoHomedir, OtherMethod, CgiFails
  <2>3. ~GetFile /\ ~CgiEmptyLine /\ ~CgiNoEmptyLine
    BY <1>1, RespondsSent DEF GetFile, CgiEmptyLine, CgiNoEmptyLine
  <2>4. CASE CgiHeaderLine
    BY <1>1, <2>4 DEF CgiHeaderLine
  <2>5. QED
    BY <2>1, <2>2, <2>3, <2>4 DEF Next
<1>3. /\ Local /\ hosts' = hosts /\ raw' = raw
      /\ env' = set_cgi_env2(env, req', HC.homedir_abspath, raw.from)
  BY <1>1, <1>2, ErrorSent DEF ServeCgi
<1>4. Routed /\ req' = [req EXCEPT !.path = Aliased]
  BY <1>3 DEF Local
<1>5. raw \in Requests /\ req = [Parsed(raw.head) EXCEPT !.body = raw.body]
  BY <1>4 DEF RouteInv, Routed
<1>6. Aliased = Asked /\ req'.headers = req.headers
  BY <1>3, <1>4, AliasedIs, LocalIs
<1>7. HC' = HC /\ Asked' = Asked
  BY <1>3, <1>6, SameHost
<1>8. req' = [Parsed(raw.head) EXCEPT !.body = raw.body, !.path = Asked]
  BY <1>4, <1>5, <1>6
<1>9. env \in [EnvNames -> Text]
  BY DEF TypeOK
<1>10. Tells(env', req', HC.homedir_abspath, raw.from)
  BY <1>3, <1>9, EnvironmentTells
<1>11. QED
  BY <1>3, <1>5, <1>7, <1>8, <1>10 DEF EnvInv, Tells

\* The table carries what the lines say of a name.
LEMMA HeaderCarried ==
    ASSUME raw.head \in Seq(Text), WellFormed(raw.head), NEW k, k # Empty
    PROVE  /\ Carries(k, OrEmpty(lk_stringtable_get(Headers(raw.head), k)))
           /\ lk_stringtable_get(Headers(raw.head), k) # NULL
                 <=> \E n \in HeaderLines : NameOf(raw.head[n]) = k
<1> DEFINE lines == raw.head
           about == About(lines, k)
           v == OrEmpty(lk_stringtable_get(Headers(lines), k))
<1>1. /\ lines # << >>
      /\ \A n \in DOMAIN lines \ {1} :
            \/ Single(lk_chomp(lines[n]), ":")
            \/ ToSet(lk_chomp(lines[n])) \subseteq {":"}
  BY DEF WellFormed
<1>2. /\ HeaderLines = {n \in 2 .. Len(lines) : ~is_empty_line(lines[n])}
      /\ DOMAIN lines \ {1} = 2 .. Len(lines)
  BY DEF HeaderLines
<1>3. \A n \in 2 .. Len(lines) :
         \/ Single(lk_chomp(lines[n]), ":")
         \/ ToSet(lk_chomp(lines[n])) \subseteq {":"}
  BY <1>1, <1>2
<1>4. /\ LastOf(lines, k, v)
      /\ lk_stringtable_get(Headers(lines), k) = NULL <=> about = {}
  <2>1. lines \in Seq(Text) /\ lines # << >>
    BY <1>1
  <2> HIDE DEF lines
  <2>2. QED
    BY <1>3, <2>1, LastSays
<1>5. {n \in HeaderLines : NameOf(raw.head[n]) = k} = about
  BY <1>2 DEF About
<1>6. about \subseteq Nat
  BY DEF About
<1> HIDE DEF about, v
<1>7. CASE about = {} /\ v = Empty
  BY <1>4, <1>5, <1>7 DEF Carries, v
<1>8. CASE \E n \in about :
            /\ \A m \in about : m <= n
            /\ Says(lines[n], k, v) \/ (v = Empty /\ lk_chomp(lines[n]) = k)
  <2>1. PICK n \in about :
            /\ \A m \in about : m <= n
            /\ Says(lines[n], k, v) \/ (v = Empty /\ lk_chomp(lines[n]) = k)
    BY <1>8
  <2> DEFINE c == CHOOSE i \in about : \A m \in about : m <= i
  <2>2. c \in about /\ \A m \in about : m <= c
    BY <2>1
  <2> HIDE DEF c
  <2>3. c = n
    BY <1>6, <2>1, <2>2
  <2>4. Says(lines[c], k, v) \/ (v = Empty /\ lk_chomp(lines[c]) = k)
    BY <2>1, <2>3
  <2>5. QED
    BY <1>4, <1>5, <2>1, <2>4 DEF Carries, c, v
<1>9. QED
  BY <1>4, <1>7, <1>8 DEF LastOf, about, v

LEMMA EnvRight ==
    ASSUME TypeOK, RouteInv, EnvInv
    PROVE  EnvironmentOfRequest
<1>1. SUFFICES ASSUME pc = "cgi" PROVE EnvironmentOfRequest
  BY DEF EnvironmentOfRequest
<1> DEFINE parsed == Parsed(raw.head)
           body == raw.body
           asked == Asked
           homedir == HC.homedir_abspath
<1>2. raw \in Requests /\ raw.head \in Seq(Text)
  BY <1>1, RequestsAssumption DEF EnvInv
<1>3. parsed \in RequestType
  BY <1>2, ParsedIs
<1>4. req = [parsed EXCEPT !.body = body, !.path = asked]
      /\ Tells(env, req, homedir, raw.from)
  BY <1>1 DEF EnvInv
<1>5. homedir \o req.path \in Programs
  BY <1>1 DEF RouteInv
<1> HIDE DEF parsed, body, asked, homedir
<1>6. /\ req.method = parsed.method /\ req.uri = parsed.uri
      /\ req.headers = parsed.headers /\ req.body = body /\ req.path = asked
  BY <1>3, <1>4 DEF RequestType
<1>7. WellFormed(raw.head) => parsed.headers = Headers(raw.head)
  BY ParsedHeaders DEF parsed, WellFormed
<1>8. WellFormed(raw.head) =>
         /\ starts_with(raw.head[1], env.REQUEST_METHOD \o Sp \o env.REQUEST_URI)
         /\ Carries(<<"Content-Type">>, env.CONTENT_TYPE)
         /\ Carries(<<"Host">>, env.HTTP_HOST)
         /\ Carries(<<"User-Agent">>, env.HTTP_USER_AGENT)
  <2>1. SUFFICES ASSUME WellFormed(raw.head)
                 PROVE  /\ starts_with(raw.head[1],
                                       env.REQUEST_METHOD \o Sp \o env.REQUEST_URI)
                        /\ Carries(<<"Content-Type">>, env.CONTENT_TYPE)
                        /\ Carries(<<"Host">>, env.HTTP_HOST)
                        /\ Carries(<<"User-Agent">>, env.HTTP_USER_AGENT)
    OBVIOUS
  <2>2. starts_with(raw.head[1], parsed.method \o Sp \o parsed.uri)
    BY <1>2, <2>1, FirstLine DEF parsed
  <2>3. env.REQUEST_METHOD = parsed.method /\ env.REQUEST_URI = parsed.uri
    BY <1>4, <1>6 DEF Tells
  <2>4. \A k : lk_stringtable_get(req.headers, k) = lk_stringtable_get(Headers(raw.head), k)
    BY <1>6, <1>7, <2>1
  <2>5. \A b : <<b>> # Empty
    BY DEF Empty
  <2>6. Carries(<<"Content-Type">>, env.CONTENT_TYPE)
    <3>1. env.CONTENT_TYPE = OrEmpty(lk_stringtable_get(Headers(raw.head), <<"Content-Type">>))
      BY <1>4, <2>4 DEF Tells
    <3>2. QED
      BY <1>2, <2>1, <2>5, <3>1, HeaderCarried
  <2>7. Carries(<<"Host">>, env.HTTP_HOST)
    <3>1. env.HTTP_HOST = OrEmpty(lk_stringtable_get(Headers(raw.head), <<"Host">>))
      BY <1>4, <2>4 DEF Tells
    <3>2. QED
      BY <1>2, <2>1, <2>5, <3>1, HeaderCarried
  <2>8. Carries(<<"User-Agent">>, env.HTTP_USER_AGENT)
    <3>1. env.HTTP_USER_AGENT = OrEmpty(lk_stringtable_get(Headers(raw.head), <<"User-Agent">>))
      BY <1>4, <2>4 DEF Tells
    <3>2. QED
      BY <1>2, <2>1, <2>5, <3>1, HeaderCarried
  <2>9. QED
    BY <2>2, <2>3, <2>6, <2>7, <2>8
<1>9. QED
  BY <1>4, <1>5, <1>6, <1>8 DEF EnvironmentOfRequest, Tells, asked, body

\* A program is told of the request it runs for, as it was sent.
THEOREM EnvironmentCorrect == Spec => []EnvironmentOfRequest
<1>1. Init => TypeOK /\ RouteInv /\ EnvInv
  <2>1. Init => EnvInv
    BY DEF Init, EnvInv
  <2>2. QED
    BY <2>1, InitTyped
<1>2. TypeOK /\ RouteInv /\ EnvInv /\ [Next]_vars => (TypeOK /\ RouteInv /\ EnvInv)'
  <2>1. TypeOK /\ RouteInv /\ EnvInv /\ UNCHANGED vars => EnvInv'
    BY SameState DEF EnvInv, Tells
  <2>2. QED
    BY <2>1, NextEnv, NextTyped
<1>3. TypeOK /\ RouteInv /\ EnvInv => EnvironmentOfRequest
  BY EnvRight
<1>4. QED
  BY <1>1, <1>2, <1>3, PTL DEF Spec

-----------------------------------------------------------------------------
(***************************************************************************)
(* A text that is made of whole lines has those lines, in their order.      *)
(***************************************************************************)
\* A line with its newline.
Whole(s) ==
    Len(s) > 0 /\ s[Len(s)] = LF /\ \A i \in 1 .. Len(s) - 1 : s[i] # LF

\* A whole line at the start or after a newline is a line of the text.
LEMMA LineHere ==
    ASSUME NEW o \in Text, NEW a \in Nat, NEW x \in Text, Whole(x), At(o, a, x),
           a = 0 \/ o[a] = LF
    PROVE  /\ a + Len(x) \in LineEnds(o) /\ a < a + Len(x) /\ o[a + Len(x)] = LF
           /\ LineOf(o, a + Len(x)) = x
           /\ \A e \in LineEnds(o) : a < e /\ e <= a + Len(x) => e = a + Len(x)
<1> DEFINE l == Len(o)
           n == Len(x)
           b == {i \in LineEnds(o) : i < a + n} \cup {0}
           m == CHOOSE i \in b : \A j \in b : j <= i
<1>1. /\ o \in Seq(Pieces) /\ x \in Seq(Pieces) /\ l \in Nat /\ n \in Nat
      /\ DOMAIN o = 1 .. l
  BY DEF Text
<1>2. n > 0 /\ x[n] = LF /\ \A i \in 1 .. n - 1 : x[i] # LF
  BY DEF Whole
<1>3. a + n <= l /\ \A j \in 1 .. n : o[a + j] = x[j]
  BY DEF At
<1>4. /\ \A i \in LineEnds(o) : i = l \/ (i \in 1 .. l /\ o[i] = LF)
      /\ \A i \in 1 .. l : o[i] = LF => i \in LineEnds(o)
      /\ LineEnds(o) \subseteq Nat
  <2>1. \A i : i \in LineEnds(o) <=> i = l \/ (i \in 1 .. l /\ o[i] = LF)
    BY <1>1 DEF LineEnds
  <2> HIDE DEF l
  <2>2. QED
    BY <1>1, <2>1
<1>5. LineOf(o, a + n) = SubSeq(o, m + 1, a + n)
  BY DEF LineOf
<1>6. \A i \in b : i = 0 \/ (i \in LineEnds(o) /\ i < a + n)
  OBVIOUS
<1>7. \A i \in LineEnds(o) : i < a + n => i \in b
  OBVIOUS
<1>8. 0 \in b /\ b \subseteq Nat
  BY <1>4
<1> HIDE DEF l, n, b
<1>9. o[a + n] = LF /\ a + n \in 1 .. l /\ a < a + n
  BY <1>1, <1>2, <1>3
<1>10. ASSUME NEW i \in Nat, a < i, i < a + n
       PROVE  i \notin LineEnds(o)
  <2>1. i - a \in 1 .. n - 1 /\ i - a \in 1 .. n /\ a + (i - a) = i /\ i # l
    BY <1>1, <1>3, <1>10
  <2>2. o[i] # LF
    BY <1>2, <1>3, <2>1
  <2>3. QED
    BY <1>4, <2>1, <2>2
<1>11. a \in b /\ \A j \in b : j <= a
  <2>1. a \in b
    <3>1. CASE a = 0
      BY <1>8, <3>1
    <3>2. CASE o[a] = LF /\ a # 0
      <4>1. a \in 1 .. l
        BY <1>1, <1>9, <3>2
      <4>2. QED
        BY <1>4, <1>7, <1>9, <3>2, <4>1
    <3>3. QED
      BY <3>1, <3>2
  <2>2. ASSUME NEW j \in b
        PROVE  j <= a
    <3>1. j \in Nat
      BY <1>8
    <3>2. CASE j = 0
      BY <3>2
    <3>3. CASE j \in LineEnds(o) /\ j < a + n
      BY <1>10, <3>1, <3>3
    <3>4. QED
      BY <1>6, <3>2, <3>3
  <2>3. QED
    BY <2>1, <2>2
<1>12. m = a
  <2>1. m \in b /\ \A j \in b : j <= m
    BY <1>11
  <2> HIDE DEF m
  <2>2. m \in Nat /\ m <= a /\ a <= m
    BY <1>8, <1>11, <2>1
  <2>3. QED
    BY <2>2
<1> HIDE DEF m
<1>13. SubSeq(o, a + 1, a + n) = x
  <2> DEFINE y == SubSeq(o, a + 1, a + n)
  <2>1. a + 1 \in Nat \ {0} /\ a + n \in 0 .. Len(o)
    BY <1>1, <1>9 DEF l
  <2>2. /\ y \in Seq(Pieces)
        /\ Len(y) = IF a + 1 <= a + n THEN a + n - (a + 1) + 1 ELSE 0
        /\ \A i \in 1 .. a + n - (a + 1) + 1 : y[i] = o[a + 1 + i - 1]
    BY <1>1, <2>1, PartIs
  <2> HIDE DEF y
  <2>3. Len(y) = n /\ \A i \in 1 .. n : y[i] = o[a + i]
    BY <1>1, <1>2, <2>2
  <2>4. \A i \in 1 .. n : y[i] = x[i]
    BY <1>3, <2>3
  <2>5. y = x
    BY <1>1, <2>2, <2>3, <2>4, SeqEqual DEF n
  <2>6. QED
    BY <2>5 DEF y
<1>14. \A e \in LineEnds(o) : a < e /\ e <= a + n => e = a + n
  <2>1. ASSUME NEW e \in LineEnds(o), a < e, e <= a + n
        PROVE  e = a + n
    <3>1. e \in Nat /\ ~(e < a + n)
      BY <1>4, <1>10, <2>1
    <3>2. QED
      BY <1>1, <2>1, <3>1
  <2>2. QED
    BY <2>1
<1>15. QED
  BY <1>4, <1>5, <1>9, <1>12, <1>13, <1>14 DEF n

\* Both parts are in what they make up.
LEMMA AtConcat ==
    ASSUME NEW S, NEW s \in Seq(S), NEW t \in Seq(S)
    PROVE  /\ s \o t \in Seq(S) /\ Len(s \o t) = Len(s) + Len(t)
           /\ At(s \o t, 0, s) /\ At(s \o t, Len(s), t)
<1> DEFINE x == s \o t
           m == Len(s)
           n == Len(t)
<1>1. m \in Nat /\ n \in Nat
  OBVIOUS
<1>2. /\ x \in Seq(S) /\ Len(x) = m + n
      /\ \A i \in 1 .. m + n : x[i] = IF i <= m THEN s[i] ELSE t[i - m]
  BY ConcatProperties
<1> HIDE DEF x, m, n
<1>3. \A i \in 1 .. m : i \in 1 .. m + n /\ i <= m /\ 0 + i = i
  BY <1>1
<1>4. \A i \in 1 .. n : m + i \in 1 .. m + n /\ ~(m + i <= m) /\ m + i - m = i
  BY <1>1
<1>5. (\A i \in 1 .. m : x[0 + i] = s[i]) /\ 0 + m <= m + n
  BY <1>1, <1>2, <1>3
<1>6. ASSUME NEW i \in 1 .. n
      PROVE  x[m + i] = t[i]
  <2>1. PICK j \in 1 .. m + n : j = m + i /\ ~(j <= m) /\ j - m = i
    BY <1>1, <1>4
  <2>2. x[j] = t[j - m]
    BY <1>2, <2>1
  <2>3. QED
    BY <2>1, <2>2
<1>7. At(x, 0, s) /\ At(x, m, t)
  BY <1>1, <1>2, <1>5, <1>6 DEF At, m, n
<1>8. QED
  BY <1>2, <1>7 DEF x, m, n

\* The texts of a sequence end to end, from none.
LEMMA FlattenFrom ==
    ASSUME NEW S, NEW ss \in Seq(Seq(S))
    PROVE  \E g :
              /\ g[0] = Empty /\ FlattenSeq(ss) = g[Len(ss)]
              /\ \A n \in 1 .. Len(ss) : g[n] = g[n - 1] \o ss[n]
              /\ \A n \in 0 .. Len(ss) : g[n] \in Seq(S)
<1> DEFINE N == Len(ss)
<1>1. N \in Nat
  OBVIOUS
<1>2. Empty \in Seq(S) /\ Empty = << >>
  BY EmptySeq DEF Empty
<1>3. CASE N = 0
  <2> DEFINE g == [n \in 0 .. 0 |-> Empty]
  <2>1. ss = << >> /\ FlattenSeq(ss) = ss
    BY <1>3 DEF FlattenSeq
  <2>2. g[0] = Empty
    OBVIOUS
  <2> HIDE DEF g
  <2>3. FlattenSeq(ss) = g[N]
    BY <1>2, <1>3, <2>1, <2>2
  <2>4. \A n \in 1 .. N : g[n] = g[n - 1] \o ss[n]
    BY <1>3
  <2>5. \A n \in 0 .. N : g[n] \in Seq(S)
    <3>1. \A n \in 0 .. N : n = 0
      BY <1>3
    <3>2. QED
      BY <1>2, <2>2, <3>1
  <2>6. QED
    BY <2>2, <2>3, <2>4, <2>5
<1>4. CASE N # 0
  <2>1. PICK f :
           /\ FlattenSeq(ss) = f[N] /\ f[1] = ss[1]
           /\ \A n \in 2 .. N : f[n] = f[n - 1] \o ss[n]
           /\ \A n \in 1 .. N : f[n] \in Seq(S)
    BY <1>4, FlattenBy
  <2> DEFINE g == [n \in 0 .. N |-> IF n = 0 THEN Empty ELSE f[n]]
  <2>2. ss[1] \in Seq(S) /\ N \in 1 .. N /\ 1 \in 1 .. N
    <3>1. 1 \in 1 .. N /\ N \in 1 .. N
      BY <1>1, <1>4
    <3>2. QED
      BY <3>1, ElementOfSeq
  <2>3. g[0] = Empty /\ \A n \in 1 .. N : g[n] = f[n]
    BY <1>1
  <2> HIDE DEF g, N
  <2>4. ASSUME NEW n \in 1 .. N
        PROVE  g[n] = g[n - 1] \o ss[n]
    <3>1. CASE n = 1
      <4>1. g[1] = ss[1] /\ g[0] = << >>
        BY <1>2, <2>1, <2>2, <2>3
      <4>2. << >> \o ss[1] = ss[1]
        BY <2>2, ConcatEmptySeq
      <4>3. 1 - 1 = 0
        OBVIOUS
      <4>4. QED
        BY <3>1, <4>1, <4>2, <4>3
    <3>2. CASE n # 1
      <4>1. n \in 2 .. N /\ n - 1 \in 1 .. N
        BY <1>1, <3>2
      <4>2. QED
        BY <2>1, <2>3, <4>1
    <3>3. QED
      BY <3>1, <3>2
  <2>5. ASSUME NEW n \in 0 .. N
        PROVE  g[n] \in Seq(S)
    <3>1. n = 0 \/ n \in 1 .. N
      BY <1>1
    <3>2. QED
      BY <1>2, <2>1, <2>3, <3>1
  <2>6. FlattenSeq(ss) = g[N]
    BY <2>1, <2>2, <2>3
  <2>7. QED
    BY <2>3, <2>4, <2>5, <2>6 DEF N
<1>5. QED
  BY <1>3, <1>4

\* Where the lines of a text end that is made of whole lines, after P and before T.
LinesEnd(o, ss, a, c) ==
    /\ a < Len(o) /\ c[0] = a /\ o[a] = LF
    /\ \A n \in 0 .. Len(ss) : c[n] \in Nat /\ a <= c[n] /\ c[n] <= c[Len(ss)] /\ o[c[n]] = LF
    /\ \A n \in 1 .. Len(ss) :
          a < c[n] /\ c[n] \in LineEnds(o) /\ LineOf(o, c[n]) = ss[n]
    /\ \A e \in LineEnds(o) : a < e /\ e <= c[Len(ss)] => \E n \in 1 .. Len(ss) : e = c[n]

\* o is P, the lines ss and T, one after the other; line n of ss ends at c[n].
Laid(o, P, ss, T, c) ==
    /\ o \in Text /\ At(o, 0, P) /\ LinesEnd(o, ss, Len(P), c)
    /\ At(o, c[Len(ss)], T) /\ Len(o) = c[Len(ss)] + Len(T)

\* Whole lines between a text that ends with a newline and some more text are
\* where one expects them.
LEMMA LinesFollow ==
    ASSUME NEW P \in Text, NEW ss \in Seq(Text), NEW T \in Text,
           Len(P) > 0, P[Len(P)] = LF, Len(T) > 0,
           \A n \in 1 .. Len(ss) : Whole(ss[n])
    PROVE  \E c : Laid(P \o FlattenSeq(ss) \o T, P, ss, T, c)
<1> DEFINE o == P \o FlattenSeq(ss) \o T
           N == Len(ss)
           p == Len(P)
           F == FlattenSeq(ss)
           a == P \o F
<1>1. /\ P \in Seq(Pieces) /\ T \in Seq(Pieces) /\ ss \in Seq(Seq(Pieces))
      /\ N \in Nat /\ p \in Nat /\ Len(T) \in Nat /\ 0 \in Nat
  BY DEF Text
<1>2. F \in Seq(Pieces)
  BY <1>1, FlattenOf
<1>3. PICK g :
         /\ g[0] = Empty /\ F = g[N]
         /\ \A n \in 1 .. N : g[n] = g[n - 1] \o ss[n]
         /\ \A n \in 0 .. N : g[n] \in Seq(Pieces)
  BY <1>1, FlattenFrom
<1>4. \A n \in 1 .. N : ss[n] \in Seq(Pieces) /\ ss[n] \in Text
  BY <1>1, ElementOfSeq
<1> HIDE DEF F, N
<1>5. /\ a \in Seq(Pieces) /\ Len(a) = p + Len(F) /\ At(a, 0, P) /\ At(a, p, F)
  BY <1>1, <1>2, AtConcat
<1>6. o = a \o T
  BY DEF F
<1> HIDE DEF a, o
<1>7. /\ o \in Seq(Pieces) /\ Len(o) = Len(a) + Len(T) /\ At(o, 0, a) /\ At(o, Len(a), T)
  <2>1. a \in Seq(Pieces) /\ T \in Seq(Pieces)
    BY <1>1, <1>5
  <2>2. /\ a \o T \in Seq(Pieces) /\ Len(a \o T) = Len(a) + Len(T)
        /\ At(a \o T, 0, a) /\ At(a \o T, Len(a), T)
    BY <2>1, AtConcat
  <2>3. QED
    BY <1>6, <2>2
<1>8. At(o, 0, P) /\ At(o, p, F)
  <2>1. At(o, 0 + 0, P)
    BY <1>1, <1>5, <1>7, AtAt
  <2>2. At(o, 0 + p, F)
    BY <1>1, <1>2, <1>5, <1>7, AtAt
  <2>3. 0 + 0 = 0 /\ 0 + p = p
    BY <1>1
  <2>4. QED
    BY <2>1, <2>2, <2>3
<1>9. ASSUME NEW n \in 1 .. N
      PROVE  /\ g[n - 1] \in Seq(Pieces) /\ Len(g[n]) = Len(g[n - 1]) + Len(ss[n])
             /\ At(g[n], 0, g[n - 1]) /\ At(g[n], Len(g[n - 1]), ss[n])
  <2>1. n - 1 \in 0 .. N /\ n \in 0 .. N
    BY <1>1
  <2>2. g[n - 1] \in Seq(Pieces) /\ ss[n] \in Seq(Pieces) /\ g[n] = g[n - 1] \o ss[n]
    BY <1>3, <1>4, <2>1
  <2>3. QED
    BY <2>2, AtConcat
<1>10. \A n \in 0 .. N : At(F, 0, g[n])
  <2> DEFINE G == {i \in 1 .. N + 1 : At(F, 0, g[N + 1 - i])}
  <2>1. 1 \in G
    <3>1. 1 \in 1 .. N + 1 /\ N + 1 - 1 = N
      BY <1>1
    <3>2. At(F, 0, F)
      BY <1>2 DEF At
    <3>3. At(F, 0, g[N + 1 - 1])
      BY <1>3, <3>1, <3>2
    <3>4. QED
      BY <3>1, <3>3
  <2>2. ASSUME NEW i \in 2 .. N + 1, i - 1 \in G
        PROVE  i \in G
    <3>1. PICK n \in 1 .. N : n = N + 1 - (i - 1) /\ n - 1 = N + 1 - i
      BY <1>1
    <3>2. At(F, 0, g[n])
      BY <2>2, <3>1
    <3>3. /\ g[n] \in Seq(Pieces) /\ g[n - 1] \in Seq(Pieces) /\ At(g[n], 0, g[n - 1])
      <4>1. n \in 0 .. N
        BY <1>1
      <4>2. QED
        BY <1>3, <1>9, <4>1
    <3>4. At(F, 0 + 0, g[n - 1])
      BY <1>1, <1>2, <3>2, <3>3, AtAt
    <3>5. i \in 1 .. N + 1 /\ 0 + 0 = 0
      BY <1>1
    <3>6. QED
      BY <3>1, <3>4, <3>5
  <2>3. N + 1 \in Nat
    BY <1>1
  <2> HIDE DEF G
  <2>4. \A i \in 1 .. N + 1 : i \in G
    BY <2>1, <2>2, <2>3, Along
  <2>5. ASSUME NEW n \in 0 .. N
        PROVE  At(F, 0, g[n])
    <3>1. PICK i \in 1 .. N + 1 : N + 1 - i = n
      <4>1. N + 1 - n \in 1 .. N + 1 /\ N + 1 - (N + 1 - n) = n
        BY <1>1
      <4>2. QED
        BY <4>1
    <3>2. QED
      BY <2>4, <3>1 DEF G
  <2>6. QED
    BY <2>5
<1> DEFINE c == [n \in 0 .. N |-> p + Len(g[n])]
<1>11. \A n \in 0 .. N : c[n] = p + Len(g[n])
  OBVIOUS
<1>12. \A n \in 0 .. N : Len(g[n]) \in Nat /\ Len(g[n]) <= Len(F)
  <2>1. \A n \in 0 .. N : Len(g[n]) \in Nat
    BY <1>3
  <2>2. QED
    BY <1>10, <2>1 DEF At
<1> HIDE DEF c
<1>13. c[0] = p /\ c[N] = p + Len(F) /\ Len(o) = c[N] + Len(T) /\ At(o, c[N], T)
  <2>1. 0 \in 0 .. N /\ N \in 0 .. N /\ Len(g[0]) = 0
    BY <1>1, <1>3 DEF Empty
  <2>2. c[0] = p + 0 /\ c[N] = p + Len(F)
    BY <1>3, <1>11, <2>1
  <2>3. c[0] = p
    BY <1>1, <2>2
  <2>4. QED
    BY <1>5, <1>7, <2>2, <2>3
<1>14. ASSUME NEW n \in 0 .. N
       PROVE  c[n] \in Nat /\ p <= c[n] /\ c[n] <= c[N]
  <2>1. c[n] = p + Len(g[n]) /\ Len(g[n]) \in Nat /\ Len(g[n]) <= Len(F) /\ Len(F) \in Nat
    BY <1>2, <1>11, <1>12
  <2>2. QED
    BY <1>1, <1>13, <2>1
<1>15. ASSUME NEW n \in 1 .. N
       PROVE  /\ c[n - 1] \in Nat /\ c[n] = c[n - 1] + Len(ss[n]) /\ p < c[n]
              /\ At(o, c[n - 1], ss[n]) /\ Whole(ss[n]) /\ o[c[n]] = LF
  <2>1. n - 1 \in 0 .. N /\ n \in 0 .. N
    BY <1>1
  <2>2. /\ c[n - 1] = p + Len(g[n - 1]) /\ c[n] = p + Len(g[n])
        /\ Len(g[n - 1]) \in Nat /\ Len(g[n]) \in Nat
    BY <1>11, <1>12, <2>1
  <2>3. /\ g[n - 1] \in Seq(Pieces) /\ g[n] \in Seq(Pieces) /\ ss[n] \in Seq(Pieces)
        /\ Len(g[n]) = Len(g[n - 1]) + Len(ss[n]) /\ At(g[n], Len(g[n - 1]), ss[n])
        /\ At(F, 0, g[n])
    BY <1>3, <1>4, <1>9, <1>10, <2>1
  <2>4. At(F, 0 + Len(g[n - 1]), ss[n])
    BY <1>1, <1>2, <2>2, <2>3, AtAt
  <2>5. 0 + Len(g[n - 1]) = Len(g[n - 1])
    BY <2>2
  <2>6. At(F, Len(g[n - 1]), ss[n])
    BY <2>4, <2>5
  <2>7. At(o, p + Len(g[n - 1]), ss[n])
    BY <1>1, <1>2, <1>7, <1>8, <2>2, <2>3, <2>6, AtAt
  <2>8. Whole(ss[n])
    BY DEF N
  <2>9. Len(ss[n]) \in Nat /\ Len(ss[n]) > 0 /\ ss[n][Len(ss[n])] = LF
    BY <2>3, <2>8 DEF Whole
  <2>10. c[n] = c[n - 1] + Len(ss[n]) /\ p < c[n] /\ c[n - 1] \in Nat
    <3> DEFINE i == Len(g[n - 1])
               j == Len(ss[n])
    <3>1. /\ c[n - 1] = p + i /\ c[n] = p + (i + j) /\ i \in Nat /\ j \in Nat /\ j > 0
      BY <2>2, <2>3, <2>9
    <3> HIDE DEF i, j
    <3>2. c[n] = c[n - 1] + j /\ p < c[n] /\ c[n - 1] \in Nat
      BY <1>1, <3>1
    <3>3. QED
      BY <3>2 DEF j
  <2>11. Len(ss[n]) \in 1 .. Len(ss[n])
    BY <2>9
  <2>12. o[c[n - 1] + Len(ss[n])] = ss[n][Len(ss[n])]
    BY <2>2, <2>7, <2>11 DEF At
  <2>13. QED
    BY <2>2, <2>7, <2>8, <2>9, <2>10, <2>12
<1>16. ASSUME NEW n \in 0 .. N
       PROVE  o[c[n]] = LF
  <2>1. CASE n = 0
    <3>1. p \in 1 .. p /\ 0 + p = p
      BY <1>1
    <3>2. o[0 + p] = P[p]
      BY <1>8, <3>1 DEF At
    <3>3. QED
      BY <1>13, <2>1, <3>1, <3>2
  <2>2. CASE n # 0
    <3>1. n \in 1 .. N
      BY <1>1, <2>2
    <3>2. QED
      BY <1>15, <3>1
  <2>3. QED
    BY <2>1, <2>2
<1>17. ASSUME NEW n \in 1 .. N
       PROVE  /\ c[n] \in LineEnds(o) /\ LineOf(o, c[n]) = ss[n]
              /\ \A e \in LineEnds(o) : c[n - 1] < e /\ e <= c[n] => e = c[n]
  <2>1. o \in Text /\ ss[n] \in Text
    BY <1>4, <1>7 DEF Text
  <2>2. n - 1 \in 0 .. N
    BY <1>1
  <2>3. o[c[n - 1]] = LF
    BY <1>16, <2>2
  <2>4. /\ c[n - 1] \in Nat /\ c[n] = c[n - 1] + Len(ss[n])
        /\ At(o, c[n - 1], ss[n]) /\ Whole(ss[n])
    BY <1>15
  <2> DEFINE b == c[n - 1]
             x == ss[n]
  <2>5. o \in Text /\ b \in Nat /\ x \in Text /\ Whole(x) /\ At(o, b, x) /\ o[b] = LF
    BY <2>1, <2>3, <2>4
  <2> HIDE DEF b, x
  <2>6. /\ b + Len(x) \in LineEnds(o) /\ LineOf(o, b + Len(x)) = x
        /\ \A e \in LineEnds(o) : b < e /\ e <= b + Len(x) => e = b + Len(x)
    BY <2>5, LineHere
  <2>7. QED
    BY <2>4, <2>6 DEF b, x
<1>18. ASSUME NEW e \in LineEnds(o), p < e, e <= c[N]
       PROVE  \E n \in 1 .. N : e = c[n]
  <2> DEFINE D == {n \in 0 .. N : e <= c[n]}
             m == Min(D)
  <2>1. D \subseteq Nat /\ D # {} /\ \A n \in D : n \in 0 .. N /\ e <= c[n]
    <3>1. N \in 0 .. N
      BY <1>1
    <3>2. QED
      BY <1>18, <3>1
  <2>2. \A n \in 0 .. N : e <= c[n] => n \in D
    OBVIOUS
  <2> HIDE DEF D
  <2>3. m \in D /\ \A n \in D : m <= n
    BY <2>1, LeastOf
  <2> HIDE DEF m
  <2>4. m \in 0 .. N /\ e <= c[m]
    BY <2>1, <2>3
  <2>5. e \in Nat
    <3>1. DOMAIN o \subseteq Nat /\ Len(o) \in Nat
      BY <1>7
    <3>2. QED
      BY <3>1 DEF LineEnds
  <2>6. m # 0
    BY <1>1, <1>13, <1>18, <2>4, <2>5
  <2>7. m \in 1 .. N /\ m - 1 \in 0 .. N /\ ~(m <= m - 1)
    BY <1>1, <2>4, <2>6
  <2>8. ~(e <= c[m - 1])
    BY <2>2, <2>3, <2>7
  <2>9. c[m - 1] \in Nat
    BY <1>14, <2>7
  <2>10. c[m - 1] < e
    BY <2>5, <2>8, <2>9
  <2>11. QED
    BY <1>17, <2>4, <2>7, <2>10
<1>19. p < Len(o) /\ o[p] = LF
  <2>1. 0 \in 0 .. N
    BY <1>1
  <2>2. o[p] = LF /\ c[N] \in Nat /\ p <= c[N]
    <3>1. N \in 0 .. N
      BY <1>1
    <3>2. QED
      BY <1>13, <1>14, <1>16, <2>1, <3>1
  <2>3. QED
    BY <1>1, <1>13, <2>2
<1>20. LinesEnd(o, ss, p, c)
  BY <1>13, <1>14, <1>15, <1>16, <1>17, <1>18, <1>19 DEF LinesEnd, N
<1>21. Laid(o, P, ss, T, c)
  BY <1>7, <1>8, <1>13, <1>20 DEF Laid, N, Text
<1>22. QED
  BY <1>21 DEF o

-----------------------------------------------------------------------------
(***************************************************************************)
(* The words of a line, when one delimiter is between two of them: what     *)
(* strtok_r() takes, and what is made of it again.                          *)
(***************************************************************************)
\* b never comes twice in a row.
NoPair(s, b) == \A n \in 1 .. Len(s) - 1 : s[n] = b => s[n + 1] # b

\* The next token of y is t, after n delimiters, and z is left.
Taken(y, b, n, t, z) ==
    /\ n = 0 \/ (n = 1 /\ Len(y) > 0 /\ y[1] = b)
    /\ n = 0 /\ Len(y) > 0 => y[1] # b
    /\ At(y, n, t) /\ \A i \in 1 .. Len(t) : t[i] # b
    /\ At(y, n + Len(t), z) /\ Len(z) = Len(y) - (n + Len(t))
    /\ Len(z) > 0 => z[1] = b
    /\ Len(t) = 0 => n = Len(y)

\* strtok_r() takes a token up to the next delimiter.
LEMMA NextToken ==
    ASSUME NEW S, NEW y \in Seq(S), NEW b \in S, NoPair(y, b)
    PROVE  /\ Token(y, b) \in Seq(S) /\ AfterToken(y, b) \in Seq(S)
           /\ \E n \in {0, 1} : Taken(y, b, n, Token(y, b), AfterToken(y, b))
<1> DEFINE w == Skip(y, {b})
           t == UpTo(w, b)
           z == From(w, Len(t) + 1)
           l == Len(y)
<1>1. Token(y, b) = t /\ AfterToken(y, b) = z
  BY DEF Token, AfterToken
<1>2. PICK n \in 0 .. l :
         /\ w \in Seq(S) /\ At(y, n, w) /\ Len(w) = l - n
         /\ \A i \in 1 .. n : y[i] \in {b}
         /\ n < l => y[n + 1] \notin {b}
  BY SkipAt
<1> HIDE DEF w
<1>3. /\ t \in Seq(S) /\ At(w, 0, t) /\ \A i \in 1 .. Len(t) : t[i] # b
      /\ Len(t) = Len(w) \/ At(w, Len(t), <<b>>)
  BY <1>2, UpToAt
<1> HIDE DEF t
<1>4. l \in Nat /\ Len(w) \in Nat /\ Len(t) \in Nat /\ n \in Nat
  BY <1>2, <1>3
<1>5. Len(t) \in 0 .. Len(w)
  <2>1. 0 + Len(t) <= Len(w)
    BY <1>3 DEF At
  <2>2. QED
    BY <1>4, <2>1
<1>6. z \in Seq(S) /\ At(w, Len(t), z) /\ Len(z) = Len(w) - Len(t)
  BY <1>2, <1>5, FromAt
<1> HIDE DEF z, l
<1>7. n = 0 \/ (n = 1 /\ l > 0 /\ y[1] = b)
  <2>1. CASE n > 1
    <3>1. 1 \in 1 .. n /\ 2 \in 1 .. n /\ 1 + 1 = 2 /\ 1 \in 1 .. l - 1
      BY <1>2, <1>4, <2>1
    <3>2. y[1] = b /\ y[1 + 1] = b
      BY <1>2, <3>1
    <3>3. QED
      BY <3>1, <3>2 DEF NoPair, l
  <2>2. CASE n = 1
    <3>1. 1 \in 1 .. n /\ l > 0
      BY <1>2, <1>4, <2>2
    <3>2. QED
      BY <1>2, <2>2, <3>1
  <2>3. QED
    BY <1>4, <2>1, <2>2
<1>8. n = 0 /\ l > 0 => y[1] # b
  <2>1. n = 0 /\ l > 0 => n < l /\ n + 1 = 1
    OBVIOUS
  <2>2. QED
    BY <1>2, <2>1
<1>9. At(y, n, t) /\ At(y, n + Len(t), z)
  <2>1. At(y, n + 0, t)
    <3>1. 0 \in Nat
      OBVIOUS
    <3>2. QED
      BY <1>2, <1>3, <1>4, <3>1, AtAt
  <2>2. At(y, n + Len(t), z)
    BY <1>2, <1>4, <1>6, AtAt
  <2>3. n + 0 = n
    BY <1>4
  <2>4. QED
    BY <2>1, <2>2, <2>3
<1>10. Len(z) = l - (n + Len(t))
  <2>1. Len(w) = l - n /\ Len(z) = Len(w) - Len(t)
    BY <1>2, <1>6
  <2>2. QED
    BY <1>4, <2>1
<1>11. \A i \in 1 .. Len(t) : t[i] # b
  BY <1>3
<1>12. Len(w) # Len(t) => w[Len(t) + 1] = b
  <2>1. SUFFICES ASSUME Len(w) # Len(t) PROVE w[Len(t) + 1] = b
    OBVIOUS
  <2>2. At(w, Len(t), <<b>>)
    BY <1>3, <2>1
  <2>3. Len(<<b>>) = 1 /\ <<b>>[1] = b /\ 1 \in 1 .. 1
    OBVIOUS
  <2>4. QED
    BY <2>2, <2>3 DEF At
<1>13. Len(z) > 0 => z[1] = b
  <2>1. SUFFICES ASSUME Len(z) > 0 PROVE z[1] = b
    OBVIOUS
  <2>2. Len(w) # Len(t) /\ Len(z) \in Nat
    BY <1>4, <1>6, <2>1
  <2>3. 1 \in 1 .. Len(z)
    BY <2>1, <2>2
  <2>4. w[Len(t) + 1] = z[1]
    BY <1>6, <2>3 DEF At
  <2>5. QED
    BY <1>12, <2>2, <2>4
<1>14. Len(t) = 0 => n = l
  <2>1. SUFFICES ASSUME Len(t) = 0, n # l PROVE FALSE
    OBVIOUS
  <2>2. n < l /\ Len(w) # Len(t) /\ Len(t) + 1 = 1 /\ 1 \in 1 .. Len(w)
    BY <1>2, <1>4, <2>1
  <2>3. w[1] = b
    BY <1>12, <2>2
  <2>4. y[n + 1] = w[1]
    BY <1>2, <2>2 DEF At
  <2>5. QED
    BY <1>2, <2>2, <2>3, <2>4
<1>15. Taken(y, b, n, t, z)
  BY <1>7, <1>8, <1>9, <1>10, <1>11, <1>13, <1>14 DEF Taken, l
<1>16. n \in {0, 1}
  BY <1>7
<1>17. QED
  BY <1>1, <1>3, <1>6, <1>15, <1>16

\* Neither does it in a part.
LEMMA NoPairIn ==
    ASSUME NEW S, NEW s \in Seq(S), NEW y \in Seq(S), NEW i \in Nat, At(s, i, y),
           NEW b, NoPair(s, b)
    PROVE  NoPair(y, b)
<1>1. Len(s) \in Nat /\ Len(y) \in Nat
  OBVIOUS
<1>2. i + Len(y) <= Len(s) /\ \A j \in 1 .. Len(y) : s[i + j] = y[j]
  BY DEF At
<1>3. ASSUME NEW n \in 1 .. Len(y) - 1
      PROVE  y[n] = b => y[n + 1] # b
  <2>1. /\ i + n \in 1 .. Len(s) - 1 /\ n \in 1 .. Len(y) /\ n + 1 \in 1 .. Len(y)
        /\ i + (n + 1) = i + n + 1
    BY <1>1, <1>2
  <2>2. s[i + n] = y[n] /\ s[i + n + 1] = y[n + 1]
    BY <1>2, <2>1
  <2>3. QED
    BY <2>1, <2>2 DEF NoPair
<1>4. QED
  BY <1>3 DEF NoPair

\* Two elements, and any third, are so many.
LEMMA ManyIn ==
    ASSUME NEW B, IsFiniteSet(B), NEW x \in B, NEW y \in B, x # y
    PROVE  Cardinality(B) >= 2 /\ \A z \in B \ {x, y} : Cardinality(B) >= 3
<1> DEFINE X == {x}
           Y == X \cup {y}
<1>1. IsFiniteSet(X) /\ Cardinality(X) = 1 /\ y \notin X /\ Cardinality(B) \in Nat
  BY FS_Singleton, FS_CardinalityType
<1> HIDE DEF X
<1>2. IsFiniteSet(Y) /\ Cardinality(Y) = 2
  BY <1>1, FS_AddElement
<1>3. Y \subseteq B /\ Y = {x, y}
  BY DEF X
<1> HIDE DEF Y
<1>4. Cardinality(B) >= 2
  BY <1>1, <1>2, <1>3, FS_Subset
<1>5. ASSUME NEW z \in B \ {x, y}
      PROVE  Cardinality(B) >= 3
  <2> DEFINE Z == Y \cup {z}
  <2>1. z \notin Y /\ Z \subseteq B
    BY <1>3
  <2>2. Cardinality(Z) = 3
    BY <1>2, <2>1, FS_AddElement
  <2> HIDE DEF Z
  <2>3. QED
    BY <1>1, <2>1, <2>2, FS_Subset
<1>6. QED
  BY <1>4, <1>5

\* Where b is in s.
Places(s, b) == {n \in DOMAIN s : s[n] = b}

\* s is k and u, and v if there is any, with one b between them.
IsWords(s, b, k, u, v) ==
    \/ Cardinality(Places(s, b)) = 1 /\ v = Empty /\ s = k \o <<b>> \o u
    \/ Cardinality(Places(s, b)) = 2 /\ v # Empty /\ s = k \o <<b>> \o u \o <<b>> \o v

\* A line of two or three words is its tokens with delimiters between them.
LEMMA WordsOf ==
    ASSUME NEW S, NEW s \in Seq(S), NEW b \in S, NoPair(s, b),
           ~starts_with(s, <<b>>), ~ends_with(s, <<b>>),
           Cardinality(Places(s, b)) \in {1, 2}
    PROVE  IsWords(s, b, Token(s, b), Token(AfterToken(s, b), b),
                   Token(AfterToken(AfterToken(s, b), b), b))
<1> DEFINE k == Token(s, b)
           u == Token(AfterToken(s, b), b)
           v == Token(AfterToken(AfterToken(s, b), b), b)
           C == Cardinality(Places(s, b))
           d == <<b>>
           y == AfterToken(s, b)
           z == AfterToken(y, b)
           e == AfterToken(z, b)
           B == Places(s, b)
           l == Len(s)
<1>1. /\ d \in Seq(S) /\ Len(d) = 1 /\ d[1] = b /\ l \in Nat /\ DOMAIN s = 1 .. l
      /\ 0 \in Nat /\ 1 \in Nat
  OBVIOUS
<1>2. IsFiniteSet(B)
  <2>1. IsFiniteSet(1 .. l) /\ B \in SUBSET (1 .. l)
    BY <1>1, FS_Interval DEF Places
  <2>2. QED
    BY <2>1, FS_Subset
<1>3. /\ \A n \in B : n \in 1 .. l /\ s[n] = b
      /\ \A n \in 1 .. l : s[n] = b => n \in B
  BY <1>1 DEF Places
<1>4. C = Cardinality(B) /\ C \in {1, 2}
  OBVIOUS
<1>5. (l > 0 => s[1] # b) /\ (l > 0 => s[l] # b)
  <2>1. starts_with(s, d) <=> 1 <= l /\ \A i \in 1 .. 1 : s[i] = d[i]
    BY <1>1, PrefixIs
  <2>2. ends_with(s, d) <=> 1 <= l /\ \A i \in 1 .. 1 : s[l - 1 + i] = d[i]
    BY <1>1, SuffixIs
  <2>3. l - 1 + 1 = l /\ \A i \in 1 .. 1 : i = 1
    BY <1>1
  <2>4. s[1] = b /\ 1 <= l => starts_with(s, d)
    BY <1>1, <2>1, <2>3
  <2>5. s[l] = b /\ 1 <= l => ends_with(s, d)
    BY <1>1, <2>2, <2>3
  <2>6. l > 0 => 1 <= l
    BY <1>1
  <2>7. QED
    BY <2>4, <2>5, <2>6
<1> HIDE DEF B, l, d, C
<1>6. k \in Seq(S) /\ y \in Seq(S) /\ \E n \in {0, 1} : Taken(s, b, n, k, y)
  BY NextToken
<1> HIDE DEF y, k, u, v
<1>7. Taken(s, b, 0, k, y)
  <2>1. PICK n \in {0, 1} : Taken(s, b, n, k, y)
    BY <1>6
  <2>2. n # 1
    BY <1>5, <2>1 DEF Taken, l
  <2>3. QED
    BY <2>1, <2>2
<1>8. /\ At(s, 0, k) /\ At(s, Len(k), y) /\ Len(y) = l - Len(k)
      /\ (\A i \in 1 .. Len(k) : k[i] # b) /\ (Len(y) > 0 => y[1] = b)
      /\ Len(k) \in Nat /\ Len(y) \in Nat
  <2>1. Len(k) \in Nat /\ Len(y) \in Nat /\ 0 + Len(k) = Len(k)
    BY <1>6
  <2>2. QED
    BY <1>7, <2>1 DEF Taken, l
<1>9. NoPair(y, b)
  BY <1>6, <1>8, NoPairIn
<1>10. u \in Seq(S) /\ z \in Seq(S) /\ \E n \in {0, 1} : Taken(y, b, n, u, z)
  BY <1>6, <1>9, NextToken DEF y, u
<1>11. NoPair(z, b)
  <2>1. PICK n \in {0, 1} : Taken(y, b, n, u, z)
    BY <1>10
  <2>2. n + Len(u) \in Nat /\ At(y, n + Len(u), z)
    BY <1>10, <2>1 DEF Taken
  <2>3. QED
    BY <1>6, <1>9, <1>10, <2>2, NoPairIn
<1> HIDE DEF z
<1>12. v \in Seq(S) /\ e \in Seq(S) /\ \E n \in {0, 1} : Taken(z, b, n, v, e)
  BY <1>10, <1>11, NextToken DEF z, y, v
<1> HIDE DEF e
<1>13. Len(y) > 0
  <2>1. SUFFICES ASSUME ~(Len(y) > 0) PROVE FALSE
    OBVIOUS
  <2>2. Len(k) = l
    BY <1>1, <1>8, <2>1
  <2>3. \A n \in 1 .. l : s[n] # b
    <3>1. \A n \in 1 .. l : s[0 + n] = k[n] /\ 0 + n = n
      BY <1>8, <2>2 DEF At
    <3>2. QED
      BY <1>8, <2>2, <3>1
  <2>4. B = {}
    BY <1>3, <2>3
  <2>5. QED
    BY <1>4, <2>4, FS_EmptySet
<1>14. Taken(y, b, 1, u, z)
  <2>1. PICK n \in {0, 1} : Taken(y, b, n, u, z)
    BY <1>10
  <2>2. n # 0
    BY <1>8, <1>13, <2>1 DEF Taken
  <2>3. QED
    BY <2>1, <2>2
<1>15. /\ At(y, 1, u) /\ At(y, 1 + Len(u), z) /\ Len(z) = Len(y) - (1 + Len(u))
       /\ (\A i \in 1 .. Len(u) : u[i] # b) /\ (Len(z) > 0 => z[1] = b)
       /\ Len(u) \in Nat /\ Len(z) \in Nat
  <2>1. Len(u) \in Nat /\ Len(z) \in Nat
    BY <1>10
  <2>2. QED
    BY <1>14, <2>1 DEF Taken
<1> DEFINE m == Len(k)
           n == Len(u)
<1>16. m \in Nat /\ n \in Nat /\ m + 1 \in Nat /\ 1 + n \in Nat
  BY <1>8, <1>15
<1>17. At(s, m + 1, u) /\ At(s, m + (1 + n), z) /\ At(s, m, d)
  <2>1. At(s, m + 1, u)
    BY <1>1, <1>6, <1>8, <1>10, <1>15, <1>16, AtAt
  <2>2. At(s, m + (1 + n), z)
    BY <1>6, <1>8, <1>10, <1>15, <1>16, AtAt
  <2>3. At(y, 0, d)
    <3>1. 0 + 1 <= Len(y) /\ y[0 + 1] = d[1] /\ \A i \in 1 .. 1 : i = 1
      BY <1>1, <1>8, <1>13
    <3>2. QED
      BY <1>1, <3>1 DEF At
  <2>4. At(s, m + 0, d)
    BY <1>1, <1>6, <1>8, <1>16, <2>3, AtAt
  <2>5. m + 0 = m
    BY <1>16
  <2>6. QED
    BY <2>1, <2>2, <2>4, <2>5
<1> HIDE DEF m, n
<1>18. m + 1 \in B
  <2>1. m + 1 <= l /\ s[m + 1] = d[1]
    <3>1. 1 \in 1 .. 1
      OBVIOUS
    <3>2. QED
      BY <1>1, <1>17, <3>1 DEF At, l
  <2>2. m + 1 \in 1 .. l
    BY <1>1, <1>16, <2>1
  <2>3. QED
    BY <1>1, <1>3, <2>1, <2>2
<1> DEFINE ku == k \o d \o u
<1>19. At(s, 0, ku) /\ ku \in Seq(S) /\ Len(ku) = m + 1 + n
  <2> DEFINE kd == k \o d
  <2>1. kd \in Seq(S) /\ Len(kd) = m + 1
    BY <1>1, <1>6, AtConcat DEF m
  <2>2. At(s, 0, kd)
    <3>1. At(s, 0 + Len(k), d)
      BY <1>16, <1>17 DEF m
    <3>2. QED
      BY <1>1, <1>6, <1>8, <3>1, AtJoin
  <2> HIDE DEF kd
  <2>3. kd \o u \in Seq(S) /\ Len(kd \o u) = m + 1 + n
    <3>1. kd \o u \in Seq(S) /\ Len(kd \o u) = Len(kd) + Len(u)
      BY <1>10, <2>1, AtConcat
    <3>2. QED
      BY <2>1, <3>1 DEF n
  <2>4. At(s, 0, kd \o u)
    <3>1. At(s, 0 + Len(kd), u)
      BY <1>16, <1>17, <2>1
    <3>2. QED
      BY <1>1, <1>10, <2>1, <2>2, <3>1, AtJoin
  <2>5. QED
    BY <2>3, <2>4 DEF kd
<1> HIDE DEF ku
<1>20. ASSUME NEW i \in 1 .. m + 1 + n, s[i] = b
       PROVE  i = m + 1
  <2>1. CASE i <= m
    <3>1. i \in 1 .. m /\ 0 + i = i
      BY <1>16, <2>1
    <3>2. s[0 + i] = k[i] /\ k[i] # b
      BY <1>8, <3>1 DEF At, m
    <3>3. QED
      BY <1>20, <3>1, <3>2
  <2>2. CASE i > m + 1
    <3>1. PICK j \in 1 .. n : m + 1 + j = i
      <4>1. i - (m + 1) \in 1 .. n /\ m + 1 + (i - (m + 1)) = i
        BY <1>16, <2>2
      <4>2. QED
        BY <4>1
    <3>2. s[m + 1 + j] = u[j] /\ u[j] # b
      BY <1>15, <1>17 DEF At, n
    <3>3. QED
      BY <1>20, <3>1, <3>2
  <2>3. QED
    BY <1>16, <2>1, <2>2
<1>21. CASE Len(z) = 0
  <2>1. l = m + 1 + n
    <3>1. Len(y) = l - m /\ Len(z) = Len(y) - (1 + n) /\ Len(y) \in Nat
      BY <1>8, <1>15 DEF m, n
    <3>2. QED
      BY <1>1, <1>16, <1>21, <3>1
  <2>2. s = ku
    BY <1>19, <2>1, AtStart DEF l
  <2>3. B = {m + 1}
    BY <1>3, <1>18, <1>20, <2>1
  <2>4. C = 1
    BY <1>4, <2>3, FS_Singleton
  <2>5. v = Empty
    <3>1. PICK i \in {0, 1} : Taken(z, b, i, v, e)
      BY <1>12
    <3>2. i = 0 /\ At(z, i, v)
      BY <1>21, <3>1 DEF Taken
    <3>3. Len(v) = 0
      BY <1>12, <1>21, <3>2 DEF At
    <3>4. QED
      BY <1>12, <3>3, EmptySeq DEF Empty
  <2>6. QED
    BY <1>6, <1>10, <1>12, <2>2, <2>4, <2>5 DEF ku, d, C, k, u, v, IsWords
<1>22. CASE Len(z) > 0
  <2>1. Taken(z, b, 1, v, e)
    <3>1. PICK i \in {0, 1} : Taken(z, b, i, v, e)
      BY <1>12
    <3>2. i # 0
      BY <1>15, <1>22, <3>1 DEF Taken
    <3>3. QED
      BY <3>1, <3>2
  <2>2. /\ At(z, 1, v) /\ At(z, 1 + Len(v), e) /\ Len(e) = Len(z) - (1 + Len(v))
        /\ (Len(v) = 0 => 1 = Len(z)) /\ (Len(e) > 0 => e[1] = b)
        /\ Len(v) \in Nat /\ Len(e) \in Nat
    <3>1. Len(v) \in Nat /\ Len(e) \in Nat
      BY <1>12
    <3>2. QED
      BY <2>1, <3>1 DEF Taken
  <2> DEFINE q == m + (1 + n)
             j == Len(v)
  <2>3. q \in Nat /\ j \in Nat /\ q + 1 \in Nat /\ 1 + j \in Nat
    BY <1>16, <2>2
  <2>4. l = q + Len(z)
    BY <1>1, <1>8, <1>15, <1>16 DEF m, n
  <2>5. At(s, q + 1, v) /\ At(s, q + (1 + j), e) /\ At(s, q, d)
    <3>1. At(s, q + 1, v)
      BY <1>1, <1>10, <1>12, <1>17, <2>2, <2>3, AtAt
    <3>2. At(s, q + (1 + j), e)
      BY <1>10, <1>12, <1>17, <2>2, <2>3, AtAt
    <3>3. At(z, 0, d)
      <4>1. 0 + 1 <= Len(z) /\ z[0 + 1] = d[1] /\ \A i \in 1 .. 1 : i = 1
        BY <1>1, <1>15, <1>22
      <4>2. QED
        BY <1>1, <4>1 DEF At
    <3>4. At(s, q + 0, d)
      BY <1>1, <1>10, <1>17, <2>3, <3>3, AtAt
    <3>5. q + 0 = q
      BY <2>3
    <3>6. QED
      BY <3>1, <3>2, <3>4, <3>5
  <2> HIDE DEF q, j
  <2>6. q + 1 \in B /\ q + 1 <= l /\ s[q + 1] = b
    <3>1. q + 1 <= l /\ s[q + 1] = d[1]
      <4>1. 1 \in 1 .. 1
        OBVIOUS
      <4>2. QED
        BY <1>1, <2>5, <4>1 DEF At, l
    <3>2. q + 1 \in 1 .. l
      BY <1>1, <2>3, <3>1
    <3>3. QED
      BY <1>1, <1>3, <3>1, <3>2
  <2>7. j # 0
    <3>1. SUFFICES ASSUME j = 0 PROVE FALSE
      OBVIOUS
    <3>2. l = q + 1 /\ l > 0
      BY <2>2, <2>3, <2>4, <3>1 DEF j
    <3>3. QED
      BY <1>5, <2>6, <3>2
  <2>8. m + 1 # q + 1
    BY <1>16 DEF q
  <2>9. C = 2
    <3>1. Cardinality(B) >= 2
      BY <1>2, <1>18, <2>6, <2>8, ManyIn
    <3>2. QED
      BY <1>4, <3>1
  <2>10. Len(e) = 0
    <3>1. SUFFICES ASSUME Len(e) > 0 PROVE FALSE
      BY <2>2
    <3> DEFINE g == q + (1 + j)
    <3>2. 1 \in 1 .. Len(e)
      BY <2>2, <3>1
    <3>3. g + 1 <= l /\ s[g + 1] = e[1] /\ g + 1 \in Nat
      <4>1. g + Len(e) <= l /\ s[g + 1] = e[1]
        BY <2>5, <3>2 DEF At, l
      <4>2. QED
        BY <1>1, <2>2, <2>3, <3>1, <4>1
    <3>4. g + 1 \in B
      <4>1. g + 1 \in 1 .. l
        BY <1>1, <2>3, <3>3
      <4>2. QED
        BY <1>3, <2>2, <3>1, <3>3, <4>1
    <3>5. g + 1 # q + 1 /\ g + 1 # m + 1
      <4>1. g = q + (1 + j) /\ q = m + (1 + n)
        BY DEF q
      <4> HIDE DEF g, q
      <4>2. QED
        BY <1>16, <2>3, <4>1
    <3> HIDE DEF g
    <3>6. g + 1 \in B \ {m + 1, q + 1}
      BY <3>4, <3>5
    <3>7. Cardinality(B) >= 3
      BY <1>2, <1>18, <2>6, <2>8, <3>6, ManyIn
    <3>8. QED
      BY <1>4, <2>9, <3>7
  <2>11. l = q + 1 + j
    BY <2>2, <2>3, <2>4, <2>10 DEF j
  <2>12. At(s, 0, ku \o d) /\ ku \o d \in Seq(S) /\ Len(ku \o d) = q + 1
    <3>1. Len(ku) = q
      BY <1>16, <1>19 DEF q
    <3>2. At(s, 0 + Len(ku), d)
      BY <2>3, <2>5, <3>1
    <3>3. At(s, 0, ku \o d)
      BY <1>1, <1>19, <3>2, AtJoin
    <3>4. QED
      BY <1>1, <1>19, <3>1, <3>3, AtConcat
  <2> DEFINE kd == ku \o d
  <2> HIDE DEF kd
  <2>13. kd \in Seq(S) /\ At(s, 0, kd) /\ Len(kd) = q + 1
    BY <2>12 DEF kd
  <2>14. At(s, 0, kd \o v) /\ kd \o v \in Seq(S) /\ Len(kd \o v) = l
    <3>1. At(s, 0 + Len(kd), v)
      BY <2>3, <2>5, <2>13
    <3>2. At(s, 0, kd \o v)
      BY <1>1, <1>12, <2>13, <3>1, AtJoin
    <3>3. kd \o v \in Seq(S) /\ Len(kd \o v) = Len(kd) + Len(v)
      BY <1>12, <2>13, AtConcat
    <3>4. QED
      BY <2>11, <2>13, <3>2, <3>3 DEF j
  <2>15. s = kd \o v
    BY <2>14, AtStart DEF l
  <2>16. v # Empty
    BY <2>7 DEF Empty, j
  <2>17. QED
    BY <1>6, <1>10, <1>12, <2>9, <2>15, <2>16 DEF ku, kd, d, C, k, u, v, IsWords
<1>23. Len(z) = 0 \/ Len(z) > 0
  BY <1>15
<1>24. QED
  BY <1>21, <1>22, <1>23 DEF k, u, v

\* The words of the first line of a request.
LEMMA FirstWords ==
    ASSUME NEW lines, lines # << >>
    PROVE  /\ Parsed(lines).method = Token(lk_chomp(lines[1]), "sp")
           /\ Parsed(lines).uri = Token(AfterToken(lk_chomp(lines[1]), "sp"), "sp")
           /\ Parsed(lines).version =
                 Token(AfterToken(AfterToken(lk_chomp(lines[1]), "sp"), "sp"), "sp")
<1> DEFINE s == lk_chomp(lines[1])
           k == Token(s, "sp")
           u == Token(AfterToken(s, "sp"), "sp")
           version == Token(AfterToken(AfterToken(s, "sp"), "sp"), "sp")
           new == lk_httprequest_new
           first == [new EXCEPT !.method = k, !.uri = u, !.version = version]
           path == lk_string_chop_end(Split(first.uri, "?")[1], Slash)
           query == Nth(Split(first.uri, "?"), 2)
           filename == Last(Split(path, "/"))
           headers == Headers(lines)
           parsed == [first EXCEPT !.path = path, !.querystring = query,
                                   !.filename = filename]
<1>1. Parsed(lines) = [parsed EXCEPT !.headers = headers]
  BY DEF Parsed, parse_request_line, parse_uri
<1>2. /\ first.method = k /\ first.uri = u /\ first.version = version
      /\ {"method", "uri", "version"} \subseteq DOMAIN first
  <2> HIDE DEF k, u, version
  <2>1. {"method", "uri", "version"} \subseteq DOMAIN new
    BY DEF lk_httprequest_new
  <2> HIDE DEF new
  <2>2. QED
    BY <2>1
<1>3. Parsed(lines).method = k /\ Parsed(lines).uri = u /\ Parsed(lines).version = version
  <2> HIDE DEF path, query, filename, headers, first, k, u, version
  <2>1. QED
    BY <1>1, <1>2
<1>4. QED
  BY <1>3

\* What becomes of the first line of a request.
AskedLine(line) ==
    (IF Cardinality({n \in DOMAIN lk_chomp(line) : lk_chomp(line)[n] = "sp"}) = 1
     THEN lk_chomp(line) \o Sp \o <<"HTTP/1.0">> ELSE lk_chomp(line)) \o Newline

\* The version that lk_httprequest_finalize writes.
VersionOf(r) == IF r.version = Empty THEN <<"HTTP/1.0">> ELSE r.version

\* The first line that is forwarded is the first line that was read.
LEMMA AskedIs ==
    ASSUME NEW lines \in Seq(Text), WellFormed(lines), IsRequestLine(lines[1])
    PROVE  Parsed(lines).method \o Sp \o Parsed(lines).uri \o Sp
              \o VersionOf(Parsed(lines)) \o Newline = AskedLine(lines[1])
<1> DEFINE line == lines[1]
           s == lk_chomp(line)
           k == Token(s, "sp")
           u == Token(AfterToken(s, "sp"), "sp")
           v == Token(AfterToken(AfterToken(s, "sp"), "sp"), "sp")
           C == Cardinality(Places(s, "sp"))
           version == IF v = Empty THEN <<"HTTP/1.0">> ELSE v
<1>1. lines # << >> /\ Single(s, "sp")
  BY DEF WellFormed
<1>2. line \in Seq(Pieces)
  <2>1. 1 \in 1 .. Len(lines)
    BY <1>1, EmptySeq
  <2>2. line \in Text
    BY <2>1, ElementOfSeq
  <2>3. QED
    BY <2>2 DEF Text
<1>3. s \in Seq(Pieces) /\ "sp" \in Pieces
  BY <1>2, ChompAt, WordsAssumption
<1>4. C \in {1, 2} /\ ~ends_with(s, <<"sp">>)
  BY DEF IsRequestLine, Sp, Places
<1>5. /\ Parsed(lines).method = k /\ Parsed(lines).uri = u
      /\ Parsed(lines).version = v
  BY <1>1, FirstWords
<1>6. AskedLine(line) = (IF C = 1 THEN s \o Sp \o <<"HTTP/1.0">> ELSE s) \o Newline
  BY DEF AskedLine, Places
<1> HIDE DEF s
<1>7. ~starts_with(s, <<"sp">>) /\ NoPair(s, "sp")
  BY <1>1 DEF Single, NoPair
<1>8. \/ C = 1 /\ v = Empty /\ s = k \o <<"sp">> \o u
      \/ C = 2 /\ v # Empty /\ s = k \o <<"sp">> \o u \o <<"sp">> \o v
  <2>1. IsWords(s, "sp", k, u, v)
    BY <1>3, <1>4, <1>7, WordsOf
  <2> HIDE DEF k, u, v
  <2>2. QED
    BY <2>1 DEF IsWords
<1>9. k \o Sp \o u \o Sp \o version
         = IF C = 1 THEN s \o Sp \o <<"HTTP/1.0">> ELSE s
  <2> HIDE DEF k, u, v, C
  <2>1. CASE C = 1 /\ v = Empty /\ s = k \o <<"sp">> \o u
    <3>1. version = <<"HTTP/1.0">>
      BY <2>1
    <3> HIDE DEF version
    <3>2. QED
      BY <2>1, <3>1, Zenon DEF Sp
  <2>2. CASE C = 2 /\ v # Empty /\ s = k \o <<"sp">> \o u \o <<"sp">> \o v
    <3>1. version = v /\ C # 1
      BY <2>2
    <3> HIDE DEF version
    <3>2. QED
      BY <2>2, <3>1, Zenon DEF Sp
  <2>3. QED
    BY <1>8, <2>1, <2>2
<1>10. QED
  <2> HIDE DEF k, u, v, C
  <2>1. QED
    BY <1>5, <1>6, <1>9 DEF VersionOf

-----------------------------------------------------------------------------
(***************************************************************************)
(* Whole lines from texts without newlines.                                 *)
(***************************************************************************)
\* A line of a head ends with its only newline.
LEMMA WholeLine ==
    ASSUME NEW line \in Text, ends_with(line, Newline),
           \A i \in 1 .. Len(line) - 1 : line[i] # LF
    PROVE  /\ Whole(line) /\ lk_chomp(line) \in Text /\ Len(lk_chomp(line)) < Len(line)
           /\ \A i \in 1 .. Len(lk_chomp(line)) : lk_chomp(line)[i] # LF
<1> DEFINE s == lk_chomp(line)
           l == Len(line)
           m == Len(s)
<1>1. line \in Seq(Pieces) /\ l \in Nat /\ Newline \in Seq(Pieces)
      /\ Len(Newline) = 1 /\ Newline[1] = LF
  BY WordsAssumption DEF Text, Newline
<1>2. l >= 1 /\ line[l] = LF
  <2>1. 1 <= l /\ \A i \in 1 .. 1 : line[l - 1 + i] = Newline[i]
    BY <1>1, SuffixIs
  <2>2. line[l - 1 + 1] = Newline[1] /\ l - 1 + 1 = l
    <3>1. 1 \in 1 .. 1 /\ l - 1 + 1 = l
      BY <1>1
    <3>2. QED
      BY <2>1, <3>1
  <2>3. QED
    BY <1>1, <2>1, <2>2
<1>3. /\ s \in Seq(Pieces) /\ At(line, 0, s) /\ m \in Nat
      /\ m # 0 => s[m] \notin {LF, "cr"}
  BY <1>1, ChompAt
<1> HIDE DEF s, l, m
<1>4. 0 + m <= l /\ \A i \in 1 .. m : line[0 + i] = s[i]
  BY <1>3 DEF At, l, m
<1>5. m < l
  <2>1. SUFFICES ASSUME m = l PROVE FALSE
    BY <1>1, <1>3, <1>4
  <2>2. m \in 1 .. m /\ 0 + m = m /\ m # 0
    BY <1>1, <1>2, <1>3, <2>1
  <2>3. s[m] = LF
    BY <1>2, <1>4, <2>1, <2>2
  <2>4. QED
    BY <1>3, <2>2, <2>3
<1>6. \A i \in 1 .. m : s[i] # LF
  <2>1. \A i \in 1 .. m : i \in 1 .. l - 1 /\ 0 + i = i
    BY <1>1, <1>3, <1>5
  <2>2. \A i \in 1 .. l - 1 : line[i] # LF
    BY DEF l
  <2>3. QED
    BY <1>4, <2>1, <2>2
<1>7. Whole(line)
  BY <1>1, <1>2 DEF Whole, l
<1>8. QED
  BY <1>3, <1>5, <1>6, <1>7 DEF Text, s, l, m

\* Texts without newlines make a whole line.
Bare(s) == \A i \in 1 .. Len(s) : s[i] # LF

\* Two of them make up a third.
LEMMA BareJoin ==
    ASSUME NEW s \in Text, NEW t \in Text, Bare(s), Bare(t)
    PROVE  s \o t \in Text /\ Bare(s \o t)
<1>1. s \in Seq(Pieces) /\ t \in Seq(Pieces) /\ Len(s) \in Nat /\ Len(t) \in Nat
  BY DEF Text
<1>2. /\ s \o t \in Seq(Pieces) /\ Len(s \o t) = Len(s) + Len(t)
      /\ At(s \o t, 0, s) /\ At(s \o t, Len(s), t)
  BY <1>1, AtConcat
<1> DEFINE x == s \o t
           m == Len(s)
           n == Len(t)
<1>3. x \in Seq(Pieces) /\ Len(x) = m + n /\ At(x, 0, s) /\ At(x, m, t)
  BY <1>2
<1> HIDE DEF x, m, n
<1>4. ASSUME NEW i \in 1 .. m + n
      PROVE  x[i] # LF
  <2>1. CASE i <= m
    <3>1. i \in 1 .. m /\ 0 + i = i
      BY <1>1, <2>1 DEF m
    <3>2. QED
      BY <1>3, <3>1 DEF At, Bare, m
  <2>2. CASE i > m
    <3>1. PICK j \in 1 .. n : m + j = i
      <4>1. i - m \in 1 .. n /\ m + (i - m) = i
        BY <1>1, <2>2 DEF m, n
      <4>2. QED
        BY <4>1
    <3>2. QED
      BY <1>3, <3>1 DEF At, Bare, n
  <2>3. QED
    BY <1>1, <2>1, <2>2 DEF m
<1>5. QED
  BY <1>3, <1>4 DEF x, Text, Bare

\* And a newline makes one a line.
LEMMA BareLine ==
    ASSUME NEW s \in Text, Bare(s)
    PROVE  s \o Newline \in Text /\ Whole(s \o Newline)
<1>1. /\ s \in Seq(Pieces) /\ Newline \in Seq(Pieces) /\ Len(s) \in Nat
      /\ Len(Newline) = 1 /\ Newline[1] = LF
  BY WordsAssumption DEF Text, Newline
<1> DEFINE x == s \o Newline
           m == Len(s)
<1>2. x \in Seq(Pieces) /\ Len(x) = m + 1 /\ At(x, 0, s) /\ At(x, m, Newline)
  BY <1>1, AtConcat
<1> HIDE DEF x, m
<1>3. x[m + 1] = LF
  <2>1. 1 \in 1 .. Len(Newline)
    BY <1>1
  <2>2. QED
    BY <1>1, <1>2, <2>1 DEF At
<1>4. \A i \in 1 .. m : x[i] # LF
  <2>1. \A i \in 1 .. m : 0 + i = i /\ x[0 + i] = s[i]
    BY <1>2 DEF At, m
  <2>2. QED
    BY <2>1 DEF Bare, m
<1>5. m + 1 > 0 /\ m + 1 - 1 = m
  BY <1>1 DEF m
<1>6. Len(x) > 0 /\ x[Len(x)] = LF /\ Len(x) - 1 = m
  <2>1. m \in Nat
    BY <1>1 DEF m
  <2>2. QED
    BY <1>2, <1>3, <2>1
<1>7. Whole(x)
  BY <1>4, <1>6 DEF Whole
<1>8. QED
  BY <1>2, <1>7 DEF x, Text

\* The first line of a forwarded head is a whole line.
LEMMA AskedWhole ==
    ASSUME NEW line \in Text, Bare(lk_chomp(line)), lk_chomp(line) \in Text
    PROVE  AskedLine(line) \in Text /\ Whole(AskedLine(line))
<1> DEFINE s == lk_chomp(line)
           C == Cardinality({n \in DOMAIN s : s[n] = "sp"})
           t == IF C = 1 THEN s \o Sp \o <<"HTTP/1.0">> ELSE s
<1>1. AskedLine(line) = t \o Newline
  BY DEF AskedLine
<1>2. Sp \in Text /\ <<"HTTP/1.0">> \in Text /\ Bare(Sp) /\ Bare(<<"HTTP/1.0">>)
  <2>1. Bare(Sp) /\ Bare(<<"HTTP/1.0">>)
    BY DEF Bare, Sp, LF
  <2>2. QED
    BY <2>1, WordsAre
<1> HIDE DEF s, C
<1>3. s \in Text /\ Bare(s)
  BY DEF s
<1>4. s \o Sp \in Text /\ Bare(s \o Sp)
  BY <1>2, <1>3, BareJoin
<1>5. s \o Sp \o <<"HTTP/1.0">> \in Text /\ Bare(s \o Sp \o <<"HTTP/1.0">>)
  BY <1>2, <1>4, BareJoin
<1>6. t \in Text /\ Bare(t)
  BY <1>3, <1>5
<1> HIDE DEF t
<1>7. QED
  BY <1>1, <1>6, BareLine

-----------------------------------------------------------------------------
(***************************************************************************)
(* The headers of a request, forwarded.                                     *)
(***************************************************************************)

\* What names and values are.
Keys == {k \in Text : k # Empty /\ Bare(k) /\ \A i \in 1 .. Len(k) : k[i] # ":"}
Values == {v \in Text : Bare(v)}

\* They are the texts over the bytes that are no newlines.
LEMMA BareIs == \A s : s \in Seq(Pieces \ {LF}) <=> s \in Text /\ Bare(s)
<1>1. ASSUME NEW s \in Seq(Pieces \ {LF})
      PROVE  s \in Text /\ Bare(s)
  <2>1. \A i \in 1 .. Len(s) : s[i] \in Pieces \ {LF}
    BY ElementOfSeq
  <2>2. s \in Seq(Pieces)
    OBVIOUS
  <2>3. QED
    BY <2>1, <2>2 DEF Text, Bare
<1>2. ASSUME NEW s \in Text, Bare(s)
      PROVE  s \in Seq(Pieces \ {LF})
  <2>1. s \in Seq(Pieces) /\ \A i \in 1 .. Len(s) : s[i] # LF
    BY <1>2 DEF Text, Bare
  <2>2. \A i \in 1 .. Len(s) : s[i] \in Pieces
    BY <2>1, ElementOfSeq
  <2>3. \A i \in 1 .. Len(s) : s[i] \in Pieces \ {LF}
    BY <2>1, <2>2
  <2>4. Len(s) \in Nat /\ s = [i \in 1 .. Len(s) |-> s[i]]
    BY <2>1
  <2>5. QED
    BY <2>3, <2>4
<1>3. QED
  BY <1>1, <1>2

\* A name has no colon.
LEMMA NameIs ==
    ASSUME NEW line \in Text
    PROVE  \A i \in 1 .. Len(NameOf(line)) : NameOf(line)[i] # ":"
<1>1. lk_chomp(line) \in Seq(Pieces)
  BY ChompAt DEF Text
<1>2. QED
  BY <1>1, UpToAt DEF NameOf

\* Each header of a table is a name and a value, and is there once.
LEMMA TableIs ==
    ASSUME NEW lines \in Seq(Text), lines # << >>,
           \A n \in 2 .. Len(lines) :
              /\ Bare(lk_chomp(lines[n]))
              /\ \/ Single(lk_chomp(lines[n]), ":")
                 \/ ToSet(lk_chomp(lines[n])) \subseteq {":"}
    PROVE  Headers(lines) \in Seq([k : Keys, v : Values]) /\ Unique(Headers(lines))
<1> DEFINE N == Len(lines)
           Tables == {t \in Seq([k : Keys, v : Values]) : Unique(t)}
<1>1. PICK f :
         /\ Headers(lines) = f[N] /\ f[1] = << >>
         /\ \A n \in 2 .. N :
               f[n] = IF is_empty_line(lines[n]) THEN f[n - 1]
                      ELSE parse_header_line(f[n - 1], lines[n])
  BY HeadersBy
<1>2. N \in Nat /\ N >= 1 /\ \A n \in 1 .. N : lines[n] \in Text
  <2>1. N \in Nat \ {0}
    BY EmptySeq
  <2>2. QED
    BY <2>1, ElementOfSeq
<1>3. \A n \in 2 .. N :
         /\ Bare(lk_chomp(lines[n]))
         /\ \/ Single(lk_chomp(lines[n]), ":")
            \/ ToSet(lk_chomp(lines[n])) \subseteq {":"}
  OBVIOUS
<1> HIDE DEF N
<1> DEFINE G == {n \in 1 .. N : f[n] \in Tables}
<1>4. 1 \in G
  <2>1. << >> \in Seq([k : Keys, v : Values]) /\ Len(<< >>) = 0
    BY EmptySeq
  <2>2. Unique(<< >>)
    BY <2>1 DEF Unique
  <2>3. 1 \in 1 .. N
    BY <1>2
  <2>4. QED
    BY <1>1, <2>1, <2>2, <2>3
<1>5. ASSUME NEW n \in 2 .. N, n - 1 \in G
      PROVE  n \in G
  <2> DEFINE line == lines[n]
             t == f[n - 1]
             name == Header(line)[1]
             value == Header(line)[2]
  <2>1. n \in 1 .. N /\ line \in Text /\ t \in Tables
    BY <1>2, <1>5
  <2>2. f[n] = IF is_empty_line(line) THEN t ELSE parse_header_line(t, line)
    BY <1>1
  <2>3. /\ Bare(lk_chomp(line))
        /\ Single(lk_chomp(line), ":") \/ ToSet(lk_chomp(line)) \subseteq {":"}
    BY <1>3
  <2>4. t \in Seq([k : Keys, v : Values]) /\ Unique(t)
    BY <2>1
  <2> HIDE DEF line, t
  <2>5. CASE Header(line) = << >> \/ is_empty_line(line)
    <3>1. f[n] = t
      BY <2>2, <2>5 DEF parse_header_line
    <3>2. QED
      BY <2>1, <3>1
  <2>6. CASE Header(line) # << >> /\ ~is_empty_line(line)
    <3>1. f[n] = lk_stringtable_set(t, name, value)
      BY <2>2, <2>6 DEF parse_header_line
    <3>2. lk_chomp(line) \in Seq(Pieces \ {LF})
      <4>1. lk_chomp(line) \in Text
        BY <2>1, ChompOf DEF Text
      <4>2. QED
        BY <2>3, <4>1, BareIs
    <3>3. name \in Seq(Pieces \ {LF}) /\ value \in Seq(Pieces \ {LF})
      BY <2>6, <3>2, HeaderIn
    <3>4. name = NameOf(line)
      BY <2>1, <2>3, <2>6, HeaderSays
    <3>5. name # Empty
      <4> DEFINE c == lk_chomp(line)
                 a == Token(c, ":")
                 b == Skip(Token(AfterToken(c, ":"), ":"), {"sp"})
      <4>1. Header(line) = IF a = Empty THEN << >> ELSE <<a, b>>
        BY DEF Header
      <4> HIDE DEF a, b
      <4>2. a # Empty /\ Header(line) = <<a, b>>
        BY <2>6, <4>1
      <4>3. QED
        BY <4>2
    <3> HIDE DEF name, value
    <3>6. name \in Text /\ Bare(name) /\ value \in Text /\ Bare(value)
      BY <3>3, BareIs
    <3>7. \A i \in 1 .. Len(name) : name[i] # ":"
      BY <2>1, <3>4, NameIs
    <3>8. name \in Keys /\ value \in Values
      BY <3>5, <3>6, <3>7 DEF Keys, Values
    <3>9. f[n] \in Seq([k : Keys, v : Values]) /\ Unique(f[n])
      BY <2>4, <3>1, <3>8, SetKeepsUnique
    <3>10. QED
      BY <2>1, <3>9
  <2>7. QED
    BY <2>5, <2>6
<1>6. N \in G
  <2> HIDE DEF G
  <2>1. \A n \in 1 .. N : n \in G
    BY <1>2, <1>4, <1>5, Along
  <2>2. QED
    BY <1>2, <2>1
<1>7. QED
  BY <1>1, <1>6

\* The parts of a header line that the server writes.
LEMMA HeaderLineAt ==
    ASSUME NEW k \in Text, NEW v \in Text
    PROVE  /\ HeaderLine(k, v) \in Text /\ Len(HeaderLine(k, v)) = Len(k) + 3 + Len(v)
           /\ At(HeaderLine(k, v), 0, k) /\ HeaderLine(k, v)[Len(k) + 1] = ":"
           /\ HeaderLine(k, v)[Len(k) + 2] = "sp"
           /\ At(HeaderLine(k, v), Len(k) + 2, v)
<1> DEFINE d == <<":", "sp">>
           a == k \o d
           b == a \o v
           x == b \o Newline
           m == Len(k)
           n == Len(v)
<1>1. /\ k \in Seq(Pieces) /\ v \in Seq(Pieces) /\ d \in Seq(Pieces)
      /\ Newline \in Seq(Pieces) /\ m \in Nat /\ n \in Nat /\ 0 \in Nat
      /\ Len(d) = 2 /\ d[1] = ":" /\ d[2] = "sp" /\ Len(Newline) = 1
  BY WordsAssumption DEF Text, Newline
<1>2. HeaderLine(k, v) = x
  BY DEF HeaderLine
<1> HIDE DEF d
<1>3. a \in Seq(Pieces) /\ Len(a) = m + 2 /\ At(a, 0, k) /\ At(a, m, d)
  BY <1>1, AtConcat
<1> HIDE DEF a
<1>4. b \in Seq(Pieces) /\ Len(b) = m + 2 + n /\ At(b, 0, a) /\ At(b, m + 2, v)
  BY <1>1, <1>3, AtConcat
<1> HIDE DEF b
<1>5. x \in Seq(Pieces) /\ Len(x) = m + 2 + n + 1 /\ At(x, 0, b)
  <2>1. b \in Seq(Pieces) /\ Newline \in Seq(Pieces)
    BY <1>1, <1>4
  <2>2. x \in Seq(Pieces) /\ Len(x) = Len(b) + Len(Newline) /\ At(x, 0, b)
    BY <2>1, AtConcat
  <2>3. QED
    BY <1>1, <1>4, <2>2
<1> HIDE DEF x
<1>6. At(x, 0, a) /\ At(x, m + 2, v)
  <2>1. At(x, 0 + 0, a)
    BY <1>1, <1>3, <1>4, <1>5, AtAt
  <2>2. m + 2 \in Nat
    BY <1>1
  <2>3. At(x, 0 + (m + 2), v)
    BY <1>1, <1>4, <1>5, <2>2, AtAt
  <2>4. 0 + 0 = 0 /\ 0 + (m + 2) = m + 2
    BY <1>1
  <2>5. QED
    BY <2>1, <2>3, <2>4
<1>7. At(x, 0, k) /\ At(x, m, d)
  <2>1. At(x, 0 + 0, k)
    BY <1>1, <1>3, <1>5, <1>6, AtAt
  <2>2. At(x, 0 + m, d)
    BY <1>1, <1>3, <1>5, <1>6, AtAt
  <2>3. 0 + 0 = 0 /\ 0 + m = m
    BY <1>1
  <2>4. QED
    BY <2>1, <2>2, <2>3
<1>8. x[m + 1] = ":" /\ x[m + 2] = "sp"
  <2>1. 1 \in 1 .. Len(d) /\ 2 \in 1 .. Len(d)
    BY <1>1
  <2>2. QED
    BY <1>1, <1>7, <2>1 DEF At
<1>9. m + 2 + n + 1 = m + 3 + n
  BY <1>1
<1>10. QED
  BY <1>2, <1>5, <1>6, <1>7, <1>8, <1>9 DEF m, n, Text

\* Such a line is whole, not empty, and has its name and value.
LEMMA HeaderLineIs ==
    ASSUME NEW k \in Keys, NEW v \in Values, NEW x, x = HeaderLine(k, v)
    PROVE  /\ x \in Text /\ Whole(x) /\ ~is_empty_line(x)
           /\ NameOf(x) = k /\ SubSeq(x, Len(k) + 3, Len(x) - 1) = v
           /\ Len(k) + 2 <= Len(lk_chomp(x))
<1> DEFINE m == Len(k)
           n == Len(v)
           l == Len(x)
           c == lk_chomp(x)
           t == UpTo(c, ":")
<1>1. /\ k \in Text /\ k # Empty /\ Bare(k) /\ v \in Text /\ Bare(v)
      /\ \A i \in 1 .. m : k[i] # ":"
  BY DEF Keys, Values
<1>2. /\ x \in Text /\ l = m + 3 + n /\ At(x, 0, k) /\ x[m + 1] = ":"
      /\ x[m + 2] = "sp" /\ At(x, m + 2, v)
  BY <1>1, HeaderLineAt
<1>3. /\ k \in Seq(Pieces) /\ v \in Seq(Pieces) /\ x \in Seq(Pieces)
      /\ m \in Nat /\ n \in Nat /\ l \in Nat
  BY <1>1, <1>2 DEF Text
<1>4. Whole(x)
  <2> DEFINE d == <<":", "sp">>
  <2>1. d \in Text /\ Bare(d)
    <3>1. Bare(d)
      BY DEF Bare, LF
    <3>2. QED
      BY <3>1, WordsAre
  <2>2. x = k \o d \o v \o Newline
    BY DEF HeaderLine
  <2> HIDE DEF d
  <2>3. k \o d \in Text /\ Bare(k \o d)
    BY <1>1, <2>1, BareJoin
  <2>4. k \o d \o v \in Text /\ Bare(k \o d \o v)
    BY <1>1, <2>3, BareJoin
  <2>5. QED
    BY <2>2, <2>4, BareLine
<1>5. ~is_empty_line(x)
  <2>1. m + 1 \in 1 .. l /\ DOMAIN x = 1 .. l
    BY <1>2, <1>3
  <2>2. ":" \in ToSet(x)
    BY <1>2, <2>1 DEF ToSet
  <2>3. QED
    BY <2>2 DEF is_empty_line, Blanks, LF
<1> HIDE DEF m, n, l
<1>6. /\ c \in Seq(Pieces) /\ At(x, 0, c) /\ Len(c) \in Nat
      /\ \A i \in 1 .. l : i > Len(c) => x[i] \in {LF, "cr"}
  BY <1>3, ChompAt DEF l
<1>7. m + 2 <= Len(c)
  <2>1. m + 2 \in 1 .. l
    BY <1>2, <1>3
  <2>2. x[m + 2] \notin {LF, "cr"}
    BY <1>2 DEF LF
  <2>3. ~(m + 2 > Len(c))
    BY <1>6, <2>1, <2>2
  <2>4. QED
    BY <1>3, <1>6, <2>3
<1> HIDE DEF c
<1>8. /\ t \in Seq(Pieces) /\ At(c, 0, t) /\ Len(t) \in Nat
      /\ \A i \in 1 .. Len(t) : t[i] # ":"
      /\ Len(t) = Len(c) \/ At(c, Len(t), <<":">>)
  BY <1>6, UpToAt
<1> HIDE DEF t
<1>9. \A i \in 1 .. Len(c) : c[i] = x[i]
  <2>1. \A i \in 1 .. Len(c) : 0 + i = i
    BY <1>6
  <2>2. QED
    BY <1>6, <2>1 DEF At
<1>10. Len(t) <= Len(c) /\ \A i \in 1 .. Len(t) : t[i] = c[i]
  <2>1. \A i \in 1 .. Len(t) : 0 + i = i
    BY <1>8
  <2>2. 0 + Len(t) = Len(t)
    BY <1>8
  <2>3. QED
    BY <1>8, <2>1, <2>2 DEF At
<1>11. \A i \in 1 .. m : k[i] = x[i]
  <2>1. \A i \in 1 .. m : 0 + i = i
    BY <1>3
  <2>2. QED
    BY <1>2, <2>1 DEF At, m
<1>12. Len(t) = m
  <2>1. Len(t) <= m
    <3>1. SUFFICES ASSUME Len(t) > m PROVE FALSE
      BY <1>3, <1>8
    <3>2. m + 1 \in 1 .. Len(t) /\ m + 1 \in 1 .. Len(c)
      BY <1>3, <1>7, <1>8, <3>1, <1>6
    <3>3. t[m + 1] = ":"
      BY <1>2, <1>9, <1>10, <3>2
    <3>4. QED
      BY <1>8, <3>2, <3>3
  <2>2. Len(t) >= m
    <3>1. SUFFICES ASSUME Len(t) < m PROVE FALSE
      BY <1>3, <1>8
    <3>2. Len(t) # Len(c) /\ Len(t) + 1 \in 1 .. m /\ Len(t) + 1 \in 1 .. Len(c)
      BY <1>3, <1>6, <1>7, <1>8, <3>1
    <3>3. c[Len(t) + 1] = ":"
      <4>1. At(c, Len(t), <<":">>) /\ Len(<<":">>) = 1 /\ <<":">>[1] = ":" /\ 1 \in 1 .. 1
        BY <1>8, <3>2
      <4>2. QED
        BY <4>1 DEF At
    <3>4. k[Len(t) + 1] = ":"
      BY <1>9, <1>11, <3>2, <3>3
    <3>5. QED
      BY <1>1, <3>2, <3>4 DEF m
  <2>3. QED
    BY <1>3, <1>8, <2>1, <2>2
<1>13. t = k
  <2>1. \A i \in 1 .. m : t[i] = k[i]
    <3>1. \A i \in 1 .. m : i \in 1 .. Len(c)
      BY <1>3, <1>6, <1>7
    <3>2. QED
      BY <1>9, <1>10, <1>11, <1>12, <3>1
  <2>2. QED
    BY <1>3, <1>8, <1>12, <2>1, SeqEqual DEF m
<1>14. SubSeq(x, m + 3, l - 1) = v
  <2> DEFINE y == SubSeq(x, m + 3, l - 1)
  <2>1. m + 3 \in Nat \ {0} /\ l - 1 \in 0 .. Len(x) /\ l - 1 = m + 2 + n
    <3>1. l = m + 3 + n /\ Len(x) = l
      BY <1>2 DEF l
    <3>2. QED
      BY <1>3, <3>1
  <2>2. /\ y \in Seq(Pieces)
        /\ Len(y) = IF m + 3 <= l - 1 THEN l - 1 - (m + 3) + 1 ELSE 0
        /\ \A i \in 1 .. l - 1 - (m + 3) + 1 : y[i] = x[m + 3 + i - 1]
    BY <1>3, <2>1, PartIs
  <2> HIDE DEF y
  <2>3. /\ l - 1 - (m + 3) + 1 = n
        /\ (m + 3 <= l - 1 => l - 1 - (m + 3) + 1 = n) /\ (~(m + 3 <= l - 1) => n = 0)
    BY <1>3, <2>1
  <2>4. Len(y) = n
    BY <2>2, <2>3
  <2>5. \A i \in 1 .. n : y[i] = v[i]
    <3>1. \A i \in 1 .. n : y[i] = x[m + 3 + i - 1]
      BY <2>2, <2>3
    <3>2. \A i \in 1 .. n : m + 3 + i - 1 = m + 2 + i
      BY <1>3
    <3>3. \A i \in 1 .. n : x[m + 2 + i] = v[i]
      BY <1>2 DEF At, n
    <3>4. QED
      BY <3>1, <3>2, <3>3
  <2>6. y = v
    BY <1>3, <2>2, <2>4, <2>5, SeqEqual DEF n
  <2>7. QED
    BY <2>6 DEF y
<1>15. NameOf(x) = k
  BY <1>13 DEF NameOf, t, c
<1>16. QED
  BY <1>2, <1>4, <1>5, <1>7, <1>14, <1>15 DEF m, l, c

-----------------------------------------------------------------------------
(***************************************************************************)
(* What a line says is one thing.                                           *)
(***************************************************************************)
\* The value of k in the line is v, after b blanks.
SaidAt(line, k, b, v) ==
    /\ b \in Nat /\ At(line, Len(k) + 1 + b, v)
    /\ \A i \in 1 .. b : line[Len(k) + 1 + i] = "sp"
    /\ Len(k) + 1 + b + Len(v) <= Len(lk_chomp(line))
    /\ Len(k) + 1 + b + Len(v) # Len(lk_chomp(line))
          => line[Len(k) + 1 + b + Len(v) + 1] = ":"
    /\ \A i \in 1 .. Len(v) : v[i] # ":"
    /\ Len(v) > 0 => v[1] # "sp"

\* What Says looks for.
Said(k, b, v) == k \o <<":">> \o [n \in 1 .. b |-> "sp"] \o v

\* Where its parts are.
LEMMA SaidIs ==
    ASSUME NEW k \in Text, NEW b \in Nat, NEW v \in Text
    PROVE  /\ Said(k, b, v) \in Text /\ Len(Said(k, b, v)) = Len(k) + 1 + b + Len(v)
           /\ At(Said(k, b, v), 0, k) /\ Said(k, b, v)[Len(k) + 1] = ":"
           /\ \A i \in 1 .. b : Said(k, b, v)[Len(k) + 1 + i] = "sp"
           /\ At(Said(k, b, v), Len(k) + 1 + b, v)
<1> DEFINE said == Said(k, b, v)
           d == <<":">>
           x == [n \in 1 .. b |-> "sp"]
           p == k \o d
           q == p \o x
           m == Len(k)
           l == Len(v)
<1>1. /\ k \in Seq(Pieces) /\ v \in Seq(Pieces) /\ d \in Seq(Pieces)
      /\ m \in Nat /\ l \in Nat /\ 0 \in Nat /\ Len(d) = 1 /\ d[1] = ":"
  BY WordsAssumption DEF Text
<1>2. x \in Seq(Pieces) /\ Len(x) = b /\ \A i \in 1 .. b : x[i] = "sp"
  <2>1. "sp" \in Pieces
    BY WordsAssumption
  <2>2. QED
    BY <2>1
<1>3. said = q \o v
  BY DEF Said
<1> HIDE DEF d, x, m, l, said
<1>4. p \in Seq(Pieces) /\ Len(p) = m + 1 /\ At(p, 0, k) /\ At(p, m, d)
  BY <1>1, AtConcat DEF m
<1> HIDE DEF p
<1>5. q \in Seq(Pieces) /\ Len(q) = m + 1 + b /\ At(q, 0, p) /\ At(q, m + 1, x)
  BY <1>1, <1>2, <1>4, AtConcat
<1> HIDE DEF q
<1>6. said \in Seq(Pieces) /\ At(said, 0, q) /\ At(said, m + 1 + b, v)
      /\ Len(said) = Len(q) + Len(v)
  <2>1. q \in Seq(Pieces) /\ v \in Seq(Pieces)
    BY <1>1, <1>5
  <2>2. /\ said \in Seq(Pieces) /\ At(said, 0, q) /\ At(said, Len(q), v)
        /\ Len(said) = Len(q) + Len(v)
    BY <1>3, <2>1, AtConcat
  <2>3. QED
    BY <1>5, <2>2
<1>7. Len(said) = m + 1 + b + l
  BY <1>5, <1>6 DEF l
<1>8. m + 1 \in Nat /\ 0 + 0 = 0 /\ 0 + (m + 1) = m + 1 /\ 0 + m = m
  BY <1>1
<1>9. At(said, 0, p) /\ At(said, m + 1, x)
  <2>1. At(said, 0 + 0, p)
    BY <1>1, <1>4, <1>5, <1>6, AtAt
  <2>2. At(said, 0 + (m + 1), x)
    BY <1>1, <1>2, <1>5, <1>6, <1>8, AtAt
  <2>3. QED
    BY <1>8, <2>1, <2>2
<1>10. At(said, 0, k) /\ At(said, m, d)
  <2>1. At(said, 0 + 0, k)
    BY <1>1, <1>4, <1>6, <1>9, AtAt
  <2>2. At(said, 0 + m, d)
    BY <1>1, <1>4, <1>6, <1>9, AtAt
  <2>3. QED
    BY <1>8, <2>1, <2>2
<1>11. said[m + 1] = ":"
  <2>1. 1 \in 1 .. Len(d)
    BY <1>1
  <2>2. QED
    BY <1>1, <1>10, <2>1 DEF At
<1>12. \A i \in 1 .. b : said[m + 1 + i] = "sp"
  BY <1>2, <1>9 DEF At
<1>13. QED
  BY <1>6, <1>7, <1>10, <1>11, <1>12 DEF Text, m, l, said

\* A line that says v of k has it at a place.
LEMMA SaysAt ==
    ASSUME NEW line \in Text, NEW k \in Text, NEW v \in Text, Says(line, k, v)
    PROVE  \E b \in Nat : SaidAt(line, k, b, v)
<1> DEFINE c == lk_chomp(line)
           m == Len(k)
           l == Len(v)
<1>1. PICK b \in 0 .. Len(line) :
         c = Said(k, b, v) \/ starts_with(line, Said(k, b, v) \o <<":">>)
  BY DEF Says, Said
<1> DEFINE said == Said(k, b, v)
           s == Len(said)
<1>2. c = said \/ starts_with(line, said \o <<":">>)
  BY <1>1
<1>3. b \in Nat
  BY DEF Text
<1>4. /\ said \in Text /\ s = m + 1 + b + l
      /\ \A i \in 1 .. b : said[m + 1 + i] = "sp"
      /\ At(said, m + 1 + b, v)
  BY <1>3, SaidIs
<1>5. /\ line \in Seq(Pieces) /\ said \in Seq(Pieces) /\ v \in Seq(Pieces)
      /\ m \in Nat /\ l \in Nat /\ s \in Nat /\ Len(line) \in Nat
  BY <1>4 DEF Text
<1> HIDE DEF said
<1>6. /\ c \in Seq(Pieces) /\ At(line, 0, c) /\ Len(c) \in Nat
      /\ \A i \in 1 .. Len(line) : i > Len(c) => line[i] \in {LF, "cr"}
  BY <1>5, ChompAt
<1>7. At(line, 0, said) /\ s <= Len(c) /\ (s # Len(c) => line[s + 1] = ":")
  <2>1. CASE c = said
    BY <1>6, <2>1
  <2>2. CASE starts_with(line, said \o <<":">>)
    <3> DEFINE t == said \o <<":">>
    <3>1. /\ t \in Seq(Pieces) /\ Len(t) = s + 1 /\ t[s + 1] = ":"
          /\ \A i \in 1 .. s : t[i] = said[i]
      <4>1. ":" \in Pieces
        BY WordsAssumption
      <4>2. QED
        BY <1>5, <4>1
    <3> HIDE DEF t
    <3>2. Len(t) <= Len(line) /\ \A i \in 1 .. Len(t) : line[i] = t[i]
      BY <1>5, <2>2, <3>1, PrefixIs DEF t
    <3>3. /\ s + 1 \in 1 .. Len(line) /\ s + 1 \in 1 .. Len(t) /\ s <= Len(line)
          /\ \A i \in 1 .. s : 0 + i = i /\ i \in 1 .. Len(t)
      BY <1>5, <3>1, <3>2
    <3>4. line[s + 1] = ":" /\ \A i \in 1 .. s : line[0 + i] = said[i]
      BY <3>1, <3>2, <3>3
    <3>5. At(line, 0, said)
      <4>1. 0 + s <= Len(line)
        BY <1>5, <3>3
      <4>2. QED
        BY <3>4, <4>1 DEF At
    <3>6. ":" \notin {LF, "cr"}
      BY DEF LF
    <3>7. ~(s + 1 > Len(c))
      BY <1>6, <3>3, <3>4, <3>6
    <3>8. QED
      BY <1>5, <1>6, <3>4, <3>5, <3>7
  <2>3. QED
    BY <1>2, <2>1, <2>2
<1>8. At(line, m + 1 + b, v)
  <2>1. m + 1 + b \in Nat /\ 0 \in Nat /\ 0 + (m + 1 + b) = m + 1 + b
    BY <1>3, <1>5
  <2>2. At(line, 0 + (m + 1 + b), v)
    BY <1>4, <1>5, <1>7, <2>1, AtAt
  <2>3. QED
    BY <2>1, <2>2
<1>9. \A i \in 1 .. b : line[m + 1 + i] = "sp"
  <2>1. SUFFICES ASSUME NEW i \in 1 .. b PROVE line[m + 1 + i] = "sp"
    OBVIOUS
  <2>2. PICK j : j = m + 1 + i
    OBVIOUS
  <2>3. j \in 1 .. s /\ 0 + j = j
    BY <1>3, <1>4, <1>5, <2>2
  <2>4. line[j] = said[j]
    BY <1>7, <2>3 DEF At
  <2>5. QED
    BY <1>4, <2>2, <2>4
<1>10. \A i \in 1 .. Len(v) : v[i] # ":"
  BY DEF Says, ToSet
<1>11. Len(v) > 0 => v[1] # "sp"
  <2>1. SUFFICES ASSUME Len(v) > 0, v[1] = "sp" PROVE FALSE
    OBVIOUS
  <2>2. 0 + Len(Sp) <= Len(v) /\ \A i \in 1 .. Len(Sp) : v[0 + i] = Sp[i]
    BY <1>5, <2>1 DEF Sp
  <2>3. At(v, 0, Sp) /\ Sp \in Seq(Pieces)
    BY <2>2, WordsAssumption DEF At, Sp
  <2>4. starts_with(v, Sp)
    BY <1>5, <2>3, AtStart
  <2>5. QED
    BY <2>4 DEF Says
<1>12. QED
  BY <1>3, <1>4, <1>7, <1>8, <1>9, <1>10, <1>11 DEF SaidAt

\* A line says one thing of a name: after the blanks, up to a colon or the end.
LEMMA SaysOnce ==
    ASSUME NEW line \in Text, NEW k \in Text, NEW v1 \in Text, NEW v2 \in Text,
           Says(line, k, v1), Says(line, k, v2)
    PROVE  v1 = v2
<1> DEFINE m == Len(k)
           c == Len(lk_chomp(line))
<1>1. PICK b1 \in Nat : SaidAt(line, k, b1, v1)
  BY SaysAt
<1>2. PICK b2 \in Nat : SaidAt(line, k, b2, v2)
  BY SaysAt
<1> DEFINE e1 == m + 1 + b1 + Len(v1)
           e2 == m + 1 + b2 + Len(v2)
<1>3. /\ m \in Nat /\ c \in Nat /\ Len(v1) \in Nat /\ Len(v2) \in Nat
      /\ v1 \in Seq(Pieces) /\ v2 \in Seq(Pieces)
  <2>1. lk_chomp(line) \in Seq(Pieces)
    BY ChompAt DEF Text
  <2>2. QED
    BY <2>1 DEF Text
<1>4. /\ \A i \in 1 .. b1 : line[m + 1 + i] = "sp"
      /\ \A i \in 1 .. Len(v1) : line[m + 1 + b1 + i] = v1[i]
      /\ e1 <= c /\ (e1 # c => line[e1 + 1] = ":")
      /\ \A i \in 1 .. Len(v1) : v1[i] # ":"
      /\ Len(v1) > 0 => v1[1] # "sp"
  BY <1>1 DEF SaidAt, At
<1>5. /\ \A i \in 1 .. b2 : line[m + 1 + i] = "sp"
      /\ \A i \in 1 .. Len(v2) : line[m + 1 + b2 + i] = v2[i]
      /\ e2 <= c /\ (e2 # c => line[e2 + 1] = ":")
      /\ \A i \in 1 .. Len(v2) : v2[i] # ":"
      /\ Len(v2) > 0 => v2[1] # "sp"
  BY <1>2 DEF SaidAt, At
<1> HIDE DEF m, c
<1>6. \A i \in m + 2 .. e1 : line[i] # ":"
  <2>1. SUFFICES ASSUME NEW i \in m + 2 .. e1, line[i] = ":" PROVE FALSE
    OBVIOUS
  <2>2. i \in Nat /\ m + 2 <= i /\ i <= e1
    BY <1>3
  <2>3. CASE i <= m + 1 + b1
    <3>1. PICK j : j = i - m - 1
      OBVIOUS
    <3>2. j \in 1 .. b1 /\ m + 1 + j = i
      BY <1>3, <2>2, <2>3, <3>1
    <3>3. QED
      BY <1>4, <2>1, <3>2
  <2>4. CASE i > m + 1 + b1
    <3>1. PICK j : j = i - (m + 1 + b1)
      OBVIOUS
    <3>2. j \in 1 .. Len(v1) /\ m + 1 + b1 + j = i
      BY <1>3, <2>2, <2>4, <3>1
    <3>3. line[i] = v1[j]
      BY <1>4, <3>2
    <3>4. QED
      BY <1>4, <2>1, <3>2, <3>3
  <2>5. QED
    BY <1>3, <2>2, <2>3, <2>4
<1>7. \A i \in m + 2 .. e2 : line[i] # ":"
  <2>1. SUFFICES ASSUME NEW i \in m + 2 .. e2, line[i] = ":" PROVE FALSE
    OBVIOUS
  <2>2. i \in Nat /\ m + 2 <= i /\ i <= e2
    BY <1>3
  <2>3. CASE i <= m + 1 + b2
    <3>1. PICK j : j = i - m - 1
      OBVIOUS
    <3>2. j \in 1 .. b2 /\ m + 1 + j = i
      BY <1>3, <2>2, <2>3, <3>1
    <3>3. QED
      BY <1>5, <2>1, <3>2
  <2>4. CASE i > m + 1 + b2
    <3>1. PICK j : j = i - (m + 1 + b2)
      OBVIOUS
    <3>2. j \in 1 .. Len(v2) /\ m + 1 + b2 + j = i
      BY <1>3, <2>2, <2>4, <3>1
    <3>3. line[i] = v2[j]
      BY <1>5, <3>2
    <3>4. QED
      BY <1>5, <2>1, <3>2, <3>3
  <2>5. QED
    BY <1>3, <2>2, <2>3, <2>4
<1>8. e1 = e2
  <2>1. ~(e1 < e2)
    <3>1. SUFFICES ASSUME e1 < e2 PROVE FALSE
      OBVIOUS
    <3>2. e1 # c /\ e1 + 1 \in m + 2 .. e2
      BY <1>3, <1>5, <3>1
    <3>3. QED
      BY <1>4, <1>7, <3>2
  <2>2. ~(e2 < e1)
    <3>1. SUFFICES ASSUME e2 < e1 PROVE FALSE
      OBVIOUS
    <3>2. e2 # c /\ e2 + 1 \in m + 2 .. e1
      BY <1>3, <1>4, <3>1
    <3>3. QED
      BY <1>5, <1>6, <3>2
  <2>3. QED
    BY <1>3, <2>1, <2>2
<1>9. b1 = b2
  <2>1. ~(b1 < b2)
    <3>1. SUFFICES ASSUME b1 < b2 PROVE FALSE
      OBVIOUS
    <3>2. PICK j : j = b1 + 1
      OBVIOUS
    <3>3. j \in 1 .. b2 /\ Len(v1) > 0 /\ 1 \in 1 .. Len(v1) /\ m + 1 + b1 + 1 = m + 1 + j
      BY <1>3, <1>8, <3>1, <3>2
    <3>4. line[m + 1 + j] = "sp" /\ line[m + 1 + b1 + 1] = v1[1]
      BY <1>4, <1>5, <3>3
    <3>5. QED
      BY <1>4, <3>3, <3>4
  <2>2. ~(b2 < b1)
    <3>1. SUFFICES ASSUME b2 < b1 PROVE FALSE
      OBVIOUS
    <3>2. PICK j : j = b2 + 1
      OBVIOUS
    <3>3. j \in 1 .. b1 /\ Len(v2) > 0 /\ 1 \in 1 .. Len(v2) /\ m + 1 + b2 + 1 = m + 1 + j
      BY <1>3, <1>8, <3>1, <3>2
    <3>4. line[m + 1 + j] = "sp" /\ line[m + 1 + b2 + 1] = v2[1]
      BY <1>4, <1>5, <3>3
    <3>5. QED
      BY <1>5, <3>3, <3>4
  <2>3. QED
    BY <2>1, <2>2
<1>10. Len(v1) = Len(v2)
  BY <1>3, <1>8, <1>9
<1>11. \A i \in 1 .. Len(v1) : v1[i] = v2[i]
  BY <1>4, <1>5, <1>9, <1>10
<1>12. QED
  BY <1>3, <1>10, <1>11, SeqEqual

\* A line that says something of k is more than k.
LEMMA SaysMore ==
    ASSUME NEW line \in Text, NEW k \in Text, NEW v \in Text, Says(line, k, v)
    PROVE  lk_chomp(line) # k
<1>1. PICK b \in Nat : SaidAt(line, k, b, v)
  BY SaysAt
<1>2. Len(k) + 1 + b + Len(v) <= Len(lk_chomp(line)) /\ Len(k) \in Nat /\ Len(v) \in Nat
  BY <1>1 DEF SaidAt, Text
<1>3. QED
  BY <1>2

\* The server's own line says what it is for.
LEMMA OwnLineSays ==
    ASSUME NEW d \in Pieces, d \notin Blanks \cup {":"}
    PROVE  /\ ContentLength \in Keys /\ <<d>> \in Values
           /\ Says(HeaderLine(ContentLength, <<d>>), ContentLength, <<d>>)
<1> DEFINE k == ContentLength
           v == <<d>>
           x == HeaderLine(k, v)
           c == lk_chomp(x)
           said == Said(k, 1, v)
<1>1. k \in Text /\ v \in Text /\ Len(k) = 1 /\ Len(v) = 1 /\ v[1] = d /\ k[1] = "Content-Length"
  BY WordsAssumption DEF ContentLength, Text
<1>2. k \in Keys /\ v \in Values
  <2>1. k # Empty /\ Bare(k) /\ \A i \in 1 .. Len(k) : k[i] # ":"
    BY <1>1 DEF Bare, LF, Empty
  <2>2. Bare(v)
    BY <1>1 DEF Bare, Blanks
  <2>3. QED
    BY <1>1, <2>1, <2>2 DEF Keys, Values
<1> HIDE DEF k, v
<1>3. /\ x \in Text /\ Len(x) = 5 /\ x[1] = k[1] /\ x[2] = ":" /\ x[3] = "sp" /\ x[4] = v[1]
  <2>1. /\ x \in Text /\ Len(x) = Len(k) + 3 + Len(v)
        /\ At(x, 0, k) /\ x[Len(k) + 1] = ":"
        /\ x[Len(k) + 2] = "sp" /\ At(x, Len(k) + 2, v)
    BY <1>1, HeaderLineAt
  <2>2. x[0 + 1] = k[1] /\ x[1 + 2 + 1] = v[1]
    BY <1>1, <2>1 DEF At
  <2>3. QED
    BY <1>1, <2>1, <2>2
<1>4. x[5] = LF
  BY <1>2, <1>3, HeaderLineIs DEF Whole
<1> HIDE DEF x
<1>5. /\ c \in Seq(Pieces) /\ At(x, 0, c) /\ Len(c) \in Nat
      /\ \A i \in 1 .. Len(x) : i > Len(c) => x[i] \in {LF, "cr"}
      /\ Len(c) # 0 => c[Len(c)] \notin {LF, "cr"}
  <2>1. x \in Seq(Pieces)
    BY <1>3 DEF Text
  <2>2. QED
    BY <2>1, ChompAt
<1> HIDE DEF c
<1>6. Len(c) <= 5 /\ \A i \in 1 .. Len(c) : x[i] = c[i]
  <2>1. \A i \in 1 .. Len(c) : 0 + i = i
    BY <1>5
  <2>2. QED
    BY <1>3, <1>5, <2>1 DEF At
<1>7. Len(c) = 4
  <2>1. Len(c) # 5
    <3>1. SUFFICES ASSUME Len(c) = 5 PROVE FALSE
      OBVIOUS
    <3>2. c[5] = LF
      BY <1>4, <1>6, <3>1
    <3>3. QED
      BY <1>5, <3>1, <3>2
  <2>2. ~(4 > Len(c))
    <3>1. x[4] \notin {LF, "cr"} /\ 4 \in 1 .. Len(x)
      BY <1>1, <1>3 DEF Blanks
    <3>2. QED
      BY <1>5, <3>1
  <2>3. \A n \in Nat : n <= 5 /\ n # 5 /\ ~(4 > n) => n = 4
    OBVIOUS
  <2>4. Len(c) \in Nat /\ Len(c) <= 5
    BY <1>5, <1>6
  <2>5. QED
    BY <2>1, <2>2, <2>3, <2>4
<1>8. /\ said \in Seq(Pieces) /\ Len(said) = 4 /\ said[1] = k[1] /\ said[2] = ":"
      /\ said[3] = "sp" /\ said[4] = v[1]
  <2>1. /\ said \in Text /\ Len(said) = Len(k) + 1 + 1 + Len(v)
        /\ At(said, 0, k) /\ said[Len(k) + 1] = ":"
        /\ \A i \in 1 .. 1 : said[Len(k) + 1 + i] = "sp"
        /\ At(said, Len(k) + 1 + 1, v)
    BY <1>1, SaidIs
  <2>2. said[0 + 1] = k[1] /\ said[1 + 1 + 1 + 1] = v[1] /\ said[1 + 1 + 1] = "sp"
    BY <1>1, <2>1 DEF At
  <2>3. QED
    BY <1>1, <2>1, <2>2 DEF Text
<1> HIDE DEF said
<1>9. c = said
  <2>1. \A i \in 1 .. 4 : c[i] = said[i]
    <3>1. c[1] = x[1] /\ c[2] = x[2] /\ c[3] = x[3] /\ c[4] = x[4]
      BY <1>6, <1>7
    <3>2. \A i \in 1 .. 4 : i = 1 \/ i = 2 \/ i = 3 \/ i = 4
      OBVIOUS
    <3>3. QED
      BY <1>3, <1>8, <3>1, <3>2
  <2>2. QED
    BY <1>5, <1>7, <1>8, <2>1, SeqEqual
<1>10. ":" \notin ToSet(v) /\ ~starts_with(v, Sp)
  <2>1. ":" \notin ToSet(v)
    BY <1>1 DEF ToSet, v
  <2>2. Sp \in Seq(Pieces) /\ Len(Sp) = 1 /\ Sp[1] = "sp" /\ v \in Seq(Pieces)
    BY <1>1, WordsAssumption DEF Sp, Text
  <2>3. SUFFICES ASSUME starts_with(v, Sp) PROVE FALSE
    BY <2>1
  <2>4. \A i \in 1 .. Len(Sp) : v[i] = Sp[i]
    BY <2>2, <2>3, PrefixIs
  <2>5. v[1] = "sp"
    BY <2>2, <2>4
  <2>6. QED
    BY <1>1, <2>5 DEF Blanks
<1>11. Says(x, k, v)
  <2>1. 1 \in 0 .. Len(x)
    BY <1>3
  <2>2. lk_chomp(x) = k \o <<":">> \o [n \in 1 .. 1 |-> "sp"] \o v
    BY <1>9 DEF c, said, Said
  <2>3. QED
    BY <1>10, <2>1, <2>2 DEF Says
<1>12. QED
  BY <1>2, <1>11 DEF k, v, x

-----------------------------------------------------------------------------
(***************************************************************************)
(* The head for an upstream: its lines are the first one, the server's own  *)
(* one if there is a body, and one for every header of the table.           *)
(***************************************************************************)
\* What lk_httprequest_finalize writes.
Written(first, own, t) ==
    first \o own \o FlattenSeq([n \in DOMAIN t |-> HeaderLine(t[n].k, t[n].v)])
          \o <<"cr", LF>>

\* e is where a line after the first, and before the empty one, ends.
Inner(o, first, e) == e \in LineEnds(o) /\ Len(first) < e /\ e < Len(o)

\* The lines of o are those of a head for an upstream: that of the nth header
\* ends at c[n], the server's own one at c[0].
LinesAre(o, first, own, t, c) ==
    /\ starts_with(o, first) /\ ends_with(o, <<LF, "cr", LF>>)
    /\ own # Empty => Inner(o, first, c[0]) /\ LineOf(o, c[0]) = own
    /\ \A n \in DOMAIN t :
          Inner(o, first, c[n]) /\ LineOf(o, c[n]) = HeaderLine(t[n].k, t[n].v)
    /\ \A e : Inner(o, first, e) =>
                 \/ own # Empty /\ e = c[0]
                 \/ \E n \in DOMAIN t : e = c[n]

\* What is written has those lines, and one empty line after them.
LEMMA WrittenLines ==
    ASSUME NEW first \in Text, Whole(first), NEW own \in Text, own = Empty \/ Whole(own),
           NEW t \in Seq([k : Keys, v : Values])
    PROVE  \E c : LinesAre(Written(first, own, t), first, own, t, c)
<1> DEFINE o == Written(first, own, t)
           P == first \o own
           ss == [n \in DOMAIN t |-> HeaderLine(t[n].k, t[n].v)]
           T == <<"cr", LF>>
           m == Len(first)
           l == Len(own)
<1>1. /\ first \in Seq(Pieces) /\ own \in Seq(Pieces) /\ m \in Nat /\ l \in Nat
      /\ T \in Text /\ Len(T) = 2 /\ T[1] = "cr" /\ T[2] = LF
      /\ Len(t) \in Nat /\ DOMAIN t = 1 .. Len(t)
  BY WordsAre DEF Text
<1>2. /\ ss \in Seq(Text) /\ Len(ss) = Len(t)
      /\ \A n \in 1 .. Len(ss) : ss[n] = HeaderLine(t[n].k, t[n].v) /\ Whole(ss[n])
  <2>1. \A n \in 1 .. Len(t) : t[n].k \in Keys /\ t[n].v \in Values
    <3>1. \A n \in 1 .. Len(t) : t[n] \in [k : Keys, v : Values]
      BY ElementOfSeq
    <3>2. \A r \in [k : Keys, v : Values] : r.k \in Keys /\ r.v \in Values
      OBVIOUS
    <3>3. QED
      BY <3>1, <3>2
  <2>2. \A k \in Keys, v \in Values : HeaderLine(k, v) \in Text /\ Whole(HeaderLine(k, v))
    <3>1. SUFFICES ASSUME NEW k \in Keys, NEW v \in Values
                   PROVE  HeaderLine(k, v) \in Text /\ Whole(HeaderLine(k, v))
      OBVIOUS
    <3>2. QED
      BY HeaderLineIs
  <2>3. QED
    BY <1>1, <2>1, <2>2
<1>3. o = P \o FlattenSeq(ss) \o T
  BY DEF Written
<1> HIDE DEF ss, T, m, l
<1>4. /\ P \in Seq(Pieces) /\ Len(P) = m + l /\ At(P, 0, first) /\ At(P, m, own)
  BY <1>1, AtConcat DEF m, l
<1>5. m > 0 /\ first[m] = LF
  BY DEF Whole, m
<1>6. Len(P) > 0 /\ P[Len(P)] = LF
  <2>1. Len(P) > 0
    BY <1>1, <1>4, <1>5
  <2>2. CASE own = Empty
    <3>1. l = 0
      BY <2>2 DEF l, Empty
    <3>2. Len(P) = m /\ m \in 1 .. Len(first) /\ 0 + m = m
      BY <1>1, <1>4, <1>5, <3>1 DEF m
    <3>3. P[m] = first[m]
      BY <1>4, <3>2 DEF At
    <3>4. QED
      BY <1>5, <2>1, <3>2, <3>3
  <2>3. CASE Whole(own)
    <3>1. l > 0 /\ own[l] = LF
      BY <2>3 DEF Whole, l
    <3>2. l \in 1 .. Len(own)
      BY <1>1, <3>1 DEF l
    <3>3. P[m + l] = own[l]
      BY <1>4, <3>2 DEF At
    <3>4. QED
      BY <1>4, <2>1, <3>1, <3>3
  <2>4. QED
    BY <2>2, <2>3
<1> HIDE DEF P, o
<1>7. \E c : Laid(o, P, ss, T, c)
  <2>1. P \in Text /\ Len(T) > 0
    BY <1>1, <1>4 DEF Text
  <2>2. ss \in Seq(Text) /\ T \in Text /\ \A n \in 1 .. Len(ss) : Whole(ss[n])
    BY <1>1, <1>2
  <2>3. P[Len(P)] = LF /\ Len(P) > 0
    BY <1>6
  <2>4. QED
    BY <1>3, <2>1, <2>2, <2>3, LinesFollow
<1>8. PICK c : /\ LinesEnd(o, ss, Len(P), c) /\ o \in Text /\ At(o, 0, P)
               /\ At(o, c[Len(ss)], T) /\ Len(o) = c[Len(ss)] + Len(T)
  BY <1>7 DEF Laid
<1> DEFINE z == c[Len(ss)]
<1>9. /\ c[0] = m + l /\ z \in Nat /\ m + l <= z /\ o[z] = LF /\ Len(o) = z + 2
      /\ o \in Seq(Pieces)
  <2>1. Len(ss) \in 0 .. Len(ss)
    BY <1>1, <1>2
  <2>2. QED
    BY <1>1, <1>4, <1>8, <2>1 DEF LinesEnd, Text
<1>10. \A n \in 1 .. Len(t) :
          /\ c[n] \in LineEnds(o) /\ m + l < c[n] /\ c[n] <= z /\ c[n] \in Nat
          /\ LineOf(o, c[n]) = HeaderLine(t[n].k, t[n].v)
  <2>1. \A n \in 1 .. Len(t) : n \in 0 .. Len(ss) /\ n \in 1 .. Len(ss)
    BY <1>1, <1>2
  <2>2. QED
    BY <1>2, <1>4, <1>8, <2>1 DEF LinesEnd
<1>11. o[z + 1] = "cr" /\ o[z + 2] = LF
  <2>1. 1 \in 1 .. Len(T) /\ 2 \in 1 .. Len(T)
    BY <1>1
  <2>2. QED
    BY <1>1, <1>8, <2>1 DEF At
<1> HIDE DEF z
<1>12. At(o, 0, first) /\ At(o, m, own)
  <2>1. At(o, 0 + 0, first)
    BY <1>1, <1>4, <1>8, <1>9, AtAt
  <2>2. At(o, 0 + m, own)
    BY <1>1, <1>4, <1>8, <1>9, AtAt
  <2>3. 0 + 0 = 0 /\ 0 + m = m
    BY <1>1
  <2>4. QED
    BY <2>1, <2>2, <2>3
<1>13. starts_with(o, first)
  BY <1>1, <1>9, <1>12, AtStart
<1>14. ends_with(o, <<LF, "cr", LF>>)
  <2> DEFINE e == <<LF, "cr", LF>>
  <2>1. /\ e \in Seq(Pieces) /\ Len(e) = 3 /\ e[1] = LF /\ e[2] = "cr" /\ e[3] = LF
    BY WordsAssumption
  <2>2. z >= 1
    BY <1>1, <1>5, <1>9
  <2>3. /\ Len(o) - 3 + 1 = z /\ Len(o) - 3 + 2 = z + 1 /\ Len(o) - 3 + 3 = z + 2
        /\ 3 <= Len(o)
    BY <1>9, <2>2
  <2> HIDE DEF e
  <2>4. \A i \in 1 .. 3 : i = 1 \/ i = 2 \/ i = 3
    OBVIOUS
  <2>5. \A i \in 1 .. 3 : o[Len(o) - 3 + i] = e[i]
    BY <1>9, <1>11, <2>1, <2>3, <2>4
  <2>6. ends_with(o, e)
    BY <1>9, <2>1, <2>3, <2>5, SuffixIs
  <2>7. QED
    BY <2>6 DEF e
<1>15. o[m] = LF
  <2>1. m \in 1 .. Len(first) /\ 0 + m = m
    BY <1>1, <1>5 DEF m
  <2>2. QED
    BY <1>5, <1>12, <2>1 DEF At
<1>16. own # Empty =>
          /\ c[0] \in LineEnds(o) /\ m < c[0] /\ LineOf(o, c[0]) = own
          /\ \A e \in LineEnds(o) : m < e /\ e <= c[0] => e = c[0]
  <2>1. SUFFICES ASSUME own # Empty
                 PROVE  /\ c[0] \in LineEnds(o) /\ m < c[0] /\ LineOf(o, c[0]) = own
                        /\ \A e \in LineEnds(o) : m < e /\ e <= c[0] => e = c[0]
    OBVIOUS
  <2>2. Whole(own)
    BY <2>1
  <2>3. /\ m + Len(own) \in LineEnds(o) /\ m < m + Len(own)
        /\ LineOf(o, m + Len(own)) = own
        /\ \A e \in LineEnds(o) : m < e /\ e <= m + Len(own) => e = m + Len(own)
    BY <1>1, <1>8, <1>12, <1>15, <2>2, LineHere
  <2>4. c[0] = m + Len(own)
    BY <1>9 DEF l
  <2>5. QED
    BY <2>3, <2>4
<1>17. own = Empty => l = 0
  BY DEF l, Empty
<1>18. \A e : Inner(o, first, e) =>
                 \/ own # Empty /\ e = c[0]
                 \/ \E n \in DOMAIN t : e = c[n]
  <2>1. SUFFICES ASSUME NEW e, Inner(o, first, e)
                 PROVE  (own # Empty /\ e = c[0]) \/ \E n \in DOMAIN t : e = c[n]
    OBVIOUS
  <2>2. e \in LineEnds(o) /\ m < e /\ e < Len(o)
    BY <2>1 DEF Inner, m
  <2>3. e \in Nat /\ o[e] = LF
    <3>1. e \in DOMAIN o /\ o[e] = LF
      BY <1>9, <2>2 DEF LineEnds
    <3>2. QED
      BY <1>9, <3>1
  <2>4. e <= z
    <3>1. SUFFICES ASSUME ~(e <= z) PROVE FALSE
      OBVIOUS
    <3>2. e = z + 1
      BY <1>9, <2>2, <2>3, <3>1
    <3>3. "cr" # LF
      BY DEF LF
    <3>4. QED
      BY <1>11, <2>3, <3>2, <3>3
  <2>5. CASE e <= m + l
    <3>1. own # Empty
      BY <1>1, <1>17, <2>2, <2>3, <2>5
    <3>2. e <= c[0]
      BY <1>9, <2>5
    <3>3. QED
      BY <1>16, <2>2, <3>1, <3>2
  <2>6. CASE m + l < e
    <3>1. \E n \in 1 .. Len(ss) : e = c[n]
      BY <1>4, <1>8, <2>2, <2>4, <2>6 DEF LinesEnd, z
    <3>2. QED
      BY <1>1, <1>2, <3>1
  <2>7. QED
    BY <1>1, <2>3, <2>5, <2>6
<1>19. own # Empty => Inner(o, first, c[0]) /\ LineOf(o, c[0]) = own
  <2>1. c[0] < Len(o)
    BY <1>1, <1>9
  <2>2. QED
    BY <1>16, <2>1 DEF Inner, m
<1>20. \A n \in DOMAIN t :
          Inner(o, first, c[n]) /\ LineOf(o, c[n]) = HeaderLine(t[n].k, t[n].v)
  <2>1. \A n \in 1 .. Len(t) : m < c[n] /\ c[n] < Len(o)
    BY <1>1, <1>9, <1>10
  <2>2. QED
    BY <1>1, <1>10, <2>1 DEF Inner, m
<1>21. LinesAre(o, first, own, t, c)
  BY <1>13, <1>14, <1>18, <1>19, <1>20 DEF LinesAre
<1>22. QED
  BY <1>21 DEF o

\* The table gives the value of each of its names.
LEMMA InTable ==
    ASSUME NEW t \in Seq([k : Keys, v : Values]), Unique(t)
    PROVE  /\ \A n \in DOMAIN t :
                 /\ t[n].k \in Keys /\ t[n].v \in Values
                 /\ lk_stringtable_get(t, t[n].k) # NULL
                 /\ OrEmpty(lk_stringtable_get(t, t[n].k)) = t[n].v
           /\ \A k : lk_stringtable_get(t, k) # NULL => \E n \in DOMAIN t : t[n].k = k
<1>1. Len(t) \in Nat /\ DOMAIN t = 1 .. Len(t)
  OBVIOUS
<1>2. NULL \notin Values
  <2>1. SUFFICES ASSUME NULL \in Values PROVE FALSE
    OBVIOUS
  <2>2. NULL \in Seq(Pieces) /\ Len(NULL) = 1 /\ NULL[1] = "(null)"
    BY <2>1 DEF Values, Text, NULL
  <2>3. NULL[1] \in Pieces
    <3>1. 1 \in 1 .. Len(NULL)
      BY <2>2
    <3>2. QED
      BY <2>2, <3>1, ElementOfSeq
  <2>4. QED
    BY <2>2, <2>3, PiecesAssumption
<1>3. ASSUME NEW n \in DOMAIN t
      PROVE  /\ t[n].k \in Keys /\ t[n].v \in Values
             /\ lk_stringtable_get(t, t[n].k) = t[n].v
  <2> DEFINE k == t[n].k
             p == Position(t, k)
  <2>1. /\ p \in 0 .. Len(t) /\ (p # 0 => t[p].k = k)
        /\ p = 0 => \A i \in 1 .. Len(t) : t[i].k # k
    BY <1>1, PositionIs
  <2>2. p # 0
    BY <1>1, <2>1
  <2>3. p = n
    <3>1. p \in DOMAIN t /\ t[p].k = t[n].k
      BY <1>1, <2>1, <2>2
    <3>2. QED
      BY <3>1 DEF Unique
  <2>4. t[n] \in [k : Keys, v : Values]
    BY <1>1, ElementOfSeq
  <2>5. lk_stringtable_get(t, k) = t[p].v
    BY <2>2 DEF lk_stringtable_get
  <2>6. QED
    BY <2>3, <2>4, <2>5
<1>4. ASSUME NEW k, lk_stringtable_get(t, k) # NULL
      PROVE  \E n \in DOMAIN t : t[n].k = k
  <2>1. Position(t, k) # 0
    BY <1>4 DEF lk_stringtable_get
  <2>2. Position(t, k) \in 0 .. Len(t) /\ t[Position(t, k)].k = k
    BY <1>1, <2>1, PositionIs
  <2>3. Position(t, k) \in DOMAIN t
    BY <1>1, <2>1, <2>2
  <2>4. QED
    BY <2>2, <2>3
<1>5. \A v \in Values : v # NULL /\ OrEmpty(v) = v
  BY <1>2 DEF OrEmpty
<1>6. QED
  BY <1>3, <1>4, <1>5

\* The Content-Length that the server adds for a body.
OwnLine(body) ==
    IF body = Empty THEN Empty ELSE HeaderLine(ContentLength, Number(Len(body)))

\* The length of a body is a value, and its line says so.
LEMMA NumberIs ==
    ASSUME NEW r \in Requests
    PROVE  /\ ContentLength \in Keys /\ Number(Len(r.body)) \in Values
           /\ Says(HeaderLine(ContentLength, Number(Len(r.body))), ContentLength,
                   Number(Len(r.body)))
<1> DEFINE d == ToString(Len(r.body))
<1>1. d \notin Blanks \cup {":"} /\ <<d>> \in Text
  BY RequestsAssumption DEF Number
<1>2. d \in Pieces
  <2>1. <<d>> \in Seq(Pieces) /\ 1 \in 1 .. Len(<<d>>) /\ <<d>>[1] = d
    BY <1>1 DEF Text
  <2>2. <<d>>[1] \in Pieces
    BY <2>1, ElementOfSeq
  <2>3. QED
    BY <2>1, <2>2
<1>3. Number(Len(r.body)) = <<d>>
  BY DEF Number
<1> HIDE DEF d
<1>4. QED
  BY <1>1, <1>2, <1>3, OwnLineSays

\* What an upstream is sent for a request.
LEMMA ForwardedText ==
    ASSUME NEW r \in Requests, WellFormed(r.head), IsRequestLine(r.head[1])
    PROVE  /\ lk_httprequest_finalize([Parsed(r.head) EXCEPT !.body = r.body]).head =
                 Written(AskedLine(r.head[1]), OwnLine(r.body), Headers(r.head))
           /\ AskedLine(r.head[1]) \in Text /\ Whole(AskedLine(r.head[1]))
           /\ OwnLine(r.body) \in Text
           /\ OwnLine(r.body) = Empty \/ Whole(OwnLine(r.body))
           /\ Headers(r.head) \in Seq([k : Keys, v : Values]) /\ Unique(Headers(r.head))
<1> DEFINE lines == r.head
           body == r.body
           parsed == Parsed(lines)
           q == [parsed EXCEPT !.body = body]
<1>1. /\ lines \in Seq(Text) /\ lines # << >> /\ body \in Text
      /\ \A n \in DOMAIN lines :
            /\ ends_with(lines[n], Newline)
            /\ \A i \in 1 .. Len(lines[n]) - 1 : lines[n][i] # LF
  BY RequestsAssumption DEF WellFormed
<1>2. parsed \in RequestType
  BY <1>1, ParsedIs
<1>3. /\ q.method = parsed.method /\ q.uri = parsed.uri /\ q.version = parsed.version
      /\ q.headers = Headers(lines) /\ q.body = body /\ "head" \in DOMAIN q
  <2>1. parsed.headers = Headers(lines)
    BY <1>1, ParsedHeaders
  <2> HIDE DEF parsed, lines, body
  <2>2. QED
    BY <1>2, <2>1 DEF RequestType
<1>4. \A n \in DOMAIN lines :
         /\ lines[n] \in Text /\ Whole(lines[n]) /\ lk_chomp(lines[n]) \in Text
         /\ Bare(lk_chomp(lines[n]))
  <2>1. SUFFICES ASSUME NEW n \in DOMAIN lines
                 PROVE  /\ lines[n] \in Text /\ Whole(lines[n])
                        /\ lk_chomp(lines[n]) \in Text /\ Bare(lk_chomp(lines[n]))
    OBVIOUS
  <2>2. lines[n] \in Text
    BY <1>1, ElementOfSeq
  <2>3. ends_with(lines[n], Newline) /\ \A i \in 1 .. Len(lines[n]) - 1 : lines[n][i] # LF
    BY <1>1
  <2>4. QED
    BY <2>2, <2>3, WholeLine DEF Bare
<1>5. 1 \in DOMAIN lines /\ DOMAIN lines = 1 .. Len(lines)
  BY <1>1
<1>6. AskedLine(lines[1]) \in Text /\ Whole(AskedLine(lines[1]))
  BY <1>4, <1>5, AskedWhole
<1>7. /\ OwnLine(body) \in Text
      /\ OwnLine(body) = Empty \/ Whole(OwnLine(body))
  <2>1. CASE body = Empty
    BY <2>1, WordsAre DEF OwnLine
  <2>2. CASE body # Empty
    <3>1. ContentLength \in Keys /\ Number(Len(body)) \in Values
      BY NumberIs
    <3>2. OwnLine(body) = HeaderLine(ContentLength, Number(Len(body)))
      BY <2>2 DEF OwnLine
    <3>3. QED
      BY <3>1, <3>2, HeaderLineIs
  <2>3. QED
    BY <2>1, <2>2
<1>8. Headers(lines) \in Seq([k : Keys, v : Values]) /\ Unique(Headers(lines))
  <2>1. \A n \in 2 .. Len(lines) :
           /\ Bare(lk_chomp(lines[n]))
           /\ \/ Single(lk_chomp(lines[n]), ":")
              \/ ToSet(lk_chomp(lines[n])) \subseteq {":"}
    <3>1. \A n \in 2 .. Len(lines) : n \in DOMAIN lines \ {1}
      BY <1>5
    <3>2. QED
      BY <1>4, <3>1 DEF WellFormed
  <2>2. lines \in Seq(Text) /\ lines # << >>
    BY <1>1
  <2> HIDE DEF lines
  <2>3. QED
    BY <2>1, <2>2, TableIs
<1>9. parsed.method \o Sp \o parsed.uri \o Sp \o VersionOf(parsed) \o Newline
         = AskedLine(lines[1])
  BY <1>1, AskedIs
<1> HIDE DEF parsed, lines, body, q
<1>10. lk_httprequest_finalize(q).head =
          q.method \o Sp \o q.uri \o Sp \o VersionOf(q) \o Newline
             \o OwnLine(q.body)
             \o FlattenSeq([n \in DOMAIN q.headers |->
                              HeaderLine(q.headers[n].k, q.headers[n].v)])
             \o <<"cr", LF>>
  BY <1>3 DEF lk_httprequest_finalize, HeadOf, VersionOf, OwnLine
<1>11. VersionOf(q) = VersionOf(parsed)
  BY <1>3 DEF VersionOf
<1>12. lk_httprequest_finalize(q).head =
          Written(AskedLine(lines[1]), OwnLine(body), Headers(lines))
  BY <1>3, <1>9, <1>10, <1>11 DEF Written
<1>13. QED
  BY <1>6, <1>7, <1>8, <1>12 DEF q, parsed, lines, body

\* What is forwarded is made of the request as it was read.
ForwardInv ==
    pc = "proxy" =>
       /\ raw \in Requests
       /\ req = lk_httprequest_finalize([Parsed(raw.head) EXCEPT !.body = raw.body])

\* Only Proxy forwards, and it forwards what has been read.
LEMMA NextForward ==
    ASSUME RouteInv, Next
    PROVE  ForwardInv'
<1>1. SUFFICES ASSUME pc' = "proxy" PROVE ForwardInv'
  BY DEF ForwardInv
<1>2. Proxy
  <2>1. ~ReadRequest /\ ~SessionEnds /\ ~ServeCgi /\ ~ToFiles /\ ~CgiEnds
    BY <1>1, ErrorSent DEF ReadRequest, SessionEnds, ServeCgi, ToFiles, CgiEnds
  <2>2. ~NoHost /\ ~NoHomedir /\ ~OtherMethod /\ ~CgiFails
    BY <1>1, ErrorSent, RespondsSent DEF NoHost, NoHomedir, OtherMethod, CgiFails
  <2>3. ~GetFile /\ ~CgiEmptyLine /\ ~CgiNoEmptyLine
    BY <1>1, RespondsSent DEF GetFile, CgiEmptyLine, CgiNoEmptyLine
  <2>4. ~CgiHeaderLine
    BY <1>1 DEF CgiHeaderLine
  <2>5. QED
    BY <2>1, <2>2, <2>3, <2>4 DEF Next
<1>3. raw' = raw /\ pc = "request" /\ req' = lk_httprequest_finalize(req)
  BY <1>1, <1>2, ErrorSent DEF Proxy, Routed
<1>4. raw \in Requests /\ req = [Parsed(raw.head) EXCEPT !.body = raw.body]
  BY <1>3 DEF RouteInv
<1>5. QED
  BY <1>3, <1>4 DEF ForwardInv

\* The value of a name in the table is what the lines say of the name.
LEMMA TableSays ==
    ASSUME NEW lines \in Seq(Text), lines # << >>, NEW k \in Keys, NEW s \in Text,
           \A n \in 2 .. Len(lines) :
              /\ Bare(lk_chomp(lines[n]))
              /\ \/ Single(lk_chomp(lines[n]), ":")
                 \/ ToSet(lk_chomp(lines[n])) \subseteq {":"},
           lk_stringtable_get(Headers(lines), k) # NULL,
           OrEmpty(lk_stringtable_get(Headers(lines), k)) \in Text,
           \A n \in About(lines, k) : Says(lines[n], k, s)
    PROVE  OrEmpty(lk_stringtable_get(Headers(lines), k)) = s
<1> DEFINE v == OrEmpty(lk_stringtable_get(Headers(lines), k))
           about == About(lines, k)
<1>1. k # Empty /\ k \in Text
  BY DEF Keys
<1>2. LastOf(lines, k, v) /\ about # {}
  BY <1>1, LastSays
<1>3. v \in Text
  OBVIOUS
<1> HIDE DEF v
<1>4. PICK n \in about : Says(lines[n], k, v) \/ (v = Empty /\ lk_chomp(lines[n]) = k)
  BY <1>2 DEF LastOf
<1>5. lines[n] \in Text
  <2>1. n \in 1 .. Len(lines)
    BY DEF About
  <2>2. QED
    BY <2>1, ElementOfSeq
<1>6. Says(lines[n], k, s)
  OBVIOUS
<1>7. lk_chomp(lines[n]) # k
  BY <1>1, <1>5, <1>6, SaysMore
<1>8. v = s
  BY <1>1, <1>3, <1>4, <1>5, <1>6, <1>7, SaysOnce
<1>9. QED
  BY <1>8 DEF v

\* Line by line, what is forwarded is the request that was read.
LEMMA ForwardedRight ==
    ASSUME ForwardInv
    PROVE  ForwardedAsRead
<1>1. SUFFICES ASSUME pc = "proxy", WellFormed(raw.head), IsRequestLine(raw.head[1])
               PROVE  ForwardedAsRead
  BY DEF ForwardedAsRead
<1> DEFINE o == req.head
           first == AskedLine(raw.head[1])
           own == OwnLine(raw.body)
           t == Headers(raw.head)
           line(e) == LineOf(o, e)
           lines == {e \in LineEnds(o) : Len(first) < e /\ e < Len(o)}
           named(k) == {e \in lines : NameOf(line(e)) = k}
           names == {NameOf(raw.head[n]) : n \in HeaderLines} \ {Empty}
           number == Number(Len(raw.body))
<1>2. raw \in Requests
  BY <1>1 DEF ForwardInv
<1>3. raw.head \in Seq(Text) /\ raw.head # << >>
  BY <1>1, <1>2, RequestsAssumption DEF WellFormed
<1>4. /\ o = Written(first, own, t)
      /\ first \in Text /\ Whole(first) /\ own \in Text /\ (own = Empty \/ Whole(own))
      /\ t \in Seq([k : Keys, v : Values]) /\ Unique(t)
  BY <1>1, <1>2, ForwardedText DEF ForwardInv
<1>5. \E c : LinesAre(o, first, own, t, c)
  <2> HIDE DEF o, first, own, t
  <2>1. \E c : LinesAre(Written(first, own, t), first, own, t, c)
    BY <1>4, WrittenLines
  <2>2. QED
    BY <1>4, <2>1
<1>6. PICK c : LinesAre(o, first, own, t, c)
  BY <1>5
<1>7. /\ \A n \in DOMAIN t :
            /\ t[n].k \in Keys /\ t[n].v \in Values
            /\ lk_stringtable_get(t, t[n].k) # NULL
            /\ OrEmpty(lk_stringtable_get(t, t[n].k)) = t[n].v
      /\ \A k : lk_stringtable_get(t, k) # NULL => \E n \in DOMAIN t : t[n].k = k
  BY <1>4, InTable
<1>8. /\ ContentLength \in Keys /\ number \in Values
      /\ Says(HeaderLine(ContentLength, number), ContentLength, number)
  BY <1>2, NumberIs
<1>9. own = IF raw.body = Empty THEN Empty ELSE HeaderLine(ContentLength, number)
  BY DEF OwnLine
<1>10. \A k \in Keys, v \in Values :
          LET x == HeaderLine(k, v) IN
          ~is_empty_line(x) /\ NameOf(x) = k /\ SubSeq(x, Len(k) + 3, Len(x) - 1) = v
  <2>1. SUFFICES ASSUME NEW k \in Keys, NEW v \in Values
                 PROVE  /\ ~is_empty_line(HeaderLine(k, v)) /\ NameOf(HeaderLine(k, v)) = k
                        /\ SubSeq(HeaderLine(k, v), Len(k) + 3, Len(HeaderLine(k, v)) - 1) = v
    OBVIOUS
  <2>2. QED
    BY HeaderLineIs
<1>11. \A k \in Keys :
          /\ Carries(k, OrEmpty(lk_stringtable_get(t, k)))
          /\ lk_stringtable_get(t, k) # NULL <=> k \in names
  <2>1. SUFFICES ASSUME NEW k \in Keys
                 PROVE  /\ Carries(k, OrEmpty(lk_stringtable_get(t, k)))
                        /\ lk_stringtable_get(t, k) # NULL <=> k \in names
    OBVIOUS
  <2>2. k # Empty
    BY DEF Keys
  <2>3. QED
    BY <1>1, <1>3, <2>2, HeaderCarried
<1>12. \A k \in names : lk_stringtable_get(t, k) # NULL
  <2>1. SUFFICES ASSUME NEW k \in names PROVE lk_stringtable_get(t, k) # NULL
    OBVIOUS
  <2>2. k # Empty /\ \E n \in HeaderLines : NameOf(raw.head[n]) = k
    OBVIOUS
  <2>3. QED
    BY <1>1, <1>3, <2>2, HeaderCarried
<1>13. own # Empty => c[0] \in lines /\ line(c[0]) = own
  BY <1>6 DEF LinesAre, Inner
<1>14. \A n \in DOMAIN t : c[n] \in lines /\ line(c[n]) = HeaderLine(t[n].k, t[n].v)
  BY <1>6 DEF LinesAre, Inner
<1>15. \A e \in lines : (own # Empty /\ e = c[0]) \/ \E n \in DOMAIN t : e = c[n]
  BY <1>6 DEF LinesAre, Inner
<1>16. starts_with(o, first) /\ ends_with(o, <<LF, "cr", LF>>)
  BY <1>6 DEF LinesAre
<1>17. TrueLength /\ lk_stringtable_get(t, ContentLength) # NULL =>
          OrEmpty(lk_stringtable_get(t, ContentLength)) = number
  <2>1. SUFFICES ASSUME TrueLength, lk_stringtable_get(t, ContentLength) # NULL
                 PROVE  OrEmpty(lk_stringtable_get(t, ContentLength)) = number
    OBVIOUS
  <2>2. \A n \in About(raw.head, ContentLength) : Says(raw.head[n], ContentLength, number)
    <3>1. About(raw.head, ContentLength)
             = {n \in HeaderLines : NameOf(raw.head[n]) = ContentLength}
      BY <1>3 DEF About, HeaderLines
    <3>2. QED
      BY <2>1, <3>1 DEF TrueLength
  <2>3. OrEmpty(lk_stringtable_get(t, ContentLength)) \in Text
    BY <1>7, <2>1 DEF Values
  <2>4. number \in Text
    BY <1>8 DEF Values
  <2>5. \A n \in 2 .. Len(raw.head) :
           /\ Bare(lk_chomp(raw.head[n]))
           /\ \/ Single(lk_chomp(raw.head[n]), ":")
              \/ ToSet(lk_chomp(raw.head[n])) \subseteq {":"}
    <3>1. SUFFICES ASSUME NEW n \in 2 .. Len(raw.head)
                   PROVE  /\ Bare(lk_chomp(raw.head[n]))
                          /\ \/ Single(lk_chomp(raw.head[n]), ":")
                             \/ ToSet(lk_chomp(raw.head[n])) \subseteq {":"}
      OBVIOUS
    <3>2. n \in DOMAIN raw.head \ {1} /\ n \in 1 .. Len(raw.head)
      BY <1>3
    <3>3. raw.head[n] \in Text
      BY <1>3, <3>2, ElementOfSeq
    <3>4. /\ ends_with(raw.head[n], Newline)
          /\ \A i \in 1 .. Len(raw.head[n]) - 1 : raw.head[n][i] # LF
      BY <1>2, <3>2, RequestsAssumption
    <3>5. Bare(lk_chomp(raw.head[n]))
      BY <3>3, <3>4, WholeLine DEF Bare
    <3>6. QED
      BY <1>1, <3>2, <3>5 DEF WellFormed
  <2> HIDE DEF number
  <2>6. QED
    BY <1>3, <1>8, <2>1, <2>2, <2>3, <2>4, <2>5, TableSays
<1> HIDE DEF o, first, own, t, line, lines, names, number
<1>18. \A e \in lines : ~is_empty_line(line(e)) /\ NameOf(line(e)) \in names \cup {ContentLength}
  <2>1. SUFFICES ASSUME NEW e \in lines
                 PROVE  ~is_empty_line(line(e)) /\ NameOf(line(e)) \in names \cup {ContentLength}
    OBVIOUS
  <2>2. CASE own # Empty /\ e = c[0]
    <3>1. line(e) = HeaderLine(ContentLength, number)
      BY <1>9, <1>13, <2>2
    <3>2. QED
      BY <1>8, <1>10, <3>1
  <2>3. CASE \E n \in DOMAIN t : e = c[n]
    <3>1. PICK n \in DOMAIN t : e = c[n]
      BY <2>3
    <3>2. line(e) = HeaderLine(t[n].k, t[n].v) /\ t[n].k \in Keys /\ t[n].v \in Values
      BY <1>7, <1>14, <3>1
    <3>3. t[n].k \in names
      BY <1>7, <1>11, <3>2
    <3>4. QED
      BY <1>10, <3>2, <3>3
  <2>4. QED
    BY <1>15, <2>2, <2>3
<1>19. ASSUME NEW k \in names \ {ContentLength}
       PROVE  /\ Cardinality(named(k)) = 1
              /\ \A e \in named(k) :
                    Carries(k, SubSeq(line(e), Len(k) + 3, Len(line(e)) - 1))
  <2>1. PICK n \in DOMAIN t : t[n].k = k
    BY <1>7, <1>12
  <2>2. k \in Keys /\ t[n].v \in Values /\ OrEmpty(lk_stringtable_get(t, k)) = t[n].v
    BY <1>7, <2>1
  <2>3. c[n] \in lines /\ line(c[n]) = HeaderLine(k, t[n].v)
    BY <1>14, <2>1
  <2>4. c[n] \in named(k)
    BY <1>10, <2>2, <2>3
  <2>5. ASSUME NEW e \in named(k) PROVE e = c[n]
    <3>1. e \in lines /\ NameOf(line(e)) = k
      OBVIOUS
    <3>2. CASE own # Empty /\ e = c[0]
      <4>1. line(e) = HeaderLine(ContentLength, number)
        BY <1>9, <1>13, <3>2
      <4>2. NameOf(line(e)) = ContentLength
        BY <1>8, <1>10, <4>1
      <4>3. QED
        BY <3>1, <4>2
    <3>3. CASE \E m \in DOMAIN t : e = c[m]
      <4>1. PICK m \in DOMAIN t : e = c[m]
        BY <3>3
      <4>2. line(e) = HeaderLine(t[m].k, t[m].v) /\ t[m].k \in Keys /\ t[m].v \in Values
        BY <1>7, <1>14, <4>1
      <4>3. t[m].k = t[n].k
        BY <1>10, <2>1, <3>1, <4>2
      <4>4. m = n
        BY <1>4, <4>3 DEF Unique
      <4>5. QED
        BY <4>1, <4>4
    <3>4. QED
      BY <1>15, <3>1, <3>2, <3>3
  <2>6. named(k) = {c[n]}
    BY <2>4, <2>5
  <2>7. Cardinality(named(k)) = 1
    BY <2>6, FS_Singleton
  <2>8. Carries(k, t[n].v)
    BY <1>11, <2>2
  <2>9. SubSeq(line(c[n]), Len(k) + 3, Len(line(c[n])) - 1) = t[n].v
    BY <1>10, <2>2, <2>3
  <2>10. QED
    BY <2>5, <2>7, <2>8, <2>9
<1>20. raw.body # Empty => named(ContentLength) # {}
  <2>1. SUFFICES ASSUME raw.body # Empty PROVE named(ContentLength) # {}
    OBVIOUS
  <2>2. own = HeaderLine(ContentLength, number)
    BY <1>9, <2>1
  <2>3. NameOf(own) = ContentLength /\ own # Empty
    <3>1. ~is_empty_line(own) /\ NameOf(own) = ContentLength
      BY <1>8, <1>10, <2>2
    <3>2. is_empty_line(Empty)
      BY DEF is_empty_line, ToSet, Empty
    <3>3. QED
      BY <3>1, <3>2
  <2>4. c[0] \in named(ContentLength)
    BY <1>13, <2>3
  <2>5. QED
    BY <2>4
<1>21. ASSUME TrueLength, NEW e \in named(ContentLength)
       PROVE  Says(line(e), ContentLength, number)
  <2>1. e \in lines /\ NameOf(line(e)) = ContentLength
    OBVIOUS
  <2>2. CASE own # Empty /\ e = c[0]
    BY <1>8, <1>9, <1>13, <2>2
  <2>3. CASE \E m \in DOMAIN t : e = c[m]
    <3>1. PICK m \in DOMAIN t : e = c[m]
      BY <2>3
    <3>2. line(e) = HeaderLine(t[m].k, t[m].v) /\ t[m].k \in Keys /\ t[m].v \in Values
      BY <1>7, <1>14, <3>1
    <3>3. t[m].k = ContentLength
      BY <1>10, <2>1, <3>2
    <3>4. t[m].v = number
      BY <1>7, <1>17, <1>21, <3>3
    <3>5. QED
      BY <1>8, <3>2, <3>3, <3>4
  <2>4. QED
    BY <1>15, <2>1, <2>2, <2>3
<1>22. /\ starts_with(req.head, first)
       /\ ends_with(req.head, <<LF, "cr", LF>>)
       /\ \A e \in lines :
             ~is_empty_line(line(e)) /\ NameOf(line(e)) \in names \cup {ContentLength}
       /\ \A k \in names \ {ContentLength} :
             /\ Cardinality(named(k)) = 1
             /\ \A e \in named(k) :
                   Carries(k, SubSeq(line(e), Len(k) + 3, Len(line(e)) - 1))
       /\ raw.body # Empty => named(ContentLength) # {}
       /\ TrueLength => \A e \in named(ContentLength) :
                           Says(line(e), ContentLength, Number(Len(raw.body)))
  BY <1>16, <1>18, <1>19, <1>20, <1>21 DEF o, number
<1>23. QED
  BY <1>22 DEF ForwardedAsRead, o, first, line, lines, names, AskedLine

\* An upstream gets the request the client made.
THEOREM ForwardedCorrect == Spec => []ForwardedAsRead
<1>1. Init => TypeOK /\ RouteInv /\ ForwardInv
  <2>1. Init => ForwardInv
    BY DEF Init, ForwardInv
  <2>2. QED
    BY <2>1, InitTyped
<1>2. TypeOK /\ RouteInv /\ ForwardInv /\ [Next]_vars => (TypeOK /\ RouteInv /\ ForwardInv)'
  <2>1. ForwardInv /\ UNCHANGED vars => ForwardInv'
    BY SameState DEF ForwardInv
  <2>2. QED
    BY <2>1, NextForward, NextTyped
<1>3. ForwardInv => ForwardedAsRead
  BY ForwardedRight
<1>4. QED
  BY <1>1, <1>2, <1>3, PTL DEF Spec

-----------------------------------------------------------------------------
(***************************************************************************)
(* The head of a reply.                                                     *)
(***************************************************************************)

\* Tables whose headers make lines of their own.
Tables == Seq([k : Keys, v : Values])

\* What the server writes into the table and the head itself.
LEMMA OwnHeaders ==
    /\ ContentType \in Keys /\ ContentLength \in Keys /\ ContentType # ContentLength
    /\ PlainText \in Values /\ Html \in Values
    /\ \A n \in 0 .. MaxLength : Number(n) \in Values
<1>1. ContentType \in Keys /\ ContentType # ContentLength
  BY WordsAre DEF ContentType, ContentLength, Keys, Bare, LF, Empty
<1>2. PlainText \in Values /\ Html \in Values
  BY WordsAre DEF PlainText, Html, Values, Bare, LF
<1>3. ContentLength \in Keys
  BY WordsAre DEF ContentLength, Keys, Bare, LF, Empty
<1>4. ASSUME NEW n \in 0 .. MaxLength
      PROVE  Number(n) \in Values
  <2> DEFINE d == ToString(n)
  <2>1. d \notin Blanks \cup {":"} /\ <<d>> \in Text
    BY LengthAssumption DEF Number
  <2>2. Number(n) = <<d>>
    BY DEF Number
  <2> HIDE DEF d
  <2>3. d # LF
    BY <2>1 DEF Blanks
  <2>4. QED
    BY <2>1, <2>2, <2>3 DEF Values, Bare
<1>5. QED
  BY <1>1, <1>2, <1>3, <1>4

\* A type set by the server is a whole line and says nothing of the length.
LEMMA TypeAdded ==
    ASSUME NEW t \in Tables, NEW type \in Values
    PROVE  /\ lk_stringtable_set(t, ContentType, type) \in Tables
           /\ lk_stringtable_get(lk_stringtable_set(t, ContentType, type), ContentLength)
                 = lk_stringtable_get(t, ContentLength)
<1>1. t \in Seq([k : Keys, v : Values]) /\ ContentType \in Keys
  BY OwnHeaders DEF Tables
<1>2. lk_stringtable_set(t, ContentType, type) \in Seq([k : Keys, v : Values])
  BY <1>1, SetKeepsUnique
<1>3. lk_stringtable_get(lk_stringtable_set(t, ContentType, type), ContentLength) =
         IF ContentLength = ContentType THEN type
         ELSE lk_stringtable_get(t, ContentLength)
  BY <1>1, GetAfterSet
<1>4. QED
  BY <1>2, <1>3, OwnHeaders DEF Tables

\* No newline is left in a line of the output of a program.
LEMMA LineBare ==
    ASSUME output \in Text, cur \in 0 .. Len(output), cur < Len(output)
    PROVE  cgiline \in Text /\ Bare(cgiline)
<1> DEFINE line == SubSeq(output, cur + 1, LineEnd)
<1>1. output \in Seq(Pieces) /\ Len(output) \in Nat /\ cur \in Nat
      /\ DOMAIN output = 1 .. Len(output)
  BY DEF Text
<1>2. PICK end \in LineEnds(output) :
         cur < end /\ \A d \in LineEnds(output) : cur < d => end <= d
  BY NextLine
<1>3. end \in Nat
  BY <1>1, <1>2 DEF LineEnds
<1>4. LineEnd \in cur + 1 .. Len(output) /\ LineEnd <= end
  <2>1. LineEnd = Least(end, cur + LineSize - 1) /\ LineEnd \in cur + 1 .. Len(output)
    BY <1>2, LineEndIs
  <2>2. Least(end, cur + LineSize - 1) <= end
    BY <1>1, <1>3, LineSizeAssumption DEF Least
  <2>3. QED
    BY <2>1, <2>2
<1>5. LineEnd \in Nat /\ cur + 1 \in Nat \ {0} /\ LineEnd \in 0 .. Len(output)
      /\ cur + 1 <= LineEnd
  BY <1>1, <1>4
<1>6. /\ line \in Seq(Pieces)
      /\ Len(line) = IF cur + 1 <= LineEnd THEN LineEnd - (cur + 1) + 1 ELSE 0
      /\ \A i \in 1 .. LineEnd - (cur + 1) + 1 : line[i] = output[cur + 1 + i - 1]
  BY <1>1, <1>5, PartIs
<1>7. cgiline = lk_chomp(line)
  BY DEF cgiline
<1>8. cgiline \in Text
  BY LineIs
<1>9. \A i \in 1 .. Len(line) : line[i] = LF => i = Len(line)
  <2> DEFINE e == LineEnd
  <2> HIDE DEF e, line
  <2>0. e \in Nat /\ e <= end /\ e <= Len(output) /\ cur + 1 <= e
    BY <1>4, <1>5 DEF e
  <2>1. Len(line) = e - cur /\ \A i \in 1 .. e - cur : line[i] = output[cur + i]
    <3>1. \A i \in 1 .. e - cur : cur + 1 + i - 1 = cur + i
      BY <1>1, <2>0
    <3>2. e - (cur + 1) + 1 = e - cur
      BY <1>1, <2>0
    <3>3. QED
      BY <1>5, <1>6, <3>1, <3>2 DEF e
  <2>2. ASSUME NEW i \in 1 .. Len(line), line[i] = LF
        PROVE  i = Len(line)
    <3>1. i \in 1 .. e - cur /\ i \in Nat
      BY <2>1, <2>2
    <3>2. cur + i \in 1 .. Len(output) /\ output[cur + i] = LF /\ cur < cur + i
      BY <1>1, <2>0, <2>1, <2>2, <3>1
    <3>3. cur + i \in LineEnds(output)
      <4> DEFINE j == cur + i
      <4>1. j \in DOMAIN output /\ output[j] = LF
        BY <1>1, <3>2
      <4> HIDE DEF j
      <4>2. j \in LineEnds(output)
        BY <4>1 DEF LineEnds
      <4>3. QED
        BY <4>2 DEF j
    <3>4. end <= cur + i
      BY <1>2, <3>2, <3>3
    <3>5. QED
      BY <1>1, <1>3, <2>0, <2>1, <3>1, <3>4
  <2>3. QED
    BY <2>2
<1> HIDE DEF line
<1>10. PICK n \in 0 .. Len(line) :
          /\ lk_chomp(line) = SubSeq(line, 1, n)
          /\ n # 0 => line[n] \notin {LF, "cr"}
  BY <1>6, ChompIs
<1>11. Len(line) \in Nat /\ n \in Nat /\ n <= Len(line)
  BY <1>6, <1>10
<1>12. /\ Len(SubSeq(line, 1, n)) = n
       /\ \A i \in 1 .. n : SubSeq(line, 1, n)[i] = line[i]
  <2>1. 1 \in Nat \ {0} /\ n \in 0 .. Len(line)
    BY <1>10
  <2>2. /\ Len(SubSeq(line, 1, n)) = IF 1 <= n THEN n - 1 + 1 ELSE 0
        /\ \A i \in 1 .. n - 1 + 1 : SubSeq(line, 1, n)[i] = line[1 + i - 1]
    BY <1>6, <2>1, PartIs
  <2>3. n - 1 + 1 = n /\ \A i \in 1 .. n : 1 + i - 1 = i
    BY <1>11
  <2>4. (IF 1 <= n THEN n ELSE 0) = n
    BY <1>11
  <2>5. QED
    BY <2>2, <2>3, <2>4
<1>13. \A i \in 1 .. n : line[i] # LF
  <2>1. ASSUME NEW i \in 1 .. n, line[i] = LF
        PROVE  FALSE
    <3>1. i \in 1 .. Len(line)
      BY <1>11
    <3>2. i = Len(line)
      BY <1>9, <2>1, <3>1
    <3>3. i = n /\ n # 0
      BY <1>11, <3>2
    <3>4. QED
      BY <1>10, <2>1, <3>3
  <2>2. QED
    BY <2>1
<1>14. Bare(cgiline)
  BY <1>7, <1>10, <1>12, <1>13 DEF Bare
<1>15. QED
  BY <1>8, <1>14

\* A header of a program is a line of its own.
LEMMA CgiHeaderAdded ==
    ASSUME NEW r \in ResponseType, r.headers \in Tables, NEW s \in Text, Bare(s)
    PROVE  parse_cgi_header_line(r, s).headers \in Tables
<1> DEFINE h == Header(s)
           k == h[1]
           v == h[2]
           st == lk_stringtable_set(r.headers, k, v)
           with == lk_httpresponse_add_header(r, k, v)
           status == IF v # Empty /\ v[1] \in DOMAIN Numbers THEN Numbers[v[1]] ELSE 0
           q == parse_cgi_header_line(r, s)
<1>1. CASE h = << >>
  BY <1>1 DEF parse_cgi_header_line
<1>2. CASE h # << >>
  <2>1. lk_chomp(s) \in Seq(Pieces \ {LF})
    <3>1. s \in Seq(Pieces \ {LF})
      BY BareIs
    <3>2. QED
      BY <3>1, ChompOf
  <2>2. k \in Seq(Pieces \ {LF}) /\ v \in Seq(Pieces \ {LF})
    BY <1>2, <2>1, HeaderIn
  <2>3. k # Empty /\ \A i \in 1 .. Len(k) : k[i] # ":"
    <3> DEFINE c == lk_chomp(s)
               a == Token(c, ":")
               b == Skip(Token(AfterToken(c, ":"), ":"), {"sp"})
               rest == Skip(c, {":"})
    <3>1. h = IF a = Empty THEN << >> ELSE <<a, b>>
      BY DEF Header
    <3>2. rest \in Seq(Pieces \ {LF})
      BY <2>1, SkipOf
    <3>3. a = UpTo(rest, ":")
      BY DEF Token
    <3> HIDE DEF a, b, rest, h
    <3>4. \A i \in 1 .. Len(a) : a[i] # ":"
      BY <3>2, <3>3, UpToAt
    <3>5. a # Empty /\ h = <<a, b>>
      BY <1>2, <3>1
    <3>6. k = a
      BY <3>5
    <3>7. QED
      BY <3>4, <3>5, <3>6
  <2>4. k \in Keys /\ v \in Values
    <3> HIDE DEF h
    <3>1. k \in Text /\ Bare(k) /\ v \in Text /\ Bare(v)
      BY <2>2, BareIs
    <3>2. QED
      BY <2>3, <3>1 DEF Keys, Values
  <2>5. q.headers = st
    <3>1. with = [r EXCEPT !.headers = st]
      BY DEF lk_httpresponse_add_header
    <3>2. q = IF k = <<"Status">> THEN [with EXCEPT !.status = status] ELSE with
      BY <1>2 DEF parse_cgi_header_line
    <3> HIDE DEF st, with, q, status
    <3>3. with.headers = st /\ DOMAIN with = Fields
      BY <3>1 DEF ResponseType, Fields
    <3>4. QED
      BY <3>2, <3>3 DEF Fields
  <2> HIDE DEF k, v, q
  <2>6. st \in Tables
    <3>1. r.headers \in Seq([k : Keys, v : Values])
      BY DEF Tables
    <3>2. QED
      BY <2>4, <3>1, SetKeepsUnique DEF Tables
  <2>7. QED
    BY <2>5, <2>6 DEF q
<1>3. QED
  BY <1>1, <1>2

\* A reply has the server's own line, those of its table and the empty one; each of
\* the table makes a line of its own, and none is about the length unless the output
\* of a program is.
ReplyInv ==
    /\ resp.headers \in Tables
    /\ pc = "sent" =>
          /\ \E n \in 0 .. MaxLength : resp.head = HeadLines(resp.headers, n)
          /\ "Content-Length" \notin ToSet(output) =>
                lk_stringtable_get(resp.headers, ContentLength) = NULL

LEMMA NewTable ==
    /\ lk_httpresponse_new.headers \in Tables
    /\ lk_stringtable_get(lk_httpresponse_new.headers, ContentLength) = NULL
    /\ lk_httpresponse_new.body = Empty
<1>1. lk_httpresponse_new.headers = << >> /\ lk_httpresponse_new.body = Empty
  BY DEF lk_httpresponse_new
<1>2. << >> \in Tables
  BY EmptySeq DEF Tables
<1>3. lk_stringtable_get(<< >>, ContentLength) = NULL
  BY NothingInNone
<1>4. QED
  BY <1>1, <1>2, <1>3

LEMMA Replies ==
    ASSUME NEW r \in ResponseType, r.headers \in Tables, process_response(r),
           \/ lk_stringtable_get(r.headers, ContentLength) = NULL
           \/ "Content-Length" \in ToSet(output')
    PROVE  ReplyInv'
<1>1. resp'.headers = r.headers /\ resp'.head = HeadLines(r.headers, Len(r.body))
  BY RespondTyped
<1>2. Len(r.body) \in 0 .. MaxLength
  <2>1. r.body \in Bodies
    BY DEF ResponseType
  <2>2. r.body \in Text /\ Len(r.body) <= MaxLength
    BY <2>1, BodiesAre
  <2>3. QED
    BY <2>2, LengthAssumption DEF Text
<1>3. QED
  BY <1>1, <1>2 DEF ReplyInv

\* A message of the server's own, whose type is not yet set.
LEMMA MessageReplies ==
    ASSUME NEW r \in ResponseType, r.body = Empty, r.headers \in Tables,
           lk_stringtable_get(r.headers, ContentLength) = NULL,
           NEW status \in Nat, NEW type \in Values,
           process_response(Message(r, status, type))
    PROVE  ReplyInv'
<1> DEFINE m == Message(r, status, type)
<1>1. type \in Text
  BY DEF Values
<1>2. m \in ResponseType /\ m.headers = lk_stringtable_set(r.headers, ContentType, type)
  BY <1>1, MessageTyped
<1>3. m.headers \in Tables /\ lk_stringtable_get(m.headers, ContentLength) = NULL
  BY <1>2, TypeAdded
<1> HIDE DEF m
<1>4. process_response(m)
  BY DEF m
<1>5. QED
  BY <1>2, <1>3, <1>4, Replies

LEMMA ErrorReplies ==
    ASSUME TypeOK, resp = lk_httpresponse_new, NEW status \in Nat,
           process_error_response(status)
    PROVE  ReplyInv'
<1>1. /\ resp \in ResponseType /\ resp.body = Empty /\ resp.headers \in Tables
      /\ lk_stringtable_get(resp.headers, ContentLength) = NULL
  BY NewTable, TypesAre
<1>2. process_response(Message(resp, status, PlainText)) /\ PlainText \in Values
  BY OwnHeaders DEF process_error_response
<1>3. QED
  BY <1>1, <1>2, MessageReplies

LEMMA NoReply ==
    ASSUME pc' # "sent", resp'.headers \in Tables
    PROVE  ReplyInv'
BY DEF ReplyInv

LEMMA FileReplies ==
    ASSUME TypeOK, RouteInv, GetFile \/ OtherMethod
    PROVE  ReplyInv'
<1>1. pc = "files" /\ resp = lk_httpresponse_new
  BY DEF GetFile, OtherMethod, RouteInv
<1>2. /\ resp \in ResponseType /\ resp.body = Empty /\ resp.headers \in Tables
      /\ lk_stringtable_get(resp.headers, ContentLength) = NULL
  BY <1>1, NewTable, TypesAre
<1>3. CASE GetFile
  <2> DEFINE w == WithFile(resp)
             r == Typed(w)
  <2>1. process_response(IF FileOf(req.path) = Empty THEN Message(r, 404, PlainText)
                                                     ELSE r)
    BY <1>3 DEF GetFile
  <2>2. /\ w \in ResponseType /\ r \in ResponseType /\ w.headers = resp.headers
        /\ FileOf(req.path) = Empty => r.body = Empty
    BY <1>1, FileTyped
  <2>3. \/ r = w
        \/ r = lk_httpresponse_add_header(w, ContentType, mimetype(req.path))
    BY DEF Typed
  <2>4. mimetype(req.path) \in Values
    BY OwnHeaders DEF mimetype
  <2> HIDE DEF w, r
  <2>5. \/ r.headers = resp.headers
        \/ r.headers = lk_stringtable_set(resp.headers, ContentType, mimetype(req.path))
    <3>1. DOMAIN w = Fields
      BY <2>2 DEF ResponseType, Fields
    <3>2. QED
      BY <2>2, <2>3, <3>1 DEF lk_httpresponse_add_header, Fields
  <2>6. /\ r.headers \in Tables
        /\ lk_stringtable_get(r.headers, ContentLength) = NULL
    BY <1>2, <2>4, <2>5, TypeAdded
  <2>7. CASE FileOf(req.path) = Empty
    BY <2>1, <2>2, <2>6, <2>7, MessageReplies, OwnHeaders
  <2>8. CASE FileOf(req.path) # Empty
    BY <2>1, <2>2, <2>6, <2>8, Replies
  <2>9. QED
    BY <2>7, <2>8
<1>4. CASE OtherMethod
  <2> DEFINE status == IF req.method = <<"POST">> THEN 0 ELSE 501
  <2>1. process_response(Message(resp, status, Html))
    BY <1>4 DEF OtherMethod
  <2>2. status \in Nat
    OBVIOUS
  <2> HIDE DEF status
  <2>3. QED
    BY <1>2, <2>1, <2>2, MessageReplies, OwnHeaders
<1>5. QED
  BY <1>3, <1>4

LEMMA CgiReplies ==
    ASSUME TypeOK, RouteInv, HeadInv, ReplyInv,
           CgiFails \/ CgiEnds \/ CgiHeaderLine \/ CgiEmptyLine \/ CgiNoEmptyLine
    PROVE  ReplyInv'
<1>1. output \in Text /\ cur \in 0 .. Len(output) /\ resp \in ResponseType
      /\ resp.headers \in Tables
  BY TypesAre DEF ReplyInv
<1>2. CASE CgiFails
  <2>1. resp = lk_httpresponse_new /\ process_error_response(500)
    BY <1>2 DEF CgiFails, RouteInv
  <2>2. QED
    BY <2>1, ErrorReplies
<1>3. CASE CgiEnds
  BY <1>1, <1>3, NoReply DEF CgiEnds
<1>4. CASE CgiHeaderLine
  <2>1. /\ cur < Len(output) /\ resp' = parse_cgi_header_line(resp, cgiline)
        /\ pc' = "cgihead"
    BY <1>4 DEF CgiHeaderLine
  <2>2. cgiline \in Text /\ Bare(cgiline)
    BY <1>1, <2>1, LineBare
  <2>3. resp'.headers \in Tables
    BY <1>1, <2>1, <2>2, CgiHeaderAdded
  <2>4. QED
    BY <2>1, <2>3, NoReply
<1>5. pc = "cgihead" => \/ lk_stringtable_get(resp.headers, ContentLength) = NULL
                        \/ "Content-Length" \in ToSet(output)
  BY DEF HeadInv, ContentLength
<1>6. CASE CgiEmptyLine
  <2> DEFINE r == [resp EXCEPT !.body = SubSeq(output, LineEnd + 1, Len(output))]
  <2>1. pc = "cgihead" /\ cur < Len(output) /\ process_response(r) /\ output' = output
    BY <1>6 DEF CgiEmptyLine
  <2>2. LineEnd \in 0 .. Len(output)
    <3>1. LineEnd \in cur + 1 .. Len(output) /\ Len(output) \in Nat
      BY <1>1, <2>1, LineIs DEF Text
    <3>2. QED
      BY <1>1, <3>1
  <2>3. r \in ResponseType
    BY <2>2, CgiBodyTyped
  <2>4. r.headers = resp.headers
    BY <1>1 DEF ResponseType
  <2> HIDE DEF r
  <2>5. QED
    BY <1>1, <1>5, <2>1, <2>3, <2>4, Replies
<1>7. CASE CgiNoEmptyLine
  <2> DEFINE with == lk_httpresponse_add_header(resp, ContentType, PlainText)
             e == [with EXCEPT !.body = output]
  <2>1. pc = "cgihead" /\ output' = output
    BY <1>7 DEF CgiNoEmptyLine
  <2>2. process_response(resp) \/ process_response(e)
    BY <1>7 DEF CgiNoEmptyLine
  <2>3. CASE process_response(resp)
    BY <1>1, <1>5, <2>1, <2>3, Replies
  <2>4. CASE process_response(e)
    <3>1. e \in ResponseType
      BY CgiErrorTyped
    <3>2. e.headers = lk_stringtable_set(resp.headers, ContentType, PlainText)
      BY <1>1 DEF lk_httpresponse_add_header, ResponseType
    <3> HIDE DEF e
    <3>3. /\ e.headers \in Tables
          /\ lk_stringtable_get(e.headers, ContentLength)
                = lk_stringtable_get(resp.headers, ContentLength)
      BY <1>1, <3>2, TypeAdded, OwnHeaders
    <3>4. QED
      BY <1>5, <2>1, <2>4, <3>1, <3>3, Replies
  <2>5. QED
    BY <2>2, <2>3, <2>4
<1>8. QED
  BY <1>2, <1>3, <1>4, <1>6, <1>7

LEMMA NextReply ==
    ASSUME TypeOK, RouteInv, HeadInv, ReplyInv, [Next]_vars
    PROVE  ReplyInv'
<1>1. CASE ReadRequest \/ SessionEnds
  BY <1>1, NewTable, NoReply DEF ReadRequest, SessionEnds, ReplyInv
<1>2. CASE NoHost \/ Proxy \/ NoHomedir \/ ServeCgi \/ ToFiles
  <2>1. pc = "request" /\ resp = lk_httpresponse_new
    BY <1>2 DEF NoHost, Proxy, NoHomedir, ServeCgi, ToFiles, Routed, Local, RouteInv
  <2>2. \/ process_error_response(404) \/ process_error_response(500)
        \/ pc' # "sent" /\ UNCHANGED resp
    BY <1>2 DEF NoHost, Proxy, NoHomedir, ServeCgi, ToFiles
  <2>3. QED
    BY <2>1, <2>2, ErrorReplies, NewTable, NoReply
<1>3. CASE GetFile \/ OtherMethod
  BY <1>3, FileReplies
<1>4. CASE CgiFails \/ CgiEnds \/ CgiHeaderLine \/ CgiEmptyLine \/ CgiNoEmptyLine
  BY <1>4, CgiReplies
<1>5. CASE UNCHANGED vars
  BY <1>5, SameState DEF ReplyInv
<1>6. QED
  BY <1>1, <1>2, <1>3, <1>4, <1>5 DEF Next

\* What the line at i of such a head is about.
NamedAt(t, i) == IF i = 1 THEN ContentLength ELSE t[i - 1].k

LEMMA HeadLinesRead ==
    ASSUME NEW t \in Tables, NEW n \in 0 .. MaxLength, NEW head, head = HeadLines(t, n)
    PROVE  /\ Len(t) \in Nat /\ Len(head) = Len(t) + 2 /\ DOMAIN head = 1 .. Len(t) + 2
           /\ \A i \in 1 .. Len(t) + 1 :
                 /\ Whole(head[i]) /\ head[i] \in Text /\ ~is_empty_line(head[i])
                 /\ NameOf(head[i]) = NamedAt(t, i)
           /\ head[Len(t) + 2] = <<"cr", LF>>
<1> DEFINE l == Len(t)
<1>1. /\ DOMAIN head = 1 .. l + 2 /\ Len(head) = l + 2 /\ l \in Nat
      /\ head[1] = HeaderLine(ContentLength, Number(n))
      /\ \A i \in 1 .. l : head[i + 1] = HeaderLine(t[i].k, t[i].v)
      /\ head[l + 2] = <<"cr", LF>>
  BY HeadLinesAre DEF Tables
<1>2. \A i \in 1 .. l : t[i] \in [k : Keys, v : Values]
  BY ElementOfSeq DEF Tables
<1> HIDE DEF l
<1>3. ASSUME NEW i \in 1 .. l + 1
      PROVE  \E k \in Keys, v \in Values :
                head[i] = HeaderLine(k, v) /\ k = NamedAt(t, i)
  <2>1. CASE i = 1
    <3>1. ContentLength \in Keys /\ Number(n) \in Values
      BY OwnHeaders
    <3>2. NamedAt(t, i) = ContentLength
      BY <2>1 DEF NamedAt
    <3>3. QED
      BY <1>1, <2>1, <3>1, <3>2
  <2>2. CASE i # 1
    <3>1. PICK j \in 1 .. l : i = j + 1 /\ i - 1 = j
      <4>1. i - 1 \in 1 .. l /\ i = (i - 1) + 1
        BY <1>1, <2>2
      <4>2. QED
        BY <4>1
    <3>2. t[j].k \in Keys /\ t[j].v \in Values /\ NamedAt(t, i) = t[j].k
      BY <1>2, <2>2, <3>1 DEF NamedAt
    <3>3. head[i] = HeaderLine(t[j].k, t[j].v)
      BY <1>1, <3>1
    <3>4. QED
      BY <3>2, <3>3
  <2>3. QED
    BY <2>1, <2>2
<1>4. ASSUME NEW i \in 1 .. l + 1
      PROVE  /\ Whole(head[i]) /\ head[i] \in Text /\ ~is_empty_line(head[i])
             /\ NameOf(head[i]) = NamedAt(t, i)
  <2> DEFINE x == head[i]
  <2>1. PICK k \in Keys, v \in Values : x = HeaderLine(k, v) /\ k = NamedAt(t, i)
    BY <1>3
  <2> HIDE DEF x
  <2>2. x \in Text /\ Whole(x) /\ ~is_empty_line(x) /\ NameOf(x) = k
    BY <2>1, HeaderLineIs
  <2>3. QED
    BY <2>1, <2>2 DEF x
<1>5. QED
  BY <1>1, <1>4 DEF l

\* Such a head has each name once, but for another line about the length, and lines
\* that a client takes for what they are.
LEMMA ReplyRight ==
    ASSUME IInv, ReplyInv
    PROVE  LengthIsBody /\ OneOfEachHeader
<1>1. SUFFICES ASSUME pc = "sent"
               PROVE  LengthIsBody /\ OneOfEachHeader
  BY DEF LengthIsBody, OneOfEachHeader
<1> DEFINE t == resp.headers
           head == resp.head
           l == Len(t)
<1>2. PICK n \in 0 .. MaxLength : head = HeadLines(t, n)
  BY <1>1 DEF ReplyInv
<1>3. t \in Tables /\ t \in Seq([k : Keys, v : Values]) /\ Unique(t)
  BY DEF ReplyInv, Tables, IInv, IsResponse, IsTable
<1> HIDE DEF t, head
<1>4. /\ l \in Nat /\ Len(head) = l + 2 /\ DOMAIN head = 1 .. l + 2
      /\ \A i \in 1 .. l + 1 :
            /\ Whole(head[i]) /\ head[i] \in Text /\ ~is_empty_line(head[i])
            /\ NameOf(head[i]) = NamedAt(t, i)
      /\ head[l + 2] = <<"cr", LF>>
  BY <1>2, <1>3, HeadLinesRead
<1>5. DOMAIN t = 1 .. l
  BY <1>3
<1> HIDE DEF l
<1>6. Len(head) - 1 = l + 1
  BY <1>4
<1>7. "Content-Length" \notin ToSet(output) => Named(ContentLength) = {1}
  <2>1. SUFFICES ASSUME "Content-Length" \notin ToSet(output)
                 PROVE  Named(ContentLength) = {1}
    OBVIOUS
  <2>2. lk_stringtable_get(t, ContentLength) = NULL
    BY <1>1, <2>1 DEF ReplyInv, t
  <2>3. Named(ContentLength) = {i \in 1 .. l + 1 : NameOf(head[i]) = ContentLength}
    BY <1>6 DEF Named, head
  <2>4. 1 \in 1 .. l + 1 /\ NamedAt(t, 1) = ContentLength
    BY <1>4 DEF NamedAt
  <2>5. ASSUME NEW i \in 1 .. l + 1, i # 1
        PROVE  NamedAt(t, i) # ContentLength
    <3>1. i - 1 \in 1 .. l
      BY <1>4, <2>5
    <3>2. PICK j \in DOMAIN t : j = i - 1
      BY <1>5, <3>1
    <3>3. lk_stringtable_get(t, t[j].k) # NULL
      BY <1>3, InTable
    <3>4. NamedAt(t, i) = t[j].k
      BY <2>5, <3>2 DEF NamedAt
    <3>5. QED
      BY <2>2, <3>3, <3>4
  <2>6. \A i \in 1 .. l + 1 : NameOf(head[i]) = ContentLength <=> i = 1
    BY <1>4, <2>4, <2>5
  <2>7. QED
    BY <2>3, <2>4, <2>6
<1>8. LengthIsBody
  BY <1>1, <1>7 DEF LengthIsBody, IInv, OwnLength
<1>9. ASSUME NEW i \in DOMAIN head
      PROVE  /\ is_empty_line(head[i]) <=> i = Len(head)
             /\ \A j \in DOMAIN head[i] : head[i][j] = LF <=> j = Len(head[i])
  <2>1. CASE i \in 1 .. l + 1
    <3> DEFINE x == head[i]
    <3>1. Whole(x) /\ x \in Seq(Pieces) /\ ~is_empty_line(x)
      BY <1>4, <2>1 DEF Text
    <3>2. i # Len(head)
      BY <1>4, <2>1
    <3> HIDE DEF x
    <3>3. DOMAIN x = 1 .. Len(x) /\ Len(x) \in Nat
      BY <3>1
    <3>4. \A j \in DOMAIN x : x[j] = LF <=> j = Len(x)
      BY <3>1, <3>3 DEF Whole
    <3>5. QED
      BY <3>1, <3>2, <3>4 DEF x
  <2>2. CASE i = l + 2
    <3> DEFINE x == <<"cr", LF>>
    <3>1. Len(x) = 2 /\ DOMAIN x = 1 .. 2 /\ x[1] = "cr" /\ x[2] = LF /\ "cr" # LF
      BY DEF LF
    <3>2. is_empty_line(x)
      BY DEF is_empty_line, ToSet, Blanks, LF
    <3> HIDE DEF x
    <3>3. \A j \in DOMAIN x : x[j] = LF <=> j = Len(x)
      BY <3>1
    <3>4. head[i] = x /\ i = Len(head)
      BY <1>4, <2>2 DEF x
    <3>5. QED
      BY <3>2, <3>3, <3>4
  <2>3. i \in 1 .. l + 1 \/ i = l + 2
    BY <1>4
  <2>4. QED
    BY <2>1, <2>2, <2>3
<1>10. ASSUME NEW i \in 1 .. l + 1, NEW j \in 1 .. l + 1, i < j,
              NameOf(head[i]) = NameOf(head[j])
       PROVE  i = 1 /\ NameOf(head[i]) = ContentLength
  <2>1. NamedAt(t, i) = NamedAt(t, j)
    BY <1>4, <1>10
  <2>2. i = 1
    <3>1. SUFFICES ASSUME i # 1 PROVE FALSE
      OBVIOUS
    <3>2. j # 1 /\ i - 1 \in 1 .. l /\ j - 1 \in 1 .. l /\ i - 1 # j - 1
      BY <1>4, <1>10, <3>1
    <3>3. t[i - 1].k = t[j - 1].k
      BY <2>1, <3>1, <3>2 DEF NamedAt
    <3>4. QED
      BY <1>3, <1>5, <3>2, <3>3 DEF Unique
  <2>3. QED
    BY <1>4, <2>2 DEF NamedAt
<1>11. OneOfEachHeader
  BY <1>6, <1>9, <1>10 DEF OneOfEachHeader, head
<1>12. QED
  BY <1>8, <1>11

LEMMA SpecReply == Spec => [](IInv /\ ReplyInv)
<1> DEFINE I == TypeOK /\ RouteInv /\ HeadInv /\ IInv /\ ReplyInv
<1>1. Init => I
  <2>1. Init => HeadInv
    BY DEF Init, HeadInv
  <2>2. Init => ReplyInv
    BY NewTable DEF Init, ReplyInv
  <2>3. QED
    BY <2>1, <2>2, InitTyped, InitIInv
<1>2. I /\ [Next]_vars => I'
  BY NextTyped, NextHead, NextIInv, NextReply
<1>3. I => IInv /\ ReplyInv
  OBVIOUS
<1>4. QED
  BY <1>1, <1>2, <1>3, PTL DEF Spec

\* The first header of a reply is the length of its body, whoever made it, and it
\* has no other one by that name unless a program wrote one; a reply to HEAD has no
\* body.
THEOREM LengthCorrect == Spec => []LengthIsBody
<1>1. IInv /\ ReplyInv => LengthIsBody
  BY ReplyRight
<1>2. QED
  BY <1>1, SpecReply, PTL

\* A client that reads the head of a reply finds each name once, but for a length
\* that a program wrote after the server's, and one empty line, at its end.
THEOREM HeadersOnce == Spec => []OneOfEachHeader
<1>1. IInv /\ ReplyInv => OneOfEachHeader
  BY ReplyRight
<1>2. QED
  BY <1>1, SpecReply, PTL
=============================================================================
