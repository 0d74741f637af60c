---------------------------- MODULE LKProxyProofs ----------------------------
(***************************************************************************)
(* Proofs about LKProxy, for every request, response and size of the        *)
(* sockets: nothing that is forwarded is lost, repeated or out of order,    *)
(* success means that all of it has been, and forwarding implements the     *)
(* exchange of LKExchange.                                                  *)
(***************************************************************************)
EXTENDS LKProxy, SequenceTheorems, TLAPS

-----------------------------------------------------------------------------
(***************************************************************************)
(* Sequences: what is left after a part has been sent.                      *)
(***************************************************************************)

\* What Rest is: the elements after the first cur.
LEMMA RestIs ==
    ASSUME NEW bytes \in Seq(Nat), NEW cur \in 0 .. Len(bytes)
    PROVE  /\ Rest(bytes, cur) \in Seq(Nat)
           /\ Len(Rest(bytes, cur)) = Len(bytes) - cur
           /\ \A i \in 1 .. Len(bytes) - cur : Rest(bytes, cur)[i] = bytes[cur + i]
           /\ Rest(bytes, cur) = NoBytes <=> cur = Len(bytes)
<1>1. Len(bytes) \in Nat /\ cur \in Nat /\ cur <= Len(bytes)
  OBVIOUS
<1>2. Rest(bytes, cur) \in Seq(Nat)
  BY DEF Rest
<1>3. Len(Rest(bytes, cur)) = Len(bytes) - cur
  BY DEF Rest
<1>4. \A i \in 1 .. Len(bytes) - cur : Rest(bytes, cur)[i] = bytes[cur + i]
  BY DEF Rest
<1>5. Rest(bytes, cur) = << >> <=> Len(Rest(bytes, cur)) = 0
  BY <1>2, EmptySeq
<1>6. QED
  BY <1>1, <1>2, <1>3, <1>4, <1>5 DEF NoBytes

\* Before anything is sent, all is left.
LEMMA RestOfNothing ==
    ASSUME NEW bytes \in Seq(Nat)
    PROVE  Rest(bytes, 0) = bytes
BY SubSeqFull DEF Rest

\* The first n elements of what is left, and what is then left.
LEMMA RestStep ==
    ASSUME NEW bytes \in Seq(Nat), NEW cur \in 0 .. Len(bytes),
           NEW n \in 1 .. Len(Rest(bytes, cur))
    PROVE  /\ cur + n \in 0 .. Len(bytes)
           /\ SubSeq(Rest(bytes, cur), 1, n) \in Seq(Nat)
           /\ Len(SubSeq(Rest(bytes, cur), 1, n)) = n
           /\ SubSeq(Rest(bytes, cur), 1, n) \o Rest(bytes, cur + n) = Rest(bytes, cur)
<1> DEFINE r == Rest(bytes, cur)
           first == SubSeq(r, 1, n)
           piece == SubSeq(bytes, cur + 1, cur + n)
<1>1. /\ r \in Seq(Nat) /\ Len(r) = Len(bytes) - cur
      /\ \A i \in 1 .. Len(bytes) - cur : r[i] = bytes[cur + i]
  BY RestIs
<1>2. Len(bytes) \in Nat /\ n \in Nat /\ 1 <= n /\ cur \in Nat /\ n <= Len(bytes) - cur
  BY <1>1
<1>3. cur + n \in 0 .. Len(bytes)
  BY <1>2
<1>4. first \in Seq(Nat) /\ Len(first) = n /\ \A i \in 1 .. n : first[i] = r[i]
  <2> HIDE DEF r
  <2>1. QED
    BY <1>1, <1>2
<1>5. piece \in Seq(Nat) /\ Len(piece) = n /\ \A i \in 1 .. n : piece[i] = bytes[cur + i]
  <2>1. cur + 1 \in 1 .. Len(bytes) + 1 /\ cur + n \in 0 .. Len(bytes)
    BY <1>2
  <2>2. \A i \in cur + 1 .. cur + n : bytes[i] \in Nat
    BY <1>2, ElementOfSeq
  <2>3. /\ piece \in Seq(Nat)
        /\ Len(piece) = IF cur + 1 <= cur + n THEN (cur + n) - (cur + 1) + 1 ELSE 0
        /\ \A i \in 1 .. (cur + n) - (cur + 1) + 1 : piece[i] = bytes[(cur + 1) + i - 1]
    BY <2>1, <2>2, SubSeqProperties
  <2> HIDE DEF piece
  <2>4. QED
    BY <1>2, <2>3
<1>6. first = piece
  <2> HIDE DEF r, first, piece
  <2>1. ASSUME NEW i \in 1 .. n
        PROVE  first[i] = piece[i]
    <3>1. i \in 1 .. Len(bytes) - cur
      BY <1>2
    <3>2. first[i] = r[i] /\ r[i] = bytes[cur + i] /\ piece[i] = bytes[cur + i]
      BY <1>1, <1>4, <1>5, <3>1
    <3>3. QED
      BY <3>2
  <2>2. QED
    BY <1>4, <1>5, <2>1, SeqEqual
<1>7. piece \o Rest(bytes, cur + n) = r
  <2>1. /\ cur + 1 \in 1 .. Len(bytes) + 1 /\ cur + n \in (cur + 1) - 1 .. Len(bytes)
        /\ Len(bytes) \in cur + n .. Len(bytes)
    BY <1>2
  <2>2. QED
    BY <2>1, ConcatAdjacentSubSeq, Zenon DEF Rest
<1>8. QED
  BY <1>3, <1>4, <1>6, <1>7

\* Sequences end to end.
LEMMA Joined ==
    ASSUME NEW a \in Seq(Nat), NEW b \in Seq(Nat)
    PROVE  /\ (a \o b) \o NoBytes = a \o b
           /\ NoBytes \o a = a
           /\ a \o b \in Seq(Nat)
           /\ Len(a \o b) = Len(a) + Len(b)
BY ConcatProperties, ConcatEmptySeq DEF NoBytes

LEMMA Longer ==
    ASSUME NEW a \in Seq(Nat), NEW b \in Seq(Nat), Len(b) >= 1
    PROVE  a \o b \in Seq(Nat) /\ Len(a) < Len(a \o b)
<1>1. Len(a) \in Nat /\ Len(b) \in Nat
  OBVIOUS
<1>2. a \o b \in Seq(Nat) /\ Len(a \o b) = Len(a) + Len(b)
  BY Joined
<1>3. QED
  BY <1>1, <1>2

\* A sequence that begins another is its first elements.
LEMMA Beginning ==
    ASSUME NEW a \in Seq(Nat), NEW b \in Seq(Nat)
    PROVE  /\ a = SubSeq(a \o b, 1, Len(a))
           /\ Len(a) \in 0 .. Len(a \o b)
<1> DEFINE whole == a \o b
           s == SubSeq(whole, 1, Len(a))
<1>1. /\ whole \in Seq(Nat) /\ Len(whole) = Len(a) + Len(b)
      /\ \A i \in 1 .. Len(a) : whole[i] = a[i]
  BY ConcatProperties
<1>2. Len(a) \in Nat /\ Len(b) \in Nat
  OBVIOUS
<1> HIDE DEF whole
<1>3. s \in Seq(Nat) /\ Len(s) = Len(a) /\ \A i \in 1 .. Len(a) : s[i] = whole[i]
  BY <1>1, <1>2
<1> HIDE DEF s
<1>4. a = s
  BY <1>1, <1>3, SeqEqual
<1>5. QED
  BY <1>1, <1>2, <1>4 DEF s, whole

\* What has been read of the response and what is read now.
LEMMA ReadOn ==
    ASSUME NEW whole \in Seq(Nat), NEW m \in 0 .. Len(whole), NEW n \in m .. Len(whole)
    PROVE  /\ SubSeq(whole, m + 1, n) \in Seq(Nat)
           /\ SubSeq(whole, 1, m) \in Seq(Nat)
           /\ Len(SubSeq(whole, 1, m)) = m
           /\ SubSeq(whole, 1, m) \o SubSeq(whole, m + 1, n) = SubSeq(whole, 1, n)
<1>1. /\ 1 \in 1 .. Len(whole) + 1 /\ m \in 1 - 1 .. Len(whole) /\ n \in m .. Len(whole)
  OBVIOUS
<1>2. SubSeq(whole, 1, m) \o SubSeq(whole, m + 1, n) = SubSeq(whole, 1, n)
  BY <1>1, ConcatAdjacentSubSeq, Zenon
<1>3. QED
  BY <1>2

\* More bytes behind those that are buffered: what is left grows at its end.
LEMMA RestGrows ==
    ASSUME NEW bytes \in Seq(Nat), NEW more \in Seq(Nat), NEW cur \in 0 .. Len(bytes)
    PROVE  Rest(bytes \o more, cur) = Rest(bytes, cur) \o more
<1> DEFINE whole == bytes \o more
           l == Rest(whole, cur)
           r == Rest(bytes, cur)
           k == r \o more
<1>1. /\ whole \in Seq(Nat) /\ Len(whole) = Len(bytes) + Len(more)
      /\ \A i \in 1 .. Len(bytes) + Len(more) :
            whole[i] = IF i <= Len(bytes) THEN bytes[i] ELSE more[i - Len(bytes)]
  BY ConcatProperties
<1>2. Len(bytes) \in Nat /\ Len(more) \in Nat /\ cur \in Nat /\ cur <= Len(bytes)
  OBVIOUS
<1>3. /\ r \in Seq(Nat) /\ Len(r) = Len(bytes) - cur
      /\ \A i \in 1 .. Len(bytes) - cur : r[i] = bytes[cur + i]
  BY RestIs
<1>4. /\ l \in Seq(Nat) /\ Len(l) = Len(whole) - cur
      /\ \A i \in 1 .. Len(whole) - cur : l[i] = whole[cur + i]
  <2> HIDE DEF whole
  <2>1. cur \in 0 .. Len(whole)
    BY <1>1, <1>2
  <2>2. QED
    BY <1>1, <2>1, RestIs
<1> HIDE DEF whole, l, r
<1>5. /\ k \in Seq(Nat) /\ Len(k) = Len(r) + Len(more)
      /\ \A i \in 1 .. Len(r) + Len(more) :
            k[i] = IF i <= Len(r) THEN r[i] ELSE more[i - Len(r)]
  BY <1>3, ConcatProperties
<1> HIDE DEF k
<1>6. Len(l) = Len(k)
  BY <1>1, <1>2, <1>3, <1>4, <1>5
<1>7. ASSUME NEW i \in 1 .. Len(l)
      PROVE  l[i] = k[i]
  <2>1. i \in Nat /\ 1 <= i /\ i <= Len(bytes) + Len(more) - cur
    BY <1>1, <1>2, <1>4
  <2>2. cur + i \in 1 .. Len(bytes) + Len(more)
    BY <1>2, <2>1
  <2>3. l[i] = IF cur + i <= Len(bytes) THEN bytes[cur + i]
                                        ELSE more[(cur + i) - Len(bytes)]
    BY <1>1, <1>2, <1>4, <2>1, <2>2
  <2>4. k[i] = IF i <= Len(bytes) - cur THEN r[i] ELSE more[i - (Len(bytes) - cur)]
    BY <1>2, <1>3, <1>5, <2>1
  <2>5. (cur + i) - Len(bytes) = i - (Len(bytes) - cur)
    BY <1>2, <2>1
  <2>6. CASE cur + i <= Len(bytes)
    BY <1>2, <1>3, <2>1, <2>3, <2>4, <2>6
  <2>7. CASE cur + i > Len(bytes)
    BY <1>2, <2>1, <2>3, <2>4, <2>5, <2>7
  <2>8. QED
    BY <1>2, <2>1, <2>6, <2>7
<1>8. QED
  BY <1>4, <1>5, <1>6, <1>7, SeqEqual DEF l, k, r, whole

-----------------------------------------------------------------------------
(***************************************************************************)
(* The inductive invariant.                                                 *)
(***************************************************************************)

\* The upstream is told the end of the request before the response is piped, not
\* sooner; items_cur moves past an item when all of it is sent; an end of file,
\* of the upstream or seen by lk_read_all, comes after the whole response.
Phases ==
    /\ type = "CTX_PROXY_WRITE_REQ" => ~shut
    /\ type \in {"CTX_PROXY_PIPE_RESP", "done"} => shut
    /\ \A i \in 1 .. 2 : buflist.items_cur > i => buflist.bytes_cur[i] = Len(Items[i])
    /\ upstream = "fin" => sent = Len(Response)
    /\ readz = "Z_EOF" => bytes_len = Len(Response)

IInv == TypeOK /\ RequestInOrder /\ ForwardedInOrder /\ DoneMeansAll /\ Phases

LEMMA ItemsAre ==
    /\ Items[1] = RequestHead /\ Items[2] = RequestBody /\ Len(Items) = 2
    /\ Items[1] \in Seq(Nat) /\ Items[2] \in Seq(Nat)
    /\ Len(Items[1]) \in Nat /\ Len(Items[2]) \in Nat
BY BytesAssumption DEF Items

LEMMA InitIInv == Init => IInv
<1> SUFFICES ASSUME Init PROVE IInv
  OBVIOUS
<1> USE DEF Init
<1>1. NoBytes \in Seq(Nat) /\ Len(NoBytes) = 0
  BY EmptySeq DEF NoBytes
<1>2. bytes_len = 0 /\ Len(Response) \in Nat
  BY <1>1, BytesAssumption DEF bytes_len
<1>3. TypeOK
  <2>1. <<0, 0>> \in [1 .. 2 -> Nat]
    OBVIOUS
  <2>2. buflist \in [items_cur : 1 .. 3, bytes_cur : [1 .. 2 -> Nat]]
    BY <2>1
  <2>3. \A i \in 1 .. 2 : buflist.bytes_cur[i] <= Len(Items[i])
    BY ItemsAre
  <2>4. proxy_respbuf \in [bytes : Seq(Nat), bytes_cur : Nat] /\ proxy_respbuf.bytes_cur = 0
    BY <1>1
  <2>5. sent \in bytes_len .. Len(Response)
    BY <1>2
  <2>6. /\ type = "CTX_PROXY_WRITE_REQ" /\ pc = "select" /\ readz = "Z_BLOCK"
        /\ upsock = NoBytes /\ shut = FALSE /\ heard = NoBytes /\ upstream = "open"
        /\ sock = NoBytes /\ received = NoBytes /\ client = "open"
    OBVIOUS
  <2> HIDE DEF Init
  <2>7. proxy_respbuf.bytes_cur <= bytes_len
    BY <1>2, <2>4
  <2>8. upsock \in Seq(Nat) /\ heard \in Seq(Nat) /\ sock \in Seq(Nat) /\ received \in Seq(Nat)
    BY <1>1, <2>6
  <2>9. QED
    BY <2>2, <2>3, <2>4, <2>5, <2>6, <2>7, <2>8, Zenon DEF TypeOK
<1>4. RequestInOrder
  <2>1. RequestLeft = Request
    <3>1. buflist.bytes_cur[1] = 0 /\ buflist.bytes_cur[2] = 0
      OBVIOUS
    <3>2. QED
      BY <3>1, RestOfNothing, BytesAssumption DEF RequestLeft, Request
  <2>2. Request \in Seq(Nat)
    BY BytesAssumption, Joined DEF Request
  <2>3. NoBytes \o NoBytes = NoBytes /\ NoBytes \o Request = Request
    BY <1>1, <2>2, Joined
  <2>4. heard = NoBytes /\ upsock = NoBytes /\ ~shut
    OBVIOUS
  <2>5. QED
    BY <2>1, <2>3, <2>4 DEF RequestInOrder
<1>5. ForwardedInOrder
  <2>1. Unsent = NoBytes
    BY <1>1, RestOfNothing DEF Unsent
  <2>2. SubSeq(Response, 1, 0) = NoBytes
    BY BytesAssumption, SubSeqEmpty DEF NoBytes
  <2>3. (NoBytes \o NoBytes) \o NoBytes = NoBytes
    BY <1>1, Joined
  <2>4. received = NoBytes /\ sock = NoBytes
    OBVIOUS
  <2>5. QED
    BY <1>2, <2>1, <2>2, <2>3, <2>4 DEF ForwardedInOrder
<1>6. DoneMeansAll /\ Phases
  <2>1. \A i \in 1 .. 2 : ~(buflist.items_cur > i)
    OBVIOUS
  <2>2. QED
    BY <2>1 DEF DoneMeansAll, Phases
<1>7. QED
  BY <1>3, <1>4, <1>5, <1>6 DEF IInv

-----------------------------------------------------------------------------
(***************************************************************************)
(* Every step preserves it.                                                 *)
(***************************************************************************)

\* Facts of the invariant that the steps use.
LEMMA Facts ==
    ASSUME IInv
    PROVE  /\ Len(Response) \in Nat /\ bytes_len \in Nat
           /\ proxy_respbuf.bytes \in Seq(Nat) /\ bytes_len = Len(proxy_respbuf.bytes)
           /\ proxy_respbuf.bytes_cur \in 0 .. Len(proxy_respbuf.bytes)
           /\ Unsent \in Seq(Nat)
           /\ buflist.bytes_cur[1] \in 0 .. Len(RequestHead)
           /\ buflist.bytes_cur[2] \in 0 .. Len(RequestBody)
           /\ Rest(RequestHead, buflist.bytes_cur[1]) \in Seq(Nat)
           /\ Rest(RequestBody, buflist.bytes_cur[2]) \in Seq(Nat)
           /\ RequestLeft \in Seq(Nat) /\ Request \in Seq(Nat)
           /\ heard \in Seq(Nat) /\ upsock \in Seq(Nat)
           /\ received \in Seq(Nat) /\ sock \in Seq(Nat)
           /\ heard \o upsock \in Seq(Nat) /\ received \o sock \in Seq(Nat)
<1>1. TypeOK
  BY DEF IInv
<1>2. /\ proxy_respbuf.bytes \in Seq(Nat) /\ proxy_respbuf.bytes_cur \in Nat
      /\ proxy_respbuf.bytes_cur <= Len(proxy_respbuf.bytes)
      /\ bytes_len = Len(proxy_respbuf.bytes)
  BY <1>1 DEF TypeOK, bytes_len
<1>3. bytes_len \in Nat /\ proxy_respbuf.bytes_cur \in 0 .. Len(proxy_respbuf.bytes)
  BY <1>2, LenProperties
<1>4. Unsent \in Seq(Nat)
  BY <1>2, <1>3, RestIs DEF Unsent
<1>5. /\ buflist.bytes_cur[1] \in 0 .. Len(RequestHead)
      /\ buflist.bytes_cur[2] \in 0 .. Len(RequestBody)
  BY <1>1, ItemsAre DEF TypeOK
<1>6. /\ Rest(RequestHead, buflist.bytes_cur[1]) \in Seq(Nat)
      /\ Rest(RequestBody, buflist.bytes_cur[2]) \in Seq(Nat)
  BY <1>5, RestIs, BytesAssumption
<1>7. RequestLeft \in Seq(Nat) /\ Request \in Seq(Nat)
  BY <1>6, Joined, BytesAssumption DEF RequestLeft, Request
<1>8. /\ heard \in Seq(Nat) /\ upsock \in Seq(Nat)
      /\ received \in Seq(Nat) /\ sock \in Seq(Nat)
  BY <1>1 DEF TypeOK
<1>9. heard \o upsock \in Seq(Nat) /\ received \o sock \in Seq(Nat)
  BY <1>8, Joined
<1>10. Len(Response) \in Nat
  BY BytesAssumption, LenProperties
<1>11. QED
  BY <1>2, <1>3, <1>4, <1>5, <1>6, <1>7, <1>8, <1>9, <1>10

\* A step that leaves the request alone.
LEMMA RequestKept ==
    ASSUME IInv, UNCHANGED <<buflist, heard, upsock, shut>>
    PROVE  RequestInOrder'
BY DEF IInv, RequestInOrder, RequestLeft

\* A step that leaves the response alone.
LEMMA ResponseKept ==
    ASSUME IInv, UNCHANGED <<proxy_respbuf, received, sock>>
    PROVE  /\ ForwardedInOrder'
           /\ bytes_len' = bytes_len
           /\ type' = type => DoneMeansAll'
BY DEF IInv, ForwardedInOrder, DoneMeansAll, Unsent, bytes_len

LEMMA UpstreamIInv ==
    ASSUME IInv, Upstream
    PROVE  IInv'
<1>1. CASE UpstreamReads
  <2> USE <1>1 DEF UpstreamReads, server, clientVars
  <2>1. heard' = heard \o upsock /\ upsock' = NoBytes
    OBVIOUS
  <2>2. heard' \in Seq(Nat) /\ upsock' \in Seq(Nat)
    BY <2>1, Facts, EmptySeq DEF NoBytes
  <2>3. TypeOK'
    BY <2>2 DEF IInv, TypeOK, bytes_len
  <2>4. RequestInOrder'
    <3>1. heard' \o upsock' = heard \o upsock
      <4>1. heard \in Seq(Nat) /\ upsock \in Seq(Nat)
        BY Facts
      <4>2. (heard \o upsock) \o NoBytes = heard \o upsock
        BY <4>1, Joined
      <4>3. QED
        BY <2>1, <4>2
    <3>2. RequestLeft' = RequestLeft /\ shut' = shut
      BY DEF RequestLeft
    <3>3. QED
      BY <3>1, <3>2 DEF IInv, RequestInOrder
  <2>5. ForwardedInOrder' /\ DoneMeansAll' /\ bytes_len' = bytes_len
    BY ResponseKept
  <2>6. Phases'
    BY <2>5 DEF IInv, Phases
  <2>7. QED
    BY <2>3, <2>4, <2>5, <2>6 DEF IInv
<1>2. CASE UpstreamSends
  <2> USE <1>2 DEF UpstreamSends, server, clientVars
  <2>1. RequestInOrder' /\ ForwardedInOrder' /\ DoneMeansAll' /\ bytes_len' = bytes_len
    BY RequestKept, ResponseKept
  <2>2. sent' \in bytes_len .. Len(Response)
    BY Facts DEF IInv, TypeOK
  <2>3. TypeOK'
    BY <2>1, <2>2 DEF IInv, TypeOK
  <2>4. Phases'
    BY <2>1 DEF IInv, Phases
  <2>5. QED
    BY <2>1, <2>3, <2>4 DEF IInv
<1>3. CASE UpstreamEnds \/ UpstreamBreaks
  <2> USE <1>3 DEF UpstreamEnds, UpstreamBreaks, server, clientVars
  <2>1. RequestInOrder' /\ ForwardedInOrder' /\ DoneMeansAll' /\ bytes_len' = bytes_len
    BY RequestKept, ResponseKept
  <2>2. TypeOK'
    BY <2>1 DEF IInv, TypeOK
  <2>3. Phases'
    BY <2>1 DEF IInv, Phases
  <2>4. QED
    BY <2>1, <2>2, <2>3 DEF IInv
<1>4. QED
  BY <1>1, <1>2, <1>3 DEF Upstream

LEMMA ClientIInv ==
    ASSUME IInv, Client
    PROVE  IInv'
<1>1. CASE ClientReads
  <2> USE <1>1 DEF ClientReads, server, upstreamVars
  <2>1. received' = received \o sock /\ sock' = NoBytes
    OBVIOUS
  <2>2. received' \in Seq(Nat) /\ sock' \in Seq(Nat)
    BY <2>1, Facts, EmptySeq DEF NoBytes
  <2>3. TypeOK'
    BY <2>2 DEF IInv, TypeOK, bytes_len
  <2>4. received' \o sock' = received \o sock
    <3>1. received \in Seq(Nat) /\ sock \in Seq(Nat)
      BY Facts
    <3>2. (received \o sock) \o NoBytes = received \o sock
      BY <3>1, Joined
    <3>3. QED
      BY <2>1, <3>2
  <2>5. ForwardedInOrder' /\ DoneMeansAll'
    BY <2>4 DEF IInv, ForwardedInOrder, DoneMeansAll, Unsent, bytes_len
  <2>6. RequestInOrder'
    BY RequestKept
  <2>7. Phases'
    BY DEF IInv, Phases, bytes_len
  <2>8. QED
    BY <2>3, <2>5, <2>6, <2>7 DEF IInv
<1>2. CASE ClientBreaks
  <2> USE <1>2 DEF ClientBreaks, server, upstreamVars
  <2>1. RequestInOrder' /\ ForwardedInOrder' /\ DoneMeansAll' /\ bytes_len' = bytes_len
    BY RequestKept, ResponseKept
  <2>2. TypeOK'
    BY <2>1 DEF IInv, TypeOK
  <2>3. Phases'
    BY <2>1 DEF IInv, Phases
  <2>4. QED
    BY <2>1, <2>2, <2>3 DEF IInv
<1>3. QED
  BY <1>1, <1>2 DEF Client

\* A send() of the request moves bytes from what is left of it to the socket.
LEMMA SendRequestMoves ==
    ASSUME IInv, SendRequest
    PROVE  /\ upsock' \in Seq(Nat) /\ RequestLeft' \in Seq(Nat)
           /\ Len(upsock) < Len(upsock')
           /\ buflist'.items_cur = buflist.items_cur
           /\ buflist' \in [items_cur : 1 .. 3, bytes_cur : [1 .. 2 -> Nat]]
           /\ \A i \in 1 .. 2 : buflist'.bytes_cur[i] <= Len(Items[i])
           /\ \A i \in 1 .. 2 : buflist.items_cur > i => buflist'.bytes_cur[i] = buflist.bytes_cur[i]
           /\ (heard \o upsock') \o RequestLeft' = (heard \o upsock) \o RequestLeft
<1> DEFINE c == buflist.bytes_cur
           h == Rest(RequestHead, c[1])
           b == Rest(RequestBody, c[2])
<1>1. PICK n \in 1 .. Len(Pending) :
         /\ upsock' = upsock \o SubSeq(Pending, 1, n)
         /\ buflist' = [buflist EXCEPT !.bytes_cur[buflist.items_cur] = @ + n]
  BY DEF SendRequest
<1>2. /\ heard \in Seq(Nat) /\ upsock \in Seq(Nat) /\ h \in Seq(Nat) /\ b \in Seq(Nat)
      /\ c[1] \in 0 .. Len(RequestHead) /\ c[2] \in 0 .. Len(RequestBody)
      /\ RequestHead \in Seq(Nat) /\ RequestBody \in Seq(Nat)
  BY Facts, BytesAssumption
<1>3. /\ buflist \in [items_cur : 1 .. 3, bytes_cur : [1 .. 2 -> Nat]]
      /\ \A i \in 1 .. 2 : c[i] <= Len(Items[i])
  BY DEF IInv, TypeOK
<1>4. buflist.items_cur \in {1, 2}
  BY <1>3, ItemsAre DEF SendRequest, HasItem
<1>5. heard' = heard
  BY DEF SendRequest, upstreamVars
<1>6. n \in Nat
  OBVIOUS
<1>7. /\ buflist'.items_cur = buflist.items_cur
      /\ buflist'.bytes_cur = [c EXCEPT ![buflist.items_cur] = c[buflist.items_cur] + n]
  BY <1>1, <1>3
<1>8. buflist' \in [items_cur : 1 .. 3, bytes_cur : [1 .. 2 -> Nat]]
  <2>1. c \in [1 .. 2 -> Nat] /\ buflist.items_cur \in 1 .. 3
    BY <1>3
  <2>2. buflist' = [items_cur |-> buflist.items_cur,
                    bytes_cur |-> [c EXCEPT ![buflist.items_cur] = c[buflist.items_cur] + n]]
    BY <1>1, <1>3
  <2>3. [c EXCEPT ![buflist.items_cur] = c[buflist.items_cur] + n] \in [1 .. 2 -> Nat]
    BY <1>4, <1>6, <2>1
  <2>4. QED
    BY <2>1, <2>2, <2>3
<1>9. CASE buflist.items_cur = 1
  <2>1. Pending = h
    BY <1>9, ItemsAre DEF Pending
  <2>2. /\ c[1] + n \in 0 .. Len(RequestHead)
        /\ SubSeq(h, 1, n) \in Seq(Nat)
        /\ SubSeq(h, 1, n) \o Rest(RequestHead, c[1] + n) = h
        /\ Len(SubSeq(h, 1, n)) = n
    BY <1>2, <2>1, RestStep
  <2>3. buflist'.bytes_cur[1] = c[1] + n /\ buflist'.bytes_cur[2] = c[2]
    BY <1>3, <1>7, <1>9
  <2>4. upsock' \in Seq(Nat) /\ Len(upsock) < Len(upsock')
    <3> DEFINE p == SubSeq(h, 1, n)
    <3>1. p \in Seq(Nat) /\ Len(p) >= 1 /\ upsock' = upsock \o p
      BY <1>1, <2>1, <2>2
    <3> HIDE DEF p
    <3>2. QED
      BY <1>2, <3>1, Longer
  <2>5. RequestLeft' = Rest(RequestHead, c[1] + n) \o b
    BY <2>3 DEF RequestLeft
  <2> DEFINE p == SubSeq(h, 1, n)
             q == Rest(RequestHead, c[1] + n)
  <2>6. q \in Seq(Nat) /\ p \in Seq(Nat) /\ p \o q = h
    BY <1>2, <2>2, RestIs
  <2>7. upsock' = upsock \o p /\ RequestLeft' = q \o b /\ RequestLeft = h \o b
    BY <1>1, <2>1, <2>5 DEF RequestLeft
  <2> HIDE DEF p, q, h, b
  <2>8. (heard \o (upsock \o p)) \o (q \o b) = (heard \o upsock) \o ((p \o q) \o b)
    <3>1. /\ heard \in Seq(Nat) /\ upsock \in Seq(Nat) /\ p \in Seq(Nat)
          /\ q \in Seq(Nat) /\ b \in Seq(Nat)
      BY <1>2, <2>6
    <3> HIDE DEF c
    <3>2. QED
      BY <3>1, SMTT(60)
  <2>9. (heard \o upsock') \o RequestLeft' = (heard \o upsock) \o RequestLeft
    BY <2>6, <2>7, <2>8
  <2>10. /\ buflist' \in [items_cur : 1 .. 3, bytes_cur : [1 .. 2 -> Nat]]
         /\ \A i \in 1 .. 2 : buflist'.bytes_cur[i] <= Len(Items[i])
    BY <1>3, <1>8, <2>2, <2>3, ItemsAre
  <2>11. \A i \in 1 .. 2 : buflist.items_cur > i => buflist'.bytes_cur[i] = c[i]
    BY <1>9
  <2>12. RequestLeft' \in Seq(Nat)
    BY <1>2, <2>6, <2>7, Joined
  <2>13. QED
    BY <1>7, <2>4, <2>9, <2>10, <2>11, <2>12
<1>10. CASE buflist.items_cur = 2
  <2>1. Pending = b
    BY <1>10, ItemsAre DEF Pending
  <2>2. /\ c[2] + n \in 0 .. Len(RequestBody)
        /\ SubSeq(b, 1, n) \in Seq(Nat)
        /\ SubSeq(b, 1, n) \o Rest(RequestBody, c[2] + n) = b
        /\ Len(SubSeq(b, 1, n)) = n
    BY <1>2, <2>1, RestStep
  <2>3. buflist'.bytes_cur[1] = c[1] /\ buflist'.bytes_cur[2] = c[2] + n
    BY <1>3, <1>7, <1>10
  <2>4. upsock' \in Seq(Nat) /\ Len(upsock) < Len(upsock')
    <3> DEFINE p == SubSeq(b, 1, n)
    <3>1. p \in Seq(Nat) /\ Len(p) >= 1 /\ upsock' = upsock \o p
      BY <1>1, <2>1, <2>2
    <3> HIDE DEF p
    <3>2. QED
      BY <1>2, <3>1, Longer
  <2>5. h = NoBytes
    <3>1. c[1] = Len(RequestHead)
      BY <1>10, ItemsAre DEF IInv, Phases
    <3>2. QED
      BY <1>2, <3>1, RestIs
  <2> DEFINE p == SubSeq(b, 1, n)
             q == Rest(RequestBody, c[2] + n)
  <2>6. q \in Seq(Nat) /\ p \in Seq(Nat) /\ p \o q = b
    BY <1>2, <2>2, RestIs
  <2>7. upsock' = upsock \o p /\ RequestLeft' = NoBytes \o q /\ RequestLeft = NoBytes \o b
    BY <1>1, <2>1, <2>3, <2>5 DEF RequestLeft
  <2> HIDE DEF p, q, h, b
  <2>8. RequestLeft' = q /\ RequestLeft = b
    BY <1>2, <2>6, <2>7, Joined
  <2>9. (heard \o (upsock \o p)) \o q = (heard \o upsock) \o (p \o q)
    <3>1. /\ heard \in Seq(Nat) /\ upsock \in Seq(Nat) /\ p \in Seq(Nat)
          /\ q \in Seq(Nat)
      BY <1>2, <2>6
    <3>2. QED
      BY <3>1, SMTT(60)
  <2>10. (heard \o upsock') \o RequestLeft' = (heard \o upsock) \o RequestLeft
    BY <2>6, <2>7, <2>8, <2>9
  <2>11. /\ buflist' \in [items_cur : 1 .. 3, bytes_cur : [1 .. 2 -> Nat]]
         /\ \A i \in 1 .. 2 : buflist'.bytes_cur[i] <= Len(Items[i])
    BY <1>3, <1>8, <2>2, <2>3, ItemsAre
  <2>12. \A i \in 1 .. 2 : buflist.items_cur > i => buflist'.bytes_cur[i] = c[i]
    BY <1>10, <2>3
  <2>13. RequestLeft' \in Seq(Nat)
    BY <2>6, <2>8
  <2>14. QED
    BY <1>7, <2>4, <2>10, <2>11, <2>12, <2>13
<1>11. QED
  BY <1>4, <1>9, <1>10

LEMMA WriteProxyRequestIInv ==
    ASSUME IInv, WriteProxyRequest
    PROVE  IInv'
<1>1. ASSUME SelectWritable \/ RequestBlocks \/ RequestFails
      PROVE  IInv'
  <2> USE <1>1 DEF SelectWritable, RequestBlocks, RequestFails, Writing, upstreamVars, clientVars
  <2>1. RequestInOrder' /\ ForwardedInOrder' /\ bytes_len' = bytes_len
    BY RequestKept, ResponseKept
  <2>2. TypeOK'
    BY <2>1 DEF IInv, TypeOK
  <2>3. DoneMeansAll' /\ Phases'
    BY <2>1 DEF IInv, Phases, DoneMeansAll
  <2>4. QED
    BY <2>1, <2>2, <2>3 DEF IInv
<1>2. ASSUME SendRequest
      PROVE  IInv'
  <2> USE <1>2 DEF upstreamVars, clientVars
  <2>1. UNCHANGED <<type, pc, proxy_respbuf, readz, shut, heard, sent, upstream,
                    sock, received, client>>
    BY DEF SendRequest
  <2>2. ForwardedInOrder' /\ DoneMeansAll' /\ bytes_len' = bytes_len
    BY <2>1, ResponseKept
  <2>3. ~shut /\ ~shut'
    BY <2>1 DEF SendRequest, Writing, IInv, Phases
  <2>4. RequestInOrder'
    BY <2>1, <2>3, SendRequestMoves DEF IInv, RequestInOrder
  <2>5. TypeOK'
    BY <2>1, <2>2, SendRequestMoves DEF IInv, TypeOK
  <2>6. Phases'
    <3>1. \A i \in 1 .. 2 : buflist'.items_cur > i => buflist'.bytes_cur[i] = Len(Items[i])
      BY SendRequestMoves DEF IInv, Phases
    <3>2. QED
      BY <2>1, <2>2, <2>3, <3>1 DEF IInv, Phases
  <2>7. QED
    BY <2>2, <2>4, <2>5, <2>6 DEF IInv
<1>3. ASSUME ItemSent
      PROVE  IInv'
  <2> USE <1>3 DEF upstreamVars, clientVars
  <2>1. UNCHANGED <<type, proxy_respbuf, readz, shut, upsock, heard, sent, upstream,
                    sock, received, client>>
    BY DEF ItemSent
  <2>2. ForwardedInOrder' /\ DoneMeansAll' /\ bytes_len' = bytes_len
    BY <2>1, ResponseKept
  <2>3. /\ buflist \in [items_cur : 1 .. 3, bytes_cur : [1 .. 2 -> Nat]]
        /\ \A i \in 1 .. 2 : buflist.bytes_cur[i] <= Len(Items[i])
    BY DEF IInv, TypeOK
  <2>4. buflist.items_cur \in {1, 2} /\ Pending = NoBytes
    BY <2>3, ItemsAre DEF ItemSent, HasItem
  <2>5. /\ buflist'.items_cur = buflist.items_cur + 1
        /\ buflist'.bytes_cur = buflist.bytes_cur
        /\ buflist' \in [items_cur : 1 .. 3, bytes_cur : [1 .. 2 -> Nat]]
    BY <2>3, <2>4 DEF ItemSent
  <2>6. \A i \in 1 .. 2 : buflist'.items_cur > i => buflist'.bytes_cur[i] = Len(Items[i])
    <3>1. buflist.bytes_cur[buflist.items_cur] = Len(Items[buflist.items_cur])
      <4>1. CASE buflist.items_cur = 1
        BY <2>4, <4>1, Facts, RestIs, ItemsAre DEF Pending
      <4>2. CASE buflist.items_cur = 2
        BY <2>4, <4>2, Facts, RestIs, ItemsAre DEF Pending
      <4>3. QED
        BY <2>4, <4>1, <4>2
    <3>2. \A i \in 1 .. 2 : buflist.items_cur > i => buflist.bytes_cur[i] = Len(Items[i])
      BY DEF IInv, Phases
    <3>3. QED
      BY <2>4, <2>5, <3>1, <3>2
  <2>7. RequestInOrder'
    BY <2>1, <2>5 DEF IInv, RequestInOrder, RequestLeft
  <2>8. pc' = "select"
    BY DEF ItemSent
  <2>9. TypeOK'
    BY <2>1, <2>2, <2>3, <2>5, <2>8 DEF IInv, TypeOK
  <2>10. Phases'
    BY <2>1, <2>2, <2>6 DEF IInv, Phases
  <2>11. QED
    BY <2>2, <2>7, <2>9, <2>10 DEF IInv
<1>4. ASSUME RequestSent
      PROVE  IInv'
  <2> USE <1>4 DEF upstreamVars, clientVars
  <2>1. /\ UNCHANGED <<buflist, proxy_respbuf, readz, upsock, heard, sent, upstream,
                       sock, received, client>>
        /\ type' = "CTX_PROXY_PIPE_RESP" /\ pc' = "select" /\ shut' = TRUE
    BY DEF RequestSent
  <2>2. ForwardedInOrder' /\ bytes_len' = bytes_len
    BY <2>1, ResponseKept
  <2>3. RequestLeft = NoBytes
    <3>1. buflist.items_cur = 3
      BY ItemsAre DEF RequestSent, HasItem, IInv, TypeOK
    <3>2. /\ buflist.bytes_cur[1] = Len(RequestHead)
          /\ buflist.bytes_cur[2] = Len(RequestBody)
      BY <3>1, ItemsAre DEF IInv, Phases
    <3>3. /\ Rest(RequestHead, buflist.bytes_cur[1]) = NoBytes
          /\ Rest(RequestBody, buflist.bytes_cur[2]) = NoBytes
      BY <3>2, Facts, RestIs, BytesAssumption
    <3>4. NoBytes \in Seq(Nat) /\ NoBytes \o NoBytes = NoBytes
      BY EmptySeq, Joined DEF NoBytes
    <3>5. QED
      BY <3>3, <3>4 DEF RequestLeft
  <2>4. RequestInOrder'
    BY <2>1, <2>3 DEF IInv, RequestInOrder, RequestLeft
  <2>5. TypeOK'
    BY <2>1, <2>2 DEF IInv, TypeOK
  <2>6. Phases' /\ DoneMeansAll'
    BY <2>1, <2>2 DEF IInv, Phases, DoneMeansAll
  <2>7. QED
    BY <2>2, <2>4, <2>5, <2>6 DEF IInv
<1>5. QED
  BY <1>1, <1>2, <1>3, <1>4 DEF WriteProxyRequest

\* A send() of the response moves bytes from what is buffered to the socket.
LEMMA SendSomeMoves ==
    ASSUME IInv, SendSome
    PROVE  /\ sock' \in Seq(Nat) /\ Unsent' \in Seq(Nat)
           /\ Len(sock) < Len(sock') /\ bytes_len' = bytes_len
           /\ proxy_respbuf' \in [bytes : Seq(Nat), bytes_cur : Nat]
           /\ proxy_respbuf'.bytes_cur <= bytes_len'
           /\ (received \o sock') \o Unsent' = (received \o sock) \o Unsent
<1>1. PICK n \in 1 .. Len(Unsent) :
         /\ sock' = sock \o SubSeq(Unsent, 1, n)
         /\ proxy_respbuf' = [proxy_respbuf EXCEPT !.bytes_cur = @ + n]
  BY DEF SendSome
<1> DEFINE bytes == proxy_respbuf.bytes
           cur == proxy_respbuf.bytes_cur
           p == SubSeq(Unsent, 1, n)
           q == Rest(bytes, cur + n)
<1>2. proxy_respbuf \in [bytes : Seq(Nat), bytes_cur : Nat]
  BY DEF IInv, TypeOK
<1>3. bytes \in Seq(Nat) /\ cur \in 0 .. Len(bytes) /\ Len(bytes) \in Nat
  BY Facts
<1>4. cur + n \in 0 .. Len(bytes) /\ p \in Seq(Nat) /\ Len(p) = n /\ p \o q = Unsent
  BY <1>3, RestStep DEF Unsent
<1>5. /\ proxy_respbuf'.bytes = bytes /\ proxy_respbuf'.bytes_cur = cur + n
      /\ proxy_respbuf' \in [bytes : Seq(Nat), bytes_cur : Nat]
  <2>1. cur \in Nat /\ n \in Nat
    BY <1>2
  <2>2. proxy_respbuf' = [bytes |-> bytes, bytes_cur |-> cur + n]
    BY <1>1, <1>2
  <2>3. QED
    BY <1>2, <2>1, <2>2
<1>6. bytes_len' = bytes_len /\ bytes_len = Len(bytes)
  BY <1>5 DEF bytes_len
<1>7. q \in Seq(Nat) /\ Unsent' = q
  BY <1>3, <1>4, <1>5, RestIs DEF Unsent
<1>8. received \in Seq(Nat) /\ sock \in Seq(Nat)
  BY Facts
<1> HIDE DEF p, q
<1>9. (received \o (sock \o p)) \o q = (received \o sock) \o (p \o q)
  <2>1. received \in Seq(Nat) /\ sock \in Seq(Nat) /\ p \in Seq(Nat) /\ q \in Seq(Nat)
    BY <1>4, <1>7, <1>8
  <2>2. QED
    BY <2>1, SMTT(60)
<1>10. sock' = sock \o p /\ sock \o p \in Seq(Nat) /\ Len(sock) < Len(sock \o p)
  <2>1. sock \o p \in Seq(Nat) /\ Len(sock) < Len(sock \o p)
    BY <1>4, <1>8, Longer
  <2>2. QED
    BY <1>1, <2>1 DEF p
<1>11. (received \o sock') \o Unsent' = (received \o sock) \o Unsent
  BY <1>4, <1>7, <1>9, <1>10
<1>12. QED
  BY <1>4, <1>5, <1>6, <1>7, <1>10, <1>11

\* lk_read_all puts what the upstream has sent behind what is buffered.
LEMMA ReadAllAppends ==
    ASSUME IInv, lk_read_all
    PROVE  /\ bytes_len' = sent
           /\ proxy_respbuf' \in [bytes : Seq(Nat), bytes_cur : Nat]
           /\ proxy_respbuf'.bytes_cur <= bytes_len'
           /\ (received \o sock) \o Unsent' = SubSeq(Response, 1, sent)
<1> DEFINE bytes == proxy_respbuf.bytes
           cur == proxy_respbuf.bytes_cur
           more == SubSeq(Response, bytes_len + 1, sent)
<1>1. proxy_respbuf' = [proxy_respbuf EXCEPT !.bytes = @ \o more]
  BY DEF lk_read_all
<1>2. /\ proxy_respbuf \in [bytes : Seq(Nat), bytes_cur : Nat]
      /\ sent \in bytes_len .. Len(Response)
  BY DEF IInv, TypeOK
<1>3. /\ bytes \in Seq(Nat) /\ cur \in 0 .. Len(bytes) /\ bytes_len = Len(bytes)
      /\ bytes_len \in Nat /\ Len(Response) \in Nat /\ Unsent \in Seq(Nat)
      /\ received \o sock \in Seq(Nat) /\ Response \in Seq(Nat)
  BY Facts, BytesAssumption
<1>4. bytes_len \in 0 .. Len(Response)
  BY <1>2, <1>3
<1>5. /\ more \in Seq(Nat) /\ SubSeq(Response, 1, bytes_len) \in Seq(Nat)
      /\ Len(SubSeq(Response, 1, bytes_len)) = bytes_len
      /\ SubSeq(Response, 1, bytes_len) \o more = SubSeq(Response, 1, sent)
  BY <1>2, <1>3, <1>4, ReadOn
<1>6. Len(more) = sent - bytes_len
  BY <1>2, <1>3, <1>4
<1>7. /\ proxy_respbuf'.bytes = bytes \o more /\ proxy_respbuf'.bytes_cur = cur
      /\ bytes \o more \in Seq(Nat) /\ Len(bytes \o more) = Len(bytes) + Len(more)
  <2> HIDE DEF more
  <2>1. bytes \o more \in Seq(Nat) /\ Len(bytes \o more) = Len(bytes) + Len(more)
    BY <1>3, <1>5, Joined
  <2>2. QED
    BY <1>1, <1>2, <2>1
<1>8. Unsent' = Unsent \o more
  <2> HIDE DEF more
  <2>1. Rest(bytes \o more, cur) = Rest(bytes, cur) \o more
    BY <1>3, <1>5, RestGrows
  <2>2. Unsent' = Rest(proxy_respbuf'.bytes, proxy_respbuf'.bytes_cur)
    BY DEF Unsent
  <2>3. QED
    BY <1>7, <2>1, <2>2 DEF Unsent
<1>9. (received \o sock) \o (Unsent \o more) = ((received \o sock) \o Unsent) \o more
  <2> DEFINE r == received \o sock
  <2>1. r \in Seq(Nat) /\ Unsent \in Seq(Nat) /\ more \in Seq(Nat)
    BY <1>3, <1>5
  <2> HIDE DEF r, more
  <2>2. r \o (Unsent \o more) = (r \o Unsent) \o more
    BY <2>1, SMTT(60)
  <2>3. QED
    BY <2>2 DEF r
<1>10. (received \o sock) \o Unsent = SubSeq(Response, 1, bytes_len)
  BY DEF IInv, ForwardedInOrder
<1>11. (received \o sock) \o Unsent' = SubSeq(Response, 1, sent)
  BY <1>5, <1>8, <1>9, <1>10
<1>12. bytes_len' = sent
  BY <1>2, <1>3, <1>6, <1>7 DEF bytes_len
<1>13. proxy_respbuf' \in [bytes : Seq(Nat), bytes_cur : Nat]
  <2> HIDE DEF more
  <2>1. QED
    BY <1>1, <1>2, <1>7
<1>14. QED
  BY <1>2, <1>3, <1>7, <1>11, <1>12, <1>13

LEMMA PipeProxyResponseIInv ==
    ASSUME IInv, PipeProxyResponse
    PROVE  IInv'
<1>1. ASSUME SelectReadable \/ SendFails
      PROVE  IInv'
  <2> USE <1>1 DEF SelectReadable, SendFails, Piping, upstreamVars, clientVars
  <2>1. RequestInOrder' /\ ForwardedInOrder' /\ bytes_len' = bytes_len
    BY RequestKept, ResponseKept
  <2>2. TypeOK'
    BY <2>1 DEF IInv, TypeOK
  <2>3. DoneMeansAll' /\ Phases'
    BY <2>1 DEF IInv, Phases, DoneMeansAll
  <2>4. QED
    BY <2>1, <2>2, <2>3 DEF IInv
<1>2. ASSUME lk_read_all
      PROVE  IInv'
  <2> USE <1>2 DEF upstreamVars, clientVars
  <2>1. /\ UNCHANGED <<buflist, shut, upsock, heard, sent, upstream, sock, received, client>>
        /\ type = "CTX_PROXY_PIPE_RESP" /\ type' \in {type, "failed"}
        /\ pc' \in {"read", "write"} /\ readz' = ReadZ
    BY DEF lk_read_all, Piping
  <2>2. RequestInOrder'
    BY <2>1, RequestKept
  <2>3. ForwardedInOrder'
    BY <2>1, ReadAllAppends DEF ForwardedInOrder
  <2>4. sent \in bytes_len .. Len(Response) /\ Len(Response) \in Nat /\ bytes_len \in Nat
    BY Facts DEF IInv, TypeOK
  <2>5. ReadZ \in {"Z_BLOCK", "Z_EOF", "Z_ERR"} /\ (ReadZ = "Z_EOF" => upstream = "fin")
    BY DEF ReadZ, IInv, TypeOK
  <2>6. TypeOK'
    <3>1. sent' \in bytes_len' .. Len(Response)
      BY <2>1, <2>4, ReadAllAppends
    <3>2. QED
      BY <2>1, <2>5, <3>1, ReadAllAppends DEF IInv, TypeOK
  <2>7. Phases'
    <3>1. readz' = "Z_EOF" => bytes_len' = Len(Response)
      BY <2>1, <2>5, ReadAllAppends DEF IInv, Phases
    <3>2. QED
      BY <2>1, <3>1 DEF IInv, Phases
  <2>8. DoneMeansAll'
    BY <2>1 DEF DoneMeansAll
  <2>9. QED
    BY <2>2, <2>3, <2>6, <2>7, <2>8 DEF IInv
<1>3. ASSUME SendSome
      PROVE  IInv'
  <2> USE <1>3 DEF upstreamVars, clientVars
  <2>1. /\ UNCHANGED <<type, pc, buflist, readz, shut, upsock, heard, sent, upstream,
                       received, client>>
        /\ type = "CTX_PROXY_PIPE_RESP"
    BY DEF SendSome, Piping
  <2>2. RequestInOrder'
    BY <2>1, RequestKept
  <2>3. ForwardedInOrder'
    BY <2>1, SendSomeMoves DEF IInv, ForwardedInOrder
  <2>4. TypeOK'
    BY <2>1, SendSomeMoves DEF IInv, TypeOK
  <2>5. Phases' /\ DoneMeansAll'
    BY <2>1, SendSomeMoves DEF IInv, Phases, DoneMeansAll
  <2>6. QED
    BY <2>2, <2>3, <2>4, <2>5 DEF IInv
<1>4. ASSUME PipeEnds
      PROVE  IInv'
  <2> USE <1>4 DEF upstreamVars, clientVars
  <2>1. /\ UNCHANGED <<buflist, proxy_respbuf, readz, shut, upsock, heard, sent, upstream,
                       sock, received, client>>
        /\ type = "CTX_PROXY_PIPE_RESP" /\ pc' = "select"
        /\ \/ type' = type
           \/ type' = "done" /\ readz = "Z_EOF" /\ Unsent = NoBytes
    BY DEF PipeEnds, Piping
  <2>2. RequestInOrder' /\ ForwardedInOrder' /\ bytes_len' = bytes_len
    BY <2>1, RequestKept, ResponseKept
  <2>3. DoneMeansAll'
    <3>1. CASE type' = type
      BY <2>1, <3>1 DEF DoneMeansAll
    <3>2. CASE readz = "Z_EOF" /\ Unsent = NoBytes
      <4>1. bytes_len = Len(Response)
        BY <3>2 DEF IInv, Phases
      <4>2. SubSeq(Response, 1, Len(Response)) = Response
        BY BytesAssumption, SubSeqFull
      <4>3. received \in Seq(Nat) /\ sock \in Seq(Nat)
        BY Facts
      <4>4. (received \o sock) \o NoBytes = received \o sock
        BY <4>3, Joined
      <4>5. received \o sock = Response
        BY <3>2, <4>1, <4>2, <4>4 DEF IInv, ForwardedInOrder
      <4>6. QED
        BY <2>1, <4>5 DEF DoneMeansAll
    <3>3. QED
      BY <2>1, <3>1, <3>2
  <2>4. TypeOK'
    BY <2>1, <2>2 DEF IInv, TypeOK
  <2>5. Phases'
    BY <2>1, <2>2 DEF IInv, Phases
  <2>6. QED
    BY <2>2, <2>3, <2>4, <2>5 DEF IInv
<1>5. QED
  BY <1>1, <1>2, <1>3, <1>4 DEF PipeProxyResponse

LEMMA NextIInv == IInv /\ [Next]_vars => IInv'
<1> SUFFICES ASSUME IInv, [Next]_vars PROVE IInv'
  OBVIOUS
<1>1. CASE Upstream
  BY <1>1, UpstreamIInv
<1>2. CASE Client
  BY <1>2, ClientIInv
<1>3. CASE WriteProxyRequest
  BY <1>3, WriteProxyRequestIInv
<1>4. CASE PipeProxyResponse
  BY <1>4, PipeProxyResponseIInv
<1>5. CASE UNCHANGED vars
  <2>1. UNCHANGED <<type, pc, buflist, proxy_respbuf, readz, shut, upsock, heard, sent,
                    upstream, sock, received, client>>
    BY <1>5 DEF vars, server, upstreamVars, clientVars
  <2>2. RequestInOrder' /\ ForwardedInOrder' /\ DoneMeansAll' /\ bytes_len' = bytes_len
    BY <2>1, RequestKept, ResponseKept
  <2>3. TypeOK' /\ Phases'
    BY <2>1, <2>2 DEF IInv, TypeOK, Phases
  <2>4. QED
    BY <2>2, <2>3 DEF IInv
<1>6. QED
  BY <1>1, <1>2, <1>3, <1>4, <1>5 DEF Next, Server

-----------------------------------------------------------------------------
(***************************************************************************)
(* The theorems.                                                            *)
(***************************************************************************)

\* lk_write_all's and lk_read_all's cursors stay inside their buffers, and
\* items_cur inside the list or one past it, whatever is sent and received.
THEOREM TypeCorrect == Spec => []TypeOK
<1>1. IInv => TypeOK
  BY DEF IInv
<1>2. QED
  BY <1>1, InitIInv, NextIInv, PTL DEF Spec

THEOREM Invariant == Spec => []IInv
BY InitIInv, NextIInv, PTL DEF Spec

\* The upstream is sent the request as it is in the two buffers, however it is
\* cut up by partial sends, and is told its end only when that was all.
THEOREM RequestForwardedInOrder == Spec => []RequestInOrder
<1>1. IInv => RequestInOrder
  BY DEF IInv
<1>2. QED
  BY <1>1, Invariant, PTL

\* The client is sent the response as the upstream has sent it, however it is
\* cut up by partial reads and sends.
THEOREM ResponseForwardedInOrder == Spec => []ForwardedInOrder
<1>1. IInv => ForwardedInOrder
  BY DEF IInv
<1>2. QED
  BY <1>1, Invariant, PTL

\* lk_pipe_all does not end a session as a success while a byte is missing.
THEOREM SuccessMeansAll == Spec => []DoneMeansAll
<1>1. IInv => DoneMeansAll
  BY DEF IInv
<1>2. QED
  BY <1>1, Invariant, PTL

-----------------------------------------------------------------------------
(***************************************************************************)
(* Forwarding implements the exchange.                                      *)
(***************************************************************************)
toUpstream == heard \o upsock
toClient == received \o sock
outcome == IF type \in {"done", "failed"} THEN type ELSE "open"

\* A send() of the request is an Ask.
LEMMA SendRequestAsks ==
    ASSUME IInv, IInv', SendRequest
    PROVE  Exchange!Ask
<1> DEFINE n == Len(toUpstream')
<1>1. /\ heard \in Seq(Nat) /\ upsock \in Seq(Nat) /\ upsock' \in Seq(Nat)
      /\ RequestLeft' \in Seq(Nat) /\ heard' = heard /\ Len(upsock) < Len(upsock')
      /\ UNCHANGED <<received, sock, type>>
  BY Facts, SendRequestMoves DEF SendRequest, upstreamVars, clientVars
<1>2. toUpstream' \o RequestLeft' = Request
  BY DEF IInv, RequestInOrder, toUpstream, Request
<1>3. /\ toUpstream \in Seq(Nat) /\ Len(toUpstream) = Len(heard) + Len(upsock)
      /\ toUpstream' \in Seq(Nat) /\ n = Len(heard) + Len(upsock')
  <2>1. heard \o upsock \in Seq(Nat) /\ Len(heard \o upsock) = Len(heard) + Len(upsock)
    BY <1>1, Joined
  <2>2. heard \o upsock' \in Seq(Nat) /\ Len(heard \o upsock') = Len(heard) + Len(upsock')
    BY <1>1, Joined
  <2>3. toUpstream' = heard \o upsock'
    BY <1>1 DEF toUpstream
  <2>4. QED
    BY <2>1, <2>2, <2>3 DEF toUpstream
<1>4. toUpstream' = SubSeq(Request, 1, n) /\ n \in 0 .. Len(Request)
  <2> DEFINE a == toUpstream'
             b == RequestLeft'
  <2>1. a \in Seq(Nat) /\ b \in Seq(Nat) /\ a \o b = Request
    BY <1>1, <1>2, <1>3
  <2> HIDE DEF a, b
  <2>2. a = SubSeq(a \o b, 1, Len(a)) /\ Len(a) \in 0 .. Len(a \o b)
    BY <2>1, Beginning
  <2>3. QED
    BY <2>1, <2>2 DEF a
<1>5. Len(toUpstream) < n /\ n \in 1 .. Len(Request)
  <2>1. Len(heard) \in Nat /\ Len(upsock) \in Nat /\ Len(upsock') \in Nat
    BY <1>1, LenProperties
  <2> HIDE DEF n
  <2>2. QED
    BY <1>1, <1>3, <1>4, <2>1
<1>6. type = "CTX_PROXY_WRITE_REQ" /\ type' = type
  BY <1>1 DEF SendRequest, Writing
<1>7. toClient' = toClient /\ outcome = "open" /\ outcome' = outcome
  BY <1>1, <1>6 DEF toClient, outcome
<1> HIDE DEF n
<1>8. QED
  BY <1>4, <1>5, <1>7 DEF Exchange!Ask, Exchange!UpTo, toUpstream, toClient, outcome, Request

\* A send() of the response is an Answer.
LEMMA SendSomeAnswers ==
    ASSUME IInv, IInv', SendSome
    PROVE  Exchange!Answer
<1> DEFINE n == Len(toClient')
<1>1. /\ received \in Seq(Nat) /\ sock \in Seq(Nat) /\ sock' \in Seq(Nat)
      /\ Unsent' \in Seq(Nat) /\ Len(sock) < Len(sock') /\ bytes_len' = bytes_len
      /\ UNCHANGED <<received, heard, upsock, type>>
  BY Facts, SendSomeMoves DEF SendSome, upstreamVars, clientVars
<1>2. toClient' \o Unsent' = SubSeq(Response, 1, bytes_len)
  BY <1>1 DEF IInv, ForwardedInOrder, toClient
<1>3. /\ toClient \in Seq(Nat) /\ Len(toClient) = Len(received) + Len(sock)
      /\ toClient' \in Seq(Nat) /\ n = Len(received) + Len(sock')
  <2>1. received \o sock \in Seq(Nat) /\ Len(received \o sock) = Len(received) + Len(sock)
    BY <1>1, Joined
  <2>2. received \o sock' \in Seq(Nat) /\ Len(received \o sock') = Len(received) + Len(sock')
    BY <1>1, Joined
  <2>3. toClient' = received \o sock'
    BY <1>1 DEF toClient
  <2>4. QED
    BY <2>1, <2>2, <2>3 DEF toClient
<1>4. /\ bytes_len \in 0 .. Len(Response) /\ Response \in Seq(Nat)
      /\ SubSeq(Response, 1, bytes_len) \in Seq(Nat)
      /\ Len(SubSeq(Response, 1, bytes_len)) = bytes_len
  <2>1. bytes_len \in Nat /\ Len(Response) \in Nat /\ sent \in bytes_len .. Len(Response)
    BY Facts DEF IInv, TypeOK
  <2>2. bytes_len \in 0 .. Len(Response) /\ sent \in Nat
    BY <2>1
  <2>3. bytes_len \in bytes_len .. Len(Response)
    BY <2>2
  <2>4. QED
    BY <2>2, <2>3, ReadOn, BytesAssumption
<1>5. toClient' = SubSeq(SubSeq(Response, 1, bytes_len), 1, n) /\ n \in 0 .. bytes_len
  <2> DEFINE a == toClient'
             b == Unsent'
             s == SubSeq(Response, 1, bytes_len)
  <2>1. a \in Seq(Nat) /\ b \in Seq(Nat) /\ a \o b = s /\ Len(s) = bytes_len
    BY <1>1, <1>2, <1>3, <1>4
  <2> HIDE DEF a, b, s
  <2>2. a = SubSeq(a \o b, 1, Len(a)) /\ Len(a) \in 0 .. Len(a \o b)
    BY <2>1, Beginning
  <2>3. QED
    BY <2>1, <2>2 DEF a, s
<1>6. Len(toClient) < n /\ n \in 1 .. bytes_len /\ n \in 1 .. Len(Response)
  <2>1. Len(received) \in Nat /\ Len(sock) \in Nat /\ Len(sock') \in Nat
    BY <1>1, LenProperties
  <2> HIDE DEF n
  <2>2. QED
    BY <1>1, <1>3, <1>4, <1>5, <2>1
<1>7. toClient' = SubSeq(Response, 1, n)
  <2> HIDE DEF n
  <2>1. SubSeq(SubSeq(Response, 1, bytes_len), 1, n) = SubSeq(Response, 1, n)
    <3> DEFINE s == SubSeq(Response, 1, bytes_len)
               l == SubSeq(s, 1, n)
               r == SubSeq(Response, 1, n)
    <3>1. \A i \in 1 .. bytes_len : s[i] = Response[i]
      BY <1>4
    <3>2. r \in Seq(Nat) /\ Len(r) = n /\ \A i \in 1 .. n : r[i] = Response[i]
      BY <1>4, <1>6
    <3>3. s \in Seq(Nat) /\ Len(s) = bytes_len /\ bytes_len \in Nat
      BY <1>4
    <3> HIDE DEF s, r
    <3>4. l \in Seq(Nat) /\ Len(l) = n /\ \A i \in 1 .. n : l[i] = s[i]
      BY <1>6, <3>3
    <3> HIDE DEF l
    <3>5. ASSUME NEW i \in 1 .. n
          PROVE  l[i] = r[i]
      <4>1. i \in 1 .. bytes_len
        BY <1>6, <3>3
      <4>2. s[i] = Response[i]
        BY <3>1, <4>1
      <4>3. QED
        BY <3>2, <3>4, <4>2
    <3>6. l = r
      BY <3>2, <3>4, <3>5, SeqEqual
    <3>7. QED
      BY <3>6 DEF l, r, s
  <2>2. QED
    BY <1>5, <2>1 DEF n
<1>8. type = "CTX_PROXY_PIPE_RESP" /\ type' = type
  BY <1>1 DEF SendSome, Piping
<1>9. toUpstream' = toUpstream /\ outcome = "open" /\ outcome' = outcome
  BY <1>1, <1>8 DEF toUpstream, outcome
<1>10. toUpstream = Request
  <2>1. shut
    BY <1>8 DEF IInv, Phases
  <2>2. toUpstream \o NoBytes = Request
    BY <2>1 DEF IInv, RequestInOrder, toUpstream
  <2>3. heard \in Seq(Nat) /\ upsock \in Seq(Nat)
    BY Facts
  <2>4. (heard \o upsock) \o NoBytes = heard \o upsock
    BY <2>3, Joined
  <2>5. QED
    BY <2>2, <2>4 DEF toUpstream
<1> HIDE DEF n
<1>11. QED
  BY <1>6, <1>7, <1>9, <1>10 DEF Exchange!Answer, Exchange!UpTo, toUpstream, toClient, outcome, Request

LEMMA InitImplements == Init => Exchange!Init
<1> SUFFICES ASSUME Init PROVE Exchange!Init
  OBVIOUS
<1>1. NoBytes \in Seq(Nat) /\ NoBytes \o NoBytes = NoBytes
  BY EmptySeq, Joined DEF NoBytes
<1>2. /\ heard = NoBytes /\ upsock = NoBytes /\ received = NoBytes /\ sock = NoBytes
      /\ type = "CTX_PROXY_WRITE_REQ"
  BY DEF Init
<1>3. QED
  BY <1>1, <1>2 DEF Exchange!Init, NoBytes

LEMMA NextImplements ==
    IInv /\ IInv' /\ [Next]_vars => [Exchange!Next]_(Exchange!vars)
<1> SUFFICES ASSUME IInv, IInv', [Next]_vars
             PROVE  Exchange!Next \/ UNCHANGED <<toUpstream, toClient, outcome>>
  BY DEF Exchange!vars, toUpstream, toClient, outcome
<1>1. CASE UpstreamReads
  <2>1. heard \in Seq(Nat) /\ upsock \in Seq(Nat)
    BY Facts
  <2>2. (heard \o upsock) \o NoBytes = heard \o upsock
    BY <2>1, Joined
  <2>3. heard' = heard \o upsock /\ upsock' = NoBytes /\ UNCHANGED <<received, sock, type>>
    BY <1>1 DEF UpstreamReads, server, clientVars
  <2>4. QED
    BY <2>2, <2>3 DEF toUpstream, toClient, outcome
<1>2. CASE ClientReads
  <2>1. received \in Seq(Nat) /\ sock \in Seq(Nat)
    BY Facts
  <2>2. (received \o sock) \o NoBytes = received \o sock
    BY <2>1, Joined
  <2>3. received' = received \o sock /\ sock' = NoBytes /\ UNCHANGED <<heard, upsock, type>>
    BY <1>2 DEF ClientReads, server, upstreamVars
  <2>4. QED
    BY <2>2, <2>3 DEF toUpstream, toClient, outcome
<1>3. CASE SendRequest
  BY <1>3, SendRequestAsks DEF Exchange!Next
<1>4. CASE SendSome
  BY <1>4, SendSomeAnswers DEF Exchange!Next
<1>5. CASE RequestFails \/ SendFails \/ (lk_read_all /\ type' = "failed")
  <2>1. /\ UNCHANGED <<heard, upsock, received, sock>>
        /\ type \notin {"done", "failed"} /\ type' = "failed"
    BY <1>5 DEF RequestFails, SendFails, lk_read_all, Writing, Piping, upstreamVars, clientVars
  <2>2. Exchange!Fail
    BY <2>1 DEF Exchange!Fail
  <2>3. QED
    BY <2>2 DEF Exchange!Next
<1>6. CASE PipeEnds /\ type' = "done"
  <2>1. /\ UNCHANGED <<heard, upsock, received, sock>>
        /\ type = "CTX_PROXY_PIPE_RESP" /\ type' = "done"
    BY <1>6 DEF PipeEnds, Piping, upstreamVars, clientVars
  <2>2. received \o sock = Response
    BY <2>1 DEF IInv, DoneMeansAll
  <2>3. heard \o upsock = Request
    <3>1. shut
      BY <2>1 DEF IInv, Phases
    <3>2. (heard \o upsock) \o NoBytes = Request
      BY <3>1 DEF IInv, RequestInOrder
    <3>3. heard \in Seq(Nat) /\ upsock \in Seq(Nat)
      BY Facts
    <3>4. (heard \o upsock) \o NoBytes = heard \o upsock
      BY <3>3, Joined
    <3>5. QED
      BY <3>2, <3>4
  <2>4. Exchange!Finish
    BY <2>1, <2>2, <2>3 DEF Exchange!Finish
  <2>5. QED
    BY <2>4 DEF Exchange!Next
<1>7. CASE UpstreamSends \/ UpstreamEnds \/ UpstreamBreaks \/ ClientBreaks
  BY <1>7 DEF UpstreamSends, UpstreamEnds, UpstreamBreaks, ClientBreaks, server,
              upstreamVars, clientVars, toUpstream, toClient, outcome
<1>8. CASE SelectWritable \/ RequestBlocks \/ ItemSent \/ RequestSent
  BY <1>8 DEF SelectWritable, RequestBlocks, ItemSent, RequestSent, Writing, upstreamVars,
              clientVars, toUpstream, toClient, outcome
<1>9. CASE SelectReadable \/ (lk_read_all /\ type' # "failed") \/ (PipeEnds /\ type' # "done")
  BY <1>9 DEF SelectReadable, lk_read_all, PipeEnds, Piping, upstreamVars, clientVars,
              toUpstream, toClient, outcome
<1>10. CASE UNCHANGED vars
  BY <1>10 DEF vars, server, upstreamVars, clientVars, toUpstream, toClient, outcome
<1>11. QED
  BY <1>1, <1>2, <1>3, <1>4, <1>5, <1>6, <1>7, <1>8, <1>9, <1>10
     DEF Next, Upstream, Client, Server, WriteProxyRequest, PipeProxyResponse

\* The handlers, sockets and partial sends of LKProxy implement the exchange of
\* LKExchange: the whole request, then the response, and success only with both.
THEOREM ForwardingImplementsExchange == Spec => ImplementsExchange
<1>1. Spec => []IInv
  BY Invariant
<1>2. QED
  BY <1>1, InitImplements, NextImplements, PTL DEF Spec, ImplementsExchange, Exchange!Spec
=============================================================================
