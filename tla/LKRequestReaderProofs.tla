------------------------ MODULE LKRequestReaderProofs ------------------------
(***************************************************************************)
(* Proofs about LKRequestReader, for every stream, buffer size and way to   *)
(* end: no byte is lost, the parser agrees with the reference at each       *)
(* select(), and a request is processed exactly when it is complete.        *)
(*                                                                          *)
(* The first part is about the reference alone: what one more line, or a    *)
(* part of one, makes of the head of a stream.                              *)
(***************************************************************************)
EXTENDS LKRequestReader, SequenceTheorems, WellFoundedInduction, TLAPS

Bytes == Seq(STRING)

\* A part of a line, and a whole line.
Unended(s) == \A i \in 1 .. Len(s) : s[i] # LF
IsLine(s) ==
    Len(s) # 0 /\ s[Len(s)] = LF /\ \A i \in 1 .. Len(s) - 1 : s[i] # LF

\* Whole lines, end to end.
EndsLine(s) == s = << >> \/ s[Len(s)] = LF

-----------------------------------------------------------------------------
(***************************************************************************)
(* The reference by positions.                                              *)
(***************************************************************************)
LEMMA BlankPart ==
    ASSUME NEW s \in Bytes, NEW b \in 0 .. Len(s), NEW e \in 0 .. Len(s)
    PROVE  is_empty_line(SubSeq(s, b + 1, e))
              <=> \A i \in b + 1 .. e : s[i] \in Blanks
<1> DEFINE t == SubSeq(s, b + 1, e)
<1>1. /\ t \in Bytes
      /\ Len(t) = IF b + 1 <= e THEN e - b ELSE 0
      /\ \A i \in 1 .. e - b : t[i] = s[b + i]
  <2>1. \A i \in b + 1 .. e : s[i] \in STRING
    BY DEF Bytes
  <2>2. b + 1 \in Int /\ e \in Int /\ Len(s) \in Nat
    BY DEF Bytes
  <2>3. /\ t \in Bytes
        /\ Len(t) = IF b + 1 <= e THEN e - (b + 1) + 1 ELSE 0
        /\ \A i \in 1 .. e - (b + 1) + 1 : t[i] = s[b + 1 + i - 1]
    BY <2>1, <2>2, SubSeqProperties DEF Bytes
  <2>4. QED
    BY <2>2, <2>3
<1>2. DOMAIN t = 1 .. Len(t)
  BY <1>1, LenProperties DEF Bytes
<1>3. is_empty_line(t) <=> \A i \in 1 .. Len(t) : t[i] \in Blanks
  BY <1>2 DEF is_empty_line, ToSet
<1>4. ASSUME \A i \in 1 .. Len(t) : t[i] \in Blanks, NEW i \in b + 1 .. e
      PROVE  s[i] \in Blanks
  <2>1. i - b \in 1 .. Len(t) /\ i - b \in 1 .. e - b /\ b + (i - b) = i
    BY <1>1
  <2>2. t[i - b] = s[i]
    BY <1>1, <2>1
  <2>3. QED
    BY <1>4, <2>1, <2>2
<1>5. ASSUME \A i \in b + 1 .. e : s[i] \in Blanks, NEW i \in 1 .. Len(t)
      PROVE  t[i] \in Blanks
  <2>1. i \in 1 .. e - b /\ b + i \in b + 1 .. e
    BY <1>1
  <2>2. QED
    BY <1>1, <1>5, <2>1
<1>6. QED
  BY <1>3, <1>4, <1>5

\* e ends the head: a line feed, and from a line feed before it only blanks.
IsHeadEnd(s, e) ==
    /\ e \in 1 .. Len(s) /\ s[e] = LF
    /\ \E b \in 1 .. e - 1 : s[b] = LF /\ \A i \in b + 1 .. e : s[i] \in Blanks

LEMMA HeadEndsAre ==
    ASSUME NEW s \in Bytes
    PROVE  HeadEnds(s) = {e \in 1 .. Len(s) : IsHeadEnd(s, e)}
<1>1. DOMAIN s = 1 .. Len(s) /\ Len(s) \in Nat
  BY LenProperties DEF Bytes
<1>2. ASSUME NEW e \in 1 .. Len(s), NEW b \in 1 .. Len(s)
      PROVE  is_empty_line(SubSeq(s, b + 1, e))
                <=> \A i \in b + 1 .. e : s[i] \in Blanks
  <2>1. b \in 0 .. Len(s) /\ e \in 0 .. Len(s)
    BY <1>1
  <2>2. QED
    BY <2>1, BlankPart
<1>3. ASSUME NEW e \in HeadEnds(s)
      PROVE  e \in 1 .. Len(s) /\ IsHeadEnd(s, e)
  <2>1. PICK b \in LineEnds(s) : b < e /\ is_empty_line(SubSeq(s, b + 1, e))
    BY <1>3 DEF HeadEnds
  <2>2. /\ e \in 1 .. Len(s) /\ s[e] = LF
        /\ b \in 1 .. Len(s) /\ s[b] = LF
    BY <1>1, <1>3 DEF HeadEnds, LineEnds
  <2>3. b \in 1 .. e - 1
    BY <1>1, <2>1, <2>2
  <2>4. QED
    BY <1>2, <2>1, <2>2, <2>3 DEF IsHeadEnd
<1>4. ASSUME NEW e \in 1 .. Len(s), IsHeadEnd(s, e)
      PROVE  e \in HeadEnds(s)
  <2>1. PICK b \in 1 .. e - 1 :
           s[b] = LF /\ \A i \in b + 1 .. e : s[i] \in Blanks
    BY <1>4 DEF IsHeadEnd
  <2>2. b \in 1 .. Len(s) /\ b < e
    BY <1>1
  <2>3. is_empty_line(SubSeq(s, b + 1, e))
    BY <1>2, <2>1, <2>2
  <2>4. b \in LineEnds(s) /\ e \in LineEnds(s)
    BY <1>1, <1>4, <2>1, <2>2 DEF LineEnds, IsHeadEnd
  <2>5. QED
    BY <2>2, <2>3, <2>4 DEF HeadEnds
<1>5. QED
  BY <1>3, <1>4

\* The bytes of two sequences end to end.
LEMMA Joined ==
    ASSUME NEW s \in Bytes, NEW t \in Bytes
    PROVE  /\ s \o t \in Bytes
           /\ Len(s) \in Nat /\ Len(t) \in Nat /\ Len(s \o t) = Len(s) + Len(t)
           /\ \A i \in 1 .. Len(s) : (s \o t)[i] = s[i]
           /\ \A i \in 1 .. Len(t) : (s \o t)[Len(s) + i] = t[i]
<1>1. Len(s) \in Nat /\ Len(t) \in Nat
  BY DEF Bytes
<1>2. /\ s \o t \in Bytes /\ Len(s \o t) = Len(s) + Len(t)
      /\ \A i \in 1 .. Len(s) + Len(t) :
            (s \o t)[i] = IF i <= Len(s) THEN s[i] ELSE t[i - Len(s)]
  BY ConcatProperties DEF Bytes
<1>3. ASSUME NEW i \in 1 .. Len(t)
      PROVE  (s \o t)[Len(s) + i] = t[i]
  <2>1. /\ Len(s) + i \in 1 .. Len(s) + Len(t)
        /\ ~(Len(s) + i <= Len(s)) /\ Len(s) + i - Len(s) = i
    BY <1>1
  <2>2. QED
    BY <1>2, <2>1
<1>4. ASSUME NEW i \in 1 .. Len(s)
      PROVE  (s \o t)[i] = s[i]
  BY <1>1, <1>2
<1>5. QED
  BY <1>1, <1>2, <1>3, <1>4

\* What follows the first bytes does not change which of them end the head.
LEMMA HeadEndsStay ==
    ASSUME NEW s \in Bytes, NEW t \in Bytes, NEW e \in 1 .. Len(s)
    PROVE  e \in HeadEnds(s \o t) <=> e \in HeadEnds(s)
<1>1. e \in 1 .. Len(s \o t)
  BY Joined
<1>2. \A i \in 1 .. e : (s \o t)[i] = s[i]
  BY Joined
<1>3. IsHeadEnd(s \o t, e) <=> IsHeadEnd(s, e)
  <2>1. (s \o t)[e] = s[e]
    BY <1>2
  <2>2. ASSUME NEW b \in 1 .. e - 1
        PROVE  /\ (s \o t)[b] = s[b]
               /\ \A i \in b + 1 .. e : (s \o t)[i] = s[i]
    BY <1>2
  <2>3. QED
    BY <1>1, <2>1, <2>2 DEF IsHeadEnd
<1>4. QED
  BY <1>1, <1>3, HeadEndsAre, Joined

\* A head that has just been completed is the head of all that follows it.
LEMMA HeadFound ==
    ASSUME NEW h \in Bytes, HeadEnds(h) = {Len(h)}, NEW t \in Bytes
    PROVE  /\ HasHead(h \o t) /\ HeadEnd(h \o t) = Len(h)
           /\ Head_(h \o t) = h /\ Body_(h \o t) = t
<1> DEFINE s == h \o t
<1>1. Len(h) \in 1 .. Len(h) /\ Len(h) \in HeadEnds(h)
  BY HeadEndsAre
<1>2. Len(h) \in HeadEnds(s)
  BY <1>1, HeadEndsStay
<1>3. \A d \in HeadEnds(s) : Len(h) <= d
  <2>1. SUFFICES ASSUME NEW d \in HeadEnds(s), d < Len(h)
                 PROVE  FALSE
    BY HeadEndsAre, Joined
  <2>2. d \in 1 .. Len(h)
    BY <2>1, HeadEndsAre, Joined
  <2>3. d \in HeadEnds(h)
    BY <2>2, <2>1, HeadEndsStay
  <2>4. QED
    BY <2>1, <2>2, <2>3
<1>4. HeadEnd(s) = Len(h)
  <2>1. HeadEnds(s) \subseteq Int
    BY HeadEndsAre, Joined
  <2>2. \A e \in HeadEnds(s) : (\A d \in HeadEnds(s) : e <= d) => e = Len(h)
    BY <1>2, <1>3, <2>1, Joined
  <2>3. QED
    BY <1>2, <1>3, <2>2 DEF HeadEnd
<1>5. Head_(s) = h
  <2>1. \A i \in 1 .. Len(h) : s[i] = h[i] /\ h[i] \in STRING
    BY Joined DEF Bytes
  <2>2. /\ SubSeq(s, 1, Len(h)) \in Seq(STRING)
        /\ Len(SubSeq(s, 1, Len(h))) = IF 1 <= Len(h) THEN Len(h) - 1 + 1 ELSE 0
        /\ \A i \in 1 .. Len(h) - 1 + 1 : SubSeq(s, 1, Len(h))[i] = s[1 + i - 1]
    BY <2>1, Joined, SubSeqProperties
  <2>3. /\ Len(SubSeq(s, 1, Len(h))) = Len(h)
        /\ \A i \in 1 .. Len(h) : SubSeq(s, 1, Len(h))[i] = h[i]
    BY <1>1, <2>1, <2>2, Joined
  <2>4. SubSeq(s, 1, Len(h)) = h
    BY <2>2, <2>3, SeqEqual DEF Bytes
  <2>5. QED
    BY <1>4, <2>4 DEF Head_
<1>6. Body_(s) = t
  <2> DEFINE u == SubSeq(s, Len(h) + 1, Len(s))
  <2>1. /\ Len(h) \in Nat /\ Len(t) \in Nat /\ Len(s) = Len(h) + Len(t)
        /\ \A i \in 1 .. Len(t) : s[Len(h) + i] = t[i]
    BY Joined
  <2>2. \A i \in Len(h) + 1 .. Len(s) : s[i] \in STRING
    BY <2>1, Joined DEF Bytes
  <2>3. /\ u \in Seq(STRING)
        /\ Len(u) = IF Len(h) + 1 <= Len(s) THEN Len(s) - (Len(h) + 1) + 1 ELSE 0
        /\ \A i \in 1 .. Len(s) - (Len(h) + 1) + 1 : u[i] = s[Len(h) + 1 + i - 1]
    <3>1. Len(h) + 1 \in Int /\ Len(s) \in Int
      BY <2>1
    <3>2. QED
      BY <2>2, <3>1, SubSeqProperties
  <2>4. /\ Len(u) = Len(t)
        /\ \A i \in 1 .. Len(t) : u[i] = s[Len(h) + i]
    BY <2>1, <2>3
  <2>5. u = t
    BY <2>1, <2>3, <2>4, SeqEqual DEF Bytes
  <2>6. QED
    BY <1>4, <2>5 DEF Body_
<1>7. QED
  BY <1>2, <1>4, <1>5, <1>6 DEF HasHead

\* A part of a line does not end the head.
LEMMA NoHeadYet ==
    ASSUME NEW h \in Bytes, HeadEnds(h) = {}, NEW t \in Bytes, Unended(t)
    PROVE  HeadEnds(h \o t) = {}
<1>1. SUFFICES ASSUME NEW e \in HeadEnds(h \o t)
               PROVE  FALSE
  OBVIOUS
<1>2. e \in 1 .. Len(h) + Len(t) /\ (h \o t)[e] = LF
  <2>1. h \o t \in Bytes /\ Len(h \o t) = Len(h) + Len(t)
    BY Joined
  <2>2. e \in 1 .. Len(h \o t) /\ IsHeadEnd(h \o t, e)
    BY <1>1, <2>1, HeadEndsAre
  <2>3. QED
    BY <2>1, <2>2 DEF IsHeadEnd
<1>3. CASE e \in 1 .. Len(h)
  BY <1>1, <1>3, HeadEndsStay
<1>4. CASE e \notin 1 .. Len(h)
  <2>1. e - Len(h) \in 1 .. Len(t) /\ Len(h) + (e - Len(h)) = e
    BY <1>2, <1>4, Joined
  <2>2. t[e - Len(h)] = LF
    BY <1>2, <2>1, Joined
  <2>3. QED
    BY <2>1, <2>2 DEF Unended
<1>5. QED
  BY <1>3, <1>4

\* A line ends the head if it is empty and not the first one.
LEMMA LineAdded ==
    ASSUME NEW h \in Bytes, HeadEnds(h) = {}, EndsLine(h),
           NEW line \in Bytes, IsLine(line)
    PROVE  HeadEnds(h \o line) =
              IF h # << >> /\ is_empty_line(line) THEN {Len(h \o line)} ELSE {}
<1> DEFINE s == h \o line
<1>1. /\ s \in Bytes /\ Len(h) \in Nat /\ Len(line) \in Nat \ {0}
      /\ Len(s) = Len(h) + Len(line)
      /\ \A i \in 1 .. Len(h) : s[i] = h[i]
      /\ \A i \in 1 .. Len(line) : s[Len(h) + i] = line[i]
  BY Joined DEF IsLine
<1>2. is_empty_line(line) <=> \A i \in 1 .. Len(line) : line[i] \in Blanks
  <2>1. DOMAIN line = 1 .. Len(line)
    BY LenProperties DEF Bytes
  <2>2. QED
    BY <2>1 DEF is_empty_line, ToSet
<1>3. h = << >> <=> Len(h) = 0
  BY EmptySeq DEF Bytes
<1>4. ASSUME NEW i \in Len(h) + 1 .. Len(s)
      PROVE  i - Len(h) \in 1 .. Len(line) /\ s[i] = line[i - Len(h)]
  <2>1. i - Len(h) \in 1 .. Len(line) /\ Len(h) + (i - Len(h)) = i
    BY <1>1
  <2>2. QED
    BY <1>1, <2>1
<1>5. ASSUME NEW e \in HeadEnds(s)
      PROVE  h # << >> /\ is_empty_line(line) /\ e = Len(s)
  <2>1. e \in 1 .. Len(s) /\ IsHeadEnd(s, e)
    BY <1>1, HeadEndsAre
  <2>2. e \notin 1 .. Len(h)
    BY HeadEndsStay
  <2>3. e \in Len(h) + 1 .. Len(s)
    BY <1>1, <2>1, <2>2
  <2>4. s[e] = line[e - Len(h)] /\ e - Len(h) \in 1 .. Len(line) /\ s[e] = LF
    BY <1>4, <2>1, <2>3 DEF IsHeadEnd
  <2>5. e - Len(h) = Len(line)
    <3>1. e - Len(h) \notin 1 .. Len(line) - 1
      BY <2>4 DEF IsLine
    <3>2. QED
      BY <1>1, <2>4, <3>1
  <2>6. e = Len(s)
    BY <1>1, <2>1, <2>5
  <2>7. PICK b \in 1 .. e - 1 : s[b] = LF /\ \A i \in b + 1 .. e : s[i] \in Blanks
    BY <2>1 DEF IsHeadEnd
  <2>8. b \in 1 .. Len(h)
    <3>1. SUFFICES ASSUME b \notin 1 .. Len(h) PROVE FALSE
      OBVIOUS
    <3>2. b \in Len(h) + 1 .. Len(s) /\ b - Len(h) \in 1 .. Len(line) - 1
      BY <1>1, <2>6, <3>1
    <3>3. s[b] = line[b - Len(h)]
      BY <1>4, <3>2
    <3>4. QED
      BY <2>7, <3>2, <3>3 DEF IsLine
  <2>9. h # << >>
    BY <1>3, <2>8
  <2>10. ASSUME NEW i \in 1 .. Len(line)
         PROVE  line[i] \in Blanks
    <3>1. Len(h) + i \in b + 1 .. e
      BY <1>1, <2>6, <2>8
    <3>2. QED
      BY <1>1, <2>7, <3>1
  <2>11. QED
    BY <1>2, <2>6, <2>9, <2>10
<1>6. ASSUME h # << >>, is_empty_line(line)
      PROVE  Len(s) \in HeadEnds(s)
  <2>1. Len(h) \in 1 .. Len(s) - 1 /\ Len(h) \in 1 .. Len(h)
    BY <1>1, <1>3, <1>6
  <2>2. s[Len(h)] = LF
    BY <1>1, <1>6, <2>1 DEF EndsLine
  <2>3. \A i \in Len(h) + 1 .. Len(s) : s[i] \in Blanks
    BY <1>2, <1>4, <1>6
  <2>4. Len(s) \in 1 .. Len(s) /\ Len(line) \in 1 .. Len(line)
    BY <1>1
  <2>5. s[Len(s)] = LF
    BY <1>1, <2>4 DEF IsLine
  <2>6. IsHeadEnd(s, Len(s))
    BY <2>1, <2>2, <2>3, <2>4, <2>5 DEF IsHeadEnd
  <2>7. QED
    BY <1>1, <2>4, <2>6, HeadEndsAre
<1>7. QED
  BY <1>5, <1>6

\* The value of a Content-Length line: the one after the name.
ValueOf(line) == IF line[2] \in DOMAIN Lengths THEN Lengths[line[2]] ELSE 0

\* Where the Content-Length lines of s begin.
LengthLines(s) == {i \in 2 .. Len(s) : s[i] = CL /\ s[i - 1] = LF}

LastOf(S) == CHOOSE i \in S : \A j \in S : j <= i

\* One of them is the last.
LEMMA LastLine ==
    ASSUME NEW n \in Nat, NEW S \in SUBSET (1 .. n), S # {}
    PROVE  \E i \in S : \A j \in S : j <= i
<1> DEFINE T == {n - i : i \in S}
<1>1. T \subseteq Nat /\ T # {}
  <2>1. ASSUME NEW i \in S
        PROVE  n - i \in Nat
    <3>1. i \in 1 .. n
      OBVIOUS
    <3>2. QED
      BY <3>1
  <2>2. \A x \in T : \E i \in S : x = n - i
    OBVIOUS
  <2>3. T # {}
    <3>1. PICK i \in S : TRUE
      OBVIOUS
    <3>2. n - i \in T
      BY <3>1
    <3>3. QED
      BY <3>2
  <2>4. QED
    BY <2>1, <2>2, <2>3
<1>2. PICK x \in T : \A y \in T : <<y, x>> \notin OpToRel(<, Nat)
  BY <1>1, NatLessThanWellFounded, WFMin, Zenon
<1>3. PICK i \in S : x = n - i
  OBVIOUS
<1>4. ASSUME NEW j \in S, ~(j <= i)
      PROVE  FALSE
  <2>1. n - j \in T /\ n - j \in Nat /\ x \in Nat /\ n - j < x
    BY <1>1, <1>3, <1>4
  <2>2. <<n - j, x>> \in {ss \in Nat \X Nat : ss[1] < ss[2]}
    BY <2>1
  <2>3. QED
    BY <1>2, <2>1, <2>2 DEF OpToRel
<1>5. QED
  BY <1>4

LEMMA ContentLengthIs ==
    ASSUME NEW s
    PROVE  ContentLength(s) =
              IF LengthLines(s) = {} THEN 0
              ELSE IF s[LastOf(LengthLines(s)) + 1] \in DOMAIN Lengths
                   THEN Lengths[s[LastOf(LengthLines(s)) + 1]] ELSE 0
BY DEF ContentLength, LengthLines, LastOf

\* A line that begins with the name is one more Content-Length line, unless it
\* is the first line.
LEMMA LengthLinesAdded ==
    ASSUME NEW h \in Bytes, EndsLine(h), NEW line \in Bytes, IsLine(line)
    PROVE  LengthLines(h \o line) =
              LengthLines(h) \cup (IF h # << >> /\ line[1] = CL
                                   THEN {Len(h) + 1} ELSE {})
<1> DEFINE s == h \o line
<1>1. /\ s \in Bytes /\ Len(h) \in Nat /\ Len(line) \in Nat \ {0}
      /\ Len(s) = Len(h) + Len(line)
      /\ \A i \in 1 .. Len(h) : s[i] = h[i]
      /\ \A i \in 1 .. Len(line) : s[Len(h) + i] = line[i]
  BY Joined DEF IsLine
<1>2. h = << >> <=> Len(h) = 0
  BY EmptySeq DEF Bytes
<1>3. ASSUME NEW i \in 2 .. Len(h)
      PROVE  i \in LengthLines(s) <=> i \in LengthLines(h)
  <2>1. i \in 1 .. Len(h) /\ i - 1 \in 1 .. Len(h) /\ i \in 2 .. Len(s)
    BY <1>1
  <2>2. s[i] = h[i] /\ s[i - 1] = h[i - 1]
    BY <1>1, <2>1
  <2>3. QED
    BY <2>1, <2>2 DEF LengthLines
<1>4. ASSUME NEW i \in Len(h) + 2 .. Len(s)
      PROVE  i \notin LengthLines(s)
  <2>1. /\ i - 1 - Len(h) \in 1 .. Len(line) - 1 /\ i - 1 - Len(h) \in 1 .. Len(line)
        /\ Len(h) + (i - 1 - Len(h)) = i - 1
    BY <1>1
  <2>2. s[i - 1] = line[i - 1 - Len(h)]
    BY <1>1, <2>1
  <2>3. s[i - 1] # LF
    BY <2>1, <2>2 DEF IsLine
  <2>4. QED
    BY <2>3 DEF LengthLines
<1>5. ASSUME h # << >>
      PROVE  Len(h) + 1 \in LengthLines(s) <=> line[1] = CL
  <2>1. Len(h) + 1 \in 2 .. Len(s) /\ Len(h) \in 1 .. Len(h) /\ 1 \in 1 .. Len(line)
    BY <1>1, <1>2, <1>5
  <2>2. s[Len(h)] = LF /\ s[Len(h) + 1] = line[1] /\ Len(h) + 1 - 1 = Len(h)
    BY <1>1, <1>5, <2>1 DEF EndsLine
  <2>3. QED
    BY <2>1, <2>2 DEF LengthLines
<1>6. LengthLines(s) \subseteq 2 .. Len(s) /\ LengthLines(h) \subseteq 2 .. Len(h)
  BY DEF LengthLines
<1>7. ASSUME NEW i \in 2 .. Len(s)
      PROVE  i \in 2 .. Len(h) \/ (i = Len(h) + 1 /\ h # << >>)
                \/ i \in Len(h) + 2 .. Len(s)
  BY <1>1, <1>2
<1>8. 2 .. Len(h) \subseteq 2 .. Len(s) /\ Len(h) + 1 \notin 2 .. Len(h)
  BY <1>1
<1>9. CASE h # << >> /\ line[1] = CL
  <2>1. Len(h) + 1 \in LengthLines(s)
    BY <1>5, <1>9
  <2>2. QED
    BY <1>3, <1>4, <1>6, <1>7, <1>8, <1>9, <2>1
<1>10. CASE ~(h # << >> /\ line[1] = CL)
  <2>1. h # << >> => Len(h) + 1 \notin LengthLines(s)
    BY <1>5, <1>10
  <2>2. QED
    BY <1>3, <1>4, <1>6, <1>7, <1>8, <1>10, <2>1
<1>11. QED
  BY <1>9, <1>10

\* The last Content-Length line counts: what a line makes of it.
LEMMA LengthAdded ==
    ASSUME NEW h \in Bytes, EndsLine(h), NEW line \in Bytes, IsLine(line)
    PROVE  ContentLength(h \o line) =
              IF h # << >> /\ line[1] = CL THEN ValueOf(line) ELSE ContentLength(h)
<1> DEFINE s == h \o line
<1>1. /\ s \in Bytes /\ Len(h) \in Nat /\ Len(line) \in Nat \ {0}
      /\ Len(s) = Len(h) + Len(line)
      /\ \A i \in 1 .. Len(h) : s[i] = h[i]
      /\ \A i \in 1 .. Len(line) : s[Len(h) + i] = line[i]
  BY Joined DEF IsLine
<1>2. LengthLines(h) \subseteq 2 .. Len(h)
  BY DEF LengthLines
<1>3. CASE h # << >> /\ line[1] = CL
  <2>1. Len(h) + 1 \in LengthLines(s) /\ \A j \in LengthLines(s) : j <= Len(h) + 1
    BY <1>1, <1>2, <1>3, LengthLinesAdded
  <2>2. LengthLines(s) \subseteq Int
    BY <1>1, <1>2, <1>3, LengthLinesAdded
  <2>3. \A i \in LengthLines(s) :
           (\A j \in LengthLines(s) : j <= i) => i = Len(h) + 1
    BY <1>1, <2>1, <2>2
  <2>4. LastOf(LengthLines(s)) = Len(h) + 1
    BY <2>1, <2>3 DEF LastOf
  <2>5. line[Len(line)] = LF
    BY DEF IsLine
  <2>6. 2 \in 1 .. Len(line)
    <3>1. Len(line) # 1
      BY <1>3, <2>5 DEF LF, CL
    <3>2. ASSUME NEW n \in Nat, n # 0, n # 1
          PROVE  2 \in 1 .. n
      BY <3>2
    <3>3. QED
      BY <1>1, <3>1, <3>2
  <2>7. s[Len(h) + 1 + 1] = line[2]
    <3>1. Len(h) + 1 + 1 = Len(h) + 2
      BY <1>1
    <3>2. QED
      BY <1>1, <2>6, <3>1
  <2>8. QED
    BY <1>3, <2>1, <2>4, <2>7, ContentLengthIs DEF ValueOf
<1>4. CASE ~(h # << >> /\ line[1] = CL)
  <2>1. LengthLines(s) = LengthLines(h)
    BY <1>4, LengthLinesAdded
  <2>2. CASE LengthLines(h) = {}
    BY <1>4, <2>1, <2>2, ContentLengthIs
  <2>3. CASE LengthLines(h) # {}
    <3> DEFINE last == LastOf(LengthLines(h))
    <3>1. last \in LengthLines(h)
      <4>1. Len(h) \in Nat /\ LengthLines(h) \in SUBSET (1 .. Len(h))
        BY <1>1, <1>2
      <4>2. \E i \in LengthLines(h) : \A j \in LengthLines(h) : j <= i
        BY <2>3, <4>1, LastLine
      <4>3. QED
        BY <4>2 DEF LastOf
    <3>2. last \in 2 .. Len(h) /\ h[last] = CL
      BY <3>1 DEF LengthLines
    <3>3. last # Len(h)
      <4>1. Len(h) # 0
        BY <1>1, <3>2
      <4>2. h # << >>
        BY <4>1
      <4>3. h[Len(h)] = LF
        BY <4>2 DEF EndsLine
      <4>4. QED
        BY <3>2, <4>3 DEF LF, CL
    <3>4. last + 1 \in 1 .. Len(h)
      BY <1>1, <3>2, <3>3
    <3>5. s[last + 1] = h[last + 1]
      BY <1>1, <3>4
    <3>6. QED
      BY <1>4, <2>1, <2>3, <3>5, ContentLengthIs
  <2>4. QED
    BY <2>2, <2>3
<1>5. QED
  BY <1>3, <1>4

-----------------------------------------------------------------------------
(***************************************************************************)
(* The inductive invariant.  What a read error has made of the request is   *)
(* of no interest: only the types and the last two facts survive it.        *)
(***************************************************************************)
ParserType == [partial_line : Seq(STRING), nlinesread : Nat, content_length : Nat,
               head_complete : BOOLEAN, body_complete : BOOLEAN]
RequestType == [head : Seq(STRING), body : Seq(STRING)]

\* The two are abbreviations, expanded everywhere.
USE DEF ParserType, RequestType

\* The head so far: whole lines, and the parser has seen what is in them.
AtLines ==
    /\ EndsLine(req.head)
    /\ req.head = << >> <=> parser.nlinesread = 0
    /\ parser.content_length = ContentLength(req.head)
    /\ HeadEnds(req.head) = IF parser.head_complete THEN {Len(req.head)} ELSE {}

\* Which of the pieces between the socket and the request may hold bytes when.
Pieces ==
    /\ pc # "readline" => req_line = << >>
    /\ pc = "readline" => ~parser.head_complete
    /\ pc = "recv" => parser.head_complete
    /\ ~parser.head_complete =>
          req.body = << >> /\ Unended(parser.partial_line) /\ Unended(req_line)
    /\ parser.head_complete => parser.partial_line = << >>
    /\ pc = "processed" /\ ~parser.head_complete => buf = << >>

\* The body is waited for until it is there.
BodyAwaited ==
    /\ pc = "processed" /\ peer = "open" =>
          parser.head_complete /\ Len(req.body) >= parser.content_length
    /\ pc # "processed" /\ parser.head_complete =>
          Len(req.body) < parser.content_length

IInv ==
    /\ TypeOK
    /\ NoByteLost
    /\ peer # "failed" => AtLines /\ Pieces /\ BodyAwaited
    /\ parser.body_complete => pc = "processed"
    /\ pc = "select" => buf = << >>

-----------------------------------------------------------------------------
(***************************************************************************)
(* The parser.                                                              *)
(***************************************************************************)
\* What parse_line makes of a line while the head is not complete.
LEMMA LineParsed ==
    ASSUME TypeOK, AtLines, ~parser.head_complete, ~parser.body_complete,
           NEW w \in Bytes, IsLine(w),
           NEW p, p = parse_line(parser, w), NEW h, h = req.head \o w
    PROVE  /\ p \in ParserType
           /\ h \in Bytes /\ EndsLine(h)
           /\ h = << >> <=> p.nlinesread = 0
           /\ p.content_length = ContentLength(h)
           /\ HeadEnds(h) = IF p.head_complete THEN {Len(h)} ELSE {}
           /\ p.body_complete <=> p.head_complete /\ p.content_length = 0
<1> DEFINE q == [parser EXCEPT !.nlinesread = @ + 1]
<1>1. /\ parser \in ParserType
      /\ req.head \in Bytes
  BY DEF TypeOK, Bytes
<1>2. /\ q \in ParserType
      /\ q.nlinesread # 0 /\ q.content_length = parser.content_length
      /\ ~q.head_complete /\ ~q.body_complete
  <2>1. q \in ParserType
    <3>1. parser.nlinesread + 1 \in Nat
      BY <1>1
    <3>2. QED
      BY <1>1, <3>1
  <2>2. q.nlinesread = parser.nlinesread + 1
    BY <1>1
  <2>3. q.content_length = parser.content_length
    BY <1>1
  <2>4. q.head_complete = parser.head_complete /\ q.body_complete = parser.body_complete
    BY <1>1
  <2>5. parser.nlinesread \in Nat
    BY <1>1
  <2>6. QED
    BY <2>1, <2>2, <2>3, <2>4, <2>5
<1>3. /\ h \in Bytes /\ Len(req.head) \in Nat /\ Len(w) \in Nat \ {0}
      /\ Len(h) = Len(req.head) + Len(w)
      /\ \A i \in 1 .. Len(w) : h[Len(req.head) + i] = w[i]
  BY <1>1, Joined DEF IsLine
<1>4. EndsLine(h) /\ h # << >>
  <2>1. Len(w) \in 1 .. Len(w)
    BY <1>3
  <2>2. h[Len(h)] = LF
    BY <1>3, <2>1 DEF IsLine
  <2>3. Len(h) # 0
    BY <1>3
  <2>4. QED
    BY <2>2, <2>3 DEF EndsLine
<1>5. /\ ContentLength(h) = IF req.head # << >> /\ w[1] = CL
                            THEN ValueOf(w) ELSE ContentLength(req.head)
      /\ HeadEnds(h) = IF req.head # << >> /\ is_empty_line(w)
                       THEN {Len(h)} ELSE {}
  BY <1>1, LengthAdded, LineAdded DEF AtLines
<1>6. is_empty_line(w) => w[1] # CL
  <2>1. 1 \in DOMAIN w
    BY <1>3, LenProperties DEF Bytes
  <2>2. is_empty_line(w) => w[1] \in Blanks
    BY <2>1 DEF is_empty_line, ToSet
  <2>3. QED
    BY <2>2 DEF Blanks, LF, CL
<1>7. ValueOf(w) \in Nat
  BY LengthsAssumption DEF ValueOf
<1>8. CASE parser.nlinesread = 0
  <2>1. p = q
    BY <1>8 DEF parse_line
  <2>2. req.head = << >>
    BY <1>8 DEF AtLines
  <2>3. QED
    BY <1>2, <1>3, <1>4, <1>5, <2>1, <2>2 DEF AtLines
<1>9. CASE parser.nlinesread # 0 /\ is_empty_line(w)
  <2>1. p = [q EXCEPT !.head_complete = TRUE,
                      !.body_complete = @ \/ parser.content_length = 0]
    BY <1>9 DEF parse_line
  <2>2. req.head # << >>
    BY <1>9 DEF AtLines
  <2>3. /\ p \in ParserType
        /\ p.nlinesread # 0 /\ p.content_length = parser.content_length
        /\ p.head_complete = TRUE
        /\ p.body_complete <=> parser.content_length = 0
    BY <1>1, <1>2, <2>1
  <2>4. QED
    BY <1>3, <1>4, <1>5, <1>6, <1>9, <2>2, <2>3 DEF AtLines
<1>10. CASE parser.nlinesread # 0 /\ ~is_empty_line(w)
  <2>1. p = parse_header_line(q, w)
    BY <1>10 DEF parse_line
  <2>2. req.head # << >>
    BY <1>10 DEF AtLines
  <2>3. p = IF w[1] = CL THEN [q EXCEPT !.content_length = ValueOf(w)] ELSE q
    BY <2>1 DEF parse_header_line, ValueOf
  <2>4. /\ p \in ParserType
        /\ p.nlinesread # 0
        /\ p.content_length = IF w[1] = CL THEN ValueOf(w)
                                           ELSE parser.content_length
        /\ p.head_complete = FALSE /\ p.body_complete = FALSE
    BY <1>2, <1>7, <2>3
  <2>5. QED
    BY <1>3, <1>4, <1>5, <1>10, <2>2, <2>4 DEF AtLines
<1>11. QED
  BY <1>8, <1>9, <1>10

\* lk_httprequestparser_parse_line, with a line or a part of one.
LEMMA LinePassed ==
    ASSUME TypeOK, AtLines, ~parser.head_complete, ~parser.body_complete,
           NEW line \in Bytes, NEW closed \in BOOLEAN,
           IsLine(parser.partial_line \o line) \/ Unended(parser.partial_line \o line),
           ParseLine(line, closed)
    PROVE  /\ parser' \in ParserType
           /\ req' \in RequestType
           /\ req'.body = req.body
           /\ req'.head \o parser'.partial_line
                 = req.head \o (parser.partial_line \o line)
           /\ AtLines'
           /\ Unended(parser'.partial_line)
           /\ parser'.head_complete => parser'.partial_line = << >>
           /\ parser'.body_complete <=>
                 closed \/ (parser'.head_complete /\ parser'.content_length = 0)
<1> DEFINE w == parser.partial_line \o line
<1>1. /\ parser \in ParserType
      /\ req \in RequestType
  BY DEF TypeOK
<1>2. w \in Bytes /\ Len(w) \in Nat
  BY <1>1, Joined DEF Bytes
<1>3. Unended(<< >>)
  BY DEF Unended
<1>4. w = << >> <=> Len(w) = 0
  BY <1>2, EmptySeq DEF Bytes
<1>5. CASE IsLine(w)
  <2>1. ends_with_newline(w)
    BY <1>4, <1>5 DEF ends_with_newline, Last, IsLine
  <2> DEFINE p == parse_line(parser, w)
             h == req.head \o w
  <2>2. /\ parser' = [p EXCEPT !.partial_line = << >>, !.body_complete = @ \/ closed]
        /\ req' = [req EXCEPT !.head = h]
    BY <2>1 DEF ParseLine
  <2>3. /\ p \in ParserType
        /\ h \in Bytes /\ EndsLine(h)
        /\ h = << >> <=> p.nlinesread = 0
        /\ p.content_length = ContentLength(h)
        /\ HeadEnds(h) = IF p.head_complete THEN {Len(h)} ELSE {}
        /\ p.body_complete <=> p.head_complete /\ p.content_length = 0
    BY <1>2, <1>5, LineParsed
  <2> HIDE DEF p, h
  <2>4. /\ parser' \in ParserType
        /\ parser'.partial_line = << >>
        /\ parser'.nlinesread = p.nlinesread
        /\ parser'.content_length = p.content_length
        /\ parser'.head_complete = p.head_complete
        /\ parser'.body_complete <=> p.body_complete \/ closed
    <3>1. parser' \in ParserType
      <4>1. << >> \in Seq(STRING) /\ (p.body_complete \/ closed) \in BOOLEAN
        OBVIOUS
      <4>2. QED
        BY <2>2, <2>3, <4>1
    <3>2. parser'.partial_line = << >>
      BY <2>2, <2>3
    <3>3. parser'.nlinesread = p.nlinesread
      BY <2>2, <2>3
    <3>4. parser'.content_length = p.content_length
      BY <2>2, <2>3
    <3>5. parser'.head_complete = p.head_complete
      BY <2>2, <2>3
    <3>6. parser'.body_complete = (p.body_complete \/ closed)
      BY <2>2, <2>3
    <3>7. QED
      BY <3>1, <3>2, <3>3, <3>4, <3>5, <3>6, Zenon
  <2>5. /\ req' \in RequestType
        /\ req'.head = h /\ req'.body = req.body
    BY <1>1, <2>2, <2>3 DEF Bytes
  <2>6. req'.head \o parser'.partial_line = h
    BY <2>3, <2>4, <2>5, ConcatEmptySeq DEF Bytes
  <2>7. AtLines'
    BY <2>3, <2>4, <2>5 DEF AtLines
  <2>8. QED
    BY <1>3, <2>3, <2>4, <2>5, <2>6, <2>7 DEF h
<1>6. CASE Unended(w)
  <2>1. ~ends_with_newline(w)
    <3>1. SUFFICES ASSUME w # << >> PROVE w[Len(w)] # LF
      BY DEF ends_with_newline, Last
    <3>2. Len(w) \in 1 .. Len(w)
      BY <1>2, <1>4, <3>1
    <3>3. QED
      BY <1>6, <3>2 DEF Unended
  <2>2. /\ parser' = [parser EXCEPT !.partial_line = w, !.body_complete = @ \/ closed]
        /\ req' = req
    BY <2>1 DEF ParseLine
  <2>3. /\ parser' \in ParserType
        /\ parser'.partial_line = w
        /\ parser'.nlinesread = parser.nlinesread
        /\ parser'.content_length = parser.content_length
        /\ parser'.head_complete = parser.head_complete
        /\ parser'.body_complete <=> closed
    BY <1>1, <1>2, <2>2 DEF Bytes
  <2>4. AtLines'
    BY <2>2, <2>3 DEF AtLines
  <2>5. QED
    BY <1>1, <1>6, <2>2, <2>3, <2>4
<1>7. QED
  BY <1>5, <1>6

\* The parser and the request keep their types, whatever is passed.
LEMMA LineTyped ==
    ASSUME TypeOK, NEW line \in Bytes, NEW closed \in BOOLEAN, ParseLine(line, closed)
    PROVE  parser' \in ParserType /\ req' \in RequestType
<1> DEFINE w == parser.partial_line \o line
           q == [parser EXCEPT !.nlinesread = @ + 1]
           p == parse_line(parser, w)
<1>1. parser \in ParserType /\ req \in RequestType
  BY DEF TypeOK
<1>2. w \in Seq(STRING) /\ req.head \o w \in Seq(STRING)
  BY <1>1, ConcatProperties DEF Bytes
<1>3. q \in ParserType
  <2>1. parser.nlinesread + 1 \in Nat
    BY <1>1
  <2>2. QED
    BY <1>1, <2>1
<1>4. p \in ParserType
  <2> HIDE DEF q
  <2>1. ValueOf(w) \in Nat
    BY LengthsAssumption DEF ValueOf
  <2>2. (q.body_complete \/ parser.content_length = 0) \in BOOLEAN
    OBVIOUS
  <2>3. \/ p = q
        \/ p = [q EXCEPT !.head_complete = TRUE,
                         !.body_complete = @ \/ parser.content_length = 0]
        \/ p = [q EXCEPT !.content_length = ValueOf(w)]
    BY DEF parse_line, parse_header_line, ValueOf, q
  <2>4. QED
    BY <1>3, <2>1, <2>2, <2>3
<1>5. \/ /\ parser' = [p EXCEPT !.partial_line = << >>, !.body_complete = @ \/ closed]
         /\ req' = [req EXCEPT !.head = @ \o w]
      \/ /\ parser' = [parser EXCEPT !.partial_line = w, !.body_complete = @ \/ closed]
         /\ req' = req
  BY DEF ParseLine
<1> HIDE DEF p, w
<1>6. /\ << >> \in Seq(STRING)
      /\ (p.body_complete \/ closed) \in BOOLEAN
      /\ (parser.body_complete \/ closed) \in BOOLEAN
  OBVIOUS
<1>7. parser' \in ParserType
  BY <1>1, <1>2, <1>4, <1>5, <1>6
<1>8. req' \in RequestType
  BY <1>1, <1>2, <1>5
<1>9. QED
  BY <1>7, <1>8

-----------------------------------------------------------------------------
(***************************************************************************)
(* A round of the loop in read_request that has read (a part of) a line.    *)
(* line is what it passes to the parser and rest what stays in the buffer.  *)
(***************************************************************************)
\* Where a round goes on.
LEMMA RoundEnds ==
    ASSUME NEW z, NextRound(z)
    PROVE  /\ pc' \in {"select", "readline", "recv", "processed"}
           /\ req_line' = << >>
           /\ parser'.body_complete <=> pc' = "processed"
           /\ pc' = "select" => z # "Z_OPEN"
           /\ pc' = "readline" => ~parser'.head_complete
           /\ pc' = "recv" => parser'.head_complete
BY DEF NextRound

\* What is true after any round: the types, and the facts that a read error
\* does not undo.
LEMMA LineRoundTypes ==
    ASSUME IInv, NEW line \in Bytes, NEW rest \in Bytes, NEW closed \in BOOLEAN,
           NEW z, z = "Z_OPEN" \/ rest = << >>,
           ParseLine(line, closed), NextRound(z), buf' = rest,
           UNCHANGED <<stream, arrived, peer, got>>
    PROVE  /\ TypeOK'
           /\ parser'.body_complete => pc' = "processed"
           /\ pc' = "select" => buf' = << >>
<1>1. parser' \in ParserType /\ req' \in RequestType
  BY LineTyped DEF IInv
<1>2. /\ pc' \in {"select", "readline", "recv", "processed"}
      /\ req_line' = << >>
      /\ parser'.body_complete <=> pc' = "processed"
      /\ pc' = "select" => z # "Z_OPEN"
  BY RoundEnds
<1>3. TypeOK'
  <2>1. /\ stream' \in Streams
        /\ arrived' \in 0 .. Len(stream') /\ got' \in 0 .. arrived'
        /\ peer' \in {"open", "fin", "reset", "failed"}
    BY DEF IInv, TypeOK
  <2>2. buf' \in Seq(STRING) /\ req_line' \in Seq(STRING)
    BY <1>2 DEF Bytes
  <2>3. QED
    BY <1>1, <1>2, <2>1, <2>2 DEF TypeOK
<1>4. QED
  BY <1>2, <1>3

\* The pieces of the request, put together in another way.
LEMMA Regroup ==
    ASSUME NEW a, NEW b, NEW c, NEW d,
           a \in Bytes, b \in Bytes, c \in Bytes, d \in Bytes,
           NEW s, s = a \o b \o c \o d
    PROVE  s = a \o (b \o (c \o d))
<1>1. a \o b \in Bytes /\ c \o d \in Bytes
  BY ConcatProperties DEF Bytes
<1>2. a \o b \o c \o d = (a \o b) \o (c \o d)
  <2> DEFINE ab == a \o b
  <2>1. ab \in Seq(STRING) /\ c \in Seq(STRING) /\ d \in Seq(STRING)
    BY <1>1 DEF Bytes
  <2> HIDE DEF ab
  <2>2. (ab \o c) \o d = ab \o (c \o d)
    BY <2>1, ConcatAssociative
  <2>3. QED
    BY <2>2 DEF ab
<1>3. (a \o b) \o (c \o d) = a \o (b \o (c \o d))
  <2> DEFINE cd == c \o d
  <2>1. cd \in Seq(STRING) /\ a \in Seq(STRING) /\ b \in Seq(STRING)
    BY <1>1 DEF Bytes
  <2> HIDE DEF cd
  <2>2. (a \o b) \o cd = a \o (b \o cd)
    BY <2>1, ConcatAssociative
  <2>3. QED
    BY <2>2 DEF cd
<1>4. QED
  BY <1>2, <1>3

LEMMA RegroupLine ==
    ASSUME NEW a, NEW b, NEW c, NEW d,
           a \in Bytes, b \in Bytes, c \in Bytes, d \in Bytes,
           NEW s, s = a \o b \o c \o << >> \o d
    PROVE  s = a \o (b \o (c \o d))
<1>1. a \o b \o c \in Bytes
  BY Joined
<1>2. a \o b \o c \o << >> = a \o b \o c
  BY <1>1, ConcatEmptySeq DEF Bytes
<1>3. s = a \o b \o c \o d
  BY <1>2
<1>4. QED
  BY <1>3, Regroup

LEMMA RegroupRest ==
    ASSUME NEW a, NEW b, NEW c, NEW d,
           a \in Bytes, b \in Bytes, c \in Bytes, d \in Bytes,
           NEW s, s = a \o (b \o (c \o d))
    PROVE  s = (a \o (b \o c)) \o d
<1>1. b \o c \in Bytes
  BY ConcatProperties DEF Bytes
<1>2. (a \o (b \o c)) \o d = a \o ((b \o c) \o d)
  <2> DEFINE bc == b \o c
  <2>1. bc \in Seq(STRING) /\ a \in Seq(STRING) /\ d \in Seq(STRING)
    BY <1>1 DEF Bytes
  <2> HIDE DEF bc
  <2>2. (a \o bc) \o d = a \o (bc \o d)
    BY <2>1, ConcatAssociative
  <2>3. QED
    BY <2>2 DEF bc
<1>3. (b \o c) \o d = b \o (c \o d)
  BY ConcatAssociative DEF Bytes
<1>4. QED
  BY <1>2, <1>3

LEMMA RegroupParsed ==
    ASSUME NEW a \in Bytes, NEW b \in Bytes, NEW d \in Bytes
    PROVE  a \o b \o << >> \o << >> \o d = (a \o b) \o d
<1>1. a \o b \in Bytes
  BY ConcatProperties DEF Bytes
<1>2. a \o b \o << >> = a \o b
  BY <1>1, ConcatEmptySeq DEF Bytes
<1>3. QED
  BY <1>2

LEMMA RegroupBody ==
    ASSUME NEW a, NEW c, NEW d, a \in Bytes, c \in Bytes, d \in Bytes,
           NEW s, s = a \o << >> \o << >> \o c \o d
    PROVE  s = a \o (c \o d)
<1>1. a \o << >> = a
  BY ConcatEmptySeq DEF Bytes
<1>2. a \o c \o d = a \o (c \o d)
  BY ConcatAssociative DEF Bytes
<1>3. QED
  BY <1>1, <1>2

LEMMA LineRound ==
    ASSUME IInv, pc = "readline",
           NEW line \in Bytes, NEW rest \in Bytes, NEW closed \in BOOLEAN,
           closed => peer # "open" /\ rest = << >>,
           NEW z, z = "Z_OPEN" \/ rest = << >>,
           peer # "failed" =>
              /\ \/ IsLine(parser.partial_line \o line)
                 \/ Unended(parser.partial_line \o line)
              /\ req_line \o buf = line \o rest,
           ParseLine(line, closed), NextRound(z), buf' = rest,
           UNCHANGED <<stream, arrived, peer, got>>
    PROVE  IInv'
<1>1. /\ TypeOK'
      /\ parser'.body_complete => pc' = "processed"
      /\ pc' = "select" => buf' = << >>
  BY LineRoundTypes
<1>2. CASE peer = "failed"
  BY <1>1, <1>2 DEF IInv, NoByteLost
<1>3. CASE peer # "failed"
  <2>1. /\ AtLines /\ ~parser.head_complete /\ ~parser.body_complete
        /\ req.body = << >> /\ TypeOK
        /\ Received = req.head \o parser.partial_line \o req_line
                      \o req.body \o buf
    BY <1>3 DEF IInv, Pieces, NoByteLost
  <2>2. /\ req'.body = << >>
        /\ req'.head \o parser'.partial_line
              = req.head \o (parser.partial_line \o line)
        /\ AtLines'
        /\ Unended(parser'.partial_line)
        /\ parser'.head_complete => parser'.partial_line = << >>
        /\ parser'.body_complete <=>
              closed \/ (parser'.head_complete /\ parser'.content_length = 0)
    BY <1>3, <2>1, LinePassed
  <2>3. /\ req_line' = << >>
        /\ parser'.body_complete <=> pc' = "processed"
        /\ pc' = "readline" => ~parser'.head_complete
        /\ pc' = "recv" => parser'.head_complete
    BY RoundEnds
  <2>4. /\ req.head \in Bytes /\ parser.partial_line \in Bytes
        /\ req_line \in Bytes /\ buf \in Bytes
        /\ req'.head \in Bytes /\ parser'.partial_line \in Bytes
        /\ parser'.content_length \in Nat
    BY <1>1, <2>1 DEF TypeOK, Bytes
  <2>5. NoByteLost'
    <3>1. Received = req.head \o (parser.partial_line \o (req_line \o buf))
      <4> DEFINE A == req.head
                 B == parser.partial_line
      <4>1. /\ A \in Bytes /\ B \in Bytes /\ req_line \in Bytes /\ buf \in Bytes
            /\ Received = A \o B \o req_line \o << >> \o buf
        BY <2>1, <2>4
      <4> HIDE DEF A, B
      <4>2. Received = A \o (B \o (req_line \o buf))
        BY <4>1, RegroupLine
      <4>3. QED
        BY <4>2 DEF A, B
    <3>2. Received = req.head \o (parser.partial_line \o (line \o rest))
      BY <1>3, <3>1
    <3>3. Received = (req.head \o (parser.partial_line \o line)) \o rest
      <4> DEFINE A == req.head
                 B == parser.partial_line
      <4>1. /\ A \in Bytes /\ B \in Bytes /\ line \in Bytes /\ rest \in Bytes
            /\ Received = A \o (B \o (line \o rest))
        BY <2>4, <3>2
      <4> HIDE DEF A, B
      <4>2. Received = (A \o (B \o line)) \o rest
        BY <4>1, RegroupRest
      <4>3. QED
        BY <4>2 DEF A, B
    <3>4. Received = (req'.head \o parser'.partial_line) \o rest
      BY <2>2, <3>3
    <3>5. Received = req'.head \o parser'.partial_line \o << >> \o << >> \o rest
      BY <2>4, <3>4, RegroupParsed
    <3>6. Received' = Received
      BY DEF Received
    <3>7. QED
      BY <2>2, <2>3, <3>5, <3>6 DEF NoByteLost
  <2>6. Pieces'
    <3>1. Unended(<< >>)
      BY DEF Unended
    <3>2. pc' = "processed" /\ ~parser'.head_complete => buf' = << >>
      BY <2>2, <2>3
    <3>3. QED
      BY <2>2, <2>3, <3>1, <3>2 DEF Pieces
  <2>7. BodyAwaited'
    <3>1. Len(req'.body) = 0
      BY <2>2
    <3>2. closed => peer' # "open"
      OBVIOUS
    <3>3. pc' = "processed" /\ peer' = "open" =>
             parser'.head_complete /\ Len(req'.body) >= parser'.content_length
      BY <2>2, <2>3, <2>4, <3>1, <3>2
    <3>4. pc' # "processed" /\ parser'.head_complete =>
             Len(req'.body) < parser'.content_length
      BY <2>2, <2>3, <2>4, <3>1
    <3>5. QED
      BY <3>3, <3>4 DEF BodyAwaited
  <2>8. QED
    BY <1>1, <2>2, <2>5, <2>6, <2>7 DEF IInv
<1>4. QED
  BY <1>2, <1>3

-----------------------------------------------------------------------------
(***************************************************************************)
(* The steps.                                                               *)
(***************************************************************************)
LEMMA UnendedJoined ==
    ASSUME NEW s \in Bytes, NEW t \in Bytes, Unended(s), Unended(t)
    PROVE  Unended(s \o t)
<1>1. /\ Len(s) \in Nat /\ Len(t) \in Nat /\ Len(s \o t) = Len(s) + Len(t)
      /\ \A i \in 1 .. Len(s) : (s \o t)[i] = s[i]
      /\ \A i \in 1 .. Len(t) : (s \o t)[Len(s) + i] = t[i]
  BY Joined
<1>2. SUFFICES ASSUME NEW i \in 1 .. Len(s) + Len(t) PROVE (s \o t)[i] # LF
  BY <1>1 DEF Unended
<1>3. CASE i \in 1 .. Len(s)
  BY <1>1, <1>3 DEF Unended
<1>4. CASE i \notin 1 .. Len(s)
  <2>1. i - Len(s) \in 1 .. Len(t) /\ Len(s) + (i - Len(s)) = i
    BY <1>1, <1>4
  <2>2. (s \o t)[i] = t[i - Len(s)]
    BY <1>1, <2>1
  <2>3. QED
    BY <2>1, <2>2 DEF Unended
<1>5. QED
  BY <1>3, <1>4

LEMMA LineJoined ==
    ASSUME NEW s \in Bytes, NEW t \in Bytes, Unended(s), IsLine(t)
    PROVE  IsLine(s \o t)
<1>1. /\ Len(s) \in Nat /\ Len(t) \in Nat \ {0} /\ Len(s \o t) = Len(s) + Len(t)
      /\ \A i \in 1 .. Len(s) : (s \o t)[i] = s[i]
      /\ \A i \in 1 .. Len(t) : (s \o t)[Len(s) + i] = t[i]
  BY Joined DEF IsLine
<1>2. (s \o t)[Len(s \o t)] = LF
  <2>1. Len(t) \in 1 .. Len(t)
    BY <1>1
  <2>2. QED
    BY <1>1, <2>1 DEF IsLine
<1>3. ASSUME NEW i \in 1 .. Len(s \o t) - 1
      PROVE  (s \o t)[i] # LF
  <2>1. CASE i \in 1 .. Len(s)
    BY <1>1, <2>1 DEF Unended
  <2>2. CASE i \notin 1 .. Len(s)
    <3>1. /\ i - Len(s) \in 1 .. Len(t) - 1 /\ i - Len(s) \in 1 .. Len(t)
          /\ Len(s) + (i - Len(s)) = i
      BY <1>1, <2>2
    <3>2. (s \o t)[i] = t[i - Len(s)]
      BY <1>1, <3>1
    <3>3. QED
      BY <3>1, <3>2 DEF IsLine
  <2>3. QED
    BY <2>1, <2>2
<1>4. QED
  BY <1>1, <1>2, <1>3 DEF IsLine

\* The first n bytes are the first k and those after them.
LEMMA Cut ==
    ASSUME NEW s \in Bytes, NEW k \in 0 .. Len(s), NEW n \in k .. Len(s)
    PROVE  /\ SubSeq(s, 1, k) \in Bytes /\ SubSeq(s, k + 1, n) \in Bytes
           /\ SubSeq(s, 1, n) = SubSeq(s, 1, k) \o SubSeq(s, k + 1, n)
<1>1. /\ Len(s) \in Nat /\ k \in Int /\ n \in Int /\ k + 1 \in Int
      /\ \A i \in 1 .. Len(s) : s[i] \in STRING
  BY DEF Bytes
<1>2. SubSeq(s, 1, k) \in Bytes
  <2>1. \A i \in 1 .. k : s[i] \in STRING
    BY <1>1
  <2>2. QED
    BY <1>1, <2>1, SubSeqProperties DEF Bytes
<1>3. SubSeq(s, k + 1, n) \in Bytes
  <2>1. \A i \in k + 1 .. n : s[i] \in STRING
    BY <1>1
  <2>2. QED
    BY <1>1, <2>1, SubSeqProperties DEF Bytes
<1>4. SubSeq(s, 1, n) = SubSeq(s, 1, k) \o SubSeq(s, k + 1, n)
  <2>1. 1 \in 1 .. Len(s) + 1 /\ k \in 1 - 1 .. Len(s) /\ n \in k .. Len(s)
    BY <1>1
  <2>2. s \in Seq(STRING)
    BY DEF Bytes
  <2>3. SubSeq(s, 1, k) \o SubSeq(s, k + 1, n) = SubSeq(s, 1, n)
    BY <2>1, <2>2, ConcatAdjacentSubSeq
  <2>4. QED
    BY <2>3
<1>5. QED
  BY <1>2, <1>3, <1>4

LEMMA Whole ==
    ASSUME NEW s \in Bytes
    PROVE  SubSeq(s, 1, Len(s)) = s
<1>1. Len(s) \in Nat /\ \A i \in 1 .. Len(s) : s[i] \in STRING
  BY DEF Bytes
<1>2. /\ SubSeq(s, 1, Len(s)) \in Seq(STRING)
      /\ Len(SubSeq(s, 1, Len(s))) = IF 1 <= Len(s) THEN Len(s) - 1 + 1 ELSE 0
      /\ \A i \in 1 .. Len(s) - 1 + 1 : SubSeq(s, 1, Len(s))[i] = s[1 + i - 1]
  BY <1>1, SubSeqProperties
<1>3. /\ Len(SubSeq(s, 1, Len(s))) = Len(s)
      /\ \A i \in 1 .. Len(s) : SubSeq(s, 1, Len(s))[i] = s[i]
  BY <1>1, <1>2
<1>4. QED
  BY <1>2, <1>3, SeqEqual DEF Bytes

\* The buffer up to and from its first line feed.
LEMMA FirstLine ==
    ASSUME NEW s \in Bytes, NEW n \in 1 .. Len(s),
           s[n] = LF, \A i \in 1 .. n - 1 : s[i] # LF
    PROVE  /\ SubSeq(s, 1, n) \in Bytes /\ SubSeq(s, n + 1, Len(s)) \in Bytes
           /\ IsLine(SubSeq(s, 1, n))
           /\ s = SubSeq(s, 1, n) \o SubSeq(s, n + 1, Len(s))
<1>1. Len(s) \in Nat /\ n \in 1 .. Len(s) /\ \A i \in 1 .. Len(s) : s[i] \in STRING
  BY DEF Bytes
<1>2. /\ SubSeq(s, 1, n) \in Seq(STRING)
      /\ Len(SubSeq(s, 1, n)) = IF 1 <= n THEN n - 1 + 1 ELSE 0
      /\ \A i \in 1 .. n - 1 + 1 : SubSeq(s, 1, n)[i] = s[1 + i - 1]
  <2>1. \A i \in 1 .. n : s[i] \in STRING
    BY <1>1
  <2>2. 1 \in Int /\ n \in Int
    BY <1>1
  <2>3. QED
    BY <2>1, <2>2, SubSeqProperties
<1>3. Len(SubSeq(s, 1, n)) = n /\ \A i \in 1 .. n : SubSeq(s, 1, n)[i] = s[i]
  BY <1>1, <1>2
<1>4. IsLine(SubSeq(s, 1, n))
  BY <1>1, <1>3 DEF IsLine
<1>5. n \in 0 .. Len(s) /\ Len(s) \in n .. Len(s)
  BY <1>1
<1>6. QED
  BY <1>4, <1>5, Cut, Whole

\* What has been received is a sequence of bytes, and more of it after a recv().
LEMMA StreamTyped ==
    ASSUME TypeOK
    PROVE  /\ stream \in Bytes /\ Len(stream) \in Nat
           /\ got \in Nat /\ arrived \in Nat /\ got <= arrived
           /\ arrived <= Len(stream)
<1>1. stream \in Bytes
  BY StreamsAssumption DEF TypeOK, Bytes
<1>2. QED
  BY <1>1 DEF TypeOK, Bytes

LEMMA InitStep == Init => IInv
<1> SUFFICES ASSUME Init PROVE IInv
  OBVIOUS
<1>1. stream \in Bytes /\ Len(stream) \in Nat
  BY StreamsAssumption DEF Init, Bytes
<1>2. /\ parser \in ParserType /\ req \in RequestType
      /\ req.head = << >> /\ req.body = << >> /\ parser.partial_line = << >>
      /\ parser.nlinesread = 0 /\ parser.content_length = 0
      /\ ~parser.head_complete /\ ~parser.body_complete
  <2>1. << >> \in Seq(STRING)
    OBVIOUS
  <2>2. QED
    BY <2>1 DEF Init
<1>3. TypeOK
  <2>1. << >> \in Seq(STRING) /\ 0 \in 0 .. Len(stream) /\ 0 \in 0 .. 0
    BY <1>1
  <2>2. QED
    BY <1>2, <2>1 DEF Init, TypeOK
<1>4. Received = << >>
  BY SubSeqEmpty DEF Init, Received
<1>5. NoByteLost
  <2>1. << >> \o << >> = << >>
    BY ConcatEmptySeq
  <2>2. req_line = << >> /\ buf = << >>
    BY DEF Init
  <2>3. QED
    BY <1>2, <1>4, <2>1, <2>2 DEF NoByteLost
<1>6. AtLines
  <2>1. << >> \in Bytes /\ Len(<< >>) = 0
    BY DEF Bytes
  <2>2. HeadEnds(<< >>) = {}
    BY <2>1, HeadEndsAre
  <2>3. LengthLines(<< >>) = {}
    BY <2>1 DEF LengthLines
  <2>4. ContentLength(<< >>) = 0
    BY <2>3, ContentLengthIs
  <2>5. QED
    BY <1>2, <2>2, <2>4 DEF AtLines, EndsLine
<1>7. Pieces /\ BodyAwaited
  BY <1>2 DEF Init, Pieces, BodyAwaited, Unended
<1>8. QED
  BY <1>2, <1>3, <1>5, <1>6, <1>7 DEF Init, IInv

\* What the client does changes neither what has been read nor what it made.
LEMMA ClientStep ==
    ASSUME IInv, Client
    PROVE  IInv'
<1>1. /\ stream' = stream /\ got' = got /\ pc' = pc /\ buf' = buf
      /\ req_line' = req_line /\ parser' = parser /\ req' = req
  BY DEF Client, Send, End, reader
<1>2. TypeOK'
  <2>1. arrived' \in 0 .. Len(stream) /\ got \in 0 .. arrived'
    BY DEF IInv, TypeOK, Client, Send, End, reader
  <2>2. peer' \in {"open", "fin", "reset", "failed"}
    BY EndsAssumption DEF IInv, TypeOK, Client, Send, End
  <2>3. QED
    BY <1>1, <2>1, <2>2 DEF IInv, TypeOK
<1>3. peer = "open" /\ peer # "failed"
  BY DEF Client, Send, End
<1>4. NoByteLost'
  BY <1>1, <1>3 DEF IInv, NoByteLost, Received
<1>5. AtLines' /\ Pieces'
  BY <1>1, <1>3 DEF IInv, AtLines, Pieces
<1>6. BodyAwaited'
  BY <1>1, <1>3 DEF IInv, BodyAwaited
<1>7. QED
  BY <1>1, <1>2, <1>4, <1>5, <1>6 DEF IInv

LEMMA SelectStep ==
    ASSUME IInv, Select
    PROVE  IInv'
<1>1. TypeOK'
  <2>1. << >> \in Seq(STRING)
    OBVIOUS
  <2>2. pc' \in {"select", "readline", "recv", "processed"}
    BY DEF Select
  <2>3. QED
    BY <2>1, <2>2 DEF IInv, TypeOK, Select
<1>2. NoByteLost'
  BY DEF IInv, NoByteLost, Received, Pieces, Select
<1>3. peer # "failed" => AtLines' /\ Pieces' /\ BodyAwaited'
  <2>1. AtLines <=> AtLines'
    BY DEF AtLines, Select
  <2>2. QED
    BY <2>1 DEF IInv, Pieces, BodyAwaited, Select, Unended
<1>4. QED
  BY <1>1, <1>2, <1>3 DEF IInv, Select

LEMMA TakeLineStep ==
    ASSUME IInv, TakeLine
    PROVE  IInv'
<1>1. /\ buf \in Bytes /\ req_line \in Bytes /\ parser.partial_line \in Bytes
      /\ DOMAIN buf = 1 .. Len(buf)
  <2>1. buf \in Bytes /\ req_line \in Bytes /\ parser.partial_line \in Bytes
    BY DEF IInv, TypeOK, Bytes
  <2>2. QED
    BY <2>1, LenProperties DEF Bytes
<1>2. PICK n \in 1 .. Len(buf) :
         /\ buf[n] = LF /\ \A i \in 1 .. n - 1 : buf[i] # LF
         /\ buf' = SubSeq(buf, n + 1, Len(buf))
         /\ ParseLine(req_line \o SubSeq(buf, 1, n), FALSE)
  BY <1>1 DEF TakeLine
<1> DEFINE first == SubSeq(buf, 1, n)
           rest == SubSeq(buf, n + 1, Len(buf))
           line == req_line \o first
<1>3. /\ first \in Bytes /\ rest \in Bytes /\ IsLine(first)
      /\ buf = first \o rest
  BY <1>1, <1>2, FirstLine
<1>4. buf' = rest /\ ParseLine(line, FALSE)
  BY <1>2
<1> HIDE DEF first, rest
<1>5. line \in Bytes
  BY <1>1, <1>3, Joined
<1>6. req_line \o buf = line \o rest
  BY <1>1, <1>3, ConcatAssociative DEF Bytes
<1>7. ASSUME peer # "failed"
      PROVE  IsLine(parser.partial_line \o line)
  <2>1. Unended(parser.partial_line) /\ Unended(req_line)
    BY <1>7 DEF IInv, Pieces, TakeLine
  <2>2. IsLine(line)
    BY <1>1, <1>3, <2>1, LineJoined
  <2>3. QED
    BY <1>1, <1>5, <2>1, <2>2, LineJoined
<1> HIDE DEF line
<1>8. /\ pc = "readline" /\ NextRound("Z_OPEN")
      /\ UNCHANGED <<stream, arrived, peer, got>>
  BY DEF TakeLine
<1>9. QED
  BY <1>3, <1>4, <1>5, <1>6, <1>7, <1>8, LineRound

\* A line that is passed as far as it has been read.
LEMMA PassLineStep ==
    ASSUME IInv, NEW closed \in BOOLEAN, NEW z,
           closed => peer # "open",
           pc = "readline", buf = << >>, ParseLine(req_line, closed),
           NextRound(z), UNCHANGED <<stream, arrived, peer, got, buf>>
    PROVE  IInv'
<1>1. /\ req_line \in Bytes /\ parser.partial_line \in Bytes
      /\ << >> \in Bytes /\ buf' = << >>
  BY DEF IInv, TypeOK, Bytes
<1>2. req_line \o buf = req_line \o << >>
  OBVIOUS
<1>3. ASSUME peer # "failed"
      PROVE  Unended(parser.partial_line \o req_line)
  <2>1. Unended(parser.partial_line) /\ Unended(req_line)
    BY <1>3 DEF IInv, Pieces
  <2>2. QED
    BY <1>1, <2>1, UnendedJoined
<1>4. QED
  BY <1>1, <1>2, <1>3, LineRound

LEMMA LineBlocksStep ==
    ASSUME IInv, LineBlocks
    PROVE  IInv'
BY PassLineStep DEF LineBlocks

LEMMA LineAtEndStep ==
    ASSUME IInv, LineAtEnd
    PROVE  IInv'
BY PassLineStep DEF LineAtEnd, Closed

\* The buffer is taken into the line.
LEMMA RegroupTaken ==
    ASSUME NEW a, NEW c, NEW d, a \in Bytes, c \in Bytes, d \in Bytes,
           NEW s, s = a \o c \o << >> \o d
    PROVE  s = a \o (c \o d) \o << >> \o << >>
<1>1. c \o d \in Seq(STRING) /\ a \o c \in Seq(STRING) /\ a \o (c \o d) \in Seq(STRING)
  BY ConcatProperties DEF Bytes
<1>2. a \o c \o << >> = a \o c
  BY <1>1, ConcatEmptySeq
<1>3. (a \o c) \o d = a \o (c \o d)
  BY ConcatAssociative DEF Bytes
<1>4. a \o (c \o d) \o << >> = a \o (c \o d)
  BY <1>1, ConcatEmptySeq
<1>5. QED
  BY <1>2, <1>3, <1>4

LEMMA TakeAllStep ==
    ASSUME IInv, TakeAll
    PROVE  IInv'
<1>1. /\ buf \in Bytes /\ req_line \in Bytes
      /\ parser.partial_line \in Bytes /\ req.head \in Bytes
      /\ DOMAIN buf = 1 .. Len(buf)
  <2>1. /\ buf \in Bytes /\ req_line \in Bytes
        /\ parser.partial_line \in Bytes /\ req.head \in Bytes
    BY DEF IInv, TypeOK, Bytes
  <2>2. QED
    BY <2>1, LenProperties DEF Bytes
<1>2. req_line' = req_line \o buf /\ buf' = << >> /\ req_line' \in Bytes
  BY <1>1, Joined DEF TakeAll
<1>3. TypeOK'
  BY <1>2 DEF IInv, TypeOK, TakeAll, Bytes
<1>4. ASSUME peer # "failed"
      PROVE  AtLines' /\ Pieces' /\ BodyAwaited'
  <2>1. AtLines /\ Pieces /\ BodyAwaited
    BY <1>4 DEF IInv
  <2>2. Unended(buf)
    BY <1>1 DEF TakeAll, ToSet, Unended
  <2>3. Unended(req_line')
    BY <1>1, <1>2, <2>1, <2>2, UnendedJoined DEF Pieces, TakeAll
  <2>4. QED
    BY <1>2, <2>1, <2>3 DEF AtLines, Pieces, BodyAwaited, TakeAll
<1>5. ASSUME peer # "failed"
      PROVE  NoByteLost'
  <2> DEFINE A == req.head \o parser.partial_line
  <2>1. A \in Bytes
    BY <1>1, Joined
  <2>2. req.body = << >>
    BY <1>5 DEF IInv, Pieces, TakeAll
  <2>3. Received = A \o req_line \o << >> \o buf
    BY <1>5, <2>2 DEF IInv, NoByteLost
  <2> HIDE DEF A
  <2>4. Received = A \o (req_line \o buf) \o << >> \o << >>
    BY <1>1, <2>1, <2>3, RegroupTaken
  <2>5. /\ Received' = Received /\ A' = A /\ req'.body = << >>
    BY <2>2 DEF TakeAll, Received, A
  <2>6. Received' = A' \o req_line' \o req'.body \o buf'
    BY <1>2, <2>4, <2>5
  <2>7. QED
    BY <2>6 DEF NoByteLost, A
<1>6. peer' = peer
  BY DEF TakeAll
<1>7. NoByteLost'
  BY <1>5, <1>6 DEF NoByteLost
<1>8. QED
  BY <1>2, <1>3, <1>4, <1>6, <1>7 DEF IInv, TakeAll

\* What one recv() adds to what has been received.
LEMMA MoreReceived ==
    ASSUME TypeOK, NEW to \in got .. arrived
    PROVE  /\ SubSeq(stream, got + 1, to) \in Bytes /\ Received \in Bytes
           /\ SubSeq(stream, 1, to) = Received \o SubSeq(stream, got + 1, to)
<1>1. stream \in Bytes /\ got \in 0 .. Len(stream) /\ to \in got .. Len(stream)
  BY StreamTyped
<1>2. QED
  BY <1>1, Cut DEF Received

LEMMA FillBufferStep ==
    ASSUME IInv, FillBuffer
    PROVE  IInv'
<1>1. TypeOK /\ got' \in got .. arrived /\ buf' = SubSeq(stream, got + 1, got')
  <2>1. got \in Nat /\ arrived \in Nat /\ got < arrived /\ BufSize \in Nat \ {0}
    BY StreamTyped, BufSizeAssumption DEF IInv, FillBuffer
  <2>2. got' = Least(got + BufSize, arrived)
    BY DEF FillBuffer
  <2>3. QED
    BY <2>1, <2>2 DEF IInv, FillBuffer, Least
<1>2. buf' \in Bytes /\ SubSeq(stream, 1, got') = Received \o buf'
  BY <1>1, MoreReceived
<1>3. TypeOK'
  <2>1. got' \in 0 .. arrived
    BY <1>1, StreamTyped
  <2>2. QED
    BY <1>1, <1>2, <2>1 DEF TypeOK, FillBuffer, Bytes
<1>4. ASSUME peer # "failed"
      PROVE  AtLines' /\ Pieces' /\ BodyAwaited'
  <2>1. AtLines /\ Pieces /\ BodyAwaited
    BY <1>4 DEF IInv
  <2>2. QED
    BY <2>1 DEF AtLines, Pieces, BodyAwaited, FillBuffer, Unended
<1>5. ASSUME peer # "failed"
      PROVE  NoByteLost'
  <2> DEFINE A == req.head \o parser.partial_line \o req_line \o req.body
  <2>1. A \in Bytes
    <3>1. /\ req.head \in Bytes /\ parser.partial_line \in Bytes
          /\ req_line \in Bytes /\ req.body \in Bytes
      BY <1>1 DEF TypeOK, Bytes
    <3>2. QED
      BY <3>1, Joined
  <2>2. Received = A \o << >>
    BY <1>5 DEF IInv, NoByteLost, FillBuffer
  <2>3. A' = A /\ Received' = Received \o buf'
    BY <1>2 DEF FillBuffer, Received
  <2> HIDE DEF A
  <2>4. Received = A
    BY <2>1, <2>2, ConcatEmptySeq DEF Bytes
  <2>5. Received' = A' \o buf'
    BY <2>3, <2>4
  <2>6. QED
    BY <2>5 DEF NoByteLost, A
<1>6. peer' = peer
  BY DEF FillBuffer
<1>7. NoByteLost'
  BY <1>5, <1>6 DEF NoByteLost
<1>8. QED
  BY <1>3, <1>4, <1>6, <1>7 DEF IInv, FillBuffer

LEMMA RecvStep ==
    ASSUME IInv, Recv
    PROVE  IInv'
<1> DEFINE more == buf \o Arrived
           body == req.body \o more
<1>1. /\ TypeOK /\ stream \in Bytes
      /\ Arrived \in Bytes /\ Received \in Bytes
      /\ SubSeq(stream, 1, arrived) = Received \o Arrived
      /\ 0 <= arrived /\ arrived \in 0 .. arrived /\ arrived \in Nat
  <2>1. /\ TypeOK /\ stream \in Bytes
        /\ got \in Nat /\ arrived \in Nat /\ got <= arrived
    BY StreamTyped DEF IInv
  <2>2. arrived \in got .. arrived /\ 0 <= arrived /\ arrived \in 0 .. arrived
    BY <2>1
  <2>3. /\ Arrived \in Bytes /\ Received \in Bytes
        /\ SubSeq(stream, 1, arrived) = Received \o Arrived
    BY <2>1, <2>2, MoreReceived DEF Arrived
  <2>4. QED
    BY <2>1, <2>2, <2>3
<1>2. /\ parser \in ParserType /\ req \in RequestType
      /\ req.head \in Bytes /\ parser.partial_line \in Bytes
      /\ req.body \in Bytes /\ buf \in Bytes /\ req_line \in Bytes
  BY <1>1 DEF TypeOK, Bytes
<1>3. body \in Bytes /\ Len(body) \in Nat
  <2>1. more \in Bytes
    BY <1>1, <1>2, Joined
  <2> HIDE DEF more
  <2>2. QED
    BY <1>2, <2>1, Joined
<1>4. /\ req' = [req EXCEPT !.body = body]
      /\ parser' = [parser EXCEPT !.body_complete =
                       Closed \/ Len(body) >= parser.content_length]
      /\ buf' = << >> /\ got' = arrived
      /\ stream' = stream /\ arrived' = arrived /\ peer' = peer
  BY DEF Recv, ParseBytes
<1> HIDE DEF body, more
<1>5. /\ parser' \in ParserType
      /\ parser'.partial_line = parser.partial_line
      /\ parser'.nlinesread = parser.nlinesread
      /\ parser'.content_length = parser.content_length
      /\ parser'.head_complete = parser.head_complete
      /\ parser'.body_complete <=> Closed \/ Len(body) >= parser.content_length
  <2>1. (Closed \/ Len(body) >= parser.content_length) \in BOOLEAN
    OBVIOUS
  <2>2. parser' \in ParserType
    BY <1>2, <1>4, <2>1
  <2>3. /\ parser'.partial_line = parser.partial_line
        /\ parser'.nlinesread = parser.nlinesread
        /\ parser'.content_length = parser.content_length
        /\ parser'.head_complete = parser.head_complete
    BY <1>2, <1>4
  <2>4. parser'.body_complete = (Closed \/ Len(body) >= parser.content_length)
    BY <1>2, <1>4
  <2>5. QED
    BY <2>2, <2>3, <2>4, Zenon
<1>6. req' \in RequestType /\ req'.head = req.head /\ req'.body = body
  BY <1>2, <1>3, <1>4 DEF Bytes
<1>7. /\ pc' \in {"select", "readline", "recv", "processed"}
      /\ req_line' = << >>
      /\ parser'.body_complete <=> pc' = "processed"
      /\ pc' = "select" => (IF Closed THEN "Z_EOF" ELSE "Z_BLOCK") # "Z_OPEN"
      /\ pc' = "readline" => ~parser'.head_complete
      /\ pc' = "recv" => parser'.head_complete
  <2>1. PICK z : z = (IF Closed THEN "Z_EOF" ELSE "Z_BLOCK") /\ NextRound(z)
    BY DEF Recv
  <2>2. QED
    BY <2>1, RoundEnds
<1>8. TypeOK'
  <2>1. << >> \in Seq(STRING)
    OBVIOUS
  <2>2. QED
    BY <1>1, <1>4, <1>5, <1>6, <1>7, <2>1 DEF TypeOK
<1>9. ASSUME peer # "failed"
      PROVE  AtLines' /\ Pieces' /\ BodyAwaited'
  <2>1. AtLines /\ Pieces /\ BodyAwaited /\ parser.head_complete
    BY <1>9 DEF IInv, Pieces, Recv
  <2>2. AtLines'
    BY <1>5, <1>6, <2>1 DEF AtLines
  <2>3. Pieces'
    BY <1>5, <1>7, <2>1 DEF Pieces
  <2>4. BodyAwaited'
    <3>1. parser'.head_complete /\ parser'.content_length \in Nat
      BY <1>2, <1>5, <2>1
    <3>2. pc' = "processed" /\ peer' = "open" =>
             Len(req'.body) >= parser'.content_length
      BY <1>4, <1>5, <1>6, <1>7 DEF Closed
    <3>3. pc' # "processed" => Len(req'.body) < parser'.content_length
      BY <1>3, <1>5, <1>6, <1>7, <3>1
    <3>4. QED
      BY <3>1, <3>2, <3>3 DEF BodyAwaited
  <2>5. QED
    BY <2>2, <2>3, <2>4
<1>10. ASSUME peer # "failed"
       PROVE  NoByteLost'
  <2> DEFINE A == req.head \o parser.partial_line \o req_line
  <2>1. A \in Bytes
    BY <1>2, Joined
  <2>2. Received = A \o req.body \o buf
    BY <1>10 DEF IInv, NoByteLost
  <2>3. Received' = Received \o Arrived
    BY <1>1, <1>4 DEF Received
  <2>4. req_line = << >>
    BY <1>10 DEF IInv, Pieces, Recv
  <2>5. A' = A
    BY <1>5, <1>6, <1>7, <2>4
  <2> HIDE DEF A
  <2>6. Received' = A \o (req.body \o (buf \o Arrived))
    <3> DEFINE b == req.body
    <3>1. /\ A \in Bytes /\ b \in Bytes /\ buf \in Bytes /\ Arrived \in Bytes
          /\ Received' = A \o b \o buf \o Arrived
      BY <1>1, <1>2, <2>1, <2>2, <2>3
    <3> HIDE DEF b
    <3>2. Received' = A \o (b \o (buf \o Arrived))
      BY <3>1, Regroup
    <3>3. QED
      BY <3>2 DEF b
  <2>7. Received' = A' \o req'.body \o buf'
    <3>1. Received' = A \o body
      BY <2>6 DEF body, more
    <3>2. A \o body \in Bytes
      BY <1>3, <2>1, Joined
    <3>3. A \o body \o << >> = A \o body
      BY <3>2, ConcatEmptySeq DEF Bytes
    <3>4. QED
      BY <1>4, <1>6, <2>5, <3>1, <3>3
  <2>8. QED
    BY <2>7 DEF NoByteLost, A
<1>11. NoByteLost'
  BY <1>4, <1>10 DEF NoByteLost
<1>12. QED
  BY <1>4, <1>7, <1>8, <1>9, <1>11 DEF IInv

LEMMA ReadFailsStep ==
    ASSUME IInv, ReadFails
    PROVE  IInv'
<1>1. peer' = "failed"
  BY DEF ReadFails
<1>2. TypeOK'
  <2>1. << >> \in Seq(STRING) /\ arrived \in 0 .. arrived
    BY StreamTyped DEF IInv
  <2>2. QED
    BY <2>1 DEF IInv, TypeOK, ReadFails
<1>3. ~parser'.body_complete
  BY DEF IInv, ReadFails
<1>4. QED
  BY <1>1, <1>2, <1>3 DEF IInv, NoByteLost, ReadFails

LEMMA NextStep ==
    ASSUME IInv, [Next]_vars
    PROVE  IInv'
<1>1. CASE Client
  BY <1>1, ClientStep
<1>2. CASE Select
  BY <1>2, SelectStep
<1>3. CASE TakeLine
  BY <1>3, TakeLineStep
<1>4. CASE TakeAll
  BY <1>4, TakeAllStep
<1>5. CASE FillBuffer
  BY <1>5, FillBufferStep
<1>6. CASE LineBlocks
  BY <1>6, LineBlocksStep
<1>7. CASE LineAtEnd
  BY <1>7, LineAtEndStep
<1>8. CASE Recv
  BY <1>8, RecvStep
<1>9. CASE ReadFails
  BY <1>9, ReadFailsStep
<1>10. CASE UNCHANGED vars
  <2>1. TypeOK'
    BY <1>10 DEF IInv, TypeOK, vars
  <2>2. NoByteLost'
    BY <1>10 DEF IInv, NoByteLost, Received, vars
  <2>3. AtLines' <=> AtLines
    BY <1>10 DEF AtLines, vars
  <2>4. QED
    BY <1>10, <2>1, <2>2, <2>3 DEF IInv, Pieces, BodyAwaited, Unended, vars
<1>11. QED
  BY <1>1, <1>2, <1>3, <1>4, <1>5, <1>6, <1>7, <1>8, <1>9, <1>10
     DEF Next, Reader

-----------------------------------------------------------------------------
\* What holds of the reader in every state, whatever the client sends, however
\* the network cuts it and however small the buffer is.
THEOREM Invariant == Spec => []IInv
<1>1. Init => IInv
  BY InitStep
<1>2. IInv /\ [Next]_vars => IInv'
  BY NextStep
<1>3. QED
  BY <1>1, <1>2, PTL DEF Spec

\* Between two events, and when the request is processed, nothing of it is
\* under way: what has been received is the head, parsed, and what follows it.
LEMMA AtRest ==
    ASSUME IInv, peer # "failed", pc \in {"select", "processed"}
    PROVE  /\ parser.head_complete =>
                 /\ HasHead(Received) /\ Head_(Received) = req.head
                 /\ Body_(Received) = req.body \o buf
           /\ ~parser.head_complete => ~HasHead(Received)
<1>1. /\ req.head \in Bytes /\ req.body \in Bytes /\ buf \in Bytes
      /\ parser.partial_line \in Bytes
  BY DEF IInv, TypeOK, Bytes
<1>2. /\ Received = req.head \o parser.partial_line \o req_line
                    \o req.body \o buf
      /\ req_line = << >>
      /\ AtLines /\ Pieces
  BY DEF IInv, NoByteLost, Pieces
<1>3. ASSUME parser.head_complete
      PROVE  /\ HasHead(Received) /\ Head_(Received) = req.head
             /\ Body_(Received) = req.body \o buf
  <2> DEFINE h == req.head
             b == req.body
             t == b \o buf
  <2>1. parser.partial_line = << >>
    BY <1>2, <1>3 DEF Pieces
  <2>2. /\ h \in Bytes /\ b \in Bytes
        /\ Received = h \o << >> \o << >> \o b \o buf
    BY <1>1, <1>2, <2>1
  <2>3. HeadEnds(h) = {Len(h)}
    BY <1>2, <1>3 DEF AtLines
  <2> HIDE DEF h, b
  <2>4. Received = h \o t
    BY <1>1, <2>2, RegroupBody
  <2>5. t \in Bytes
    BY <1>1, <2>2, Joined
  <2> HIDE DEF t
  <2>6. HasHead(Received) /\ Head_(Received) = h /\ Body_(Received) = t
    BY <2>2, <2>3, <2>4, <2>5, HeadFound
  <2>7. QED
    BY <2>6 DEF h, b, t
<1>4. ASSUME ~parser.head_complete
      PROVE  ~HasHead(Received)
  <2> DEFINE h == req.head
             p == parser.partial_line
  <2>1. req.body = << >> /\ buf = << >> /\ Unended(p)
    BY <1>2, <1>4 DEF IInv, Pieces
  <2>2. /\ h \in Bytes /\ p \in Bytes
        /\ Received = h \o p \o << >> \o << >> \o << >>
    BY <1>1, <1>2, <2>1
  <2>3. HeadEnds(h) = {}
    BY <1>2, <1>4 DEF AtLines
  <2> HIDE DEF h, p
  <2>4. Received = h \o p
    <3>1. h \o p \in Seq(STRING)
      BY <2>2, Joined DEF Bytes
    <3>2. h \o p \o << >> = h \o p
      BY <3>1, ConcatEmptySeq
    <3>3. QED
      BY <2>2, <3>2
  <2>5. HeadEnds(Received) = {}
    BY <2>1, <2>2, <2>3, <2>4, NoHeadYet
  <2>6. QED
    BY <2>5 DEF HasHead
<1>5. QED
  BY <1>3, <1>4

\* Every piece of the reader and of the request is what its type says.
THEOREM TypeCorrect == Spec => []TypeOK
<1>1. IInv => TypeOK
  BY DEF IInv
<1>2. QED
  BY <1>1, Invariant, PTL

\* No byte that recv() returned is lost, duplicated or moved on its way to the
\* request, whatever the stream, the pieces it comes in and the buffer's size.
THEOREM NothingLost == Spec => []NoByteLost
<1>1. IInv => NoByteLost
  BY DEF IInv
<1>2. QED
  BY <1>1, Invariant, PTL

\* The parser finds the end of the head and the Content-Length that a reader of
\* the whole stream would find.
THEOREM ParsedRight == Spec => []ParsedAsReference
<1>1. IInv => ParsedAsReference
  <2>1. SUFFICES ASSUME IInv, peer # "failed", pc \in {"select", "processed"}
                 PROVE  /\ parser.head_complete <=> HasHead(Received)
                        /\ parser.head_complete =>
                              /\ req.head = Head_(Received)
                              /\ parser.content_length
                                    = ContentLength(Head_(Received))
    BY DEF ParsedAsReference
  <2>2. parser.content_length = ContentLength(req.head)
    BY <2>1 DEF IInv, AtLines
  <2>3. parser.head_complete \in BOOLEAN
    BY <2>1 DEF IInv, TypeOK
  <2>4. QED
    BY <2>1, <2>2, <2>3, AtRest
<1>2. QED
  BY <1>1, Invariant, PTL

\* No request is processed before all of it is there, while its client may
\* still send.
THEOREM NotTooSoon == Spec => []NeverTooSoon
<1>1. IInv => NeverTooSoon
  <2>1. SUFFICES ASSUME IInv, pc = "processed", peer = "open"
                 PROVE  Complete(Received)
    BY DEF NeverTooSoon
  <2>2. /\ parser.head_complete /\ Len(req.body) >= parser.content_length
        /\ parser.content_length = ContentLength(req.head)
    BY <2>1 DEF IInv, AtLines, BodyAwaited
  <2>3. /\ HasHead(Received) /\ Head_(Received) = req.head
        /\ Body_(Received) = req.body \o buf
    BY <2>1, <2>2, AtRest
  <2>4. /\ req.body \in Bytes /\ buf \in Bytes /\ parser.content_length \in Nat
    BY <2>1 DEF IInv, TypeOK, Bytes
  <2>5. /\ Len(req.body) \in Nat /\ Len(buf) \in Nat
        /\ Len(req.body \o buf) = Len(req.body) + Len(buf)
    BY <2>4, Joined
  <2>6. Len(req.body \o buf) >= parser.content_length
    BY <2>2, <2>4, <2>5
  <2>7. QED
    BY <2>2, <2>3, <2>6 DEF Complete
<1>2. QED
  BY <1>1, Invariant, PTL

\* The thread never waits in select() with a complete request in hand, nor with
\* bytes in the reader's buffer, which select() does not report.
THEOREM NotStranded == Spec => []NeverStranded
<1>1. IInv => NeverStranded
  <2>1. SUFFICES ASSUME IInv, pc = "select"
                 PROVE  buf = << >> /\ (peer # "failed" => ~Complete(Received))
    BY DEF NeverStranded
  <2>2. buf = << >>
    BY <2>1 DEF IInv
  <2>3. ASSUME peer # "failed", Complete(Received)
        PROVE  FALSE
    <3>1. parser.head_complete
      BY <2>1, <2>3, AtRest DEF Complete
    <3>2. /\ Len(req.body) < parser.content_length
          /\ parser.content_length = ContentLength(req.head)
      BY <2>1, <2>3, <3>1 DEF IInv, AtLines, BodyAwaited
    <3>3. Head_(Received) = req.head /\ Body_(Received) = req.body \o buf
      BY <2>1, <2>3, <3>1, AtRest
    <3>4. req.body \in Bytes /\ parser.content_length \in Nat
      BY <2>1 DEF IInv, TypeOK, Bytes
    <3>5. req.body \o << >> = req.body /\ Len(req.body) \in Nat
      BY <3>4, ConcatEmptySeq DEF Bytes
    <3>6. Len(Body_(Received)) = Len(req.body)
      BY <2>2, <3>3, <3>5
    <3>7. Len(Body_(Received)) >= ContentLength(Head_(Received))
      BY <2>3 DEF Complete
    <3>8. QED
      BY <3>2, <3>3, <3>4, <3>5, <3>6, <3>7
  <2>4. QED
    BY <2>2, <2>3
<1>2. QED
  BY <1>1, Invariant, PTL
=============================================================================
