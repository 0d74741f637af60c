---------------------------- MODULE LKHostsProofs ----------------------------
(***************************************************************************)
(* Lemmas about LKHosts: the position of a key or a host is that of the     *)
(* first one with it, and the operations that set and create keep tables    *)
(* and lists without duplicates.                                            *)
(***************************************************************************)
EXTENDS LKHosts, WellFoundedInduction, SequenceTheorems, TLAPS

Unique(st) == \A i, j \in DOMAIN st : st[i].k = st[j].k => i = j

UniqueHosts(hcs) ==
    \A i, j \in DOMAIN hcs : hcs[i].hostname = hcs[j].hostname => i = j

-----------------------------------------------------------------------------
\* A set of numbers has a least one.
LEMMA LeastOf ==
    ASSUME NEW S, S \subseteq Nat, S # {}
    PROVE  Min(S) \in S /\ \A y \in S : Min(S) <= y
<1>1. PICK x \in S : \A y \in S : <<y, x>> \notin OpToRel(<, Nat)
  BY NatLessThanWellFounded, WFMin, Zenon
<1>2. ASSUME NEW y \in S
      PROVE  x <= y
  <2>1. x \in Nat /\ y \in Nat
    OBVIOUS
  <2>2. ~(y < x)
    <3>1. SUFFICES ASSUME y < x PROVE FALSE
      OBVIOUS
    <3>2. <<y, x>> \in {ss \in Nat \X Nat : ss[1] < ss[2]}
      BY <2>1, <3>1
    <3>3. QED
      BY <1>1, <3>2 DEF OpToRel
  <2>3. QED
    BY <2>1, <2>2
<1>3. QED
  BY <1>2 DEF Min

\* ... and one with a bound a greatest one.
LEMMA GreatestOf ==
    ASSUME NEW S, S \subseteq Nat, S # {}, NEW b \in Nat, \A i \in S : i <= b
    PROVE  \E m \in S : \A i \in S : i <= m
<1> DEFINE U == {u \in Nat : \A i \in S : i <= u}
           m == Min(U)
<1>1. U \subseteq Nat /\ b \in U
  OBVIOUS
<1>2. m \in U /\ \A u \in U : m <= u
  <2> HIDE DEF U
  <2>1. QED
    BY <1>1, LeastOf
<1> HIDE DEF m
<1>3. m \in Nat /\ \A i \in S : i <= m
  BY <1>2
<1>4. m \in S
  <2>1. SUFFICES ASSUME m \notin S PROVE FALSE
    OBVIOUS
  <2>2. \A i \in S : i \in Nat /\ i <= m - 1
    BY <1>3, <2>1
  <2>3. m - 1 \in Nat
    <3>1. PICK i \in S : TRUE
      OBVIOUS
    <3>2. i \in Nat /\ i <= m - 1
      BY <2>2, <3>1
    <3>3. QED
      BY <1>3, <3>2
  <2>4. m - 1 \in U
    BY <2>2, <2>3
  <2>5. QED
    BY <1>2, <1>3, <2>4
<1>5. QED
  BY <1>3, <1>4

\* The beginning of a sequence of length 1.
LEMMA FirstOf ==
    ASSUME NEW S, NEW s \in Seq(S), Len(s) >= 1
    PROVE  SubSeq(s, 1, 1) = <<s[1]>>
<1>1. \A i \in 1 .. 1 : s[i] \in S
  OBVIOUS
<1>2. /\ SubSeq(s, 1, 1) \in Seq(S)
      /\ Len(SubSeq(s, 1, 1)) = 1 /\ SubSeq(s, 1, 1)[1] = s[1]
  BY <1>1, SubSeqProperties
<1>3. <<s[1]>> \in Seq(S) /\ Len(<<s[1]>>) = 1 /\ <<s[1]>>[1] = s[1]
  BY <1>1
<1>4. \A i \in 1 .. Len(<<s[1]>>) : SubSeq(s, 1, 1)[i] = <<s[1]>>[i]
  BY <1>2, <1>3
<1>5. QED
  BY <1>2, <1>3, <1>4, SeqEqual

-----------------------------------------------------------------------------
(***************************************************************************)
(* Prefixes, suffixes and parts of sequences.                               *)
(***************************************************************************)

\* A part of a sequence, item by item.
LEMMA PartIs ==
    ASSUME NEW S, NEW s \in Seq(S), NEW m \in Nat \ {0}, NEW n \in 0 .. Len(s)
    PROVE  /\ SubSeq(s, m, n) \in Seq(S)
           /\ Len(SubSeq(s, m, n)) = IF m <= n THEN n - m + 1 ELSE 0
           /\ \A i \in 1 .. n - m + 1 : SubSeq(s, m, n)[i] = s[m + i - 1]
<1>1. Len(s) \in Nat
  OBVIOUS
<1>2. \A i \in m .. n : s[i] \in S
  BY <1>1
<1>3. m \in Int /\ n \in Int
  BY <1>1
<1>4. QED
  BY <1>2, <1>3, SubSeqProperties

LEMMA PrefixIs ==
    ASSUME NEW S, NEW s \in Seq(S), NEW t \in Seq(S)
    PROVE  starts_with(s, t) <=>
              Len(t) <= Len(s) /\ \A i \in 1 .. Len(t) : s[i] = t[i]
<1>1. Len(s) \in Nat /\ Len(t) \in Nat
  OBVIOUS
<1>2. SubSeq(t, 1, Len(t)) = t
  BY SubSeqFull
<1>3. CASE Len(t) <= Len(s)
  <2> DEFINE u == SubSeq(s, 1, Len(t))
  <2>1. /\ u \in Seq(S) /\ Len(u) = Len(t)
        /\ \A i \in 1 .. Len(t) : u[i] = s[i]
    <3>1. Len(t) \in 0 .. Len(s) /\ 1 \in Nat \ {0}
      BY <1>1, <1>3
    <3>2. /\ u \in Seq(S) /\ Len(u) = IF 1 <= Len(t) THEN Len(t) - 1 + 1 ELSE 0
          /\ \A i \in 1 .. Len(t) - 1 + 1 : u[i] = s[1 + i - 1]
      BY <3>1, PartIs
    <3>3. QED
      BY <1>1, <3>2
  <2> HIDE DEF u
  <2>2. u = t <=> \A i \in 1 .. Len(t) : s[i] = t[i]
    BY <2>1, SeqEqual
  <2>3. QED
    BY <1>2, <1>3, <2>2 DEF starts_with, IsPrefix, u
<1>4. CASE ~(Len(t) <= Len(s))
  BY <1>4 DEF starts_with, IsPrefix
<1>5. QED
  BY <1>3, <1>4

LEMMA ReverseIs ==
    ASSUME NEW S, NEW s \in Seq(S)
    PROVE  /\ Reverse(s) \in Seq(S) /\ Len(Reverse(s)) = Len(s)
           /\ \A i \in 1 .. Len(s) : Reverse(s)[i] = s[(Len(s) - i) + 1]
<1>1. Len(s) \in Nat
  OBVIOUS
<1>2. Reverse(s) = [i \in 1 .. Len(s) |-> s[(Len(s) - i) + 1]]
  BY DEF Reverse
<1>3. \A i \in 1 .. Len(s) : s[(Len(s) - i) + 1] \in S
  <2>1. \A i \in 1 .. Len(s) : (Len(s) - i) + 1 \in 1 .. Len(s)
    BY <1>1
  <2>2. QED
    BY <2>1
<1>4. QED
  BY <1>1, <1>2, <1>3

LEMMA SuffixIs ==
    ASSUME NEW S, NEW s \in Seq(S), NEW t \in Seq(S)
    PROVE  ends_with(s, t) <=>
              Len(t) <= Len(s) /\ \A i \in 1 .. Len(t) : s[Len(s) - Len(t) + i] = t[i]
<1> DEFINE r == Reverse(s)
           q == Reverse(t)
           m == Len(s)
           n == Len(t)
<1>1. m \in Nat /\ n \in Nat
  OBVIOUS
<1>2. /\ r \in Seq(S) /\ Len(r) = m /\ \A i \in 1 .. m : r[i] = s[(m - i) + 1]
      /\ q \in Seq(S) /\ Len(q) = n /\ \A i \in 1 .. n : q[i] = t[(n - i) + 1]
  BY ReverseIs
<1>3. ends_with(s, t) <=> starts_with(r, q)
  BY DEF ends_with, IsSuffix, starts_with
<1> HIDE DEF r, q, m, n
<1>4. starts_with(r, q) <=> n <= m /\ \A i \in 1 .. n : r[i] = q[i]
  <2>1. r \in Seq(S) /\ q \in Seq(S)
    BY <1>2
  <2>2. starts_with(r, q) <=> Len(q) <= Len(r) /\ \A i \in 1 .. Len(q) : r[i] = q[i]
    BY <2>1, PrefixIs
  <2>3. QED
    BY <1>2, <2>2
<1>5. CASE n <= m
  <2>1. \A i \in 1 .. n : r[i] = s[(m - i) + 1] /\ q[i] = t[(n - i) + 1]
    BY <1>1, <1>2, <1>5
  <2>2. ASSUME \A i \in 1 .. n : r[i] = q[i], NEW i \in 1 .. n
        PROVE  s[m - n + i] = t[i]
    <3>1. (n - i) + 1 \in 1 .. n /\ (n - ((n - i) + 1)) + 1 = i
          /\ (m - ((n - i) + 1)) + 1 = m - n + i
      BY <1>1
    <3>2. QED
      BY <2>1, <2>2, <3>1
  <2>3. ASSUME \A i \in 1 .. n : s[m - n + i] = t[i], NEW i \in 1 .. n
        PROVE  r[i] = q[i]
    <3>1. (n - i) + 1 \in 1 .. n /\ m - n + ((n - i) + 1) = (m - i) + 1
      BY <1>1
    <3>2. QED
      BY <2>1, <2>3, <3>1
  <2>4. QED
    BY <1>3, <1>4, <1>5, <2>2, <2>3 DEF m, n
<1>6. CASE ~(n <= m)
  BY <1>3, <1>4, <1>6 DEF m, n
<1>7. QED
  BY <1>5, <1>6

-----------------------------------------------------------------------------
\* Position finds the first item with the key, or there is none.
LEMMA PositionIs ==
    ASSUME NEW st, Len(st) \in Nat, NEW k
    PROVE  /\ Position(st, k) \in 0 .. Len(st)
           /\ Position(st, k) # 0 =>
                 /\ st[Position(st, k)].k = k
                 /\ \A i \in 1 .. Position(st, k) - 1 : st[i].k # k
           /\ Position(st, k) = 0 => \A i \in 1 .. Len(st) : st[i].k # k
<1> DEFINE I == {i \in 1 .. Len(st) : st[i].k = k}
<1>1. Position(st, k) = IF I # {} THEN Min(I) ELSE 0
  BY DEF Position, SelectInSeq
<1>2. I \subseteq Nat
  OBVIOUS
<1>3. I # {} => Min(I) \in I /\ \A i \in I : Min(I) <= i
  <2> HIDE DEF I
  <2>1. QED
    BY <1>2, LeastOf
<1>4. CASE I = {}
  BY <1>1, <1>4
<1>5. CASE I # {}
  <2>1. Position(st, k) \in I /\ \A i \in I : Position(st, k) <= i
    BY <1>1, <1>3, <1>5
  <2>2. QED
    BY <2>1
<1>6. QED
  BY <1>4, <1>5

\* There is only one such position.
LEMMA PositionIsOne ==
    ASSUME NEW st, Len(st) \in Nat, NEW k, NEW p \in 0 .. Len(st),
           p # 0 => st[p].k = k /\ \A i \in 1 .. p - 1 : st[i].k # k,
           p = 0 => \A i \in 1 .. Len(st) : st[i].k # k
    PROVE  Position(st, k) = p
<1> DEFINE q == Position(st, k)
<1>1. /\ q \in 0 .. Len(st)
      /\ q # 0 => st[q].k = k /\ \A i \in 1 .. q - 1 : st[i].k # k
      /\ q = 0 => \A i \in 1 .. Len(st) : st[i].k # k
  BY PositionIs
<1> HIDE DEF q
<1>2. ~(p < q)
  BY <1>1
<1>3. ~(q < p)
  BY <1>1
<1>4. p = q
  BY <1>1, <1>2, <1>3
<1>5. QED
  BY <1>4 DEF q

\* get_hostconfig finds the host, or there is none.
LEMMA HostPositionIs ==
    ASSUME NEW hcs, Len(hcs) \in Nat, NEW h
    PROVE  /\ get_hostconfig(hcs, h) \in 0 .. Len(hcs)
           /\ get_hostconfig(hcs, h) # 0 => hcs[get_hostconfig(hcs, h)].hostname = h
           /\ get_hostconfig(hcs, h) = 0 => \A i \in 1 .. Len(hcs) : hcs[i].hostname # h
<1> DEFINE I == {i \in 1 .. Len(hcs) : hcs[i].hostname = h}
<1>1. get_hostconfig(hcs, h) = IF I # {} THEN Min(I) ELSE 0
  BY DEF get_hostconfig, SelectInSeq
<1>2. I \subseteq Nat
  OBVIOUS
<1>3. I # {} => Min(I) \in I
  <2> HIDE DEF I
  <2>1. QED
    BY <1>2, LeastOf
<1>4. QED
  BY <1>1, <1>3

\* Setting a key keeps a table one, whose keys are unique if they were.
LEMMA SetKeepsUnique ==
    ASSUME NEW K, NEW V, NEW st \in Seq([k : K, v : V]), NEW k \in K, NEW v \in V
    PROVE  /\ lk_stringtable_set(st, k, v) \in Seq([k : K, v : V])
           /\ Unique(st) => Unique(lk_stringtable_set(st, k, v))
<1> DEFINE p == Position(st, k)
           item == [k |-> k, v |-> v]
<1>1. /\ p \in 0 .. Len(st)
      /\ p # 0 => st[p].k = k
      /\ p = 0 => \A i \in 1 .. Len(st) : st[i].k # k
  BY PositionIs
<1>2. item \in [k : K, v : V] /\ item.k = k
  OBVIOUS
<1> HIDE DEF p, item
<1>3. CASE p = 0
  <2>1. lk_stringtable_set(st, k, v) = Append(st, item)
    BY <1>3 DEF lk_stringtable_set, p, item
  <2>2. QED
    BY <1>1, <1>2, <1>3, <2>1 DEF Unique
<1>4. CASE p # 0
  <2> DEFINE new == [st EXCEPT ![p].v = v]
  <2>1. lk_stringtable_set(st, k, v) = new
    BY <1>4 DEF lk_stringtable_set, p
  <2>2. /\ DOMAIN new = 1 .. Len(st)
        /\ \A i \in 1 .. Len(st) : /\ new[i] \in [k : K, v : V]
                                  /\ new[i].k = st[i].k
    <3>1. \A i \in 1 .. Len(st) : st[i] \in [k : K, v : V]
      BY ElementOfSeq
    <3>2. \A i \in 1 .. Len(st) :
             new[i] = IF i = p THEN [st[i] EXCEPT !.v = v] ELSE st[i]
      OBVIOUS
    <3>3. QED
      BY <3>1, <3>2
  <2>3. Len(st) \in Nat /\ DOMAIN st = 1 .. Len(st)
    OBVIOUS
  <2> HIDE DEF new
  <2>4. new \in Seq([k : K, v : V])
    <3>1. new = [i \in 1 .. Len(st) |-> new[i]]
      BY <2>2, <2>1 DEF new
    <3>2. QED
      BY <2>2, <2>3, <3>1
  <2>5. QED
    BY <2>1, <2>2, <2>3, <2>4 DEF Unique
<1>5. QED
  BY <1>3, <1>4

\* What is got after a set: the value for the key, and what it was for others.
LEMMA GetAfterSet ==
    ASSUME NEW K, NEW V, NEW st \in Seq([k : K, v : V]), NEW k \in K, NEW v \in V, NEW j
    PROVE  lk_stringtable_get(lk_stringtable_set(st, k, v), j) =
              IF j = k THEN v ELSE lk_stringtable_get(st, j)
<1> DEFINE p == Position(st, k)
           q == Position(st, j)
           new == lk_stringtable_set(st, k, v)
<1>1. /\ p \in 0 .. Len(st)
      /\ p # 0 => st[p].k = k /\ \A i \in 1 .. p - 1 : st[i].k # k
      /\ p = 0 => \A i \in 1 .. Len(st) : st[i].k # k
  BY PositionIs
<1>2. /\ q \in 0 .. Len(st)
      /\ q # 0 => st[q].k = j /\ \A i \in 1 .. q - 1 : st[i].k # j
      /\ q = 0 => \A i \in 1 .. Len(st) : st[i].k # j
  BY PositionIs
<1>3. Len(st) \in Nat /\ \A i \in 1 .. Len(st) : st[i] \in [k : K, v : V]
  <2>1. Len(st) \in Nat
    OBVIOUS
  <2>2. \A i \in 1 .. Len(st) : st[i] \in [k : K, v : V]
    BY ElementOfSeq
  <2>3. QED
    BY <2>1, <2>2
<1>4. \E n \in {Len(st), Len(st) + 1} :
         /\ Len(new) = n
         /\ p = 0 => n = Len(st) + 1 /\ new[n].k = k /\ new[n].v = v
         /\ p # 0 => n = Len(st) /\ new[p].v = v
         /\ \A i \in 1 .. Len(st) : new[i].k = st[i].k /\ (i # p => new[i] = st[i])
  <2>1. CASE p = 0
    <3>1. new = Append(st, [k |-> k, v |-> v])
      BY <2>1 DEF lk_stringtable_set
    <3> HIDE DEF p, new
    <3>2. /\ Len(new) = Len(st) + 1
          /\ new[Len(st) + 1] = [k |-> k, v |-> v]
          /\ \A i \in 1 .. Len(st) : new[i] = st[i]
      BY <3>1
    <3>3. QED
      BY <2>1, <3>2
  <2>2. CASE p # 0
    <3>1. new = [st EXCEPT ![p].v = v]
      BY <2>2 DEF lk_stringtable_set
    <3> HIDE DEF p, new
    <3>2. /\ Len(new) = Len(st)
          /\ \A i \in 1 .. Len(st) :
                new[i] = IF i = p THEN [st[i] EXCEPT !.v = v] ELSE st[i]
      BY <3>1
    <3>3. \A i \in 1 .. Len(st) :
             /\ [st[i] EXCEPT !.v = v].k = st[i].k
             /\ [st[i] EXCEPT !.v = v].v = v
      BY <1>3
    <3>4. p \in 1 .. Len(st)
      BY <1>1, <1>3, <2>2
    <3>5. QED
      BY <1>3, <2>2, <3>2, <3>3, <3>4
  <2>3. QED
    BY <2>1, <2>2
<1>5. lk_stringtable_get(st, j) = IF q = 0 THEN NULL ELSE st[q].v
  BY DEF lk_stringtable_get
<1>6. lk_stringtable_get(new, j) =
         IF Position(new, j) = 0 THEN NULL ELSE new[Position(new, j)].v
  BY DEF lk_stringtable_get
<1> HIDE DEF p, q, new
<1>7. CASE j = k
  <2> DEFINE r == IF p = 0 THEN Len(st) + 1 ELSE p
  <2>1. r \in 1 .. Len(new) /\ new[r].k = j /\ new[r].v = v /\ Len(new) \in Nat
    BY <1>1, <1>3, <1>4, <1>7
  <2>2. \A i \in 1 .. r - 1 : new[i].k # j
    BY <1>1, <1>3, <1>4, <1>7
  <2> HIDE DEF r
  <2>3. Position(new, j) = r
    BY <2>1, <2>2, PositionIsOne
  <2>4. QED
    BY <1>6, <1>7, <2>1, <2>3 DEF new
<1>8. CASE j # k
  <2>1. q \in 0 .. Len(new) /\ Len(new) \in Nat
    BY <1>2, <1>3, <1>4
  <2>2. q # 0 => new[q].k = j /\ new[q] = st[q] /\ \A i \in 1 .. q - 1 : new[i].k # j
    BY <1>1, <1>2, <1>3, <1>4, <1>8
  <2>3. q = 0 => \A i \in 1 .. Len(new) : new[i].k # j
    BY <1>1, <1>2, <1>3, <1>4, <1>8
  <2>4. Position(new, j) = q
    BY <2>1, <2>2, <2>3, PositionIsOne
  <2>5. QED
    BY <1>5, <1>6, <1>8, <2>2, <2>4 DEF new
<1>9. QED
  BY <1>7, <1>8

\* After a create_get the host is there, once if hosts were unique before.
LEMMA CreateGetKeepsUnique ==
    ASSUME NEW H, NEW hcs \in Seq(H), NEW h, lk_hostconfig_new(h) \in H
    PROVE  LET new == lk_config_create_get_hostconfig(hcs, h) IN
           /\ new \in Seq(H)
           /\ Len(new) >= Len(hcs)
           /\ get_hostconfig(new, h) \in 1 .. Len(new)
           /\ UniqueHosts(hcs) => UniqueHosts(new)
           /\ \A i \in DOMAIN hcs : i \in DOMAIN new /\ new[i] = hcs[i]
           /\ \A i \in DOMAIN new :
                 \/ i \in DOMAIN hcs /\ new[i] = hcs[i]
                 \/ /\ new[i] = lk_hostconfig_new(h)
                    /\ \A j \in DOMAIN hcs : hcs[j].hostname # h
<1> DEFINE p == get_hostconfig(hcs, h)
           new == lk_config_create_get_hostconfig(hcs, h)
<1>1. /\ p \in 0 .. Len(hcs)
      /\ p # 0 => hcs[p].hostname = h
      /\ p = 0 => \A i \in 1 .. Len(hcs) : hcs[i].hostname # h
  BY HostPositionIs
<1>2. lk_hostconfig_new(h).hostname = h
  BY DEF lk_hostconfig_new
<1>3. CASE p # 0
  <2>1. new = hcs
    BY <1>3 DEF lk_config_create_get_hostconfig
  <2>2. QED
    BY <1>1, <1>3, <2>1
<1>4. CASE p = 0
  <2>1. new = Append(hcs, lk_hostconfig_new(h))
    BY <1>4 DEF lk_config_create_get_hostconfig
  <2> HIDE DEF new
  <2>2. /\ new \in Seq(H) /\ Len(new) = Len(hcs) + 1
        /\ \A i \in 1 .. Len(hcs) : new[i] = hcs[i]
        /\ new[Len(new)] = lk_hostconfig_new(h)
    BY <2>1
  <2>3. get_hostconfig(new, h) \in 0 .. Len(new) /\ get_hostconfig(new, h) # 0
    BY <2>2, <1>2, HostPositionIs
  <2>4. UniqueHosts(hcs) => UniqueHosts(new)
    BY <1>1, <1>2, <1>4, <2>2 DEF UniqueHosts
  <2>5. \A j \in DOMAIN hcs : hcs[j].hostname # h
    BY <1>1, <1>4
  <2>6. \A i \in DOMAIN new : \/ i \in DOMAIN hcs /\ new[i] = hcs[i]
                             \/ new[i] = lk_hostconfig_new(h)
    BY <2>2
  <2>7. QED
    BY <2>2, <2>3, <2>4, <2>5, <2>6 DEF new
<1>5. QED
  BY <1>3, <1>4
=============================================================================
