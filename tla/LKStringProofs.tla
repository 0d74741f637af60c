--------------------------- MODULE LKStringProofs ---------------------------
(***************************************************************************)
(* Proofs about LKString, for any characters, arguments and lengths: the    *)
(* block never overflows, everything behind the text stays NUL, and every   *)
(* call does to the text what LKText says.                                  *)
(***************************************************************************)
EXTENDS LKString, SequenceTheorems, TLAPS

-----------------------------------------------------------------------------
(***************************************************************************)
(* What the memory functions do to a block of size + 1 characters.          *)
(***************************************************************************)

\* strncpy() within the block changes just the characters it is given.
LEMMA WriteWithin ==
    ASSUME NEW size \in Nat, NEW f \in [0 .. size -> Chars],
           NEW t \in Seq(Chars), NEW at \in Nat, at + Len(t) <= size + 1
    PROVE  /\ Write(f, at, t) \in [0 .. size -> Chars]
           /\ \A i \in 0 .. size : Write(f, at, t)[i] =
                 IF at <= i /\ i < at + Len(t) THEN t[i - at + 1] ELSE f[i]
<1>1. Len(t) \in Nat /\ \A i \in 1 .. Len(t) : t[i] \in Chars
  OBVIOUS
<1>2. DOMAIN f \cup at .. at + Len(t) - 1 = 0 .. size
  <2>1. DOMAIN f = 0 .. size
    OBVIOUS
  <2>2. at .. at + Len(t) - 1 \subseteq 0 .. size
    BY <1>1
  <2>3. QED
    BY <2>1, <2>2
<1>3. \A i \in 0 .. size : at <= i /\ i < at + Len(t) => i - at + 1 \in 1 .. Len(t)
  BY <1>1
<1>4. QED
  BY <1>1, <1>2, <1>3 DEF Write

\* memset() within the block.
LEMMA ZeroWithin ==
    ASSUME NEW size \in Nat, NEW f \in [0 .. size -> Chars],
           NEW from \in Nat, NEW n \in Nat, from + n <= size + 1
    PROVE  /\ Zero(f, from, n) \in [0 .. size -> Chars]
           /\ \A i \in 0 .. size : Zero(f, from, n)[i] =
                 IF from <= i /\ i < from + n THEN NUL ELSE f[i]
<1>1. DOMAIN f \cup from .. from + n - 1 = 0 .. size
  <2>1. DOMAIN f = 0 .. size
    OBVIOUS
  <2>2. from .. from + n - 1 \subseteq 0 .. size
    OBVIOUS
  <2>3. QED
    BY <2>1, <2>2
<1>2. NUL \in Chars
  BY CharsAssumption
<1>3. QED
  BY <1>1, <1>2 DEF Zero

\* The characters that are read.
LEMMA CellsWithin ==
    ASSUME NEW size \in Nat, NEW f \in [0 .. size -> Chars],
           NEW from \in Nat, NEW n \in Nat, from + n <= size + 1
    PROVE  /\ Cells(f, from, n) \in Seq(Chars)
           /\ Len(Cells(f, from, n)) = n
           /\ \A i \in 1 .. n : Cells(f, from, n)[i] = f[from + i - 1]
<1>1. \A i \in 1 .. n : from + i - 1 \in 0 .. size
  OBVIOUS
<1>2. \A i \in 1 .. n : f[from + i - 1] \in Chars
  BY <1>1
<1>3. QED
  BY <1>2, IsASeq DEF Cells

\* memmove() within the block.
LEMMA MoveWithin ==
    ASSUME NEW size \in Nat, NEW f \in [0 .. size -> Chars],
           NEW to \in Nat, NEW from \in Nat, NEW n \in Nat,
           from + n <= size + 1, to + n <= size + 1
    PROVE  /\ Move(f, to, from, n) \in [0 .. size -> Chars]
           /\ \A i \in 0 .. size : Move(f, to, from, n)[i] =
                 IF to <= i /\ i < to + n THEN f[from + (i - to)] ELSE f[i]
<1> DEFINE c == Cells(f, from, n)
<1>1. /\ c \in Seq(Chars) /\ Len(c) = n
      /\ \A i \in 1 .. n : c[i] = f[from + i - 1]
  <2>1. /\ Cells(f, from, n) \in Seq(Chars)
        /\ Len(Cells(f, from, n)) = n
        /\ \A i \in 1 .. n : Cells(f, from, n)[i] = f[from + i - 1]
    BY CellsWithin, Zenon
  <2>2. QED
    BY <2>1
<1> HIDE DEF c
<1>2. /\ Write(f, to, c) \in [0 .. size -> Chars]
      /\ \A i \in 0 .. size : Write(f, to, c)[i] =
            IF to <= i /\ i < to + n THEN c[i - to + 1] ELSE f[i]
  <2>1. to + Len(c) <= size + 1
    BY <1>1
  <2>2. /\ Write(f, to, c) \in [0 .. size -> Chars]
        /\ \A i \in 0 .. size : Write(f, to, c)[i] =
              IF to <= i /\ i < to + Len(c) THEN c[i - to + 1] ELSE f[i]
    BY <1>1, <2>1, WriteWithin, Zenon
  <2>3. QED
    BY <1>1, <2>2
<1>3. ASSUME NEW i \in 0 .. size, to <= i, i < to + n
      PROVE  c[i - to + 1] = f[from + (i - to)]
  <2>1. i - to + 1 \in 1 .. n /\ from + (i - to + 1) - 1 = from + (i - to)
    BY <1>3
  <2>2. QED
    BY <1>1, <2>1
<1>4. Move(f, to, from, n) = Write(f, to, c)
  BY DEF Move, c
<1>5. QED
  BY <1>2, <1>3, <1>4

\* The text in a block.
LEMMA TextWithin ==
    ASSUME NEW size \in Nat, NEW f \in [0 .. size -> Chars], NEW n \in 0 .. size
    PROVE  /\ Cells(f, 0, n) \in Seq(Chars)
           /\ Len(Cells(f, 0, n)) = n
           /\ \A i \in 1 .. n : Cells(f, 0, n)[i] = f[i - 1]
<1>1. 0 \in Nat /\ n \in Nat /\ 0 + n <= size + 1
  OBVIOUS
<1>2. /\ Cells(f, 0, n) \in Seq(Chars)
      /\ Len(Cells(f, 0, n)) = n
      /\ \A i \in 1 .. n : Cells(f, 0, n)[i] = f[0 + i - 1]
  BY <1>1, CellsWithin, Zenon
<1>3. \A i \in 1 .. n : 0 + i - 1 = i - 1
  OBVIOUS
<1>4. QED
  BY <1>2, <1>3

-----------------------------------------------------------------------------
(***************************************************************************)
(* The inductive invariant: the types need the tail, since a call that does *)
(* not grow the block leaves the terminator to the one before.              *)
(***************************************************************************)
IInv == TypeOK /\ TailIsZero

\* What may be asked for.
LEMMA ArgIs ==
    ASSUME call \in Calls \cup {NoCall}
    PROVE  /\ call.arg \in Seq(Chars)
           /\ call.op \in {"assign", "append", "prepend", "chop_start", "chop_end"}
              => call.arg \in Args
           /\ call.op = "append_char" => Len(call.arg) = 1
<1>1. Args \subseteq Seq(Chars)
  BY ArgsAssumption
<1>2. \A c \in Chars : <<c>> \in Seq(Chars) /\ Len(<<c>>) = 1
  OBVIOUS
<1>3. << >> \in Seq(Chars)
  OBVIOUS
<1>4. CASE call \in [op : {"assign", "append", "prepend", "chop_start", "chop_end"},
                     arg : Args]
  <2>1. call.arg \in Args /\ call.op # "append_char"
    BY <1>4
  <2>2. QED
    BY <1>1, <2>1
<1>5. CASE call \in [op : {"append_char"}, arg : {<<c>> : c \in Chars}]
  <2>1. call.op = "append_char" /\ \E c \in Chars : call.arg = <<c>>
    BY <1>5
  <2>2. QED
    BY <1>2, <2>1
<1>6. CASE call \in [op : {"trim"}, arg : {<< >>}]
  <2>1. call.op = "trim" /\ call.arg = << >>
    BY <1>6
  <2>2. QED
    BY <1>3, <2>1
<1>7. CASE call = NoCall
  BY <1>3, <1>7 DEF NoCall
<1>8. QED
  BY <1>4, <1>5, <1>6, <1>7 DEF Calls

\* realloc() keeps the old contents.
LEMMA ReallocIs ==
    ASSUME TypeOK, NEW size \in Nat, size > s_size, NEW f \in Realloc(size)
    PROVE  /\ f \in [0 .. size -> Chars]
           /\ \A i \in 0 .. s_size : f[i] = s[i]
<1>1. PICK junk \in [s_size + 1 .. size -> Chars] :
         f = [i \in 0 .. size |-> IF i <= s_size THEN s[i] ELSE junk[i]]
  BY DEF Realloc
<1>2. s_size \in Nat /\ s \in [0 .. s_size -> Chars]
  BY DEF TypeOK
<1>3. ASSUME NEW i \in 0 .. size
      PROVE  (IF i <= s_size THEN s[i] ELSE junk[i]) \in Chars
  <2>1. i <= s_size => i \in 0 .. s_size
    BY <1>2
  <2>2. ~(i <= s_size) => i \in s_size + 1 .. size
    BY <1>2
  <2>3. QED
    BY <1>2, <2>1, <2>2
<1>4. f \in [0 .. size -> Chars]
  BY <1>1, <1>3
<1>5. ASSUME NEW i \in 0 .. s_size
      PROVE  f[i] = s[i]
  <2>1. i \in 0 .. size /\ i <= s_size
    BY <1>2
  <2>2. QED
    BY <1>1, <2>1
<1>6. QED
  BY <1>4, <1>5

NewSize(len, size) == IF len > s_size THEN size ELSE s_size

\* The block in which a longer text has room: the old text, then NULs.
LEMMA RoomIs ==
    ASSUME IInv, NEW len \in Nat, NEW size \in Nat, len <= size,
           NEW f \in Room(len, size)
    PROVE  /\ NewSize(len, size) \in Nat
           /\ len <= NewSize(len, size) /\ s_len <= NewSize(len, size)
           /\ f \in [0 .. NewSize(len, size) -> Chars]
           /\ \A i \in 0 .. s_len - 1 : f[i] = s[i]
           /\ \A i \in s_len .. NewSize(len, size) : f[i] = NUL
<1> DEFINE new == NewSize(len, size)
<1>1. /\ s_size \in Nat /\ s_len \in Nat /\ s_len <= s_size
      /\ s \in [0 .. s_size -> Chars]
      /\ \A i \in s_len .. s_size : s[i] = NUL
  BY DEF IInv, TypeOK, TailIsZero
<1>2. new \in Nat /\ len <= new /\ s_len <= new
  BY <1>1 DEF NewSize
<1>3. CASE len > s_size
  <2>1. PICK g \in Realloc(size) : f = zero_unused_s(g, size)
    BY <1>3 DEF Room
  <2>2. size > s_size
    BY <1>1, <1>3
  <2>3. g \in [0 .. size -> Chars] /\ \A i \in 0 .. s_size : g[i] = s[i]
    BY <2>2, ReallocIs DEF IInv
  <2>4. size + 1 - s_len \in Nat /\ s_len + (size + 1 - s_len) = size + 1
    BY <1>1, <2>2
  <2> DEFINE n == size + 1 - s_len
  <2>5. n \in Nat /\ s_len + n <= size + 1
    BY <2>4
  <2> HIDE DEF n
  <2>6. s_len \in Nat
    BY <1>1
  <2>7. g \in [0 .. size -> Chars]
    BY <2>3
  <2>8. /\ Zero(g, s_len, n) \in [0 .. size -> Chars]
        /\ \A i \in 0 .. size : Zero(g, s_len, n)[i] =
              IF s_len <= i /\ i < s_len + n THEN NUL ELSE g[i]
    BY <2>5, <2>6, <2>7, ZeroWithin
  <2>9. f = Zero(g, s_len, n) /\ s_len + n = size + 1 /\ new = size
    BY <1>3, <2>1, <2>4 DEF zero_unused_s, n, NewSize
  <2>10. ASSUME NEW i \in 0 .. s_len - 1
        PROVE  f[i] = s[i]
    <3>1. i \in 0 .. size /\ i \in 0 .. s_size /\ ~(s_len <= i)
      BY <1>1, <2>2
    <3>2. QED
      BY <2>3, <2>8, <2>9, <3>1
  <2>11. ASSUME NEW i \in s_len .. new
        PROVE  f[i] = NUL
    <3>1. i \in 0 .. size /\ s_len <= i /\ i < s_len + n
      BY <1>1, <2>9
    <3>2. QED
      BY <2>8, <2>9, <3>1
  <2>12. QED
    BY <1>2, <2>8, <2>9, <2>10, <2>11
<1>4. CASE ~(len > s_size)
  <2>1. f = s /\ new = s_size
    BY <1>4 DEF Room, NewSize
  <2>2. \A i \in 0 .. s_len - 1 : f[i] = s[i]
    BY <2>1
  <2>3. QED
    BY <1>1, <1>2, <2>1, <2>2
<1>5. QED
  BY <1>3, <1>4

-----------------------------------------------------------------------------
(***************************************************************************)
(* One call at a time: what is in the block after it.                       *)
(***************************************************************************)
OldText == Cells(s, 0, s_len)
NewText == Cells(s, 0, s_len)'

\* The block and the text before a call.
LEMMA Before ==
    ASSUME IInv
    PROVE  /\ s_size \in Nat /\ s_len \in Nat /\ s_len <= s_size
           /\ s \in [0 .. s_size -> Chars]
           /\ \A i \in s_len .. s_size : s[i] = NUL
           /\ OldText \in Seq(Chars) /\ Len(OldText) = s_len
           /\ \A i \in 1 .. s_len : OldText[i] = s[i - 1]
           /\ call.arg \in Seq(Chars) /\ Len(call.arg) \in Nat
           /\ \A i \in 1 .. Len(call.arg) : call.arg[i] \in Chars
           /\ call.op = "append_char" => Len(call.arg) = 1
<1>1. /\ s_size \in Nat /\ s_len \in 0 .. s_size /\ s \in [0 .. s_size -> Chars]
      /\ call \in Calls \cup {NoCall}
  BY DEF IInv, TypeOK
<1>2. \A i \in s_len .. s_size : s[i] = NUL
  BY DEF IInv, TailIsZero
<1>3. call.arg \in Seq(Chars) /\ (call.op = "append_char" => Len(call.arg) = 1)
  BY <1>1, ArgIs
<1>4. /\ OldText \in Seq(Chars) /\ Len(OldText) = s_len
      /\ \A i \in 1 .. s_len : OldText[i] = s[i - 1]
  BY <1>1, TextWithin DEF OldText
<1>5. Len(call.arg) \in Nat /\ \A i \in 1 .. Len(call.arg) : call.arg[i] \in Chars
  BY <1>3
<1>6. QED
  BY <1>1, <1>2, <1>3, <1>4, <1>5

\* The invariant and the text after a call, from the new block.
LEMMA After ==
    ASSUME s_size' \in Nat, s_len' \in 0 .. s_size', s' \in [0 .. s_size' -> Chars],
           call' = NoCall, \A i \in s_len' .. s_size' : s'[i] = NUL
    PROVE  /\ IInv'
           /\ NewText \in Seq(Chars) /\ Len(NewText) = s_len'
           /\ \A i \in 1 .. s_len' : NewText[i] = s'[i - 1]
<1>1. TypeOK' /\ TailIsZero'
  BY DEF TypeOK, TailIsZero
<1>2. /\ NewText \in Seq(Chars) /\ Len(NewText) = s_len'
      /\ \A i \in 1 .. s_len' : NewText[i] = s'[i - 1]
  BY TextWithin DEF NewText
<1>3. QED
  BY <1>1, <1>2 DEF IInv

\* Where a character behind the first m comes from.
LEMMA Behind ==
    ASSUME NEW m \in Nat, NEW n \in Nat, NEW k \in Nat, NEW size \in Nat,
           NEW i \in 1 .. m + n, ~(i <= m), n <= k, m + n <= size
    PROVE  /\ i - 1 \in 0 .. size /\ m <= i - 1 /\ i - 1 < m + k
           /\ (i - 1) - m + 1 = i - m
           /\ i - m \in 1 .. k /\ i - m <= n
OBVIOUS

\* lk_string_append and lk_string_append_char: the new characters, and then
\* what a wider write puts behind them, on a block with room for both.
LEMMA Extended ==
    ASSUME IInv, NEW len \in Nat, NEW size \in Nat, len <= size,
           NEW f \in Room(len, size), NEW t \in Seq(Chars),
           len = s_len + Len(call.arg), s_len + Len(t) <= len + 1,
           Len(call.arg) <= Len(t),
           \A i \in 1 .. Len(t) :
              t[i] = IF i <= Len(call.arg) THEN call.arg[i] ELSE NUL,
           s' = Write(f, s_len, t), s_len' = len,
           s_size' = NewSize(len, size), call' = NoCall
    PROVE  IInv' /\ NewText = OldText \o call.arg
<1>1. /\ s_size \in Nat /\ s_len \in Nat /\ s_len <= s_size
      /\ OldText \in Seq(Chars) /\ Len(OldText) = s_len
      /\ \A i \in 1 .. s_len : OldText[i] = s[i - 1]
      /\ call.arg \in Seq(Chars) /\ Len(call.arg) \in Nat /\ Len(t) \in Nat
  BY Before
<1> DEFINE new == NewSize(len, size)
<1>2. /\ new \in Nat /\ len <= new
      /\ f \in [0 .. new -> Chars]
      /\ \A i \in 0 .. s_len - 1 : f[i] = s[i]
      /\ \A i \in s_len .. new : f[i] = NUL
  BY RoomIs
<1>3. new = s_size'
  OBVIOUS
<1> HIDE DEF new
<1>4. /\ Write(f, s_len, t) \in [0 .. new -> Chars]
      /\ \A i \in 0 .. new : Write(f, s_len, t)[i] =
            IF s_len <= i /\ i < s_len + Len(t) THEN t[i - s_len + 1] ELSE f[i]
  <2>1. s_len \in Nat /\ new \in Nat /\ f \in [0 .. new -> Chars]
    BY <1>1, <1>2
  <2>2. s_len + Len(t) <= new + 1
    BY <1>1, <1>2
  <2>3. QED
    BY <2>1, <2>2, WriteWithin
<1>5. ASSUME NEW i \in len .. new
      PROVE  s'[i] = NUL
  <2>1. i \in 0 .. new /\ i \in s_len .. new /\ s_len <= i
    BY <1>1, <1>2
  <2>2. i < s_len + Len(t) => /\ i - s_len + 1 \in 1 .. Len(t)
                              /\ ~(i - s_len + 1 <= Len(call.arg))
    BY <1>1, <2>1
  <2>3. i < s_len + Len(t) => t[i - s_len + 1] = NUL
    BY <2>2
  <2>4. QED
    BY <1>2, <1>4, <2>1, <2>3
<1>6. /\ IInv' /\ NewText \in Seq(Chars) /\ Len(NewText) = len
      /\ \A i \in 1 .. len : NewText[i] = s'[i - 1]
  <2>1. s_size' \in Nat /\ s_len' \in 0 .. s_size' /\ s' \in [0 .. s_size' -> Chars]
    BY <1>2, <1>3, <1>4
  <2>2. \A i \in s_len' .. s_size' : s'[i] = NUL
    BY <1>3, <1>5
  <2>3. QED
    BY <2>1, <2>2, After
<1>7. /\ OldText \o call.arg \in Seq(Chars)
      /\ Len(OldText \o call.arg) = len
      /\ \A i \in 1 .. len : (OldText \o call.arg)[i] =
            IF i <= s_len THEN OldText[i] ELSE call.arg[i - s_len]
  BY <1>1, ConcatProperties
<1>8. ASSUME NEW i \in 1 .. len
      PROVE  NewText[i] = (OldText \o call.arg)[i]
  <2>1. CASE i <= s_len
    <3>1. i - 1 \in 0 .. new /\ i - 1 \in 0 .. s_len - 1 /\ ~(s_len <= i - 1) /\ i \in 1 .. s_len
      BY <1>1, <1>2, <2>1
    <3>2. s'[i - 1] = s[i - 1]
      BY <1>2, <1>4, <3>1
    <3>3. QED
      BY <1>1, <1>6, <1>7, <2>1, <3>1, <3>2
  <2>2. CASE ~(i <= s_len)
    <3>0. /\ i \in 1 .. s_len + Len(call.arg) /\ s_len + Len(call.arg) <= new
          /\ Len(call.arg) <= Len(t) /\ s_len \in Nat /\ Len(call.arg) \in Nat /\ Len(t) \in Nat
          /\ new \in Nat
      BY <1>1, <1>2
    <3>1. /\ i - 1 \in 0 .. new /\ s_len <= i - 1 /\ i - 1 < s_len + Len(t)
          /\ (i - 1) - s_len + 1 = i - s_len
          /\ i - s_len \in 1 .. Len(t) /\ i - s_len <= Len(call.arg)
      BY <2>2, <3>0, Behind
    <3>2. s'[i - 1] = t[i - s_len] /\ t[i - s_len] = call.arg[i - s_len]
      BY <1>4, <3>1
    <3>3. QED
      BY <1>6, <1>7, <2>2, <3>2
  <2>3. QED
    BY <2>1, <2>2
<1>9. NewText = OldText \o call.arg
  <2> DEFINE a == NewText
             b == OldText \o call.arg
  <2>1. a \in Seq(Chars) /\ b \in Seq(Chars) /\ Len(a) = Len(b)
    BY <1>6, <1>7
  <2>2. \A i \in 1 .. Len(a) : a[i] = b[i]
    BY <1>6, <1>8
  <2> HIDE DEF a, b
  <2>3. a = b
    BY <2>1, <2>2, SeqEqual
  <2>4. QED
    BY <2>3 DEF a, b
<1>10. QED
  BY <1>6, <1>9

LEMMA AppendStep ==
    ASSUME IInv, lk_string_append
    PROVE  IInv' /\ Text!Extend
<1> DEFINE len == s_len + Len(call.arg)
<1>1. /\ s_size \in Nat /\ s_len \in Nat
      /\ call.arg \in Seq(Chars) /\ Len(call.arg) \in Nat
  BY Before
<1>2. PICK f \in Room(len, len) : s' = Write(f, s_len, call.arg)
  BY DEF lk_string_append
<1>3. /\ call.op = "append" /\ call' = NoCall
      /\ s_len' = len /\ s_size' = NewSize(len, len)
  BY DEF lk_string_append, Asked, Larger, NewSize
<1>4. len \in Nat /\ len <= len /\ s_len + Len(call.arg) <= len + 1
  BY <1>1
<1>5. IInv' /\ NewText = OldText \o call.arg
  <2> HIDE DEF len
  <2>1. len = s_len + Len(call.arg)
    BY DEF len
  <2>2. QED
    BY <1>1, <1>2, <1>3, <1>4, <2>1, Extended
<1>6. QED
  BY <1>3, <1>5 DEF Text!Extend, Text!Asked, Text!NoCall, NoCall, NewText, OldText

LEMMA AppendCharStep ==
    ASSUME IInv, lk_string_append_char
    PROVE  IInv' /\ Text!Extend
<1> DEFINE len == s_len + 1
           size == s_len + (s_len + 1) * 2
           t == call.arg \o <<NUL>>
<1>1. /\ call.op = "append_char" /\ call' = NoCall
      /\ s_len' = len /\ s_size' = NewSize(len, size)
  BY DEF lk_string_append_char, Asked, NewSize
<1>2. /\ s_size \in Nat /\ s_len \in Nat
      /\ call.arg \in Seq(Chars) /\ Len(call.arg) = 1
  BY <1>1, Before
<1>3. PICK f \in Room(len, size) : s' = Write(f, s_len, t)
  BY DEF lk_string_append_char
<1>4. len \in Nat /\ size \in Nat /\ len <= size /\ len = s_len + Len(call.arg)
  BY <1>2
<1>5. <<NUL>> \in Seq(Chars) /\ Len(<<NUL>>) = 1 /\ <<NUL>>[1] = NUL
  BY CharsAssumption
<1>6. /\ t \in Seq(Chars) /\ Len(t) = 2
      /\ \A i \in 1 .. 2 : t[i] = IF i <= 1 THEN call.arg[i] ELSE <<NUL>>[i - 1]
  BY <1>2, <1>5, ConcatProperties
<1>7. \A i \in 1 .. Len(t) : t[i] = IF i <= Len(call.arg) THEN call.arg[i] ELSE NUL
  BY <1>2, <1>5, <1>6
<1>8. s_len + Len(t) <= len + 1 /\ Len(call.arg) <= Len(t)
  BY <1>2, <1>6
<1>9. IInv' /\ NewText = OldText \o call.arg
  <2> HIDE DEF len, size, t
  <2>1. QED
    BY <1>1, <1>3, <1>4, <1>6, <1>7, <1>8, Extended
<1>10. QED
  BY <1>1, <1>9 DEF Text!Extend, Text!Asked, Text!NoCall, NoCall, NewText, OldText

LEMMA AssignStep ==
    ASSUME IInv, lk_string_assign
    PROVE  IInv' /\ Text!Assign
<1> DEFINE size == Larger(Len(call.arg))
<1>1. /\ s_size \in Nat /\ s \in [0 .. s_size -> Chars]
      /\ call.arg \in Seq(Chars) /\ Len(call.arg) \in Nat
  BY Before
<1>2. PICK f \in IF size > s_size THEN Realloc(size) ELSE {s} :
         s' = Write(zero_s(f, size), 0, call.arg)
  BY DEF lk_string_assign
<1>3. /\ call.op = "assign" /\ call' = NoCall
      /\ s_len' = Len(call.arg) /\ s_size' = size
  BY DEF lk_string_assign, Asked
<1>4. size \in Nat /\ Len(call.arg) <= size /\ (size > s_size \/ size = s_size)
  BY <1>1 DEF Larger
<1> HIDE DEF size
<1>5. f \in [0 .. size -> Chars]
  BY <1>1, <1>2, <1>4, ReallocIs DEF IInv
<1> DEFINE z == zero_s(f, size)
<1>6. z \in [0 .. size -> Chars] /\ \A i \in 0 .. size : z[i] = NUL
  <2>1. 0 \in Nat /\ size + 1 \in Nat /\ 0 + (size + 1) <= size + 1
    BY <1>4
  <2>2. /\ Zero(f, 0, size + 1) \in [0 .. size -> Chars]
        /\ \A i \in 0 .. size : Zero(f, 0, size + 1)[i] =
              IF 0 <= i /\ i < 0 + (size + 1) THEN NUL ELSE f[i]
    BY <1>4, <1>5, <2>1, ZeroWithin
  <2>3. \A i \in 0 .. size : 0 <= i /\ i < 0 + (size + 1)
    BY <1>4
  <2>4. QED
    BY <2>2, <2>3 DEF zero_s
<1> HIDE DEF z
<1>7. /\ s' \in [0 .. size -> Chars]
      /\ \A i \in 0 .. size : s'[i] =
            IF 0 <= i /\ i < 0 + Len(call.arg) THEN call.arg[i - 0 + 1] ELSE z[i]
  <2>1. 0 \in Nat /\ 0 + Len(call.arg) <= size + 1
    BY <1>1, <1>4
  <2>2. s' = Write(z, 0, call.arg)
    BY <1>2 DEF z
  <2>3. QED
    BY <1>1, <1>4, <1>6, <2>1, <2>2, WriteWithin
<1>8. ASSUME NEW i \in Len(call.arg) .. size
      PROVE  s'[i] = NUL
  <2>1. i \in 0 .. size /\ ~(i < 0 + Len(call.arg))
    BY <1>1, <1>4
  <2>2. QED
    BY <1>6, <1>7, <2>1
<1>9. /\ IInv' /\ NewText \in Seq(Chars) /\ Len(NewText) = Len(call.arg)
      /\ \A i \in 1 .. Len(call.arg) : NewText[i] = s'[i - 1]
  <2>1. s_size' \in Nat /\ s_len' \in 0 .. s_size' /\ s' \in [0 .. s_size' -> Chars]
    BY <1>1, <1>3, <1>4, <1>7
  <2>2. \A i \in s_len' .. s_size' : s'[i] = NUL
    BY <1>3, <1>8
  <2>3. QED
    BY <1>3, <2>1, <2>2, After
<1>10. ASSUME NEW i \in 1 .. Len(call.arg)
       PROVE  NewText[i] = call.arg[i]
  <2>1. /\ i - 1 \in 0 .. size /\ 0 <= i - 1 /\ i - 1 < 0 + Len(call.arg)
        /\ (i - 1) - 0 + 1 = i
    BY <1>1, <1>4
  <2>2. QED
    BY <1>7, <1>9, <2>1
<1>11. NewText = call.arg
  BY <1>1, <1>9, <1>10, SeqEqual
<1>12. QED
  BY <1>3, <1>9, <1>11 DEF Text!Assign, Text!Asked, Text!NoCall, NoCall, NewText

LEMMA PrependStep ==
    ASSUME IInv, lk_string_prepend
    PROVE  IInv' /\ Text!Prepend
<1> DEFINE k == Len(call.arg)
           len == s_len + k
           new == NewSize(len, len)
<1>1. /\ s_size \in Nat /\ s_len \in Nat
      /\ OldText \in Seq(Chars) /\ Len(OldText) = s_len
      /\ \A i \in 1 .. s_len : OldText[i] = s[i - 1]
      /\ call.arg \in Seq(Chars) /\ k \in Nat
  BY Before
<1>2. PICK f \in Room(len, len) : s' = Write(Move(f, k, 0, s_len), 0, call.arg)
  BY DEF lk_string_prepend
<1>3. call.op = "prepend" /\ call' = NoCall /\ s_len' = len /\ s_size' = new
  BY DEF lk_string_prepend, Asked, Larger, NewSize
<1>4. len \in Nat
  BY <1>1
<1>5. /\ new \in Nat /\ len <= new
      /\ f \in [0 .. new -> Chars]
      /\ \A i \in 0 .. s_len - 1 : f[i] = s[i]
      /\ \A i \in s_len .. new : f[i] = NUL
  <2> HIDE DEF len
  <2>1. len <= len
    BY <1>4
  <2>2. QED
    BY <1>2, <1>4, <2>1, RoomIs
<1> HIDE DEF new
<1> DEFINE m == Move(f, k, 0, s_len)
<1>6. /\ m \in [0 .. new -> Chars]
      /\ \A i \in 0 .. new : m[i] = IF k <= i /\ i < k + s_len THEN f[0 + (i - k)] ELSE f[i]
  <2>1. /\ k \in Nat /\ 0 \in Nat /\ s_len \in Nat /\ new \in Nat
        /\ f \in [0 .. new -> Chars]
    BY <1>1, <1>5
  <2>2. 0 + s_len <= new + 1 /\ k + s_len <= new + 1
    BY <1>1, <1>5
  <2> HIDE DEF k
  <2>3. QED
    BY <2>1, <2>2, MoveWithin
<1> HIDE DEF m
<1>7. /\ s' \in [0 .. new -> Chars]
      /\ \A i \in 0 .. new : s'[i] = IF 0 <= i /\ i < 0 + k THEN call.arg[i - 0 + 1] ELSE m[i]
  <2>1. 0 \in Nat /\ 0 + k <= new + 1
    BY <1>1, <1>5
  <2>2. s' = Write(m, 0, call.arg)
    BY <1>2 DEF m
  <2>3. QED
    BY <1>1, <1>5, <1>6, <2>1, <2>2, WriteWithin
<1>8. ASSUME NEW i \in len .. new
      PROVE  s'[i] = NUL
  <2>1. i \in 0 .. new /\ i \in s_len .. new /\ ~(i < 0 + k) /\ ~(i < k + s_len)
    BY <1>1, <1>5
  <2>2. QED
    BY <1>5, <1>6, <1>7, <2>1
<1>9. /\ IInv' /\ NewText \in Seq(Chars) /\ Len(NewText) = len
      /\ \A i \in 1 .. len : NewText[i] = s'[i - 1]
  <2>1. s_size' \in Nat /\ s_len' \in 0 .. s_size' /\ s' \in [0 .. s_size' -> Chars]
    BY <1>3, <1>4, <1>5, <1>7
  <2>2. \A i \in s_len' .. s_size' : s'[i] = NUL
    BY <1>3, <1>8
  <2>3. QED
    BY <1>3, <2>1, <2>2, After
<1>10. /\ call.arg \o OldText \in Seq(Chars)
       /\ Len(call.arg \o OldText) = len
       /\ \A i \in 1 .. len : (call.arg \o OldText)[i] =
             IF i <= k THEN call.arg[i] ELSE OldText[i - k]
  <2> DEFINE b == OldText
  <2>1. b \in Seq(Chars) /\ Len(b) = s_len /\ call.arg \in Seq(Chars)
    BY <1>1
  <2> HIDE DEF b
  <2>2. /\ call.arg \o b \in Seq(Chars)
        /\ Len(call.arg \o b) = Len(call.arg) + Len(b)
        /\ \A i \in 1 .. Len(call.arg) + Len(b) : (call.arg \o b)[i] =
              IF i <= Len(call.arg) THEN call.arg[i] ELSE b[i - Len(call.arg)]
    BY <2>1, ConcatProperties
  <2>3. Len(call.arg) + Len(b) = len
    BY <1>1, <2>1
  <2>4. QED
    BY <2>2, <2>3 DEF b
<1>11. ASSUME NEW i \in 1 .. len
       PROVE  NewText[i] = (call.arg \o OldText)[i]
  <2>1. i - 1 \in 0 .. new /\ 0 <= i - 1 /\ (i - 1) - 0 + 1 = i
    BY <1>4, <1>5
  <2>2. CASE i <= k
    <3>1. i - 1 < 0 + k
      BY <1>1, <2>2
    <3>2. s'[i - 1] = call.arg[i]
      BY <1>7, <2>1, <3>1
    <3>3. QED
      BY <1>9, <1>10, <2>2, <3>2
  <2>3. CASE ~(i <= k)
    <3>1. /\ ~(i - 1 < 0 + k) /\ k <= i - 1 /\ i - 1 < k + s_len
          /\ 0 + ((i - 1) - k) \in 0 .. s_len - 1
          /\ 0 + ((i - 1) - k) = (i - k) - 1 /\ i - k \in 1 .. s_len
      BY <1>1, <2>3
    <3>2. s'[i - 1] = f[0 + ((i - 1) - k)]
      BY <1>6, <1>7, <2>1, <3>1
    <3>3. f[0 + ((i - 1) - k)] = OldText[i - k]
      BY <1>1, <1>5, <3>1
    <3>4. QED
      BY <1>9, <1>10, <2>3, <3>2, <3>3
  <2>4. QED
    BY <2>2, <2>3
<1>12. NewText = call.arg \o OldText
  BY <1>9, <1>10, <1>11, SeqEqual
<1>13. QED
  BY <1>3, <1>9, <1>12 DEF Text!Prepend, Text!Asked, Text!NoCall, NoCall, NewText, OldText

\* A part of the text is left: lk_string_trim and lk_string_chop_start.
LEMMA Kept ==
    ASSUME IInv, NEW start \in Nat, NEW len \in Nat, start + len <= s_len,
           Keep(start, len), call' = NoCall
    PROVE  IInv' /\ NewText = SubSeq(OldText, start + 1, start + len)
<1>1. /\ s_size \in Nat /\ s_len \in Nat /\ s_len <= s_size
      /\ s \in [0 .. s_size -> Chars]
      /\ \A i \in s_len .. s_size : s[i] = NUL
      /\ OldText \in Seq(Chars) /\ Len(OldText) = s_len
      /\ \A i \in 1 .. s_len : OldText[i] = s[i - 1]
  BY Before
<1> DEFINE m == Move(s, 0, start, len)
           n == s_len - len
<1>2. s' = Zero(m, len, n) /\ s_len' = len /\ s_size' = s_size
  BY DEF Keep
<1>3. n \in Nat /\ len + n = s_len
  BY <1>1
<1>4. /\ m \in [0 .. s_size -> Chars]
      /\ \A i \in 0 .. s_size : m[i] = IF 0 <= i /\ i < 0 + len THEN s[start + (i - 0)] ELSE s[i]
  <2>1. 0 \in Nat /\ start + len <= s_size + 1 /\ 0 + len <= s_size + 1
    BY <1>1
  <2>2. s_size \in Nat /\ s \in [0 .. s_size -> Chars]
    BY <1>1
  <2>3. /\ Move(s, 0, start, len) \in [0 .. s_size -> Chars]
        /\ \A i \in 0 .. s_size : Move(s, 0, start, len)[i] =
              IF 0 <= i /\ i < 0 + len THEN s[start + (i - 0)] ELSE s[i]
    BY <2>1, <2>2, MoveWithin
  <2>4. QED
    BY <2>3
<1> HIDE DEF m, n
<1>5. /\ s' \in [0 .. s_size -> Chars]
      /\ \A i \in 0 .. s_size : s'[i] = IF len <= i /\ i < len + n THEN NUL ELSE m[i]
  <2>1. len + n <= s_size + 1
    BY <1>1, <1>3
  <2>2. QED
    BY <1>1, <1>2, <1>3, <1>4, <2>1, ZeroWithin
<1>6. ASSUME NEW i \in len .. s_size
      PROVE  s'[i] = NUL
  <2>1. i \in 0 .. s_size /\ len <= i /\ ~(i < 0 + len)
    BY <1>1
  <2>2. ~(i < len + n) => i \in s_len .. s_size
    BY <1>1, <1>3
  <2>3. QED
    BY <1>1, <1>4, <1>5, <2>1, <2>2
<1>7. /\ IInv' /\ NewText \in Seq(Chars) /\ Len(NewText) = len
      /\ \A i \in 1 .. len : NewText[i] = s'[i - 1]
  <2>1. s_size' \in Nat /\ s_len' \in 0 .. s_size' /\ s' \in [0 .. s_size' -> Chars]
    BY <1>1, <1>2, <1>5
  <2>2. \A i \in s_len' .. s_size' : s'[i] = NUL
    BY <1>2, <1>6
  <2>3. QED
    BY <1>2, <2>1, <2>2, After
<1> DEFINE part == SubSeq(OldText, start + 1, start + len)
<1>8. /\ part \in Seq(Chars) /\ Len(part) = len
      /\ \A i \in 1 .. len : part[i] = OldText[start + i]
  <2>1. start + 1 \in Int /\ start + len \in Int
    OBVIOUS
  <2>2. \A i \in start + 1 .. start + len : OldText[i] \in Chars
    BY <1>1
  <2>3. /\ part \in Seq(Chars)
        /\ Len(part) = IF start + 1 <= start + len
                       THEN (start + len) - (start + 1) + 1 ELSE 0
        /\ \A i \in 1 .. (start + len) - (start + 1) + 1 :
              part[i] = OldText[(start + 1) + i - 1]
    BY <2>1, <2>2, SubSeqProperties
  <2>4. /\ (start + len) - (start + 1) + 1 = len
        /\ \A i \in 1 .. len : (start + 1) + i - 1 = start + i
    OBVIOUS
  <2> HIDE DEF part
  <2>5. QED
    BY <2>3, <2>4
<1> HIDE DEF part
<1>9. ASSUME NEW i \in 1 .. len
      PROVE  NewText[i] = part[i]
  <2>1. /\ i - 1 \in 0 .. s_size /\ 0 <= i - 1 /\ i - 1 < 0 + len /\ ~(len <= i - 1)
        /\ start + ((i - 1) - 0) = (start + i) - 1 /\ start + i \in 1 .. s_len
    BY <1>1
  <2>2. s'[i - 1] = s[(start + i) - 1]
    BY <1>4, <1>5, <2>1
  <2>3. s[(start + i) - 1] = OldText[start + i]
    BY <1>1, <2>1
  <2>4. QED
    BY <1>7, <1>8, <2>2, <2>3
<1>10. NewText = part
  BY <1>7, <1>8, <1>9, SeqEqual
<1>11. QED
  BY <1>7, <1>10 DEF part

\* strncmp() on the block and the comparison of texts agree.
LEMMA StartsSame ==
    ASSUME IInv
    PROVE  lk_string_starts_with(call.arg) <=> Text!StartsWith(OldText, call.arg)
<1> DEFINE k == Len(call.arg)
           c == Cells(s, 0, k)
<1>1. /\ s_size \in Nat /\ s_len \in Nat /\ s_len <= s_size
      /\ s \in [0 .. s_size -> Chars] /\ Len(OldText) = s_len
      /\ \A i \in 1 .. s_len : OldText[i] = s[i - 1]
      /\ call.arg \in Seq(Chars) /\ k \in Nat
  BY Before
<1>2. CASE k <= s_len
  <2>1. k \in 0 .. s_size
    BY <1>1, <1>2
  <2> HIDE DEF k
  <2>2. c \in Seq(Chars) /\ Len(c) = k /\ \A i \in 1 .. k : c[i] = s[i - 1]
    BY <1>1, <2>1, TextWithin
  <2> HIDE DEF c
  <2>3. \A i \in 1 .. k : c[i] = OldText[i]
    <3>1. \A i \in 1 .. k : i \in 1 .. s_len
      BY <1>1, <1>2
    <3>2. QED
      BY <1>1, <2>2, <3>1
  <2>4. c = call.arg <=> \A i \in 1 .. k : c[i] = call.arg[i]
    BY <1>1, <2>2, SeqEqual DEF k
  <2>5. c = call.arg <=> \A i \in 1 .. k : OldText[i] = call.arg[i]
    BY <2>3, <2>4
  <2>6. QED
    BY <1>1, <1>2, <2>5 DEF lk_string_starts_with, Text!StartsWith, c, k
<1>3. CASE ~(k <= s_len)
  BY <1>1, <1>3 DEF lk_string_starts_with, Text!StartsWith
<1>4. QED
  BY <1>2, <1>3

LEMMA EndsSame ==
    ASSUME IInv
    PROVE  lk_string_ends_with(call.arg) <=> Text!EndsWith(OldText, call.arg)
<1> DEFINE k == Len(call.arg)
           from == s_len - k
           c == Cells(s, from, k)
<1>1. /\ s_size \in Nat /\ s_len \in Nat /\ s_len <= s_size
      /\ s \in [0 .. s_size -> Chars] /\ Len(OldText) = s_len
      /\ \A i \in 1 .. s_len : OldText[i] = s[i - 1]
      /\ call.arg \in Seq(Chars) /\ k \in Nat
  BY Before
<1>2. CASE k <= s_len
  <2>1. from \in Nat /\ from + k = s_len /\ from + k <= s_size + 1
    BY <1>1, <1>2
  <2> HIDE DEF k, from
  <2>2. c \in Seq(Chars) /\ Len(c) = k /\ \A i \in 1 .. k : c[i] = s[from + i - 1]
    <3>1. s_size \in Nat /\ s \in [0 .. s_size -> Chars] /\ k \in Nat
      BY <1>1
    <3>2. QED
      BY <2>1, <3>1, CellsWithin
  <2> HIDE DEF c
  <2>3. \A i \in 1 .. k : c[i] = OldText[from + i]
    <3>1. \A i \in 1 .. k : from + i \in 1 .. s_len /\ (from + i) - 1 = from + i - 1
      BY <1>1, <2>1
    <3>2. QED
      BY <1>1, <2>2, <3>1
  <2>4. c = call.arg <=> \A i \in 1 .. k : c[i] = call.arg[i]
    BY <1>1, <2>2, SeqEqual DEF k
  <2>5. c = call.arg <=> \A i \in 1 .. k : OldText[from + i] = call.arg[i]
    BY <2>3, <2>4
  <2>6. QED
    BY <1>1, <1>2, <2>5 DEF lk_string_ends_with, Text!EndsWith, c, k, from
<1>3. CASE ~(k <= s_len)
  BY <1>1, <1>3 DEF lk_string_ends_with, Text!EndsWith
<1>4. QED
  BY <1>2, <1>3

LEMMA ChopStartStep ==
    ASSUME IInv, lk_string_chop_start
    PROVE  IInv' /\ Text!ChopStart
<1> DEFINE k == Len(call.arg)
           len == s_len - k
<1>1. /\ s_len \in Nat /\ Len(OldText) = s_len /\ k \in Nat
  BY Before
<1>2. /\ call.op = "chop_start" /\ call' = NoCall
      /\ lk_string_starts_with(call.arg) /\ Keep(k, len)
  BY DEF lk_string_chop_start, Asked
<1>3. Text!StartsWith(OldText, call.arg)
  BY <1>2, StartsSame
<1>4. len \in Nat /\ k + len = s_len /\ k + len <= s_len
  BY <1>1, <1>2 DEF lk_string_starts_with
<1> HIDE DEF len, k
<1>5. IInv' /\ NewText = SubSeq(OldText, k + 1, k + len)
  BY <1>1, <1>2, <1>4, Kept
<1>6. NewText = SubSeq(OldText, Len(call.arg) + 1, Len(OldText))
  BY <1>1, <1>4, <1>5 DEF k
<1>7. QED
  BY <1>2, <1>3, <1>5, <1>6
     DEF Text!ChopStart, Text!Asked, Text!NoCall, NoCall, NewText, OldText

LEMMA ChopEndStep ==
    ASSUME IInv, lk_string_chop_end
    PROVE  IInv' /\ Text!ChopEnd
<1> DEFINE k == Len(call.arg)
           len == s_len - k
<1>1. /\ s_size \in Nat /\ s_len \in Nat /\ s_len <= s_size
      /\ s \in [0 .. s_size -> Chars]
      /\ \A i \in s_len .. s_size : s[i] = NUL
      /\ OldText \in Seq(Chars) /\ Len(OldText) = s_len
      /\ \A i \in 1 .. s_len : OldText[i] = s[i - 1]
      /\ k \in Nat
  BY Before
<1>2. /\ call.op = "chop_end" /\ call' = NoCall
      /\ lk_string_ends_with(call.arg)
      /\ s' = Zero(s, len, k) /\ s_len' = len /\ s_size' = s_size
  BY DEF lk_string_chop_end, Asked
<1>3. Text!EndsWith(OldText, call.arg)
  BY <1>2, EndsSame
<1>4. len \in Nat /\ len <= s_len /\ len + k = s_len /\ len + k <= s_size + 1
  BY <1>1, <1>2 DEF lk_string_ends_with
<1> HIDE DEF len, k
<1>5. /\ s' \in [0 .. s_size -> Chars]
      /\ \A i \in 0 .. s_size : s'[i] = IF len <= i /\ i < len + k THEN NUL ELSE s[i]
  <2>1. /\ s_size \in Nat /\ s \in [0 .. s_size -> Chars]
        /\ len \in Nat /\ k \in Nat /\ len + k <= s_size + 1
    BY <1>1, <1>4
  <2>2. /\ Zero(s, len, k) \in [0 .. s_size -> Chars]
        /\ \A i \in 0 .. s_size : Zero(s, len, k)[i] =
              IF len <= i /\ i < len + k THEN NUL ELSE s[i]
    BY <2>1, ZeroWithin
  <2>3. QED
    BY <1>2, <2>2
<1>6. ASSUME NEW i \in len .. s_size
      PROVE  s'[i] = NUL
  <2>1. i \in 0 .. s_size /\ len <= i
    BY <1>1, <1>4
  <2>2. ~(i < len + k) => i \in s_len .. s_size
    BY <1>1, <1>4
  <2>3. QED
    BY <1>1, <1>5, <2>1, <2>2
<1>7. /\ IInv' /\ NewText \in Seq(Chars) /\ Len(NewText) = len
      /\ \A i \in 1 .. len : NewText[i] = s'[i - 1]
  <2>1. s_size' \in Nat /\ s_len' \in 0 .. s_size' /\ s' \in [0 .. s_size' -> Chars]
    BY <1>1, <1>2, <1>4, <1>5
  <2>2. \A i \in s_len' .. s_size' : s'[i] = NUL
    BY <1>2, <1>6
  <2>3. QED
    BY <1>2, <2>1, <2>2, After
<1> DEFINE part == SubSeq(OldText, 1, len)
<1>8. /\ part \in Seq(Chars) /\ Len(part) = len
      /\ \A i \in 1 .. len : part[i] = OldText[i]
  <2> DEFINE t == OldText
  <2>1. t \in Seq(Chars) /\ len <= Len(t)
    BY <1>1, <1>4
  <2> HIDE DEF t
  <2>2. /\ SubSeq(t, 1, len) \in Seq(Chars) /\ Len(SubSeq(t, 1, len)) = len
        /\ \A i \in 1 .. len : SubSeq(t, 1, len)[i] = t[i]
    BY <1>4, <2>1
  <2>3. QED
    BY <2>2 DEF t
<1> HIDE DEF part
<1>9. ASSUME NEW i \in 1 .. len
      PROVE  NewText[i] = part[i]
  <2>1. i - 1 \in 0 .. s_size /\ ~(len <= i - 1) /\ i \in 1 .. s_len
    BY <1>1, <1>4
  <2>2. s'[i - 1] = s[i - 1] /\ s[i - 1] = OldText[i]
    BY <1>1, <1>5, <2>1
  <2>3. QED
    BY <1>7, <1>8, <2>2
<1>10. NewText = part
  BY <1>7, <1>8, <1>9, SeqEqual
<1>11. NewText = SubSeq(OldText, 1, Len(OldText) - Len(call.arg))
  BY <1>1, <1>10 DEF part, len, k
<1>12. QED
  BY <1>2, <1>3, <1>7, <1>11
     DEF Text!ChopEnd, Text!Asked, Text!NoCall, NoCall, NewText, OldText

LEMMA TrimTextStep ==
    ASSUME IInv, TrimText
    PROVE  IInv' /\ Text!Trim
<1>1. /\ s_len \in Nat /\ Len(OldText) = s_len
      /\ \A i \in 1 .. s_len : OldText[i] = s[i - 1]
  BY Before
<1>2. PICK starti \in 0 .. s_len - 1, endi \in 0 .. s_len - 1 :
         /\ s[starti] \notin Spaces /\ s[endi] \notin Spaces
         /\ \A i \in 0 .. s_len - 1 : i < starti \/ i > endi => s[i] \in Spaces
         /\ Keep(starti, endi - starti + 1)
  BY DEF TrimText
<1>3. call.op = "trim" /\ call' = NoCall
  BY DEF TrimText, Asked
<1>4. starti <= endi
  BY <1>1, <1>2
<1> DEFINE len == endi - starti + 1
           m == starti + 1
           n == endi + 1
<1>5. /\ starti \in Nat /\ len \in Nat /\ starti + len = n /\ starti + len <= s_len
      /\ m \in 1 .. s_len /\ n \in 1 .. s_len /\ m - 1 = starti /\ n - 1 = endi
  BY <1>1, <1>4
<1>6. IInv' /\ NewText = SubSeq(OldText, m, n)
  <2>1. Keep(starti, len)
    BY <1>2
  <2> HIDE DEF len
  <2>2. IInv' /\ NewText = SubSeq(OldText, starti + 1, starti + len)
    BY <1>3, <1>5, <2>1, Kept
  <2>3. QED
    BY <1>5, <2>2
<1>7. OldText[m] \notin Spaces /\ OldText[n] \notin Spaces
  BY <1>1, <1>2, <1>5
<1>8. ASSUME NEW i \in 1 .. s_len, i < m \/ i > n
      PROVE  OldText[i] \in Spaces
  <2>1. i - 1 \in 0 .. s_len - 1 /\ (i - 1 < starti \/ i - 1 > endi)
    BY <1>1, <1>5, <1>8
  <2>2. QED
    BY <1>1, <1>2, <2>1
<1> HIDE DEF m, n
<1>9. \E a, b \in 1 .. Len(OldText) :
         /\ OldText[a] \notin Spaces /\ OldText[b] \notin Spaces
         /\ \A i \in 1 .. Len(OldText) : i < a \/ i > b => OldText[i] \in Spaces
         /\ NewText = SubSeq(OldText, a, b)
  BY <1>1, <1>5, <1>6, <1>7, <1>8
<1>10. QED
  BY <1>3, <1>6, <1>9 DEF Text!Trim, Text!Asked, Text!NoCall, NoCall, NewText, OldText

LEMMA TrimSpacesStep ==
    ASSUME IInv, TrimSpaces
    PROVE  IInv' /\ Text!Trim
<1>1. /\ s_size \in Nat /\ s_len \in Nat /\ s_len <= s_size
      /\ s \in [0 .. s_size -> Chars] /\ Len(OldText) = s_len
      /\ \A i \in 1 .. s_len : OldText[i] = s[i - 1]
  BY Before
<1>2. /\ call.op = "trim" /\ call' = NoCall
      /\ \A i \in 0 .. s_len - 1 : s[i] \in Spaces
      /\ s' = Zero(s, 0, s_size + 1) /\ s_len' = 0 /\ s_size' = s_size
  BY DEF TrimSpaces, Asked, zero_s
<1>3. s' \in [0 .. s_size -> Chars] /\ \A i \in 0 .. s_size : s'[i] = NUL
  <2>1. /\ s_size \in Nat /\ s \in [0 .. s_size -> Chars]
        /\ 0 \in Nat /\ s_size + 1 \in Nat /\ 0 + (s_size + 1) <= s_size + 1
    BY <1>1
  <2>2. /\ Zero(s, 0, s_size + 1) \in [0 .. s_size -> Chars]
        /\ \A i \in 0 .. s_size : Zero(s, 0, s_size + 1)[i] =
              IF 0 <= i /\ i < 0 + (s_size + 1) THEN NUL ELSE s[i]
    BY <2>1, ZeroWithin
  <2>3. \A i \in 0 .. s_size : 0 <= i /\ i < 0 + (s_size + 1)
    BY <1>1
  <2>4. QED
    BY <1>2, <2>2, <2>3
<1>4. IInv' /\ NewText \in Seq(Chars) /\ Len(NewText) = 0
  <2>1. s_size' \in Nat /\ s_len' \in 0 .. s_size' /\ s' \in [0 .. s_size' -> Chars]
    BY <1>1, <1>2, <1>3
  <2>2. \A i \in s_len' .. s_size' : s'[i] = NUL
    BY <1>2, <1>3
  <2>3. QED
    BY <1>2, <2>1, <2>2, After
<1>5. NewText = << >>
  BY <1>4, EmptySeq
<1>6. \A i \in 1 .. Len(OldText) : OldText[i] \in Spaces
  <2>1. \A i \in 1 .. s_len : i - 1 \in 0 .. s_len - 1
    BY <1>1
  <2>2. QED
    BY <1>1, <1>2, <2>1
<1>7. QED
  BY <1>2, <1>4, <1>5, <1>6 DEF Text!Trim, Text!Asked, Text!NoCall, NoCall, NewText, OldText

\* The block is left alone.
LEMMA Unchanged ==
    ASSUME IInv, UNCHANGED <<s, s_len, s_size>>, call' \in Calls \cup {NoCall}
    PROVE  IInv' /\ NewText = OldText
BY DEF IInv, TypeOK, TailIsZero, NewText, OldText

LEMMA NothingStep ==
    ASSUME IInv, NothingToDo
    PROVE  IInv' /\ Text!Next
<1>1. IInv' /\ NewText = OldText /\ call' = NoCall
  <2>1. call' = NoCall /\ UNCHANGED <<s, s_len, s_size>>
    BY DEF NothingToDo, Asked
  <2>2. QED
    BY <2>1, Unchanged
<1>2. CASE Asked("trim") /\ s_len = 0
  <2>1. OldText \in Seq(Chars) /\ Len(OldText) = 0
    BY <1>2, Before
  <2>2. OldText = << >> /\ \A i \in 1 .. Len(OldText) : OldText[i] \in Spaces
    BY <2>1, EmptySeq
  <2>3. Text!Trim
    BY <1>1, <1>2, <2>2
       DEF Asked, Text!Trim, Text!Asked, Text!NoCall, NoCall, NewText, OldText
  <2>4. QED
    BY <1>1, <2>3 DEF Text!Next
<1>3. CASE Asked("chop_start") /\ ~lk_string_starts_with(call.arg)
  <2>1. ~Text!StartsWith(OldText, call.arg)
    BY <1>3, StartsSame
  <2>2. Text!ChopStart
    BY <1>1, <1>3, <2>1
       DEF Asked, Text!ChopStart, Text!Asked, Text!NoCall, NoCall, NewText, OldText
  <2>3. QED
    BY <1>1, <2>2 DEF Text!Next
<1>4. CASE Asked("chop_end") /\ ~lk_string_ends_with(call.arg)
  <2>1. ~Text!EndsWith(OldText, call.arg)
    BY <1>4, EndsSame
  <2>2. Text!ChopEnd
    BY <1>1, <1>4, <2>1
       DEF Asked, Text!ChopEnd, Text!Asked, Text!NoCall, NoCall, NewText, OldText
  <2>3. QED
    BY <1>1, <2>2 DEF Text!Next
<1>5. QED
  BY <1>2, <1>3, <1>4 DEF NothingToDo

-----------------------------------------------------------------------------
(***************************************************************************)
(* The theorems.                                                            *)
(***************************************************************************)
LEMMA Start ==
    ASSUME Init
    PROVE  IInv
<1>1. call \in Calls \cup {NoCall}
  BY DEF Init
<1>2. CASE \E t \in Args : /\ s_len = Len(t) /\ s_size = Len(t)
                           /\ s = Write([i \in 0 .. Len(t) |-> NUL], 0, t)
  <2>1. PICK t \in Args : /\ s_len = Len(t) /\ s_size = Len(t)
                          /\ s = Write([i \in 0 .. Len(t) |-> NUL], 0, t)
    BY <1>2
  <2> DEFINE size == Len(t)
             f == [i \in 0 .. size |-> NUL]
  <2>2. t \in Seq(Chars) /\ size \in Nat
    BY ArgsAssumption
  <2>3. f \in [0 .. size -> Chars] /\ \A i \in 0 .. size : f[i] = NUL
    BY CharsAssumption
  <2>4. 0 \in Nat /\ 0 + Len(t) <= size + 1
    BY <2>2
  <2> HIDE DEF size, f
  <2>5. /\ Write(f, 0, t) \in [0 .. size -> Chars]
        /\ \A i \in 0 .. size : Write(f, 0, t)[i] =
              IF 0 <= i /\ i < 0 + Len(t) THEN t[i - 0 + 1] ELSE f[i]
    BY <2>2, <2>3, <2>4, WriteWithin
  <2>6. \A i \in size .. size : i \in 0 .. size /\ ~(i < 0 + Len(t))
    BY <2>2 DEF size
  <2>7. s = Write(f, 0, t) /\ s_len = size /\ s_size = size
    BY <2>1 DEF f, size
  <2>8. QED
    BY <1>1, <2>2, <2>3, <2>5, <2>6, <2>7 DEF IInv, TypeOK, TailIsZero
<1>3. CASE \E size \in 0 .. MaxLen : /\ s_len = 0 /\ s_size = size
                                     /\ s = [i \in 0 .. size |-> NUL]
  BY <1>1, <1>3, CharsAssumption, MaxLenAssumption DEF IInv, TypeOK, TailIsZero
<1>4. QED
  BY <1>2, <1>3 DEF Init

\* Every step keeps the invariant and is one of the text's.
LEMMA Step ==
    ASSUME IInv, [Next]_vars
    PROVE  IInv' /\ [Text!Next]_(Text!vars)
<1>1. CASE Call
  <2>1. IInv' /\ NewText = OldText
    <3>1. call' \in Calls /\ UNCHANGED <<s, s_len, s_size>>
      BY <1>1 DEF Call
    <3>2. QED
      BY <3>1, Unchanged
  <2>2. Text!Call
    BY <1>1, <2>1 DEF Call, Text!Call, Text!NoCall, NoCall, NewText, OldText
  <2>3. QED
    BY <2>1, <2>2 DEF Text!Next
<1>2. CASE lk_string_assign
  BY <1>2, AssignStep DEF Text!Next
<1>3. CASE lk_string_append
  BY <1>3, AppendStep DEF Text!Next
<1>4. CASE lk_string_append_char
  BY <1>4, AppendCharStep DEF Text!Next
<1>5. CASE lk_string_prepend
  BY <1>5, PrependStep DEF Text!Next
<1>6. CASE TrimSpaces
  BY <1>6, TrimSpacesStep DEF Text!Next
<1>7. CASE TrimText
  BY <1>7, TrimTextStep DEF Text!Next
<1>8. CASE lk_string_chop_start
  BY <1>8, ChopStartStep DEF Text!Next
<1>9. CASE lk_string_chop_end
  BY <1>9, ChopEndStep DEF Text!Next
<1>10. CASE NothingToDo
  BY <1>10, NothingStep
<1>11. CASE UNCHANGED vars
  <2>1. call \in Calls \cup {NoCall}
    BY DEF IInv, TypeOK
  <2>2. IInv' /\ NewText = OldText /\ call' = call
    BY <1>11, <2>1, Unchanged DEF vars
  <2>3. QED
    BY <2>2 DEF Text!vars, NewText, OldText
<1>12. QED
  BY <1>1, <1>2, <1>3, <1>4, <1>5, <1>6, <1>7, <1>8, <1>9, <1>10, <1>11 DEF Next

\* The invariant holds in every behaviour.
THEOREM Invariant == Spec => []IInv
<1>1. Init => IInv
  BY Start
<1>2. IInv /\ [Next]_vars => IInv'
  BY Step
<1>3. QED
  BY <1>1, <1>2, PTL DEF Spec

\* No call writes beyond the block, and the text has room in it with its end.
THEOREM TypeCorrect == Spec => []TypeOK
<1>1. IInv => TypeOK
  BY DEF IInv
<1>2. QED
  BY <1>1, Invariant, PTL

\* Everything behind the text is NUL after every call.
THEOREM TailStaysZero == Spec => []TailIsZero
<1>1. IInv => TailIsZero
  BY DEF IInv
<1>2. QED
  BY <1>1, Invariant, PTL

\* The calls do to the text what LKText says.
THEOREM CallsImplementText == Spec => ImplementsText
<1>1. Init => Text!Init
  BY DEF Init, Text!Init, Text!NoCall, NoCall
<1>2. IInv /\ [Next]_vars => [Text!Next]_(Text!vars)
  BY Step
<1>3. Spec => []IInv
  BY Invariant
<1>4. QED
  BY <1>1, <1>2, <1>3, PTL DEF Spec, ImplementsText, Text!Spec
=============================================================================
