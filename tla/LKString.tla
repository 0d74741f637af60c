------------------------------ MODULE LKString ------------------------------
(***************************************************************************)
(* The strings of the server (lkstring.c): a block of s_size + 1 characters *)
(* that grows with realloc(), of which s_len are the text.  Everybody reads *)
(* the block up to its first NUL, and the calls that make a text longer     *)
(* write no NUL behind it: they rely on what the call before left there.    *)
(***************************************************************************)
EXTENDS Naturals, Sequences

CONSTANTS
    Chars,      \* the values of a char, NUL among them
    NUL,
    Spaces,     \* what isspace() holds for
    Args,       \* the C strings that callers pass
    MaxLen      \* bound of the model on the length of a text

ASSUME CharsAssumption == NUL \in Chars /\ Spaces \subseteq Chars \ {NUL}
ASSUME ArgsAssumption == Args \subseteq Seq(Chars \ {NUL}) /\ << >> \in Args
ASSUME MaxLenAssumption == MaxLen \in Nat

VARIABLES
    s,          \* the block: a function from 0 .. s_size
    s_len, s_size,
    call        \* what the caller asked for and is not done yet

vars == <<s, s_len, s_size, call>>

-----------------------------------------------------------------------------
(***************************************************************************)
(* memset(), strncpy() and memmove() on a block f.  What they write beyond  *)
(* its end becomes a part of f, so that TypeOK sees it.                     *)
(***************************************************************************)
Cells(f, from, n) == [i \in 1 .. n |-> f[from + i - 1]]

Write(f, at, t) ==
    [i \in DOMAIN f \cup at .. at + Len(t) - 1 |->
        IF at <= i /\ i < at + Len(t) THEN t[i - at + 1] ELSE f[i]]

Move(f, to, from, n) == Write(f, to, Cells(f, from, n))

Zero(f, from, n) ==
    [i \in DOMAIN f \cup from .. from + n - 1 |->
        IF from <= i /\ i < from + n THEN NUL ELSE f[i]]

\* The blocks realloc() may return: the old contents, and then anything.
Realloc(size) ==
    {[i \in 0 .. size |-> IF i <= s_size THEN s[i] ELSE junk[i]] :
        junk \in [s_size + 1 .. size -> Chars]}

Larger(size) == IF size > s_size THEN size ELSE s_size

zero_s(f, size) == Zero(f, 0, size + 1)
zero_unused_s(f, size) == Zero(f, s_len, size + 1 - s_len)

\* Mutant of Room: the new part of the block is left as it is.
RoomAsIs(len, size) == IF len > s_size THEN Realloc(size) ELSE {s}

\* The block in which a text of length len has room; it grows to size.
Room(len, size) ==
    IF len > s_size THEN {zero_unused_s(f, size) : f \in Realloc(size)} ELSE {s}

-----------------------------------------------------------------------------
(***************************************************************************)
(* The calls.                                                               *)
(***************************************************************************)
NoCall == [op |-> "none", arg |-> << >>]

Calls ==
    [op : {"assign", "append", "prepend", "chop_start", "chop_end"}, arg : Args]
    \cup [op : {"append_char"}, arg : {<<c>> : c \in Chars}]
    \cup [op : {"trim"}, arg : {<< >>}]

Asked(op) == call.op = op /\ call' = NoCall

Init ==
    /\ call = NoCall
    /\ \/ \E t \in Args :                                \* lk_string_new
             /\ s_len = Len(t) /\ s_size = Len(t)
             /\ s = Write([i \in 0 .. Len(t) |-> NUL], 0, t)
       \/ \E size \in 0 .. MaxLen :                      \* lk_string_size_new
             /\ s_len = 0 /\ s_size = size
             /\ s = [i \in 0 .. size |-> NUL]

Call ==
    /\ call = NoCall
    /\ call' \in Calls
    /\ s_len + Len(call'.arg) <= MaxLen
    /\ UNCHANGED <<s, s_len, s_size>>

lk_string_assign ==
    /\ Asked("assign")
    /\ LET size == Larger(Len(call.arg)) IN
       /\ \E f \in IF size > s_size THEN Realloc(size) ELSE {s} :
             s' = Write(zero_s(f, size), 0, call.arg)
       /\ s_size' = size
    /\ s_len' = Len(call.arg)

\* Mutant of lk_string_append: the block grows too late.
AppendWithoutRoom ==
    /\ Asked("append")
    /\ LET len == s_len + Len(call.arg) IN
       /\ \E f \in Room(len - 1, len) : s' = Write(f, s_len, call.arg)
       /\ s_size' = IF len - 1 > s_size THEN len ELSE s_size
       /\ s_len' = len

lk_string_append ==
    /\ Asked("append")
    /\ LET len == s_len + Len(call.arg) IN
       /\ \E f \in Room(len, len) : s' = Write(f, s_len, call.arg)
       /\ s_size' = Larger(len)
       /\ s_len' = len

\* The character may be a NUL: lk_socketreader_readline appends what it reads.
lk_string_append_char ==
    /\ Asked("append_char")
    /\ LET size == s_len + (s_len + 1) * 2 IN
       /\ \E f \in Room(s_len + 1, size) : s' = Write(f, s_len, call.arg \o <<NUL>>)
       /\ s_size' = IF s_len + 1 > s_size THEN size ELSE s_size
       /\ s_len' = s_len + 1

\* Mutant of lk_string_prepend: the text is moved after it was overwritten.
CopyThenMove ==
    /\ Asked("prepend")
    /\ LET len == s_len + Len(call.arg) IN
       /\ \E f \in Room(len, len) :
             s' = Move(Write(f, 0, call.arg), Len(call.arg), 0, s_len)
       /\ s_size' = Larger(len)
       /\ s_len' = len

lk_string_prepend ==
    /\ Asked("prepend")
    /\ LET len == s_len + Len(call.arg) IN
       /\ \E f \in Room(len, len) :
             s' = Write(Move(f, Len(call.arg), 0, s_len), 0, call.arg)
       /\ s_size' = Larger(len)
       /\ s_len' = len

\* The text from character start on, of length len, moves to the beginning.
Keep(start, len) ==
    /\ s' = Zero(Move(s, 0, start, len), len, s_len - len)
    /\ s_len' = len
    /\ UNCHANGED s_size

TrimSpaces ==
    /\ Asked("trim") /\ s_len > 0
    /\ \A i \in 0 .. s_len - 1 : s[i] \in Spaces
    /\ s' = zero_s(s, s_size)
    /\ s_len' = 0
    /\ UNCHANGED s_size

\* starti and endi are where the loops of lk_string_trim stop.
TrimText ==
    /\ Asked("trim")
    /\ \E starti, endi \in 0 .. s_len - 1 :
          /\ s[starti] \notin Spaces /\ s[endi] \notin Spaces
          /\ \A i \in 0 .. s_len - 1 : i < starti \/ i > endi => s[i] \in Spaces
          /\ Keep(starti, endi - starti + 1)

\* strncmp() finds t at the beginning, or at the end, of the text.
lk_string_starts_with(t) == Len(t) <= s_len /\ Cells(s, 0, Len(t)) = t
lk_string_ends_with(t) == Len(t) <= s_len /\ Cells(s, s_len - Len(t), Len(t)) = t

lk_string_chop_start ==
    /\ Asked("chop_start")
    /\ lk_string_starts_with(call.arg)
    /\ Keep(Len(call.arg), s_len - Len(call.arg))

lk_string_chop_end ==
    /\ Asked("chop_end")
    /\ lk_string_ends_with(call.arg)
    /\ LET len == s_len - Len(call.arg) IN
       /\ s' = Zero(s, len, Len(call.arg))
       /\ s_len' = len
    /\ UNCHANGED s_size

\* A call that returns early: there is nothing to trim or to chop.
NothingToDo ==
    /\ \/ Asked("trim") /\ s_len = 0
       \/ Asked("chop_start") /\ ~lk_string_starts_with(call.arg)
       \/ Asked("chop_end") /\ ~lk_string_ends_with(call.arg)
    /\ UNCHANGED <<s, s_len, s_size>>

Next ==
    \/ Call \/ lk_string_assign \/ lk_string_append \/ lk_string_append_char
    \/ lk_string_prepend \/ TrimSpaces \/ TrimText
    \/ lk_string_chop_start \/ lk_string_chop_end \/ NothingToDo

Spec == Init /\ [][Next]_vars

-----------------------------------------------------------------------------
\* The block has room for the text and its end, and nothing is written beyond.
TypeOK ==
    /\ s_size \in Nat /\ s_len \in 0 .. s_size
    /\ s \in [0 .. s_size -> Chars]
    /\ call \in Calls \cup {NoCall}

\* Everything behind the text is NUL, after every call in every order: then the
\* text ends where its readers (strcmp, %s) see it end, and lk_string_append
\* can do without writing a terminator.
TailIsZero == \A i \in s_len .. s_size : s[i] = NUL

\* Every call does to the text what its name says, whatever the block had in it
\* and whatever realloc() returned.
Text == INSTANCE LKText WITH text <- Cells(s, 0, s_len)
ImplementsText == Text!Spec
=============================================================================
