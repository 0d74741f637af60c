------------------------------- MODULE LKText -------------------------------
(***************************************************************************)
(* What the calls of lkstring.c promise: a text, without sizes, terminators *)
(* or moved memory.  A caller asks for one thing after the other.           *)
(***************************************************************************)
EXTENDS Naturals, Sequences

CONSTANTS
    Calls,      \* what may be asked for: [op |-> ..., arg |-> ...]
    Spaces      \* what isspace() holds for

VARIABLES text, call

vars == <<text, call>>

NoCall == [op |-> "none", arg |-> << >>]

Asked(op) == call.op = op /\ call' = NoCall

StartsWith(t, u) ==
    Len(u) <= Len(t) /\ \A i \in 1 .. Len(u) : t[i] = u[i]
EndsWith(t, u) ==
    Len(u) <= Len(t) /\ \A i \in 1 .. Len(u) : t[Len(t) - Len(u) + i] = u[i]

Init == call = NoCall

Call == call = NoCall /\ call' \in Calls /\ UNCHANGED text

Assign == Asked("assign") /\ text' = call.arg

Extend == (Asked("append") \/ Asked("append_char")) /\ text' = text \o call.arg

Prepend == Asked("prepend") /\ text' = call.arg \o text

\* Nothing is left of a text of spaces.
Trim ==
    /\ Asked("trim")
    /\ \/ /\ \A i \in 1 .. Len(text) : text[i] \in Spaces
          /\ text' = << >>
       \/ \E m, n \in 1 .. Len(text) :
             /\ text[m] \notin Spaces /\ text[n] \notin Spaces
             /\ \A i \in 1 .. Len(text) : i < m \/ i > n => text[i] \in Spaces
             /\ text' = SubSeq(text, m, n)

ChopStart ==
    /\ Asked("chop_start")
    /\ text' = IF StartsWith(text, call.arg)
               THEN SubSeq(text, Len(call.arg) + 1, Len(text)) ELSE text

ChopEnd ==
    /\ Asked("chop_end")
    /\ text' = IF EndsWith(text, call.arg)
               THEN SubSeq(text, 1, Len(text) - Len(call.arg)) ELSE text

Next == Call \/ Assign \/ Extend \/ Prepend \/ Trim \/ ChopStart \/ ChopEnd

Spec == Init /\ [][Next]_vars
=============================================================================
