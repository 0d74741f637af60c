-------------------------- MODULE MCLKRequestReader --------------------------
(***************************************************************************)
(* Instances of LKRequestReader for TLC: requests that differ in what the   *)
(* reader and the parser tell apart.                                        *)
(***************************************************************************)
EXTENDS LKRequestReader

\* "-" stands for a negative number, which the unsigned content_length turns
\* into one that no body reaches.
MCLengths == [b \in {"0", "1", "3", "-"} |->
                 CASE b = "0" -> 0 [] b = "1" -> 1 [] b = "3" -> 3 [] b = "-" -> 100]

Get       == <<"R", LF, "H", "cr", LF, "cr", LF>>
Pipelined == <<"R", LF, LF, "R", LF>>
Post      == <<"R", LF, CL, "3", LF, LF, "b", LF, LF>>
LateLF    == <<LF, LF, "b", LF>>
TwoCLs    == <<"R", LF, CL, "3", LF, CL, "1", LF, LF, "b">>
Overrun   == <<"R", LF, "H", LF, CL, "1", LF, LF, "b", "b", "b">>
ZeroBody  == <<"R", CL, "1", LF, CL, "0", LF, "sp", LF, "b">>
Endless   == <<"R", LF, CL, "-", LF, LF, "b", "b">>
Short     == <<"R", LF, CL, "3", LF, LF, "b">>
HeadOnly  == <<"R", LF, "H", LF>>

Requests == {Get, Pipelined, Post, LateLF, TwoCLs, Overrun, ZeroBody,
             Endless, Short, HeadOnly}
=============================================================================
