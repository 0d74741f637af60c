----------------------------- MODULE MCLKProxy -----------------------------
(***************************************************************************)
(* Instances of LKProxy for TLC: every byte is different from the others.   *)
(***************************************************************************)
EXTENDS LKProxy

MCHead == <<11, 12>>
MCBody == <<21, 22>>
MCResponse == <<1, 2, 3, 4, 5>>
=============================================================================
