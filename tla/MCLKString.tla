----------------------------- MODULE MCLKString -----------------------------
(***************************************************************************)
(* An instance of LKString for TLC.                                         *)
(***************************************************************************)
EXTENDS LKString

MCArgs == {<< >>, <<"a">>, <<"sp">>, <<"a", "a">>, <<"a", "sp">>, <<"sp", "a", "sp">>}
=============================================================================
