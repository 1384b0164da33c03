------------------------------ MODULE MCTypes -------------------------------
(* Types on a small instance: a function from a number to an integer.      *)
EXTENDS Types

MCVarType == [x |-> "i", n |-> "f", s |-> "s"]
MCParams  == <<"n">>
=============================================================================
