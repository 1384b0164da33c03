----------------------------- MODULE MCBuiltins -----------------------------
(* Builtins on a small instance: all texts of at most MaxText bytes, each  *)
(* of them a #, a digit, a backslash or one that is not printable; all     *)
(* positions in and next to a text, and the bounds of chr.                 *)
EXTENDS Builtins

CONSTANTS Alphabet, MaxText

MCTexts == UNION {[1..n -> Alphabet] : n \in 0..MaxText}
MCInts  == (-1..MaxText + 1) \union {255, 256}
MCHalves == -3..3
=============================================================================
