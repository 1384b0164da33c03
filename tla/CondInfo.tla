------------------------------ MODULE CondInfo ------------------------------
(***************************************************************************)
(* instructions.cond_info: the character string in which the generator     *)
(* keeps, for every open `if', the enclosing if's branch counter (one      *)
(* char) and scope id (five decimal digits).  A character is its code; the *)
(* string ends at its first NUL, which is what strcat and strlen in        *)
(* Dynstring.cat make of it (dynstring.c).                                 *)
(***************************************************************************)
EXTENDS Integers, Sequences

CONSTANT SCHAR_MAX   \* char is signed on the build's target

ASSUME SCHAR_MAXAssumption == SCHAR_MAX \in Nat

(* The value an int has after it was stored in a char.                     *)
ToChar(n) ==
  ((n + SCHAR_MAX + 1) % (2 * SCHAR_MAX + 2)) - SCHAR_MAX - 1

(* sprintf("%.5lu", id), for an id of at most five digits.                 *)
Digits(id) ==
  <<48 + ((id \div 10000) % 10), 48 + ((id \div 1000) % 10),
    48 + ((id \div 100) % 10), 48 + ((id \div 10) % 10), 48 + (id % 10)>>

(* strtoul of five digits.                                                 *)
Number(s) ==
  10000 * (s[1] - 48) + 1000 * (s[2] - 48) + 100 * (s[3] - 48)
    + 10 * (s[4] - 48) + (s[5] - 48)

(* Dynstring.append of the counter, then Dynstring.cat of the digits: a    *)
(* counter of 0 is the NUL that strcat overwrites.                         *)
PushCond(info, cnt, id) ==
  (IF cnt = 0 THEN info ELSE Append(info, cnt)) \o Digits(id)

(* Fewer than six characters left: the read before the string's start is   *)
(* undefined, and Trunc_to_len's soft_assert then ends the process.        *)
CanPop(info) == Len(info) >= 6

PoppedId(info)  == Number(SubSeq(info, Len(info) - 4, Len(info)))
PoppedCnt(info) == info[Len(info) - 5]
PopCond(info)   == SubSeq(info, 1, Len(info) - 6)
=============================================================================
