------------------------------- MODULE Builtins -------------------------------
(***************************************************************************)
(* The built-in functions: the code written by hand in code_generator.c,   *)
(* executed, and the literals passed to it, as generate_var_value writes   *)
(* and the interpreter reads them.  A block without a jump back is a step. *)
(***************************************************************************)
EXTENDS Integers, Sequences, SequencesExt

CONSTANTS Texts,   \* string literals of the source text: sequences of bytes
          Ints,
          Halves,  \* numbers, in halves
          nil

ASSUME ValuesAssumption ==
  /\ Texts \subseteq Seq(0..127) /\ nil \notin Seq(0..255)
  /\ Ints \subseteq Int /\ Halves \subseteq Int /\ nil \notin Int

VARIABLES call,     \* the call being executed
          label,    \* where its code has come
          params,   \* LF@%0, LF@%1, ... are params[1], params[2], ...
          return0,  \* LF@%return0
          answer,   \* what the caller finds in %return0
          written,
          exit      \* the interpreter's exit code

vars == <<call, label, params, return0, answer, written, exit>>

ERROR_NIL   == 8    \* the code at $$ERROR_NIL
ERROR_TEXT  == 51   \* the interpreter: a malformed literal
ERROR_INDEX == 58   \* the interpreter: a character that does not exist

HASH == 35
BACKSLASH == 92
NIL_STRING == <<110, 105, 108>>

(***************************************************************************)
(* String literals.                                                        *)
(***************************************************************************)
isprint(c) == c \in 32..126

Digits(c) == <<48 + (c \div 100), 48 + ((c \div 10) % 10), 48 + (c % 10)>>

(* Fault: the backslash is printable.                                      *)
OnlyUnprintable(c) ==
  IF c <= 32 \/ c = HASH \/ ~ isprint(c) THEN <<BACKSLASH>> \o Digits(c) ELSE <<c>>

Escaped(c) ==
  IF c <= 32 \/ c = HASH \/ c = BACKSLASH \/ ~ isprint(c)
  THEN <<BACKSLASH>> \o Digits(c) ELSE <<c>>

generate_var_value(s) == FlattenSeq([i \in DOMAIN s |-> Escaped(s[i])])

(* The interpreter: a backslash and three digits are a byte, a blank or a  *)
(* # ends the literal.                                                     *)
NextByte(a, c) ==
  IF a.ended THEN a
  ELSE IF a.left > 0
       THEN [a EXCEPT !.left = @ - 1, !.code = 10 * @ + c - 48,
                      !.ended = c \notin 48..57,
                      !.text = IF a.left = 1 THEN Append(@, 10 * a.code + c - 48) ELSE @]
  ELSE IF c = BACKSLASH THEN [a EXCEPT !.left = 3, !.code = 0]
  ELSE IF c <= 32 \/ c = HASH THEN [a EXCEPT !.ended = TRUE]
  ELSE [a EXCEPT !.text = Append(@, c)]

Literal(text) ==
  FoldLeft(NextByte, [text |-> <<>>, left |-> 0, code |-> 0, ended |-> FALSE], text)

Accepted(a) == a.left = 0 /\ a.text \in Seq(0..255)

(***************************************************************************)
(* Calls: the arguments have the types of add_builtin_function, or are nil.*)
(***************************************************************************)
Values(kind) == CASE kind = "s" -> Texts \union {nil}
                  [] kind = "i" -> Ints \union {nil}
                  [] kind = "f" -> Halves \union {nil}

Call(f, args) == [f |-> f, args |-> args]
NoCall == Call("none", <<>>)

Init ==
  /\ call = NoCall /\ label = "caller" /\ params = <<>> /\ return0 = nil
  /\ answer = nil /\ written = nil /\ exit = 0

Pass(f, args, values, malformed) ==
  /\ label = "caller"
  /\ call' = Call(f, args) /\ params' = values
  /\ label' = IF malformed THEN "stopped" ELSE f
  /\ exit' = IF malformed THEN ERROR_TEXT ELSE 0
  /\ return0' = nil /\ answer' = nil /\ written' = nil

(* A number is what an expression left, a string may be a literal.         *)
Operand(s)   == IF s = nil THEN nil ELSE Literal(generate_var_value(s)).text
Malformed(s) == s # nil /\ ~ Accepted(Literal(generate_var_value(s)))

(* write takes any type, but does the same for all values other than nil.  *)
call_read      == \E f \in {"reads", "readi", "readn"} : Pass(f, <<>>, <<>>, FALSE)
call_write     == \E s \in Values("s") :
                    Pass("write", <<s>>, <<Operand(s)>>, Malformed(s))
call_tointeger == \E x \in Values("f") : Pass("tointeger", <<x>>, <<x>>, FALSE)
call_chr       == \E i \in Values("i") : Pass("chr", <<i>>, <<i>>, FALSE)
call_ord       == \E s \in Values("s"), i \in Values("i") :
                    Pass("ord", <<s, i>>, <<Operand(s), i>>, Malformed(s))
call_substr    == \E s \in Values("s"), i, j \in Values("i") :
                    Pass("substr", <<s, i, j>>, <<Operand(s), i, j>>, Malformed(s))

(***************************************************************************)
(* The functions' code.                                                    *)
(***************************************************************************)
(* POPFRAME and RETURN: of the frame, the caller reads %return0.           *)
Return(v) ==
  /\ label' = "caller" /\ call' = NoCall /\ answer' = v
  /\ params' = <<>> /\ return0' = nil
  /\ UNCHANGED <<written, exit>>

Stop(code) ==
  /\ label' = "stopped" /\ call' = NoCall /\ exit' = code
  /\ UNCHANGED <<params, return0, answer, written>>

(* READ gives nil at the end of the input and for what is no such value.   *)
reads == label = "reads" /\ \E v \in Values("s") : Return(v)
readi == label = "readi" /\ \E v \in Values("i") : Return(v)
readn == label = "readn" /\ \E v \in Values("f") : Return(v)

write ==
  /\ label = "write"
  /\ written' = IF params[1] = nil THEN NIL_STRING ELSE params[1]
  /\ label' = "caller" /\ call' = NoCall /\ params' = <<>>
  /\ UNCHANGED <<return0, answer, exit>>

FLOAT2INT(x) == IF x >= 0 THEN x \div 2 ELSE -((-x) \div 2)

tointeger ==
  /\ label = "tointeger"
  /\ Return(IF params[1] = nil THEN nil ELSE FLOAT2INT(params[1]))

HasNil == \E k \in DOMAIN params : params[k] = nil

nil_argument == label \in {"chr", "ord", "substr"} /\ HasNil /\ Stop(ERROR_NIL)

chr ==
  /\ label = "chr" /\ ~ HasNil
  /\ Return(IF params[1] < 0 \/ params[1] > 255 THEN nil ELSE <<params[1]>>)

(* Fault: the position behind the last character is let through.           *)
OutsideByOne(s, i) == i < 1 \/ i > Len(s) + 1

Outside(s, i) == i < 1 \/ i > Len(s)

(* STRI2INT and GETCHAR count from 0.                                      *)
Exists(s, k) == 0 <= k /\ k < Len(s)

ord ==
  /\ label = "ord" /\ ~ HasNil
  /\ IF Outside(params[1], params[2]) THEN Return(nil)
     ELSE LET k == params[2] - 1
          IN  IF Exists(params[1], k) THEN Return(params[1][k + 1]) ELSE Stop(ERROR_INDEX)

substr ==
  /\ label = "substr" /\ ~ HasNil
  /\ IF \/ Outside(params[1], params[2]) \/ Outside(params[1], params[3])
        \/ params[3] < params[2]
     THEN Return(<<>>)
     ELSE /\ params' = [params EXCEPT ![2] = @ - 1] /\ return0' = <<>>
          /\ label' = "LOOP"
          /\ UNCHANGED <<call, answer, written, exit>>

LOOP ==
  /\ label = "LOOP"
  /\ IF Exists(params[1], params[2])
     THEN /\ return0' = Append(return0, params[1][params[2] + 1])
          /\ params' = [params EXCEPT ![2] = @ + 1]
          /\ label' = IF params[2] + 1 < params[3] THEN "LOOP" ELSE "$substr$end"
          /\ UNCHANGED <<call, answer, written, exit>>
     ELSE Stop(ERROR_INDEX)

substr_end == label = "$substr$end" /\ Return(return0)

Run == \/ reads \/ readi \/ readn \/ write \/ tointeger \/ nil_argument
       \/ chr \/ ord \/ substr \/ LOOP \/ substr_end

Terminating == label = "stopped" /\ UNCHANGED vars

Next == \/ call_read \/ call_write \/ call_tointeger \/ call_chr \/ call_ord
        \/ call_substr \/ Run \/ Terminating

(* The interpreter executes an instruction as long as there is one.        *)
Spec == Init /\ [][Next]_vars /\ WF_vars(Run)

-----------------------------------------------------------------------------
(***************************************************************************)
(* Properties.                                                             *)
(***************************************************************************)
(* Whatever a string was read from, its characters that the code takes     *)
(* exist, so that a call stops the program for a nil among its arguments   *)
(* only, with the exit code for that.                                      *)
StopsForNilOnly ==
  exit \notin {0, ERROR_TEXT} =>
    exit = ERROR_NIL /\ \E k \in DOMAIN params : params[k] = nil

(* Each call ends, with the answer of the function of its arguments: those *)
(* of the source text, before a string is escaped and read back.  Nothing  *)
(* but a nil stops the program: the interpreter refuses no literal.        *)
Promise == INSTANCE Library
LibrarySpec == Promise!LibrarySpec
==============================================================================
