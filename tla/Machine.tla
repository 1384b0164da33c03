------------------------------ MODULE Machine -------------------------------
(***************************************************************************)
(* The code emitted for expressions, calls, returns and assignments        *)
(* (code_generator.c), executed as soon as it is emitted.  It contains no  *)
(* jumps, except those to the code of functions and of operators, so one   *)
(* state of the interpreter stands for everything emitted so far.          *)
(*                                                                         *)
(* A value is the term that computes it: a literal, a variable's initial   *)
(* value, an operator applied to values, or a result of a call with the    *)
(* arguments it found.  What depends on the data (nil, division by zero,   *)
(* conversions of integers) is left out.                                   *)
(***************************************************************************)
EXTENDS Naturals, Sequences, TLC

CONSTANT Functions   \* name -> numbers of parameters and of return values

ASSUME FunctionsAssumption ==
  \A f \in DOMAIN Functions : /\ Functions[f].params \in Nat
                              /\ Functions[f].returns \in Nat

(* write takes any number of arguments; its symbol has an empty signature. *)
Write == "write"

(***************************************************************************)
(* Values and variables.                                                   *)
(***************************************************************************)
Nil             == <<"nil">>
Clobbered       == <<"clobbered">>       \* left over by some function's body
Literal(at)     == <<"literal", at>>     \* the literal that is the at-th token
Initial(x)      == <<"initial", x>>
Unary(op, v)    == <<op, v>>
Binary(op, v, w) == <<op, v, w>>
Result(f, i, args) == <<"result", f, i, args>>

Param(i)     == <<"param", i>>           \* TF@%0, TF@%1, ...
ReturnVar(i) == <<"return", i>>          \* %return0, %return1, ...
WriteVar(i)  == <<"write", i>>
LocalVar(x)  == <<"var", x>>
Temporary(s) == <<"tmp", s>>

(***************************************************************************)
(* data: the stack of PUSHS and POPS; tf, lf: the temporary frame (a       *)
(* sequence of none or one) and the local frame, functions from variables  *)
(* to values; result: GF@%expr_result; out: what was written; fault: the   *)
(* interpreter's exit code if it has stopped.                              *)
(***************************************************************************)
NoFault == 0
REDEFINED == 52
UNDEFINED_VARIABLE == 54
NO_FRAME == 55
NO_VALUE == 56

Started(locals) == [data |-> <<>>, tf |-> <<>>, lf |-> locals,
                    result |-> Nil, out |-> <<>>, fault |-> NoFault]

(* One instruction: n unless it is impossible in m.                        *)
Execute(m, possible, n, fault) ==
  CASE m.fault # NoFault -> m
    [] m.fault = NoFault /\ possible -> n
    [] OTHER -> [m EXCEPT !.fault = fault]

PUSHS(m, v) == Execute(m, TRUE, [m EXCEPT !.data = Append(@, v)], NoFault)

(* POPS GF@%expr_result: generate_expression_pop.                          *)
POPS(m) ==
  Execute(m, m.data # <<>>,
          [m EXCEPT !.data = SubSeq(@, 1, Len(@) - 1),
                    !.result = m.data[Len(m.data)]], NO_VALUE)

CREATEFRAME(m) == Execute(m, TRUE, [m EXCEPT !.tf = << <<>> >>], NoFault)

(* DEFVAR TF@x and MOVE TF@x v.                                            *)
NewInTF(m, x, v) ==
  LET created == Execute(m, m.tf # <<>>, m, NO_FRAME)
  IN  Execute(created, x \notin DOMAIN m.tf[1],
              [m EXCEPT !.tf = << (x :> v) @@ @[1] >>], REDEFINED)

MoveToLF(m, x, v) ==
  Execute(m, x \in DOMAIN m.lf, [m EXCEPT !.lf[x] = v], UNDEFINED_VARIABLE)

(* n times the instructions Step(_, i), for i = 0, 1, ..., n - 1.          *)
Repeat(m, n, Step(_, _)) ==
  LET after[i \in 0..n] == IF i = 0 THEN m ELSE Step(after[i-1], i - 1)
  IN  after[n]

(***************************************************************************)
(* Calls.  The body of a function (generate_func_start, _start_param and   *)
(* _return_value) makes the temporary frame its local frame, reads its     *)
(* parameters, creates its return variables, and gives the frame back.     *)
(***************************************************************************)
Params(f)  == {Param(i) : i \in 0..(Functions[f].params - 1)}
Returns(f) == {ReturnVar(i) : i \in 0..(Functions[f].returns - 1)}

Body(m, f) ==
  LET frame == m.tf[1]
      args  == [i \in 1..Functions[f].params |-> frame[Param(i-1)]]
      found == Execute(m, Params(f) \subseteq DOMAIN frame, m,
                       UNDEFINED_VARIABLE)
  IN  Execute(found, Returns(f) \intersect DOMAIN frame = {},
              [m EXCEPT !.tf = << [x \in Returns(f) |-> Result(f, x[2], args)]
                                  @@ frame >>,
                        !.result = Clobbered], REDEFINED)

func_call(m, f) == Body(Execute(m, m.tf # <<>>, m, NO_FRAME), f)

(* PUSHS TF@%return<i>: generate_func_call_return_value.                   *)
func_call_return_value(m, i) ==
  Execute(m, ReturnVar(i) \in DOMAIN m.tf[1], PUSHS(m, m.tf[1][ReturnVar(i)]),
          UNDEFINED_VARIABLE)

func_call_return_values(m, n) == Repeat(m, n, func_call_return_value)

pass_param(m, i)  == LET popped == POPS(m)
                     IN  NewInTF(popped, Param(i), popped.result)
pass_return(m, i) == LET popped == POPS(m)
                     IN  MoveToLF(popped, ReturnVar(i), popped.result)
var_assignment(m, x) ==
  Execute(m, m.data # <<>>,
          [m EXCEPT !.data = SubSeq(@, 1, Len(@) - 1),
                    !.lf[LocalVar(x)] = m.data[Len(m.data)]], NO_VALUE)

(* Pops the values into variables of a fresh frame, then writes these,     *)
(* from the last one to the first one: generate_multiple_write.            *)
PopToTmp(m, i) == LET popped == POPS(m)
                  IN  [NewInTF(popped, WriteVar(i), popped.result)
                         EXCEPT !.result = m.result]
WriteTmp(m, i) ==
  Execute(m, WriteVar(i) \in DOMAIN m.tf[1],
          [m EXCEPT !.result = m.tf[1][WriteVar(i)],
                    !.out = Append(@, m.tf[1][WriteVar(i)])],
          UNDEFINED_VARIABLE)

(* Fault: the variables are written in the order they were filled.         *)
multiple_write_reversed(m, n) ==
  Repeat(Repeat(CREATEFRAME(m), n, PopToTmp), n, WriteTmp)

multiple_write(m, n) ==
  LET popped == Repeat(CREATEFRAME(m), n, PopToTmp)
      WriteLast(k, i) == WriteTmp(k, n - 1 - i)
  IN  Repeat(popped, n, WriteLast)

(***************************************************************************)
(* Operators.  $$modulo runs in a frame of its own, which stays behind as  *)
(* the temporary frame; $$power creates its variables in the local frame   *)
(* of its caller.                                                          *)
(***************************************************************************)
Operator2(m, op) ==
  LET n == Len(m.data)
  IN  Execute(m, n >= 2,
              [m EXCEPT !.data = Append(SubSeq(@, 1, n - 2),
                                        Binary(op, m.data[n-1], m.data[n])),
                        !.result = Clobbered], NO_VALUE)

modulo(m) ==
  LET names == {ReturnVar(0), Temporary("divisor"), Temporary("divident")}
  IN  Operator2(Execute(m, TRUE,
                        [m EXCEPT !.tf = << [x \in names |-> Clobbered] >>],
                        NoFault), "%")

power(m) ==
  LET names == {Temporary("exp"), Temporary("base")}
  IN  Operator2(Execute(m, names \intersect DOMAIN m.lf = {},
                        [m EXCEPT !.lf = [x \in names |-> Clobbered] @@ @],
                        REDEFINED), "^")

expression_binary(m, op) == CASE op = "%" -> modulo(m)
                              [] op = "^" -> power(m)
                              [] OTHER    -> Operator2(m, op)

expression_unary(m, op) ==
  LET n == Len(m.data)
  IN  Execute(m, n >= 1, [m EXCEPT !.data[n] = Unary(op, m.data[n]),
                                   !.result = Clobbered], NO_VALUE)
=============================================================================
