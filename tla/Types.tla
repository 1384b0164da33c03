-------------------------------- MODULE Types --------------------------------
(***************************************************************************)
(* Types at compile time and at run time.  semantics.c gives every value   *)
(* of an expression a type; the generator relies on it when it chooses     *)
(* conversions, nil checks and instructions, and the interpreter stops     *)
(* when an instruction meets operands of other types.  A behaviour is the  *)
(* body of main, statement by statement, and the bodies of the functions   *)
(* it calls, each emitted instruction executed as soon as it is emitted.   *)
(* Values are known by their kinds only.                                   *)
(***************************************************************************)
EXTENDS Integers, SequencesExt

CONSTANTS VarType,     \* local variable -> its declared type
          Params,      \* the variables that are a function's parameters
          ReturnType,  \* type of its one return value
          Literals,    \* types of literals
          BinaryOps, UnaryOps,
          MainStatements, BodyStatements,   \* statements of main, of functions
          MaxItems, MaxStatements, MaxCalls \* bounds

Types == {"i", "f", "s", "b", "n"}
Kinds == {"int", "float", "string", "bool", "nil"}

ASSUME DeclarationsAssumption ==
  /\ \A x \in DOMAIN VarType : VarType[x] \in Types \ {"n"}
  /\ Params \in Seq(DOMAIN VarType) /\ ReturnType \in Types \ {"n"}
  /\ Literals \subseteq Types
  /\ {MaxItems, MaxStatements, MaxCalls} \subseteq Nat

VARIABLES items,    \* static types of the values not yet consumed
          data,     \* the data stack, as kinds
          env,      \* the local frame: variable -> kind
          frames,   \* what the callers wait with
          phase,    \* "running", "accepted", "rejected"
          statements, \* statements so far
          register, \* the error register
          exit      \* why the interpreter stopped, "no" while it runs

vars == <<items, data, env, frames, phase, statements, register, exit>>

NOERROR == 0
TYPE_MISSMATCH == 4
FUNCTION_SEMANTICS == 5
EXPRESSIONS_TYPE_INCOMPATIBILITY == 6
SEMANTICS_OTHER == 7

(* $$ERROR_NIL, $$ERROR_DIV_BY_ZERO, and two exit codes of the interpreter.*)
NIL_ERROR == "exit 8"
DIV_BY_ZERO == "exit 9"
REDEFINED == "exit 52"
WRONG_TYPE == "exit 53"

KindOf == [i |-> "int", f |-> "float", s |-> "string", b |-> "bool", n |-> "nil"]

(***************************************************************************)
(* semantics.c: the result of an operation and the conversion it needs; no *)
(* typing is an error.                                                     *)
(***************************************************************************)
Relational == {"<", "<=", ">", ">=", "==", "~="}
Arithmetic == {"+", "-", "*", "/", "^"}
IntegerOps == {"//", "%"}

ASSUME OperatorsAssumption ==
  /\ BinaryOps \subseteq
       Relational \union Arithmetic \union IntegerOps \union {"..", "and", "or"}
  /\ UnaryOps \subseteq {"-", "not", "#"}

(* Fault: the wrong operand is converted.                                  *)
MixedSwapped(t, u) == CASE <<t, u>> = <<"i", "f">> -> {"second"}
                        [] <<t, u>> = <<"f", "i">> -> {"first"}
                        [] OTHER -> {}

Mixed(t, u) == CASE <<t, u>> = <<"i", "f">> -> {"first"}
                 [] <<t, u>> = <<"f", "i">> -> {"second"}
                 [] OTHER -> {}

Check_binary_compatibility(op, t, u) ==
  CASE op \in Relational ->
         IF t = u /\ t \notin {"n", "b"} THEN {<<"b", "none">>}
         ELSE IF Mixed(t, u) # {} THEN {<<"b", c>> : c \in Mixed(t, u)}
         ELSE IF op \in {"==", "~="} /\ ("n" \in {t, u} \/ t = u)
              THEN {<<"b", "none">>} ELSE {}
    [] op \in Arithmetic ->
         IF <<t, u>> = <<"i", "i">>
         THEN IF op \in {"/", "^"} THEN {<<"f", "both">>} ELSE {<<"i", "none">>}
         ELSE IF <<t, u>> = <<"f", "f">> THEN {<<"f", "none">>}
         ELSE {<<"f", c>> : c \in Mixed(t, u)}
    [] op \in IntegerOps -> IF t = "i" /\ u = "i" THEN {<<"i", "none">>} ELSE {}
    [] op = ".."         -> IF t = "s" /\ u = "s" THEN {<<"s", "none">>} ELSE {}
    [] op \in {"and", "or"} ->
         IF t = "b" /\ u = "b" THEN {<<"b", "none">>} ELSE {}

(* Fault: the opposite of a number has the type of an integer's.           *)
Check_unary_integer(op, t) ==
  CASE op = "#"   -> IF t = "s" THEN {"i"} ELSE {}
    [] op = "not" -> IF t = "b" THEN {"b"} ELSE {}
    [] op = "-"   -> IF t \in {"i", "f"} THEN {"i"} ELSE {}

Check_unary_compatability(op, t) ==
  CASE op = "#"   -> IF t = "s" THEN {"i"} ELSE {}
    [] op = "not" -> IF t = "b" THEN {"b"} ELSE {}
    [] op = "-"   -> {t} \intersect {"i", "f"}

Check_type_compatibility(expected, received) ==
  expected = received \/ received = "n" \/ (expected = "f" /\ received = "i")

(* Fault: an integer is stored in a number as it is.                       *)
RecastNever(expected, received) == FALSE

Recast(expected, received) == expected = "f" /\ received = "i"

(***************************************************************************)
(* The emitted code: what executing it may yield, a kind or an exit.       *)
(***************************************************************************)
Exits == {NIL_ERROR, DIV_BY_ZERO, REDEFINED, WRONG_TYPE}

(* Fault: no jump over the conversion for nil.                             *)
recast_unless_float(k) ==
  IF k = "float" THEN k ELSE IF k = "int" THEN "float" ELSE WRONG_TYPE

(* $$recast_to_float_...: INT2FLOAT unless nil or a float.                 *)
recast_to_float(k) ==
  IF k \in {"nil", "float"} THEN k
  ELSE IF k = "int" THEN "float" ELSE WRONG_TYPE

Recasts(c, k, l) == << IF c \in {"first", "both"} THEN recast_to_float(k) ELSE k,
                       IF c \in {"second", "both"} THEN recast_to_float(l) ELSE l >>

(* Instructions behind a nil check of both operands.                       *)
Checked(k, l, outcomes) ==
  IF WRONG_TYPE \in {k, l} THEN {WRONG_TYPE}
  ELSE IF "nil" \in {k, l} THEN {NIL_ERROR} ELSE outcomes

If(holds, outcomes) == IF holds THEN outcomes ELSE {WRONG_TYPE}

expression_binary(op, k, l) ==
  CASE op \in {"+", "-", "*"} -> Checked(k, l, If(k = l /\ k \in {"int", "float"}, {k}))
    [] op \in IntegerOps -> Checked(k, l, If(k = "int" /\ l = "int", {DIV_BY_ZERO, "int"}))
    [] op \in {"/", "^"} -> Checked(k, l, If(k = "float" /\ l = "float", {DIV_BY_ZERO, "float"}))
    [] op \in {"<", "<=", ">", ">="} -> Checked(k, l, If(k = l, {"bool"}))
    [] op \in {"==", "~="} -> If(k = l \/ "nil" \in {k, l}, {"bool"})
    [] op \in {"and", "or"} -> Checked(k, l, If(k = "bool" /\ l = "bool", {"bool"}))
    [] op = ".." -> Checked(k, l, If(k = "string" /\ l = "string", {"string"}))

expression_unary(op, k) ==
  CASE op = "-"   -> Checked(k, k, If(k \in {"int", "float"}, {k}))
    [] op = "not" -> Checked(k, k, If(k = "bool", {"bool"}))
    [] op = "#"   -> Checked(k, k, If(k = "string", {"int"}))

(* $$recast_to_bool: anything but nil is true.                             *)
recast_to_bool(k) == "bool"

(***************************************************************************)
(* Helpers of the actions.                                                 *)
(***************************************************************************)
Drop(s, n)   == SubSeq(s, 1, Len(s) - n)
Newest(s, n) == SubSeq(s, Len(s) - n + 1, Len(s))

Running == phase = "running" /\ exit = "no"

(* Errors.set_error.                                                       *)
set_error(code) == register' = code

(* A check that ends the parsing.                                          *)
Reject(code) ==
  /\ set_error(code) /\ phase' = "rejected"
  /\ UNCHANGED <<items, data, env, frames, statements, exit>>

Stop(code) ==
  /\ exit' = code
  /\ UNCHANGED <<items, data, env, frames, phase, statements, register>>

(* The next piece of an expression or a statement was parsed and executed. *)
Parsed == UNCHANGED <<phase, register, exit>>

Statement(kind) ==
  /\ Running /\ statements < MaxStatements
  /\ kind \in IF frames = <<>> THEN MainStatements ELSE BodyStatements
  /\ statements' = statements + 1

Init ==
  /\ items = <<>> /\ data = <<>> /\ frames = <<>>
  /\ env = [x \in DOMAIN VarType |-> "nil"]
  /\ phase = "running" /\ statements = 0
  /\ register = NOERROR /\ exit = "no"

(***************************************************************************)
(* Expressions: check_operand and check_rule.                              *)
(***************************************************************************)
Operand(type, kind) ==
  /\ Running /\ Len(items) < MaxItems /\ statements < MaxStatements
  /\ items' = Append(items, type) /\ data' = Append(data, kind)
  /\ UNCHANGED <<env, frames, statements>> /\ Parsed

operand == \/ \E t \in Literals : Operand(t, KindOf[t])
           \/ \E x \in DOMAIN VarType : Operand(VarType[x], env[x])

Replace(n, type, kind) ==
  /\ items' = Append(Drop(items, n), type)
  /\ data' = Append(Drop(data, n), kind)
  /\ UNCHANGED <<frames, statements>> /\ Parsed

(* $$power creates %exp in the local frame, which it may do once.          *)
binary ==
  /\ Running /\ Len(items) >= 2
  /\ \E op \in BinaryOps :
       LET args   == Newest(items, 2)
           typing == Check_binary_compatibility(op, args[1], args[2])
       IN  \/ typing = {} /\ Reject(EXPRESSIONS_TYPE_INCOMPATIBILITY)
           \/ \E t \in typing :
                LET k == Recasts(t[2], Newest(data, 2)[1], Last(data))
                IN  \E r \in IF op = "^" /\ "%exp" \in DOMAIN env THEN {REDEFINED}
                              ELSE expression_binary(op, k[1], k[2]) :
                      IF r \in Exits THEN Stop(r)
                      ELSE /\ Replace(2, t[1], r)
                           /\ env' = IF op = "^"
                                     THEN [x \in DOMAIN env \union {"%exp"} |->
                                             IF x = "%exp" THEN "float" ELSE env[x]]
                                     ELSE env

unary ==
  /\ Running /\ items # <<>>
  /\ \E op \in UnaryOps :
       LET typing == Check_unary_compatability(op, Last(items))
       IN  \/ typing = {} /\ Reject(EXPRESSIONS_TYPE_INCOMPATIBILITY)
           \/ \E t \in typing, r \in expression_unary(op, Last(data)) :
                IF r \in Exits THEN Stop(r)
                ELSE Replace(1, t, r) /\ UNCHANGED env

(***************************************************************************)
(* Statements.                                                             *)
(***************************************************************************)
(* assignment in parser.c: the value is popped first, so that a conversion *)
(* pushes it, and what $$recast_to_float_second pushes in turn stays.      *)
definition ==
  /\ Statement("definition") /\ Len(items) = 1
  /\ \E x \in DOMAIN VarType :
       LET recast == Recast(VarType[x], items[1])
           value  == IF recast THEN recast_to_float(Last(data)) ELSE Last(data)
       IN  IF Check_type_compatibility(VarType[x], items[1])
           THEN /\ data' = IF recast THEN Append(Drop(data, 1), value) ELSE Drop(data, 1)
                /\ env' = [env EXCEPT ![x] = value]
                /\ items' = <<>> /\ UNCHANGED frames /\ Parsed
           ELSE /\ set_error(TYPE_MISSMATCH) /\ phase' = "rejected"
                /\ UNCHANGED <<items, data, env, frames, exit>>

(* check_multiple_assignment: the variables from the last to the first.    *)
(* a_other_id drops the outcome: after an error, parsing goes on with the  *)
(* next statement; the code is never run.                                  *)
check_multiple_assignment(ids) ==
  LET n     == Len(ids)
      types == SubSeq(items, 1, n)
      kinds == SubSeq(Newest(data, Len(items)), 1, n)
      compatible == \A k \in 1..n : Check_type_compatibility(VarType[ids[k]], types[k])
      value(k) == IF Recast(VarType[ids[k]], types[k]) THEN recast_to_float(kinds[k])
                                                       ELSE kinds[k]
  IN  /\ items' = <<>> /\ data' = Drop(data, Len(items))
      /\ IF Len(items) >= n /\ compatible
         THEN /\ env' = [x \in DOMAIN env |->
                           IF \E k \in 1..n : ids[k] = x
                           THEN value(CHOOSE k \in 1..n : ids[k] = x /\ \A j \in 1..(k-1) : ids[j] # x)
                           ELSE env[x]]
              /\ UNCHANGED register
         ELSE /\ set_error(IF Len(items) < n THEN SEMANTICS_OTHER ELSE TYPE_MISSMATCH)
              /\ UNCHANGED env
      /\ UNCHANGED <<frames, phase, exit>>

multiple_assignment ==
  /\ Statement("assignment") /\ items # <<>>
  /\ \E n \in 1..2 : \E ids \in [1..n -> DOMAIN VarType] : check_multiple_assignment(ids)

(* Default_expression of if, while and until, then JUMPIFNEQ with true.    *)
condition ==
  /\ Statement("condition") /\ Len(items) = 1
  /\ LET value == IF items[1] = "b" THEN Last(data) ELSE recast_to_bool(Last(data))
     IN  IF value \in {"bool", "nil"}
         THEN /\ items' = <<>> /\ data' = Drop(data, 1)
              /\ UNCHANGED <<env, frames>> /\ Parsed
         ELSE exit' = WRONG_TYPE
              /\ UNCHANGED <<items, data, env, frames, phase, register>>

(***************************************************************************)
(* Calls: pass_param for the arguments, from the last to the first; then   *)
(* the function's body with variables of its own; then its return value.   *)
(***************************************************************************)
func_call ==
  LET n     == Len(Params)
      types == Newest(items, n)
      kinds == Newest(data, n)
      type(k)  == VarType[Params[k]]
      value(k) == IF Recast(type(k), types[k]) THEN recast_to_float(kinds[k]) ELSE kinds[k]
      index(x) == CHOOSE k \in 1..n : Params[k] = x
  IN  /\ Running /\ Len(frames) < MaxCalls /\ Len(items) >= n
      /\ IF \A k \in 1..n : Check_type_compatibility(type(k), types[k])
         THEN /\ frames' = Append(frames, [items |-> Drop(items, n), env |-> env])
              /\ items' = <<>> /\ data' = Drop(data, n)
              /\ env' = [x \in DOMAIN VarType |->
                           IF \E k \in 1..n : Params[k] = x THEN value(index(x)) ELSE "nil"]
              /\ UNCHANGED statements /\ Parsed
         ELSE Reject(FUNCTION_SEMANTICS)

GiveBack(kind) ==
  /\ items' = Append(Last(frames).items, ReturnType)
  /\ data' = Append(Drop(data, Len(items)), kind)
  /\ env' = Last(frames).env
  /\ frames' = Drop(frames, 1)
  /\ Parsed

return_expressions ==
  /\ Statement("return") /\ frames # <<>> /\ Len(items) = 1
  /\ IF Check_type_compatibility(ReturnType, items[1])
     THEN GiveBack(IF Recast(ReturnType, items[1]) THEN recast_to_float(Last(data)) ELSE Last(data))
     ELSE /\ set_error(FUNCTION_SEMANTICS) /\ phase' = "rejected"
          /\ UNCHANGED <<items, data, env, frames, exit>>

(* The end of a function's body, or a return without a value.              *)
func_end ==
  /\ Running /\ frames # <<>> /\ items = <<>>
  /\ GiveBack("nil")
  /\ UNCHANGED statements

main_end ==
  /\ Running /\ frames = <<>> /\ items = <<>>
  /\ phase' = "accepted"
  /\ UNCHANGED <<items, data, env, frames, statements, register, exit>>

Terminating ==
  /\ ~ Running \/ (statements = MaxStatements /\ items # <<>>)
  /\ UNCHANGED vars

Next == \/ operand \/ binary \/ unary
        \/ definition \/ multiple_assignment \/ condition
        \/ func_call \/ return_expressions \/ func_end \/ main_end
        \/ Terminating

Spec == Init /\ [][Next]_vars
-----------------------------------------------------------------------------
(***************************************************************************)
(* Properties.                                                             *)
(***************************************************************************)
TypeOK ==
  /\ items \in Seq(Types) /\ data \in Seq(Kinds)
  /\ DOMAIN env \in {DOMAIN VarType, DOMAIN VarType \union {"%exp"}}
  /\ \A x \in DOMAIN env : env[x] \in Kinds
  /\ exit \in Exits \union {"no"}

May(type) == {"nil", KindOf[type]}

(* The values the next operator or statement will find on the data stack   *)
(* have the types semantics.c gave them, or are nil.                       *)
OperandsAsTyped ==
  /\ Len(items) <= Len(data)
  /\ \A k \in DOMAIN items : Newest(data, Len(items))[k] \in May(items[k])

(* A variable holds a value of its declared type, or nil.                  *)
VariablesAsTyped == \A x \in DOMAIN VarType : env[x] \in May(VarType[x])

(* A program that passed the checks stops for nil or a division by zero,   *)
(* never because an instruction meets an operand of another type.          *)
NoTypeFault == exit # WRONG_TYPE
=============================================================================
