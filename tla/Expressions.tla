---------------------------- MODULE Expressions -----------------------------
(***************************************************************************)
(* The parser of expressions (expressions.c): operator precedence for the  *)
(* operators, recursive descent for calls, assignments and returns, with   *)
(* the code it emits executed by a Machine.                                *)
(*                                                                         *)
(* One behaviour is one statement.  `text' is what was read of it so far;  *)
(* its last token is the current one, and every step that reads on chooses *)
(* the next token, so the behaviours are those of every Readable text.     *)
(* `contexts' is the C call stack: one context for the statement, one for  *)
(* each func_call, one for each parse_init with its precedence stack       *)
(* (parse calls itself last, which is a step here).                        *)
(*                                                                         *)
(* Of types only their number is kept: a check of types goes well or not.  *)
(***************************************************************************)
EXTENDS Machine, Integers

CONSTANTS
  Variables,       \* variables in scope
  BinaryOps, UnaryOps,   \* the operators' tokens; "-" may be in both
  Statements,      \* the entry points of expressions.c to be called
  DeclaredReturns, \* number of return values of the enclosing function
  Readable(_, _),  \* which beginnings of each statement are considered
  MaxTokens        \* bound: tokens in a statement, the one after it included

ASSUME TokensAssumption ==
  /\ UnaryOps \subseteq {"#", "not", "-"}
  /\ BinaryOps \subseteq {"^", "*", "/", "//", "%", "+", "-", "<", "<=", ">",
                          ">=", "==", "~=", "..", "and", "or"}
  /\ Statements \subseteq {"default", "return", "function", "global"}
  /\ DeclaredReturns \in Nat /\ MaxTokens \in Nat

VARIABLES text, contexts, machine, outcome, error

vars == <<text, contexts, machine, outcome, error>>

(***************************************************************************)
(* Tokens.  "literal" is any literal, "undefined" a name that is neither a *)
(* function nor a variable, "end" any token that cannot go on with a       *)
(* statement of this file.                                                 *)
(***************************************************************************)
Names  == DOMAIN Functions \union Variables \union {"undefined"}
Tokens == Names \union BinaryOps \union UnaryOps
            \union {"literal", "(", ")", ",", "=", "end"}

NOERROR == 0
LEXICAL == 1
SYNTAX == 2
DEFINITION == 3
TYPE_MISSMATCH == 4
FUNCTION_SEMANTICS == 5
EXPRESSIONS_TYPE_INCOMPATIBILITY == 6
SEMANTICS_OTHER == 7
INTERNAL == 99

At  == Len(text)
Tok == text[At]

(* EXPECTED of the current token: the next one is read.                    *)
Advance == /\ At < MaxTokens
           /\ \E t \in Tokens : /\ Readable(contexts[1].kind, Append(text, t))
                               /\ text' = Append(text, t)

(***************************************************************************)
(* The precedence functions.  An operator is a token, or "id", "$", or the *)
(* minus sign with one operand, "neg".                                     *)
(***************************************************************************)
Level(op) == CASE op = "id"                   -> 1
               [] op = "^"                    -> 2
               [] op \in {"*", "//", "/", "%"}  -> 3
               [] op \in {"+", "-"}           -> 4
               [] op \in {"<", "<=", ">", ">=", "==", "~="} -> 5
               [] op \in {"#", "not", "neg"}  -> 6
               [] op = ".."                   -> 7
               [] op = "and"                  -> 8
               [] op = "or"                   -> 9
               [] OTHER                       -> 10

(* Fault: `..' groups from the left, like `+'.                             *)
g_left(op) == <<13, 11, 9, 7, 5, 11, 5, 3, 1, 0>>[Level(op)]

f(op) == <<12, 12, 10, 8, 6, 10, 6, 4, 2, 0>>[Level(op)]
g(op) == <<13, 11, 9, 7, 5, 11, 7, 3, 1, 0>>[Level(op)]

IsBinaryOp(op) == op \in {"^", "*", "/", "//", "%", "+", "-", "<", "<=", ">",
                          ">=", "==", "~=", "..", "and", "or"}
IsUnaryOp(op)  == op \in {"#", "not", "neg"}

get_op(t) == CASE t \in Names \union {"literal"}       -> "id"
               [] IsBinaryOp(t) \/ t \in {"#", "not"} -> t
               [] OTHER                               -> "$"

(* Names are identifiers, not symbols or keywords.                         *)
ASSUME NamesAssumption ==
  \A t \in Names : /\ ~IsBinaryOp(t)
                   /\ t \notin {"#", "not", "literal", "(", ")", ",", "=", "end"}

(***************************************************************************)
(* Items of the precedence stack: `op' is what get_op makes of the item's  *)
(* token, `at' the token's position and `n' the number of an expression's  *)
(* values.  An item without a token has type 0, TOKEN_DEAD, hence "$".     *)
(***************************************************************************)
Item(type, op, at, n) == [type |-> type, op |-> op, at |-> at, n |-> n]

Dollar       == Item("DOLLAR", "$", 0, 0)
Less         == Item("LT", "$", 0, 0)
Expr(n)      == Item("EXPR", "$", 0, n)
Token(op, k) == Item("TOKEN", op, k, 0)

(***************************************************************************)
(* Contexts.                                                               *)
(*   parse: its stack, hard_reduce, and what parse_parents or              *)
(*     parse_function has just pushed.                                     *)
(*   the others: the function called, the variables to assign to, the      *)
(*     number of values passed so far, and of the last expression (0 as    *)
(*     long as there is none).                                             *)
(***************************************************************************)
NewParse == [kind |-> "parse", items |-> <<Dollar>>, hard |-> FALSE,
             parsed |-> "none"]

Context(kind, fun, ids) ==
  [kind |-> kind, fun |-> fun, ids |-> ids, cnt |-> 0, last |-> 0]

Top    == contexts[Len(contexts)]
Below  == SubSeq(contexts, 1, Len(contexts) - 1)
Caller == contexts[Len(contexts) - 1]

Push(c)     == Append(contexts, c)
Replace(c)  == [contexts EXCEPT ![Len(contexts)] = c]

Parsing(kind) == outcome = "parsing" /\ Top.kind = kind

Proceed(c, m) == /\ contexts' = c
                 /\ machine' = m
                 /\ UNCHANGED <<outcome, error>>

(* The statement ends; the current token is the first one after it.        *)
Accept(m) == /\ outcome' = "accepted"
             /\ contexts' = << contexts[1] >>
             /\ machine' = m

(* Every procedure returns false.  What was emitted is freed unread.       *)
Reject(e) == /\ outcome' = "rejected"
             /\ error' = e
             /\ text' = <<>> /\ contexts' = <<>> /\ machine' = Started(<<>>)

(* The current token is consumed; there may be none after it.              *)
Expected(c, m) == \/ Advance /\ Proceed(c, m)
                  \/ Reject(LEXICAL)

Silently(c, m) == Proceed(c, m) /\ UNCHANGED text

(***************************************************************************)
(* parse: one iteration begins with parse_parents and parse_function.      *)
(***************************************************************************)
Upper   == Top.items[Len(Top.items)]
HasExpr == Upper.type = "EXPR"

(* parse_function asks what a name is, except after an operand.            *)
AsksForName == /\ Top.parsed = "none" /\ ~Top.hard
               /\ Tok \in Names
               /\ ~(Upper.type = "TOKEN" /\ Upper.op = "id")

parse_parents ==
  /\ Parsing("parse")
  /\ Top.parsed = "none" /\ Tok = "("
  /\ Expected(Push(NewParse), machine)

parse_function_undefined ==
  /\ Parsing("parse")
  /\ AsksForName /\ Tok = "undefined"
  /\ Reject(DEFINITION)

Decides == /\ Parsing("parse")
           /\ Top.parsed = "none" => Tok # "("
           /\ AsksForName => Tok \in Variables

(***************************************************************************)
(* The rest of an iteration decides by two operators: the one on the stack *)
(* under the expression, if there is one, and the one read.                *)
(***************************************************************************)
Rest == IF HasExpr THEN SubSeq(Top.items, 1, Len(Top.items) - 1) ELSE Top.items

first_op == Rest[Len(Rest)].op

check_unary_minus(op) ==
  IF op = "-" /\ ~HasExpr /\ (first_op \in {"$", "neg"} \/ IsBinaryOp(first_op))
  THEN "neg" ELSE op

second_op == check_unary_minus(get_op(Tok))

expression_end == Tok \in Names /\ (first_op = "id" \/ Top.parsed # "none")
hard_reduce    == Top.hard \/ expression_end
parse_success  == first_op = "$" /\ (second_op = "$" \/ hard_reduce)

precedence_defined == ~(first_op = "id" /\ second_op = "id")
cmp == f(first_op) - g(second_op)

(* An expression without values is a call that returns nothing; nil stands *)
(* for its value.                                                          *)
NumValues(n) == IF n = 0 THEN 1 ELSE n
WithNil(m) ==
  IF HasExpr /\ Upper.n = 0 /\ Top.parsed = "function" THEN PUSHS(m, Nil) ELSE m

(* Fault: a call's further values stay on the stack.                       *)
clear_nothing(m, n) == m

(* All values but the first are popped.                                    *)
clear_expressions(m, n) == LET Pop(k, i) == POPS(k)
                           IN  Repeat(m, n - 1, Pop)

(* An operand has one value.                                               *)
AsOperand(m) == IF HasExpr THEN clear_expressions(WithNil(m), NumValues(Upper.n))
                           ELSE m
Operand == IF HasExpr THEN <<Expr(1)>> ELSE <<>>

Goes(items, hard) == [Top EXCEPT !.items = items, !.hard = hard,
                                 !.parsed = "none"]

shift ==
  /\ Decides /\ ~parse_success /\ ~hard_reduce
  /\ precedence_defined /\ cmp <= 0
  /\ LET less == IF cmp < 0 THEN <<Less>> ELSE <<>>
     IN  Expected(Replace(Goes(Rest \o less \o Operand \o <<Token(second_op, At)>>,
                               FALSE)),
                  AsOperand(machine))

precedence_error ==
  /\ Decides /\ ~parse_success /\ ~hard_reduce
  /\ ~precedence_defined
  /\ Reject(SYNTAX)

(***************************************************************************)
(* reduce: what is above the last "<" or "$" has to be one of the rules    *)
(*   expr -> expr binary_op expr | unary_op expr | id                      *)
(***************************************************************************)
Stack  == Rest \o Operand
Base   == LET s == Stack
          IN  CHOOSE i \in 1..Len(s) :
                /\ s[i].type \in {"LT", "DOLLAR"}
                /\ \A j \in (i+1)..Len(s) : s[j].type \in {"EXPR", "TOKEN"}
handle == SubSeq(Stack, Base + 1, Len(Stack))
kept   == SubSeq(Stack, 1, IF Stack[Base].type = "LT" THEN Base - 1 ELSE Base)

IsExpr(i)  == i <= Len(handle) /\ handle[i].type = "EXPR"
HasOp(i)   == i <= Len(handle) /\ handle[i].type = "TOKEN"

BeginsBinary == IsExpr(1) /\ HasOp(2) /\ IsBinaryOp(handle[2].op) /\ IsExpr(3)
BeginsUnary  == HasOp(1) /\ IsUnaryOp(handle[1].op) /\ IsExpr(2)
BeginsId     == HasOp(1) /\ handle[1].op = "id"

BinaryRule == Len(handle) = 3 /\ BeginsBinary
UnaryRule  == Len(handle) = 2 /\ BeginsUnary
IdRule     == Len(handle) = 1 /\ BeginsId

Value(at) == IF text[at] = "literal" THEN Literal(at)
                                     ELSE machine.lf[LocalVar(text[at])]

(* What check_rule emits.                                                  *)
Emitted(m) == CASE BinaryRule -> expression_binary(m, handle[2].op)
                [] UnaryRule  -> expression_unary(m, handle[1].op)
                [] IdRule     -> PUSHS(m, Value(handle[1].at))

Reduces == /\ Decides /\ ~parse_success
           /\ hard_reduce \/ (precedence_defined /\ cmp > 0)

reduce ==
  /\ Reduces
  /\ BinaryRule \/ UnaryRule \/ IdRule
  /\ Silently(Replace(Goes(kept \o <<Expr(1)>>, hard_reduce)),
              Emitted(AsOperand(machine)))

(* The operands' types do not fit, or the handle is no rule.  A handle     *)
(* that begins with neither an expression nor a unary operator, and one    *)
(* that goes on after a rule, are rejected without setting an error.       *)
reduce_types ==
  /\ Reduces
  /\ BeginsBinary \/ BeginsUnary
  /\ Reject(EXPRESSIONS_TYPE_INCOMPATIBILITY)

Unfinished == \/ IsExpr(1) /\ ~BeginsBinary
              \/ HasOp(1) /\ IsUnaryOp(handle[1].op) /\ ~BeginsUnary

reduce_syntax ==
  /\ Reduces
  /\ ~(BinaryRule \/ UnaryRule \/ IdRule)
  /\ Reject(IF Unfinished THEN SYNTAX ELSE error)

(***************************************************************************)
(* parse_success: parse_init returns the number of values to its caller.   *)
(***************************************************************************)
Received == IF HasExpr THEN NumValues(Upper.n) ELSE 0

Return(c) == Append(SubSeq(contexts, 1, Len(contexts) - 2), c)

Pushed(c, n, how) == [c EXCEPT !.items = Append(@, Expr(n)), !.parsed = how]

(* The rest of parse_parents.                                              *)
parse_parents_end ==
  /\ Decides /\ parse_success
  /\ Caller.kind = "parse"
  /\ IF Received > 0 /\ Tok = ")"
     THEN Expected(Return(Pushed(Caller, Received, "parents")), WithNil(machine))
     ELSE Reject(SYNTAX)

(* Only a return may have no expression at all.                            *)
MayBeEmpty == Caller.kind = "return" /\ Caller.cnt = 0

parse_init_end ==
  /\ Decides /\ parse_success
  /\ Caller.kind # "parse"
  /\ IF Received > 0
     THEN Silently(Return([Caller EXCEPT !.last = Received]), WithNil(machine))
     ELSE IF MayBeEmpty THEN Accept(machine) /\ UNCHANGED <<text, error>>
                        ELSE Reject(SYNTAX)

(* An expression follows a comma.                                          *)
NextExpr(m) ==
  Expected(Append(Replace([Top EXCEPT !.cnt = @ + 1, !.last = 0]), NewParse), m)

(* Fault: values are numbered in the order they are popped.                *)
AsPopped(n, i) == i

(***************************************************************************)
(* func_call, from the name to the parenthesis.                            *)
(***************************************************************************)
(* The next token is t1, and t2 the one after it.                          *)
AdvanceOver(t1) == /\ At + 1 < MaxTokens
                   /\ \E t2 \in Tokens : /\ Readable(contexts[1].kind, text \o <<t1, t2>>)
                                         /\ text' = text \o <<t1, t2>>

Calls == \/ Parsing("parse") /\ AsksForName
         \/ Parsing("function")
         \/ Parsing("global")

func_call_begin ==
  /\ Calls /\ Tok \in DOMAIN Functions
  /\ \/ AdvanceOver("(")
        /\ Proceed(Push(Context("call", Tok, <<>>)),
                   IF Tok = Write THEN machine ELSE CREATEFRAME(machine))
     \/ \E e \in {SYNTAX, LEXICAL} : Reject(e)

global_expression_undefined ==
  /\ Parsing("global") /\ Tok \notin DOMAIN Functions
  /\ Reject(DEFINITION)

(* The call is emitted and its values become an expression; a statement    *)
(* that is a call ends here.                                               *)
EndCall(m) ==
  LET called == IF Top.fun = Write THEN m ELSE func_call(m, Top.fun)
      n      == Functions[Top.fun].returns
  IN  IF Caller.kind = "parse"
      THEN Expected(Return(Pushed(Caller, n, "function")),
                    func_call_return_values(called, n))
      ELSE \/ Advance /\ Accept(called) /\ UNCHANGED error
           \/ Reject(LEXICAL)

fc_expr ==
  /\ Parsing("call") /\ Top.last = 0
  /\ IF Tok # ")" THEN Silently(Push(NewParse), machine)
     ELSE IF Functions[Top.fun].params > 0 THEN Reject(FUNCTION_SEMANTICS)
                                           ELSE EndCall(machine)

(* The values of the last expression are the last of n; the i-th to be     *)
(* popped is the i-th from the end.                                        *)
FromLast(n, i) == n - i - 1

PassLast(m) ==
  LET Pass(k, i) == pass_param(k, FromLast(Functions[Top.fun].params, i))
  IN  IF Top.fun = Write THEN multiple_write(m, Top.last)
                         ELSE Repeat(m, Top.last, Pass)

TooFewOrMany == /\ Top.fun # Write
                /\ Top.cnt + Top.last # Functions[Top.fun].params

fc_other_expr_end ==
  /\ Parsing("call") /\ Top.last > 0
  /\ Tok = ")"
  /\ \/ ~TooFewOrMany /\ EndCall(PassLast(machine))
     \/ Top.fun # Write /\ Reject(FUNCTION_SEMANTICS)

(* Another expression gives one argument, whatever it is; all are written. *)
PassFirst(m) == IF Top.fun = Write
                THEN multiple_write(m, Top.last)
                ELSE pass_param(clear_expressions(m, Top.last), Top.cnt)

fc_other_expr ==
  /\ Parsing("call") /\ Top.last > 0
  /\ Tok # ")"
  /\ IF Tok = "," THEN \/ NextExpr(PassFirst(machine))
                       \/ Top.fun # Write /\ Reject(FUNCTION_SEMANTICS)
                  ELSE Reject(SYNTAX)

(***************************************************************************)
(* Return_expressions.                                                     *)
(***************************************************************************)
r_other_expr ==
  /\ Parsing("return") /\ Top.last > 0
  /\ Tok = ","
  /\ \/ NextExpr(pass_return(clear_expressions(machine, Top.last), Top.cnt))
     \/ Reject(FUNCTION_SEMANTICS)

r_other_expr_end ==
  /\ Parsing("return") /\ Top.last > 0
  /\ Tok # ","
  /\ LET received == Top.cnt + Top.last
         Pass(m, i) == pass_return(m, FromLast(received, i))
     IN  \/ /\ received <= DeclaredReturns
            /\ Accept(Repeat(machine, Top.last, Pass))
            /\ UNCHANGED <<text, error>>
         \/ Reject(FUNCTION_SEMANTICS)

(***************************************************************************)
(* Assignments.  The list of identifiers is built by prepending: the last  *)
(* variable is its head.                                                   *)
(***************************************************************************)
(* Fault: the last variable is the list's last.                            *)
Appended(x, ids) == Append(ids, x)

Prepended(x, ids) == <<x>> \o ids

assign_id ==
  /\ Parsing("function") /\ Tok \notin DOMAIN Functions
  /\ IF Tok \in Variables
     THEN Expected(Replace(Context("assign", "", <<Tok>>)), machine)
     ELSE Reject(DEFINITION)

a_other_id ==
  /\ Parsing("assign") /\ Top.last = 0
  /\ CASE Tok = "=" -> Expected(Push(NewParse), machine)
       [] Tok = "," ->
            \/ \E x \in Variables :
                 /\ AdvanceOver(x)
                 /\ Proceed(Replace([Top EXCEPT !.ids = Prepended(x, @)]), machine)
            \/ \E e \in {LEXICAL, SYNTAX, DEFINITION} : Reject(e)
       [] OTHER -> Reject(SYNTAX)

a_other_expr ==
  /\ Parsing("assign") /\ Top.last > 0
  /\ Tok = ","
  /\ NextExpr(clear_expressions(machine, Top.last))

(* The variables get the values from the stack, the last variable first.   *)
(* A type that does not fit stops this; a_other_id returns true all the    *)
(* same.                                                                   *)
check_multiple_assignment ==
  LET surplus == Top.cnt + Top.last - Len(Top.ids)
      Pop(k, i)    == POPS(k)
      Assign(k, i) == var_assignment(k, Top.ids[i + 1])
      Assigned(n)  == Repeat(Repeat(machine, surplus, Pop), n, Assign)
  IN  \/ /\ surplus < 0
         /\ Accept(machine) /\ error' = SEMANTICS_OTHER
      \/ /\ surplus >= 0
         /\ Accept(Assigned(Len(Top.ids))) /\ UNCHANGED error
      \/ /\ surplus >= 0
         /\ \E n \in 0..(Len(Top.ids) - 1) : Accept(Assigned(n))
         /\ error' = TYPE_MISSMATCH

a_other_expr_end ==
  /\ Parsing("assign") /\ Top.last > 0
  /\ Tok # ","
  /\ check_multiple_assignment /\ UNCHANGED text

(***************************************************************************)
(* Default_expression: the first value is left in GF@%expr_result.         *)
(***************************************************************************)
default_expression_end ==
  /\ Parsing("default") /\ Top.last > 0
  /\ Accept(POPS(clear_expressions(machine, Top.last)))
  /\ UNCHANGED <<text, error>>

(***************************************************************************)
(* The specification.                                                      *)
(***************************************************************************)
Locals == [x \in {LocalVar(v) : v \in Variables}
                 \union {ReturnVar(i) : i \in 0..(DeclaredReturns - 1)} |->
             IF x[1] = "var" THEN Initial(x[2]) ELSE Nil]

Begin(s) == IF s \in {"default", "return"} THEN <<Context(s, "", <<>>), NewParse>>
                                           ELSE <<Context(s, "", <<>>)>>

Init ==
  /\ \E s \in Statements :
       /\ contexts = Begin(s)
       /\ \E t \in IF s \in {"default", "return"} THEN Tokens ELSE Names :
            Readable(s, <<t>>) /\ text = <<t>>
  /\ machine = Started(Locals)
  /\ outcome = "parsing" /\ error = NOERROR

Terminating == outcome # "parsing" /\ UNCHANGED vars

Parse    == \/ parse_parents \/ parse_function_undefined \/ shift
            \/ precedence_error \/ reduce \/ reduce_types \/ reduce_syntax
            \/ parse_parents_end \/ parse_init_end
Call     == \/ func_call_begin \/ global_expression_undefined
            \/ fc_expr \/ fc_other_expr_end \/ fc_other_expr
Return_expressions  == r_other_expr \/ r_other_expr_end
Function_expression == assign_id \/ a_other_id \/ a_other_expr \/ a_other_expr_end

Next == \/ Parse \/ Call \/ Return_expressions \/ Function_expression
        \/ default_expression_end
        \/ Terminating

Spec == Init /\ [][Next]_vars

(***************************************************************************)
(* The data stack.                                                         *)
(***************************************************************************)
(* h[1] + ... + h[n]                                                       *)
SumOf(h, n) == LET sum[i \in 0..n] == IF i = 0 THEN 0 ELSE sum[i-1] + h[i]
               IN  sum[n]

(* The values that a context has on the data stack.                        *)
ItemValues(items) == SumOf([i \in 1..Len(items) |-> items[i].n], Len(items))

Held(c) == CASE c.kind = "parse"  -> ItemValues(c.items)
             [] c.kind = "assign" -> c.cnt + c.last
             [] OTHER             -> c.last

AllHeld(cs) == SumOf([i \in 1..Len(cs) |-> Held(cs[i])], Len(cs))

(* While a statement is parsed the data stack holds exactly the values of  *)
(* the expressions on the precedence stacks and of those not yet used.     *)
StackIsTheParse ==
  outcome = "parsing" /\ machine.fault = NoFault =>
    Len(machine.data) = AllHeld(contexts)
=============================================================================
