--------------------------- MODULE MCExpressions ----------------------------
(* Expressions on the texts the language has: see the predicates below.    *)
EXTENDS Reference

MCNoFunctions == <<>>

Signature(params, returns) == [params |-> params, returns |-> returns]

(* pair takes two arguments, two returns two values, none returns nothing. *)
MCFunctions == [pair |-> Signature(2, 1), two |-> Signature(0, 2),
                none |-> Signature(0, 0), write |-> Signature(0, 0)]

(* The built-in functions of tests/testgen.c's program 216.                *)
MCNested == [chr |-> Signature(1, 1), tointeger |-> Signature(1, 1)]

(***************************************************************************)
(* Values of Readable.                                                     *)
(***************************************************************************)
AnyText(statement, t) == TRUE

(* No operand is followed by a parenthesis.                                *)
WellPlaced(t) == \A k \in 1..(Len(t) - 1) : t[k+1] = "(" => ~EndsOperand(t[k])

(* `^' occurs once at most.                                                *)
OnePower(t) == Cardinality({k \in DOMAIN t : t[k] = "^"}) <= 1

(* Nothing but operators, literals and parentheses.                        *)
OnlyOperators(t) ==
  LET allowed == BinaryOps \union UnaryOps \union {"literal", "(", ")", "end"}
  IN  \A k \in DOMAIN t : t[k] \in allowed

(* A text as long as its bound allows ends there.                          *)
Bounded(t, bound) == /\ Len(t) <= bound
                     /\ Len(t) = bound => t[bound] \in {")", "end"}

(* Long texts have two operators only, which group to the left and to the  *)
(* right.                                                                  *)
FewOperators(t) == Range(t) \subseteq {"-", "..", "literal", "(", ")", "end"}

OperatorText(t) == /\ OnlyOperators(t)
                   /\ Bounded(t, IF FewOperators(t) THEN 8 ELSE 7)
                   /\ WellPlaced(t) /\ OnePower(t)

(* No call stands in the arguments of another one; only in write's may     *)
(* other functions be called.                                              *)
Count(t, i, j, tok) == Cardinality({k \in i..j : t[k] = tok})

Encloses(t, i, j) ==
  \A k \in (i+1)..(j-1) : Count(t, i, k, "(") > Count(t, i, k, ")")

Undisturbed(t) ==
  LET calls == {k \in DOMAIN t : t[k] \in DOMAIN Functions}
  IN  \A i, j \in calls :
        i < j /\ Encloses(t, i, j) => t[i] = Write /\ t[j] # Write

(* In a statement that begins with a call, operands are literals and may   *)
(* have `..' between them; elsewhere they are variables.                   *)
OnlyCalls(t) ==
  LET without == IF t[1] \in DOMAIN Functions THEN Variables \union {"="}
                                              ELSE {"literal", ".."}
  IN  Range(t) \intersect (without \union (BinaryOps \ {".."}) \union UnaryOps) = {}

CallText(t, bound) == /\ Bounded(t, bound) /\ OnlyCalls(t)
                      /\ WellPlaced(t) /\ Undisturbed(t)

(* Operators are looked at in expressions, calls in the other statements;  *)
(* a return statement has no names in front of its expressions.            *)
StatementText(statement, t) ==
  CASE statement = "default" -> OperatorText(t)
    [] statement = "return"  -> CallText(t, MaxTokens - 1)
    [] OTHER                 -> CallText(t, MaxTokens)

(***************************************************************************)
(* Properties.                                                             *)
(***************************************************************************)
Done(kind) == outcome = "accepted" /\ error = NOERROR /\ contexts[1].kind = kind

NothingLeft == machine.fault = NoFault /\ machine.data = <<>>

(* Of an accepted expression the generated code computes the value that    *)
(* priorities, associativity and parentheses give it, and leaves nothing   *)
(* on the data stack.                                                      *)
ValueOfExpression ==
  Done("default") => NothingLeft /\ machine.result = FirstValue(1, At - 1)

(* The values a return statement gives, in order, the first one of each    *)
(* expression but the last; return values without a value are nil.         *)
ReturnedInOrder ==
  Done("return") =>
    LET given == ValueList(1, At - 1)
    IN  /\ NothingLeft /\ Len(given) <= DeclaredReturns
        /\ \A i \in 1..DeclaredReturns :
             machine.lf[ReturnVar(i - 1)]
               = IF i <= Len(given) THEN given[i] ELSE Nil

(* An assignment stores the values in order, all of them computed before   *)
(* any is stored, and drops the surplus.                                   *)
AssignedInOrder ==
  Done("assign") =>
    LET assign == CHOOSE k \in 1..At : text[k] = "="
        given  == ValueList(assign + 1, At - 1)
        uses(x) == {k \in 1..(assign - 1) : text[k] = x}
    IN  /\ NothingLeft
        /\ \A x \in Variables :
             machine.lf[LocalVar(x)]
               = IF uses(x) = {} THEN Initial(x) ELSE given[(Min(uses(x)) + 1) \div 2]

(* A call finds its arguments in the frame, in order; write writes them.   *)
CalledWithArguments ==
  Done("global") =>
    LET given == ValueList(3, At - 2)
    IN  /\ NothingLeft
        /\ IF text[1] = Write
           THEN machine.out = AllValues(3, At - 2)
           ELSE /\ Len(given) = Functions[text[1]].params
                /\ \A i \in 1..Len(given) : machine.tf[1][Param(i - 1)] = given[i]

(***************************************************************************)
(* What the program's tests say of expressions, and what is not so.        *)
(***************************************************************************)
(* The code of an accepted statement runs without a fault: tests/testgen.c *)
(* expects it of its program 216, chr(tointeger(k)).                       *)
EmittedCodeRuns == outcome = "accepted" => machine.fault = NoFault
=============================================================================
