----------------------------- MODULE Reference ------------------------------
(***************************************************************************)
(* What a statement's text means, as section 5.2 of the assignment         *)
(* (assignmet/ifj2021.pdf) and the comment above the precedence functions  *)
(* (expressions.c:152) say it, without a stack: an expression is split at  *)
(* its weakest operator outside parentheses.                               *)
(***************************************************************************)
EXTENDS Expressions, FiniteSets, FiniteSetsExt, SequencesExt

(* Section 5.2: the greater, the weaker; `^', `not', unary minus, `%',     *)
(* `and' and `or' are the program's own.                                   *)
Priority(op) == CASE op = "^"                         -> 0
                  [] op \in {"*", "/", "//", "%"}     -> 2
                  [] op \in {"+", "-"}                -> 3
                  [] op = ".."                        -> 4
                  [] op \in {"<", "<=", ">", ">=", "==", "~="} -> 5
                  [] op = "and"                       -> 6
                  [] op = "or"                        -> 7
UnaryPriority == 1
FromTheRight  == {".."}

(* Positions i..j that no parenthesis opened in i..j encloses.             *)
Outside(i, j) ==
  {k \in i..j : Cardinality({l \in i..(k-1) : text[l] = "("})
                  = Cardinality({l \in i..(k-1) : text[l] = ")"})}

EndsOperand(t) == t \in Variables \union {"literal", ")"}

BinaryAt(i, j) ==
  {k \in Outside(i, j) : k > i /\ IsBinaryOp(text[k]) /\ EndsOperand(text[k-1])}

Weakest(i, j) ==
  LET priority == Max({Priority(text[k]) : k \in BinaryAt(i, j)})
      weakest  == {k \in BinaryAt(i, j) : Priority(text[k]) = priority}
  IN  IF \E k \in weakest : text[k] \in FromTheRight THEN Min(weakest)
                                                     ELSE Max(weakest)

HasUnary(i)   == text[i] \in {"#", "not", "-"}
SplitsAtBinary(i, j) == /\ BinaryAt(i, j) # {}
                        /\ HasUnary(i) => Priority(text[Weakest(i, j)])
                                            > UnaryPriority

RECURSIVE Values(_, _), ValueList(_, _)

FirstValue(i, j) == LET v == Values(i, j) IN IF v = <<>> THEN Nil ELSE v[1]

(* The values of the expression text[i..j].                                *)
Values(i, j) ==
  CASE SplitsAtBinary(i, j) ->
         LET k == Weakest(i, j)
         IN  << Binary(text[k], FirstValue(i, k - 1), FirstValue(k + 1, j)) >>
    [] ~SplitsAtBinary(i, j) /\ HasUnary(i) ->
         << Unary(IF text[i] = "-" THEN "neg" ELSE text[i], FirstValue(i + 1, j)) >>
    [] text[i] = "(" -> LET v == Values(i + 1, j - 1)
                        IN  IF v = <<>> THEN << Nil >> ELSE v
    [] i = j /\ text[i] = "literal" -> << Literal(i) >>
    [] i = j /\ text[i] \in Variables -> << Initial(text[i]) >>
    [] ~SplitsAtBinary(i, j) /\ text[i] \in DOMAIN Functions ->
         [n \in 1..Functions[text[i]].returns |->
            Result(text[i], n - 1, ValueList(i + 2, j - 1))]

(* The values of the expressions in text[i..j], an expression at a time.   *)
AtLeastNil(v) == IF v = <<>> THEN << Nil >> ELSE v

ValueLists(i, j) ==
  LET ends   == {k \in Outside(i, j) : text[k] = ","} \union {j + 1}
      after(k) == Min({l \in ends : l > k})
  IN  IF j < i THEN <<>>
      ELSE LET lists[k \in {i - 1} \union ends] ==
                 IF k = j + 1 THEN <<>>
                 ELSE << AtLeastNil(Values(k + 1, after(k) - 1)) >> \o lists[after(k)]
           IN  lists[i - 1]

(* Of each expression but the last one the first value counts, of the last *)
(* one all do.                                                             *)
ValueList(i, j) ==
  LET lists == ValueLists(i, j)
  IN  FlattenSeq([k \in DOMAIN lists |->
                    IF k = Len(lists) THEN lists[k] ELSE << lists[k][1] >>])

(* write writes all values of all its arguments (expressions.c:1130).      *)
AllValues(i, j) == FlattenSeq(ValueLists(i, j))
=============================================================================
