------------------------------ MODULE Tokenizer ------------------------------
(***************************************************************************)
(* The tokens of a source text, with no automaton: what the lexemes are,   *)
(* and that each token is read from the longest text that begins one.      *)
(***************************************************************************)
EXTENDS Bytes, FiniteSetsExt, TLC

CONSTANT Tapes

VARIABLES tape,     \* the text
          at,       \* where the rest of it begins, from 1
          tokens,   \* what was delivered: records [type, attr]
          failed,   \* a lexical error was reported
          stopped   \* nobody will ask for another token

lexVars == <<tape, at, tokens, failed, stopped>>

Text(i, j) == SubSeq(tape, i, j)
At(i)      == IF i \in 1..Len(tape) THEN tape[i] ELSE EOF
AllIn(w, S) == \A i \in 1..Len(w) : w[i] \in S

(* The end of the longest text from i for which P holds, i - 1 if none.    *)
Longest(i, P(_)) ==
  Max({i - 1} \union {j \in i..Len(tape) : P(Text(i, j))})

(***************************************************************************)
(* Numbers.  An integer of more than two digits may not begin with 0; an   *)
(* exponent may not follow 0 or 0d directly.                               *)
(***************************************************************************)
Plain(w)    == w # <<>> /\ AllIn(w, Digit)
Short(w)    == w[1] = 48 /\ Len(w) <= 2
Integer(w)  == Plain(w) /\ (w[1] # 48 \/ Short(w))
Fraction(w) == \E k \in 2..Len(w) - 1 :
                  /\ w[k] = DOT
                  /\ Plain(SubSeq(w, 1, k - 1))
                  /\ Plain(SubSeq(w, k + 1, Len(w)))
Scientific(w) ==
  \E k \in 2..Len(w) - 1 :
     LET mant == SubSeq(w, 1, k - 1)
         expo == SubSeq(w, k + 1, Len(w))
     IN  /\ w[k] \in Exponent
         /\ Fraction(mant) \/ (Plain(mant) /\ ~ Short(mant))
         /\ Plain(expo) \/ (expo[1] \in {PLUS, MINUS} /\ Plain(Tail(expo)))
Number(w) == Integer(w) \/ Fraction(w) \/ Scientific(w)

(* Something may be added to w to make it a number.                        *)
BeginsNumber(w) == \E s \in {<<>>, <<48>>, <<DOT, 48>>} : Number(w \o s)

(***************************************************************************)
(* Strings: what each escape sequence stands for.  A byte zero cannot be   *)
(* written in hexadecimal, and \x0h stands for nothing.                    *)
(***************************************************************************)
Simple == (116 :> 9) @@ (110 :> 10) @@ (BACKSLASH :> BACKSLASH) @@
          (QUOTE :> QUOTE)                                  \* t, n, \, "

Element(w) ==   \* the string that w stands for, as a set of at most one
  CASE Len(w) = 1 -> IF w[1] \notin {QUOTE, BACKSLASH, NL} THEN {w} ELSE {}
    [] Len(w) = 2 -> IF w[1] = BACKSLASH /\ w[2] \in DOMAIN Simple
                     THEN {<<Simple[w[2]]>>} ELSE {}
    [] Len(w) = 4 /\ w[1] = BACKSLASH /\ w[2] = 120 /\ AllIn(Tail(Tail(w)), Hex) ->
         LET v == 16 * hex2dec(w[3]) + hex2dec(w[4])
         IN  IF v = 0 THEN {} ELSE IF v < 16 THEN {<<>>} ELSE {<<v>>}
    [] Len(w) = 4 /\ w[1] = BACKSLASH /\ Plain(Tail(w)) ->
         IF Decimal(Tail(w)) <= 255 THEN {<<Decimal(Tail(w))>>} ELSE {}
    [] OTHER -> {}

(* The string whose text goes on at i, with the position after its quote;  *)
(* none if the text is not a string.                                       *)
Rest[i \in Nat] ==
  IF At(i) = EOF THEN {}
  ELSE IF At(i) = QUOTE THEN {[attr |-> <<>>, next |-> i + 1]}
  ELSE UNION {{[attr |-> v \o r.attr, next |-> r.next] :
                 v \in Element(Text(i, i + n - 1)), r \in Rest[i + n]} :
              n \in {n \in {1, 2, 4} : /\ i + n <= Len(tape)
                                       /\ Element(Text(i, i + n - 1)) # {}}}

(***************************************************************************)
(* Comments and blanks.  A block comment ends with its second "]".         *)
(***************************************************************************)
CommentAt(i) == At(i) = MINUS /\ At(i + 1) = MINUS

CommentEnds(i) ==
  IF At(i + 2) = OPEN /\ At(i + 3) = OPEN
  THEN {q \in i + 5..Len(tape) :
          tape[q] = CLOSE /\ \E p \in i + 4..q - 1 : tape[p] = CLOSE}
  ELSE {q \in i + 2..Len(tape) :
          tape[q] = NL /\ ~ (At(i + 2) = OPEN /\ q = i + 3)}

Skip[i \in Nat] ==
  IF At(i) \in Blank THEN Skip[i + 1]
  ELSE IF CommentAt(i) /\ CommentEnds(i) # {}
       THEN Skip[Min(CommentEnds(i)) + 1]
       ELSE i

(***************************************************************************)
(* The token at i, where nothing is to be skipped.                         *)
(***************************************************************************)
Operators ==
  (<<GREATER>> :> "GT") @@ (<<GREATER, EQUALS>> :> "GE") @@
  (<<LESS>> :> "LT") @@ (<<LESS, EQUALS>> :> "LE") @@
  (<<EQUALS>> :> "ASSIGN") @@ (<<EQUALS, EQUALS>> :> "EQ") @@
  (<<TILDE, EQUALS>> :> "NE") @@ (<<MINUS>> :> "SUB") @@
  (<<SLASH>> :> "DIV_F") @@ (<<SLASH, SLASH>> :> "DIV_I") @@
  (<<DOT, DOT>> :> "STRCAT")

Token(type, attr, next) == [type |-> type, attr |-> attr, next |-> next]
Dead == Token("DEAD", None, at)

Word(i) ==
  LET IsWord(w) == AllIn(w, IdChar)
      j == Longest(i, IsWord)
      w == Text(i, j)
  IN  IF w \in DOMAIN Keywords THEN Token(Keywords[w], None, j + 1)
                               ELSE Token("ID", w, j + 1)

(* A number needs a byte after it.                                         *)
NumberToken(i) ==
  LET j == Longest(i, BeginsNumber)
      w == Text(i, j)
  IN  IF ~ Number(w) \/ j = Len(tape) THEN Dead
      ELSE IF Integer(w) THEN Token("NUM_I", <<Strtoull(w)>>, j + 1)
                         ELSE Token("NUM_F", Strtod(w), j + 1)

OperatorToken(i) ==
  LET IsOperator(w) == w \in DOMAIN Operators
      j == Longest(i, IsOperator)
  IN  IF j < i \/ CommentAt(i) THEN Dead
                               ELSE Token(Operators[Text(i, j)], None, j + 1)

TokenAt(i) ==
  LET c == At(i)
  IN  CASE c = EOF -> Token("EOFILE", None, Len(tape) + 1)
        [] c \in IdStart -> Word(i)
        [] c \in Digit -> NumberToken(i)
        [] c \in DOMAIN SingleChar -> Token(SingleChar[c], None, i + 1)
        [] c = QUOTE -> IF Rest[i + 1] = {} THEN Dead
                        ELSE LET r == CHOOSE r \in Rest[i + 1] : TRUE
                             IN  Token("STR", r.attr, r.next)
        [] OTHER -> OperatorToken(i)

LexInit ==
  /\ tape \in Tapes /\ at = 1 /\ tokens = <<>>
  /\ failed = FALSE /\ stopped = FALSE

Deliver ==
  /\ ~ failed /\ ~ stopped
  /\ LET t == TokenAt(Skip[at])
     IN  /\ tokens' = Append(tokens, [type |-> t.type, attr |-> t.attr])
         /\ at' = t.next
         /\ failed' = (t.type = "DEAD")
  /\ UNCHANGED <<tape, stopped>>

Stop ==
  /\ ~ stopped /\ stopped' = TRUE
  /\ UNCHANGED <<tape, at, tokens, failed>>

LexSpec == LexInit /\ [][Stop \/ Deliver]_lexVars /\ WF_lexVars(Stop \/ Deliver)
==============================================================================
