-------------------------------- MODULE Bytes --------------------------------
(***************************************************************************)
(* Bytes of the source text, the token types and keywords (scanner.h), and *)
(* what strtoull and strtod make of the text of a number.                  *)
(***************************************************************************)
EXTENDS Integers, Sequences, SequencesExt, TLC

CONSTANTS Keywords,   \* KEYWORDS(X): a function from words to token types
          UINT64_MAX  \* the greatest integer strtoull returns

(* A byte above 254 would be read as EOF: char is signed and the tape's    *)
(* getter returns it as it is.  No UTF-8 text holds one.                   *)
Byte == 0..254
EOF  == -1
Char == 0..255   \* what a string literal may hold

TAB == 9     NL == 10    CR == 13    SPACE == 32   QUOTE == 34
PLUS == 43   MINUS == 45  DOT == 46  SLASH == 47   LESS == 60
EQUALS == 61 GREATER == 62 OPEN == 91 BACKSLASH == 92 CLOSE == 93
UNDERSCORE == 95 TILDE == 126

Digit    == 48..57
Nonzero  == 49..57
Alpha    == 65..90 \union 97..122
IdStart  == Alpha \union {UNDERSCORE}
IdChar   == IdStart \union Digit
Hex      == Digit \union 65..70 \union 97..102
Exponent == {69, 101}                                  \* E, e
Blank    == {TAB, NL, CR, SPACE}

(* SINGLE_CHAR_TOKENS(X): (  )  +  *  #  :  ,  %  ^                         *)
SingleChar ==
  [c \in {35, 37, 40, 41, 42, 43, 44, 58, 94} |->
     CASE c = 40 -> "LPAREN" [] c = 41 -> "RPAREN" [] c = 43 -> "ADD"
       [] c = 42 -> "MUL" [] c = 35 -> "HASH" [] c = 58 -> "COLON"
       [] c = 44 -> "COMMA" [] c = 37 -> "PERCENT" [] c = 94 -> "CARET"]

(* The types of the tokens that have an attribute, and of the others.       *)
Valued == {"ID", "STR", "NUM_I", "NUM_F"}
Valueless ==
  {"DEAD", "EOFILE", "NE", "EQ", "LT", "LE", "GT", "GE", "ASSIGN", "DIV_I",
   "DIV_F", "SUB", "STRCAT"}
    \union {SingleChar[c] : c \in DOMAIN SingleChar}
    \union {Keywords[w] : w \in DOMAIN Keywords}

ASSUME KeywordsAssumption ==
  \A w \in DOMAIN Keywords : w \in Seq(Byte) /\ Keywords[w] \notin Valued
ASSUME WidthAssumption == UINT64_MAX \in Nat

(* An attribute is a sequence: the bytes of an identifier or a string, the *)
(* value of an integer, mantissa and exponent of a float, or nothing.      *)
None == <<>>

Decimal(text) == FoldLeft(LAMBDA n, c : 10 * n + (c - 48), 0, text)

Strtoull(text) ==
  IF Decimal(text) > UINT64_MAX THEN UINT64_MAX ELSE Decimal(text)

(* strtod, as <<m, e>> standing for m * 10^e.                              *)
Strtod(text) ==
  LET marks == {i \in 1..Len(text) : text[i] \in Exponent}
      mant  == IF marks = {} THEN text
               ELSE SubSeq(text, 1, (CHOOSE i \in marks : TRUE) - 1)
      expo  == SubSeq(text, Len(mant) + 2, Len(text))
      neg   == expo # <<>> /\ Head(expo) = MINUS
      point == {i \in 1..Len(mant) : mant[i] = DOT}
      shift == IF point = {} THEN 0
               ELSE Len(mant) - (CHOOSE i \in point : TRUE)
      IsDigit(c) == c \in Digit
      e == Decimal(SelectSeq(expo, IsDigit))
  IN  <<Decimal(SelectSeq(mant, IsDigit)), (IF neg THEN -e ELSE e) - shift>>

(* hex2dec.                                                                *)
hex2dec(c) == IF c <= 57 THEN c - 48 ELSE IF c > 90 THEN c - 87 ELSE c - 55
==============================================================================
