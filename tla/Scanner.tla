------------------------------- MODULE Scanner -------------------------------
(***************************************************************************)
(* The lexical analyser (scanner.c) reading the source tape (progfile.c)   *)
(* one byte a step, for a parser that may stop asking after any token.     *)
(* The automata are tables of moves <<from, bytes, to>>.  A token's string *)
(* is named by where the token begins; "heap" holds the live ones.         *)
(***************************************************************************)
EXTENDS Bytes

CONSTANT Tapes   \* the source texts

ASSUME TapesAssumption == Tapes \subseteq Seq(Byte)

VARIABLES tape,     \* pfile->tape
          pos,      \* pfile->pos: the index, from 0, of the next byte
          state,    \* of the automaton; "CALL" when the parser is running
          start,    \* where the string being built begins
          lexeme,   \* the dynamic string being built
          escaped,  \* escaped_char
          lines, prev, curr,
          heap,     \* the dynamic strings that are allocated
          error,    \* the error register
          out, end  \* history: tokens delivered, end of the last good one

vars == <<tape, pos, state, start, lexeme, escaped, lines, prev, curr, heap,
          error, out, end>>
reading == <<tape, prev, curr, out, end, error>>

Zero == [type |-> "DEAD", attr |-> None, at |-> -1]

Moves(table, c) == {m \in table : m[1] = state /\ c \in m[2]}

(***************************************************************************)
(* The tape.  Reading past the end moves the head as well, and ungetc      *)
(* moves it back.                                                          *)
(***************************************************************************)
(* Fault: peek_at counts from the byte that was read last.                 *)
PeekBefore(n) == IF pos + n <= Len(tape) THEN tape[pos + n] ELSE EOF

Getc       == IF pos < Len(tape) THEN tape[pos + 1] ELSE EOF
Peek_at(n) == IF pos + n < Len(tape) THEN tape[pos + n + 1] ELSE EOF

(***************************************************************************)
(* Memory.  A token of type ID or STR owns its string.                     *)
(***************************************************************************)
(* Fault: the strings of string literals are forgotten.                    *)
OwnedByNames(t) == IF t.type = "ID" THEN {t.at} ELSE {}

Owned(t) == IF t.type \in {"ID", "STR"} THEN {t.at} ELSE {}

Init ==
  /\ tape \in Tapes /\ pos = 0 /\ state = "CALL" /\ start = 0
  /\ lexeme = <<>> /\ escaped = 0
  /\ lines = 1 /\ prev = Zero /\ curr = Zero
  /\ heap = {} /\ error = "NOERROR" /\ out = <<>> /\ end = 0

(* The parser asks again after any token but DEAD; after EOFILE it asks    *)
(* once, from stmt_list.                                                   *)
Asks == \/ out = <<>>
        \/ curr.type # "DEAD" /\ prev.type # "EOFILE"

get_next_token ==
  /\ state = "CALL" /\ Asks
  /\ heap' = heap \ Owned(prev)
  /\ prev' = curr
  /\ state' = "INIT"
  /\ UNCHANGED <<tape, pos, start, lexeme, escaped, lines, curr, error, out, end>>

Free_scanner ==
  /\ state = "CALL"
  /\ heap' = heap \ (Owned(prev) \union Owned(curr))
  /\ state' = "FREED"
  /\ UNCHANGED <<tape, pos, start, lexeme, escaped, lines, prev, curr, error, out, end>>

(* scanner() returns: the end of Get_next_token.  "at" names the token's   *)
(* string, if it has one.                                                  *)
Return(type, attr) ==
  /\ state' = "CALL"
  /\ curr' = [type |-> type, attr |-> attr, at |-> start]
  /\ out' = Append(out, [type |-> type, attr |-> attr])
  /\ error' = IF type = "DEAD" THEN "LEXICAL" ELSE error
  /\ end' = IF type = "DEAD" THEN end
            ELSE IF pos' > Len(tape) THEN Len(tape) ELSE pos'
  /\ lexeme' = <<>> /\ escaped' = 0
  /\ UNCHANGED <<tape, prev>>

(***************************************************************************)
(* scanner(): from next_lexeme.                                            *)
(***************************************************************************)
blank ==
  /\ state = "INIT" /\ Getc \in Blank
  /\ pos' = pos + 1
  /\ lines' = IF Getc \in {NL, CR} THEN lines + 1 ELSE lines
  /\ UNCHANGED <<reading, state, start, lexeme, escaped, heap>>

single_char ==
  /\ state = "INIT" /\ Getc \in DOMAIN SingleChar \union {EOF}
  /\ pos' = pos + 1
  /\ IF Getc = EOF THEN Return("EOFILE", None)
                   ELSE Return(SingleChar[Getc], None)
  /\ UNCHANGED <<start, lines, heap>>

minus ==
  /\ state = "INIT" /\ Getc = MINUS /\ Peek_at(1) # MINUS
  /\ pos' = pos + 1
  /\ Return("SUB", None)
  /\ UNCHANGED <<start, lines, heap>>

slash ==
  /\ state = "INIT" /\ Getc = SLASH
  /\ IF Peek_at(1) = SLASH THEN pos' = pos + 2 /\ Return("DIV_I", None)
                           ELSE pos' = pos + 1 /\ Return("DIV_F", None)
  /\ UNCHANGED <<start, lines, heap>>

(* The byte after the first dot is not given back.                         *)
dot ==
  /\ state = "INIT" /\ Getc = DOT
  /\ pos' = pos + 2
  /\ Return(IF Peek_at(1) = DOT THEN "STRCAT" ELSE "DEAD", None)
  /\ UNCHANGED <<start, lines, heap>>

(* With and without "=" behind.                                            *)
Relations ==
  [c \in {GREATER, LESS, EQUALS, TILDE} |->
     CASE c = GREATER -> <<"GE", "GT">> [] c = LESS -> <<"LE", "LT">>
       [] c = EQUALS -> <<"EQ", "ASSIGN">> [] c = TILDE -> <<"NE", "DEAD">>]

lex_relate_op ==
  /\ state = "INIT" /\ Getc \in DOMAIN Relations
  /\ \/ /\ Peek_at(1) = EQUALS /\ pos' = pos + 2
        /\ Return(Relations[Getc][1], None)
     \/ /\ Peek_at(1) # EQUALS /\ pos' = pos + 1
        /\ Return(Relations[Getc][2], None)
  /\ UNCHANGED <<start, lines, heap>>

Known == Blank \union DOMAIN SingleChar \union DOMAIN Relations \union IdChar
         \union {MINUS, SLASH, DOT, QUOTE, EOF}

unrecognized ==
  /\ state = "INIT" /\ Getc \notin Known
  /\ pos' = pos + 1
  /\ Return("DEAD", None)
  /\ UNCHANGED <<start, lines, heap>>

(* Entering an automaton; the three that build a string allocate it.       *)
EnterAutomaton(s, p) ==
  /\ state = "INIT"
  /\ state' = s /\ pos' = p /\ start' = pos
  /\ UNCHANGED <<reading, lexeme, escaped, lines>>

start_identif == /\ Getc \in IdStart /\ EnterAutomaton("ID_INIT", pos)
                 /\ heap' = heap \union {pos}
start_number  == /\ Getc \in Digit /\ EnterAutomaton("NUM_INIT", pos)
                 /\ heap' = heap \union {pos}
start_string  == /\ Getc = QUOTE /\ EnterAutomaton("STR_INIT", pos + 1)
                 /\ heap' = heap \union {pos}
start_comment == /\ Getc = MINUS /\ Peek_at(1) = MINUS
                 /\ EnterAutomaton("COMMENT_INIT", pos + 2)
                 /\ UNCHANGED heap

(***************************************************************************)
(* lex_identif.                                                            *)
(***************************************************************************)
IdMoves == {<<"ID_INIT", IdStart, "ID_FINAL">>, <<"ID_FINAL", IdChar, "ID_FINAL">>}

lex_identif ==
  \E m \in Moves(IdMoves, Getc) :
    /\ pos' = pos + 1 /\ state' = m[3]
    /\ lexeme' = Append(lexeme, Getc)
    /\ UNCHANGED <<reading, start, escaped, lines, heap>>

(* At the end of the tape the head stays behind it; a keyword's string is  *)
(* not needed any more.                                                    *)
lex_identif_end ==
  /\ state = "ID_FINAL" /\ Moves(IdMoves, Getc) = {}
  /\ pos' = IF Getc = EOF THEN pos + 1 ELSE pos
  /\ IF lexeme \in DOMAIN Keywords
     THEN heap' = heap \ {start} /\ Return(Keywords[lexeme], None)
     ELSE UNCHANGED heap /\ Return("ID", lexeme)
  /\ UNCHANGED <<start, lines>>

(***************************************************************************)
(* lex_number.                                                             *)
(***************************************************************************)
NumMoves == {
  <<"NUM_INIT", {48}, "NUM_1">>,    <<"NUM_INIT", Nonzero, "NUM_2">>,
  <<"NUM_1", Digit, "NUM_3">>,      <<"NUM_1", {DOT}, "NUM_7">>,
  <<"NUM_2", Digit, "NUM_2">>,      <<"NUM_2", {DOT}, "NUM_7">>,
  <<"NUM_2", Exponent, "NUM_5">>,
  <<"NUM_3", Digit, "NUM_4">>,      <<"NUM_3", {DOT}, "NUM_7">>,
  <<"NUM_4", Digit, "NUM_4">>,      <<"NUM_4", {DOT}, "NUM_7">>,
  <<"NUM_4", Exponent, "NUM_5">>,
  <<"NUM_5", Digit, "NUM_9">>,      <<"NUM_5", {PLUS, MINUS}, "NUM_6">>,
  <<"NUM_6", Digit, "NUM_9">>,      <<"NUM_7", Digit, "NUM_8">>,
  <<"NUM_8", Digit, "NUM_8">>,      <<"NUM_8", Exponent, "NUM_5">>,
  <<"NUM_9", Digit, "NUM_9">>}

NumStates == {m[1] : m \in NumMoves}
Wholes    == {"NUM_1", "NUM_2", "NUM_3"}
Floats    == {"NUM_8", "NUM_9"}

lex_number ==
  \E m \in Moves(NumMoves, Getc) :
    /\ pos' = pos + 1 /\ state' = m[3]
    /\ lexeme' = Append(lexeme, Getc)
    /\ UNCHANGED <<reading, start, escaped, lines, heap>>

(* The loop ends at EOF before a final state is entered, so a number at    *)
(* the very end of the tape is an error.                                   *)
lex_number_end ==
  /\ state \in NumStates /\ Moves(NumMoves, Getc) = {}
  /\ heap' = heap \ {start}
  /\ IF Getc = EOF \/ state \notin Wholes \union Floats
     THEN pos' = pos + 1 /\ Return("DEAD", None)
     ELSE /\ UNCHANGED pos
          /\ IF state \in Floats THEN Return("NUM_F", Strtod(lexeme))
                                 ELSE Return("NUM_I", <<Strtoull(lexeme)>>)
  /\ UNCHANGED <<start, lines>>

(***************************************************************************)
(* lex_string.  STR_DEC_1_0 has no way in: STR_DEC_0_0 tests every digit   *)
(* before it tests for '0'.                                                *)
(***************************************************************************)
(* Fault: any digit may follow "25".                                       *)
AnyDigit == Digit

(* STR_DEC_1_2: what may follow "25".                                      *)
UpTo5 == 48..53

Escapes == [c \in {116, 110, BACKSLASH, QUOTE} |->
              CASE c = 116 -> TAB [] c = 110 -> NL [] OTHER -> c]

StrMoves == {
  <<"STR_INIT", {BACKSLASH}, "STR_ESC">>,
  <<"STR_INIT", Byte \ {BACKSLASH, QUOTE, NL}, "STR_INIT">>,
  <<"STR_ESC", {48}, "STR_DEC_0_0">>,     <<"STR_ESC", {49}, "STR_DEC_0_1">>,
  <<"STR_ESC", {50}, "STR_DEC_0_2">>,     <<"STR_ESC", {120}, "STR_HEX_1">>,
  <<"STR_ESC", DOMAIN Escapes, "STR_INIT">>,
  <<"STR_HEX_1", {48}, "STR_HEX_3">>,     <<"STR_HEX_1", Hex \ {48}, "STR_HEX_2">>,
  <<"STR_HEX_3", Hex \ {48}, "STR_INIT">>, <<"STR_HEX_2", Hex, "STR_INIT">>,
  <<"STR_DEC_0_0", Digit, "STR_DEC_1_1">>, <<"STR_DEC_0_1", Digit, "STR_DEC_1_1">>,
  <<"STR_DEC_0_2", 48..52, "STR_DEC_1_1">>, <<"STR_DEC_0_2", {53}, "STR_DEC_1_2">>,
  <<"STR_DEC_1_0", Nonzero, "STR_INIT">>,
  <<"STR_DEC_1_1", Digit, "STR_INIT">>,   <<"STR_DEC_1_2", UpTo5, "STR_INIT">>}

StrStates == {m[1] : m \in StrMoves}
LastDigit == {"STR_DEC_1_0", "STR_DEC_1_1", "STR_DEC_1_2"}

(* escaped_char after the byte c.                                          *)
EscapedBy(c) ==
  CASE state = "STR_ESC"  -> IF c \in Digit THEN 100 * (c - 48) ELSE 0
    [] state \in {"STR_DEC_0_0", "STR_DEC_0_1", "STR_DEC_0_2"} ->
         escaped + 10 * (c - 48)
    [] state \in LastDigit -> escaped + (c - 48)
    [] state = "STR_HEX_1" -> 16 * hex2dec(c)
    [] state \in {"STR_HEX_2", "STR_HEX_3"} -> escaped + hex2dec(c)
    [] OTHER -> escaped

(* What is appended to the string: STR_HEX_3 appends nothing.              *)
AppendedBy(c) ==
  CASE state = "STR_INIT" /\ c # BACKSLASH -> <<c>>
    [] state = "STR_ESC" /\ c \in DOMAIN Escapes -> <<Escapes[c]>>
    [] state \in LastDigit \union {"STR_HEX_2"} -> <<EscapedBy(c)>>
    [] OTHER -> <<>>

lex_string ==
  \E m \in Moves(StrMoves, Getc) :
    /\ pos' = pos + 1 /\ state' = m[3]
    /\ lexeme' = lexeme \o AppendedBy(Getc)
    /\ escaped' = EscapedBy(Getc)
    /\ UNCHANGED <<reading, start, lines, heap>>

lex_string_end ==
  /\ state \in StrStates /\ Moves(StrMoves, Getc) = {}
  /\ pos' = pos + 1
  /\ IF state = "STR_INIT" /\ Getc = QUOTE
     THEN UNCHANGED heap /\ Return("STR", lexeme)
     ELSE heap' = heap \ {start} /\ Return("DEAD", None)
  /\ UNCHANGED <<start, lines>>

(***************************************************************************)
(* process_comment.  Reading a newline counts a line, also the one that is *)
(* read in COMMENT_FINAL and given back.                                   *)
(***************************************************************************)
CommentMoves == {
  <<"COMMENT_INIT", {OPEN}, "COMMENT_BLOCK_1">>,
  <<"COMMENT_INIT", {NL}, "COMMENT_FINAL">>,
  <<"COMMENT_INIT", Byte \ {OPEN, NL}, "COMMENT_SLINE">>,
  <<"COMMENT_SLINE", {NL}, "COMMENT_FINAL">>,
  <<"COMMENT_SLINE", Byte \ {NL}, "COMMENT_SLINE">>,
  <<"COMMENT_BLOCK_1", {OPEN}, "COMMENT_BLOCK_2">>,
  <<"COMMENT_BLOCK_1", Byte \ {OPEN}, "COMMENT_SLINE">>,
  <<"COMMENT_BLOCK_2", {CLOSE}, "COMMENT_BLOCK_END">>,
  <<"COMMENT_BLOCK_2", Byte \ {CLOSE}, "COMMENT_BLOCK_2">>,
  <<"COMMENT_BLOCK_END", {CLOSE}, "COMMENT_FINAL">>,
  <<"COMMENT_BLOCK_END", Byte \ {CLOSE}, "COMMENT_BLOCK_END">>}

CommentStates == {m[1] : m \in CommentMoves} \union {"COMMENT_FINAL"}

process_comment ==
  \E m \in Moves(CommentMoves, Getc) :
    /\ pos' = pos + 1 /\ state' = m[3]
    /\ lines' = IF Getc = NL THEN lines + 1 ELSE lines
    /\ UNCHANGED <<reading, start, lexeme, escaped, heap>>

comment_over ==
  /\ state = "COMMENT_FINAL"
  /\ pos' = IF Getc = EOF THEN pos + 1 ELSE pos
  /\ lines' = IF Getc = NL THEN lines + 1 ELSE lines
  /\ state' = "INIT"
  /\ UNCHANGED <<reading, start, lexeme, escaped, heap>>

(* Fault: the loop of process_comment does not look for EOF.               *)
comment_without_end ==
  /\ state \in CommentStates \ {"COMMENT_FINAL"} /\ Getc = EOF
  /\ UNCHANGED vars

comment_unfinished ==
  /\ state \in CommentStates \ {"COMMENT_FINAL"} /\ Getc = EOF
  /\ pos' = pos + 1
  /\ Return("DEAD", None)
  /\ UNCHANGED <<start, lines, heap>>

Scan == \/ blank \/ single_char \/ minus \/ slash \/ dot \/ lex_relate_op
        \/ unrecognized
        \/ start_identif \/ lex_identif \/ lex_identif_end
        \/ start_number \/ lex_number \/ lex_number_end
        \/ start_string \/ lex_string \/ lex_string_end
        \/ start_comment \/ process_comment \/ comment_over \/ comment_unfinished

Terminating == state = "FREED" /\ UNCHANGED vars

Next == get_next_token \/ Free_scanner \/ Scan \/ Terminating

(* The scanner's loops run until they return, and the parser gives up or   *)
(* asks for the next token.                                                *)
Spec == Init /\ [][Next]_vars /\ WF_vars(Next)

-----------------------------------------------------------------------------

(* The attribute is a union: the member that was written is the one a      *)
(* reader of this type reads, and a string holds bytes.                    *)
Token(t) ==
  /\ t.type \in Valued \union Valueless /\ t.at \in Int
  /\ t.type \in {"ID", "STR"} => t.attr \in Seq(Char)
  /\ t.type = "NUM_I" => Len(t.attr) = 1
  /\ t.type = "NUM_F" => Len(t.attr) = 2
  /\ t.type \notin Valued => t.attr = None

(* Type invariant.  The head may stand behind the end of the tape, and     *)
(* escaped_char, a uint8_t, never has to wrap, in whatever way the digits  *)
(* of an escape sequence are read.                                         *)
TypeOK ==
  /\ tape \in Tapes /\ pos \in Nat
  /\ state \in {"CALL", "INIT", "FREED", "ID_INIT", "ID_FINAL"}
                 \union NumStates \union StrStates \union CommentStates
  /\ start \in Nat /\ lexeme \in Seq(Char) /\ escaped \in Char
  /\ lines \in Nat /\ Token(prev) /\ Token(curr)
  /\ heap \subseteq Nat /\ error \in {"NOERROR", "LEXICAL"} /\ end \in Nat

(* While the parser runs, exactly the strings of the previous and of the   *)
(* current token are allocated, each once: nothing a caller may still read *)
(* has been freed (Free_token, the keywords and DEAD tokens that give      *)
(* their buffer back), and nothing is left when the scanner is freed.      *)
TokenStringsAreOwned ==
  /\ state = "CALL"  => /\ heap = Owned(prev) \union Owned(curr)
                        /\ Owned(prev) \intersect Owned(curr) = {}
  /\ state = "FREED" => heap = {}

(* Every text is scanned to its end, or to where the parser stops: no      *)
(* automaton loops, not at the end of the tape either.                     *)
EventuallyFreed == <>(state = "FREED")

(* The scanner implements the tokenizer that knows no automaton: whatever  *)
(* is given back to the tape or peeked at, the tokens, their attributes    *)
(* and the places where they end are those of the longest lexemes.         *)
Promise == INSTANCE Tokenizer WITH
             at <- end + 1, tokens <- out, failed <- error = "LEXICAL",
             stopped <- state = "FREED"
TokenizerSpec == Promise!LexSpec
==============================================================================
